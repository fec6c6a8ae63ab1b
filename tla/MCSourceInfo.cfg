SPECIFICATION FairSpec
CONSTANTS
  Workers = {w1, w2, w3}
  Parallelism = 1
  Descriptors <- MCDescriptors
  FileOf <- MCFileOf
  PathOf <- MCPathOf
  SpareRoom = {"Get"}
  Locations <- MCLocations
  Plans <- MCPlans
INVARIANTS NoConcurrentMapAccess AnswersAreOwn
PROPERTIES HandlersEnd

SPECIFICATION TraversalSpec
CONSTANTS
  Comments <- MCComments
  Infos <- MCInfos
  Width = 1000
  Order <- MCOrder
  Kind <- MCKind
  File = "file"
  FilesToLint <- MCFiles
INVARIANTS HeaderIsFirst VisitsItsKind
CHECK_DEADLOCK FALSE

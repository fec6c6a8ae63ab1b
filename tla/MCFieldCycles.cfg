SPECIFICATION FairSpec
CONSTANTS
  Messages = {"A", "B", "C"}
  Types = {"a", "b", "c", "gone"}
  FilesOf = {"main", "lib", "far"}
  NoMessage = "none"
  Inputs <- MCInputs
INVARIANTS OnlyCyclesReported EveryCycleReported
PROPERTIES Terminates

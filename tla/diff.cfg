\* Two and three trees of at most three entries a directory, at most three levels deep.
SPECIFICATION Spec
CONSTANTS
  Directory <- Directories
  Input <- Inputs
  Place <- Places
  MaxPasses = 2
INVARIANTS
  TypeOK
  EachOnce
  MergedInOrder
  Repeats
PROPERTIES
  Ends
\* An enumeration ends.
CHECK_DEADLOCK FALSE

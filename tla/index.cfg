\* A directory with a file in it, and a path that is between the two in the index and
\* behind both as a string.
SPECIFICATION Spec
CONSTANTS
  Name <- Names
  Paths <- SmallPaths
  Listed <- Folded
  Blob = {old, new}
  Sides <- TwoOrThree
SYMMETRY Contents
INVARIANTS
  TypeOK
  NoCollision
  StagedAsInWork
  UnstagedAsInHead
PROPERTIES
  OthersKept
  HalfDeleted

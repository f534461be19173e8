\* Harry and Sally, each with a working copy of their own; every operation.
SPECIFICATION Spec
CONSTANTS
  Clone = {harry, sally}
  Worker = {harry, sally}
  Place <- OwnPlace
  Change = {a}
  Ops = {"stage", "commit", "pull", "push", "reset", "edit"}
  MaxCommits = 3
SYMMETRY CloneSymmetry
INVARIANTS
  TypeOK
  CleanupSafe
  FetchedOnRemote
PROPERTIES
  MergeHasMergedNodes
  KeepsHistory

\* Harry and Sally with two changes that may conflict.
SPECIFICATION Spec
CONSTANTS
  Clone = {harry, sally}
  Worker = {harry, sally}
  Place <- OwnPlace
  Change = {a, b}
  Ops = {"stage", "commit", "pull", "push", "edit"}
  MaxCommits = 3
SYMMETRY Symmetry
INVARIANTS
  CoversParents
  IndexCoversHead

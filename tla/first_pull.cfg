\* The initial pull is cut short and tried again.
SPECIFICATION Spec
CONSTANTS
  Clone = {harry, sally}
  Worker = {harry, sally}
  Place <- OwnPlace
  Change = {a}
  Ops = {"stage", "commit", "pull", "push"}
  MaxCommits = 2
SYMMETRY CloneSymmetry
INVARIANTS
  TrackingIsFound

\* Two workers on Harry's working copy, one on Sally's.
SPECIFICATION Spec
CONSTANTS
  Clone = {harry, sally}
  Worker = {ide, shell, sally}
  Place <- SharedPlace
  Change = {a}
  Ops = {"commit", "pull", "push"}
  MaxCommits = 3
SYMMETRY WorkerSymmetry
INVARIANTS
  FetchedOnRemote
PROPERTIES
  KeepsHistory

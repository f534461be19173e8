\* Two workers finish one merge of Harry's working copy.
SPECIFICATION Spec
CONSTANTS
  Clone = {harry, sally}
  Worker = {ide, shell, sally}
  Place <- SharedPlace
  Change = {a}
  Ops = {"commit", "pull", "push"}
  MaxCommits = 4
SYMMETRY WorkerSymmetry
PROPERTIES
  MergeHasMergedNodes

\* An object, a reference, a configuration and an index of a repository that may be
\* opened twice.
SPECIFICATION Spec
CONSTANTS
  Obj = {commit}
  Ref = {head}
  Conf = {conf}
  Ind = {index}
  Repo = Repo
  None = None
  MaxOpens = 2
  MaxHeld = 4
INVARIANTS
  TypeOK
  FreedOnce
  CallsSafe
PROPERTIES
  NothingLeaks
\* A user may stop using it.
CHECK_DEADLOCK FALSE

\* Lists of at most eight entries in several orders, for the root or a path below it.
SPECIFICATION Spec
CONSTANTS
  Name <- Names
  Listing <- Listings
  Root <- Roots
INVARIANTS
  TypeOK
  ParentFirst
  EntriesKept
  OnceUnlessReplaced
\* A walk ends.
CHECK_DEADLOCK FALSE

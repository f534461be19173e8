\* Lists of files, some of which have been replaced by directories.
SPECIFICATION Spec
CONSTANTS
  Name <- Names
  Listing <- FileListings
  Root <- WorkingCopy
INVARIANTS
  ReportedOnce
\* A walk ends.
CHECK_DEADLOCK FALSE

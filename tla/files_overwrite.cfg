SPECIFICATION FilesSpec
CONSTANTS
  Jobs = {j1, j2}
  Inodes = 5
  Outside = 2
INVARIANT OverwriteRecoverable
CHECK_DEADLOCK FALSE

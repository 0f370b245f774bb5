CONSTANTS
  Patterns <- MCPatterns
  Dirs <- MCDirs
  Home <- MCHome
  Inodes = {1, 2}
  Dev = 7
  Absent = 0
  Hour = 2
  Start = 3
  MaxTime = 7
SPECIFICATION Spec
INVARIANT IgnoreListFresh

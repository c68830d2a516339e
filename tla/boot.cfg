\* Both programs the kernel may start, every combination of failing mounts, and
\* boot lines of up to five words.
SPECIFICATION FairSpec
CONSTANTS
  Premounted <- MCPremounted
  Roots <- MCRoots
  Lines <- MCLines
  Files <- MCFiles
  Selves <- MCSelves
INVARIANTS TypeOK NothingHidden MountedOnce RunShared DevicesForTasks ScanDirThere LineKept OwnOptionsKill RescueIsLast
PROPERTIES Rescued

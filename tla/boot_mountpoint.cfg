\* As boot.cfg.
SPECIFICATION FairSpec
CONSTANTS
  Premounted <- MCPremounted
  Roots <- MCRoots
  Lines <- MCLines
  Files <- MCFiles
  Selves <- MCSelves
INVARIANTS MountPointsOnly

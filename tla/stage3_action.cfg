\* The flags are worked out three times, with three results.
SPECIFICATION FairSpec
CONSTANTS
  Procs = {q1}
  Self = Self
  Other = Other
  Args <- MCArgs
  Respawns = 0
INVARIANTS ActionAsRequested

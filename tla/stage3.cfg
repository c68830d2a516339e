\* Stage 3 as process 1 and as any other; three processes that fork and refuse.
SPECIFICATION FairSpec
CONSTANTS
  Procs = {q1, q2, q3}
  Self = Self
  Other = Other
  Args <- MCArgs
  Respawns = 1
INVARIANTS TypeOK NobodyLeft
PROPERTIES EndsDown

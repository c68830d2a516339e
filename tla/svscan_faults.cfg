\* Three directories for two slots; every system call that may fail does, and
\* signals are diverted to their programs, which are children too.
SPECIFICATION Spec
CONSTANTS
  Dirs = {a, b, c}
  Logged = {a}
  Pids = {p1, p2}
  NoPid = NoPid
  NoDir = NoDir
  Stranger = Stranger
  Inherited = {p1}
  max = 2
  Signals = {"ABRT", "USR1"}
  Commands = {}
  MaxControl = 0
  RESTART_DELAY = 1
  DIR_RETRY_TIMEOUT = 1
  CHECK_RETRY_TIMEOUT = 1
  DefaultTimeout = 1
  Never = 9
  DivertSignals = TRUE
  ForkCanFail = TRUE
  Faults = TRUE
SYMMETRY Symmetry
INVARIANTS TypeOK ChildrenMatchSlots NoLostChild PipesAccounted

\* fork fails once and no default timeout (-t) is given.
SPECIFICATION Spec
CONSTANTS
  Dirs = {a}
  Logged = {}
  Pids = {p1, p2}
  NoPid = NoPid
  NoDir = NoDir
  Stranger = Stranger
  Inherited = {}
  max = 2
  Signals = {}
  Commands = {"t", "n", "a"}
  MaxControl = 1
  RESTART_DELAY = 1
  DIR_RETRY_TIMEOUT = 3
  CHECK_RETRY_TIMEOUT = 4
  DefaultTimeout = 9
  Never = 9
  DivertSignals = FALSE
  ForkCanFail = TRUE
  Faults = FALSE
INVARIANT SleepsUntilRetry

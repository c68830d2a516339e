\* One logged service that dies, goes and comes back, no default timeout.
SPECIFICATION FairSpec
CONSTANTS
  Dirs = {a}
  Logged = {a}
  Pids = {p1, p2}
  NoPid = NoPid
  NoDir = NoDir
  Stranger = Stranger
  Inherited = {}
  max = 2
  Signals = {}
  Commands = {"t", "n", "a"}
  MaxControl = 1
  RESTART_DELAY = 1
  DIR_RETRY_TIMEOUT = 1
  CHECK_RETRY_TIMEOUT = 1
  DefaultTimeout = 9
  Never = 9
  DivertSignals = FALSE
  ForkCanFail = FALSE
  Faults = FALSE
INVARIANTS RestartScheduled
PROPERTIES ZombiesAreReaped ServicesComeBack MarkedServicesRestart StopIsObeyed IsSupervisor

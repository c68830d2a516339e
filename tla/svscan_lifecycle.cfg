\* Two services, one of them logged, that come, go, die and come back, until a
\* signal or a command that brings the services down ends the main loop.
SPECIFICATION Spec
CONSTANTS
  Dirs = {a, b}
  Logged = {a}
  Pids = {p1, p2, p3}
  NoPid = NoPid
  NoDir = NoDir
  Stranger = Stranger
  Inherited = {p1}
  max = 2
  Signals = {"TERM"}
  Commands = {"q"}
  MaxControl = 1
  RESTART_DELAY = 1
  DIR_RETRY_TIMEOUT = 1
  CHECK_RETRY_TIMEOUT = 1
  DefaultTimeout = 1
  Never = 9
  DivertSignals = FALSE
  ForkCanFail = FALSE
  Faults = FALSE
SYMMETRY PidSymmetry
INVARIANTS ChildrenMatchSlots NoLostChild PipesAccounted LostPipeIsDying ShutdownReachesAll
PROPERTIES NoStartAfterStop OnlySupervisesSignalled

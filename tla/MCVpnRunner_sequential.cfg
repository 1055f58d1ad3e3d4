CONSTANTS
  Session = {s1, s2}
  Main = Main
  Binder = Binder
  NULL = NULL
  Proxies = {"public", "plain"}
  Overlap = FALSE
  MaxPosts = 10
  MaxStops = 2
  MaxKills = 2
SPECIFICATION Spec
SYMMETRY Sessions
INVARIANTS NoneDisturbed StuckByFailureOnly PidFilesNameDaemons QuietStoppedIsDown QuietConnectedIsUp
PROPERTIES ImplementsBaseService
CHECK_DEADLOCK FALSE

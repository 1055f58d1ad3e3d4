CONSTANTS
  Session = {s1}
  Main = Main
  Binder = Binder
  NULL = NULL
  Proxies = {"public", "plain"}
  Overlap = TRUE
  MaxPosts = 10
  MaxStops = 2
  MaxKills = 0
SPECIFICATION FairSpec
INVARIANTS TypeOK TerminalStateOwed NoStuckState
PROPERTIES Settles StopReachesStopped
CHECK_DEADLOCK FALSE

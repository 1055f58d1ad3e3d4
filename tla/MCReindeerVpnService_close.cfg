CONSTANTS
  Session = {s1}
  Client = {c1}
  Main = Main
  Binder = Binder
  Users = {"kept"}
  Overlap = TRUE
  MaxPosts = 3
  MaxKills = 1
SPECIFICATION FairSpec
PROPERTIES CloseClosesInterface
CHECK_DEADLOCK FALSE

CONSTANTS
  Session = {s1}
  Client = {c1}
  Main = Main
  Binder = Binder
  Users = {"paid"}
  Overlap = FALSE
  MaxPosts = 4
  MaxKills = 0
SPECIFICATION FairSpec
PROPERTIES UnusedServiceStops
CHECK_DEADLOCK FALSE

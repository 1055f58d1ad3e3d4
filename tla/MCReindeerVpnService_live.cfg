CONSTANTS
  Session = {s1, s2}
  Client = {c1}
  Main = Main
  Binder = Binder
  Users = {"paid", "lapsed"}
  Overlap = FALSE
  MaxPosts = 2
  MaxKills = 0
SPECIFICATION FairSpec
INVARIANTS ConnectedIsWatched
PROPERTIES HeldExpires
CHECK_DEADLOCK FALSE

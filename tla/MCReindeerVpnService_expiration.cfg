CONSTANTS
  Session = {s1}
  Client = {c1}
  Main = Main
  Binder = Binder
  Users = {"lapsed"}
  Overlap = TRUE
  MaxPosts = 3
  MaxKills = 0
SPECIFICATION FairSpec
PROPERTIES ExpirationWorks
CHECK_DEADLOCK FALSE

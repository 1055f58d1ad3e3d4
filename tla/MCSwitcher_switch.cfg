CONSTANTS
  Session = {s1, s2}
  Main = Main
  Binder = Binder
  MaxPosts = 1
  MaxUpdates = 1
  MaxUses = 2
SPECIFICATION FairSpec
INVARIANTS TypeOK OnIsTrue WorkingIsOwed
PROPERTIES SwitchFollows WorkingEnds

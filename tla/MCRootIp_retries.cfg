CONSTANTS
  a = a
  b = b
  d = d
  NoIp = NoIp
  Ip <- Addresses
  Pages <- PageLists
  Inside <- Parts
  Chain = {c1}
  Opener = {o1}
  MaxClicks = 1
SPECIFICATION FairSpec
INVARIANTS TypeOK EachServerOnce GivesUpAfterAll
PROPERTIES RetriesEnd

SPECIFICATION Spec
CONSTANTS
  r1 = r1
  r2 = r2
  r3 = r3
  ana = ana
  bob = bob
  chief = chief
  town = town
  pair = pair
  gone = gone
  NoTTL = NoTTL
  Requests <- Req2
  Channels = {town, pair, gone}
  Users = {ana, bob, chief}
  Calls <- Wrapping
  Admins = {chief}
  Managers <- AnaManages
  Kind <- Kinds3
  maxRetries = 2
  Word = 64
  Second = 3
  MinTTL = 3
  MaxTTL = 9
INVARIANT AnnouncedWasStored
CHECK_DEADLOCK FALSE

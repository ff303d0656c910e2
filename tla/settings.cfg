SPECIFICATION Spec
CONSTANTS
  r1 = r1
  r2 = r2
  r3 = r3
  ana = ana
  bob = bob
  chief = chief
  town = town
  pair = pair
  gone = gone
  NoTTL = NoTTL
  Requests <- Req3
  Channels = {town, pair, gone}
  Users = {ana, bob, chief}
  Calls <- AllCalls
  Admins = {chief}
  Managers <- AnaManages
  Kind <- Kinds3
  maxRetries = 2
  Word = 64
  Second = 3
  MinTTL = 3
  MaxTTL = 9
SYMMETRY Symmetric
INVARIANTS
  TypeOK
  GivesUpOnlyUnderContention
  AnnouncedWasStored
  EveryWriteAnnounced
  LastEventIsCurrent
PROPERTY ImplementsRegister
CHECK_DEADLOCK FALSE

SPECIFICATION Spec
CONSTANTS
  Components = {badge, header}
  Channels = {c, d}
  NotLoaded = NotLoaded
  Pending = Pending
  Error = Error
  Nothing = Nothing
  Saver = Saver
  MaxActs = 4
INVARIANTS
  TypeOK
  OneFetchPerChannel
  StoreHonest
  ModalHonest
SYMMETRY Symmetric
CHECK_DEADLOCK FALSE

SPECIFICATION Spec
CONSTANTS
  Components = {badge, header}
  Channels = {c}
  NotLoaded = NotLoaded
  Pending = Pending
  Error = Error
  Nothing = Nothing
  Saver = Saver
  MaxActs = 3
INVARIANT LoadedOnceFetched
CHECK_DEADLOCK FALSE

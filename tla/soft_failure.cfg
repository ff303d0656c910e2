SPECIFICATION Spec

CONSTANTS
    r = r
    a = a
    b = b
    s = s
    chan = chan
    NoRoot = NoRoot
    Posts = {s}
    RootOf <- MCRootOf
    Channels = {chan}
    ChannelOf <- MCChannelOf
    NoTTL = 0
    Durations = {1}
    MinTTL = 1
    BatchSize = 1
    ServerVersion <- MCVersion
    Configs <- SoftOnly
    Licenses = {FALSE}
    SerialHooks = TRUE
    MaxTime = 1
    MaxStops = 0

INVARIANTS
    FailedDeletionRetried

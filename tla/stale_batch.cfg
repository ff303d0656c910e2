SPECIFICATION Spec

CONSTANTS
    r = r
    a = a
    b = b
    s = s
    chan = chan
    NoRoot = NoRoot
    Posts = {r, a}
    RootOf <- MCRootOf
    Channels = {chan}
    ChannelOf <- MCChannelOf
    NoTTL = 0
    Durations = {1}
    MinTTL = 1
    BatchSize = 2
    ServerVersion <- MCVersion
    Configs <- HardOnly
    Licenses = {FALSE}
    SerialHooks = TRUE
    MaxTime = 1
    MaxStops = 0

PROPERTIES
    ExtendedThreadSurvives

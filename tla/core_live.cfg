SPECIFICATION FairSpec

CONSTANTS
    r = r
    a = a
    b = b
    s = s
    chan = chan
    NoRoot = NoRoot
    Posts = {r, a}
    RootOf <- MCRootOf
    Channels = {chan}
    ChannelOf <- MCChannelOf
    NoTTL = 0
    Durations = {1}
    MinTTL = 1
    BatchSize = 1
    ServerVersion <- MCVersion
    Configs <- HardOnly
    Licenses = {FALSE}
    SerialHooks = TRUE
    MaxTime = 2
    MaxStops = 1

PROPERTIES
    ExpiredEventuallySwept

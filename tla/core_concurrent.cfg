SPECIFICATION Spec

CONSTANTS
    r = r
    a = a
    b = b
    s = s
    chan = chan
    NoRoot = NoRoot
    Posts = {r, a}
    RootOf <- MCRootOf
    Channels = {chan}
    ChannelOf <- MCChannelOf
    NoTTL = 0
    Durations = {1}
    MinTTL = 1
    BatchSize = 1
    ServerVersion <- MCVersion
    Configs <- Purging
    Licenses = {FALSE, TRUE}
    SerialHooks = FALSE
    MaxTime = 2
    MaxStops = 1

INVARIANTS
    ThreadMinimumLifetime
    NeverForgotten
    OnlyIndexedRemoved

PROPERTIES
    DeletionMatchesPolicy

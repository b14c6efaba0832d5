SPECIFICATION Spec
CONSTANTS
    a1 = a1
    Addrs <- MCAddrs
    MaxSessions = 2
    MaxTime = 6
    MaxSteps = 1
    Ttl = 2
    Minute = 2
    MaxFailures = 3
INVARIANT LiveSessionOnly
INVARIANT CsrfOfSession
INVARIANT ThrottleBound
PROPERTY NoRevival

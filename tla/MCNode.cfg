SPECIFICATION MCSpec
CONSTANTS
    boot = boot
    met = met
    gw = gw
    stranger = stranger
    s1 = s1
    s2 = s2
    s3 = s3
    Peers = {boot, met}
    Bootstraps = {boot}
    Debounce = 2
    MaxConns = 2
    MaxTimers = 3
    StreamIds = {s1, s2, s3}
    Streamed = {s2, s3}
    Gateways = {gw, stranger}
    AllowedGateways = {gw}
    MaxChunks = 1
INVARIANTS
    ReportsAreTrue
    EveryStreamIsTerminated
PROPERTIES
    GoneForDebounce
    AbsenceIsReported
    IdleLoadIsPublished

\* Every server against a deadline of six units of time, bodies of five bytes
\* and two redirects.
CONSTANTS
    ConnectTimeout = 1
    TotalTimeout = 6
    ResolveTime = 1
    MaxRedirects = 2
    MaxBytes = 5
    LineCap = 2
    ReadChunk = 3
    MaxAddresses = 2
    AllowPrivate = FALSE
SPECIFICATION FairSpec
INVARIANTS
    ElapsedBounded
    HeldBounded
    SocketsClosed
PROPERTIES
    RequestEnds

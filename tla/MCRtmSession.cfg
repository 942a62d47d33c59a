\* The session against a caller that waits for the registry: no CHECK
\* fires, ids correlate, a halted read loop is reported, subscribes settle.
CONSTANTS
    c1 = c1
    c2 = c2
    h1 = h1
    h2 = h2
    Channels <- MCChannels
    Handles <- MCHandles
    NoSub = NoSub
    NoId = NoId
    NoChannel = NoChannel
    NoFrame = NoFrame
    MaxRequestId = 4
    MaxFaults = 1
    MaxData = 1
    MaxWire = 2
    Discipline = "Registry"

SPECIFICATION FairSpec

INVARIANT TypeOK
INVARIANT NoContractAbort
INVARIANT ResponsesCorrelate
INVARIANT HaltIsReported

PROPERTY SubscribeResolves
PROPERTY LifecycleRefined

\* A stopped session is terminal: it is never restarted in place.
CHECK_DEADLOCK FALSE

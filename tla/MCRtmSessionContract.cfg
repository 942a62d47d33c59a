\* A caller that keeps only the contract spec.md states (no second
\* subscription to a channel it holds, unsubscribe only what it holds).
CONSTANTS
    c1 = c1
    c2 = c2
    h1 = h1
    h2 = h2
    Channels <- MCChannels
    Handles <- MCHandles
    NoSub = NoSub
    NoId = NoId
    NoChannel = NoChannel
    NoFrame = NoFrame
    MaxRequestId = 4
    MaxFaults = 1
    MaxData = 1
    MaxWire = 2
    Discipline = "Contract"

SPECIFICATION Spec

INVARIANT NoContractAbort

\* A stopped session is terminal: it is never restarted in place.
CHECK_DEADLOCK FALSE

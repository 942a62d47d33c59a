\* stop() on a Running session: does it always reach Stopped with the
\* registry cleared, under fair handlers, network and server?
CONSTANTS
    c1 = c1
    c2 = c2
    h1 = h1
    h2 = h2
    Channels <- MCChannels
    Handles <- MCHandles
    NoSub = NoSub
    NoId = NoId
    NoChannel = NoChannel
    NoFrame = NoFrame
    MaxRequestId = 4
    MaxFaults = 1
    MaxData = 1
    MaxWire = 2
    Discipline = "Registry"

SPECIFICATION FairSpec

PROPERTY StopCompletes

\* A stopped session is terminal: it is never restarted in place.
CHECK_DEADLOCK FALSE

\* After the caller unsubscribes a handle, can its on_data still be
\* called (unsubscribe is ignored once stop() has begun)?
CONSTANTS
    c1 = c1
    c2 = c2
    h1 = h1
    h2 = h2
    Channels <- MCChannels
    Handles <- MCHandles
    NoSub = NoSub
    NoId = NoId
    NoChannel = NoChannel
    NoFrame = NoFrame
    MaxRequestId = 4
    MaxFaults = 1
    MaxData = 1
    MaxWire = 2
    Discipline = "Registry"

SPECIFICATION Spec

PROPERTY DataOnlyToHolder

\* A stopped session is terminal: it is never restarted in place.
CHECK_DEADLOCK FALSE

\* A subscription subscribed from a worker and unsubscribed on the io thread:
\* the direct unsubscribe overtakes the posted subscribe.
CONSTANTS
    h1 = h1
    h2 = h2
    c1 = c1
    c2 = c2
    Handles <- MCHandles
    Channels <- MCChannels
    NoSub = NoSub
    NoChannel = NoChannel
    Uses <- MCUsesShared
    MaxQueue = 4
    MaxData = 2

SPECIFICATION Spec

INVARIANT NoCheckFailure

\* After stop() and the aborted read, or after a CHECK, nothing is left
\* to run.
CHECK_DEADLOCK FALSE

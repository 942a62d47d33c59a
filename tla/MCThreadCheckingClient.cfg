\* Each subscription used from one thread, the worker's forwarded: no CHECK or
\* ABORT of the wrapped client.
CONSTANTS
    h1 = h1
    h2 = h2
    c1 = c1
    c2 = c2
    Handles <- MCHandles
    Channels <- MCChannels
    NoSub = NoSub
    NoChannel = NoChannel
    Uses <- MCUsesOwned
    MaxQueue = 4
    MaxData = 2

SPECIFICATION Spec

INVARIANT NoCheckFailure
PROPERTY DirectRefined
PROPERTY LateDataOnlyWhileQueued

\* After stop() and the aborted read, or after a CHECK, nothing is left
\* to run.
CHECK_DEADLOCK FALSE

\* A restart restores a subscription the caller has released.
CONSTANTS
    h1 = h1
    h2 = h2
    Handles <- MCHandles
    Channels <- MCChannels
    NoSub = NoSub
    NoChannel = NoChannel
    MaxGen = 3
    MaxFaults = 1
    MaxReplay = 3

SPECIFICATION Spec

INVARIANT RegistryMatchesHeld

\* After stop() and the last handler, or after an ABORT, nothing is left
\* to run.
CHECK_DEADLOCK FALSE

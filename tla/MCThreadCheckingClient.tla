---------------------- MODULE MCThreadCheckingClient ----------------------
EXTENDS ThreadCheckingClient
CONSTANTS h1, h2, c1, c2
MCHandles == {h1, h2}
MCChannels == {c1, c2}
\* One subscription on the io thread, one on a worker thread.
MCUsesOwned ==
    {[thread |-> "io", sub |-> h1, channel |-> c1],
     [thread |-> "worker", sub |-> h2, channel |-> c2]}
\* The io-thread subscription is also subscribed from the worker.
MCUsesShared ==
    MCUsesOwned \cup {[thread |-> "worker", sub |-> h1, channel |-> c1]}
=============================================================================

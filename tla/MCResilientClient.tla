------------------------- MODULE MCResilientClient -------------------------
EXTENDS ResilientClient
CONSTANTS h1, h2
MCHandles == {h1, h2}
MCChannels == {1, 2}
=============================================================================

------------------------ MODULE MCChannelPosition ------------------------
EXTENDS ChannelPosition
MCAlphabet == {"1", "9", ":", "-", "+", " "}
=============================================================================

---------------------------- MODULE MCRtmSession ----------------------------
(* Model-checking instance of RtmSession: two channels, two handles.       *)
EXTENDS RtmSession

CONSTANTS c1, c2, h1, h2

MCChannels == {c1, c2}
MCHandles == {h1, h2}

=============================================================================

\* channel_position at scaled widths (uint32 -> 2 bits, 64 -> 4 bits) in a
\* release build: every position in range reads back as itself.
CONSTANTS
    GenBits = 2
    LongBits = 4
    Alphabet <- MCAlphabet
    MaxLen = 4
    AssertsEnabled = FALSE

SPECIFICATION Spec

INVARIANT RoundTrip

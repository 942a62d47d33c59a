\* channel_position in a release build against spec.md: a malformed or
\* out-of-range text must parse to (0, 0).
CONSTANTS
    GenBits = 2
    LongBits = 4
    Alphabet <- MCAlphabet
    MaxLen = 4
    AssertsEnabled = FALSE

SPECIFICATION Spec

INVARIANT MalformedIsZero

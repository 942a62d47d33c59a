--------------------------- MODULE ChannelPosition ---------------------------
(***************************************************************************)
(* channel_position (src/src/rtmclient.h 33-55): a (gen : uint32,         *)
(* pos : uint64) cursor printed as "<gen>:<pos>" by str() and read back by *)
(* parse(), which uses strtoll for the generation and strtoull for the     *)
(* offset.  Texts are sequences of one-character strings; the integer      *)
(* widths are scaled: GenBits stands for 32 and LongBits for 64 (the width *)
(* of long long and of unsigned long long alike).                          *)
(***************************************************************************)
EXTENDS Integers, Sequences, SequencesExt

CONSTANTS
    GenBits,         \* width of uint32_t, scaled
    LongBits,        \* width of long long and uint64_t, scaled
    Alphabet,        \* the characters parse() is given texts over
    MaxLen,          \* bound on the length of those texts
    AssertsEnabled   \* BOOST_ASSERT active (a build without NDEBUG)

ASSUME /\ GenBits \in Nat \ {0} /\ LongBits > GenBits
       /\ MaxLen \in Nat /\ AssertsEnabled \in BOOLEAN

GenMax   == 2^GenBits - 1            \* std::numeric_limits<uint32_t>::max()
ULongMax == 2^LongBits - 1           \* ULLONG_MAX
LongMax  == 2^(LongBits - 1) - 1     \* LLONG_MAX
LongMin  == -(2^(LongBits - 1))      \* LLONG_MIN

DigitValue == [c \in {"0", "1", "2", "3", "4", "5", "6", "7", "8", "9"} |->
                 CASE c = "0" -> 0 [] c = "1" -> 1 [] c = "2" -> 2
                   [] c = "3" -> 3 [] c = "4" -> 4 [] c = "5" -> 5
                   [] c = "6" -> 6 [] c = "7" -> 7 [] c = "8" -> 8
                   [] c = "9" -> 9]
DigitChar == [d \in 0..9 |-> CHOOSE c \in DOMAIN DigitValue : DigitValue[c] = d]

Zero == [gen |-> 0, pos |-> 0]

VARIABLES
    text,       \* the string last printed or parsed
    position,   \* the channel_position it goes with
    origin,     \* "none", "str" (printed from position) or "parse"
    aborted     \* a BOOST_ASSERT failed

vars == <<text, position, origin, aborted>>

TypeOK ==
    /\ text \in Seq(STRING)
    /\ position \in [gen : 0..GenMax, pos : 0..ULongMax]
    /\ origin \in {"none", "str", "parse"}
    /\ aborted \in BOOLEAN

-----------------------------------------------------------------------------
(* std::to_string of an unsigned value: decimal, no leading zeros.         *)

RECURSIVE ToDecimal(_)

\* Mutant: the digits come out least significant first.
ToDecimal_rev(n) ==
    IF n < 10 THEN <<DigitChar[n]>> ELSE <<DigitChar[n % 10]>> \o ToDecimal(n \div 10)

ToDecimal(n) ==
    IF n < 10 THEN <<DigitChar[n]>> ELSE ToDecimal(n \div 10) \o <<DigitChar[n % 10]>>

\* channel_position::str().
str(p) == ToDecimal(p.gen) \o <<":">> \o ToDecimal(p.pos)

-----------------------------------------------------------------------------
(* strtoll / strtoull with base 10, from index i of s (C's nptr).  Both    *)
(* skip white space, take one optional sign and the longest run of digits; *)
(* with no digits they return 0 and set endptr to nptr.                     *)

RECURSIVE SkipSpace(_, _)
SkipSpace(s, i) == IF i <= Len(s) /\ s[i] = " " THEN SkipSpace(s, i + 1) ELSE i

RECURSIVE DigitsEnd(_, _)
DigitsEnd(s, i) ==
    IF i <= Len(s) /\ s[i] \in DOMAIN DigitValue THEN DigitsEnd(s, i + 1) ELSE i

\* The sign, the magnitude of the digits and the end pointer.
Scan(s, i) ==
    LET b == SkipSpace(s, i)
        signed == b <= Len(s) /\ s[b] \in {"+", "-"}
        d == IF signed THEN b + 1 ELSE b
        e == DigitsEnd(s, d)
    IN  [negative |-> signed /\ s[b] = "-",
         mag |-> FoldLeft(LAMBDA acc, c : acc * 10 + DigitValue[c], 0, SubSeq(s, d, e - 1)),
         end |-> IF e = d THEN i ELSE e]

\* strtoll: out of range saturates at LLONG_MAX or LLONG_MIN.
strtoll(s, i) ==
    LET r == Scan(s, i)
    IN  [value |-> IF r.negative THEN IF r.mag > -LongMin THEN LongMin ELSE -r.mag
                   ELSE IF r.mag > LongMax THEN LongMax ELSE r.mag,
         end |-> r.end]

\* strtoull: out of range gives ULLONG_MAX; a minus sign negates modulo
\* 2^64.
strtoull(s, i) ==
    LET r == Scan(s, i)
    IN  [value |-> IF r.mag > ULongMax THEN ULongMax
                   ELSE IF r.negative THEN (-r.mag) % (ULongMax + 1)
                   ELSE r.mag,
         end |-> r.end]

\* static_cast<uint32_t> of a long long: modulo 2^32.
to_gen(v) == v % (GenMax + 1)

\* channel_position::parse: the generation must be followed by ':' and the
\* offset by the end of the string; anything else is (0, 0).  The value of
\* BOOST_ASSERT(gen <= uint32 max) is checked separately (GenAsserts).
parse(s) ==
    LET g == strtoll(s, 1)
        p == strtoull(s, g.end + 1)
    IN  IF g.end = 1 \/ g.end > Len(s) \/ s[g.end] # ":" THEN Zero
        ELSE IF p.end <= Len(s) THEN Zero
        ELSE [gen |-> to_gen(g.value), pos |-> p.value]

\* The first BOOST_ASSERT, which a build with asserts turns into an abort.
GenAsserts(s) == AssertsEnabled /\ strtoll(s, 1).value > GenMax

-----------------------------------------------------------------------------

Init ==
    /\ text = <<>>
    /\ position = Zero
    /\ origin = "none"
    /\ aborted = FALSE

\* A position is printed.
print(p) ==
    /\ ~aborted
    /\ position' = p
    /\ text' = str(p)
    /\ origin' = "str"
    /\ UNCHANGED aborted

\* A text is parsed.
parse_text(s) ==
    /\ ~aborted
    /\ text' = s
    /\ origin' = "parse"
    /\ \/ /\ GenAsserts(s)
          /\ aborted' = TRUE
          /\ UNCHANGED position
       \/ /\ ~GenAsserts(s)
          /\ position' = parse(s)
          /\ UNCHANGED aborted

Next ==
    \/ \E p \in [gen : 0..GenMax, pos : 0..ULongMax] : print(p)
    \/ \E s \in BoundedSeq(Alphabet, MaxLen) : parse_text(s)

Spec == Init /\ [][Next]_vars

-----------------------------------------------------------------------------
(* Properties (spec.md, channel position).                                 *)

\* Every position in range reads back as itself: parse(str(p)) = p.
RoundTrip == origin = "str" => parse(text) = position

\* The text is "<digits>:<digits>" with both numbers in range.
WellFormed(s) ==
    \E k \in 2..Len(s) - 1 :
        /\ s[k] = ":"
        /\ \A i \in 1..Len(s) : i # k => s[i] \in DOMAIN DigitValue
        /\ FoldLeft(LAMBDA acc, c : acc * 10 + DigitValue[c], 0, SubSeq(s, 1, k - 1)) <= GenMax
        /\ FoldLeft(LAMBDA acc, c : acc * 10 + DigitValue[c], 0, SubSeq(s, k + 1, Len(s))) <= ULongMax

\* A text that is not well formed (missing colon, trailing garbage, numbers
\* out of range) parses to (0, 0).
MalformedIsZero ==
    origin = "parse" /\ ~aborted /\ ~WellFormed(text) => position = Zero

====

--------------------------- MODULE MCImageDecoder ---------------------------
(* Instances of ImageDecoder: three metadata values, one whose codec does  *)
(* not open; the sizes of their streams differ only in the resolution run. *)
EXTENDS ImageDecoder

CONSTANTS m1, m2, m3, r1, r2

\* Metadata changes keep the frame size (a new codec configuration).
MCMetaResSame == [m \in {m1, m2, m3} |-> r1]

\* The second stream has another frame size.
MCMetaResChanged == [m \in {m1, m2} |-> IF m = m1 THEN r1 ELSE r2]

====

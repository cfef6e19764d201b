---------------------------- MODULE MCSerialLine ----------------------------
(* An instance of SerialLine for TLC: floats of one byte.                   *)
EXTENDS SerialLine

OneSpeed == {<<7>>}

\* Two measurements; the first has a byte that the line changes, and
\* the first byte of the second is an 'r'.
TwoSamples == {<<1, 13, 3, 4>>, <<114, 5, 6, 7>>}
=============================================================================

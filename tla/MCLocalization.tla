--------------------------- MODULE MCLocalization ---------------------------
(* Instances of Localization for TLC.                                       *)
EXTENDS Localization

\* Two positions that differ in every member, and one measurement, which the
\* kernel can mix with the velocities nobody measured.
MCPoses   == {[x |-> 1, y |-> 2, theta |-> 3], [x |-> 4, y |-> 5, theta |-> 6]}
MCMotions == {[v |-> 7, w |-> 8]}
MCUnset   == [x |-> 200, y |-> 200, theta |-> 200]
MCUnmeasured == [v |-> 201, w |-> 201]
=============================================================================

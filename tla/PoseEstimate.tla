---------------------------- MODULE PoseEstimate ----------------------------
(***************************************************************************)
(* What a receiver of the localizer topic may rely on: an estimate whose   *)
(* position is one the camera saw, replaced as a whole, and whose v and w  *)
(* are replaced together. They are velocities the Teensy measured, or what *)
(* was there before it did, but not necessarily of one measurement.        *)
(***************************************************************************)
CONSTANTS
    Poses,    \* positions [x, y, theta] the camera may have seen
    Motions   \* velocities [v, w] the Teensy may have measured

VARIABLE estimate

Init == estimate = [x |-> 0, y |-> 0, theta |-> 0, v |-> 0, w |-> 0]

Seen(p) ==
    estimate' = [estimate EXCEPT !.x = p.x, !.y = p.y, !.theta = p.theta]

Measured(a, b) == estimate' = [estimate EXCEPT !.v = a.v, !.w = b.w]

Next == (\E p \in Poses : Seen(p)) \/ (\E a, b \in Motions : Measured(a, b))

Spec == Init /\ [][Next]_estimate

=============================================================================

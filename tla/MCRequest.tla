----------------------------- MODULE MCRequest ------------------------------
(* Instances of Request for TLC.                                            *)
EXTENDS Request

Flags(low, high) == [k \in 0 .. 7 |-> IF k = 0 THEN low ELSE
                                      IF k = 4 THEN high ELSE 0]

\* An echo and an order; both have excess bits the header does not carry.
MCAsked == {[type |-> PING_ECHO, code |-> 257, excess |-> Flags(3, 1)],
            [type |-> STATE_REQUEST, code |-> 8, excess |-> Flags(2, 1)]}
=============================================================================

--------------------------- MODULE MCKermitKernel ---------------------------
(* Instances of KermitKernel for TLC.                                       *)
EXTENDS KermitKernel

MCSpeeds == 0 .. 2

Order(code, excess) ==
    [type |-> "STATE_REQUEST", code |-> code, excess |-> excess]

Other(type) == [type |-> type, code |-> {}, excess |-> {}]

\* Two commands that differ in both components.
MCCommands == {[lin |-> 1, ang |-> 1], [lin |-> 2, ang |-> 2]}
OneCommand == {[lin |-> 1, ang |-> 1]}

\* Orders that give leave to drive, withdraw it, or leave it as it is.
DrivePings == {Order({"STOP_EVERYTHING"}, {}),
               Order({"MOVE_TO_MINE"}, {ENTERING_STATE, START_DRIVING}),
               Order({"CLEAN_EXIT"}, {RETRACT_ALL}),
               Order({"DUMP"}, {ENTERING_STATE}),
               Order({"MICRO_MOVEMENT"}, {ENTERING_STATE}),
               Other("ACK")}

QuitPings == {Order({"STOP_EVERYTHING"}, {}),
              Order({"MOVE_TO_DUMP"}, {START_DRIVING})}

StopPings == {Order({"STOP_EVERYTHING"}, {})}

OredPings == QuitPings \cup
             {Order({"STOP_EVERYTHING", "MOVE_TO_DUMP"}, {STOP_DRIVING})}

OneSample  == {<<1, 1>>}
NoSamples  == {}

\* Opening the port succeeds, or may fail.
OpenLine == {"open"}
AnyLine  == {"open", "failed"}

=============================================================================

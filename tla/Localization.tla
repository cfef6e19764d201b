---------------------------- MODULE Localization ---------------------------
(***************************************************************************)
(* Where the robot is: the camera process (AprilDetector, a PosLocalizer)  *)
(* publishes positions, the kernel publishes what the Teensy measured, and *)
(* the proxy of the localizer topic passes every message through           *)
(* Simple_Localizer, which replaces it by the path_state it has put        *)
(* together so far.                                                        *)
(*                                                                         *)
(* The detector's thread sets the position member by member under the lock *)
(* guard, under which the publisher's thread reads it. That thread runs    *)
(* from the constructor on, before there is a camera or a position.        *)
(***************************************************************************)
EXTENDS RobotMessages

CONSTANTS
    Poses,        \* positions the detector sets
    Motions,      \* velocities the Teensy measures
    Unset,        \* the position before the first was set: never initialised
    Unmeasured,   \* the velocities before the first response: never written
    MaxTraffic    \* bound: messages on their way to the proxy

ASSUME LocalizationAssumption ==
    /\ Poses \subseteq [x : Cells, y : Cells, theta : Cells]
    /\ Unset \in [x : Cells, y : Cells, theta : Cells]
    /\ Motions \subseteq [v : Cells, w : Cells]
    /\ Unmeasured \in [v : Cells, w : Cells]
    /\ MaxTraffic \in Nat

VARIABLES
    pos,          \* the position that PosLocalizer keeps
    guard,        \* the detector holds the lock
    detector, new,  \* how far main() is in set_pos(), and what it sets
    blind,        \* the camera could not be opened
    traffic,      \* messages on their way to the proxy
    state,        \* the estimate that Simple_Localizer keeps
    path          \* its outgoing message

cameraVars == <<pos, guard, detector, new, blind>>
filterVars == <<state, path>>
vars == <<cameraVars, traffic, filterVars>>

Init ==
    /\ pos = Unset
    /\ guard = FALSE
    /\ detector = "new"
    /\ new = Unset
    /\ blind = FALSE
    /\ traffic = <<>>
    /\ state = [x |-> 0, y |-> 0, theta |-> 0, v |-> 0, w |-> 0]
    /\ path = create_path_state

-----------------------------------------------------------------------------
(* The camera process.                                                     *)

Detector(from, to) == detector = from /\ detector' = to

\* main() does not look at the result.
SyncStart ==
    /\ Detector("new", "idle")
    /\ blind' \in BOOLEAN
    /\ UNCHANGED <<pos, guard, new, traffic, filterVars>>

\* loop() sets a position before it takes a frame and another after it.
Detect(p) ==
    /\ Detector("idle", "lock")
    /\ new' = p
    /\ UNCHANGED <<pos, guard, blind, traffic, filterVars>>

\* mutant of LockPosition: set_pos() without the lock.
LockNothing ==
    /\ Detector("lock", "x")
    /\ UNCHANGED <<pos, guard, new, blind, traffic, filterVars>>

LockPosition ==
    /\ Detector("lock", "x")
    /\ guard' = TRUE
    /\ UNCHANGED <<pos, new, blind, traffic, filterVars>>

SetPosition ==
    /\ \/ Detector("x", "y") /\ pos' = [pos EXCEPT !.x = new.x]
       \/ Detector("y", "theta") /\ pos' = [pos EXCEPT !.y = new.y]
       \/ /\ Detector("theta", "unlock")
          /\ pos' = [pos EXCEPT !.theta = new.theta]
    /\ UNCHANGED <<guard, new, blind, traffic, filterVars>>

UnlockPosition ==
    /\ Detector("unlock", IF blind THEN "capture" ELSE "idle")
    /\ guard' = FALSE
    /\ UNCHANGED <<pos, new, blind, traffic, filterVars>>

\* The frame of a camera that is not open is empty: OpenCV throws, and nothing
\* catches it.
CaptureFails ==
    /\ Detector("capture", "aborted")
    /\ UNCHANGED <<pos, guard, new, blind, traffic, filterVars>>

\* A key in the window ends the loop (if there is a window: what the
\* constructor is told of it is not stored), ...
CloseWindow ==
    /\ Detector("idle", "quit")
    /\ ~blind
    /\ UNCHANGED <<pos, guard, new, blind, traffic, filterVars>>

\* ... and the destructor joins the publisher before the tag is freed.
Destroy ==
    /\ Detector("quit", "gone")
    /\ UNCHANGED <<pos, guard, new, blind, traffic, filterVars>>

Publish(wire) ==
    /\ Len(traffic) < MaxTraffic
    /\ traffic' = Append(traffic, wire)

\* get_pos() under the lock: what the camera sends, dt being never set.
camera_wire(p) ==
    Wire(sensor_to_wire(create_camera_msg, CAMERA_MESSAGE,
                        [x |-> p.x, y |-> p.y, theta |-> p.theta, dt |-> 0]))

PublishPosition ==
    /\ ~guard
    /\ detector \notin {"aborted", "gone"}
    /\ Publish(camera_wire(pos))
    /\ UNCHANGED <<cameraVars, filterVars>>

-----------------------------------------------------------------------------
(* The kernel, and a program that uses the topic for another message.      *)

teensy_wire(m) ==
    Wire(sensor_to_wire(create_teensy_sensor_array, TEENSY_MSG,
                        [v |-> m.v, w |-> m.w, dt |-> 1]))

Motions0 == Motions \cup {Unmeasured}

\* The sender's thread stores v and w of a response without the lock under
\* which they are read here: the v of one and the w of another.
PublishMotion(a, b) ==
    /\ Publish(teensy_wire([v |-> a.v, w |-> b.w]))
    /\ UNCHANGED <<cameraVars, filterVars>>

PublishOther ==
    /\ Publish(Wire(message_to_wire(create_cmd_vel, [lin |-> 3, ang |-> 3])))
    /\ UNCHANGED <<cameraVars, filterVars>>

-----------------------------------------------------------------------------
(* Simple_Localizer::convert() in the thread of the proxy.                 *)

\* mutant of Updated: the angle of the camera is taken for its y.
UpdatedAngle(data) ==
    LET type == sensor_msg_from_wire(create_sensor_msg, data)
        cam  == message_from_wire(create_camera_msg, data)
        meas == message_from_wire(create_teensy_sensor_array, data)
    IN CASE type = TEENSY_MSG -> [state EXCEPT !.v = meas.v, !.w = meas.w]
         [] type = CAMERA_MESSAGE -> [state EXCEPT !.x = cam.x, !.y = cam.theta,
                                                   !.theta = cam.theta]
         [] OTHER -> state

Updated(data) ==
    LET type == sensor_msg_from_wire(create_sensor_msg, data)
        cam  == message_from_wire(create_camera_msg, data)
        meas == message_from_wire(create_teensy_sensor_array, data)
    IN CASE type = TEENSY_MSG -> [state EXCEPT !.v = meas.v, !.w = meas.w]
         [] type = CAMERA_MESSAGE -> [state EXCEPT !.x = cam.x, !.y = cam.y,
                                                   !.theta = cam.theta]
         [] OTHER -> state

\* Every message is replaced by the estimate, one of another type, too.
Convert ==
    /\ traffic # <<>>
    /\ traffic' = Tail(traffic)
    /\ state' = Updated(Head(traffic))
    /\ path' = message_to_wire(path, state')
    /\ UNCHANGED cameraVars

Next ==
    \/ SyncStart \/ CloseWindow \/ Destroy
    \/ \E p \in Poses : Detect(p)
    \/ LockPosition \/ SetPosition \/ UnlockPosition \/ CaptureFails
    \/ PublishPosition
    \/ \E a, b \in Motions0 : PublishMotion(a, b)
    \/ PublishOther
    \/ Convert

Spec == Init /\ [][Next]_vars

-----------------------------------------------------------------------------
(* Properties.                                                             *)

Poses0 == Poses \cup {Unset}

\* Type correctness; the detector holds the lock while it sets the position.
TypeOK ==
    /\ pos \in [x : Cells, y : Cells, theta : Cells]
    /\ guard = (detector \in {"x", "y", "theta", "unlock"})
    /\ detector \in {"new", "idle", "lock", "x", "y", "theta", "unlock",
                    "capture", "aborted", "quit", "gone"}
    /\ new \in Poses0
    /\ blind \in BOOLEAN
    /\ \A i \in DOMAIN traffic : DOMAIN traffic[i] \subseteq Indexes
    /\ state \in [{"x", "y", "theta", "v", "w"} -> Cells]
    /\ path.buff \in Buffers

\* Whenever the publisher may read the position, it is one that the detector
\* set, in all its members, or the one nobody set.
PositionWhole == ~guard => pos \in Poses0

\* What the filter sends is a message whose header tells its version, its
\* length and its five fields, however many estimates were stored in it.
PathIsMessage ==
    LET data == Wire(path) IN
    /\ data[PROTPOS] = PROTOCOL_VERSION /\ data[OPPOS] = DATA_PACKET
    /\ data[BYTEPOS] = path.buff.byte_length
    /\ get_number_fields(data) = 5
    /\ \A i \in 0 .. 4 : Found(data, i)

\* The messages that leave the proxy implement PoseEstimate: through two
\* serialisations and two threads, a receiver sees whole positions, and a v
\* and a w that the kernel published together, the last that passed the filter.
Estimate == INSTANCE PoseEstimate WITH
    Poses <- Poses0, Motions <- Motions0,
    estimate <- message_from_wire(create_path_state, Wire(path))

EstimateSpec == Estimate!Spec

=============================================================================

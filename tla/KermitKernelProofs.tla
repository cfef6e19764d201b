------------------------- MODULE KermitKernelProofs -------------------------
(***************************************************************************)
(* Proofs about KermitKernel for any speeds, commands, pings and samples,  *)
(* and any number of signals.                                              *)
(***************************************************************************)
EXTENDS KermitKernel, TLAPS

USE DEF Callbacks, Threads, GoTo, Alive, teensy, mainVars,
        serverVars, argVars, senderVars, Constructed

-----------------------------------------------------------------------------
(* Who takes a step: the main thread, the sender, or one of the threads of *)
(* NetworkPatterns.                                                        *)

MainMoves == MainStep \/ PrintState \/ Signal

ThreadMoves ==
    \/ \E t \in Threads : ThreadStep(t) \/ TakesLock(t)
    \/ \E p \in Pings : ReceivePing(p)
    \/ \E c \in Commands : ReceiveCmdVel(c)

LEMMA Movers ==
    ASSUME [Next]_vars
    PROVE  MainMoves \/ SenderThread \/ ThreadMoves \/ UNCHANGED vars
BY DEF Next, MainMoves, ThreadMoves, Exited

-----------------------------------------------------------------------------
(* Velocities and measurements, stored field by field.                     *)

LEMMA StandIsVelocity == Stand \in Velocities
BY SpeedsAssumption DEF Stand, Velocities

LEMMA VelocityUpdate ==
    ASSUME NEW u \in Velocities, NEW x \in Velocities
    PROVE  /\ [u EXCEPT !.lin = x.lin] \in Velocities
           /\ [u EXCEPT !.ang = x.ang] \in Velocities
BY DEF Velocities

LEMMA ArgumentUpdate ==
    ASSUME NEW u \in Velocities, NEW x \in Velocities,
           NEW field \in {"lin", "ang"}
    PROVE  [u EXCEPT ![field] = x[field]] \in Velocities
BY DEF Velocities

LEMMA MeasurementUpdate ==
    ASSUME NEW u \in Measurements, NEW s \in Speeds
    PROVE  /\ [u EXCEPT !.v = s] \in Measurements
           /\ [u EXCEPT !.w = s] \in Measurements
BY DEF Measurements

-----------------------------------------------------------------------------
(* Types, and where each thread can stand.                                 *)

LEMMA InitTypes == Init => TypeOK
<1> SUFFICES ASSUME Init PROVE TypeOK
    OBVIOUS
<1>1. measured \in Measurements
  BY DEF Init, NoMeasurement, Measurements
<1> QED BY <1>1, StandIsVelocity, SignalsAssumption
        DEF Init, TypeOK, MainPCs, PCs, SenderPCs

LEMMA InitPlaces == Init => Places
BY DEF Init, Places, InCallback

LEMMA LeaveType == Leave(request) \in BOOLEAN
BY DEF Leave

(* A signal only tells the main thread to end.                             *)
LEMMA SignalEffect ==
    ASSUME TypeOK, Places, Signal
    PROVE  /\ signals' \in 0 .. MaxSignals
           /\ running' \in BOOLEAN
           /\ main' \in {"exited", "quit_sender"}
           /\ main' = "quit_sender" => Constructed
           /\ UNCHANGED <<ping_callbacks, entries, held, serverVars, senderVars,
                          receiving_cvels, teensy, pc, mutex_lock, guard,
                          target, published, frames>>
<1>1. signals' \in 0 .. MaxSignals
  <2>1. signals \in 0 .. MaxSignals /\ signals < MaxSignals
    BY DEF TypeOK, Signal
  <2>2. signals' = signals + 1
    BY DEF Signal
  <2> QED BY <2>1, <2>2, SignalsAssumption
<1>2. running' \in BOOLEAN
  BY DEF TypeOK, Signal
<1>3. /\ main' \in {"exited", "quit_sender"}
      /\ main' = "quit_sender" => main \notin {"construct", "exited"}
  BY DEF Signal
<1>5. main' = "quit_sender" => Constructed
  BY <1>3 DEF Places
<1>4. UNCHANGED <<ping_callbacks, entries, held, serverVars, senderVars,
                  receiving_cvels, teensy, pc, mutex_lock, guard, target, published, frames>>
  BY DEF Signal
<1> QED BY <1>1, <1>2, <1>3, <1>4, <1>5

LEMMA MainTypes ==
    ASSUME TypeOK, Places, MainMoves
    PROVE  TypeOK'
<1> USE StandIsVelocity, SignalsAssumption, LinesAssumption
    DEF TypeOK, Places, MainPCs, PCs, SenderPCs
<1>1. CASE Register
  BY <1>1 DEF Register
<1>2. CASE OpenTeensy
  <2>1. main' \in MainPCs /\ fd' \in {"unset", "open", "failed", "closed"}
    BY <1>2 DEF OpenTeensy
  <2>2. UNCHANGED <<signals, running, ping_callbacks, entries, held, request,
                    replied, sender, args, read, drive, receiving_cvels,
                    velocity, measured, pc, mutex_lock, guard, target, frames>>
    BY <1>2 DEF OpenTeensy, serverVars, argVars, teensy
  <2> HIDE StandIsVelocity, SignalsAssumption, LinesAssumption
      DEF MainPCs, PCs, SenderPCs
  <2> QED BY <2>1, <2>2 DEF Constructed
<1>17. CASE StartSender
  BY <1>17 DEF StartSender
<1>18. CASE StoreSender
  BY <1>18 DEF StoreSender
<1>3. ASSUME NEW here, NEW t \in Threads, CreateEntry(here, t)
      PROVE  TypeOK'
  BY <1>3 DEF CreateEntry
<1>4. ASSUME NEW here, NEW t \in Threads, StartThread(here, t),
             here \in {"spin_cmd_vel", "spin_localizer"}
      PROVE  TypeOK'
  BY <1>4 DEF StartThread
<1>14. ASSUME NEW here, NEW t \in Threads, NEW next \in {"spin_localizer", "loop"},
              StoreThread(here, t, next),
              here \in {"spin_cmd_vel", "spin_localizer"}
       PROVE  TypeOK'
  BY <1>14 DEF StoreThread
<1>15. CASE InitComms
  BY <1>15, <1>3, <1>4, <1>14 DEF InitComms, Spin
<1>5. CASE Printed
  BY <1>5 DEF Printed
<1>6. CASE PrintState
  BY <1>6 DEF PrintState
<1>7. CASE JoinSender
  BY <1>7 DEF JoinSender
<1>8. CASE JoinThread("quit_subscriber", "subscriber", "quit_server")
  BY <1>8 DEF JoinThread
<1>9. CASE JoinThread("quit_server", "server", "quit_publisher")
  BY <1>9 DEF JoinThread
<1>10. CASE JoinThread("quit_publisher", "publisher", "cleanup")
  BY <1>10 DEF JoinThread
<1>16. CASE Cleanup
  BY <1>16 DEF Cleanup
<1>19. CASE Exits
  BY <1>19 DEF Exits
<1>11. CASE Signal
  <2>1. /\ signals' \in 0 .. MaxSignals
        /\ running' \in BOOLEAN
        /\ main' \in {"exited", "quit_sender"}
    BY <1>11, SignalEffect
  <2>2. UNCHANGED <<ping_callbacks, entries, held, serverVars, senderVars,
                    receiving_cvels, teensy, pc, mutex_lock, guard, target, published, frames>>
    BY <1>11, SignalEffect
  <2> QED BY <2>1, <2>2
<1> HIDE DEF TypeOK, Places
<1>13. CASE Quit
  BY <1>13, <1>7, <1>8, <1>9, <1>10, <1>16, <1>19
      DEF Quit
<1> QED BY <1>1, <1>2, <1>5, <1>6, <1>11, <1>15, <1>13,
           <1>17, <1>18
        DEF MainMoves, MainStep

LEMMA SenderTypes ==
    ASSUME TypeOK, Places, SenderThread
    PROVE  TypeOK'
<1> USE StandIsVelocity DEF TypeOK, Places, SenderPCs, SenderStep
<1>1. CASE SenderChecks
  BY <1>1 DEF SenderChecks
<1>2. ASSUME NEW field \in {"lin", "ang"}, ReadArgument(field)
      PROVE  TypeOK'
  <2>1. /\ read' = read \cup {field} /\ frames' = frames
        /\ drive' = drive /\ measured' = measured
        /\ SenderStep("args", "args")
    BY <1>2 DEF ReadArgument
  <2>2. args' \in Velocities
    <3>1. velocity \in Velocities
      BY <1>2 DEF ReadArgument
    <3>2. args' = [args EXCEPT ![field] = velocity[field]]
      BY <1>2 DEF ReadArgument
    <3> QED BY <3>1, <3>2, ArgumentUpdate
  <2> QED BY <2>1, <2>2
<1>3. CASE SendDrive
  <2>1. frames' \in 0 .. 2
    BY <1>3 DEF SendDrive, Sends
  <2>2. /\ args' = Stand /\ drive' \in {drive, args} /\ read' = {}
        /\ measured' = measured
        /\ SenderStep("args", "read_v")
    BY <1>3 DEF SendDrive, Sends
  <2> QED BY <2>1, <2>2
<1>4. CASE NoResponse
  BY <1>4 DEF NoResponse
<1>5. ASSUME NEW x \in Samples, ReadResponseV(x)
      PROVE  TypeOK'
  <2>1. measured' \in Measurements
    BY <1>5, SamplesAssumption, MeasurementUpdate DEF ReadResponseV
  <2> QED BY <1>5, <2>1 DEF ReadResponseV
<1>6. ASSUME NEW x \in Samples, ReadResponseW(x)
      PROVE  TypeOK'
  <2>1. measured' \in Measurements
    BY <1>6, SamplesAssumption, MeasurementUpdate DEF ReadResponseW
  <2> QED BY <1>6, <2>1 DEF ReadResponseW
<1> QED BY <1>1, <1>2, <1>3, <1>4, <1>5, <1>6 DEF SenderThread

LEMMA ThreadTypes ==
    ASSUME TypeOK, Places, ThreadMoves
    PROVE  TypeOK'
<1> USE StandIsVelocity, CommandsAssumption, PingsAssumption
    DEF TypeOK, Places, PCs
<1>1. ASSUME NEW t \in Threads, NEW here \in PCs,
             NEW there \in {"check", "poll", "done"},
             there = "poll" => t \in Callbacks,
             here # "none",
             Moves(t, here, there)
      PROVE  TypeOK'
  BY <1>1 DEF Moves
<1>2. ASSUME NEW t \in Threads, ThreadExits(t) \/ NextPoll(t) \/ PollTimeout(t)
      PROVE  TypeOK'
  BY <1>1, <1>2 DEF ThreadExits, NextPoll, PollTimeout
<1>3. ASSUME NEW t \in Threads, AcquireLock(t)
      PROVE  TypeOK'
  BY <1>3 DEF AcquireLock
<1>4. ASSUME NEW t \in Threads, WriteLin(t)
      PROVE  TypeOK'
  <2>1. velocity' \in Velocities
    BY <1>4, VelocityUpdate DEF WriteLin
  <2> QED BY <1>4, <2>1 DEF WriteLin
<1>5. ASSUME NEW t \in Threads, WriteAng(t)
      PROVE  TypeOK'
  <2>1. velocity' \in Velocities
    BY <1>5, VelocityUpdate DEF WriteAng
  <2> QED BY <1>5, <2>1 DEF WriteAng
<1>6. CASE HandlePing
  BY <1>6, LeaveType DEF HandlePing
<1>7. CASE SendReply
  BY <1>7 DEF SendReply
<1>8. CASE DriveMessageCallback
  BY <1>8 DEF DriveMessageCallback
<1>9. CASE CallbackReturns
  BY <1>9 DEF CallbackReturns
<1>10. CASE ReadMeasuredV
  BY <1>10 DEF ReadMeasuredV
<1>11. CASE ReadMeasuredW
  BY <1>11 DEF ReadMeasuredW
<1>12. ASSUME NEW p \in Pings, ReceivePing(p)
       PROVE  TypeOK'
  BY <1>12 DEF ReceivePing
<1>13. ASSUME NEW c \in Commands, ReceiveCmdVel(c)
       PROVE  TypeOK'
  BY <1>13 DEF ReceiveCmdVel
<1> QED BY <1>2, <1>3, <1>4, <1>5, <1>6, <1>7, <1>8, <1>9, <1>10, <1>11,
           <1>12, <1>13
        DEF ThreadMoves, ThreadStep, TakesLock

LEMMA MainPlaces ==
    ASSUME TypeOK, Places, MainMoves
    PROVE  Places'
<1> USE StandIsVelocity, SignalsAssumption
    DEF TypeOK, Places, InCallback, MainPCs, PCs, SenderPCs
<1>1. CASE Register
  BY <1>1 DEF Register
<1>2. CASE OpenTeensy
  BY <1>2, LinesAssumption DEF OpenTeensy
<1>17. CASE StartSender
  BY <1>17 DEF StartSender
<1>18. CASE StoreSender
  BY <1>18 DEF StoreSender
<1>3. ASSUME NEW here, NEW t \in Threads, CreateEntry(here, t)
      PROVE  Places'
  BY <1>3 DEF CreateEntry
<1>4. ASSUME NEW here, NEW t \in Threads, StartThread(here, t),
             here \in {"spin_cmd_vel", "spin_localizer"}
      PROVE  Places'
  BY <1>4 DEF StartThread
<1>14. ASSUME NEW here, NEW t \in Threads, NEW next \in {"spin_localizer", "loop"},
              StoreThread(here, t, next),
              here \in {"spin_cmd_vel", "spin_localizer"}
       PROVE  Places'
  BY <1>14 DEF StoreThread
<1>15. CASE InitComms
  BY <1>15, <1>3, <1>4, <1>14 DEF InitComms, Spin
<1>5. CASE Printed
  BY <1>5 DEF Printed
<1>6. CASE PrintState
  BY <1>6 DEF PrintState
<1>7. CASE JoinSender
  BY <1>7 DEF JoinSender
<1>8. CASE JoinThread("quit_subscriber", "subscriber", "quit_server")
  BY <1>8 DEF JoinThread
<1>9. CASE JoinThread("quit_server", "server", "quit_publisher")
  BY <1>9 DEF JoinThread
<1>10. CASE JoinThread("quit_publisher", "publisher", "cleanup")
  BY <1>10 DEF JoinThread
<1>16. CASE Cleanup
  BY <1>16 DEF Cleanup
<1>19. CASE Exits
  BY <1>19 DEF Exits
<1>11. CASE Signal
  BY <1>11, SignalEffect
<1>13. CASE Quit
  BY <1>13, <1>7, <1>8, <1>9, <1>10, <1>16, <1>19
      DEF Quit
<1> QED BY <1>1, <1>2, <1>5, <1>6, <1>11, <1>15, <1>13,
           <1>17, <1>18
        DEF MainMoves, MainStep

LEMMA SenderPlaces ==
    ASSUME TypeOK, Places, SenderThread
    PROVE  Places'
<1> USE DEF Places, InCallback, SenderStep
<1>1. CASE SenderChecks
  BY <1>1 DEF SenderChecks
<1>2. ASSUME NEW field \in {"lin", "ang"}, ReadArgument(field)
      PROVE  Places'
  BY <1>2 DEF ReadArgument
<1>3. CASE SendDrive
  BY <1>3 DEF SendDrive, Sends
<1>4. CASE NoResponse
  BY <1>4 DEF NoResponse
<1>5. ASSUME NEW x \in Samples, ReadResponseV(x)
      PROVE  Places'
  BY <1>5 DEF ReadResponseV
<1>6. ASSUME NEW x \in Samples, ReadResponseW(x)
      PROVE  Places'
  BY <1>6 DEF ReadResponseW
<1> QED BY <1>1, <1>2, <1>3, <1>4, <1>5, <1>6 DEF SenderThread

LEMMA ThreadPlaces ==
    ASSUME TypeOK, Places, ThreadMoves
    PROVE  Places'
<1> USE StandIsVelocity, CommandsAssumption, PingsAssumption
    DEF TypeOK, Places, InCallback, PCs
<1>1. ASSUME NEW t \in Threads, NEW here \in PCs,
             NEW there \in {"check", "poll", "done"},
             there = "poll" => t \in Callbacks,
             here # "none",
             Moves(t, here, there)
      PROVE  Places'
  BY <1>1 DEF Moves
<1>2. ASSUME NEW t \in Threads, ThreadExits(t) \/ NextPoll(t) \/ PollTimeout(t)
      PROVE  Places'
  BY <1>1, <1>2 DEF ThreadExits, NextPoll, PollTimeout
<1>3. ASSUME NEW t \in Threads, AcquireLock(t)
      PROVE  Places'
  BY <1>3 DEF AcquireLock
<1>4. ASSUME NEW t \in Threads, WriteLin(t)
      PROVE  Places'
  BY <1>4 DEF WriteLin
<1>5. ASSUME NEW t \in Threads, WriteAng(t)
      PROVE  Places'
  BY <1>5 DEF WriteAng
<1>6. CASE HandlePing
  <2>1. /\ pc["server"] = "callback"
        /\ UNCHANGED <<mainVars, request, sender, args, frames>>
    BY <1>6 DEF HandlePing
  <2>2. \E there \in {"write_lin", "end"} :
           /\ pc' = [pc EXCEPT !["server"] = there]
           /\ there = "write_lin" => Constructed
    <3>1. CASE request.type \in ping_callbacks
      <4>1. IsStop(request) => Constructed
        BY <3>1 DEF IsStop
      <4> QED BY <1>6, <3>1, <4>1 DEF HandlePing
    <3>2. CASE request.type \notin ping_callbacks
      BY <1>6, <3>2 DEF HandlePing
    <3> QED BY <3>1, <3>2
  <2> QED BY <2>1, <2>2
<1>7. CASE SendReply
  BY <1>7 DEF SendReply
<1>8. CASE DriveMessageCallback
  BY <1>8 DEF DriveMessageCallback
<1>9. CASE CallbackReturns
  BY <1>9 DEF CallbackReturns
<1>10. CASE ReadMeasuredV
  BY <1>10 DEF ReadMeasuredV
<1>11. CASE ReadMeasuredW
  BY <1>11 DEF ReadMeasuredW
<1>12. ASSUME NEW p \in Pings, ReceivePing(p)
       PROVE  Places'
  BY <1>12 DEF ReceivePing
<1>13. ASSUME NEW c \in Commands, ReceiveCmdVel(c)
       PROVE  Places'
  BY <1>13 DEF ReceiveCmdVel
<1> QED BY <1>2, <1>3, <1>4, <1>5, <1>6, <1>7, <1>8, <1>9, <1>10, <1>11,
           <1>12, <1>13
        DEF ThreadMoves, ThreadStep, TakesLock

LEMMA StepTypes ==
    ASSUME TypeOK, Places, [Next]_vars
    PROVE  TypeOK' /\ Places'
<1>1. CASE UNCHANGED vars
  BY <1>1 DEF TypeOK, Places, InCallback, vars
<1> QED BY <1>1, Movers, MainTypes, SenderTypes, ThreadTypes,
           MainPlaces, SenderPlaces, ThreadPlaces

(* The members of the kernel keep their types; once the constructor has    *)
(* returned, the velocity is one that was written.                         *)
THEOREM TypeCorrect == Spec => []TypeOK
<1>1. Init => TypeOK /\ Places
  BY InitTypes, InitPlaces
<1>2. TypeOK /\ Places /\ [Next]_vars => TypeOK' /\ Places'
  BY StepTypes
<1> QED BY <1>1, <1>2, PTL DEF Spec

-----------------------------------------------------------------------------
(* What the lock of NetworkPatterns keeps apart.                           *)

StopInv == LockHeld /\ TargetHasLeave /\ StopInProgress /\ StopSettled

LEMMA Functions ==
    ASSUME TypeOK
    PROVE  /\ pc \in [Threads -> PCs]
           /\ target \in [Callbacks -> Velocities]
BY DEF TypeOK

(* Storing the zero velocity field by field.                               *)
LEMMA StandUpdate ==
    /\ [Stand EXCEPT !.lin = Stand.lin] = Stand
    /\ [Stand EXCEPT !.ang = Stand.ang] = Stand
    /\ \A u \in Velocities :
          /\ [u EXCEPT !.lin = Stand.lin].lin = 0
          /\ u.lin = 0 => [u EXCEPT !.ang = Stand.ang] = Stand
BY DEF Stand, Velocities

(* STOP_EVERYTHING withdraws the leave to drive.                           *)
LEMMA StopTakesLeave ==
    ASSUME IsStop(request) PROVE ~Leave(request)
<1>1. TakesLeave(request.code, request.excess)
  BY DEF IsStop, TakesLeave
<1>2. ~GivesLeave(request.code, request.excess)
  <2>1. /\ {"STOP_EVERYTHING"} # {"MOVE_TO_MINE"}
        /\ {"STOP_EVERYTHING"} # {"MOVE_TO_DUMP"}
        /\ {"STOP_EVERYTHING"} # {"CLEAN_EXIT"}
    OBVIOUS
  <2> QED BY <2>1 DEF IsStop, GivesLeave, Moving
<1> QED BY <1>1, <1>2 DEF Leave

LEMMA InitStopInv == Init => StopInv
BY DEF Init, StopInv, LockHeld, InCallback, TargetHasLeave, StopInProgress,
       StopSettled, Stopped

LEMMA MainStopInv ==
    ASSUME TypeOK, Places, StopInv, MainMoves
    PROVE  StopInv'
<1> USE Functions DEF StopInv, LockHeld, InCallback, TargetHasLeave,
        StopInProgress, StopSettled, Stopped
<1>1. CASE Register
  BY <1>1 DEF Register, Places
<1>2. CASE OpenTeensy
  BY <1>2, LinesAssumption DEF OpenTeensy, Places
<1>17. CASE StartSender
  BY <1>17 DEF StartSender, Places
<1>18. CASE StoreSender
  BY <1>18 DEF StoreSender, Places
<1>3. ASSUME NEW here, NEW t \in Threads, CreateEntry(here, t)
      PROVE  StopInv'
  BY <1>3 DEF CreateEntry
<1>4. ASSUME NEW here, NEW t \in Threads, StartThread(here, t),
             here \in {"spin_cmd_vel", "spin_localizer"}
      PROVE  StopInv'
  BY <1>4 DEF StartThread
<1>14. ASSUME NEW here, NEW t \in Threads, NEW next \in {"spin_localizer", "loop"},
              StoreThread(here, t, next),
              here \in {"spin_cmd_vel", "spin_localizer"}
       PROVE  StopInv'
  BY <1>14 DEF StoreThread
<1>15. CASE InitComms
  BY <1>15, <1>3, <1>4, <1>14 DEF InitComms, Spin
<1>5. CASE Printed
  BY <1>5 DEF Printed
<1>6. CASE PrintState
  BY <1>6 DEF PrintState
<1>7. CASE JoinSender
  BY <1>7 DEF JoinSender
<1>8. CASE JoinThread("quit_subscriber", "subscriber", "quit_server")
  BY <1>8 DEF JoinThread
<1>9. CASE JoinThread("quit_server", "server", "quit_publisher")
  BY <1>9 DEF JoinThread
<1>10. CASE JoinThread("quit_publisher", "publisher", "cleanup")
  BY <1>10 DEF JoinThread
<1>16. CASE Cleanup
  BY <1>16 DEF Cleanup
<1>19. CASE Exits
  BY <1>19 DEF Exits
<1>11. CASE Signal
  BY <1>11 DEF Signal
<1>13. CASE Quit
  BY <1>13, <1>7, <1>8, <1>9, <1>10, <1>16, <1>19
      DEF Quit
<1> QED BY <1>1, <1>2, <1>5, <1>6, <1>11, <1>15, <1>13,
           <1>17, <1>18
        DEF MainMoves, MainStep

LEMMA SenderStopInv ==
    ASSUME TypeOK, Places, StopInv, SenderThread
    PROVE  StopInv'
<1> USE DEF StopInv, LockHeld, InCallback, TargetHasLeave, StopInProgress,
            StopSettled, Stopped, SenderStep, Places
<1>1. CASE SenderChecks
  BY <1>1 DEF SenderChecks
<1>2. ASSUME NEW field \in {"lin", "ang"}, ReadArgument(field)
      PROVE  StopInv'
  BY <1>2 DEF ReadArgument, Stand
<1>3. CASE SendDrive
  BY <1>3 DEF SendDrive, Sends, TypeOK
<1>4. CASE NoResponse
  BY <1>4 DEF NoResponse
<1>5. ASSUME NEW x \in Samples, ReadResponseV(x)
      PROVE  StopInv'
  BY <1>5 DEF ReadResponseV
<1>6. ASSUME NEW x \in Samples, ReadResponseW(x)
      PROVE  StopInv'
  BY <1>6 DEF ReadResponseW
<1> QED BY <1>1, <1>2, <1>3, <1>4, <1>5, <1>6 DEF SenderThread

LEMMA ThreadStopInv ==
    ASSUME TypeOK, Places, StopInv, ThreadMoves
    PROVE  StopInv'
<1> USE Functions DEF StopInv, LockHeld, InCallback, TargetHasLeave,
        StopInProgress, StopSettled, Stopped
<1>2. ASSUME NEW t \in Threads, ThreadExits(t) \/ NextPoll(t) \/ PollTimeout(t)
      PROVE  StopInv'
  BY <1>2 DEF ThreadExits, NextPoll, PollTimeout, Moves
<1>3. ASSUME NEW t \in Threads, AcquireLock(t)
      PROVE  StopInv'
  BY <1>3 DEF AcquireLock, Places
<1>4. ASSUME NEW t \in Threads, WriteLin(t)
      PROVE  StopInv'
  BY <1>4 DEF WriteLin, Places, Stand
<1>5. ASSUME NEW t \in Threads, WriteAng(t)
      PROVE  StopInv'
  <2>1. t \in Callbacks /\ velocity \in Velocities
    BY <1>5 DEF WriteAng, Places, TypeOK
  <2>2. CASE t = "server"
    BY <1>5, <2>1, <2>2, StandUpdate DEF WriteAng
  <2>3. CASE t = "subscriber"
    BY <1>5, <2>1, <2>3, StandUpdate DEF WriteAng
  <2> QED BY <2>1, <2>2, <2>3
<1>6. CASE HandlePing
  <2>1. CASE request.type \in ping_callbacks /\ IsStop(request)
    <3>1. ~receiving_cvels' /\ pc' = [pc EXCEPT !["server"] = "write_lin"]
      BY <1>6, <2>1, StopTakesLeave DEF HandlePing
    <3>2. Constructed /\ request # NoPing
      BY <1>6, <2>1 DEF HandlePing, Places, IsStop
    <3>3. UNCHANGED <<mainVars, serverVars, senderVars, velocity, mutex_lock,
                      target, frames>>
      BY <1>6 DEF HandlePing
    <3>4. mutex_lock = "server" /\ pc["subscriber"] \notin {"write_lin", "write_ang"}
      BY <1>6 DEF HandlePing
    <3> QED BY <2>1, <3>1, <3>2, <3>3, <3>4
  <2>2. CASE request.type \in ping_callbacks /\ ~IsStop(request)
    BY <1>6, <2>2, LeaveType DEF HandlePing
  <2>3. CASE request.type \notin ping_callbacks
    BY <1>6, <2>3 DEF HandlePing, IsStop
  <2> QED BY <2>1, <2>2, <2>3
<1>7. CASE SendReply
  BY <1>7 DEF SendReply
<1>8. CASE DriveMessageCallback
  BY <1>8 DEF DriveMessageCallback
<1>9. CASE CallbackReturns
  BY <1>9 DEF CallbackReturns
<1>10. CASE ReadMeasuredV
  BY <1>10 DEF ReadMeasuredV
<1>11. CASE ReadMeasuredW
  BY <1>11 DEF ReadMeasuredW
<1>12. ASSUME NEW p \in Pings, ReceivePing(p)
       PROVE  StopInv'
  BY <1>12 DEF ReceivePing
<1>13. ASSUME NEW c \in Commands, ReceiveCmdVel(c)
       PROVE  StopInv'
  BY <1>13 DEF ReceiveCmdVel
<1> QED BY <1>2, <1>3, <1>4, <1>5, <1>6, <1>7, <1>8, <1>9, <1>10, <1>11,
           <1>12, <1>13
        DEF ThreadMoves, ThreadStep, TakesLock

LEMMA StepStopInv ==
    ASSUME TypeOK, Places, StopInv, [Next]_vars
    PROVE  StopInv'
<1>1. CASE UNCHANGED vars
  BY <1>1 DEF vars, StopInv, LockHeld, InCallback, TargetHasLeave,
              StopInProgress, StopSettled, Stopped
<1> QED BY <1>1, Movers, MainStopInv, SenderStopInv, ThreadStopInv

-----------------------------------------------------------------------------
(* The serial line is not closed under a sender that is stored.            *)

LEMMA MainSerialInv ==
    ASSUME TypeOK, Places, SerialInv, MainMoves
    PROVE  SerialInv'
<1> USE DEF SerialInv
<1>1. CASE Register
  BY <1>1 DEF Register
<1>2. CASE OpenTeensy
  BY <1>2, LinesAssumption DEF OpenTeensy, Places
<1>17. CASE StartSender
  BY <1>17 DEF StartSender, Places
<1>18. CASE StoreSender
  BY <1>18 DEF StoreSender, Places
<1>3. CASE InitComms
  BY <1>3 DEF InitComms, Spin, CreateEntry, StartThread, StoreThread
<1>4. CASE Printed \/ PrintState
  BY <1>4 DEF Printed, PrintState
<1>5. CASE Quit
  BY <1>5 DEF Quit, JoinSender, JoinThread, Cleanup, Exits
<1>6. CASE Signal
  BY <1>6, SignalEffect
<1> QED BY <1>1, <1>2, <1>3, <1>4, <1>5, <1>6, <1>17, <1>18
        DEF MainMoves, MainStep

LEMMA SenderSerialInv ==
    ASSUME SerialInv, SenderThread
    PROVE  SerialInv'
BY DEF SerialInv, SenderThread, SenderStep, SenderChecks, ReadArgument,
       SendDrive, Sends, NoResponse, ReadResponseV, ReadResponseW

LEMMA ThreadSerialInv ==
    ASSUME SerialInv, ThreadMoves
    PROVE  SerialInv'
<1>1. UNCHANGED <<mainVars, senderVars>>
  BY DEF ThreadMoves, ThreadStep, TakesLock, ThreadExits, NextPoll,
         PollTimeout, Moves, AcquireLock, WriteLin, WriteAng, HandlePing,
         SendReply, DriveMessageCallback, CallbackReturns, ReadMeasuredV,
         ReadMeasuredW, ReceivePing, ReceiveCmdVel
<1> QED BY <1>1 DEF SerialInv

-----------------------------------------------------------------------------
(* The theorems.                                                           *)

(* The inductive invariant holds in every reachable state.                 *)
THEOREM Invariance == Spec => []IInv
<1>1. Init => IInv
  <2>1. Init => SerialInv
    BY DEF Init, SerialInv
  <2> QED BY <2>1, InitTypes, InitPlaces, InitStopInv DEF IInv, StopInv
<1>2. IInv /\ [Next]_vars => IInv'
  <2> SUFFICES ASSUME IInv, [Next]_vars PROVE IInv'
      OBVIOUS
  <2>1. TypeOK' /\ Places'
    BY StepTypes DEF IInv
  <2>2. StopInv'
    BY StepStopInv DEF IInv, StopInv
  <2>3. SerialInv'
    <3>1. CASE UNCHANGED vars
      BY <3>1 DEF IInv, SerialInv, vars
    <3> QED BY <3>1, Movers, MainSerialInv, SenderSerialInv, ThreadSerialInv
            DEF IInv
  <2> QED BY <2>1, <2>2, <2>3 DEF IInv, StopInv
<1> QED BY <1>1, <1>2, PTL DEF Spec

(* Once a STOP_EVERYTHING was replied to, no velocity command on its way   *)
(* sets the velocity before another request is replied to.                 *)
THEOREM StopIsKept == Spec => []StopStands
<1>1. IInv => StopStands
  BY DEF IInv, StopSettled, StopStands
<1> QED BY <1>1, Invariance, PTL

(* At most one frame after the reply to a STOP_EVERYTHING moves the robot.  *)
THEOREM StopIsSent == Spec => []StopWithinOneFrame
<1>1. IInv => StopWithinOneFrame
  BY DEF IInv, StopSettled, StopWithinOneFrame
<1> QED BY <1>1, Invariance, PTL

(* A sender that kermit_quit() can join never uses a serial line that was  *)
(* not tried yet or is closed already, wherever signals come.              *)
THEOREM LineNotClosedUnderSender == Spec => []SerialLineKept
<1>1. IInv => SerialLineKept
  BY DEF IInv, SerialInv, SerialLineKept
<1> QED BY <1>1, Invariance, PTL

(* No step but one of the cmd_vel callback, at a time when commands are    *)
(* welcome, makes a component of the velocity something else than zero.    *)
THEOREM MovesWithLeave == Spec => MovesOnlyWithLeave
<1> DEFINE Allowed ==
        \A field \in {"lin", "ang"} :
            velocity'[field] \notin {velocity[field], 0} => receiving_cvels
<1>1. ASSUME IInv, [Next]_vars
      PROVE  [Allowed]_vars
  <2>1. CASE UNCHANGED velocity
    BY <2>1
  <2>2. CASE Register
    BY <2>2 DEF Register, Stand
  <2>3. ASSUME NEW t \in Threads, WriteLin(t)
        PROVE  Allowed
    <3>1. t \in Callbacks /\ velocity \in Velocities
      BY <1>1, <2>3 DEF WriteLin, IInv, Places, TypeOK
    <3>2. target[t].lin = 0 \/ receiving_cvels
      <4>1. target[t] = Stand \/ receiving_cvels
        BY <1>1, <2>3, <3>1 DEF WriteLin, IInv, TargetHasLeave
      <4> QED BY <4>1 DEF Stand
    <3>3. velocity'["lin"] = target[t].lin /\ velocity'["ang"] = velocity["ang"]
      BY <2>3, <3>1 DEF WriteLin, Velocities
    <3> QED BY <3>2, <3>3
  <2>4. ASSUME NEW t \in Threads, WriteAng(t)
        PROVE  Allowed
    <3>1. t \in Callbacks /\ velocity \in Velocities
      BY <1>1, <2>4 DEF WriteAng, IInv, Places, TypeOK
    <3>2. target[t].ang = 0 \/ receiving_cvels
      <4>1. target[t] = Stand \/ receiving_cvels
        BY <1>1, <2>4, <3>1 DEF WriteAng, IInv, TargetHasLeave
      <4> QED BY <4>1 DEF Stand
    <3>3. velocity'["ang"] = target[t].ang /\ velocity'["lin"] = velocity["lin"]
      BY <2>4, <3>1 DEF WriteAng, Velocities
    <3> QED BY <3>2, <3>3
  <2>5. \/ UNCHANGED velocity
        \/ Register
        \/ \E t \in Threads : WriteLin(t) \/ WriteAng(t)
    BY <1>1
    DEF Next, vars, MainStep, OpenTeensy, StartSender, StoreSender, InitComms,
        Spin, CreateEntry, StartThread, StoreThread, Printed, Quit, JoinSender,
        JoinThread, Cleanup, Exits, PrintState, Signal, SenderThread,
        SenderStep, SenderChecks, ReadArgument, SendDrive, Sends, NoResponse,
        ReadResponseV, ReadResponseW, ThreadStep, TakesLock, ThreadExits,
        NextPoll, PollTimeout, Moves, AcquireLock, HandlePing, SendReply,
        DriveMessageCallback, CallbackReturns, ReadMeasuredV, ReadMeasuredW,
        ReceivePing, ReceiveCmdVel, Exited
  <2> QED BY <2>1, <2>2, <2>3, <2>4, <2>5
<1>2. Spec => [][Allowed]_vars
  BY <1>1, Invariance, PTL DEF Spec
<1> QED BY <1>2 DEF MovesOnlyWithLeave

=============================================================================

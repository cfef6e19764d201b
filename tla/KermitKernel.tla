---------------------------- MODULE KermitKernel ----------------------------
(***************************************************************************)
(* scpp::curmt::KermitKernel, the process that drives the robot, with its  *)
(* bases KermitNetworkInterface and RMTControlClient and the main program. *)
(*                                                                         *)
(* Six activities share the object:                                        *)
(*   - the main thread constructs it, starts the others, prints, and is    *)
(*     the thread that runs the signal handler;                            *)
(*   - "server" answers pings: orders to change state;                     *)
(*   - "subscriber" receives velocity commands (cmd_vel);                  *)
(*   - "publisher" publishes what the Teensy measured (localizer);         *)
(*   - the sender writes the velocity to the Teensy's serial line every    *)
(*     100 ms and reads back what it measured, with no lock at all.        *)
(* Server and subscriber run their callbacks under NetworkPatterns'        *)
(* mutex_lock, and reach the velocity under this file's own lock, guard.   *)
(***************************************************************************)
EXTENDS Naturals, FiniteSets

CONSTANTS
    Speeds,      \* values of a velocity component; 0 is standing still
    Commands,    \* the velocity commands that controllers publish
    Pings,       \* the requests that clients send
    Samples,     \* <<v, w>> pairs the Teensy measures
    Lines,       \* how opening the serial port may end
    Debug,       \* --debug: no Teensy is attached
    Verbose,     \* --verbose: print_state() now and then
    MaxSignals,  \* bound: SIGINT and SIGQUIT delivered
    NoPing,
    Garbage      \* a member of the object that was never written

Velocities == [lin : Speeds, ang : Speeds]

Stand == [lin |-> 0, ang |-> 0]

Measurements == [v : Speeds \cup {Garbage}, w : Speeds \cup {Garbage}]

\* Members of the object before anything is stored in them.
NoVelocity    == [lin |-> Garbage, ang |-> Garbage]
NoMeasurement == [v |-> Garbage, w |-> Garbage]

\* Codes of a STATE_REQUEST; a code is a set of or'ed bits.
States == {"STOP_EVERYTHING", "DUMP", "MINE", "MOVE_TO_DUMP",
           "MOVE_TO_MINE", "INIT_STATE", "CLEAN_EXIT", "MICRO_MOVEMENT"}

\* Bits of the excess field: what bits 1 to 3 say depends on the code.
Flags == 0 .. 4
ENTERING_STATE == 0
EXITING_STATE  == 4
START_DRIVING  == 1
STOP_DRIVING   == 2
RETRACT_ALL    == 2
SYS_OFF        == 3

Types == {"UNDEF", "ACK", "PING_ECHO", "INVALID_REQUEST", "STATE_REQUEST"}

Requests == [type : Types, code : SUBSET States, excess : SUBSET Flags]

ASSUME SpeedsAssumption   == 0 \in Speeds /\ Garbage \notin Speeds
ASSUME CommandsAssumption == Commands \subseteq Velocities
ASSUME PingsAssumption    == Pings \subseteq Requests /\ NoPing \notin Requests
ASSUME SamplesAssumption  == Samples \subseteq Speeds \X Speeds
ASSUME LinesAssumption    == Lines \subseteq {"open", "failed"} /\ Lines # {}
ASSUME ModeAssumption     == Debug \in BOOLEAN /\ Verbose \in BOOLEAN
ASSUME SignalsAssumption  == MaxSignals \in Nat

VARIABLES
    main,            \* where the main thread stands
    signals,         \* signals delivered so far
    running,         \* KermitNetworkInterface::running
    ping_callbacks,  \* the types of ping that have a handler
    entries,         \* the client threads that have an entry in thread_space
    held,            \* the threads whose std::thread is stored where quit()
                     \* finds it: in its entry, or in async_sender
    receiving_cvels, \* KermitKernel::receiving_cvels
    velocity,        \* teensy.lin and teensy.ang, what the sender is to send
    measured,        \* teensy.v and teensy.w, what the Teensy answered
    fd,              \* the serial line in teensy.dev
    pc,              \* where server, subscriber and publisher stand
    mutex_lock,      \* holder of NetworkPatterns' lock
    guard,           \* holder of KermitNetworkInterface's lock
    request,         \* the ping the server is handling
    target,          \* the velocity that server or subscriber is setting
    sender,          \* where the sender stands
    args,            \* the arguments it has read for the next send_drive()
    read,            \* which of them it has read
    drive,           \* the last velocity written to the serial line
    published,       \* the last measurement published
    replied,         \* the last ping replied to, and the type of the reply
    frames           \* drives sent since that reply, up to 2

teensy     == <<velocity, measured>>
mainVars   == <<main, signals, running, ping_callbacks, entries, held>>
serverVars == <<request, replied>>
argVars    == <<args, read>>
senderVars == <<sender, argVars, drive, fd>>
vars == <<mainVars, serverVars, senderVars, receiving_cvels, teensy, pc,
          mutex_lock, guard, target, published, frames>>

Callbacks == {"server", "subscriber"}
Threads   == Callbacks \cup {"publisher"}

MainPCs == {"construct", "start", "start_sender", "spin_cmd_vel",
            "spin_localizer", "loop", "print", "quit_sender",
            "quit_subscriber", "quit_server", "quit_publisher", "cleanup",
            "destroy", "exited"}

PCs == {"none", "check", "poll", "lock", "callback", "write_lin",
        "write_ang", "end", "read_w", "done"}

SenderPCs == {"none", "check", "args", "read_v", "read_w", "done"}

\* The base class has bound the server already; no member is written yet.
Init ==
    /\ main = "construct"
    /\ signals = 0
    /\ running = TRUE
    /\ ping_callbacks = {}
    /\ entries = {"server"}
    /\ held = {"server"}
    /\ receiving_cvels \in BOOLEAN
    /\ velocity = NoVelocity
    /\ measured = NoMeasurement
    /\ fd = "unset"
    /\ pc = [t \in Threads |-> IF t = "server" THEN "check" ELSE "none"]
    /\ mutex_lock = "none"
    /\ guard = "none"
    /\ request = NoPing
    /\ target = [t \in Callbacks |-> Stand]
    /\ sender = "none"
    /\ args = Stand
    /\ read = {}
    /\ drive = Stand
    /\ published = <<Garbage, Garbage>>
    /\ replied = [request |-> NoPing, type |-> "ACK"]
    /\ frames = 0

\* The constructor is through: state requests have their handler.
Constructed == "STATE_REQUEST" \in ping_callbacks

Alive == main # "exited"

-----------------------------------------------------------------------------
(* The main thread.                                                        *)

\* mutant of Register: the constructor leaves the velocity unwritten.
RegisterWithoutZero ==
    /\ main = "construct"
    /\ receiving_cvels' = FALSE
    /\ ping_callbacks' = {"STATE_REQUEST"}
    /\ main' = "start"
    /\ UNCHANGED <<signals, running, entries, held, serverVars, senderVars,
                   teensy, pc, mutex_lock, guard, target, published, frames>>

(***************************************************************************)
(* The body of the constructor; the handler is registered last. A lookup   *)
(* by the server that overlaps the insertion finds the handler or does     *)
(* not: the outcomes of a lookup just before and just after this step.     *)
(***************************************************************************)
Register ==
    /\ main = "construct"
    /\ receiving_cvels' = FALSE
    /\ velocity' = Stand
    /\ ping_callbacks' = {"STATE_REQUEST"}
    /\ main' = "start"
    /\ UNCHANGED <<signals, running, entries, held, serverVars, senderVars,
                   measured, pc, mutex_lock, guard, target, published, frames>>

\* new_teensy_device(), whose failure init_teensy_peripheral() ignores.
OpenTeensy ==
    /\ main = "start"
    /\ IF Debug
       THEN main' = "spin_cmd_vel" /\ UNCHANGED fd
       ELSE main' = "start_sender" /\ fd' \in Lines
    /\ UNCHANGED <<signals, running, ping_callbacks, entries, held, serverVars,
                   sender, argVars, drive, receiving_cvels, teensy, pc,
                   mutex_lock, guard, target, published, frames>>

\* The sender runs before async_sender has it.
StartSender ==
    /\ main = "start_sender"
    /\ sender = "none"
    /\ sender' = "check"
    /\ UNCHANGED <<mainVars, serverVars, argVars, drive, fd, receiving_cvels,
                   teensy, pc, mutex_lock, guard, target, published, frames>>

StoreSender ==
    /\ main = "start_sender"
    /\ sender # "none"
    /\ held' = held \cup {"sender"}
    /\ main' = "spin_cmd_vel"
    /\ UNCHANGED <<signals, running, ping_callbacks, entries, serverVars,
                   senderVars, receiving_cvels, teensy, pc, mutex_lock, guard,
                   target, published, frames>>

(***************************************************************************)
(* init_comms() spins the subscriber, then the publisher. Each time        *)
(* create_socket() makes the entry, and the thread runs before the entry   *)
(* has it.                                                                 *)
(***************************************************************************)
CreateEntry(here, t) ==
    /\ main = here
    /\ t \notin entries
    /\ entries' = entries \cup {t}
    /\ UNCHANGED <<main, signals, running, ping_callbacks, held, serverVars,
                   senderVars, receiving_cvels, teensy, pc, mutex_lock, guard,
                   target, published, frames>>

StartThread(here, t) ==
    /\ main = here
    /\ t \in entries
    /\ pc[t] = "none"
    /\ pc' = [pc EXCEPT ![t] = "check"]
    /\ UNCHANGED <<mainVars, serverVars, senderVars, receiving_cvels, teensy,
                   mutex_lock, guard, target, published, frames>>

StoreThread(here, t, next) ==
    /\ main = here
    /\ pc[t] # "none"
    /\ held' = held \cup {t}
    /\ main' = next
    /\ UNCHANGED <<signals, running, ping_callbacks, entries, serverVars,
                   senderVars, receiving_cvels, teensy, pc, mutex_lock, guard,
                   target, published, frames>>

Spin(here, t, next) ==
    \/ CreateEntry(here, t)
    \/ StartThread(here, t)
    \/ StoreThread(here, t, next)

InitComms ==
    \/ Spin("spin_cmd_vel", "subscriber", "spin_localizer")
    \/ Spin("spin_localizer", "publisher", "loop")

PrintState ==
    /\ Verbose
    /\ main = "loop"
    /\ guard = "none"
    /\ guard' = "main"
    /\ main' = "print"
    /\ UNCHANGED <<signals, running, ping_callbacks, entries, held, serverVars,
                   senderVars, receiving_cvels, teensy, pc, mutex_lock, target,
                   published, frames>>

Printed ==
    /\ main = "print"
    /\ guard' = "none"
    /\ main' = "loop"
    /\ UNCHANGED <<signals, running, ping_callbacks, entries, held, serverVars,
                   senderVars, receiving_cvels, teensy, pc, mutex_lock, target,
                   published, frames>>

(***************************************************************************)
(* SIGINT or SIGQUIT, handled on the main thread wherever it stands. The   *)
(* handler destroys the kernel, which starts with kermit_quit(), and ends  *)
(* the process. Until the kernel is constructed and assigned to the global *)
(* pointer there is none to destroy, and while a first signal destroys it  *)
(* the pointer is already null: in both cases the handler exits at once.   *)
(***************************************************************************)
Quitting == main \in {"quit_sender", "quit_subscriber", "quit_server",
                      "quit_publisher", "cleanup", "destroy"}

Signal ==
    /\ Alive
    /\ signals < MaxSignals
    /\ signals' = signals + 1
    /\ \/ /\ main \in {"construct", "start"} \/ Quitting
          /\ main' = "exited"
          /\ UNCHANGED running
       \/ /\ main # "construct" /\ ~Quitting
          /\ main' = "quit_sender"
          /\ running' = FALSE
    /\ UNCHANGED <<ping_callbacks, entries, held, serverVars, senderVars,
                   receiving_cvels, teensy, pc, mutex_lock, guard, target,
                   published, frames>>

\* mutant of JoinSender: the serial line is closed without the join.
JoinSenderForgotten ==
    /\ main = "quit_sender"
    /\ main' = "quit_subscriber"
    /\ fd' = IF "sender" \in held THEN "closed" ELSE fd
    /\ UNCHANGED <<signals, running, ping_callbacks, entries, held, serverVars,
                   sender, argVars, drive, receiving_cvels, teensy, pc,
                   mutex_lock, guard, target, published, frames>>

\* async_sender is null in debug mode and until start() has stored it.
JoinSender ==
    /\ main = "quit_sender"
    /\ "sender" \in held => sender = "done"
    /\ main' = "quit_subscriber"
    /\ fd' = IF "sender" \in held THEN "closed" ELSE fd
    /\ UNCHANGED <<signals, running, ping_callbacks, entries, held, serverVars,
                   sender, argVars, drive, receiving_cvels, teensy, pc,
                   mutex_lock, guard, target, published, frames>>

(***************************************************************************)
(* quit() signals a thread and joins it before it turns to the next. The   *)
(* join of an entry that has no thread yet ends the process: it goes       *)
(* through a null pointer.                                                 *)
(***************************************************************************)
JoinThread(here, t, next) ==
    /\ main = here
    /\ \/ t \notin entries /\ main' = next
       \/ t \in held /\ pc[t] = "done" /\ main' = next
       \/ t \in entries \ held /\ main' = "exited"
    /\ UNCHANGED <<signals, running, ping_callbacks, entries, held, serverVars,
                   senderVars, receiving_cvels, teensy, pc, mutex_lock, guard,
                   target, published, frames>>

\* ~KermitNetworkInterface() closes the serial line (again).
Cleanup ==
    /\ main = "cleanup"
    /\ main' = "destroy"
    /\ fd' = "closed"
    /\ UNCHANGED <<signals, running, ping_callbacks, entries, held, serverVars,
                   sender, argVars, drive, receiving_cvels, teensy, pc,
                   mutex_lock, guard, target, published, frames>>

\* The base classes are destroyed, the memory is freed, and exit(0).
Exits ==
    /\ main = "destroy"
    /\ main' = "exited"
    /\ UNCHANGED <<signals, running, ping_callbacks, entries, held, serverVars,
                   senderVars, receiving_cvels, teensy, pc, mutex_lock, guard,
                   target, published, frames>>

Quit ==
    \/ JoinSender
    \/ JoinThread("quit_subscriber", "subscriber", "quit_server")
    \/ JoinThread("quit_server", "server", "quit_publisher")
    \/ JoinThread("quit_publisher", "publisher", "cleanup")
    \/ Cleanup
    \/ Exits

\* quit() has set the exit signal of this thread.
Signalled(t) ==
    \/ main \in {"quit_publisher", "cleanup", "destroy"}
    \/ main = "quit_server" /\ t # "publisher"
    \/ main = "quit_subscriber" /\ t = "subscriber"

-----------------------------------------------------------------------------
(* The loops of NetworkPatterns, and update_teensy_message().              *)

GoTo(t, there) == pc' = [pc EXCEPT ![t] = there]

\* Nothing but the place of a thread changes.
Moves(t, here, there) ==
    /\ Alive
    /\ pc[t] = here
    /\ GoTo(t, there)
    /\ UNCHANGED <<mainVars, serverVars, senderVars, receiving_cvels, teensy,
                   mutex_lock, guard, target, published, frames>>

ThreadExits(t) == Signalled(t) /\ Moves(t, "check", "done")

NextPoll(t) == t \in Callbacks /\ ~Signalled(t) /\ Moves(t, "check", "poll")

PollTimeout(t) == Moves(t, "poll", "check")

ReceivePing(p) ==
    /\ Alive
    /\ pc["server"] = "poll"
    /\ GoTo("server", "lock")
    /\ request' = p
    /\ UNCHANGED <<mainVars, replied, senderVars, receiving_cvels, teensy,
                   mutex_lock, guard, target, published, frames>>

ReceiveCmdVel(c) ==
    /\ Alive
    /\ pc["subscriber"] = "poll"
    /\ GoTo("subscriber", "lock")
    /\ target' = [target EXCEPT !["subscriber"] = c]
    /\ UNCHANGED <<mainVars, serverVars, senderVars, receiving_cvels, teensy,
                   mutex_lock, guard, published, frames>>

\* mutant of AcquireLock: callbacks are not serialised.
AcquireNoLock(t) == Moves(t, "lock", "callback")

AcquireLock(t) ==
    /\ Alive
    /\ pc[t] = "lock"
    /\ mutex_lock = "none"
    /\ mutex_lock' = t
    /\ GoTo(t, "callback")
    /\ UNCHANGED <<mainVars, serverVars, senderVars, receiving_cvels, teensy,
                   guard, target, published, frames>>

\* update_teensy_message() stores two floats under guard; who reads them
\* without it may come in between.
WriteLin(t) ==
    /\ Alive
    /\ pc[t] = "write_lin"
    /\ guard = "none"
    /\ guard' = t
    /\ velocity' = [velocity EXCEPT !.lin = target[t].lin]
    /\ GoTo(t, "write_ang")
    /\ UNCHANGED <<mainVars, serverVars, senderVars, receiving_cvels, measured,
                   mutex_lock, target, published, frames>>

WriteAng(t) ==
    /\ Alive
    /\ pc[t] = "write_ang"
    /\ guard' = "none"
    /\ velocity' = [velocity EXCEPT !.ang = target[t].ang]
    /\ GoTo(t, "end")
    /\ UNCHANGED <<mainVars, serverVars, senderVars, receiving_cvels, measured,
                   mutex_lock, target, published, frames>>

-----------------------------------------------------------------------------
(* The server: ping_server_callback() and robot_ping_handler().            *)

(***************************************************************************)
(* What a state request does to receiving_cvels. The switch compares the   *)
(* whole code, and a code it does not know changes nothing. Where several  *)
(* bits of excess are set, the last one that the handler tests decides.    *)
(***************************************************************************)
Moving == {{"MOVE_TO_MINE"}, {"MOVE_TO_DUMP"}}

GivesLeave(code, excess) ==
    \/ /\ code \in Moving
       /\ START_DRIVING \in excess
       /\ excess \cap {STOP_DRIVING, EXITING_STATE} = {}
    \/ /\ code = {"CLEAN_EXIT"}
       /\ RETRACT_ALL \in excess
       /\ SYS_OFF \notin excess

TakesLeave(code, excess) ==
    \/ code = {"STOP_EVERYTHING"}
    \/ code \in {{"DUMP"}, {"MINE"}} /\ excess # {}
    \/ /\ code \in Moving
       /\ excess \cap {ENTERING_STATE, STOP_DRIVING, EXITING_STATE} # {}
    \/ code = {"INIT_STATE"} /\ excess \ {EXITING_STATE} # {}
    \/ code = {"CLEAN_EXIT"} /\ excess \cap {ENTERING_STATE, SYS_OFF} # {}

Leave(p) ==
    \/ GivesLeave(p.code, p.excess)
    \/ receiving_cvels /\ ~TakesLeave(p.code, p.excess)

IsStop(p) == p.type = "STATE_REQUEST" /\ p.code = {"STOP_EVERYTHING"}

\* mutant of HandlePing: STOP_EVERYTHING leaves the velocity as it is.
HandlePingWithoutZero ==
    /\ Alive
    /\ pc["server"] = "callback"
    /\ IF request.type \in ping_callbacks
       THEN receiving_cvels' = Leave(request)
       ELSE UNCHANGED receiving_cvels
    /\ GoTo("server", "end")
    /\ UNCHANGED <<mainVars, serverVars, senderVars, teensy, mutex_lock, guard,
                   target, published, frames>>

\* Types without a handler, and every type until the constructor is through,
\* get the default reply.
HandlePing ==
    /\ Alive
    /\ pc["server"] = "callback"
    /\ IF request.type \in ping_callbacks
       THEN /\ receiving_cvels' = Leave(request)
            /\ GoTo("server", IF IsStop(request) THEN "write_lin" ELSE "end")
       ELSE UNCHANGED receiving_cvels /\ GoTo("server", "end")
    /\ UNCHANGED <<mainVars, serverVars, senderVars, teensy, mutex_lock, guard,
                   target, published, frames>>

\* The handler's reply and the default reply are both a plain ACK. The lock
\* is held until the reply is sent.
SendReply ==
    /\ Alive
    /\ pc["server"] = "end"
    /\ replied' = [request |-> request, type |-> "ACK"]
    /\ frames' = 0
    /\ request' = NoPing
    /\ mutex_lock' = "none"
    /\ GoTo("server", "check")
    /\ UNCHANGED <<mainVars, senderVars, receiving_cvels, teensy, guard,
                   target, published>>

-----------------------------------------------------------------------------
(* The subscriber: drive_message_subscribe_callback().                     *)

\* mutant of DriveMessageCallback: commands are taken at any time.
DriveMessageAnyTime ==
    /\ Alive
    /\ pc["subscriber"] = "callback"
    /\ GoTo("subscriber", "write_lin")
    /\ UNCHANGED <<mainVars, serverVars, senderVars, receiving_cvels, teensy,
                   mutex_lock, guard, target, published, frames>>

\* A command that comes while none is welcome sets the velocity to zero.
DriveMessageCallback ==
    /\ Alive
    /\ pc["subscriber"] = "callback"
    /\ target' = [target EXCEPT !["subscriber"] =
                      IF receiving_cvels THEN @ ELSE Stand]
    /\ GoTo("subscriber", "write_lin")
    /\ UNCHANGED <<mainVars, serverVars, senderVars, receiving_cvels, teensy,
                   mutex_lock, guard, published, frames>>

CallbackReturns ==
    /\ Alive
    /\ pc["subscriber"] = "end"
    /\ mutex_lock' = "none"
    /\ target' = [target EXCEPT !["subscriber"] = Stand]
    /\ GoTo("subscriber", "check")
    /\ UNCHANGED <<mainVars, serverVars, senderVars, receiving_cvels, teensy,
                   guard, published, frames>>

-----------------------------------------------------------------------------
(* The publisher: localizer_cmd_get_data() reads under guard what the      *)
(* sender writes without it.                                               *)

\* published keeps the v that was read until w is read too.
ReadMeasuredV ==
    /\ Alive
    /\ pc["publisher"] = "check"
    /\ ~Signalled("publisher")
    /\ guard = "none"
    /\ guard' = "publisher"
    /\ published' = <<measured.v, published[2]>>
    /\ GoTo("publisher", "read_w")
    /\ UNCHANGED <<mainVars, serverVars, senderVars, receiving_cvels, teensy,
                   mutex_lock, target, frames>>

ReadMeasuredW ==
    /\ Alive
    /\ pc["publisher"] = "read_w"
    /\ guard' = "none"
    /\ published' = <<published[1], measured.w>>
    /\ GoTo("publisher", "check")
    /\ UNCHANGED <<mainVars, serverVars, senderVars, receiving_cvels, teensy,
                   mutex_lock, target, frames>>

-----------------------------------------------------------------------------
(* The sender thread of init_teensy_peripheral().                          *)

SenderStep(here, there) ==
    /\ Alive
    /\ sender = here
    /\ sender' = there
    /\ UNCHANGED <<mainVars, serverVars, fd, receiving_cvels, velocity, pc,
                   mutex_lock, guard, target, published>>

\* mutant of SenderChecks: the sender does not look at running.
SenderRunsOn ==
    /\ SenderStep("check", "args")
    /\ UNCHANGED <<argVars, drive, measured, frames>>

SenderChecks ==
    /\ SenderStep("check", IF running THEN "args" ELSE "done")
    /\ UNCHANGED <<argVars, drive, measured, frames>>

\* The arguments of send_drive() are read in an order C++ leaves open.
ReadArgument(field) ==
    /\ field \notin read
    /\ SenderStep("args", "args")
    /\ args' = [args EXCEPT ![field] = velocity[field]]
    /\ read' = read \cup {field}
    /\ UNCHANGED <<drive, measured, frames>>

\* A write to a line that is not open fails, and nobody looks at that.
Sends(frame) ==
    /\ read = {"lin", "ang"}
    /\ SenderStep("args", "read_v")
    /\ IF fd = "open"
       THEN /\ drive' = frame
            /\ frames' = IF frames < 2 THEN frames + 1 ELSE frames
       ELSE UNCHANGED <<drive, frames>>
    /\ args' = Stand
    /\ read' = {}
    /\ UNCHANGED measured

\* mutant of SendDrive: no frame is sent for a velocity with the same lin.
SendDriveIfNew == Sends(IF args.lin = drive.lin THEN drive ELSE args)

SendDrive == Sends(args)

\* Nothing to read within a millisecond, not a response, or no line.
NoResponse ==
    /\ SenderStep("read_v", "check")
    /\ UNCHANGED <<argVars, drive, measured, frames>>

ReadResponseV(x) ==
    /\ fd = "open"
    /\ SenderStep("read_v", "read_w")
    /\ measured' = [measured EXCEPT !.v = x[1]]
    /\ UNCHANGED <<argVars, drive, frames>>

\* The second component belongs to the same response as the first.
ReadResponseW(x) ==
    /\ measured.v = x[1]
    /\ SenderStep("read_w", "check")
    /\ measured' = [measured EXCEPT !.w = x[2]]
    /\ UNCHANGED <<argVars, drive, frames>>

-----------------------------------------------------------------------------
MainStep ==
    \/ Register
    \/ OpenTeensy
    \/ StartSender
    \/ StoreSender
    \/ InitComms
    \/ Printed
    \/ Quit

SenderThread ==
    \/ SenderChecks
    \/ \E field \in {"lin", "ang"} : ReadArgument(field)
    \/ SendDrive
    \/ NoResponse
    \/ \E x \in Samples : ReadResponseV(x) \/ ReadResponseW(x)

\* What a thread does between two waits for a lock.
ThreadStep(t) ==
    \/ ThreadExits(t)
    \/ NextPoll(t)
    \/ PollTimeout(t)
    \/ WriteAng(t)
    \/ t = "server" /\ (HandlePing \/ SendReply)
    \/ t = "subscriber" /\ (DriveMessageCallback \/ CallbackReturns)
    \/ t = "publisher" /\ ReadMeasuredW

TakesLock(t) ==
    \/ AcquireLock(t)
    \/ WriteLin(t)
    \/ t = "publisher" /\ ReadMeasuredV

\* The process has ended.
Exited == ~Alive /\ UNCHANGED vars

Next ==
    \/ MainStep
    \/ PrintState
    \/ Signal
    \/ SenderThread
    \/ \E t \in Threads : ThreadStep(t) \/ TakesLock(t)
    \/ \E p \in Pings : ReceivePing(p)
    \/ \E c \in Commands : ReceiveCmdVel(c)
    \/ Exited

Spec == Init /\ [][Next]_vars

\* Threads are scheduled; a lock that is free again and again is obtained.
Fairness ==
    /\ WF_vars(MainStep)
    /\ WF_vars(SenderThread)
    /\ \A t \in Threads :
          /\ WF_vars(ThreadStep(t))
          /\ SF_vars(AcquireLock(t))
          /\ SF_vars(WriteLin(t))
    /\ SF_vars(ReadMeasuredV)

FairSpec == Spec /\ Fairness

-----------------------------------------------------------------------------
(* Properties.                                                             *)

(***************************************************************************)
(* Types. In particular, once the constructor is through no velocity that  *)
(* was never written can be read or sent (update_teensy_message(0, 0) in   *)
(* KermitKernel's constructor); the measured v and w are never initialised. *)
(***************************************************************************)
TypeOK ==
    /\ main \in MainPCs
    /\ signals \in 0 .. MaxSignals
    /\ running \in BOOLEAN
    /\ ping_callbacks \subseteq {"STATE_REQUEST"}
    /\ entries \subseteq Threads
    /\ held \subseteq entries \cup {"sender"}
    /\ receiving_cvels \in BOOLEAN
    /\ velocity \in Velocities \cup {NoVelocity}
    /\ Constructed => velocity \in Velocities
    /\ measured \in Measurements
    /\ fd \in {"unset", "open", "failed", "closed"}
    /\ pc \in [Threads -> PCs]
    /\ mutex_lock \in Callbacks \cup {"none"}
    /\ guard \in Threads \cup {"main", "none"}
    /\ request \in Pings \cup {NoPing}
    /\ target \in [Callbacks -> Velocities]
    /\ sender \in SenderPCs
    /\ args \in Velocities
    /\ read \subseteq {"lin", "ang"}
    /\ drive \in Velocities
    /\ replied.type = "ACK" /\ replied.request \in Pings \cup {NoPing}
    /\ frames \in 0 .. 2

\* The last request replied to is STOP_EVERYTHING, and it was handled.
Stopped ==
    Constructed /\ replied.request # NoPing /\ IsStop(replied.request)

(***************************************************************************)
(* A STOP_EVERYTHING that was replied to stands until the reply to another *)
(* request: no velocity command that was on its way sets the velocity.     *)
(* (stop_everything_handler() clears receiving_cvels and the velocity in   *)
(* two steps; drive_message_subscribe_callback() tests the one and sets    *)
(* the other, and only the lock of NetworkPatterns keeps them apart.)      *)
(***************************************************************************)
StopStands == Stopped => velocity = Stand

(***************************************************************************)
(* After a STOP_EVERYTHING was replied to, at most one more frame of the   *)
(* sender can move the robot: the one whose arguments were read before.    *)
(***************************************************************************)
StopWithinOneFrame == Stopped /\ frames = 2 => drive = Stand

\* The velocity is set to something else than zero only while velocity
\* commands are welcome (receiving_cvels).
MovesOnlyWithLeave ==
    [][\A field \in {"lin", "ang"} :
          velocity'[field] \notin {velocity[field], 0} => receiving_cvels]_vars

(***************************************************************************)
(* A sender that kermit_quit() finds in async_sender never uses the serial *)
(* line before new_teensy_device() has tried to open it or after a         *)
(* teensy_cleanup() has closed it, wherever the signals come.              *)
(***************************************************************************)
SerialLineKept ==
    "sender" \in held /\ sender \in {"args", "read_v", "read_w"}
        => fd \in {"open", "failed"}

\* A STOP_EVERYTHING replied to reaches the serial line, unless another
\* request is replied to or the process is told to end.
StopReachesTeensy ==
    Stopped ~> (drive = Stand \/ ~Stopped \/ ~running \/ ~Alive)

\* quit() should return (ControlClientInterface.hpp:187): once a signal has
\* come, the process ends.
QuitEnds == ~running ~> ~Alive

(***************************************************************************)
(* The inductive invariant.                                                *)
(***************************************************************************)

\* A callback runs only under the lock.
InCallback(t) == pc[t] \in {"callback", "write_lin", "write_ang", "end"}

Places ==
    /\ pc["publisher"] \in {"none", "check", "read_w", "done"}
    /\ \A t \in Callbacks :
          /\ pc[t] # "read_w"
          /\ pc[t] \in {"write_lin", "write_ang"} => Constructed
    /\ \A t \in Threads : pc[t] # "none" => t \in entries
    /\ pc["subscriber"] # "none" \/ sender # "none" => Constructed
    /\ main \notin {"construct", "exited"} => Constructed
    /\ main \in {"construct", "start"} => sender = "none" /\ held = {"server"}
    /\ main = "construct" => ~Constructed
    /\ pc["server"] = "lock" \/ InCallback("server") => request # NoPing
    /\ sender # "args" => args = Stand
    /\ ~Constructed => frames = 0

LockHeld == \A t \in Callbacks : InCallback(t) => mutex_lock = t

\* A velocity that is being set was taken while commands were welcome.
TargetHasLeave ==
    /\ target["server"] = Stand
    /\ pc["subscriber"] \in {"write_lin", "write_ang"} =>
          receiving_cvels \/ target["subscriber"] = Stand

\* The server on its way to reply to a STOP_EVERYTHING.
StopInProgress ==
    /\ pc["server"] \in {"write_lin", "write_ang"} =>
          ~receiving_cvels /\ Constructed /\ request # NoPing /\ IsStop(request)
    /\ pc["server"] = "write_ang" => velocity.lin = 0
    /\ pc["server"] = "end" /\ Constructed
          /\ request # NoPing /\ IsStop(request)
       => ~receiving_cvels /\ velocity = Stand

StopSettled ==
    Stopped => /\ velocity = Stand
               /\ InCallback("server") \/ ~receiving_cvels
               /\ frames > 0 => args = Stand
               /\ frames = 2 => drive = Stand

\* The sender that is stored was started, on a line that was tried, and is
\* done before the line is closed.
SerialInv ==
    /\ main = "start_sender" => fd \in {"open", "failed"}
    /\ "sender" \in held =>
          /\ sender # "none"
          /\ main \in {"quit_subscriber", "quit_server", "quit_publisher",
                       "cleanup", "destroy"} => sender = "done"
          /\ sender # "done" => fd \in {"open", "failed"}

IInv ==
    /\ TypeOK
    /\ Places
    /\ LockHeld
    /\ TargetHasLeave
    /\ StopInProgress
    /\ StopSettled
    /\ SerialInv

(***************************************************************************)
(* What the sources say and the code does not do.                          *)
(***************************************************************************)

\* As SerialLineKept, of every sender: a signal that comes between the start
\* of the thread and the assignment to async_sender
\* (KermitNetworkInterface.cpp:75) finds nothing to join.
NoSenderOnClosedLine ==
    Alive /\ sender \in {"args", "read_v", "read_w"} => fd # "closed"

\* "Need mutexes on these babies" (KermitNetworkInterface.cpp:77): what is
\* sent to the Teensy is a velocity that was commanded, not half of one and
\* half of another.
DrivesWholeCommands == drive \in Commands \cup {Stand}

\* "code has the ore'd bits for what state to change"
\* (ping_message_keys.h:68): a request that has STOP_EVERYTHING among the
\* bits of its code stops the robot.
OredStopStands ==
    Constructed /\ replied.request # NoPing
        /\ replied.request.type = "STATE_REQUEST"
        /\ "STOP_EVERYTHING" \in replied.request.code
      => velocity = Stand

=============================================================================

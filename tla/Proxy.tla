------------------------------- MODULE Proxy --------------------------------
(***************************************************************************)
(* scpp::core::ProxyInterface with its two implementations, ZMQPubSubProxy *)
(* (SUB to PUB, through filters) and ZMQServerProxy (ROUTER to DEALER and  *)
(* back). A proxy p has a thread of its own, also called p, that runs      *)
(* start(); any caller may run start() on its own thread too (the signal   *)
(* START), so several threads may loop over the sockets of one proxy.      *)
(*                                                                         *)
(* locker is held during __spin__() only. The sockets, the filters and the *)
(* flags are touched without it.                                           *)
(***************************************************************************)
EXTENDS Naturals, Sequences, FiniteSets

CONSTANTS
    Proxies,      \* the proxies of the process
    PubSub,       \* those that are ZMQPubSubProxy; the others, ZMQServerProxy
    Callers,      \* the threads of the application
    Signals,      \* signal values the application uses
    MaxMessages,  \* bound: messages that reach the frontend of a proxy
    MaxCalls,     \* bound: calls a caller makes
    NoThread

Threads == Proxies \cup Callers

Messages == 1 .. MaxMessages

ASSUME PubSubAssumption  == PubSub \subseteq Proxies /\ Proxies # {}
ASSUME ThreadsAssumption == Proxies \cap Callers = {} /\ NoThread \notin Threads
ASSUME BoundsAssumption  == MaxMessages \in Nat /\ MaxCalls \in Nat

VARIABLES
    process,       \* the process is alive, exited or aborted
    running, paused, adding_filter,   \* the atomic flags of a proxy
    signal_table,  \* the function registered for a signal value
    filters,       \* how many filters a proxy has
    locker,        \* the thread that holds the mutex of a proxy
    sockets,       \* whether __start__() made them, and whether it replaced
                   \* them under a thread that was using them
    front, back,   \* messages queued at the two sockets of a proxy
    out,           \* what the backend socket sent
    answered,      \* what the frontend socket sent back (server proxies)
    arrived,       \* how many messages reached the frontend
    serving,       \* requests the servers behind the proxy work at
    connected,     \* a server is connected to the backend
    pc, target,    \* where a thread stands, and on which proxy
    ready, held,   \* its poll results and the message in its hands
    calls          \* how many calls a caller has made

flagVars   == <<running, paused, adding_filter, signal_table>>
socketVars == <<sockets, front, back, out, answered, arrived, serving, connected>>
threadVars == <<pc, target, ready, held>>
proxyVars  == <<process, flagVars, filters, locker, socketVars, threadVars, calls>>

\* The signals every proxy registers for itself, and one of the application.
Functions == {"stop", "kill", "start", "pause", "custom"}
CLEAN_STOP == 0
KILL  == 1
START == 2
PAUSE == 3
Builtin == [s \in CLEAN_STOP .. PAUSE |->
                CASE s = CLEAN_STOP -> "stop" [] s = KILL -> "kill"
                  [] s = START -> "start" [] s = PAUSE -> "pause"]

LoopPCs == {"enter", "bind", "test", "lock"}
SpinPCs == {"poll", "spin", "filter", "raw", "convert", "send", "dealer"}

InSpin(t, p) == target[t] = p /\ pc[t] \in SpinPCs

Looping(t, p) == target[t] = p /\ pc[t] \in LoopPCs \cup SpinPCs

Alive == process = "alive"

\* The constructors make none; __start__() does.
NoSockets == [p \in Proxies |-> "none"]

\* The proxies in spawned have a thread that is about to run start().
ProxyInit(spawned) ==
    /\ process = "alive"
    /\ running = [p \in Proxies |-> TRUE]
    /\ paused \in [Proxies -> BOOLEAN]
    /\ adding_filter = [p \in Proxies |-> FALSE]
    /\ signal_table = [p \in Proxies |-> Builtin]
    /\ filters = [p \in Proxies |-> 0]
    /\ locker = [p \in Proxies |-> NoThread]
    /\ sockets = NoSockets
    /\ front = [p \in Proxies |-> <<>>]
    /\ back = [p \in Proxies |-> <<>>]
    /\ out = [p \in Proxies |-> <<>>]
    /\ answered = [p \in Proxies |-> <<>>]
    /\ arrived = [p \in Proxies |-> 0]
    /\ serving = [p \in Proxies |-> {}]
    /\ connected = [p \in Proxies |-> FALSE]
    /\ pc = [t \in Threads |-> CASE t \in Callers -> "idle"
                                 [] t \in spawned -> "enter"
                                 [] OTHER -> "none"]
    /\ target = [t \in Threads |-> IF t \in Proxies THEN t
                                   ELSE CHOOSE p \in Proxies : TRUE]
    /\ ready = [t \in Threads |-> {}]
    /\ held = [t \in Threads |-> 0]
    /\ calls = [c \in Callers |-> 0]

Step(t, from, to) ==
    /\ Alive
    /\ pc[t] = from
    /\ pc' = [pc EXCEPT ![t] = to]

-----------------------------------------------------------------------------
(* start(), on whatever thread it runs.                                    *)

\* mutant of Enter: start() takes back a stop().
EnterRuns(t) ==
    /\ Step(t, "enter", "bind")
    /\ paused' = [paused EXCEPT ![target[t]] = FALSE]
    /\ running' = [running EXCEPT ![target[t]] = TRUE]
    /\ UNCHANGED <<process, adding_filter, signal_table, filters,
                   locker, socketVars, target, ready, held, calls>>

\* Whatever a pause() said is forgotten.
Enter(t) ==
    /\ Step(t, "enter", "bind")
    /\ paused' = [paused EXCEPT ![target[t]] = FALSE]
    /\ UNCHANGED <<process, running, adding_filter, signal_table, filters,
                   locker, socketVars, target, ready, held, calls>>

\* __start__(): new sockets, and what was queued at the old ones is lost.
Bind(t) ==
    LET p == target[t] IN
    /\ Step(t, "bind", "test")
    /\ sockets' = [sockets EXCEPT ![p] =
          IF @ = "replaced" \/ \E u \in Threads : InSpin(u, p)
          THEN "replaced" ELSE "bound"]
    /\ front' = [front EXCEPT ![p] = <<>>]
    /\ back' = [back EXCEPT ![p] = <<>>]
    /\ UNCHANGED <<process, flagVars, filters, locker, out, answered, arrived,
                   serving, connected, target, ready, held, calls>>

\* The address is still bound by the old socket, and bind() throws
\* zmq::error_t, which nothing catches; or a thread uses the old sockets.
BindFails(t) ==
    /\ Step(t, "bind", "bind")
    /\ sockets[target[t]] # "none"
    /\ process' = "aborted"
    /\ UNCHANGED <<flagVars, filters, locker, socketVars, target, ready, held,
                   calls>>

\* A thread of its own ends with start(); a caller goes on.
Test(t) ==
    LET p == target[t] IN
    /\ Step(t, "test", CASE ~paused[p] /\ running[p] -> "lock"
                         [] t \in Callers -> "idle"
                         [] OTHER -> "done")
    /\ UNCHANGED <<process, flagVars, filters, locker, socketVars, target,
                   ready, held, calls>>

\* mutant of AcquireLocker: __spin__() is called without the lock.
SpinUnlocked(t) ==
    /\ Step(t, "lock", "poll")
    /\ UNCHANGED <<process, flagVars, filters, locker, socketVars, target,
                   ready, held, calls>>

AcquireLocker(t) ==
    /\ Step(t, "lock", "poll")
    /\ locker[target[t]] = NoThread
    /\ locker' = [locker EXCEPT ![target[t]] = t]
    /\ UNCHANGED <<process, flagVars, filters, socketVars, target, ready, held,
                   calls>>

-----------------------------------------------------------------------------
(* __spin__()                                                              *)

\* zmq::poll() for at most 100 ms.
Poll(t) ==
    LET p == target[t] IN
    /\ Step(t, "poll", "spin")
    /\ ready' = [ready EXCEPT ![t] =
          {q \in {"front", "back"} : \/ q = "front" /\ front[p] # <<>>
                                     \/ q = "back" /\ back[p] # <<>>}]
    /\ UNCHANGED <<process, flagVars, filters, locker, socketVars, target,
                   held, calls>>

\* The receive blocks if the sockets were replaced since the poll.
Receive(t) ==
    LET p == target[t] IN
    /\ Step(t, "spin", IF p \in PubSub THEN "filter" ELSE "dealer")
    /\ "front" \in ready[t]
    /\ front[p] # <<>>
    /\ held' = [held EXCEPT ![t] = Head(front[p])]
    /\ front' = [front EXCEPT ![p] = Tail(@)]
    /\ ready' = [ready EXCEPT ![t] = @ \ {"front"}]
    /\ UNCHANGED <<process, flagVars, filters, locker, sockets, back, out,
                   answered, arrived, serving, connected, target, calls>>

\* A message that comes while a filter is being added goes out as it is.
ChooseFilters(t) ==
    /\ Step(t, "filter", IF adding_filter[target[t]] THEN "raw" ELSE "convert")
    /\ UNCHANGED <<process, flagVars, filters, locker, socketVars, target,
                   ready, held, calls>>

Convert(t) ==
    /\ Step(t, "convert", "send")
    /\ UNCHANGED <<process, flagVars, filters, locker, socketVars, target,
                   ready, held, calls>>

\* A PUB socket never blocks; a DEALER blocks until a server is connected.
Send(t) ==
    LET p == target[t] IN
    /\ \/ Step(t, "raw", "spin")
       \/ Step(t, "send", "spin")
       \/ Step(t, "dealer", "spin") /\ connected[p]
    /\ out' = [out EXCEPT ![p] = Append(@, held[t])]
    /\ held' = [held EXCEPT ![t] = 0]
    /\ serving' = [serving EXCEPT ![p] =
                      IF p \in PubSub THEN @ ELSE @ \cup {held[t]}]
    /\ UNCHANGED <<process, flagVars, filters, locker, sockets, front, back,
                   answered, arrived, connected, target, ready, calls>>

\* A ROUTER drops what it cannot deliver and never blocks.
SendBack(t) ==
    LET p == target[t] IN
    /\ Step(t, "spin", "spin")
    /\ ready[t] = {"back"}
    /\ back[p] # <<>>
    /\ answered' = [answered EXCEPT ![p] = Append(@, Head(back[p]))]
    /\ back' = [back EXCEPT ![p] = Tail(@)]
    /\ ready' = [ready EXCEPT ![t] = {}]
    /\ UNCHANGED <<process, flagVars, filters, locker, sockets, front, out,
                   arrived, serving, connected, target, held, calls>>

\* mutant of ReleaseLocker: the lock is not released.
KeepLocker(t) ==
    /\ Step(t, "spin", "test")
    /\ ready[t] = {}
    /\ UNCHANGED <<process, flagVars, filters, locker, socketVars, target, ready,
                   held, calls>>

ReleaseLocker(t) ==
    /\ Step(t, "spin", "test")
    /\ ready[t] = {}
    /\ locker' = [locker EXCEPT ![target[t]] = NoThread]
    /\ UNCHANGED <<process, flagVars, filters, socketVars, target, ready, held,
                   calls>>

LoopStep(t) ==
    \/ Enter(t) \/ Bind(t) \/ Test(t) \/ AcquireLocker(t)
    \/ Poll(t) \/ Receive(t) \/ ChooseFilters(t) \/ Convert(t) \/ Send(t)
    \/ SendBack(t) \/ ReleaseLocker(t)

-----------------------------------------------------------------------------
(* The other operations of a proxy, called by c.                           *)

Call(c, p, at) ==
    /\ Step(c, "idle", at)
    /\ calls[c] < MaxCalls
    /\ calls' = [calls EXCEPT ![c] = @ + 1]
    /\ target' = [target EXCEPT ![c] = p]

StopRunning(p) == running' = [running EXCEPT ![p] = FALSE]

\* signal(): the functions of the constructor and those of register_signal();
\* a value that is not in the table is answered with -1.
Signal(c, p, s) ==
    /\ s \in DOMAIN signal_table[p]
    /\ \/ /\ signal_table[p][s] = "stop"
          /\ Call(c, p, "idle")
          /\ StopRunning(p)
          /\ UNCHANGED paused
       \/ /\ signal_table[p][s] = "kill"
          /\ Call(c, p, "kill")
          /\ StopRunning(p)
          /\ UNCHANGED paused
       \/ /\ signal_table[p][s] = "start"
          /\ Call(c, p, "enter")
          /\ UNCHANGED <<running, paused>>
       \/ /\ signal_table[p][s] = "pause"
          /\ Call(c, p, "pause")
          /\ paused' = [paused EXCEPT ![p] = TRUE]
          /\ UNCHANGED running
       \/ /\ signal_table[p][s] = "custom"
          /\ Call(c, p, "idle")
          /\ UNCHANGED <<running, paused>>
    /\ UNCHANGED <<process, adding_filter, signal_table, filters, locker,
                   socketVars, ready, held>>

\* Refused for a value that has a function already.
RegisterSignal(c, p, s) ==
    /\ s \notin DOMAIN signal_table[p]
    /\ Call(c, p, "idle")
    /\ signal_table' = [signal_table EXCEPT ![p] =
          [x \in DOMAIN @ \cup {s} |-> IF x = s THEN "custom" ELSE @[x]]]
    /\ UNCHANGED <<process, running, paused, adding_filter, filters, locker,
                   socketVars, ready, held>>

\* kill() has stopped the proxy; ten seconds later it ends the process.
KillEnds(c) ==
    /\ Step(c, "kill", "kill")
    /\ process' = "aborted"
    /\ UNCHANGED <<flagVars, filters, locker, socketVars, target, ready, held,
                   calls>>

\* pause() waits until the proxy is stopped or somebody else ends the pause.
PauseEnds(c) ==
    LET p == target[c] IN
    /\ Step(c, "pause", "unpause")
    /\ ~running[p] \/ ~paused[p]
    /\ UNCHANGED <<process, flagVars, filters, locker, socketVars, target,
                   ready, held, calls>>

PauseReturns(c) ==
    /\ Step(c, "unpause", "idle")
    /\ paused' = [paused EXCEPT ![target[c]] = FALSE]
    /\ UNCHANGED <<process, running, adding_filter, signal_table, filters,
                   locker, socketVars, target, ready, held, calls>>

AddFilter(c, p) ==
    /\ Call(c, p, "push")
    /\ adding_filter' = [adding_filter EXCEPT ![p] = TRUE]
    /\ UNCHANGED <<process, running, paused, signal_table, filters, locker,
                   socketVars, ready, held>>

\* mutant of PushFilter: the filter is taken away instead.
PopFilter(c) ==
    /\ Step(c, "push", "pushed")
    /\ filters' = [filters EXCEPT ![target[c]] = @ - 1]
    /\ UNCHANGED <<process, flagVars, locker, socketVars, target, ready, held,
                   calls>>

\* push_back() under a thread that iterates over the filters is undefined.
PushFilter(c) ==
    LET p == target[c]
        outcomes == IF \E t \in Threads : target[t] = p /\ pc[t] = "convert"
                    THEN {"alive", "aborted"} ELSE {"alive"}
    IN
    /\ Step(c, "push", "pushed")
    /\ process' \in outcomes
    /\ filters' = [filters EXCEPT ![p] = @ + 1]
    /\ UNCHANGED <<flagVars, locker, socketVars, target, ready, held, calls>>

FilterAdded(c) ==
    /\ Step(c, "pushed", "idle")
    /\ adding_filter' = [adding_filter EXCEPT ![target[c]] = FALSE]
    /\ UNCHANGED <<process, running, paused, signal_table, filters, locker,
                   socketVars, target, ready, held, calls>>

CallStep(c) ==
    KillEnds(c) \/ PauseEnds(c) \/ PauseReturns(c) \/ PushFilter(c) \/ FilterAdded(c)

-----------------------------------------------------------------------------
(* The programs at the two sockets.                                        *)

Arrive(p) ==
    /\ Alive
    /\ sockets[p] # "none"
    /\ arrived[p] < MaxMessages
    /\ arrived' = [arrived EXCEPT ![p] = @ + 1]
    /\ front' = [front EXCEPT ![p] = Append(@, arrived[p] + 1)]
    /\ UNCHANGED <<process, flagVars, filters, locker, sockets, back, out,
                   answered, serving, connected, threadVars, calls>>

Serve(p, m) ==
    /\ Alive
    /\ m \in serving[p]
    /\ serving' = [serving EXCEPT ![p] = @ \ {m}]
    /\ back' = [back EXCEPT ![p] = Append(@, m)]
    /\ UNCHANGED <<process, flagVars, filters, locker, sockets, front, out,
                   answered, arrived, connected, threadVars, calls>>

\* A server that goes takes the requests it works at with it.
Reconnect(p) ==
    /\ Alive
    /\ p \notin PubSub
    /\ sockets[p] # "none"
    /\ connected' = [connected EXCEPT ![p] = ~@]
    /\ serving' = [serving EXCEPT ![p] = {}]
    /\ UNCHANGED <<process, flagVars, filters, locker, sockets, front, back,
                   out, answered, arrived, threadVars, calls>>

Peers(p) == Arrive(p) \/ Reconnect(p) \/ \E m \in Messages : Serve(p, m)

=============================================================================

-------------------------------- MODULE Pipe --------------------------------
(***************************************************************************)
(* scpp::core::PipeInterface, a table of proxies each on a thread of its   *)
(* own, and the programs built on it: the main thread creates proxies,     *)
(* gives them filters, stops them all and exits; a signal handler          *)
(* (kermit_proxy) interrupts it anywhere to stop them all and exit.        *)
(* Other programs own a proxy without a pipe and call it directly.         *)
(*                                                                         *)
(* stop(id), kill(id), signal(id) and register_signal(id) test the result  *)
(* of find() the wrong way round: they refuse a proxy that exists, and     *)
(* dereference the null pointer of a new entry for one that does not.      *)
(***************************************************************************)
EXTENDS Proxy

CONSTANTS
    Main,           \* the thread that runs main() of a program with a pipe
    Owned,          \* the proxies of a program without a pipe
    MaxInterrupts   \* bound: signals delivered to the main thread

ASSUME PipeAssumption == /\ Main \in Callers /\ Owned \subseteq Proxies
                         /\ MaxInterrupts \in Nat

VARIABLES
    owned,       \* the proxies that the application owns directly
    table,       \* the pipe's entry of a proxy and its thread
    todo,        \* the proxies stop() has still to stop
    interrupts,  \* signals delivered so far
    unjoined     \* proxies whose join a signal interrupted

pipeVars == <<owned, table, todo, interrupts, unjoined>>
vars == <<proxyVars, pipeVars>>

\* An entry is there before its proxy, the proxy before its thread, and the
\* thread runs before the entry knows it.
EntryStates == {"absent", "empty", "inserted", "spawned", "joined"}

\* A program without a pipe owns its proxies from the start.
Init ==
    /\ owned \in {{}, Owned}
    /\ ProxyInit(owned)
    /\ table = [p \in Proxies |-> "absent"]
    /\ todo = {}
    /\ interrupts = 0
    /\ unjoined = {}

HasPipe == owned = {}

-----------------------------------------------------------------------------
(* The main thread of a program with a pipe.                               *)

\* create_..._endpoint(), refused for an id that is there: operator[] makes an
\* entry without a proxy, ...
Create(p) ==
    /\ HasPipe
    /\ Step(Main, "idle", "create")
    /\ table[p] = "absent"
    /\ target' = [target EXCEPT ![Main] = p]
    /\ table' = [table EXCEPT ![p] = "empty"]
    /\ UNCHANGED <<process, flagVars, filters, locker, socketVars, ready, held,
                   calls, owned, todo, interrupts, unjoined>>

\* ... the proxy is moved into it, ...
InsertProxy ==
    LET p == target[Main] IN
    /\ Step(Main, "create", "create")
    /\ table[p] = "empty"
    /\ table' = [table EXCEPT ![p] = "inserted"]
    /\ UNCHANGED <<process, flagVars, filters, locker, socketVars, target,
                   ready, held, calls, owned, todo, interrupts, unjoined>>

\* ... its thread starts ...
StartProxyThread ==
    LET p == target[Main] IN
    /\ Step(p, "none", "enter")
    /\ pc[Main] = "create"
    /\ table[p] = "inserted"
    /\ UNCHANGED <<process, flagVars, filters, locker, socketVars, target,
                   ready, held, calls, pipeVars>>

\* ... and is assigned to t_space, where stop() looks for it.
StoreProxyThread ==
    LET p == target[Main] IN
    /\ Step(Main, "create", "idle")
    /\ pc[p] # "none"
    /\ table' = [table EXCEPT ![p] = "spawned"]
    /\ UNCHANGED <<process, flagVars, filters, locker, socketVars, target,
                   ready, held, calls, owned, todo, interrupts, unjoined>>

\* Refused for an id that is not there.
SetFilter(p) ==
    /\ HasPipe
    /\ table[p] # "absent"
    /\ AddFilter(Main, p)
    /\ UNCHANGED pipeVars

\* stop(id), kill(id), signal(id), register_signal(id) of an unknown id.
CallUnknown(p) ==
    /\ HasPipe
    /\ table[p] = "absent"
    /\ Step(Main, "idle", "idle")
    /\ process' = "aborted"
    /\ UNCHANGED <<flagVars, filters, locker, socketVars, target, ready, held,
                   calls, pipeVars>>

StopAll ==
    /\ todo' = {p \in Proxies : table[p] # "absent"}
    /\ pc' = [pc EXCEPT ![Main] = "stopping"]
    /\ UNCHANGED <<process, flagVars, filters, locker, socketVars, target,
                   ready, held, calls, owned, table>>

StopPipe ==
    /\ HasPipe
    /\ Alive
    /\ pc[Main] = "idle"
    /\ StopAll
    /\ UNCHANGED <<interrupts, unjoined>>

\* The handler: stop() on the thread it interrupts, whatever that was doing.
\* The insertion into the table is one step: a signal inside it, which leaves
\* the table undefined, is not modelled.
Interrupt ==
    /\ HasPipe
    /\ Alive
    /\ interrupts < MaxInterrupts
    /\ interrupts' = interrupts + 1
    /\ unjoined' = IF pc[Main] = "joining" THEN unjoined \cup {target[Main]}
                   ELSE unjoined
    /\ StopAll

\* The threads of the proxies are stopped and joined one after the other. An
\* entry whose proxy is not there yet is a null pointer.
StopProxy(p) ==
    /\ Alive
    /\ pc[Main] = "stopping"
    /\ p \in todo
    /\ \/ table[p] = "empty" /\ process' = "aborted" /\ UNCHANGED running
       \/ table[p] # "empty" /\ StopRunning(p) /\ UNCHANGED process
    /\ target' = [target EXCEPT ![Main] = p]
    /\ pc' = [pc EXCEPT ![Main] =
                 IF table[p] = "spawned" THEN "joining" ELSE "stopping"]
    /\ todo' = todo \ {p}
    /\ UNCHANGED <<paused, adding_filter, signal_table, filters, locker,
                   socketVars, ready, held, calls, owned, table, interrupts,
                   unjoined>>

\* mutant of JoinProxy: the thread is detached.
DetachProxy ==
    /\ Step(Main, "joining", "stopping")
    /\ table' = [table EXCEPT ![target[Main]] = "joined"]
    /\ UNCHANGED <<process, flagVars, filters, locker, socketVars, target, ready,
                   held, calls, owned, todo, interrupts, unjoined>>

\* Joining a thread whose join this thread has begun already throws.
JoinProxy ==
    LET p == target[Main] IN
    /\ Step(Main, "joining", "stopping")
    /\ \/ /\ p \notin unjoined
          /\ pc[p] = "done"
          /\ table' = [table EXCEPT ![p] = "joined"]
          /\ UNCHANGED process
       \/ /\ p \in unjoined
          /\ process' = "aborted"
          /\ UNCHANGED table
    /\ UNCHANGED <<flagVars, filters, locker, socketVars, target, ready, held,
                   calls, owned, todo, interrupts, unjoined>>

\* Every program exits when stop() has returned, the handler with exit(0).
Exit ==
    /\ Step(Main, "stopping", "stopping")
    /\ todo = {}
    /\ process' = "exited"
    /\ UNCHANGED <<flagVars, filters, locker, socketVars, target, ready, held,
                   calls, pipeVars>>

MainStep ==
    \/ InsertProxy \/ StartProxyThread \/ StoreProxyThread \/ JoinProxy \/ Exit
    \/ \E p \in Proxies : StopProxy(p)

-----------------------------------------------------------------------------
\* A program without a pipe.
DirectCall(c) ==
    /\ \E p \in owned :
          \/ AddFilter(c, p)
          \/ \E s \in Signals : Signal(c, p, s) \/ RegisterSignal(c, p, s)
    /\ UNCHANGED pipeVars

Next ==
    \/ \E t \in Threads : (LoopStep(t) \/ BindFails(t)) /\ UNCHANGED pipeVars
    \/ \E c \in Callers : CallStep(c) /\ UNCHANGED pipeVars
    \/ \E p \in Proxies : Peers(p) /\ UNCHANGED pipeVars
    \/ \E c \in Callers : DirectCall(c)
    \/ \E p \in Proxies : Create(p) \/ SetFilter(p) \/ CallUnknown(p)
    \/ StopPipe \/ Interrupt \/ MainStep

\* Threads run; nothing is promised of the peers or of what is called when.
Fairness ==
    /\ \A t \in Threads : WF_vars(LoopStep(t) /\ UNCHANGED pipeVars)
    /\ \A c \in Callers : WF_vars(CallStep(c) /\ UNCHANGED pipeVars)
    /\ WF_vars(MainStep)

Spec == Init /\ [][Next]_vars

FairSpec == Spec /\ Fairness

-----------------------------------------------------------------------------
(* Properties.                                                             *)

CallerPCs == {"idle", "kill", "pause", "unpause", "push", "pushed", "create",
              "stopping", "joining"}

\* Type correctness of the proxies and of the pipe.
TypeOK ==
    /\ process \in {"alive", "exited", "aborted"}
    /\ running \in [Proxies -> BOOLEAN]
    /\ paused \in [Proxies -> BOOLEAN]
    /\ adding_filter \in [Proxies -> BOOLEAN]
    /\ filters \in [Proxies -> Nat]
    /\ locker \in [Proxies -> Threads \cup {NoThread}]
    /\ sockets \in [Proxies -> {"none", "bound", "replaced"}]
    /\ front \in [Proxies -> Seq(Messages)]
    /\ back \in [Proxies -> Seq(Messages)]
    /\ out \in [Proxies -> Seq(Messages)]
    /\ answered \in [Proxies -> Seq(Messages)]
    /\ arrived \in [Proxies -> 0 .. MaxMessages]
    /\ serving \in [Proxies -> SUBSET Messages]
    /\ connected \in [Proxies -> BOOLEAN]
    /\ pc \in [Threads -> {"none", "done"} \cup LoopPCs \cup SpinPCs \cup CallerPCs]
    /\ target \in [Threads -> Proxies]
    /\ ready \in [Threads -> SUBSET {"front", "back"}]
    /\ held \in [Threads -> 0 .. MaxMessages]
    /\ calls \in [Callers -> 0 .. MaxCalls]
    /\ owned \in {{}, Owned}
    /\ table \in [Proxies -> EntryStates]
    /\ todo \subseteq Proxies
    /\ interrupts \in 0 .. MaxInterrupts
    /\ unjoined \subseteq Proxies

\* However many threads run start() on one proxy, two are never inside
\* __spin__(): no message is received by one thread while another sends one.
\* __start__() takes no lock: it may replace the sockets under that thread.
SpinExclusive ==
    \A t, u \in Threads, p \in Proxies : InSpin(t, p) /\ InSpin(u, p) => t = u

Increasing(s) == \A i, j \in DOMAIN s : i < j => s[i] < s[j]

\* What the proxy sends on are messages that reached it, in the order they
\* came and each once, whichever threads forwarded them.
ForwardsInOrder == \A p \in Proxies : Increasing(out[p])

Running(p) == pc[p] \notin {"none", "done"}

\* When stop() of the pipe has let the process exit, no thread of a proxy
\* runs, but at most one: that which a signal found started and not yet
\* assigned to t_space (PipeInterface.cpp:47, 77).
ExitIsClean ==
    process = "exited" => \A p \in Proxies : Running(p) =>
        /\ interrupts > 0 /\ table[p] = "inserted"
        /\ \A q \in Proxies : Running(q) => q = p

BackendAnswers(p) == p \in PubSub \/ connected[p]

\* The loops of a stopped proxy end, on every thread and for good, paused or
\* not: of a publisher always, of a server proxy if a server stays connected
\* (the DEALER blocks without one). Excepted are proxies whose sockets a
\* second start() replaced under a thread that used them.
StoppedLoopsEnd ==
    \A p \in Proxies :
        (~running[p] /\ sockets[p] # "replaced") /\ []BackendAnswers(p) ~>
            \/ sockets[p] = "replaced" \/ ~Alive
            \/ [](\A t \in Threads : ~Looping(t, p))

\* stop() of the pipe, from main() or from the handler, ends the process, if
\* the servers behind the server proxies stay connected.
PipeStops ==
    pc[Main] = "stopping" /\ (\A p \in Proxies : []BackendAnswers(p)) ~> ~Alive

-----------------------------------------------------------------------------
(* What the sources say and the code does not do.                          *)

\* "Stop the whole thing" (PipeInterface.hpp, of stop()): after it no thread of
\* a proxy is left, whatever the signal interrupted.
NoThreadAtExit == process = "exited" => \A p \in Proxies : ~Running(p)

=============================================================================

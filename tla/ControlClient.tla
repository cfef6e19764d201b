--------------------------- MODULE ControlClient ---------------------------
(***************************************************************************)
(* scpp::net::ZMQControlClient and the threads of NetworkPatterns: the     *)
(* application starts periodic publishers, periodic requesters,            *)
(* subscribers and servers, each on a thread of its own, cancels them one  *)
(* by one or all together with quit(), and finally destroys the client.    *)
(*                                                                         *)
(* A worker is a thread the application may start: the client that owns it, *)
(* the map of thread_space it is kept in (its kind), and its key there.    *)
(* Every client of the process shares the one mutex_lock of                *)
(* NetworkPatterns.cpp.                                                    *)
(***************************************************************************)
EXTENDS Naturals, FiniteSets

CONSTANTS
    Clients,         \* the ZMQControlClient objects of the process
    Keys,            \* socket addresses and requester ids, the keys of the maps
    Topics,          \* topics given to subscribe
    Workers,         \* the threads the application may start
    Routes,          \* <<d, a>>: a request sent to d reaches a server at a
    ExternalServers, \* addresses at which a server of another process answers
    Destinations,    \* addresses the application sends periodic requests to
    NoWorker

Kinds == {"subscribers", "servers", "periodic_publishers", "periodic_clients"}

Handles == [client : Clients, kind : Kinds, key : Keys]

ASSUME WorkersAssumption == Workers \subseteq Handles
ASSUME NoWorkerAssumption == NoWorker \notin Workers
ASSUME DestinationsAssumption == Destinations # {}

VARIABLES
    thread_space,    \* the map entry, its promise and its thread, per worker
    unused_socket,   \* entries whose socket pointer still owns a socket
    pc,              \* where the thread of the worker stands
    mutex_lock,      \* the worker that holds NetworkPatterns' mutex_lock
    server,          \* the address a periodic requester sends to
    channel,         \* the request of a requester, on its way or answered
    serving,         \* the requester whose request a server is handling
    call,            \* the call the application is in, per client
    joining,         \* the worker whose thread that call is joining
    todo,            \* the entries quit() has still to cancel
    ret,             \* how the last call of the client ended
    terminated       \* the process called std::terminate

clientVars  == <<thread_space, unused_socket, call, joining, todo, ret>>
threadVars  == <<pc, mutex_lock, server, channel, serving>>
vars == <<clientVars, threadVars, terminated>>

(***************************************************************************)
(* The life of an entry: no entry; promise unset; promise set and thread   *)
(* not yet joined; joined. Nothing ever erases an entry.                   *)
(***************************************************************************)
EntryStates == {"absent", "running", "signalled", "joined"}

PCs == {"none", "start", "check", "poll", "data", "recv", "lock",
        "callback", "reply", "sleep", "done"}

Calls == {"none", "cancel", "quit", "destroy", "gone"}

Results == {"none", "created", "exists", "threw_future_retrieved",
            "cancelled", "unknown", "threw_promise_satisfied", "quit",
            "quit_threw"}

IsPublisher(w)  == w.kind = "periodic_publishers"
IsRequester(w)  == w.kind = "periodic_clients"
IsSubscriber(w) == w.kind = "subscribers"
IsServer(w)     == w.kind = "servers"

Handle(c, k, a) == [client |-> c, kind |-> k, key |-> a]

Init ==
    /\ thread_space = [w \in Workers |-> "absent"]
    /\ unused_socket = {}
    /\ pc = [w \in Workers |-> "none"]
    /\ mutex_lock = NoWorker
    /\ server \in [Workers -> {CHOOSE d \in Destinations : TRUE}]
    /\ channel = [w \in Workers |-> "idle"]
    /\ serving = [w \in Workers |-> NoWorker]
    /\ call = [c \in Clients |-> "none"]
    /\ joining = [c \in Clients |-> NoWorker]
    /\ todo = [c \in Clients |-> {}]
    /\ ret = [c \in Clients |-> "none"]
    /\ terminated = FALSE

-----------------------------------------------------------------------------
(* Calls of the application on one client.                                 *)

Ready(c) == call[c] = "none" /\ ~terminated

Returns(c, r) == ret' = [ret EXCEPT ![c] = r]

\* find() misses, create_socket(), get_future(), and the thread is spawned.
Spawn(w) ==
    /\ thread_space[w] = "absent"
    /\ thread_space' = [thread_space EXCEPT ![w] = "running"]
    /\ pc' = [pc EXCEPT ![w] = "start"]
    /\ Returns(w.client, "created")
    /\ UNCHANGED <<unused_socket, call, joining, todo, mutex_lock, channel,
                   serving, terminated>>

\* The key is in the map, cancelled or not: nothing happens.
AlreadyExists(w) ==
    /\ thread_space[w] # "absent"
    /\ Returns(w.client, "exists")
    /\ UNCHANGED <<thread_space, unused_socket, call, joining, todo,
                   threadVars, terminated>>

PeriodicPublish(w) ==
    /\ IsPublisher(w)
    /\ Ready(w.client)
    /\ \/ Spawn(w) /\ UNCHANGED server
       \/ AlreadyExists(w)

PeriodicRequest(w, d) ==
    /\ IsRequester(w)
    /\ Ready(w.client)
    /\ \/ Spawn(w) /\ server' = [server EXCEPT ![w] = d]
       \/ AlreadyExists(w)

\* serve() connects and bind_server() binds; who can reach it is in Routes.
Serve(w) ==
    /\ IsServer(w)
    /\ Ready(w.client)
    /\ \/ Spawn(w) /\ UNCHANGED server
       \/ AlreadyExists(w)

(***************************************************************************)
(* subscribe() looks the TOPIC up in a map keyed by address. When the      *)
(* address has an entry, create_socket() stores a new socket in it and     *)
(* get_future() throws, because the future was retrieved the first time.   *)
(***************************************************************************)
Subscribe(c, a, t) ==
    LET w == Handle(c, "subscribers", a)
        byTopic == Handle(c, "subscribers", t)
    IN  /\ w \in Workers
        /\ Ready(c)
        /\ \/ /\ byTopic \in Workers
              /\ AlreadyExists(byTopic)
           \/ /\ byTopic \in Workers => thread_space[byTopic] = "absent"
              /\ Spawn(w)
              /\ UNCHANGED server
           \/ /\ byTopic \in Workers => thread_space[byTopic] = "absent"
              /\ thread_space[w] # "absent"
              /\ unused_socket' = unused_socket \cup {w}
              /\ Returns(c, "threw_future_retrieved")
              /\ UNCHANGED <<thread_space, call, joining, todo, threadVars,
                             terminated>>

\* set_value() on a promise already satisfied throws, before join() is reached.
Throws(w) == thread_space[w] \in {"signalled", "joined"}

Signal(w) ==
    /\ thread_space' = [thread_space EXCEPT ![w] = "signalled"]
    /\ joining' = [joining EXCEPT ![w.client] = w]

\* cancel_subscription, terminate_server, cancel_periodic_publisher and
\* cancel_periodic_request: the same code over four maps.
Cancel(c, k, ref) ==
    LET w == Handle(c, k, ref)
        found == w \in Workers /\ thread_space[w] # "absent"
    IN  /\ Ready(c)
        /\ \/ /\ ~found
              /\ Returns(c, "unknown")
              /\ UNCHANGED <<thread_space, call, joining>>
           \/ /\ found
              /\ Throws(w)
              /\ Returns(c, "threw_promise_satisfied")
              /\ UNCHANGED <<thread_space, call, joining>>
           \/ /\ found
              /\ ~Throws(w)
              /\ Signal(w)
              /\ call' = [call EXCEPT ![c] = "cancel"]
              /\ UNCHANGED ret
        /\ UNCHANGED <<unused_socket, todo, threadVars, terminated>>

\* mutant of Entries: quit() without its loop over periodic_clients.
EntriesButClients(c) == {w \in Workers : /\ w.client = c
                                        /\ ~IsRequester(w)
                                        /\ thread_space[w] # "absent"}

\* quit() goes through the four maps, every entry ever made.
Entries(c) == {w \in Workers : w.client = c /\ thread_space[w] # "absent"}

Quit(c) ==
    /\ Ready(c)
    /\ call' = [call EXCEPT ![c] = "quit"]
    /\ todo' = [todo EXCEPT ![c] = Entries(c)]
    /\ UNCHANGED <<thread_space, unused_socket, joining, ret, threadVars,
                   terminated>>

\* The order of the four loops of quit().
Loop(w) == CASE IsSubscriber(w) -> 1
             [] IsServer(w)     -> 2
             [] IsPublisher(w)  -> 3
             [] IsRequester(w)  -> 4

QuitStep(c) ==
    /\ call[c] = "quit"
    /\ joining[c] = NoWorker
    /\ ~terminated
    /\ \/ /\ todo[c] = {}
          /\ call' = [call EXCEPT ![c] = "none"]
          /\ Returns(c, "quit")
          /\ UNCHANGED <<thread_space, joining, todo>>
       \/ \E w \in todo[c] :
            /\ \A v \in todo[c] : Loop(w) <= Loop(v)
            /\ \/ /\ Throws(w)
                  /\ call' = [call EXCEPT ![c] = "none"]
                  /\ todo' = [todo EXCEPT ![c] = {}]
                  /\ Returns(c, "quit_threw")
                  /\ UNCHANGED <<thread_space, joining>>
               \/ /\ ~Throws(w)
                  /\ Signal(w)
                  /\ todo' = [todo EXCEPT ![c] = @ \ {w}]
                  /\ UNCHANGED <<call, ret>>
    /\ UNCHANGED <<unused_socket, threadVars, terminated>>

\* mutant of ThreadEnded: detach() instead of join().
ThreadDetached(w) == TRUE

\* thread->join() returns once the thread function has.
ThreadEnded(w) == pc[w] = "done"

JoinReturns(c) ==
    /\ joining[c] # NoWorker
    /\ ThreadEnded(joining[c])
    /\ ~terminated
    /\ thread_space' = [thread_space EXCEPT ![joining[c]] = "joined"]
    /\ joining' = [joining EXCEPT ![c] = NoWorker]
    /\ \/ /\ call[c] = "cancel"
          /\ call' = [call EXCEPT ![c] = "none"]
          /\ Returns(c, "cancelled")
       \/ /\ call[c] = "quit"
          /\ UNCHANGED <<call, ret>>
    /\ UNCHANGED <<unused_socket, todo, threadVars, terminated>>

\* The empty destructor: members go in reverse order, the context first.
Destroy(c) ==
    /\ Ready(c)
    /\ call' = [call EXCEPT ![c] = "destroy"]
    /\ UNCHANGED <<thread_space, unused_socket, joining, todo, ret,
                   threadVars, terminated>>

\* zmq_ctx_term() waits until every socket of the context is closed.
ContextCloses(c) ==
    /\ call[c] = "destroy"
    /\ ~terminated
    /\ \A w \in Workers : w.client = c =>
            w \notin unused_socket /\ pc[w] \in {"none", "done"}
    /\ call' = [call EXCEPT ![c] = "gone"]
    /\ UNCHANGED <<thread_space, unused_socket, joining, todo, ret,
                   threadVars, terminated>>

-----------------------------------------------------------------------------
(* Steps of the thread of a worker.                                        *)

At(w, l) == pc[w] = l /\ ~terminated

GoTo(w, l) == pc' = [pc EXCEPT ![w] = l]

\* mutant of Unlock: lock() without the matching unlock().
UnlockForgotten(w) == UNCHANGED mutex_lock

\* std::lock_guard's destructor, at the end of the block that declared it.
Unlock(w) == mutex_lock' = NoWorker

\* The thread takes its properties and connects or binds its socket.
Attach(w) ==
    /\ At(w, "start")
    /\ GoTo(w, "check")
    /\ UNCHANGED <<clientVars, mutex_lock, server, channel, serving,
                   terminated>>

\* exit_signal.wait_for(0) == timeout: another round of the loop.
NextRound(w) ==
    /\ At(w, "check")
    /\ thread_space[w] = "running"
    /\ GoTo(w, IF IsPublisher(w) \/ IsRequester(w) THEN "data" ELSE "poll")
    /\ UNCHANGED <<clientVars, mutex_lock, server, channel, serving,
                   terminated>>

Reaches(w, s) == <<server[w], s.key>> \in Routes

\* The loop ends and the socket goes with it: a request that had reached a
\* server's socket and was not read yet is lost.
ThreadExits(w) ==
    /\ At(w, "check")
    /\ thread_space[w] = "signalled"
    /\ GoTo(w, "done")
    /\ \E lost \in SUBSET {r \in Workers : /\ IsServer(w)
                                          /\ channel[r] = "sent"
                                          /\ Reaches(r, w)} :
          channel' = [r \in Workers |-> IF r \in lost THEN "lost"
                                                      ELSE channel[r]]
    /\ UNCHANGED <<clientVars, mutex_lock, server, serving, terminated>>

\* zmq::poll() of a subscriber or a server returns after 100 ms.
PollTimeout(w) ==
    /\ At(w, "poll")
    /\ GoTo(w, "check")
    /\ UNCHANGED <<clientVars, mutex_lock, server, channel, serving,
                   terminated>>

\* A message of a publisher, or a request from another process.
Receive(w) ==
    /\ At(w, "poll")
    /\ GoTo(w, "lock")
    /\ UNCHANGED <<clientVars, mutex_lock, server, channel, serving,
                   terminated>>

\* A request from a requester of this process.
ReceiveRequest(s, r) ==
    /\ At(s, "poll")
    /\ IsServer(s)
    /\ channel[r] = "sent"
    /\ Reaches(r, s)
    /\ GoTo(s, "lock")
    /\ channel' = [channel EXCEPT ![r] = "taken"]
    /\ serving' = [serving EXCEPT ![s] = r]
    /\ UNCHANGED <<clientVars, mutex_lock, server, terminated>>

\* get_data(), called without the lock, and the send.
PublishData(w) ==
    /\ At(w, "data")
    /\ IsPublisher(w)
    /\ GoTo(w, "sleep")
    /\ UNCHANGED <<clientVars, mutex_lock, server, channel, serving,
                   terminated>>

\* mutant of SendRequest: the guard declared before the blocking s_recv().
SendRequestLocked(w) ==
    /\ At(w, "data")
    /\ IsRequester(w)
    /\ mutex_lock = NoWorker
    /\ mutex_lock' = w
    /\ GoTo(w, "recv")
    /\ channel' = [channel EXCEPT ![w] = "sent"]
    /\ UNCHANGED <<clientVars, server, serving, terminated>>

SendRequest(w) ==
    /\ At(w, "data")
    /\ IsRequester(w)
    /\ GoTo(w, "recv")
    /\ channel' = [channel EXCEPT ![w] = "sent"]
    /\ UNCHANGED <<clientVars, mutex_lock, server, serving, terminated>>

\* s_recv() of a requester has no timeout and looks at no signal.
RecvReply(w) ==
    /\ At(w, "recv")
    /\ channel[w] = "replied"
    /\ GoTo(w, "lock")
    /\ channel' = [channel EXCEPT ![w] = "idle"]
    /\ UNCHANGED <<clientVars, mutex_lock, server, serving, terminated>>

\* mutants of AcquireLock: the lock belongs to a client and not to a thread;
\* the callback is called without a lock_guard.
AcquireLockAsClient(w) ==
    /\ At(w, "lock")
    /\ mutex_lock \in {NoWorker, w.client}
    /\ mutex_lock' = w.client
    /\ GoTo(w, "callback")
    /\ UNCHANGED <<clientVars, server, channel, serving, terminated>>

AcquireNoLock(w) ==
    /\ At(w, "lock")
    /\ GoTo(w, "callback")
    /\ UNCHANGED <<clientVars, mutex_lock, server, channel, serving,
                   terminated>>

AcquireLock(w) ==
    /\ At(w, "lock")
    /\ mutex_lock = NoWorker
    /\ mutex_lock' = w
    /\ GoTo(w, "callback")
    /\ UNCHANGED <<clientVars, server, channel, serving, terminated>>

SubscriberCallback(w) ==
    /\ At(w, "callback")
    /\ IsSubscriber(w)
    /\ GoTo(w, "check")
    /\ Unlock(w)
    /\ UNCHANGED <<clientVars, server, channel, serving, terminated>>

\* The guard of a requester lives until the end of the loop body: the
\* thread sleeps with the lock held.
RequesterCallback(w) ==
    /\ At(w, "callback")
    /\ IsRequester(w)
    /\ GoTo(w, "sleep")
    /\ UNCHANGED <<clientVars, mutex_lock, server, channel, serving,
                   terminated>>

ServerCallback(w) ==
    /\ At(w, "callback")
    /\ IsServer(w)
    /\ GoTo(w, "reply")
    /\ UNCHANGED <<clientVars, mutex_lock, server, channel, serving,
                   terminated>>

\* mutant of SendReply: a server that was cancelled leaves without replying.
SendReplyUnlessCancelled(s) ==
    /\ At(s, "reply")
    /\ GoTo(s, "check")
    /\ Unlock(s)
    /\ channel' = [r \in Workers |->
            IF r = serving[s] /\ thread_space[s] = "running" THEN "replied"
                                                             ELSE channel[r]]
    /\ serving' = [serving EXCEPT ![s] = NoWorker]
    /\ UNCHANGED <<clientVars, server, terminated>>

SendReply(s) ==
    /\ At(s, "reply")
    /\ GoTo(s, "check")
    /\ Unlock(s)
    /\ channel' = [r \in Workers |-> IF r = serving[s] THEN "replied"
                                                       ELSE channel[r]]
    /\ serving' = [serving EXCEPT ![s] = NoWorker]
    /\ UNCHANGED <<clientVars, server, terminated>>

SleepEnds(w) ==
    /\ At(w, "sleep")
    /\ GoTo(w, "check")
    /\ IF IsRequester(w) THEN Unlock(w) ELSE UNCHANGED mutex_lock
    /\ UNCHANGED <<clientVars, server, channel, serving, terminated>>

\* The context was terminated under a live socket: the socket call throws
\* zmq::error_t (ETERM) and nothing catches it on the thread.
ContextTerminated(w) ==
    /\ pc[w] \in {"poll", "data", "recv", "reply"}
    /\ ~terminated
    /\ call[w.client] = "destroy"
    /\ terminated' = TRUE
    /\ UNCHANGED <<clientVars, threadVars>>

\* A server of another process answers.
ExternalReply(w) ==
    /\ channel[w] = "sent"
    /\ server[w] \in ExternalServers
    /\ ~terminated
    /\ channel' = [channel EXCEPT ![w] = "replied"]
    /\ UNCHANGED <<clientVars, pc, mutex_lock, server, serving, terminated>>

-----------------------------------------------------------------------------
Application(c) ==
    \/ \E a \in Keys, t \in Topics : Subscribe(c, a, t)
    \/ \E k \in Kinds, ref \in Keys \cup Topics : Cancel(c, k, ref)
    \/ Quit(c)
    \/ QuitStep(c)
    \/ JoinReturns(c)
    \/ Destroy(c)
    \/ ContextCloses(c)

Starts(w) ==
    \/ PeriodicPublish(w)
    \/ \E d \in Destinations : PeriodicRequest(w, d)
    \/ Serve(w)

\* The steps a running thread takes by itself.
ThreadStep(w) ==
    \/ Attach(w)
    \/ NextRound(w)
    \/ ThreadExits(w)
    \/ PollTimeout(w)
    \/ Receive(w)
    \/ \E r \in Workers : ReceiveRequest(w, r)
    \/ PublishData(w)
    \/ SendRequest(w)
    \/ RecvReply(w)
    \/ SubscriberCallback(w)
    \/ RequesterCallback(w)
    \/ ServerCallback(w)
    \/ SendReply(w)
    \/ SleepEnds(w)

Next ==
    \/ \E c \in Clients : Application(c)
    \/ \E w \in Workers : \/ Starts(w)
                          \/ ThreadStep(w)
                          \/ AcquireLock(w)
                          \/ ContextTerminated(w)
                          \/ ExternalReply(w)

Spec == Init /\ [][Next]_vars

(***************************************************************************)
(* Threads that can run do run, a call that can return returns, and a      *)
(* thread that keeps finding mutex_lock free takes it in the end (every    *)
(* holder goes through a socket call between two acquisitions, which is    *)
(* when a waiter gets in). The application owes no call, and no message    *)
(* has to arrive.                                                          *)
(***************************************************************************)
FairSpec ==
    /\ Spec
    /\ \A w \in Workers : WF_vars(ThreadStep(w)) /\ SF_vars(AcquireLock(w))
    /\ \A c \in Clients : WF_vars(QuitStep(c)) /\ WF_vars(JoinReturns(c))

\* The servers of other processes answer what they are sent.
ServersAnswer == \A w \in Workers : WF_vars(ExternalReply(w))

FairSpecWithServers == FairSpec /\ ServersAnswer

-----------------------------------------------------------------------------
(* Properties.                                                             *)

\* Every variable has the type its declaration gives it.
TypeOK ==
    /\ thread_space \in [Workers -> EntryStates]
    /\ unused_socket \subseteq Workers
    /\ pc \in [Workers -> PCs]
    /\ mutex_lock \in Workers \cup {NoWorker}
    /\ server \in [Workers -> Destinations]
    /\ channel \in [Workers -> {"idle", "sent", "taken", "replied", "lost"}]
    /\ serving \in [Workers -> Workers \cup {NoWorker}]
    /\ call \in [Clients -> Calls]
    /\ joining \in [Clients -> Workers \cup {NoWorker}]
    /\ todo \in [Clients -> SUBSET Workers]
    /\ ret \in [Clients -> Results]
    /\ terminated \in BOOLEAN

\* The stretches of code that run under mutex_lock.
InCritical(w) ==
    \/ pc[w] \in {"callback", "reply"}
    \/ IsRequester(w) /\ pc[w] = "sleep"

(* No two callbacks of subscribers, servers or requesters run at the same  *)
(* time anywhere in the process, not even for different clients: the lock  *)
(* is a static of NetworkPatterns.cpp. Applications (KermitKernel) keep    *)
(* unlocked state in their callbacks and rely on it.                       *)
CallbacksExclusive ==
    \A v, w \in Workers : InCritical(v) /\ InCritical(w) => v = w

(* Once the cancel of a thread or quit() has joined it, it never runs      *)
(* again: what its callback captured may be destroyed.                     *)
JoinedIsOver ==
    \A w \in Workers : thread_space[w] = "joined" => pc[w] = "done"

(* A request a server has read is in the hands of exactly that server      *)
(* until it is answered: cancelling the server does not swallow it.        *)
TakenIsServed ==
    \A r \in Workers : channel[r] = "taken" =>
        \E s \in Workers : /\ serving[s] = r
                           /\ pc[s] \in {"lock", "callback", "reply"}

(* When quit() has returned normally no thread of the client is left, not  *)
(* even inside a socket call.                                              *)
QuitStopsAll ==
    \A w \in Workers : ret[w.client] = "quit" /\ call[w.client] # "quit" =>
        pc[w] \in {"none", "done"}

(* A client destroyed after a normal quit() does not take the process      *)
(* down.                                                                   *)
NoTerminateAfterQuit ==
    terminated => \E c \in Clients : call[c] = "destroy" /\ ret[c] # "quit"

(* Joining a subscriber, a server or a periodic publisher ends: whatever   *)
(* else the process does with its one lock, and whoever is dead at the     *)
(* other end, these loops come back to their exit signal.                  *)
JoinEnds ==
    \A c \in Clients, w \in Workers :
        joining[c] = w /\ ~IsRequester(w) ~> joining[c] # w \/ terminated

(* quit() ends.                                                            *)
QuitEnds ==
    \A c \in Clients : call[c] = "quit" ~> call[c] # "quit" \/ terminated

(* quit() ends if the servers of the requesters answer; a requester waits  *)
(* for its reply without a timeout.                                        *)
QuitEndsIfAnswered == ServersAnswer => QuitEnds

(* A message that was received is handed to its callback.                  *)
ReceivedIsHandled ==
    \A w \in Workers : pc[w] = "lock" ~> pc[w] = "callback" \/ terminated

(* ControlClientInterface.hpp: quit returns satisfactorily and cleans up   *)
(* all thread or publishing objects.                                       *)
QuitReturnsSatisfactorily == \A c \in Clients : ret[c] # "quit_threw"

(* Asking twice for the same subscription is refused with "Subscriber      *)
(* Already Exists" (ZMQControlClient.cpp:187-190).                         *)
SubscribeNeverThrows == \A c \in Clients : ret[c] # "threw_future_retrieved"
-----------------------------------------------------------------------------
(* The inductive invariant behind the safety properties above.             *)

\* A thread exists from its entry's creation, and ends only when signalled.
Lifecycle == \A w \in Workers :
    /\ thread_space[w] = "absent" <=> pc[w] = "none"
    /\ thread_space[w] = "joined" => pc[w] = "done"
    /\ pc[w] = "done" => thread_space[w] \in {"signalled", "joined"}

\* Whoever is in a stretch of code under mutex_lock holds it.
HolderInside == \A w \in Workers : InCritical(w) => mutex_lock = w

\* A request that was read is with a server that still has to reply.
ServerHasRequest == \A r \in Workers : channel[r] = "taken" =>
    \E s \in Workers : /\ IsServer(s)
                       /\ serving[s] = r
                       /\ pc[s] \in {"lock", "callback", "reply"}

\* What a join waits for.
JoinTarget == \A c \in Clients : joining[c] # NoWorker =>
    /\ thread_space[joining[c]] = "signalled"
    /\ joining[c].client = c
    /\ call[c] \in {"cancel", "quit"}

\* What quit() has still to do, and what it leaves when it returns.
QuitProgress == \A c \in Clients :
    /\ \A w \in todo[c] : w.client = c /\ thread_space[w] # "absent"
    /\ call[c] = "quit" => \A w \in Workers : w.client = c =>
            \/ thread_space[w] \in {"absent", "joined"}
            \/ w \in todo[c] \cup {joining[c]}
    /\ ret[c] = "quit" /\ call[c] # "quit" => \A w \in Workers :
            w.client = c => thread_space[w] \in {"absent", "joined"}

IInv ==
    /\ TypeOK
    /\ Lifecycle
    /\ HolderInside
    /\ ServerHasRequest
    /\ JoinTarget
    /\ QuitProgress
    /\ NoTerminateAfterQuit

-----------------------------------------------------------------------------
(* Refinement of WorkerPool.                                               *)

Phase(w) ==
    IF thread_space[w] = "absent" THEN "off"
    ELSE IF thread_space[w] = "running" THEN "live"
    ELSE IF thread_space[w] = "joined" THEN "joined"
    ELSE IF pc[w] = "done" THEN "ended" ELSE "stopping"

Pool == INSTANCE WorkerPool WITH
            phase <- [w \in Workers |-> Phase(w)],
            inside <- {w \in Workers : InCritical(w)}

(* The client implements the pool: threads stop before they are joined,    *)
(* and callbacks never overlap nor come from a thread that ended.          *)
PoolSpec == Pool!Spec
=============================================================================

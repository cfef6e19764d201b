------------------------ MODULE ControlClientProofs ------------------------
(***************************************************************************)
(* Proofs about ControlClient for any clients, workers and routes.         *)
(***************************************************************************)
EXTENDS ControlClient, TLAPS

-----------------------------------------------------------------------------
(* A worker names a client, a map and a key.                               *)
LEMMA WorkerFields ==
    \A w \in Workers : w.client \in Clients /\ w.kind \in Kinds
BY WorkersAssumption DEF Handles

(* The kinds are different strings, so a worker is of one kind.            *)
LEMMA OneKind ==
    \A w : /\ ~(IsPublisher(w) /\ IsRequester(w))
           /\ ~(IsPublisher(w) /\ IsSubscriber(w))
           /\ ~(IsPublisher(w) /\ IsServer(w))
           /\ ~(IsRequester(w) /\ IsSubscriber(w))
           /\ ~(IsRequester(w) /\ IsServer(w))
           /\ ~(IsSubscriber(w) /\ IsServer(w))
BY DEF IsPublisher, IsRequester, IsSubscriber, IsServer

-----------------------------------------------------------------------------
(* Type correctness.                                                       *)

LEMMA InitTypeOK == Init => TypeOK
<1> SUFFICES ASSUME Init PROVE TypeOK
    OBVIOUS
<1>1. server \in [Workers -> Destinations]
    BY DestinationsAssumption DEF Init
<1> QED
    BY <1>1 DEF Init, TypeOK, EntryStates, PCs, Calls, Results

LEMMA ApplicationTypeOK ==
    ASSUME TypeOK, NEW c \in Clients, Application(c)
    PROVE  TypeOK'
<1> USE WorkerFields DEF TypeOK, EntryStates, PCs, Calls, Results, Returns,
        clientVars, threadVars
<1>1. ASSUME NEW a \in Keys, NEW t \in Topics, Subscribe(c, a, t)
      PROVE  TypeOK'
  <2> DEFINE w == Handle(c, "subscribers", a)
             byTopic == Handle(c, "subscribers", t)
  <2>1. CASE byTopic \in Workers /\ AlreadyExists(byTopic)
    BY <2>1 DEF AlreadyExists
  <2>2. CASE w \in Workers /\ Spawn(w) /\ UNCHANGED server
    BY <2>2 DEF Spawn
  <2>3. CASE /\ w \in Workers
             /\ unused_socket' = unused_socket \cup {w}
             /\ Returns(c, "threw_future_retrieved")
             /\ UNCHANGED <<thread_space, call, joining, todo, threadVars,
                            terminated>>
    BY <2>3
  <2> QED BY <1>1, <2>1, <2>2, <2>3 DEF Subscribe
<1>2. ASSUME NEW k \in Kinds, NEW ref \in Keys \cup Topics, Cancel(c, k, ref)
      PROVE  TypeOK'
  <2> DEFINE w == Handle(c, k, ref)
  <2>1. CASE UNCHANGED <<thread_space, call, joining>> /\ \E r \in Results : Returns(c, r)
    BY <1>2, <2>1 DEF Cancel
  <2>2. CASE /\ w \in Workers
             /\ Signal(w)
             /\ call' = [call EXCEPT ![c] = "cancel"]
             /\ UNCHANGED ret
    BY <1>2, <2>2 DEF Cancel, Signal
  <2> QED BY <1>2, <2>1, <2>2 DEF Cancel
<1>3. CASE Quit(c)
  BY <1>3 DEF Quit, Entries
<1>4. CASE QuitStep(c)
  <2>1. CASE todo[c] = {}
    BY <1>4, <2>1 DEF QuitStep
  <2>2. ASSUME NEW w \in todo[c], Throws(w),
               call' = [call EXCEPT ![c] = "none"],
               todo' = [todo EXCEPT ![c] = {}],
               Returns(c, "quit_threw"),
               UNCHANGED <<thread_space, joining>>
        PROVE  TypeOK'
    BY <1>4, <2>2 DEF QuitStep
  <2>3. ASSUME NEW w \in todo[c], Signal(w),
               todo' = [todo EXCEPT ![c] = @ \ {w}],
               UNCHANGED <<call, ret>>
        PROVE  TypeOK'
    BY <1>4, <2>3 DEF QuitStep, Signal
  <2> QED BY <1>4, <2>1, <2>2, <2>3 DEF QuitStep
<1>5. CASE JoinReturns(c)
  BY <1>5 DEF JoinReturns, ThreadEnded
<1>6. CASE Destroy(c)
  BY <1>6 DEF Destroy
<1>7. CASE ContextCloses(c)
  BY <1>7 DEF ContextCloses
<1> QED BY <1>1, <1>2, <1>3, <1>4, <1>5, <1>6, <1>7 DEF Application

LEMMA WorkerTypeOK ==
    ASSUME TypeOK, NEW w \in Workers,
           \/ Starts(w) \/ ThreadStep(w) \/ AcquireLock(w)
           \/ ContextTerminated(w) \/ ExternalReply(w)
    PROVE  TypeOK'
<1> USE WorkerFields DEF TypeOK, EntryStates, PCs, Calls, Results, Returns,
        clientVars, threadVars, At, GoTo, Unlock
<1>1. CASE Starts(w)
  BY <1>1 DEF Starts, PeriodicPublish, PeriodicRequest, Serve, Spawn,
              AlreadyExists
<1>2. CASE ThreadStep(w)
  <2>1. CASE Attach(w) \/ NextRound(w) \/ PollTimeout(w) \/ Receive(w)
             \/ PublishData(w) \/ RequesterCallback(w) \/ ServerCallback(w)
    BY <2>1 DEF Attach, NextRound, PollTimeout, Receive, PublishData,
                RequesterCallback, ServerCallback
  <2>2. CASE ThreadExits(w)
    BY <2>2 DEF ThreadExits
  <2>3. CASE SendRequest(w) \/ RecvReply(w)
             \/ (\E r \in Workers : ReceiveRequest(w, r))
    BY <2>3 DEF SendRequest, RecvReply, ReceiveRequest
  <2>4. CASE SubscriberCallback(w) \/ SleepEnds(w)
    BY <2>4 DEF SubscriberCallback, SleepEnds
  <2>5. CASE SendReply(w)
    BY <2>5 DEF SendReply
  <2> HIDE DEF TypeOK, At, GoTo, Unlock
  <2> QED BY <1>2, <2>1, <2>2, <2>3, <2>4, <2>5 DEF ThreadStep
<1>3. CASE AcquireLock(w)
  BY <1>3 DEF AcquireLock
<1>4. CASE ContextTerminated(w)
  BY <1>4 DEF ContextTerminated
<1>5. CASE ExternalReply(w)
  BY <1>5 DEF ExternalReply
<1> HIDE DEF TypeOK
<1> QED BY <1>1, <1>2, <1>3, <1>4, <1>5

LEMMA StepTypeOK == TypeOK /\ [Next]_vars => TypeOK'
<1> SUFFICES ASSUME TypeOK, [Next]_vars PROVE TypeOK'
    OBVIOUS
<1>1. CASE Next
    BY <1>1, ApplicationTypeOK, WorkerTypeOK DEF Next
<1>2. CASE UNCHANGED vars
    BY <1>2 DEF TypeOK, vars, clientVars, threadVars
<1> QED BY <1>1, <1>2

(* Every variable of the client and of its threads keeps its type, in      *)
(* every state the client can reach.                                       *)
THEOREM TypeCorrect == Spec => []TypeOK
BY InitTypeOK, StepTypeOK, PTL DEF Spec

-----------------------------------------------------------------------------
(* Who changes what.                                                       *)

(* The steps of a thread leave the client's own state alone.               *)
LEMMA ThreadsKeepClient ==
    ASSUME NEW w \in Workers,
           \/ ThreadStep(w) \/ AcquireLock(w) \/ ContextTerminated(w)
           \/ ExternalReply(w)
    PROVE  UNCHANGED clientVars
BY DEF ThreadStep, AcquireLock, ContextTerminated, ExternalReply, Attach,
       NextRound, ThreadExits, PollTimeout, Receive, ReceiveRequest,
       PublishData, SendRequest, RecvReply, SubscriberCallback,
       RequesterCallback, ServerCallback, SendReply, SleepEnds

(* A call either starts a thread or leaves all threads where they are.     *)
LEMMA ApplicationSpawns ==
    ASSUME NEW c \in Clients, Application(c)
    PROVE  \/ \E w \in Workers : w.client = c /\ Ready(c) /\ Spawn(w)
           \/ UNCHANGED threadVars
<1>1. ASSUME NEW a \in Keys, NEW t \in Topics, Subscribe(c, a, t)
      PROVE  \/ \E w \in Workers : w.client = c /\ Ready(c) /\ Spawn(w)
             \/ UNCHANGED threadVars
  BY <1>1 DEF Subscribe, Handle, AlreadyExists
<1>2. ASSUME NEW k \in Kinds, NEW ref \in Keys \cup Topics, Cancel(c, k, ref)
      PROVE  UNCHANGED threadVars
  BY <1>2 DEF Cancel
<1>3. CASE Quit(c) \/ QuitStep(c) \/ JoinReturns(c) \/ Destroy(c)
           \/ ContextCloses(c)
  BY <1>3 DEF Quit, QuitStep, JoinReturns, Destroy, ContextCloses
<1> QED BY <1>1, <1>2, <1>3 DEF Application

LEMMA StartsSpawns ==
    ASSUME NEW w \in Workers, Starts(w)
    PROVE  /\ Ready(w.client)
           /\ Spawn(w) \/ (AlreadyExists(w) /\ UNCHANGED threadVars)
BY DEF Starts, PeriodicPublish, PeriodicRequest, Serve, AlreadyExists

(* So a step of the system is a spawn, another step of a client, or a step *)
(* of one thread.                                                          *)
LEMMA StepKinds ==
    ASSUME Next
    PROVE  \/ \E w \in Workers : Ready(w.client) /\ Spawn(w)
           \/ UNCHANGED threadVars
           \/ \E w \in Workers : \/ ThreadStep(w) \/ AcquireLock(w)
                                 \/ ContextTerminated(w) \/ ExternalReply(w)
BY ApplicationSpawns, StartsSpawns DEF Next

-----------------------------------------------------------------------------
(* Mutual exclusion of the callbacks.                                      *)

LEMMA HolderStep ==
    ASSUME TypeOK, HolderInside, [Next]_vars
    PROVE  HolderInside'
<1> SUFFICES ASSUME NEW v \in Workers, InCritical(v)'
             PROVE  mutex_lock' = v
    BY DEF HolderInside
<1> USE DEF TypeOK, HolderInside, InCritical, At, GoTo, Unlock
<1>1. ASSUME NEW w \in Workers, Spawn(w)
      PROVE  mutex_lock' = v
  BY <1>1 DEF Spawn
<1>2. CASE UNCHANGED threadVars
  BY <1>2 DEF threadVars
<1>3. ASSUME NEW w \in Workers, ThreadStep(w)
      PROVE  mutex_lock' = v
  <2>1. CASE Attach(w) \/ NextRound(w) \/ ThreadExits(w) \/ PollTimeout(w)
             \/ Receive(w) \/ (\E r \in Workers : ReceiveRequest(w, r))
    BY <2>1 DEF Attach, NextRound, ThreadExits, PollTimeout, Receive,
                ReceiveRequest
  <2>2. CASE PublishData(w)
    BY <2>2, OneKind DEF PublishData
  <2>3. CASE SendRequest(w) \/ RecvReply(w)
    BY <2>3 DEF SendRequest, RecvReply
  <2>4. CASE SubscriberCallback(w)
    BY <2>4 DEF SubscriberCallback
  <2>5. CASE RequesterCallback(w) \/ ServerCallback(w)
    BY <2>5 DEF RequesterCallback, ServerCallback
  <2>6. CASE SendReply(w)
    BY <2>6 DEF SendReply
  <2>7. CASE SleepEnds(w)
    BY <2>7 DEF SleepEnds
  <2> QED BY <1>3, <2>1, <2>2, <2>3, <2>4, <2>5, <2>6, <2>7 DEF ThreadStep
<1>4. ASSUME NEW w \in Workers, AcquireLock(w)
      PROVE  mutex_lock' = v
  BY <1>4, NoWorkerAssumption DEF AcquireLock
<1>5. ASSUME NEW w \in Workers, ContextTerminated(w) \/ ExternalReply(w)
      PROVE  mutex_lock' = v
  BY <1>5 DEF ContextTerminated, ExternalReply, threadVars
<1>6. CASE UNCHANGED vars
  BY <1>6 DEF vars, threadVars
<1> QED BY <1>1, <1>2, <1>3, <1>4, <1>5, <1>6, StepKinds

(* At most one thread of the process is between taking mutex_lock and      *)
(* releasing it: the callbacks of subscribers, servers and requesters, of  *)
(* all clients, never run concurrently.                                    *)
THEOREM MutualExclusion == Spec => []CallbacksExclusive
<1>1. Init => HolderInside
  BY DEF Init, HolderInside, InCritical
<1>2. TypeOK /\ HolderInside /\ [Next]_vars => HolderInside'
  BY HolderStep
<1>3. HolderInside => CallbacksExclusive
  BY DEF HolderInside, CallbacksExclusive
<1> QED BY <1>1, <1>2, <1>3, TypeCorrect, PTL DEF Spec

-----------------------------------------------------------------------------
(* The life of a thread and of the calls that end it.                      *)

(* A join ends only on a thread that has ended, and nothing starts a       *)
(* thread whose key is in the map.                                         *)
LEMMA LifecycleStep ==
    ASSUME TypeOK, Lifecycle, JoinTarget, QuitProgress, [Next]_vars
    PROVE  Lifecycle'
<1> USE WorkerFields DEF TypeOK, Lifecycle, EntryStates
<1>1. ASSUME NEW c \in Clients, Application(c)
      PROVE  Lifecycle'
  <2>1. ASSUME NEW a \in Keys, NEW t \in Topics, Subscribe(c, a, t)
        PROVE  Lifecycle'
    BY <2>1 DEF Subscribe, Spawn, AlreadyExists, GoTo, threadVars
  <2>2. ASSUME NEW k \in Kinds, NEW ref \in Keys \cup Topics,
               Cancel(c, k, ref)
        PROVE  Lifecycle'
    BY <2>2 DEF Cancel, Signal, Throws, threadVars
  <2>3. CASE QuitStep(c)
    BY <2>3 DEF QuitStep, Signal, Throws, threadVars, QuitProgress
  <2>4. CASE JoinReturns(c)
    BY <2>4 DEF JoinReturns, ThreadEnded, threadVars, JoinTarget
  <2>5. CASE Quit(c) \/ Destroy(c) \/ ContextCloses(c)
    BY <2>5 DEF Quit, Entries, Destroy, ContextCloses, threadVars
  <2> QED BY <1>1, <2>1, <2>2, <2>3, <2>4, <2>5 DEF Application
<1>2. ASSUME NEW w \in Workers, Starts(w)
      PROVE  Lifecycle'
  BY <1>2, StartsSpawns DEF Spawn, AlreadyExists, threadVars
<1>3. ASSUME NEW w \in Workers, ThreadStep(w)
      PROVE  Lifecycle'
  <2> USE ThreadsKeepClient DEF clientVars, At, GoTo
  <2>1. CASE ThreadExits(w)
    BY <1>3, <2>1 DEF ThreadExits
  <2>2. CASE Attach(w) \/ NextRound(w) \/ PollTimeout(w) \/ Receive(w)
             \/ PublishData(w) \/ RequesterCallback(w) \/ ServerCallback(w)
    BY <1>3, <2>2 DEF Attach, NextRound, PollTimeout, Receive, PublishData,
                RequesterCallback, ServerCallback
  <2>3. CASE SendRequest(w) \/ RecvReply(w)
             \/ (\E r \in Workers : ReceiveRequest(w, r))
    BY <1>3, <2>3 DEF SendRequest, RecvReply, ReceiveRequest
  <2>4. CASE SubscriberCallback(w) \/ SleepEnds(w) \/ SendReply(w)
    BY <1>3, <2>4 DEF SubscriberCallback, SleepEnds, SendReply
  <2> QED BY <1>3, <2>1, <2>2, <2>3, <2>4 DEF ThreadStep
<1>4. ASSUME NEW w \in Workers,
             AcquireLock(w) \/ ContextTerminated(w) \/ ExternalReply(w)
      PROVE  Lifecycle'
  BY <1>4, ThreadsKeepClient
  DEF clientVars, threadVars, AcquireLock, At, GoTo, ContextTerminated,
      ExternalReply
<1>5. CASE UNCHANGED vars
  BY <1>5 DEF vars, clientVars, threadVars
<1> QED BY <1>1, <1>2, <1>3, <1>4, <1>5 DEF Next

(* No call joins a thread that is not on its way out, whatever the other   *)
(* clients do meanwhile.                                                   *)
LEMMA JoinTargetStep ==
    ASSUME TypeOK, JoinTarget, QuitProgress, [Next]_vars
    PROVE  JoinTarget'
<1> SUFFICES ASSUME NEW d \in Clients, joining'[d] # NoWorker
             PROVE  /\ thread_space'[joining'[d]] = "signalled"
                    /\ joining'[d].client = d
                    /\ call'[d] \in {"cancel", "quit"}
    BY DEF JoinTarget
<1> USE WorkerFields DEF TypeOK, JoinTarget, EntryStates, Calls
<1>1. ASSUME NEW c \in Clients, Application(c)
      PROVE  /\ thread_space'[joining'[d]] = "signalled"
             /\ joining'[d].client = d
             /\ call'[d] \in {"cancel", "quit"}
  <2>1. ASSUME NEW a \in Keys, NEW t \in Topics, Subscribe(c, a, t)
        PROVE  /\ thread_space'[joining'[d]] = "signalled"
               /\ joining'[d].client = d
               /\ call'[d] \in {"cancel", "quit"}
    BY <2>1 DEF Subscribe, Spawn, AlreadyExists
  <2>2. ASSUME NEW k \in Kinds, NEW ref \in Keys \cup Topics,
               Cancel(c, k, ref)
        PROVE  /\ thread_space'[joining'[d]] = "signalled"
               /\ joining'[d].client = d
               /\ call'[d] \in {"cancel", "quit"}
    BY <2>2 DEF Cancel, Signal, Throws, Ready, Handle
  <2>3. CASE QuitStep(c)
    BY <2>3 DEF QuitStep, Signal, Throws, QuitProgress
  <2>4. CASE JoinReturns(c)
    BY <2>4 DEF JoinReturns, ThreadEnded
  <2>5. CASE Quit(c) \/ Destroy(c) \/ ContextCloses(c)
    BY <2>5 DEF Quit, Entries, Destroy, ContextCloses, Ready
  <2> QED BY <1>1, <2>1, <2>2, <2>3, <2>4, <2>5 DEF Application
<1>2. ASSUME NEW w \in Workers, Starts(w)
      PROVE  /\ thread_space'[joining'[d]] = "signalled"
             /\ joining'[d].client = d
             /\ call'[d] \in {"cancel", "quit"}
  BY <1>2, StartsSpawns DEF Spawn, AlreadyExists
<1>3. CASE UNCHANGED clientVars
  BY <1>3 DEF clientVars
<1> QED BY <1>1, <1>2, <1>3, ThreadsKeepClient DEF Next, vars

(* quit() keeps account of every entry of its client.                      *)
LEMMA QuitProgressStep ==
    ASSUME TypeOK, JoinTarget, QuitProgress, [Next]_vars
    PROVE  QuitProgress'
<1> DEFINE Account(d) ==
      /\ \A w \in todo[d] : w.client = d /\ thread_space[w] # "absent"
      /\ call[d] = "quit" => \A w \in Workers : w.client = d =>
              \/ thread_space[w] \in {"absent", "joined"}
              \/ w \in todo[d] \cup {joining[d]}
      /\ ret[d] = "quit" /\ call[d] # "quit" => \A w \in Workers :
              w.client = d => thread_space[w] \in {"absent", "joined"}
<1> SUFFICES ASSUME NEW d \in Clients PROVE Account(d)'
    BY DEF QuitProgress
<1> USE WorkerFields, Account(d) DEF TypeOK, QuitProgress, EntryStates, Calls, Returns
<1>1. ASSUME NEW c \in Clients, Application(c)
      PROVE  Account(d)'
  <2>1. ASSUME NEW a \in Keys, NEW t \in Topics, Subscribe(c, a, t)
        PROVE  Account(d)'
    BY <2>1 DEF Subscribe, Spawn, AlreadyExists, Ready, Handle
  <2>2. ASSUME NEW k \in Kinds, NEW ref \in Keys \cup Topics,
               Cancel(c, k, ref)
        PROVE  Account(d)'
    BY <2>2 DEF Cancel, Signal, Throws, Ready, Handle
  <2>3. CASE QuitStep(c)
    <3>1. CASE todo[c] = {}
      BY <2>3, <3>1, NoWorkerAssumption DEF QuitStep
    <3>2. CASE \E w \in todo[c] : Throws(w) /\ todo' = [todo EXCEPT ![c] = {}]
                                  /\ Returns(c, "quit_threw")
                                  /\ call' = [call EXCEPT ![c] = "none"]
                                  /\ UNCHANGED <<thread_space, joining>>
      BY <2>3, <3>2
    <3>3. CASE \E w \in todo[c] : Signal(w) /\ UNCHANGED <<call, ret>>
                                  /\ todo' = [todo EXCEPT ![c] = @ \ {w}]
      BY <2>3, <3>3, NoWorkerAssumption DEF QuitStep, Signal
    <3> QED BY <2>3, <3>1, <3>2, <3>3 DEF QuitStep
  <2>4. CASE JoinReturns(c)
    BY <2>4 DEF JoinReturns, ThreadEnded, JoinTarget
  <2>5. CASE Quit(c) \/ Destroy(c) \/ ContextCloses(c)
    BY <2>5 DEF Quit, Entries, Destroy, ContextCloses, Ready
  <2> QED BY <1>1, <2>1, <2>2, <2>3, <2>4, <2>5 DEF Application
<1>2. ASSUME NEW w \in Workers, Starts(w)
      PROVE  Account(d)'
  <2>1. Ready(w.client)
    BY <1>2, StartsSpawns
  <2>2. UNCHANGED <<call, joining, todo>>
    BY <1>2, StartsSpawns DEF Spawn, AlreadyExists
  <2>3. CASE Spawn(w)
    <3>1. /\ thread_space[w] = "absent"
          /\ thread_space' = [thread_space EXCEPT ![w] = "running"]
      BY <2>3 DEF Spawn
    <3>2. ret' = [ret EXCEPT ![w.client] = "created"]
      BY <2>3 DEF Spawn, Returns
    <3>3. call[d] = "quit" => d # w.client
      BY <2>1 DEF Ready
    <3>4. ret'[d] = "quit" => d # w.client /\ ret[d] = "quit"
      BY <3>2
    <3>5. \A v \in Workers : v.client = d /\ d # w.client
                             => thread_space'[v] = thread_space[v]
      BY <3>1
    <3>6. \A v \in todo'[d] : v.client = d /\ thread_space'[v] # "absent"
      BY <2>2, <3>1
    <3> QED BY <2>2, <3>3, <3>4, <3>5, <3>6
  <2>4. CASE AlreadyExists(w)
    <3>1. /\ UNCHANGED thread_space
          /\ ret' = [ret EXCEPT ![w.client] = "exists"]
      BY <2>4 DEF AlreadyExists, Returns
    <3> QED BY <2>2, <3>1
  <2> QED BY <1>2, <2>3, <2>4, StartsSpawns
<1>3. CASE UNCHANGED clientVars
  BY <1>3 DEF clientVars
<1> QED BY <1>1, <1>2, <1>3, ThreadsKeepClient DEF Next, vars

(* A server that has read a request goes on to reply, cancelled or not.    *)
LEMMA ServerHasRequestStep ==
    ASSUME TypeOK, ServerHasRequest, [Next]_vars, Lifecycle
    PROVE  ServerHasRequest'
<1> SUFFICES ASSUME NEW q \in Workers, channel'[q] = "taken"
             PROVE  \E s \in Workers : /\ IsServer(s)
                                       /\ serving'[s] = q
                                       /\ pc'[s] \in {"lock", "callback", "reply"}
    BY DEF ServerHasRequest
<1> DEFINE Serves(s) == /\ IsServer(s)
                        /\ serving[s] = q
                        /\ pc[s] \in {"lock", "callback", "reply"}
           Goal == \E s \in Workers : Serves(s)'
<1> SUFFICES Goal
    OBVIOUS
<1>a. channel[q] = "taken" => \E s \in Workers : Serves(s)
    BY DEF ServerHasRequest
<1> USE NoWorkerAssumption DEF TypeOK, At, GoTo, Unlock
<1>1. ASSUME NEW w \in Workers, Spawn(w)
      PROVE  Goal
  BY <1>1, <1>a DEF Spawn, Lifecycle
<1>2. CASE UNCHANGED threadVars
  BY <1>2, <1>a DEF threadVars
<1>3. ASSUME NEW w \in Workers, ThreadStep(w)
      PROVE  Goal
  <2>1. CASE Attach(w) \/ NextRound(w) \/ PollTimeout(w) \/ Receive(w)
             \/ PublishData(w) \/ ServerCallback(w)
    BY <2>1, <1>a DEF Attach, NextRound, PollTimeout, Receive, PublishData,
                ServerCallback
  <2>2. CASE ThreadExits(w)
    BY <2>2, <1>a DEF ThreadExits
  <2>3. ASSUME NEW r \in Workers, ReceiveRequest(w, r)
        PROVE  Goal
    <3>1. CASE q = r
      BY <2>3, <3>1 DEF ReceiveRequest
    <3>2. CASE q # r
      BY <2>3, <3>2, <1>a DEF ReceiveRequest
    <3> QED BY <3>1, <3>2
  <2>4. CASE SendRequest(w) \/ RecvReply(w)
    BY <2>4, <1>a DEF SendRequest, RecvReply
  <2>5. CASE SubscriberCallback(w) \/ RequesterCallback(w)
    BY <2>5, <1>a, OneKind DEF SubscriberCallback, RequesterCallback
  <2>6. CASE SendReply(w)
    <3>1. channel[q] = "taken" /\ q # serving[w]
      BY <2>6 DEF SendReply
    <3> QED BY <2>6, <3>1, <1>a DEF SendReply
  <2>7. CASE SleepEnds(w)
    BY <2>7, <1>a DEF SleepEnds
  <2> QED BY <1>3, <2>1, <2>2, <2>3, <2>4, <2>5, <2>6, <2>7 DEF ThreadStep
<1>4. ASSUME NEW w \in Workers, AcquireLock(w)
      PROVE  Goal
  BY <1>4, <1>a DEF AcquireLock
<1>5. ASSUME NEW w \in Workers, ContextTerminated(w) \/ ExternalReply(w)
      PROVE  Goal
  BY <1>5, <1>a DEF ContextTerminated, ExternalReply, threadVars
<1>6. CASE UNCHANGED vars
  BY <1>6, <1>a DEF vars, threadVars
<1> QED BY <1>1, <1>2, <1>3, <1>4, <1>5, <1>6, StepKinds

(* The context is never terminated under a thread that quit() has joined.  *)
LEMMA NoTerminateStep ==
    ASSUME TypeOK, Lifecycle, QuitProgress, NoTerminateAfterQuit, [Next]_vars
    PROVE  NoTerminateAfterQuit'
<1>1. ASSUME NEW c \in Clients, Application(c)
      PROVE  ~terminated /\ ~terminated'
  BY <1>1 DEF Application, Subscribe, Spawn, AlreadyExists, Cancel, Quit,
              QuitStep, JoinReturns, Destroy, ContextCloses, Ready, TypeOK
<1>2. ASSUME NEW w \in Workers, Starts(w)
      PROVE  ~terminated /\ ~terminated'
  BY <1>2, StartsSpawns DEF Spawn, AlreadyExists, Ready, TypeOK
<1>3. ASSUME NEW w \in Workers, ThreadStep(w) \/ AcquireLock(w)
                                \/ ExternalReply(w)
      PROVE  ~terminated /\ ~terminated'
  BY <1>3 DEF ThreadStep, AcquireLock, ExternalReply, Attach, NextRound,
              ThreadExits, PollTimeout, Receive, ReceiveRequest, PublishData,
              SendRequest, RecvReply, SubscriberCallback, RequesterCallback,
              ServerCallback, SendReply, SleepEnds, At, TypeOK
<1>4. ASSUME NEW w \in Workers, ContextTerminated(w)
      PROVE  NoTerminateAfterQuit'
  <2>1. w.client \in Clients
    BY WorkerFields
  <2>2. call[w.client] = "destroy" /\ pc[w] \notin {"none", "done"}
    BY <1>4 DEF ContextTerminated
  <2>3. thread_space[w] \notin {"absent", "joined"}
    BY <2>2 DEF Lifecycle
  <2>4. ret[w.client] # "quit"
    BY <2>1, <2>2, <2>3 DEF QuitProgress
  <2>5. UNCHANGED clientVars
    BY <1>4 DEF ContextTerminated
  <2> QED BY <2>1, <2>2, <2>4, <2>5 DEF NoTerminateAfterQuit, clientVars
<1>5. CASE UNCHANGED vars
  BY <1>5 DEF vars, clientVars, NoTerminateAfterQuit
<1> QED BY <1>1, <1>2, <1>3, <1>4, <1>5 DEF Next, NoTerminateAfterQuit

-----------------------------------------------------------------------------
(* The inductive invariant.                                                *)

LEMMA InitIInv == Init => IInv
<1> SUFFICES ASSUME Init PROVE IInv
    OBVIOUS
<1>1. TypeOK
    BY InitTypeOK
<1>2. Lifecycle /\ HolderInside /\ ServerHasRequest /\ NoTerminateAfterQuit
    BY DEF Init, Lifecycle, HolderInside, InCritical, ServerHasRequest,
           NoTerminateAfterQuit
<1>3. JoinTarget /\ QuitProgress
    BY DEF Init, JoinTarget, QuitProgress
<1> QED BY <1>1, <1>2, <1>3 DEF IInv

LEMMA StepIInv == IInv /\ [Next]_vars => IInv'
BY StepTypeOK, LifecycleStep, HolderStep, ServerHasRequestStep,
   JoinTargetStep, QuitProgressStep, NoTerminateStep DEF IInv

(* The strengthened invariant holds in every reachable state.              *)
THEOREM Invariance == Spec => []IInv
BY InitIInv, StepIInv, PTL DEF Spec

(* A thread a cancel or quit() has joined never runs again.                *)
THEOREM Joined == Spec => []JoinedIsOver
<1>1. IInv => JoinedIsOver
  BY DEF IInv, Lifecycle, JoinedIsOver
<1> QED BY <1>1, Invariance, PTL

(* No request is swallowed by a server that is being terminated.           *)
THEOREM RequestsServed == Spec => []TakenIsServed
<1>1. IInv => TakenIsServed
  BY DEF IInv, ServerHasRequest, TakenIsServed
<1> QED BY <1>1, Invariance, PTL

(* After a quit() that returned, no thread of the client is left.          *)
THEOREM QuitLeavesNothing == Spec => []QuitStopsAll
<1>1. IInv => QuitStopsAll
  BY WorkerFields DEF IInv, QuitProgress, Lifecycle, QuitStopsAll
<1> QED BY <1>1, Invariance, PTL

(* A client destroyed after a quit() that returned does not terminate the  *)
(* process.                                                                *)
THEOREM DestroyAfterQuit == Spec => []NoTerminateAfterQuit
<1>1. IInv => NoTerminateAfterQuit
  BY DEF IInv
<1> QED BY <1>1, Invariance, PTL

-----------------------------------------------------------------------------
(* The client implements WorkerPool.                                       *)

Phases == [w \in Workers |-> Phase(w)]
Inside == {w \in Workers : InCritical(w)}

(* A step that moves one worker, and no thread in or out of a callback.    *)
LEMMA PhaseMoves ==
    ASSUME NEW w \in Workers, Inside' = Inside,
           \A v \in Workers \ {w} : thread_space'[v] = thread_space[v]
                                    /\ (pc'[v] = "done" <=> pc[v] = "done")
    PROVE  /\ Phases' = [Phases EXCEPT ![w] = Phase(w)']
           /\ Phases[w] = Phase(w)
BY DEF Phases, Phase

(* A step that leaves the mapped state alone.                              *)
LEMMA PhaseStays ==
    ASSUME thread_space' = thread_space,
           \A v \in Workers : pc'[v] = "done" <=> pc[v] = "done"
    PROVE  Phases' = Phases
BY DEF Phases, Phase

LEMMA SpawnStarts ==
    ASSUME IInv, NEW w \in Workers, Spawn(w)
    PROVE  Pool!Start(w)
<1> USE DEF IInv, TypeOK, Spawn, GoTo
<1>1. Inside' = Inside
  BY DEF Inside, InCritical, Lifecycle
<1>2. Phase(w) = "off" /\ Phase(w)' = "live"
  BY DEF Phase
<1>3. \A v \in Workers \ {w} : thread_space'[v] = thread_space[v]
                               /\ (pc'[v] = "done" <=> pc[v] = "done")
  OBVIOUS
<1> QED BY <1>1, <1>2, <1>3, PhaseMoves
        DEF Pool!Start, Pool!Moves, Phases, Inside

LEMMA SignalStops ==
    ASSUME IInv, NEW w \in Workers, Signal(w), UNCHANGED threadVars,
           thread_space[w] = "running"
    PROVE  Pool!Stop(w)
<1> USE DEF IInv, TypeOK, Signal, threadVars
<1>1. Inside' = Inside
  BY DEF Inside, InCritical
<1>2. Phase(w) = "live" /\ Phase(w)' = "stopping"
  BY DEF Phase, Lifecycle
<1>3. \A v \in Workers \ {w} : thread_space'[v] = thread_space[v]
                               /\ (pc'[v] = "done" <=> pc[v] = "done")
  OBVIOUS
<1> QED BY <1>1, <1>2, <1>3, PhaseMoves
        DEF Pool!Stop, Pool!Moves, Phases, Inside

LEMMA JoinJoins ==
    ASSUME IInv, NEW c \in Clients, JoinReturns(c)
    PROVE  Pool!Join(joining[c])
<1> DEFINE w == joining[c]
<1> USE DEF IInv, TypeOK, JoinReturns, ThreadEnded, threadVars
<1>1. w \in Workers
  OBVIOUS
<1>2. Inside' = Inside
  BY DEF Inside, InCritical
<1>3. /\ thread_space[w] = "signalled" /\ pc[w] = "done"
      /\ thread_space'[w] = "joined"
  BY <1>1 DEF JoinTarget
<1>4. \A v \in Workers \ {w} : thread_space'[v] = thread_space[v]
                               /\ (pc'[v] = "done" <=> pc[v] = "done")
  OBVIOUS
<1>5. Phases' = [Phases EXCEPT ![w] = "joined"] /\ Phases[w] = "ended"
  BY <1>1, <1>2, <1>3, <1>4 DEF Phases, Phase
<1> QED BY <1>1, <1>2, <1>5 DEF Pool!Join, Pool!Moves, Phases, Inside

LEMMA ExitEnds ==
    ASSUME IInv, NEW w \in Workers, ThreadExits(w)
    PROVE  Pool!End(w)
<1> USE DEF IInv, TypeOK, ThreadExits, GoTo, At, clientVars
<1>1. Inside' = Inside /\ w \notin Inside
  BY DEF Inside, InCritical
<1>2. Phase(w) = "stopping" /\ Phase(w)' = "ended"
  BY DEF Phase
<1>3. \A v \in Workers \ {w} : thread_space'[v] = thread_space[v]
                               /\ (pc'[v] = "done" <=> pc[v] = "done")
  OBVIOUS
<1> QED BY <1>1, <1>2, <1>3, PhaseMoves
        DEF Pool!End, Pool!Moves, Phases, Inside

LEMMA LockEnters ==
    ASSUME IInv, NEW w \in Workers, AcquireLock(w)
    PROVE  Pool!Enter(w)
<1> USE DEF IInv, TypeOK, AcquireLock, GoTo, At, clientVars
<1>1. Inside = {} /\ Inside' = {w}
  BY NoWorkerAssumption DEF Inside, InCritical, HolderInside
<1>2. Phases' = Phases
  BY PhaseStays
<1>3. Phase(w) \in {"live", "stopping"}
  BY DEF Phase, Lifecycle, EntryStates
<1> QED BY <1>1, <1>2, <1>3 DEF Pool!Enter, Phases, Inside

LEMMA UnlockLeaves ==
    ASSUME IInv, NEW w \in Workers,
           \/ SubscriberCallback(w) \/ SendReply(w)
           \/ SleepEnds(w) /\ IsRequester(w)
    PROVE  Pool!Leave(w)
<1> USE OneKind DEF IInv, TypeOK, SubscriberCallback, SendReply, SleepEnds,
        GoTo, At, clientVars
<1>1. Inside = {w} /\ Inside' = {}
  BY DEF Inside, InCritical, HolderInside
<1>2. Phases' = Phases
  BY PhaseStays
<1> QED BY <1>1, <1>2 DEF Pool!Leave, Phases, Inside

(* The other steps of a thread do not show.                                *)
LEMMA OtherStutters ==
    ASSUME IInv, NEW w \in Workers,
           \/ Attach(w) \/ NextRound(w) \/ PollTimeout(w) \/ Receive(w)
           \/ (\E r \in Workers : ReceiveRequest(w, r))
           \/ PublishData(w) \/ SendRequest(w) \/ RecvReply(w)
           \/ RequesterCallback(w) \/ ServerCallback(w)
           \/ SleepEnds(w) /\ ~IsRequester(w)
           \/ ContextTerminated(w) \/ ExternalReply(w)
    PROVE  UNCHANGED <<Phases, Inside>>
<1> USE OneKind DEF IInv, TypeOK, GoTo, At, clientVars, threadVars
<1>1. thread_space' = thread_space
  BY ThreadsKeepClient DEF ThreadStep
<1>2. \A v \in Workers : pc'[v] = "done" <=> pc[v] = "done"
  BY DEF Attach, NextRound, PollTimeout, Receive, ReceiveRequest,
         PublishData, SendRequest, RecvReply, RequesterCallback,
         ServerCallback, SleepEnds, ContextTerminated, ExternalReply
<1>3. \A v \in Workers : InCritical(v)' <=> InCritical(v)
  BY DEF InCritical, Attach, NextRound, PollTimeout, Receive, ReceiveRequest,
         PublishData, SendRequest, RecvReply, RequesterCallback,
         ServerCallback, SleepEnds, ContextTerminated, ExternalReply
<1> QED BY <1>1, <1>2, <1>3, PhaseStays DEF Inside

(* The calls of the application: a start, a stop, a join, or nothing.      *)
LEMMA ApplicationImplements ==
    ASSUME IInv, NEW c \in Clients, Application(c)
    PROVE  Pool!Next \/ UNCHANGED <<Phases, Inside>>
<1> USE DEF Pool!Next
<1>0. ASSUME UNCHANGED <<thread_space, pc>>
      PROVE  UNCHANGED <<Phases, Inside>>
  BY <1>0 DEF Phases, Inside, Phase, InCritical
<1>1. ASSUME NEW a \in Keys, NEW t \in Topics, Subscribe(c, a, t)
      PROVE  Pool!Next \/ UNCHANGED <<Phases, Inside>>
  BY <1>0, <1>1, SpawnStarts DEF Subscribe, AlreadyExists, threadVars
<1>2. ASSUME NEW k \in Kinds, NEW ref \in Keys \cup Topics, Cancel(c, k, ref)
      PROVE  Pool!Next \/ UNCHANGED <<Phases, Inside>>
  <2> DEFINE w == Handle(c, k, ref)
  <2>1. CASE UNCHANGED thread_space
    BY <1>0, <1>2, <2>1 DEF Cancel, threadVars
  <2>2. CASE w \in Workers /\ Signal(w) /\ thread_space[w] = "running"
    BY <1>2, <2>2, SignalStops DEF Cancel
  <2> QED BY <1>2, <2>1, <2>2
          DEF Cancel, Throws, IInv, TypeOK, EntryStates
<1>3. CASE QuitStep(c)
  <2>1. CASE UNCHANGED thread_space
    BY <1>0, <1>3, <2>1 DEF QuitStep, threadVars
  <2>2. CASE \E w \in todo[c] : ~Throws(w) /\ Signal(w)
    <3> PICK w \in todo[c] : ~Throws(w) /\ Signal(w)
        BY <2>2
    <3>1. w \in Workers /\ thread_space[w] = "running"
      BY DEF IInv, TypeOK, QuitProgress, Throws, EntryStates
    <3> QED BY <1>3, <3>1, SignalStops DEF QuitStep
  <2> QED BY <1>3, <2>1, <2>2 DEF QuitStep
<1>4. CASE JoinReturns(c)
  BY <1>4, JoinJoins DEF JoinReturns, IInv, TypeOK
<1>5. CASE Quit(c) \/ Destroy(c) \/ ContextCloses(c)
  BY <1>0, <1>5 DEF Quit, Destroy, ContextCloses, threadVars
<1> QED BY <1>1, <1>2, <1>3, <1>4, <1>5 DEF Application

LEMMA StepImplements ==
    ASSUME IInv, [Next]_vars
    PROVE  Pool!Next \/ UNCHANGED <<Phases, Inside>>
<1>1. ASSUME NEW w \in Workers, Starts(w)
      PROVE  Pool!Next \/ UNCHANGED <<Phases, Inside>>
  <2>1. CASE Spawn(w)
    BY <2>1, SpawnStarts DEF Pool!Next
  <2>2. CASE UNCHANGED <<thread_space, pc>>
    BY <2>2 DEF Phases, Inside, Phase, InCritical
  <2> QED BY <1>1, <2>1, <2>2, StartsSpawns DEF AlreadyExists, threadVars
<1>2. ASSUME NEW w \in Workers,
             \/ ThreadStep(w) \/ AcquireLock(w) \/ ContextTerminated(w)
             \/ ExternalReply(w)
      PROVE  Pool!Next \/ UNCHANGED <<Phases, Inside>>
  BY <1>2, ExitEnds, LockEnters, UnlockLeaves, OtherStutters
  DEF ThreadStep, Pool!Next
<1>3. CASE UNCHANGED vars
  BY <1>3 DEF vars, clientVars, threadVars, Phases, Inside, Phase, InCritical
<1> QED BY <1>1, <1>2, <1>3, ApplicationImplements DEF Next

(* Every behaviour of the client is a behaviour of the abstract pool.      *)
THEOREM Refinement == Spec => PoolSpec
<1>1. Init => Pool!Init
  BY DEF Init, Pool!Init, Phase, InCritical
<1>2. IInv /\ [Next]_vars => [Pool!Next]_<<Phases, Inside>>
  BY StepImplements
<1>3. IInv /\ [Next]_vars => [Pool!Next]_(Pool!poolVars)
  BY <1>2 DEF Pool!poolVars, Phases, Inside
<1> QED BY <1>1, <1>3, Invariance, PTL DEF Spec, PoolSpec, Pool!Spec
=============================================================================

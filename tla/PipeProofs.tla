----------------------------- MODULE PipeProofs -----------------------------
(***************************************************************************)
(* Proofs about Proxy and Pipe, for any proxies, callers and signals, any  *)
(* number of messages and calls, and any number of interrupts.             *)
(***************************************************************************)
EXTENDS Pipe, SequenceTheorems, TLAPS

USE DEF Threads, Alive, flagVars, socketVars, threadVars, pipeVars, Step

InLoop == LoopPCs \cup SpinPCs

PCs == {"none", "done"} \cup InLoop \cup CallerPCs

-----------------------------------------------------------------------------
(* What the steps of a loop and of a call do to the places where threads   *)
(* stand.                                                                  *)

PlaceTypes ==
    /\ pc \in [Threads -> PCs]
    /\ target \in [Threads -> Proxies]
    /\ owned \in {{}, Owned}

\* A thread moves and no other.
Moves(t, from, to) ==
    /\ Alive
    /\ pc[t] \in from
    /\ pc'[t] \in to
    /\ pc' = [pc EXCEPT ![t] = pc'[t]]

\* A loop goes on, or ends: on the thread of a proxy it ends for good.
LEMMA LoopMoves ==
    ASSUME NEW t \in Threads, LoopStep(t) \/ BindFails(t), PlaceTypes
    PROVE  /\ Moves(t, InLoop, InLoop \cup {IF t \in Callers THEN "idle" ELSE "done"})
           /\ UNCHANGED <<target, calls>>
           /\ process' \in {"alive", "aborted"}
<1> USE DEF Moves, InLoop, LoopPCs, SpinPCs, PlaceTypes
<1>1. CASE Enter(t)
  BY <1>1 DEF Enter
<1>2. CASE Bind(t) \/ BindFails(t)
  BY <1>2 DEF Bind, BindFails
<1>3. CASE Test(t)
  <2> DEFINE to == CASE ~paused[target[t]] /\ running[target[t]] -> "lock"
                     [] t \in Callers -> "idle"
                     [] OTHER -> "done"
  <2>1. /\ pc[t] = "test" /\ pc' = [pc EXCEPT ![t] = to]
        /\ UNCHANGED <<process, target, calls>>
        /\ Alive
    BY <1>3 DEF Test
  <2>2. to \in {"lock"} \cup {IF t \in Callers THEN "idle" ELSE "done"}
    OBVIOUS
  <2> HIDE DEF to
  <2> QED BY <2>1, <2>2
<1>4. CASE AcquireLocker(t) \/ ReleaseLocker(t)
  BY <1>4 DEF AcquireLocker, ReleaseLocker
<1>5. CASE Poll(t) \/ ChooseFilters(t) \/ Convert(t)
  BY <1>5 DEF Poll, ChooseFilters, Convert
<1>6. CASE Receive(t)
  BY <1>6 DEF Receive
<1>7. CASE Send(t) \/ SendBack(t)
  BY <1>7 DEF Send, SendBack
<1> QED BY <1>1, <1>2, <1>3, <1>4, <1>5, <1>6, <1>7 DEF LoopStep

\* A call of a proxy.
CallPCs == {"idle", "kill", "pause", "unpause", "push", "pushed"}

LEMMA CallMoves ==
    ASSUME NEW c \in Callers, CallStep(c), PlaceTypes
    PROVE  /\ Moves(c, CallPCs, CallPCs)
           /\ UNCHANGED <<target, locker>>
           /\ process' \in {"alive", "aborted"}
<1> USE DEF Moves, CallPCs, PlaceTypes
<1>1. CASE KillEnds(c)
  BY <1>1 DEF KillEnds
<1>2. CASE PauseEnds(c) \/ PauseReturns(c)
  BY <1>2 DEF PauseEnds, PauseReturns
<1>3. CASE PushFilter(c)
  BY <1>3 DEF PushFilter
<1>4. CASE FilterAdded(c)
  BY <1>4 DEF FilterAdded
<1> QED BY <1>1, <1>2, <1>3, <1>4 DEF CallStep

\* A call begins: add_filter(), a signal or its registration.
Begins(c, p) ==
    \/ AddFilter(c, p)
    \/ \E s \in Signals : Signal(c, p, s) \/ RegisterSignal(c, p, s)

LEMMA BeginMoves ==
    ASSUME NEW c \in Callers, NEW p \in Proxies, Begins(c, p), PlaceTypes
    PROVE  /\ Moves(c, {"idle"}, {"idle", "kill", "enter", "pause", "push"})
           /\ target' = [target EXCEPT ![c] = p]
           /\ UNCHANGED <<process, locker>>
<1> USE DEF Moves, PlaceTypes, Call
<1>1. CASE AddFilter(c, p)
  BY <1>1 DEF AddFilter
<1>2. ASSUME NEW s \in Signals, Signal(c, p, s)
      PROVE  /\ Moves(c, {"idle"}, {"idle", "kill", "enter", "pause", "push"})
             /\ target' = [target EXCEPT ![c] = p]
             /\ UNCHANGED <<process, locker>>
  BY <1>2 DEF Signal
<1>3. ASSUME NEW s \in Signals, RegisterSignal(c, p, s)
      PROVE  /\ Moves(c, {"idle"}, {"idle", "kill", "enter", "pause", "push"})
             /\ target' = [target EXCEPT ![c] = p]
             /\ UNCHANGED <<process, locker>>
  BY <1>3 DEF RegisterSignal
<1> QED BY <1>1, <1>2, <1>3 DEF Begins

\* The steps of main() in a program with a pipe, and those of the peers.
PipeStep ==
    \/ \E p \in Proxies : Create(p) \/ CallUnknown(p)
    \/ StopPipe \/ Interrupt \/ MainStep

LEMMA MainIsThread ==
    /\ Main \in Callers /\ Main \in Threads /\ Main \notin Proxies
    /\ \A p \in Proxies : p \in Threads /\ p \notin Callers
    /\ \A c \in Callers : c \in Threads
    /\ NoThread \notin Threads
BY PipeAssumption, ThreadsAssumption

\* A thread that main() leaves alone or starts.
StaysOut(t) ==
    \/ pc'[t] = pc[t] /\ target'[t] = target[t]
    \/ pc'[t] \notin SpinPCs

LEMMA PipeMoves ==
    ASSUME PipeStep, PlaceTypes
    PROVE  /\ PlaceTypes'
           /\ \A t \in Threads : StaysOut(t)
           /\ UNCHANGED <<locker, owned>>
<1> USE MainIsThread DEF PlaceTypes, StaysOut, SpinPCs, PCs, CallerPCs, InLoop, LoopPCs
<1>1. CASE \E p \in Proxies : Create(p) \/ CallUnknown(p)
  BY <1>1 DEF Create, CallUnknown
<1>2. CASE StopPipe \/ Interrupt
  BY <1>2 DEF StopPipe, Interrupt, StopAll
<1>3. CASE InsertProxy \/ StoreProxyThread
  BY <1>3 DEF InsertProxy, StoreProxyThread
<1>6. CASE StartProxyThread
  <2>1. target[Main] \in Proxies
    OBVIOUS
  <2>2. /\ pc' = [pc EXCEPT ![target[Main]] = "enter"]
        /\ target' = target
        /\ UNCHANGED <<locker, owned>>
    BY <1>6 DEF StartProxyThread
  <2> QED BY <2>1, <2>2
<1>4. CASE JoinProxy \/ Exit
  BY <1>4 DEF JoinProxy, Exit
<1>5. CASE \E p \in Proxies : StopProxy(p)
  BY <1>5 DEF StopProxy
<1> QED BY <1>1, <1>2, <1>3, <1>4, <1>5, <1>6 DEF PipeStep, MainStep

\* Who takes a step of the whole.
LEMMA Movers ==
    ASSUME [Next]_vars, owned \in {{}, Owned}
    PROVE  \/ \E t \in Threads : (LoopStep(t) \/ BindFails(t)) /\ UNCHANGED pipeVars
           \/ \E c \in Callers : CallStep(c) /\ UNCHANGED pipeVars
           \/ \E c \in Callers, p \in Proxies : Begins(c, p) /\ UNCHANGED pipeVars
           \/ PipeStep
           \/ UNCHANGED <<process, locker, threadVars, calls, pipeVars>>
<1>1. CASE \E p \in Proxies : Peers(p) /\ UNCHANGED pipeVars
  BY <1>1 DEF Peers, Arrive, Serve, Reconnect
<1>2. CASE UNCHANGED vars
  BY <1>2 DEF vars, proxyVars
<1>3. CASE \E c \in Callers : DirectCall(c)
  <2>1. PICK c \in Callers : DirectCall(c)
    BY <1>3
  <2>2. PICK p \in owned : Begins(c, p) /\ UNCHANGED pipeVars
    BY <2>1 DEF DirectCall, Begins
  <2>3. p \in Proxies
    BY <2>2, PipeAssumption
  <2> QED BY <2>2, <2>3
<1>4. CASE \E p \in Proxies : SetFilter(p)
  BY <1>4, MainIsThread DEF SetFilter, Begins
<1> QED BY <1>1, <1>2, <1>3, <1>4 DEF Next, PipeStep

LEMMA InitPlaces == Init => PlaceTypes
<1> SUFFICES ASSUME Init PROVE PlaceTypes
    OBVIOUS
<1>1. PICK spawned : ProxyInit(spawned)
  BY DEF Init
<1>2. pc \in [Threads -> PCs]
  BY <1>1 DEF ProxyInit, PCs, InLoop, LoopPCs, CallerPCs
<1>3. (CHOOSE p \in Proxies : TRUE) \in Proxies
  BY PubSubAssumption
<1>4. target \in [Threads -> Proxies]
  BY <1>1, <1>3 DEF ProxyInit
<1> QED BY <1>2, <1>4 DEF PlaceTypes, Init

LEMMA StepPlaces ==
    ASSUME PlaceTypes, [Next]_vars
    PROVE  PlaceTypes'
<1> USE DEF PlaceTypes
<1>1. CASE \E t \in Threads : (LoopStep(t) \/ BindFails(t)) /\ UNCHANGED pipeVars
  <2>1. PICK t \in Threads : (LoopStep(t) \/ BindFails(t)) /\ UNCHANGED pipeVars
    BY <1>1
  <2>2. /\ Moves(t, InLoop, InLoop \cup {IF t \in Callers THEN "idle" ELSE "done"})
        /\ UNCHANGED target
    BY <2>1, LoopMoves
  <2> QED BY <2>1, <2>2 DEF Moves, PCs, CallerPCs
<1>2. CASE \E c \in Callers : CallStep(c) /\ UNCHANGED pipeVars
  <2>1. PICK c \in Callers : CallStep(c) /\ UNCHANGED pipeVars
    BY <1>2
  <2>2. Moves(c, CallPCs, CallPCs) /\ UNCHANGED target
    BY <2>1, CallMoves
  <2> QED BY <2>1, <2>2 DEF Moves, PCs, CallPCs, CallerPCs
<1>3. CASE \E c \in Callers, p \in Proxies : Begins(c, p) /\ UNCHANGED pipeVars
  <2>1. PICK c \in Callers, p \in Proxies : Begins(c, p) /\ UNCHANGED pipeVars
    BY <1>3
  <2>2. /\ Moves(c, {"idle"}, {"idle", "kill", "enter", "pause", "push"})
        /\ target' = [target EXCEPT ![c] = p]
    BY <2>1, BeginMoves
  <2> QED BY <2>1, <2>2 DEF Moves, PCs, CallerPCs, InLoop, LoopPCs
<1>4. CASE PipeStep
  BY <1>4, PipeMoves
<1>5. CASE UNCHANGED <<process, locker, threadVars, calls, pipeVars>>
  BY <1>5
<1> QED BY <1>1, <1>2, <1>3, <1>4, <1>5, Movers

-----------------------------------------------------------------------------
(* Two threads are never inside __spin__() of one proxy.                   *)

LockerTypes == locker \in [Proxies -> Threads \cup {NoThread}]

\* What a step of a loop does to the locker: it takes it to enter __spin__(),
\* gives it back to leave, and does neither in between.
LEMMA LoopLocks ==
    ASSUME NEW t \in Threads, LoopStep(t) \/ BindFails(t), PlaceTypes, LockerTypes
    PROVE  \/ /\ locker[target[t]] = NoThread
              /\ locker' = [locker EXCEPT ![target[t]] = t]
           \/ /\ pc[t] \in SpinPCs /\ pc'[t] \notin SpinPCs
              /\ locker' = [locker EXCEPT ![target[t]] = NoThread]
           \/ /\ locker' = locker
              /\ pc'[t] \in SpinPCs => pc[t] \in SpinPCs
<1> USE DEF PlaceTypes, LockerTypes, SpinPCs
<1>1. CASE AcquireLocker(t)
  BY <1>1 DEF AcquireLocker
<1>2. CASE ReleaseLocker(t)
  BY <1>2 DEF ReleaseLocker
<1>3. CASE Enter(t) \/ Bind(t) \/ BindFails(t)
  BY <1>3 DEF Enter, Bind, BindFails
<1>4. CASE Test(t)
  <2>1. locker' = locker /\ pc'[t] \in {"lock", "idle", "done"}
    BY <1>4 DEF Test
  <2> QED BY <2>1
<1>5. CASE Poll(t) \/ ChooseFilters(t) \/ Convert(t)
  BY <1>5 DEF Poll, ChooseFilters, Convert
<1>6. CASE Receive(t)
  BY <1>6 DEF Receive
<1>7. CASE Send(t) \/ SendBack(t)
  BY <1>7 DEF Send, SendBack
<1> QED BY <1>1, <1>2, <1>3, <1>4, <1>5, <1>6, <1>7 DEF LoopStep

\* A thread inside __spin__() is the one that holds the locker of the proxy.
SpinnerHolds ==
    \A t \in Threads, p \in Proxies : InSpin(t, p) => locker[p] = t

SpinInv == PlaceTypes /\ LockerTypes /\ SpinnerHolds

LEMMA InitSpin == Init => SpinInv
<1> SUFFICES ASSUME Init PROVE SpinInv
    OBVIOUS
<1>1. PICK spawned : ProxyInit(spawned)
  BY DEF Init
<1>2. LockerTypes
  BY <1>1 DEF ProxyInit, LockerTypes
<1>3. \A t \in Threads : pc[t] \in {"idle", "enter", "none"}
  BY <1>1 DEF ProxyInit
<1>4. SpinnerHolds
  BY <1>3 DEF SpinnerHolds, InSpin, SpinPCs
<1> QED BY <1>2, <1>4, InitPlaces DEF SpinInv

LEMMA StepSpin ==
    ASSUME SpinInv, [Next]_vars
    PROVE  SpinInv'
<1>1. PlaceTypes /\ LockerTypes /\ SpinnerHolds /\ PlaceTypes'
  BY StepPlaces DEF SpinInv
<1>2. CASE \E t \in Threads : (LoopStep(t) \/ BindFails(t)) /\ UNCHANGED pipeVars
  <2>1. PICK t \in Threads : LoopStep(t) \/ BindFails(t)
    BY <1>2
  <2>2. /\ pc' = [pc EXCEPT ![t] = pc'[t]] /\ target' = target
        /\ target[t] \in Proxies
    BY <2>1, <1>1, LoopMoves DEF Moves, PlaceTypes
  <2>3. \A u \in Threads : u # t => pc'[u] = pc[u]
    BY <2>2, <1>1 DEF PlaceTypes
  <2>4. LockerTypes'
    BY <2>1, <2>2, <1>1, LoopLocks DEF LockerTypes
  <2>5. ASSUME NEW u \in Threads, NEW p \in Proxies, InSpin(u, p)'
        PROVE  locker'[p] = u
    <3>1. CASE /\ locker[target[t]] = NoThread
               /\ locker' = [locker EXCEPT ![target[t]] = t]
      <4>1. u # t => locker[p] = u
        BY <2>2, <2>3, <2>5, <1>1 DEF InSpin, SpinnerHolds
      <4>2. u = t => p = target[t]
        BY <2>2, <2>5 DEF InSpin
      <4> QED BY <3>1, <4>1, <4>2, <1>1, MainIsThread DEF LockerTypes
    <3>2. CASE /\ pc[t] \in SpinPCs /\ pc'[t] \notin SpinPCs
               /\ locker' = [locker EXCEPT ![target[t]] = NoThread]
      <4>1. u # t /\ InSpin(u, p) /\ InSpin(t, target[t])
        BY <3>2, <2>2, <2>3, <2>5 DEF InSpin
      <4>2. locker[p] = u /\ locker[target[t]] = t
        BY <4>1, <2>2, <1>1 DEF SpinnerHolds
      <4> QED BY <3>2, <4>1, <4>2, <1>1 DEF LockerTypes
    <3>3. CASE /\ locker' = locker
               /\ pc'[t] \in SpinPCs => pc[t] \in SpinPCs
      <4>1. InSpin(u, p)
        BY <3>3, <2>2, <2>3, <2>5 DEF InSpin
      <4> QED BY <3>3, <4>1, <1>1 DEF SpinnerHolds
    <3> QED BY <3>1, <3>2, <3>3, <2>1, <1>1, LoopLocks
  <2> QED BY <1>1, <2>4, <2>5 DEF SpinInv, SpinnerHolds
<1>3. ASSUME /\ UNCHANGED locker
             /\ \A t \in Threads : StaysOut(t)
      PROVE  SpinInv'
  BY <1>1, <1>3 DEF SpinInv, LockerTypes, SpinnerHolds, InSpin, StaysOut
<1>4. CASE \E c \in Callers : CallStep(c) /\ UNCHANGED pipeVars
  <2>1. PICK c \in Callers : CallStep(c)
    BY <1>4
  <2>2. Moves(c, CallPCs, CallPCs) /\ UNCHANGED <<target, locker>>
    BY <2>1, <1>1, CallMoves
  <2>3. \A t \in Threads : StaysOut(t)
    BY <2>2, <1>1 DEF Moves, CallPCs, StaysOut, SpinPCs, PlaceTypes
  <2> QED BY <2>2, <2>3, <1>3
<1>5. CASE \E c \in Callers, p \in Proxies : Begins(c, p) /\ UNCHANGED pipeVars
  <2>1. PICK c \in Callers, p \in Proxies : Begins(c, p)
    BY <1>5
  <2>2. /\ Moves(c, {"idle"}, {"idle", "kill", "enter", "pause", "push"})
        /\ target' = [target EXCEPT ![c] = p] /\ UNCHANGED locker
    BY <2>1, <1>1, BeginMoves
  <2>3. \A t \in Threads : StaysOut(t)
    BY <2>2, <1>1 DEF Moves, StaysOut, SpinPCs, PlaceTypes
  <2> QED BY <2>2, <2>3, <1>3
<1>6. CASE PipeStep
  BY <1>6, <1>1, <1>3, PipeMoves
<1>7. CASE UNCHANGED <<process, locker, threadVars, calls, pipeVars>>
  BY <1>7, <1>3 DEF StaysOut
<1> QED BY <1>1, <1>2, <1>4, <1>5, <1>6, <1>7, Movers DEF PlaceTypes

\* However many threads run start() on one proxy, two are never inside
\* __spin__() together. (__start__() replaces the sockets without the lock.)
THEOREM OneThreadSpins == Spec => []SpinExclusive
<1>1. SpinInv /\ [Next]_vars => SpinInv'
  BY StepSpin
<1>2. SpinInv => SpinExclusive
  BY DEF SpinInv, SpinnerHolds, SpinExclusive
<1> QED BY <1>1, <1>2, InitSpin, PTL DEF Spec

-----------------------------------------------------------------------------
(* stop() of the pipe leaves no thread of a proxy behind.                  *)

\* The entry knows no thread yet.
Unstored(p) == table[p] \in {"empty", "inserted"}

\* A thread of a proxy that runs is in the table; stop() has it before it, or
\* joins it; and only a program with a pipe is ever about to stop one.
Tracked ==
    /\ owned = {} => \A p \in Proxies : Running(p) => table[p] \in {"inserted", "spawned"}
    /\ Alive /\ pc[Main] = "stopping" =>
           \A p \in Proxies : table[p] = "spawned" => p \in todo
    /\ Alive /\ pc[Main] = "joining" =>
           \A p \in Proxies : table[p] = "spawned" => p \in todo \cup {target[Main]}
    /\ owned # {} => pc[Main] \notin {"create", "stopping", "joining"}

\* main() makes one proxy at a time, and only a signal keeps it from storing
\* the thread.
OneUnstored ==
    /\ \A p \in Proxies : Unstored(p) =>
          \/ pc[Main] = "create" /\ target[Main] = p
          \/ pc[Main] \in {"stopping", "joining"} /\ interrupts > 0
    /\ \A p, q \in Proxies : Unstored(p) /\ Unstored(q) => p = q

ExitInv ==
    /\ PlaceTypes
    /\ table \in [Proxies -> EntryStates]
    /\ process \in {"alive", "exited", "aborted"}
    /\ interrupts \in Nat
    /\ Tracked /\ OneUnstored
    /\ ExitIsClean

LEMMA InitExit == Init => ExitInv
<1> SUFFICES ASSUME Init PROVE ExitInv
    OBVIOUS
<1>1. ProxyInit(owned)
  <2>1. CASE owned = {}
    BY <2>1 DEF Init
  <2>2. CASE owned = Owned
    BY <2>2 DEF Init
  <2> QED BY <2>1, <2>2 DEF Init
<1>0. /\ process = "alive"
      /\ pc = [t \in Threads |-> CASE t \in Callers -> "idle"
                                  [] t \in owned -> "enter"
                                  [] OTHER -> "none"]
  BY <1>1 DEF ProxyInit
<1>2. process = "alive" /\ pc[Main] = "idle"
  <2>1. Main \in Threads /\ Main \in Callers /\ Main \notin owned
    BY MainIsThread, PipeAssumption DEF Init
  <2>2. pc[Main] = CASE Main \in Callers -> "idle"
                     [] Main \in owned -> "enter"
                     [] OTHER -> "none"
    BY <2>1, <1>0
  <2> QED BY <2>1, <2>2, <1>0
<1>3. owned = {} => \A p \in Proxies : pc[p] = "none"
  BY <1>0, MainIsThread
<1>4. table \in [Proxies -> EntryStates] /\ OneUnstored /\ interrupts \in Nat
  BY DEF Init, EntryStates, OneUnstored, Unstored
<1>5. Tracked
  BY <1>2, <1>3 DEF Tracked, Running
<1> QED BY <1>2, <1>4, <1>5, InitPlaces DEF ExitInv, ExitIsClean

\* A step in which one thread moves, not to a place where main() stops the
\* pipe, and which starts no thread of a proxy.
LEMMA OneMoves ==
    ASSUME ExitInv, PlaceTypes', NEW t \in Threads,
           Moves(t, PCs \ {"none", "done", "create", "stopping", "joining"},
                 PCs \ {"create", "stopping", "joining"}),
           t # Main => target'[Main] = target[Main],
           process' \in {"alive", "aborted"}, UNCHANGED pipeVars
    PROVE  ExitInv'
<1>1. /\ PlaceTypes /\ Alive /\ table' = table /\ owned' = owned /\ todo' = todo
      /\ \A u \in Threads : u # t => pc'[u] = pc[u]
      /\ pc[t] \notin {"none", "done", "create", "stopping", "joining"}
      /\ pc'[t] \notin {"create", "stopping", "joining"} /\ interrupts' = interrupts
  BY DEF ExitInv, Moves, PlaceTypes
<1>2. \A p \in Proxies : Running(p)' => Running(p)
  BY <1>1, MainIsThread DEF Running
<1>3. pc'[Main] \in {"stopping", "joining", "create"} =>
          pc'[Main] = pc[Main] /\ target'[Main] = target[Main]
  BY <1>1, MainIsThread
<1>5. (owned = {} => \A p \in Proxies :
           Running(p) => table[p] \in {"inserted", "spawned"})'
  BY <1>1, <1>2 DEF ExitInv, Tracked
<1>6. (owned # {} => pc[Main] \notin {"create", "stopping", "joining"})'
  BY <1>1, <1>3 DEF ExitInv, Tracked
<1>7. ASSUME pc'[Main] = "stopping"
      PROVE  \A p \in Proxies : table'[p] = "spawned" => p \in todo'
  BY <1>1, <1>3, <1>7 DEF ExitInv, Tracked
<1>8. ASSUME pc'[Main] = "joining"
      PROVE  \A p \in Proxies : table'[p] = "spawned" =>
                 p \in todo' \cup {target'[Main]}
  BY <1>1, <1>3, <1>8 DEF ExitInv, Tracked
<1>9. Tracked'
  BY <1>5, <1>6, <1>7, <1>8 DEF Tracked
<1>10. OneUnstored'
  <2>1. pc[Main] \in {"create", "stopping", "joining"} =>
            pc'[Main] = pc[Main] /\ target'[Main] = target[Main]
    BY <1>1, MainIsThread
  <2> QED BY <2>1, <1>1 DEF ExitInv, OneUnstored, Unstored
<1> QED BY <1>1, <1>9, <1>10 DEF ExitInv, ExitIsClean

\* No step ends the process but that of main() in stop().
LEMMA PipeExit ==
    ASSUME ExitInv, PlaceTypes', PipeStep
    PROVE  ExitInv'
<1> DEFINE q == target[Main]
           Known(r) == Running(r)' => table'[r] \in {"inserted", "spawned"}
<1>1. /\ PlaceTypes /\ table \in [Proxies -> EntryStates] /\ interrupts \in Nat
      /\ Tracked /\ OneUnstored /\ ExitIsClean /\ q \in Proxies
  BY MainIsThread DEF ExitInv, PlaceTypes
<1>0. ASSUME /\ process' \in {"alive", "aborted"} /\ owned = {} /\ owned' = owned
             /\ table' \in [Proxies -> EntryStates] /\ interrupts' \in Nat
             /\ \A r \in Proxies : Known(r)
             /\ process' = "alive" /\ pc'[Main] = "stopping" =>
                    \A r \in Proxies : table'[r] = "spawned" => r \in todo'
             /\ process' = "alive" /\ pc'[Main] = "joining" =>
                    \A r \in Proxies : table'[r] = "spawned" => r \in todo' \cup {target'[Main]}
             /\ OneUnstored'
      PROVE  ExitInv'
  BY <1>0 DEF ExitInv, Tracked, ExitIsClean
<1> USE <1>1, MainIsThread DEF PlaceTypes, EntryStates
<1>2. CASE \E p \in Proxies : Create(p)
  <2>1. PICK p \in Proxies : Create(p)
    BY <1>2
  <2>2. /\ process' = "alive" /\ owned = {} /\ UNCHANGED <<owned, interrupts>>
        /\ pc[Main] = "idle" /\ pc' = [pc EXCEPT ![Main] = "create"]
        /\ target' = [target EXCEPT ![Main] = p]
        /\ table[p] = "absent" /\ table' = [table EXCEPT ![p] = "empty"]
    BY <2>1 DEF Create, HasPipe
  <2>3. \A r \in Proxies : pc'[r] = pc[r]
    BY <2>2
  <2>4. \A r \in Proxies : Known(r)
    BY <2>2, <2>3 DEF Tracked, Running
  <2>5. pc'[Main] = "create" /\ target'[Main] = p
    BY <2>2
  <2>6. OneUnstored'
    <3>1. \A r \in Proxies : ~Unstored(r)
      BY <2>2 DEF OneUnstored
    <3>2. \A r \in Proxies : r # p => table'[r] = table[r]
      BY <2>2
    <3>3. \A r \in Proxies : Unstored(r)' => r = p
      BY <3>1, <3>2 DEF Unstored
    <3> QED BY <3>3, <2>5 DEF OneUnstored
  <2>7. table' \in [Proxies -> EntryStates]
    BY <2>2
  <2> HIDE DEF Known
  <2> QED BY <2>2, <2>4, <2>5, <2>6, <2>7, <1>0
<1>3. CASE \E p \in Proxies : CallUnknown(p)
  <2>1. /\ process' = "aborted" /\ UNCHANGED <<owned, table, todo, target, interrupts>>
        /\ owned = {} /\ pc[Main] = "idle" /\ pc' = [pc EXCEPT ![Main] = "idle"]
    BY <1>3 DEF CallUnknown, HasPipe
  <2>2. \A r \in Proxies : Known(r)
    BY <2>1 DEF Tracked, Running
  <2>3. OneUnstored'
    BY <2>1 DEF OneUnstored, Unstored
  <2> HIDE DEF Known
  <2> QED BY <2>1, <2>2, <2>3, <1>0
<1>4. CASE StopPipe \/ Interrupt
  <2>1. /\ process' = "alive" /\ UNCHANGED <<owned, table, target>>
        /\ owned = {} /\ pc' = [pc EXCEPT ![Main] = "stopping"]
        /\ todo' = {p \in Proxies : table[p] # "absent"}
        /\ \/ pc[Main] = "idle" /\ interrupts' = interrupts
           \/ interrupts' = interrupts + 1
    BY <1>4 DEF StopPipe, Interrupt, StopAll, HasPipe
  <2>2. \A r \in Proxies : Known(r)
    BY <2>1 DEF Tracked, Running
  <2>3. pc'[Main] = "stopping"
    BY <2>1
  <2>4. OneUnstored'
    BY <2>1, <2>3 DEF OneUnstored, Unstored
  <2>5. interrupts' \in Nat
    BY <2>1
  <2> HIDE DEF Known
  <2> QED BY <2>1, <2>2, <2>3, <2>4, <2>5, <1>0
<1>5. CASE InsertProxy
  <2>1. /\ process' = "alive" /\ UNCHANGED <<owned, todo, target, interrupts>>
        /\ pc[Main] = "create" /\ pc' = [pc EXCEPT ![Main] = "create"]
        /\ table[q] = "empty" /\ table' = [table EXCEPT ![q] = "inserted"]
    BY <1>5 DEF InsertProxy
  <2>2. owned = {}
    BY <2>1 DEF Tracked
  <2>3. /\ \A r \in Proxies : r # q => table'[r] = table[r]
        /\ table'[q] = "inserted" /\ pc' = pc
    BY <2>1
  <2>4. \A r \in Proxies : Known(r)
    BY <2>2, <2>3 DEF Tracked, Running
  <2>5. OneUnstored'
    BY <2>1, <2>3 DEF OneUnstored, Unstored
  <2>6. table' \in [Proxies -> EntryStates]
    BY <2>1
  <2> HIDE DEF Known
  <2> QED BY <2>1, <2>2, <2>3, <2>4, <2>5, <2>6, <1>0
<1>9. CASE StartProxyThread
  <2>1. /\ process' = "alive" /\ UNCHANGED <<owned, todo, target, interrupts, table>>
        /\ pc[Main] = "create" /\ pc' = [pc EXCEPT ![q] = "enter"]
        /\ table[q] = "inserted"
    BY <1>9 DEF StartProxyThread
  <2>2. owned = {}
    BY <2>1 DEF Tracked
  <2>3. \A r \in Threads : r # q => pc'[r] = pc[r]
    BY <2>1
  <2>4. \A r \in Proxies : Known(r)
    BY <2>1, <2>2, <2>3 DEF Tracked, Running
  <2>5. pc'[Main] = "create"
    BY <2>1, <2>3
  <2>6. OneUnstored'
    BY <2>1, <2>5 DEF OneUnstored, Unstored
  <2> HIDE DEF Known
  <2> QED BY <2>1, <2>2, <2>4, <2>5, <2>6, <1>0
<1>10. CASE StoreProxyThread
  <2>1. /\ process' = "alive" /\ UNCHANGED <<owned, todo, target, interrupts>>
        /\ pc[Main] = "create" /\ pc' = [pc EXCEPT ![Main] = "idle"]
        /\ table' = [table EXCEPT ![q] = "spawned"]
    BY <1>10 DEF StoreProxyThread
  <2>2. owned = {}
    BY <2>1 DEF Tracked
  <2>3. /\ \A r \in Proxies : r # q => table'[r] = table[r]
        /\ \A r \in Proxies : pc'[r] = pc[r]
        /\ table'[q] = "spawned" /\ pc'[Main] = "idle"
    BY <2>1
  <2>4. \A r \in Proxies : Known(r)
    BY <2>2, <2>3 DEF Tracked, Running
  <2>5. \A r \in Proxies : ~Unstored(r)'
    BY <2>1, <2>3 DEF OneUnstored, Unstored
  <2>6. OneUnstored' /\ table' \in [Proxies -> EntryStates]
    BY <2>1, <2>5 DEF OneUnstored
  <2> HIDE DEF Known
  <2> QED BY <2>1, <2>2, <2>3, <2>4, <2>6, <1>0
<1>6. CASE \E p \in Proxies : StopProxy(p)
  <2>1. PICK p \in Proxies : StopProxy(p)
    BY <1>6
  <2>2. /\ process = "alive" /\ process' \in {"alive", "aborted"}
        /\ UNCHANGED <<owned, table, interrupts>>
        /\ pc[Main] = "stopping" /\ todo' = todo \ {p}
        /\ target' = [target EXCEPT ![Main] = p]
        /\ pc' = [pc EXCEPT ![Main] =
                     IF table[p] = "spawned" THEN "joining" ELSE "stopping"]
    BY <2>1 DEF StopProxy
  <2>3. /\ owned = {}
        /\ \A r \in Proxies : table[r] = "spawned" => r \in todo
    BY <2>2 DEF Tracked
  <2>4. target'[Main] = p /\ \A r \in Proxies : pc'[r] = pc[r]
    BY <2>2
  <2>5. pc'[Main] = IF table[p] = "spawned" THEN "joining" ELSE "stopping"
    BY <2>2
  <2>6. \A r \in Proxies : Known(r)
    BY <2>2, <2>3, <2>4 DEF Tracked, Running
  <2>7. pc'[Main] = "stopping" =>
            \A r \in Proxies : table'[r] = "spawned" => r \in todo'
    BY <2>2, <2>3, <2>5
  <2>8. \A r \in Proxies : table'[r] = "spawned" => r \in todo' \cup {target'[Main]}
    BY <2>2, <2>3, <2>4
  <2>9. OneUnstored'
    BY <2>2, <2>5 DEF OneUnstored, Unstored
  <2> HIDE DEF Known
  <2> QED BY <2>2, <2>3, <2>6, <2>7, <2>8, <2>9, <1>0
<1>7. CASE JoinProxy
  <2>1. /\ process = "alive" /\ pc[Main] = "joining"
        /\ pc' = [pc EXCEPT ![Main] = "stopping"]
        /\ UNCHANGED <<owned, todo, target, interrupts>>
        /\ \/ /\ process' = "alive" /\ pc[q] = "done"
              /\ table' = [table EXCEPT ![q] = "joined"]
           \/ process' = "aborted" /\ table' = table
    BY <1>7 DEF JoinProxy
  <2>2. /\ owned = {}
        /\ \A r \in Proxies : table[r] = "spawned" => r \in todo \cup {q}
    BY <2>1 DEF Tracked
  <2>3. pc'[Main] = "stopping" /\ \A r \in Proxies : pc'[r] = pc[r]
    BY <2>1
  <2>4. CASE process' = "aborted" /\ table' = table
    <3>1. \A r \in Proxies : Known(r)
      BY <2>2, <2>3, <2>4 DEF Tracked, Running
    <3>2. OneUnstored'
      BY <2>1, <2>3, <2>4 DEF OneUnstored, Unstored
    <3> HIDE DEF Known
    <3> QED BY <2>1, <2>2, <2>4, <3>1, <3>2, <1>0
  <2>5. CASE /\ process' = "alive" /\ pc[q] = "done"
             /\ table' = [table EXCEPT ![q] = "joined"]
    <3>1. table'[q] = "joined" /\ \A r \in Proxies : r # q => table'[r] = table[r]
      BY <2>5
    <3>2. \A r \in Proxies : Known(r)
      BY <2>2, <2>3, <2>5, <3>1 DEF Tracked, Running
    <3>3. \A r \in Proxies : table'[r] = "spawned" => r \in todo'
      BY <2>1, <2>2, <3>1
    <3>4. table' \in [Proxies -> EntryStates]
      BY <2>5
    <3>5. OneUnstored'
      BY <2>1, <2>3, <3>1 DEF OneUnstored, Unstored
    <3> HIDE DEF Known
    <3> QED BY <2>1, <2>2, <2>5, <3>2, <3>3, <3>4, <3>5, <1>0
  <2> QED BY <2>1, <2>4, <2>5
<1>8. CASE Exit
  <2>1. /\ process = "alive" /\ process' = "exited" /\ pc[Main] = "stopping"
        /\ todo = {} /\ pc' = [pc EXCEPT ![Main] = "stopping"]
        /\ UNCHANGED <<owned, table, target, interrupts>>
    BY <1>8 DEF Exit
  <2>2. pc' = pc /\ \A r \in Proxies : table[r] # "spawned"
    BY <2>1 DEF Tracked
  <2>3. owned = {} /\ \A r \in Proxies : Running(r) => table[r] = "inserted"
    BY <2>1, <2>2 DEF Tracked
  <2>4. ASSUME NEW r \in Proxies, Running(r)'
        PROVE  /\ interrupts' > 0 /\ table'[r] = "inserted"
               /\ \A p \in Proxies : Running(p)' => p = r
    BY <2>1, <2>2, <2>3, <2>4 DEF Running, OneUnstored, Unstored
  <2>5. ExitIsClean'
    BY <2>4 DEF ExitIsClean
  <2>6. Tracked' /\ OneUnstored'
    BY <2>1, <2>2, <2>3 DEF Tracked, OneUnstored, Unstored, Running
  <2> QED BY <2>1, <2>5, <2>6 DEF ExitInv
<1> QED BY <1>2, <1>3, <1>4, <1>5, <1>6, <1>7, <1>8, <1>9, <1>10 DEF PipeStep, MainStep

LEMMA StepExit ==
    ASSUME ExitInv, [Next]_vars
    PROVE  ExitInv'
<1>1. PlaceTypes /\ PlaceTypes'
  BY StepPlaces DEF ExitInv
<1>2. CASE \E t \in Threads : (LoopStep(t) \/ BindFails(t)) /\ UNCHANGED pipeVars
  <2>1. PICK t \in Threads : (LoopStep(t) \/ BindFails(t)) /\ UNCHANGED pipeVars
    BY <1>2
  <2>2. /\ Moves(t, InLoop, InLoop \cup {IF t \in Callers THEN "idle" ELSE "done"})
        /\ UNCHANGED target /\ process' \in {"alive", "aborted"}
    BY <2>1, <1>1, LoopMoves
  <2>3. Moves(t, PCs \ {"none", "done", "create", "stopping", "joining"},
              PCs \ {"create", "stopping", "joining"})
    BY <2>2 DEF Moves, PCs, InLoop, LoopPCs, SpinPCs, CallerPCs
  <2> QED BY <2>1, <2>2, <2>3, <1>1, OneMoves
<1>3. CASE \E c \in Callers : CallStep(c) /\ UNCHANGED pipeVars
  <2>1. PICK c \in Callers : CallStep(c) /\ UNCHANGED pipeVars
    BY <1>3
  <2>2. /\ Moves(c, CallPCs, CallPCs)
        /\ UNCHANGED target /\ process' \in {"alive", "aborted"}
    BY <2>1, <1>1, CallMoves
  <2>3. Moves(c, PCs \ {"none", "done", "create", "stopping", "joining"},
              PCs \ {"create", "stopping", "joining"})
    BY <2>2 DEF Moves, PCs, CallPCs, CallerPCs
  <2> QED BY <2>1, <2>2, <2>3, <1>1, OneMoves, MainIsThread
<1>4. CASE \E c \in Callers, p \in Proxies : Begins(c, p) /\ UNCHANGED pipeVars
  <2>1. PICK c \in Callers, p \in Proxies : Begins(c, p) /\ UNCHANGED pipeVars
    BY <1>4
  <2>2. /\ Moves(c, {"idle"}, {"idle", "kill", "enter", "pause", "push"})
        /\ target' = [target EXCEPT ![c] = p] /\ UNCHANGED process
    BY <2>1, <1>1, BeginMoves
  <2>3. Moves(c, PCs \ {"none", "done", "create", "stopping", "joining"},
              PCs \ {"create", "stopping", "joining"})
    BY <2>2 DEF Moves, PCs, InLoop, LoopPCs, SpinPCs, CallerPCs
  <2>4. /\ c # Main => target'[Main] = target[Main]
        /\ process' = "alive" /\ c \in Threads
    BY <2>2, <1>1, MainIsThread DEF Moves, PlaceTypes
  <2> QED BY <2>1, <2>3, <2>4, <1>1, OneMoves
<1>5. CASE PipeStep
  BY <1>1, <1>5, PipeExit
<1>6. CASE UNCHANGED <<process, locker, threadVars, calls, pipeVars>>
  BY <1>1, <1>6 DEF ExitInv, Tracked, OneUnstored, Unstored, Running, ExitIsClean
<1> QED BY <1>1, <1>2, <1>3, <1>4, <1>5, <1>6, Movers DEF PlaceTypes

\* When stop() of the pipe has let the process exit, every thread it made for
\* a proxy has ended, whether main() called it or the signal handler: but for
\* one at most, which a signal found started and not yet stored.
THEOREM AtMostOneOutlivesExit == Spec => []ExitIsClean
<1>1. ExitInv /\ [Next]_vars => ExitInv'
  BY StepExit
<1>2. ExitInv => ExitIsClean
  BY DEF ExitInv
<1> QED BY <1>1, <1>2, InitExit, PTL DEF Spec

-----------------------------------------------------------------------------
(* A proxy forwards messages in the order they came.                       *)

HoldPCs == {"filter", "raw", "convert", "send", "dealer"}

\* A thread has a message of p in its hands.
Holds(t, p) == target[t] = p /\ pc[t] \in HoldPCs

OrderTypes ==
    /\ out \in [Proxies -> Seq(Nat)]
    /\ front \in [Proxies -> Seq(Nat)]
    /\ arrived \in [Proxies -> Nat]
    /\ held \in [Threads -> Nat]

Above(n, s) == \A i \in DOMAIN s : s[i] < n
Below(n, s) == \A i \in DOMAIN s : n < s[i]
UpTo(n, s)  == \A i \in DOMAIN s : s[i] <= n

\* What was sent on came before what is in somebody's hands, and that before
\* what is in the queue.
InOrder(p) ==
    /\ Increasing(out[p]) /\ Increasing(front[p])
    /\ UpTo(arrived[p], out[p]) /\ UpTo(arrived[p], front[p])
    /\ \A i \in DOMAIN out[p] : Below(out[p][i], front[p])
    /\ \A t \in Threads : Holds(t, p) =>
          /\ held[t] <= arrived[p]
          /\ Above(held[t], out[p]) /\ Below(held[t], front[p])

OrderInv == SpinInv /\ OrderTypes /\ \A p \in Proxies : InOrder(p)

LEMMA OneHolder ==
    ASSUME SpinInv, NEW t \in Threads, NEW u \in Threads, NEW p \in Proxies,
           InSpin(t, p), Holds(u, p)
    PROVE  u = t
BY DEF SpinInv, SpinnerHolds, InSpin, Holds, HoldPCs, SpinPCs

LEMMA AppendAbove ==
    ASSUME NEW s \in Seq(Nat), NEW n \in Nat, Increasing(s), Above(n, s)
    PROVE  /\ Append(s, n) \in Seq(Nat) /\ Increasing(Append(s, n))
           /\ \A i \in DOMAIN Append(s, n) :
                 (i \in DOMAIN s /\ Append(s, n)[i] = s[i]) \/ Append(s, n)[i] = n
<1> DEFINE l == Len(s)
           a == Append(s, n)
<1>1. /\ l \in Nat /\ DOMAIN s = 1 .. l
      /\ \A i \in 1 .. l : s[i] \in Nat
  BY LenProperties, ElementOfSeq
<1>2. /\ a \in Seq(Nat) /\ Len(a) = l + 1
      /\ \A i \in 1 .. l : a[i] = s[i]
      /\ a[l + 1] = n
  BY AppendProperties
<1>3. DOMAIN a = 1 .. l + 1
  BY <1>2, LenProperties
<1> HIDE DEF a, l
<1>4. \A i \in 1 .. l + 1 : i \in 1 .. l \/ i = l + 1
  BY <1>1
<1>5. ASSUME NEW i \in 1 .. l + 1, NEW j \in 1 .. l + 1, i < j
      PROVE  a[i] < a[j]
  <2>1. i \in 1 .. l
    BY <1>1, <1>5
  <2>2. CASE j \in 1 .. l
    BY <2>1, <2>2, <1>1, <1>2, <1>5 DEF Increasing
  <2>3. CASE j = l + 1
    BY <2>1, <2>3, <1>1, <1>2 DEF Above
  <2> QED BY <1>4, <2>2, <2>3
<1>6. Increasing(a)
  BY <1>3, <1>5 DEF Increasing
<1>7. \A i \in DOMAIN a : (i \in DOMAIN s /\ a[i] = s[i]) \/ a[i] = n
  BY <1>1, <1>2, <1>3, <1>4
<1> QED BY <1>2, <1>6, <1>7 DEF a

LEMMA TailIncreasing ==
    ASSUME NEW s \in Seq(Nat), s # <<>>, Increasing(s)
    PROVE  /\ Tail(s) \in Seq(Nat) /\ Increasing(Tail(s))
           /\ 1 \in DOMAIN s /\ Head(s) = s[1] /\ Head(s) \in Nat
           /\ Below(Head(s), Tail(s))
           /\ \A i \in DOMAIN Tail(s) : i + 1 \in DOMAIN s /\ Tail(s)[i] = s[i + 1]
<1> DEFINE l == Len(s)
           t == Tail(s)
<1>1. l \in Nat /\ l > 0 /\ DOMAIN s = 1 .. l
  BY LenProperties, EmptySeq
<1>2. /\ t \in Seq(Nat) /\ Len(t) = l - 1
      /\ \A i \in 1 .. Len(t) : t[i] = s[i + 1]
      /\ Head(s) = s[1] /\ Head(s) \in Nat
  BY <1>1
<1>3. DOMAIN t = 1 .. l - 1
  BY <1>2, LenProperties
<1> HIDE DEF t, l
<1>4. \A i \in 1 .. l - 1 : i + 1 \in 1 .. l /\ t[i] = s[i + 1] /\ 1 < i + 1
  BY <1>1, <1>2
<1>5. Increasing(t)
  <2> SUFFICES ASSUME NEW i \in 1 .. l - 1, NEW j \in 1 .. l - 1, i < j
               PROVE  t[i] < t[j]
      BY <1>3 DEF Increasing
  <2>1. i + 1 < j + 1
    BY <1>1
  <2> QED BY <2>1, <1>1, <1>4 DEF Increasing
<1>6. Below(Head(s), t)
  <2> SUFFICES ASSUME NEW i \in 1 .. l - 1 PROVE Head(s) < t[i]
      BY <1>3 DEF Below
  <2>1. 1 \in 1 .. l /\ i + 1 \in 1 .. l /\ 1 < i + 1 /\ t[i] = s[i + 1]
    BY <1>1, <1>4
  <2>2. s[1] < s[i + 1]
    BY <2>1, <1>1 DEF Increasing
  <2> QED BY <2>1, <2>2, <1>2
<1> QED BY <1>1, <1>2, <1>3, <1>4, <1>5, <1>6 DEF t

LEMMA InitOrder == Init => OrderInv
<1> SUFFICES ASSUME Init PROVE OrderInv
    OBVIOUS
<1>1. PICK spawned : ProxyInit(spawned)
  BY DEF Init
<1>2. /\ out = [p \in Proxies |-> <<>>] /\ front = [p \in Proxies |-> <<>>]
      /\ arrived = [p \in Proxies |-> 0] /\ held = [t \in Threads |-> 0]
  BY <1>1 DEF ProxyInit
<1>3. \A t \in Threads : pc[t] \in {"idle", "enter", "none"}
  BY <1>1 DEF ProxyInit
<1>4. OrderTypes
  BY <1>2 DEF OrderTypes
<1>5. \A p \in Proxies : InOrder(p)
  BY <1>2, <1>3 DEF InOrder, Increasing, UpTo, Holds, HoldPCs
<1> QED BY <1>4, <1>5, InitSpin DEF OrderInv

\* A step that moves no message, and puts none in anybody's hands.
LEMMA NothingMoves ==
    ASSUME OrderInv, SpinInv', UNCHANGED <<out, front, arrived, held>>,
           \A t \in Threads, p \in Proxies : Holds(t, p)' => Holds(t, p)
    PROVE  OrderInv'
BY DEF OrderInv, OrderTypes, InOrder, Increasing, Above, Below, UpTo

LEMMA ReceiveOrder ==
    ASSUME OrderInv, SpinInv', NEW t \in Threads, Receive(t)
    PROVE  OrderInv'
<1>1. /\ OrderTypes /\ SpinInv /\ PlaceTypes /\ \A q \in Proxies : InOrder(q)
  BY DEF OrderInv, SpinInv
<1> PICK p \in Proxies : p = target[t]
  BY <1>1 DEF PlaceTypes
<1> PICK m : m = Head(front[p])
  OBVIOUS
<1>2. /\ pc[t] = "spin" /\ front[p] # <<>>
      /\ front' = [front EXCEPT ![p] = Tail(@)]
      /\ held' = [held EXCEPT ![t] = m]
      /\ UNCHANGED <<out, arrived, target>>
      /\ \A u \in Threads : u # t => pc'[u] = pc[u]
  BY <1>1 DEF Receive, PlaceTypes
<1>3. /\ Tail(front[p]) \in Seq(Nat) /\ Increasing(Tail(front[p]))
      /\ 1 \in DOMAIN front[p] /\ m = front[p][1] /\ m \in Nat
      /\ Below(m, Tail(front[p]))
      /\ \A i \in DOMAIN Tail(front[p]) :
            i + 1 \in DOMAIN front[p] /\ Tail(front[p])[i] = front[p][i + 1]
  BY <1>1, <1>2, TailIncreasing DEF OrderTypes, InOrder
<1>4. \A u \in Threads : ~Holds(u, p)
  <2>1. InSpin(t, p) /\ ~Holds(t, p)
    BY <1>2 DEF InSpin, SpinPCs, Holds, HoldPCs
  <2> QED BY <2>1, <1>1, OneHolder
<1>5. OrderTypes'
  BY <1>1, <1>2, <1>3 DEF OrderTypes
<1>6. InOrder(p)'
  <2>1. /\ front'[p] = Tail(front[p]) /\ held'[t] = m /\ out'[p] = out[p]
        /\ arrived'[p] = arrived[p]
    BY <1>1, <1>2 DEF OrderTypes
  <2>2. InOrder(p)
    BY <1>1
  <2>3. UpTo(arrived[p], Tail(front[p]))
    BY <2>2, <1>3 DEF InOrder, UpTo
  <2>4. \A i \in DOMAIN out[p] : Below(out[p][i], Tail(front[p]))
    BY <2>2, <1>3 DEF InOrder, Below
  <2>5. m <= arrived[p] /\ Above(m, out[p])
    BY <2>2, <1>3 DEF InOrder, UpTo, Above, Below
  <2>6. \A u \in Threads : Holds(u, p)' => u = t
    BY <1>2, <1>4 DEF Holds
  <2> QED BY <2>1, <2>2, <2>3, <2>4, <2>5, <2>6, <1>3 DEF InOrder
<1>7. ASSUME NEW q \in Proxies, q # p
      PROVE  InOrder(q)'
  <2>1. front'[q] = front[q] /\ out'[q] = out[q] /\ arrived'[q] = arrived[q]
    BY <1>1, <1>2, <1>7 DEF OrderTypes
  <2>2. \A u \in Threads : Holds(u, q)' => Holds(u, q) /\ held'[u] = held[u]
    BY <1>1, <1>2, <1>7 DEF Holds, OrderTypes
  <2>3. InOrder(q)
    BY <1>1
  <2> QED BY <2>1, <2>2, <2>3 DEF InOrder
<1> QED BY <1>5, <1>6, <1>7 DEF OrderInv

LEMMA SendOrder ==
    ASSUME OrderInv, SpinInv', NEW t \in Threads, Send(t)
    PROVE  OrderInv'
<1>1. /\ OrderTypes /\ SpinInv /\ PlaceTypes /\ \A q \in Proxies : InOrder(q)
  BY DEF OrderInv, SpinInv
<1> PICK p \in Proxies : p = target[t]
  BY <1>1 DEF PlaceTypes
<1> PICK n : n = held[t]
  OBVIOUS
<1>2. /\ pc[t] \in {"raw", "send", "dealer"}
      /\ out' = [out EXCEPT ![p] = Append(@, n)]
      /\ held' = [held EXCEPT ![t] = 0]
      /\ UNCHANGED <<front, arrived, target>> /\ pc'[t] = "spin"
      /\ \A u \in Threads : u # t => pc'[u] = pc[u]
  BY <1>1 DEF Send, PlaceTypes
<1>3. Holds(t, p) /\ InSpin(t, p)
  BY <1>2 DEF Holds, HoldPCs, InSpin, SpinPCs
<1>4. \A u \in Threads : Holds(u, p) => u = t
  BY <1>1, <1>3, OneHolder
<1>5. /\ n \in Nat /\ out[p] \in Seq(Nat) /\ Increasing(out[p]) /\ InOrder(p)
      /\ n <= arrived[p] /\ Above(n, out[p]) /\ Below(n, front[p])
  BY <1>1, <1>3 DEF OrderTypes, InOrder
<1>6. /\ Append(out[p], n) \in Seq(Nat) /\ Increasing(Append(out[p], n))
      /\ \A i \in DOMAIN Append(out[p], n) :
            \/ i \in DOMAIN out[p] /\ Append(out[p], n)[i] = out[p][i]
            \/ Append(out[p], n)[i] = n
  BY <1>5, AppendAbove
<1>7. OrderTypes'
  BY <1>1, <1>2, <1>6 DEF OrderTypes
<1>8. InOrder(p)'
  <2>1. /\ out'[p] = Append(out[p], n) /\ front'[p] = front[p]
        /\ arrived'[p] = arrived[p]
    BY <1>1, <1>2 DEF OrderTypes
  <2>2. UpTo(arrived[p], Append(out[p], n))
    BY <1>5, <1>6 DEF InOrder, UpTo
  <2>3. \A i \in DOMAIN Append(out[p], n) : Below(Append(out[p], n)[i], front[p])
    BY <1>5, <1>6 DEF InOrder
  <2>4. \A u \in Threads : ~Holds(u, p)'
    BY <1>2, <1>4 DEF Holds, HoldPCs
  <2> QED BY <2>1, <2>2, <2>3, <2>4, <1>5, <1>6 DEF InOrder
<1>9. ASSUME NEW q \in Proxies, q # p
      PROVE  InOrder(q)'
  <2>1. front'[q] = front[q] /\ out'[q] = out[q] /\ arrived'[q] = arrived[q]
    BY <1>1, <1>2, <1>9 DEF OrderTypes
  <2>2. \A u \in Threads : Holds(u, q)' => Holds(u, q) /\ held'[u] = held[u]
    BY <1>1, <1>2, <1>9 DEF Holds, OrderTypes
  <2>3. InOrder(q)
    BY <1>1
  <2> QED BY <2>1, <2>2, <2>3 DEF InOrder
<1> QED BY <1>7, <1>8, <1>9 DEF OrderInv

\* New sockets, with nothing queued.
LEMMA BindOrder ==
    ASSUME OrderInv, SpinInv', NEW t \in Threads, Bind(t)
    PROVE  OrderInv'
<1> DEFINE p == target[t]
<1>1. /\ p \in Proxies /\ OrderTypes /\ PlaceTypes /\ \A q \in Proxies : InOrder(q)
  BY DEF OrderInv, SpinInv, PlaceTypes
<1>2. /\ pc'[t] = "test" /\ front' = [front EXCEPT ![p] = <<>>]
      /\ UNCHANGED <<out, arrived, held, target>>
      /\ \A u \in Threads : u # t => pc'[u] = pc[u]
  BY <1>1 DEF Bind, PlaceTypes
<1>3. \A u \in Threads, q \in Proxies : Holds(u, q)' => Holds(u, q)
  BY <1>2 DEF Holds, HoldPCs
<1> HIDE DEF p
<1>4. OrderTypes'
  BY <1>1, <1>2 DEF OrderTypes
<1>5. ASSUME NEW q \in Proxies
      PROVE  InOrder(q)'
  <2>1. CASE q = p
    <3>1. front'[q] = <<>>
      BY <2>1, <1>1, <1>2 DEF OrderTypes
    <3> QED BY <3>1, <1>1, <1>2, <1>3 DEF InOrder, Increasing, UpTo, Below
  <2>2. CASE q # p
    <3>1. front'[q] = front[q]
      BY <2>2, <1>1, <1>2 DEF OrderTypes
    <3> QED BY <3>1, <1>1, <1>2, <1>3 DEF InOrder
  <2> QED BY <2>1, <2>2
<1> QED BY <1>4, <1>5 DEF OrderInv

LEMMA ArriveOrder ==
    ASSUME OrderInv, SpinInv', NEW p \in Proxies, Arrive(p)
    PROVE  OrderInv'
<1> DEFINE n == arrived[p] + 1
<1>1. /\ OrderTypes /\ \A q \in Proxies : InOrder(q)
  BY DEF OrderInv
<1>2. /\ front' = [front EXCEPT ![p] = Append(@, n)]
      /\ arrived' = [arrived EXCEPT ![p] = n]
      /\ UNCHANGED <<out, held, target, pc>>
  BY <1>1 DEF Arrive, OrderTypes
<1>3. /\ front[p] \in Seq(Nat) /\ arrived[p] \in Nat /\ n \in Nat
      /\ n = arrived[p] + 1 /\ InOrder(p)
  BY <1>1 DEF OrderTypes
<1> HIDE DEF n
<1>4. Above(n, front[p])
  <2>1. \A i \in DOMAIN front[p] : front[p][i] \in Nat
    BY <1>3, LenProperties, ElementOfSeq
  <2> QED BY <2>1, <1>3 DEF InOrder, UpTo, Above
<1>5. /\ Append(front[p], n) \in Seq(Nat) /\ Increasing(Append(front[p], n))
      /\ \A i \in DOMAIN Append(front[p], n) :
            \/ i \in DOMAIN front[p] /\ Append(front[p], n)[i] = front[p][i]
            \/ Append(front[p], n)[i] = n
  BY <1>3, <1>4, AppendAbove DEF InOrder
<1>6. OrderTypes'
  BY <1>1, <1>2, <1>3, <1>5 DEF OrderTypes
<1>7. InOrder(p)'
  <2>1. front'[p] = Append(front[p], n) /\ arrived'[p] = n
    BY <1>1, <1>2 DEF OrderTypes
  <2>2. UpTo(n, Append(front[p], n))
    BY <1>3, <1>4, <1>5 DEF UpTo, Above
  <2>3. UpTo(n, out[p]) /\ \A i \in DOMAIN out[p] : Below(out[p][i], Append(front[p], n))
    <3>1. out[p] \in Seq(Nat)
      BY <1>1 DEF OrderTypes
    <3>2. \A i \in DOMAIN out[p] : out[p][i] \in Nat /\ out[p][i] < n
      BY <3>1, <1>3, LenProperties, ElementOfSeq DEF InOrder, UpTo
    <3> QED BY <3>2, <1>3, <1>5 DEF InOrder, UpTo, Below
  <2>4. ASSUME NEW u \in Threads, Holds(u, p)
        PROVE  held[u] <= n /\ Below(held[u], Append(front[p], n))
    <3>1. held[u] \in Nat /\ held[u] < n /\ Below(held[u], front[p])
      BY <2>4, <1>1, <1>3 DEF InOrder, OrderTypes
    <3> QED BY <3>1, <1>3, <1>5 DEF Below
  <2> QED BY <2>1, <2>2, <2>3, <2>4, <1>2, <1>3, <1>5 DEF InOrder, Holds
<1>8. ASSUME NEW q \in Proxies, q # p
      PROVE  InOrder(q)'
  <2>1. front'[q] = front[q] /\ arrived'[q] = arrived[q]
    BY <1>1, <1>2, <1>8 DEF OrderTypes
  <2> QED BY <2>1, <1>1, <1>2 DEF InOrder, Holds
<1> QED BY <1>6, <1>7, <1>8 DEF OrderInv

\* What messages a step leaves where they are.
MessagesStay == UNCHANGED <<out, front, arrived, held>>

LEMMA LoopOrder ==
    ASSUME OrderInv, SpinInv', NEW t \in Threads, LoopStep(t) \/ BindFails(t)
    PROVE  OrderInv'
<1>1. PlaceTypes
  BY DEF OrderInv, SpinInv
<1>2. ASSUME MessagesStay, target' = target,
             pc' = [pc EXCEPT ![t] = pc'[t]],
             pc'[t] \in HoldPCs => pc[t] \in HoldPCs
      PROVE  OrderInv'
  <2>1. \A u \in Threads, p \in Proxies : Holds(u, p)' => Holds(u, p)
    BY <1>1, <1>2 DEF Holds, PlaceTypes
  <2> QED BY <1>2, <2>1, NothingMoves DEF MessagesStay
<1> USE DEF MessagesStay, HoldPCs
<1>3. CASE Enter(t) \/ BindFails(t)
  BY <1>1, <1>2, <1>3 DEF Enter, BindFails, PlaceTypes
<1>4. CASE Test(t)
  <2>1. MessagesStay /\ target' = target
    BY <1>4 DEF Test
  <2>2. pc' = [pc EXCEPT ![t] = pc'[t]]
    BY <1>1, <1>4, LoopMoves DEF LoopStep, Moves
  <2>3. pc'[t] \in {"lock", "idle", "done"}
    BY <1>1, <1>4 DEF Test, PlaceTypes
  <2> QED BY <2>1, <2>2, <2>3, <1>2
<1>5. CASE AcquireLocker(t) \/ ReleaseLocker(t)
  BY <1>1, <1>2, <1>5 DEF AcquireLocker, ReleaseLocker, PlaceTypes
<1>6. CASE Poll(t) \/ ChooseFilters(t) \/ Convert(t)
  BY <1>1, <1>2, <1>6 DEF Poll, ChooseFilters, Convert, PlaceTypes
<1>7. CASE SendBack(t)
  BY <1>1, <1>2, <1>7 DEF SendBack, PlaceTypes
<1> QED BY <1>3, <1>4, <1>5, <1>6, <1>7, ReceiveOrder, SendOrder, BindOrder
        DEF LoopStep

LEMMA StepOrder ==
    ASSUME OrderInv, [Next]_vars
    PROVE  OrderInv'
<1>1. SpinInv' /\ SpinInv /\ PlaceTypes
  BY StepSpin DEF OrderInv, SpinInv
<1>2. ASSUME MessagesStay,
             \A t \in Threads : \/ pc'[t] = pc[t] /\ target'[t] = target[t]
                                \/ pc'[t] \notin HoldPCs
      PROVE  OrderInv'
  <2>1. \A u \in Threads, p \in Proxies : Holds(u, p)' => Holds(u, p)
    BY <1>2 DEF Holds
  <2> QED BY <1>1, <1>2, <2>1, NothingMoves DEF MessagesStay
<1>3. CASE \E t \in Threads : LoopStep(t) \/ BindFails(t)
  BY <1>1, <1>3, LoopOrder
<1>4. CASE \E c \in Callers : CallStep(c)
  <2>1. PICK c \in Callers : CallStep(c)
    BY <1>4
  <2>2. Moves(c, CallPCs, CallPCs) /\ target' = target /\ MessagesStay
    BY <2>1, <1>1, CallMoves DEF CallStep, KillEnds, PauseEnds, PauseReturns,
       PushFilter, FilterAdded, MessagesStay
  <2> QED BY <2>2, <1>1, <1>2 DEF Moves, CallPCs, HoldPCs, PlaceTypes
<1>5. CASE \E c \in Callers, p \in Proxies : Begins(c, p)
  <2>1. PICK c \in Callers, p \in Proxies : Begins(c, p)
    BY <1>5
  <2>2. /\ Moves(c, {"idle"}, {"idle", "kill", "enter", "pause", "push"})
        /\ target' = [target EXCEPT ![c] = p]
    BY <2>1, <1>1, BeginMoves
  <2>3. MessagesStay
    BY <2>1 DEF Begins, AddFilter, Signal, RegisterSignal, MessagesStay
  <2> QED BY <2>2, <2>3, <1>1, <1>2 DEF Moves, HoldPCs, PlaceTypes
<1>6. CASE PipeStep
  <2>1. MessagesStay
    BY <1>6 DEF PipeStep, Create, CallUnknown, StopPipe, Interrupt, StopAll,
       MainStep, InsertProxy, StartProxyThread, StoreProxyThread, JoinProxy, Exit,
       StopProxy, MessagesStay
  <2>2. \A t \in Threads : StaysOut(t)
    BY <1>6, <1>1, PipeMoves
  <2> QED BY <2>1, <2>2, <1>2 DEF StaysOut, SpinPCs, HoldPCs
<1>7. CASE \E p \in Proxies : Peers(p)
  <2>1. PICK p \in Proxies : Peers(p)
    BY <1>7
  <2>2. CASE Arrive(p)
    BY <2>2, <1>1, ArriveOrder
  <2>3. CASE Reconnect(p) \/ \E m \in Messages : Serve(p, m)
    BY <2>3, <1>2 DEF Reconnect, Serve, MessagesStay
  <2> QED BY <2>1, <2>2, <2>3 DEF Peers
<1>8. CASE UNCHANGED vars
  BY <1>8, <1>2 DEF vars, proxyVars, MessagesStay
<1>9. CASE \E c \in Callers : DirectCall(c)
  <2>1. PICK c \in Callers : \E p \in owned : Begins(c, p)
    BY <1>9 DEF DirectCall, Begins
  <2>2. owned \subseteq Proxies
    BY <1>1, PipeAssumption DEF PlaceTypes
  <2> QED BY <2>1, <2>2, <1>5
<1>10. CASE \E p \in Proxies : SetFilter(p)
  BY <1>10, <1>5, MainIsThread DEF SetFilter, Begins
<1> QED BY <1>3, <1>4, <1>5, <1>6, <1>7, <1>8, <1>9, <1>10 DEF Next, PipeStep

\* Whichever threads run start() on a proxy, and whatever stops, pauses and
\* replaced sockets come between, it sends messages on in the order they came,
\* each at most once.
THEOREM SentInOrder == Spec => []ForwardsInOrder
<1>1. OrderInv /\ [Next]_vars => OrderInv'
  BY StepOrder
<1>2. OrderInv => ForwardsInOrder
  BY DEF OrderInv, InOrder, ForwardsInOrder
<1> QED BY <1>1, <1>2, InitOrder, PTL DEF Spec

-----------------------------------------------------------------------------
(* Types.                                                                  *)

FlagTypes ==
    /\ process \in {"alive", "exited", "aborted"}
    /\ running \in [Proxies -> BOOLEAN]
    /\ paused \in [Proxies -> BOOLEAN]
    /\ adding_filter \in [Proxies -> BOOLEAN]
    /\ filters \in [Proxies -> Nat]

SocketTypes ==
    /\ sockets \in [Proxies -> {"none", "bound", "replaced"}]
    /\ front \in [Proxies -> Seq(Messages)]
    /\ back \in [Proxies -> Seq(Messages)]
    /\ out \in [Proxies -> Seq(Messages)]
    /\ answered \in [Proxies -> Seq(Messages)]
    /\ arrived \in [Proxies -> 0 .. MaxMessages]
    /\ serving \in [Proxies -> SUBSET Messages]
    /\ connected \in [Proxies -> BOOLEAN]

HandTypes ==
    /\ ready \in [Threads -> SUBSET {"front", "back"}]
    /\ held \in [Threads -> 0 .. MaxMessages]

\* Whoever is about to send has a message in its hands.
HandsFull == \A t \in Threads : pc[t] \in HoldPCs => held[t] \in Messages

TableTypes ==
    /\ calls \in [Callers -> 0 .. MaxCalls]
    /\ table \in [Proxies -> EntryStates]
    /\ todo \subseteq Proxies
    /\ interrupts \in 0 .. MaxInterrupts
    /\ unjoined \subseteq Proxies

TypeInv == SpinInv /\ FlagTypes /\ SocketTypes /\ HandTypes /\ HandsFull /\ TableTypes

LEMMA InitInTypes == Init => TypeInv
<1> SUFFICES ASSUME Init PROVE TypeInv
    OBVIOUS
<1>1. PICK spawned : ProxyInit(spawned)
  BY DEF Init
<1>2. FlagTypes
  BY <1>1 DEF ProxyInit, FlagTypes
<1>3. SocketTypes
  BY <1>1, BoundsAssumption DEF ProxyInit, SocketTypes, NoSockets
<1>4. HandTypes
  BY <1>1, BoundsAssumption DEF ProxyInit, HandTypes
<1>5. HandsFull
  <2>1. \A t \in Threads : pc[t] \in {"idle", "enter", "none"}
    BY <1>1 DEF ProxyInit
  <2> QED BY <2>1 DEF HandsFull, HoldPCs
<1>6. TableTypes
  <2>1. calls \in [Callers -> 0 .. MaxCalls]
    BY <1>1, BoundsAssumption DEF ProxyInit
  <2> QED BY <2>1, PipeAssumption DEF Init, TableTypes, EntryStates
<1> QED BY <1>2, <1>3, <1>4, <1>5, <1>6, InitSpin DEF TypeInv

\* A thread goes on that takes no message into its hands.
LEMMA HandsStay ==
    ASSUME PlaceTypes, PlaceTypes', HandsFull, UNCHANGED held,
           \A t \in Threads : pc'[t] = pc[t] \/ pc'[t] \notin HoldPCs
    PROVE  HandsFull'
BY DEF HandsFull

LEMMA ReceiveInTypes ==
    ASSUME TypeInv, NEW t \in Threads, Receive(t)
    PROVE  SocketTypes' /\ HandTypes' /\ HandsFull'
<1>1. PlaceTypes /\ SocketTypes /\ HandTypes /\ HandsFull
  BY DEF TypeInv, SpinInv
<1> PICK p \in Proxies : p = target[t]
  BY <1>1 DEF PlaceTypes
<1>2. /\ front[p] \in Seq(Messages) /\ front[p] # <<>>
      /\ front' = [front EXCEPT ![p] = Tail(@)]
      /\ held' = [held EXCEPT ![t] = Head(front[p])]
      /\ ready' = [ready EXCEPT ![t] = @ \ {"front"}]
      /\ UNCHANGED <<sockets, back, out, answered, arrived, serving, connected>>
  BY <1>1 DEF Receive, SocketTypes
<1>3. Head(front[p]) \in Messages /\ Tail(front[p]) \in Seq(Messages)
  BY <1>2
<1>4. Messages \subseteq 0 .. MaxMessages
  BY BoundsAssumption DEF Messages
<1>5. \A u \in Threads : u # t => pc'[u] = pc[u] /\ held'[u] = held[u]
  BY <1>1, <1>2 DEF Receive, PlaceTypes, HandTypes
<1>6. held'[t] \in Messages
  BY <1>1, <1>2, <1>3 DEF HandTypes
<1>7. SocketTypes'
  BY <1>1, <1>2, <1>3 DEF SocketTypes
<1>8. HandTypes'
  BY <1>1, <1>2, <1>3, <1>4 DEF HandTypes
<1>9. HandsFull'
  BY <1>1, <1>5, <1>6 DEF HandsFull
<1> QED BY <1>7, <1>8, <1>9

LEMMA SendInTypes ==
    ASSUME TypeInv, PlaceTypes', NEW t \in Threads, Send(t)
    PROVE  SocketTypes' /\ HandTypes' /\ HandsFull'
<1>1. PlaceTypes /\ SocketTypes /\ HandTypes /\ HandsFull
  BY DEF TypeInv, SpinInv
<1> PICK p \in Proxies : p = target[t]
  BY <1>1 DEF PlaceTypes
<1>2. /\ out' = [out EXCEPT ![p] = Append(@, held[t])]
      /\ held' = [held EXCEPT ![t] = 0]
      /\ serving' = [serving EXCEPT ![p] =
                      IF p \in PubSub THEN @ ELSE @ \cup {held[t]}]
      /\ UNCHANGED <<sockets, front, back, answered, arrived, connected, ready>>
      /\ pc[t] \in {"raw", "send", "dealer"} /\ pc'[t] = "spin"
      /\ \A u \in Threads : u # t => pc'[u] = pc[u]
  BY <1>1 DEF Send, PlaceTypes
<1>3. held[t] \in Messages
  BY <1>1, <1>2 DEF HandsFull, HoldPCs
<1>4. Append(out[p], held[t]) \in Seq(Messages)
  BY <1>1, <1>3 DEF SocketTypes
<1>5. SocketTypes'
  BY <1>1, <1>2, <1>3, <1>4 DEF SocketTypes
<1>6. HandTypes'
  BY <1>1, <1>2, BoundsAssumption DEF HandTypes
<1>7. HandsFull'
  BY <1>1, <1>2 DEF HandsFull, HandTypes, HoldPCs
<1> QED BY <1>5, <1>6, <1>7

LEMMA SendBackInTypes ==
    ASSUME TypeInv, NEW t \in Threads, SendBack(t)
    PROVE  SocketTypes' /\ HandTypes'
<1>1. PlaceTypes /\ SocketTypes /\ HandTypes
  BY DEF TypeInv, SpinInv
<1> PICK p \in Proxies : p = target[t]
  BY <1>1 DEF PlaceTypes
<1>2. /\ back[p] \in Seq(Messages) /\ back[p] # <<>> /\ answered[p] \in Seq(Messages)
      /\ answered' = [answered EXCEPT ![p] = Append(@, Head(back[p]))]
      /\ back' = [back EXCEPT ![p] = Tail(@)]
      /\ ready' = [ready EXCEPT ![t] = {}]
      /\ UNCHANGED <<sockets, front, out, arrived, serving, connected, held>>
  BY <1>1 DEF SendBack, SocketTypes
<1>3. Head(back[p]) \in Messages /\ Tail(back[p]) \in Seq(Messages)
  BY <1>2
<1>4. Append(answered[p], Head(back[p])) \in Seq(Messages)
  BY <1>2, <1>3
<1> QED BY <1>1, <1>2, <1>3, <1>4 DEF SocketTypes, HandTypes

LEMMA LoopInTypes ==
    ASSUME TypeInv, PlaceTypes', NEW t \in Threads, LoopStep(t) \/ BindFails(t)
    PROVE  FlagTypes' /\ SocketTypes' /\ HandTypes' /\ HandsFull'
<1>1. /\ PlaceTypes /\ FlagTypes /\ SocketTypes /\ HandTypes /\ HandsFull
      /\ target[t] \in Proxies
  BY DEF TypeInv, SpinInv, PlaceTypes
<1>2. ASSUME UNCHANGED <<process, flagVars, filters, socketVars, ready, held>>,
             \A u \in Threads : pc'[u] = pc[u] \/ pc'[u] \notin HoldPCs
                                \/ pc[u] \in HoldPCs
      PROVE  FlagTypes' /\ SocketTypes' /\ HandTypes' /\ HandsFull'
  BY <1>1, <1>2 DEF FlagTypes, SocketTypes, HandTypes, HandsFull
<1>3. pc' = [pc EXCEPT ![t] = pc'[t]]
  BY <1>1, LoopMoves DEF Moves
<1>4. \A u \in Threads : u # t => pc'[u] = pc[u]
  BY <1>1, <1>3 DEF PlaceTypes
<1>5. CASE Enter(t)
  <2>1. /\ paused' = [paused EXCEPT ![target[t]] = FALSE]
        /\ UNCHANGED <<process, running, adding_filter, filters, socketVars, ready, held>>
        /\ pc'[t] = "bind"
    BY <1>1, <1>5 DEF Enter, PlaceTypes
  <2>2. HandsFull'
    BY <2>1, <1>1, <1>4 DEF HandsFull, HoldPCs
  <2> QED BY <2>1, <2>2, <1>1 DEF FlagTypes, SocketTypes, HandTypes
<1>6. CASE Bind(t)
  <2>1. /\ sockets' \in [Proxies -> {"none", "bound", "replaced"}]
        /\ front' = [front EXCEPT ![target[t]] = <<>>]
        /\ back' = [back EXCEPT ![target[t]] = <<>>]
        /\ UNCHANGED <<process, flagVars, filters, out, answered, arrived, serving,
                       connected, ready, held>>
        /\ pc'[t] = "test"
    BY <1>1, <1>6 DEF Bind, SocketTypes, PlaceTypes
  <2>2. <<>> \in Seq(Messages)
    OBVIOUS
  <2>3. SocketTypes'
    BY <2>1, <2>2, <1>1 DEF SocketTypes
  <2>4. HandsFull'
    BY <2>1, <1>1, <1>4 DEF HandsFull, HoldPCs
  <2> QED BY <2>1, <2>3, <2>4, <1>1 DEF FlagTypes, HandTypes
<1>7. CASE BindFails(t)
  <2>1. /\ process' = "aborted" /\ pc'[t] = "bind"
        /\ UNCHANGED <<flagVars, filters, socketVars, ready, held>>
    BY <1>1, <1>7 DEF BindFails, PlaceTypes
  <2>2. HandsFull'
    BY <2>1, <1>1, <1>4 DEF HandsFull, HoldPCs
  <2> QED BY <2>1, <2>2, <1>1 DEF FlagTypes, SocketTypes, HandTypes
<1>8. CASE Test(t) \/ AcquireLocker(t) \/ ReleaseLocker(t)
  <2>1. UNCHANGED <<process, flagVars, filters, socketVars, ready, held>>
    BY <1>8 DEF Test, AcquireLocker, ReleaseLocker
  <2>2. CASE Test(t)
    <3>1. pc'[t] \in {"lock", "idle", "done"}
      BY <1>1, <2>2 DEF Test, PlaceTypes
    <3> QED BY <3>1, <2>1, <1>2, <1>4 DEF HoldPCs
  <2>3. CASE AcquireLocker(t) \/ ReleaseLocker(t)
    <3>1. pc'[t] \in {"poll", "test"}
      BY <1>1, <2>3 DEF AcquireLocker, ReleaseLocker, PlaceTypes
    <3> QED BY <3>1, <2>1, <1>2, <1>4 DEF HoldPCs
  <2> QED BY <1>8, <2>2, <2>3
<1>9. CASE Poll(t)
  <2>1. /\ pc'[t] = "spin"
        /\ UNCHANGED <<process, flagVars, filters, socketVars, held>>
        /\ ready' \in [Threads -> SUBSET {"front", "back"}]
    BY <1>1, <1>9 DEF Poll, PlaceTypes, HandTypes
  <2>2. HandsFull'
    BY <2>1, <1>1, <1>4 DEF HandsFull, HoldPCs
  <2> QED BY <2>1, <2>2, <1>1 DEF FlagTypes, SocketTypes, HandTypes
<1>10. CASE ChooseFilters(t) \/ Convert(t)
  <2>1. /\ UNCHANGED <<process, flagVars, filters, socketVars, ready, held>>
        /\ pc[t] \in HoldPCs
    BY <1>10 DEF ChooseFilters, Convert, HoldPCs
  <2> QED BY <2>1, <1>2, <1>4
<1>11. CASE Receive(t) \/ Send(t) \/ SendBack(t)
  <2>1. UNCHANGED <<process, flagVars, filters>>
    BY <1>11 DEF Receive, Send, SendBack
  <2>2. FlagTypes'
    BY <2>1, <1>1 DEF FlagTypes
  <2>3. CASE SendBack(t)
    <3>1. UNCHANGED held /\ pc'[t] = "spin"
      BY <1>1, <2>3 DEF SendBack, PlaceTypes
    <3>2. HandsFull'
      BY <3>1, <1>1, <1>4 DEF HandsFull, HoldPCs
    <3> QED BY <2>2, <2>3, <3>2, SendBackInTypes
  <2> QED BY <1>11, <2>2, <2>3, ReceiveInTypes, SendInTypes
<1> QED BY <1>5, <1>6, <1>7, <1>8, <1>9, <1>10, <1>11 DEF LoopStep

\* A step of main(), of a call or of a peer that touches no queue and no hand.
QueuesStay == UNCHANGED <<socketVars, ready, held>>

LEMMA QueueTypesStay ==
    ASSUME SocketTypes, HandTypes, HandsFull, QueuesStay,
           \A t \in Threads : pc'[t] = pc[t] \/ pc'[t] \notin HoldPCs
    PROVE  SocketTypes' /\ HandTypes' /\ HandsFull'
BY DEF SocketTypes, HandTypes, HandsFull, QueuesStay

LEMMA CallInTypes ==
    ASSUME TypeInv, NEW c \in Callers, CallStep(c)
    PROVE  /\ FlagTypes' /\ SocketTypes' /\ HandTypes' /\ HandsFull'
           /\ UNCHANGED calls
<1>1. /\ PlaceTypes /\ FlagTypes /\ SocketTypes /\ HandTypes /\ HandsFull
      /\ c \in Threads /\ target[c] \in Proxies
  BY MainIsThread DEF TypeInv, SpinInv, PlaceTypes
<1>2. Moves(c, CallPCs, CallPCs)
  BY <1>1, CallMoves
<1>3. QueuesStay /\ UNCHANGED calls
  BY DEF CallStep, KillEnds, PauseEnds, PauseReturns, PushFilter, FilterAdded, QueuesStay
<1>4. FlagTypes'
  <2>1. CASE KillEnds(c) \/ PauseEnds(c)
    BY <1>1, <2>1 DEF KillEnds, PauseEnds, FlagTypes
  <2>2. CASE PauseReturns(c) \/ FilterAdded(c)
    BY <1>1, <2>2 DEF PauseReturns, FilterAdded, FlagTypes
  <2>3. CASE PushFilter(c)
    <3>1. /\ filters' = [filters EXCEPT ![target[c]] = @ + 1]
          /\ process' \in {"alive", "aborted"} /\ UNCHANGED flagVars
      BY <2>3 DEF PushFilter
    <3> QED BY <3>1, <1>1 DEF FlagTypes
  <2> QED BY <2>1, <2>2, <2>3 DEF CallStep
<1>5. \A t \in Threads : pc'[t] = pc[t] \/ pc'[t] \notin HoldPCs
  BY <1>1, <1>2 DEF Moves, CallPCs, HoldPCs, PlaceTypes
<1> QED BY <1>1, <1>3, <1>4, <1>5, QueueTypesStay

LEMMA BeginInTypes ==
    ASSUME TypeInv, NEW c \in Callers, NEW p \in Proxies, Begins(c, p)
    PROVE  /\ FlagTypes' /\ SocketTypes' /\ HandTypes' /\ HandsFull'
           /\ calls' \in [Callers -> 0 .. MaxCalls]
<1>1. /\ PlaceTypes /\ FlagTypes /\ SocketTypes /\ HandTypes /\ HandsFull
      /\ c \in Threads /\ calls \in [Callers -> 0 .. MaxCalls]
  BY MainIsThread DEF TypeInv, SpinInv, TableTypes
<1>2. Moves(c, {"idle"}, {"idle", "kill", "enter", "pause", "push"})
  BY <1>1, BeginMoves
<1>3. /\ QueuesStay
      /\ calls[c] < MaxCalls /\ calls' = [calls EXCEPT ![c] = @ + 1]
  BY DEF Begins, AddFilter, Signal, RegisterSignal, Call, QueuesStay
<1>4. calls' \in [Callers -> 0 .. MaxCalls]
  <2>1. calls[c] + 1 \in 0 .. MaxCalls
    BY <1>1, <1>3, BoundsAssumption
  <2> QED BY <2>1, <1>1, <1>3
<1>5. FlagTypes'
  <2>1. CASE AddFilter(c, p)
    BY <1>1, <2>1 DEF AddFilter, FlagTypes
  <2>2. CASE \E s \in Signals : Signal(c, p, s)
    BY <1>1, <2>2 DEF Signal, StopRunning, FlagTypes
  <2>3. CASE \E s \in Signals : RegisterSignal(c, p, s)
    BY <1>1, <2>3 DEF RegisterSignal, FlagTypes
  <2> QED BY <2>1, <2>2, <2>3 DEF Begins
<1>6. \A t \in Threads : pc'[t] = pc[t] \/ pc'[t] \notin HoldPCs
  BY <1>1, <1>2 DEF Moves, HoldPCs, PlaceTypes
<1> QED BY <1>1, <1>3, <1>4, <1>5, <1>6, QueueTypesStay

LEMMA PipeInTypes ==
    ASSUME TypeInv, PipeStep
    PROVE  FlagTypes' /\ SocketTypes' /\ HandTypes' /\ HandsFull' /\ TableTypes'
<1>1. /\ PlaceTypes /\ FlagTypes /\ SocketTypes /\ HandTypes /\ HandsFull /\ TableTypes
      /\ target[Main] \in Proxies
  BY MainIsThread DEF TypeInv, SpinInv, PlaceTypes
<1>2. QueuesStay
  BY DEF PipeStep, Create, CallUnknown, StopPipe, Interrupt, StopAll, MainStep,
     InsertProxy, StartProxyThread, StoreProxyThread, JoinProxy, Exit, StopProxy,
     QueuesStay
<1>3. \A t \in Threads : StaysOut(t)
  BY <1>1, PipeMoves
<1>4. \A t \in Threads : pc'[t] = pc[t] \/ pc'[t] \notin HoldPCs
  BY <1>3 DEF StaysOut, SpinPCs, HoldPCs
<1>5. FlagTypes' /\ TableTypes'
  <2>1. CASE \E p \in Proxies : Create(p) \/ CallUnknown(p)
    BY <1>1, <2>1 DEF Create, CallUnknown, FlagTypes, TableTypes, EntryStates
  <2>2. CASE StopPipe
    BY <1>1, <2>2 DEF StopPipe, StopAll, FlagTypes, TableTypes
  <2>3. CASE Interrupt
    <3>1. /\ interrupts' \in 0 .. MaxInterrupts
          /\ unjoined' \subseteq Proxies /\ todo' \subseteq Proxies
          /\ UNCHANGED <<process, flagVars, filters, calls, table>>
      BY <1>1, <2>3, PipeAssumption DEF Interrupt, StopAll, TableTypes
    <3> QED BY <3>1, <1>1 DEF FlagTypes, TableTypes
  <2>4. CASE InsertProxy \/ StartProxyThread \/ StoreProxyThread \/ JoinProxy \/ Exit
    <3>1. /\ process' \in {"alive", "exited", "aborted"}
          /\ table' = table \/ \E e \in EntryStates : table' = [table EXCEPT ![target[Main]] = e]
          /\ UNCHANGED <<flagVars, filters, calls, todo, interrupts, unjoined>>
      BY <1>1, <2>4 DEF InsertProxy, StartProxyThread, StoreProxyThread, JoinProxy, Exit,
         EntryStates, FlagTypes
    <3> QED BY <3>1, <1>1 DEF FlagTypes, TableTypes
  <2>5. CASE \E p \in Proxies : StopProxy(p)
    <3>1. PICK p \in Proxies : StopProxy(p)
      BY <2>5
    <3>2. /\ running' \in [Proxies -> BOOLEAN] /\ todo' \subseteq Proxies
          /\ UNCHANGED <<paused, adding_filter, filters, calls, table, interrupts,
                         unjoined>>
          /\ process' \in {"alive", "exited", "aborted"}
      BY <1>1, <3>1 DEF StopProxy, StopRunning, TableTypes, FlagTypes
    <3> QED BY <3>2, <1>1 DEF FlagTypes, TableTypes
  <2> QED BY <2>1, <2>2, <2>3, <2>4, <2>5 DEF PipeStep, MainStep
<1> QED BY <1>1, <1>2, <1>4, <1>5, QueueTypesStay

\* The programs at the sockets change only what is queued there.
LEMMA PeerInTypes ==
    ASSUME TypeInv, NEW p \in Proxies, Peers(p)
    PROVE  FlagTypes' /\ SocketTypes' /\ HandTypes' /\ HandsFull' /\ UNCHANGED calls
<1>1. FlagTypes /\ SocketTypes /\ HandTypes /\ HandsFull
  BY DEF TypeInv
<1>2. /\ UNCHANGED <<process, flagVars, filters, ready, held, pc, calls>>
  BY DEF Peers, Arrive, Reconnect, Serve
<1>3. SocketTypes'
  <2>1. CASE Arrive(p)
    <3>1. PICK n \in Nat : n = arrived[p] /\ n < MaxMessages
      BY <1>1, <2>1, BoundsAssumption DEF Arrive, SocketTypes
    <3>2. n + 1 \in Messages /\ n + 1 \in 0 .. MaxMessages
      BY <3>1, BoundsAssumption DEF Messages
    <3>3. Append(front[p], n + 1) \in Seq(Messages)
      BY <3>2, <1>1 DEF SocketTypes
    <3>4. /\ arrived' = [arrived EXCEPT ![p] = n + 1]
          /\ front' = [front EXCEPT ![p] = Append(front[p], n + 1)]
          /\ UNCHANGED <<sockets, back, out, answered, serving, connected>>
      BY <2>1, <3>1, <1>1 DEF Arrive, SocketTypes
    <3> QED BY <1>1, <3>2, <3>3, <3>4 DEF SocketTypes
  <2>2. ASSUME NEW m \in Messages, Serve(p, m)
        PROVE  SocketTypes'
    <3>1. Append(back[p], m) \in Seq(Messages)
      BY <1>1 DEF SocketTypes
    <3> QED BY <3>1, <1>1, <2>2 DEF Serve, SocketTypes
  <2>3. CASE Reconnect(p)
    BY <1>1, <2>3 DEF Reconnect, SocketTypes
  <2> QED BY <2>1, <2>2, <2>3 DEF Peers
<1> QED BY <1>1, <1>2, <1>3 DEF FlagTypes, HandTypes, HandsFull

LEMMA StepInTypes ==
    ASSUME TypeInv, [Next]_vars
    PROVE  TypeInv'
<1>1. SpinInv' /\ PlaceTypes /\ PlaceTypes' /\ TableTypes
  BY StepSpin, StepPlaces DEF TypeInv, SpinInv
<1>2. ASSUME UNCHANGED pipeVars, calls' \in [Callers -> 0 .. MaxCalls]
      PROVE  TableTypes'
  BY <1>1, <1>2 DEF TableTypes
<1>3. CASE \E t \in Threads : (LoopStep(t) \/ BindFails(t)) /\ UNCHANGED pipeVars
  <2>1. PICK t \in Threads : (LoopStep(t) \/ BindFails(t)) /\ UNCHANGED pipeVars
    BY <1>3
  <2>2. UNCHANGED calls
    BY <2>1, <1>1, LoopMoves
  <2> QED BY <2>1, <2>2, <1>1, <1>2, LoopInTypes DEF TypeInv, TableTypes
<1>4. CASE \E c \in Callers : CallStep(c) /\ UNCHANGED pipeVars
  <2>1. PICK c \in Callers : CallStep(c) /\ UNCHANGED pipeVars
    BY <1>4
  <2> QED BY <2>1, <1>1, <1>2, CallInTypes DEF TypeInv, TableTypes
<1>5. ASSUME NEW c \in Callers, NEW p \in Proxies, Begins(c, p), UNCHANGED pipeVars
      PROVE  TypeInv'
  BY <1>1, <1>2, <1>5, BeginInTypes DEF TypeInv
<1>6. CASE PipeStep
  BY <1>1, <1>6, PipeInTypes DEF TypeInv
<1>7. CASE \E p \in Proxies : Peers(p) /\ UNCHANGED pipeVars
  <2>1. PICK p \in Proxies : Peers(p) /\ UNCHANGED pipeVars
    BY <1>7
  <2> QED BY <2>1, <1>1, <1>2, PeerInTypes DEF TypeInv, TableTypes
<1>8. CASE UNCHANGED vars
  BY <1>1, <1>8 DEF vars, proxyVars, TypeInv, FlagTypes, SocketTypes, HandTypes,
     HandsFull, TableTypes
<1>9. CASE \E c \in Callers : DirectCall(c)
  <2>1. PICK c \in Callers : \E p \in owned : Begins(c, p) /\ UNCHANGED pipeVars
    BY <1>9 DEF DirectCall, Begins
  <2>2. owned \subseteq Proxies
    BY <1>1, PipeAssumption DEF PlaceTypes
  <2> QED BY <2>1, <2>2, <1>5
<1>10. CASE \E p \in Proxies : SetFilter(p)
  BY <1>10, <1>5, MainIsThread DEF SetFilter, Begins
<1> QED BY <1>3, <1>4, <1>5, <1>6, <1>7, <1>8, <1>9, <1>10 DEF Next, PipeStep

\* Whatever is queued, sent or answered is a message that reached the proxy,
\* and a thread that sends has one in its hands: HandsFull is what the queues'
\* types need, as a thread keeps the message over several steps.
THEOREM TypeCorrect == Spec => []TypeOK
<1>1. TypeInv /\ [Next]_vars => TypeInv'
  BY StepInTypes
<1>2. TypeInv => TypeOK
  BY DEF TypeInv, SpinInv, PlaceTypes, LockerTypes, FlagTypes, SocketTypes, HandTypes,
     TableTypes, TypeOK, PCs, InLoop
<1> QED BY <1>1, <1>2, InitInTypes, PTL DEF Spec

=============================================================================

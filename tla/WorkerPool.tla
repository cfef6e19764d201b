----------------------------- MODULE WorkerPool -----------------------------
(***************************************************************************)
(* What ZMQControlClient promises about the threads it runs, whatever      *)
(* sockets, promises and locks it uses: a thread is started once, is asked *)
(* to stop, ends, and only then counts as joined; and the callbacks of all *)
(* the threads of the process are called one at a time, never by a thread  *)
(* that has ended.                                                         *)
(***************************************************************************)
EXTENDS FiniteSets

CONSTANT Workers

VARIABLES
    phase,   \* where each thread is in its life
    inside   \* the threads that are inside a callback

poolVars == <<phase, inside>>

Phases == {"off", "live", "stopping", "ended", "joined"}

Init ==
    /\ phase = [w \in Workers |-> "off"]
    /\ inside = {}

Moves(w, from, to) ==
    /\ phase[w] = from
    /\ phase' = [phase EXCEPT ![w] = to]
    /\ UNCHANGED inside

Start(w) == Moves(w, "off", "live")

Stop(w) == Moves(w, "live", "stopping")

End(w) == w \notin inside /\ Moves(w, "stopping", "ended")

Join(w) == Moves(w, "ended", "joined")

\* A thread that is asked to stop may still deliver what it has received.
Enter(w) ==
    /\ phase[w] \in {"live", "stopping"}
    /\ inside = {}
    /\ inside' = {w}
    /\ UNCHANGED phase

Leave(w) ==
    /\ inside = {w}
    /\ inside' = {}
    /\ UNCHANGED phase

Next == \E w \in Workers :
    Start(w) \/ Stop(w) \/ End(w) \/ Join(w) \/ Enter(w) \/ Leave(w)

Spec == Init /\ [][Next]_poolVars
=============================================================================

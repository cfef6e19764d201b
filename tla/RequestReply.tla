---------------------------- MODULE RequestReply ----------------------------
(***************************************************************************)
(* What ping_endpoint() promises, one call after the other: the server may *)
(* handle the request of a call several times, MaxTries at most, and even  *)
(* after the call has returned; the call returns an answer of the server   *)
(* only if the server has handled its request, or the zero ping.           *)
(***************************************************************************)
EXTENDS Naturals, Sequences

CONSTANTS
    Requests,     \* what may be asked
    Answers(_),   \* the answers the server may give
    NoAnswer,     \* what a call returns that had no answer
    MaxTries

VARIABLE calls    \* the calls so far: request, times handled, result

Pending == <<>>

Init == calls = <<>>

Returned == \A i \in DOMAIN calls : calls[i].result # Pending

Call(q) ==
    /\ Returned
    /\ calls' = Append(calls, [request |-> q, handled |-> 0, result |-> Pending])

Handle(i) ==
    /\ calls[i].handled < MaxTries
    /\ calls' = [calls EXCEPT ![i].handled = @ + 1]

Return(i) ==
    /\ calls[i].result = Pending
    /\ \E r \in {NoAnswer} \cup
                IF calls[i].handled > 0 THEN Answers(calls[i].request) ELSE {} :
          calls' = [calls EXCEPT ![i].result = <<r>>]

Next ==
    \/ \E q \in Requests : Call(q)
    \/ \E i \in DOMAIN calls : Handle(i) \/ Return(i)

Spec == Init /\ [][Next]_calls

=============================================================================

------------------------------ MODULE Request -------------------------------
(***************************************************************************)
(* RMTControlClient::ping_endpoint() and the request() of ZMQControlClient *)
(* below it: a request is sent up to three times, each time over a new REQ *)
(* socket, with 100 ms for an answer; the ping server of another node      *)
(* handles what it receives whenever it can. Messages may be lost, and a   *)
(* message outlives the socket that sent it.                               *)
(*                                                                         *)
(* One thread of the client calls ping_endpoint(): neither its buffers nor *)
(* this_client have a lock. The ping server of the client itself uses      *)
(* other buffers.                                                          *)
(***************************************************************************)
EXTENDS PingMessage, Sequences

CONSTANTS
    Asked,       \* the pings the application sends
    Echoed,      \* types that the other node registers an echo for
    Junk,        \* bytes that may be behind a message in memory
    MaxCalls     \* bound: calls of ping_endpoint()

ASSUME RequestAssumption ==
    /\ \A q \in Asked : q \in Pings /\ q.type <= MAX_PING_TYPE
    /\ Echoed \subseteq Bytes
    /\ Junk \subseteq Bytes /\ Junk # {}
    /\ MaxCalls \in Nat

REQUEST_RETRIES == 3

VARIABLES
    this_client,  \* the client has the socket for the next request
    pc,           \* where the call is
    retries_left,
    socket,       \* the socket in use: how many were made before it
    calls,        \* the calls: ping, what the server understood, result
    requests,     \* requests not yet handled: [socket, call, bytes]
    replies,      \* replies not yet received: [socket, bytes]
    ping_callbacks  \* types that the other node has a function for

netVars == <<requests, replies>>
vars == <<this_client, pc, retries_left, socket, calls, netVars,
          ping_callbacks>>

None == <<>>

\* The constructor makes the first socket.
Init ==
    /\ this_client = TRUE
    /\ pc = "idle"
    /\ retries_left = 0
    /\ socket = 1
    /\ calls = <<>>
    /\ requests = {}
    /\ replies = {}
    /\ ping_callbacks = {}

Current == Len(calls)

Result(bytes, junk) == <<serialize_from_ping(InMemory(bytes, junk))>>

\* The socket is moved out of this_client and connected.
PingEndpoint(q) ==
    /\ pc = "idle"
    /\ this_client
    /\ Current < MaxCalls
    /\ this_client' = FALSE
    /\ calls' = Append(calls, [ping |-> q, handled |-> <<>>, result |-> None])
    /\ retries_left' = REQUEST_RETRIES
    /\ pc' = "send"
    /\ UNCHANGED <<socket, netVars, ping_callbacks>>

SendRequest ==
    /\ pc = "send"
    /\ requests' = requests \cup
          {[socket |-> socket, call |-> Current,
            bytes |-> Sent(to_wire_ping(calls[Current].ping))]}
    /\ pc' = "poll"
    /\ UNCHANGED <<this_client, retries_left, socket, calls, replies,
                   ping_callbacks>>

\* The socket is destroyed, and initialize_client() makes the next one.
Finish(result) ==
    /\ calls' = [calls EXCEPT ![Current].result = result]
    /\ this_client' = TRUE
    /\ socket' = socket + 1
    /\ pc' = "idle"

ReceiveReply ==
    /\ pc = "poll"
    /\ \E r \in replies, junk \in Junk :
          /\ r.socket = socket
          /\ replies' = replies \ {r}
          /\ Finish(Result(r.bytes, junk))
    /\ UNCHANGED <<retries_left, requests, ping_callbacks>>

Unanswered == pc = "poll" /\ \A r \in replies : r.socket # socket

\* mutant of Retry: the attempts are not counted.
RetryForEver ==
    /\ Unanswered
    /\ socket' = (socket + 1) % 4
    /\ pc' = "send"
    /\ UNCHANGED <<this_client, retries_left, calls, netVars, ping_callbacks>>

\* 100 ms without an answer, and attempts are left: over a new socket.
Retry ==
    /\ Unanswered
    /\ retries_left > 1
    /\ retries_left' = retries_left - 1
    /\ socket' = socket + 1
    /\ pc' = "send"
    /\ UNCHANGED <<this_client, calls, netVars, ping_callbacks>>

\* mutant of GiveUp: the call keeps its socket for the next one.
GiveUpKeepSocket ==
    /\ Unanswered
    /\ retries_left = 1
    /\ retries_left' = 0
    /\ calls' = [calls EXCEPT ![Current].result = <<ZeroPing>>]
    /\ this_client' = TRUE
    /\ pc' = "idle"
    /\ UNCHANGED <<socket, netVars, ping_callbacks>>

\* mutant of GiveUp: the client is not made anew when nobody answers.
GiveUpWithoutClient ==
    /\ Unanswered
    /\ retries_left = 1
    /\ retries_left' = 0
    /\ calls' = [calls EXCEPT ![Current].result = <<ZeroPing>>]
    /\ pc' = "idle"
    /\ UNCHANGED <<this_client, socket, netVars, ping_callbacks>>

\* The answer is "No response", whose first character is no protocol version.
GiveUp ==
    /\ Unanswered
    /\ retries_left = 1
    /\ retries_left' = 0
    /\ Finish(<<ZeroPing>>)
    /\ UNCHANGED <<netVars, ping_callbacks>>

-----------------------------------------------------------------------------
(* The other node.                                                         *)

\* A type keeps the function that it has.
RegisterPingFunc(type) ==
    /\ type \notin ping_callbacks
    /\ ping_callbacks' = ping_callbacks \cup {type}
    /\ UNCHANGED <<this_client, pc, retries_left, socket, calls, netVars>>

\* ping_server_callback(): the registered function, or an ACK. (A message that
\* is no ping is answered with INVALID_REQUEST, but all requests are pings.)
Answer(p) ==
    IF p.type \in ping_callbacks THEN p ELSE [ZeroPing EXCEPT !.type = ACK]

\* The reply to a socket that is gone goes nowhere.
Handle ==
    /\ \E m \in requests, junk \in Junk :
          LET p == serialize_from_ping(InMemory(m.bytes, junk)) IN
          /\ requests' = requests \ {m}
          /\ calls' = [calls EXCEPT ![m.call].handled = Append(@, p)]
          /\ replies' = IF pc = "poll" /\ m.socket = socket
                        THEN replies \cup
                             {[socket |-> m.socket,
                               bytes |-> Sent(to_wire_ping(Answer(p)))]}
                        ELSE replies
    /\ UNCHANGED <<this_client, pc, retries_left, socket, ping_callbacks>>

Lose ==
    /\ \/ \E m \in requests : requests' = requests \ {m} /\ UNCHANGED replies
       \/ \E r \in replies : replies' = replies \ {r} /\ UNCHANGED requests
    /\ UNCHANGED <<this_client, pc, retries_left, socket, calls, ping_callbacks>>

-----------------------------------------------------------------------------

ClientStep == SendRequest \/ ReceiveReply \/ Retry \/ GiveUp

Next ==
    \/ \E q \in Asked : PingEndpoint(q)
    \/ ClientStep
    \/ \E type \in Echoed : RegisterPingFunc(type)
    \/ Handle \/ Lose

\* The calling thread runs; nothing is promised of the server.
Spec == Init /\ [][Next]_vars /\ WF_vars(ClientStep)

-----------------------------------------------------------------------------
(* Properties.                                                             *)

\* Type correctness; between two calls the client has a socket for the next
\* one, after a failure, too, and while a call lasts the socket is its own.
TypeOK ==
    /\ this_client \in BOOLEAN /\ (this_client <=> pc = "idle")
    /\ pc \in {"idle", "send", "poll"}
    /\ retries_left \in 0 .. REQUEST_RETRIES
    /\ socket \in Nat
    /\ \A i \in DOMAIN calls :
          /\ calls[i].ping \in Asked
          /\ calls[i].handled \in Seq(Pings)
          /\ calls[i].result \in Seq(Pings) /\ Len(calls[i].result) <= 1
    /\ \A m \in requests : m.socket \in 1 .. socket /\ m.call \in DOMAIN calls
    /\ \A r \in replies : r.socket \in 1 .. socket
    /\ ping_callbacks \subseteq Echoed

\* A request reaches the function it was meant for, with the code and the
\* flags that the header carries, as often as it was sent and at most three
\* times in all, however late.
HandledAsAsked ==
    \A i \in DOMAIN calls :
        /\ Len(calls[i].handled) <= REQUEST_RETRIES
        /\ \A k \in DOMAIN calls[i].handled :
              Carried(calls[i].handled[k]) = Carried(calls[i].ping)

\* ping_endpoint() returns, with a dead server, too.
CallReturns == pc # "idle" ~> pc = "idle"

\* The client implements RequestReply: its late, lost and repeated messages
\* never make a call return the answer to another, or one nobody gave.
Abstract == INSTANCE RequestReply WITH
    Requests <- {Carried(q) : q \in Asked},
    Answers  <- LAMBDA q : {Carried([ZeroPing EXCEPT !.type = ACK])} \cup
                           (IF q.type \in Echoed THEN {q} ELSE {}),
    NoAnswer <- Carried(ZeroPing),
    MaxTries <- REQUEST_RETRIES,
    calls    <- [i \in DOMAIN calls |->
                   [request |-> Carried(calls[i].ping),
                    handled |-> Len(calls[i].handled),
                    result  |-> IF calls[i].result = None THEN <<>>
                                ELSE <<Carried(calls[i].result[1])>>]]

RequestReplySpec == Abstract!Spec

=============================================================================

--------------------------- MODULE RequestProofs ----------------------------
(***************************************************************************)
(* Proofs about Request, for any pings that are asked, any bytes behind a  *)
(* message in memory, any number of calls, and a network that delays and   *)
(* loses.                                                                  *)
(***************************************************************************)
EXTENDS Request, FiniteSetTheorems, SequenceTheorems, TLAPS

USE DEF netVars, REQUEST_RETRIES, None, Current, Unanswered, Finish

-----------------------------------------------------------------------------
(* What the header carries is what arrives.                                *)

LEMMA CodeBytes ==
    \A n \in Codes : /\ n % 256 \in 0 .. 255 /\ n \div 256 \in 0 .. 255
                     /\ (n % 256) + 256 * (n \div 256) = n
<1>1. \A n \in Nat : n % 256 \in 0 .. 255
  OBVIOUS
<1>2. \A n \in Nat : (n % 256) + 256 * (n \div 256) = n
  OBVIOUS
<1>3. \A n \in Nat : n \div 256 \in Int
  OBVIOUS
<1> TAKE n \in Codes
<1>4. UINT16_MAX \in Nat /\ UINT16_MAX <= 65535
  BY DEF UINT16_MAX
<1>5. n \in Nat /\ n <= UINT16_MAX
  BY <1>4 DEF Codes
<1>6. /\ n % 256 \in 0 .. 255 /\ n \div 256 \in Int
      /\ (n % 256) + 256 * (n \div 256) = n
  BY <1>1, <1>2, <1>3, <1>5
<1>7. n \div 256 \in 0 .. 255
  <2> DEFINE d == n \div 256
             m == n % 256
  <2>1. n \in Nat /\ n <= 65535 /\ d \in Int /\ m \in 0 .. 255 /\ m + 256 * d = n
    BY <1>4, <1>5, <1>6
  <2> HIDE DEF d, m
  <2>2. d \in 0 .. 255
    BY <2>1
  <2> QED BY <2>2 DEF d
<1> QED BY <1>6, <1>7

LEMMA ZeroBytes ==
    /\ 0 \in Codes /\ 0 \in Bytes /\ 1 \in Bytes /\ Zeros \in Excesses
    /\ ZeroPing \in Pings
<1>1. UINT16_MAX \in Nat
  BY DEF UINT16_MAX
<1>2. 0 \in Codes
  BY <1>1 DEF Codes
<1>3. 0 \in Bytes /\ 1 \in Bytes /\ Zeros \in Excesses
  BY DEF Bytes, Zeros, Excesses
<1> QED BY <1>2, <1>3 DEF ZeroPing, Pings

\* The message on the wire, and as the receiver has it in memory.
Received(q, junk) == InMemory(Sent(to_wire_ping(q)), junk)

LEMMA WireBytes ==
    ASSUME NEW q \in Pings, NEW junk \in Bytes
    PROVE  /\ Received(q, junk)[0] = 1
           /\ Received(q, junk)[2] = q.type
           /\ Received(q, junk)[3] = q.code % 256
           /\ Received(q, junk)[4] = q.code \div 256
           /\ \A k \in 0 .. 3 : Received(q, junk)[7 + k] = q.excess[k]
           /\ \A k \in 4 .. 7 : Received(q, junk)[7 + k] \in Bytes
<1> USE DEF PROTOPOS_PING, OPPOS_PING, TYPEPOS_PING, CODEPOS_PING,
            CHECKPOS_PING, EXCESSPOS_PING, PING_MESSAGE_SIZE, PING_HEADER_SIZE,
            PROTOCOL_VERSION, PING
<1>1. \A k \in 0 .. 10 : Sent(to_wire_ping(q))[k] = to_wire_ping(q)[k]
  BY DEF Sent
<1>2. DOMAIN Sent(to_wire_ping(q)) = 0 .. 10
  BY DEF Sent
<1>3. \A k \in 0 .. 10 : Received(q, junk)[k] = to_wire_ping(q)[k]
  <2> SUFFICES ASSUME NEW k \in 0 .. 10
               PROVE  InMemory(Sent(to_wire_ping(q)), junk)[k] = to_wire_ping(q)[k]
      BY DEF Received
  <2>1. k \in 0 .. 14 /\ k \in DOMAIN Sent(to_wire_ping(q))
    BY <1>2
  <2>2. InMemory(Sent(to_wire_ping(q)), junk)[k] = Sent(to_wire_ping(q))[k]
    BY <2>1 DEF InMemory
  <2> QED BY <2>2, <1>1
<1>4. \A k \in 11 .. 14 : Received(q, junk)[k] \in Bytes
  <2> SUFFICES ASSUME NEW k \in 11 .. 14
               PROVE  InMemory(Sent(to_wire_ping(q)), junk)[k] \in {0, junk}
      BY DEF Received, Bytes
  <2>1. k \in 0 .. 14 /\ k \notin DOMAIN Sent(to_wire_ping(q))
    BY <1>2
  <2> QED BY <2>1 DEF InMemory
<1>5. /\ to_wire_ping(q)[0] = 1 /\ to_wire_ping(q)[2] = q.type
      /\ to_wire_ping(q)[3] = q.code % 256
      /\ to_wire_ping(q)[4] = q.code \div 256
  BY DEF to_wire_ping
<1>6. \A k \in 0 .. 3 : to_wire_ping(q)[7 + k] = q.excess[k]
  BY DEF to_wire_ping
<1>7. \A k \in 0 .. 3 : Received(q, junk)[7 + k] = q.excess[k]
  BY <1>3, <1>6
<1>8. \A k \in 4 .. 7 : Received(q, junk)[7 + k] \in Bytes
  BY <1>4
<1> QED BY <1>3, <1>5, <1>7, <1>8

\* Whatever is behind the message in the memory of the receiver, it finds the
\* type, the code and the half of the excess that the header has room for.
LEMMA HeaderCarries ==
    ASSUME NEW q \in Pings, q.type <= MAX_PING_TYPE, NEW junk \in Bytes
    PROVE  /\ serialize_from_ping(Received(q, junk)) \in Pings
           /\ Carried(serialize_from_ping(Received(q, junk))) = Carried(q)
<1> DEFINE bytes == Received(q, junk)
<1>1. /\ bytes[0] = 1 /\ bytes[2] = q.type
      /\ bytes[3] = q.code % 256 /\ bytes[4] = q.code \div 256
      /\ \A k \in 0 .. 3 : bytes[7 + k] = q.excess[k]
      /\ \A k \in 4 .. 7 : bytes[7 + k] \in Bytes
  BY WireBytes
<1> HIDE DEF bytes
<1>2. q.code \in Codes /\ q.type \in Bytes /\ q.excess \in [0 .. 7 -> Bytes]
  BY DEF Pings, Excesses
<1>3. bytes[3] + 256 * bytes[4] = q.code
  <2>1. (q.code % 256) + 256 * (q.code \div 256) = q.code
    BY <1>2, CodeBytes
  <2> QED BY <1>1, <2>1
<1>4. serialize_from_ping(bytes) =
          [type |-> q.type, code |-> q.code,
           excess |-> [k \in 0 .. 7 |-> bytes[7 + k]]]
  BY <1>1, <1>3 DEF serialize_from_ping, PROTOPOS_PING, OPPOS_PING,
     TYPEPOS_PING, CODEPOS_PING, CHECKPOS_PING, EXCESSPOS_PING, PROTOCOL_VERSION
<1>5. \A k \in 0 .. 7 : bytes[7 + k] \in Bytes
  <2>1. \A k \in 0 .. 3 : q.excess[k] \in Bytes
    BY <1>2
  <2>2. \A k \in 0 .. 3 : bytes[7 + k] \in Bytes
    BY <1>1, <2>1
  <2>3. \A k \in 0 .. 7 : k \in 0 .. 3 \/ k \in 4 .. 7
    OBVIOUS
  <2> QED BY <1>1, <2>2, <2>3
<1>6. serialize_from_ping(bytes) \in Pings
  <2>1. [k \in 0 .. 7 |-> bytes[7 + k]] \in [0 .. 7 -> Bytes]
    BY <1>5
  <2> QED BY <1>2, <1>4, <2>1 DEF Pings, Excesses
<1>7. Carried(serialize_from_ping(bytes)) = Carried(q)
  BY <1>1, <1>4 DEF Carried
<1> QED BY <1>6, <1>7 DEF bytes

-----------------------------------------------------------------------------
(* The inductive invariant.                                                *)

Calls == [ping : Asked, handled : Seq(Pings), result : Seq(Pings)]

\* Members with their types; TypeOK leaves unsaid that a call in progress has
\* an attempt left, and what the messages on their way say.
Types ==
    /\ this_client \in BOOLEAN /\ (this_client <=> pc = "idle")
    /\ pc \in {"idle", "send", "poll"}
    /\ retries_left \in 0 .. 3
    /\ socket \in Nat \ {0}
    /\ calls \in Seq(Calls)
    /\ pc # "idle" => Len(calls) > 0 /\ retries_left > 0
    /\ ping_callbacks \subseteq Echoed

ResultsShort == \A i \in DOMAIN calls : Len(calls[i].result) <= 1

RequestsAreAsked ==
    \A m \in requests :
        /\ m.socket \in 1 .. socket
        /\ m.call \in DOMAIN calls
        /\ m.bytes = Sent(to_wire_ping(calls[m.call].ping))

RepliesArePings ==
    \A r \in replies :
        /\ r.socket \in 1 .. socket
        /\ \E p \in Pings : /\ p.type <= MAX_PING_TYPE
                            /\ r.bytes = Sent(to_wire_ping(p))

HandledAsMeant ==
    \A i \in DOMAIN calls : \A k \in DOMAIN calls[i].handled :
        Carried(calls[i].handled[k]) = Carried(calls[i].ping)

\* The requests of a call that are on their way, and how often it may still
\* be sent.
InFlight(i) == {m \in requests : m.call = i}

Left(i) ==
    IF i # Len(calls) THEN 0
    ELSE CASE pc = "send" -> retries_left
           [] pc = "poll" -> retries_left - 1
           [] OTHER       -> 0

\* A request is handled, on its way, or not sent yet: three in all.
ThreeInAll ==
    /\ IsFiniteSet(requests)
    /\ \A i \in DOMAIN calls :
          Len(calls[i].handled) + Cardinality(InFlight(i)) + Left(i) <= 3

IInv ==
    /\ Types /\ ResultsShort /\ RequestsAreAsked /\ RepliesArePings
    /\ HandledAsMeant /\ ThreeInAll

LEMMA AskedArePings ==
    ASSUME NEW q \in Asked
    PROVE  q \in Pings /\ q.type <= MAX_PING_TYPE
BY RequestAssumption

LEMMA InFlightFinite ==
    ASSUME IsFiniteSet(requests), NEW i
    PROVE  IsFiniteSet(InFlight(i)) /\ Cardinality(InFlight(i)) \in Nat
<1>1. InFlight(i) \subseteq requests
  BY DEF InFlight
<1> QED BY <1>1, FS_Subset, FS_CardinalityType

\* What is left of a call is a number, and none for one that is over.
LEMMA LeftIsNat ==
    ASSUME Types, NEW i
    PROVE  Left(i) \in Nat
BY DEF Types, Left

LEMMA InitIInv == Init => IInv
<1> SUFFICES ASSUME Init PROVE IInv
    OBVIOUS
<1>1. calls = <<>> /\ requests = {} /\ replies = {}
  BY DEF Init
<1>2. Types
  <2>1. calls \in Seq(Calls) /\ Len(calls) = 0
    BY <1>1, EmptySeq
  <2>2. pc = "idle" /\ this_client = TRUE /\ retries_left = 0 /\ socket = 1
        /\ ping_callbacks = {}
    BY DEF Init
  <2> QED BY <2>1, <2>2 DEF Types
<1>3. IsFiniteSet(requests)
  BY <1>1, FS_EmptySet
<1> QED BY <1>1, <1>2, <1>3 DEF IInv, ResultsShort, RequestsAreAsked,
        RepliesArePings, HandledAsMeant, ThreeInAll

\* The result of a call is set; or a handling of its request noted.
LEMMA SetResult ==
    ASSUME calls \in Seq(Calls), NEW c \in DOMAIN calls, NEW x \in Seq(Pings),
           calls' = [calls EXCEPT ![c].result = x]
    PROVE  /\ calls' \in Seq(Calls) /\ Len(calls') = Len(calls)
           /\ DOMAIN calls' = DOMAIN calls
           /\ \A i \in DOMAIN calls :
                 /\ calls'[i].ping = calls[i].ping
                 /\ calls'[i].handled = calls[i].handled
                 /\ calls'[i].result = IF i = c THEN x ELSE calls[i].result
<1> DEFINE e == [calls[c] EXCEPT !.result = x]
<1>1. DOMAIN calls = 1 .. Len(calls) /\ c \in 1 .. Len(calls)
  BY LenProperties
<1>2. calls[c] \in Calls
  BY <1>1, ElementOfSeq
<1>3. /\ e \in Calls /\ e.ping = calls[c].ping
      /\ e.handled = calls[c].handled /\ e.result = x
  BY <1>2 DEF Calls
<1>4. calls' = [calls EXCEPT ![c] = e]
  OBVIOUS
<1> HIDE DEF e
<1>5. /\ calls' \in Seq(Calls) /\ Len(calls') = Len(calls)
      /\ \A i \in 1 .. Len(calls) : calls'[i] = IF i = c THEN e ELSE calls[i]
  <2>1. e \in Calls /\ c \in 1 .. Len(calls)
    BY <1>1, <1>3
  <2>2. /\ [calls EXCEPT ![c] = e] \in Seq(Calls)
        /\ Len([calls EXCEPT ![c] = e]) = Len(calls)
        /\ \A i \in 1 .. Len(calls) :
              [calls EXCEPT ![c] = e][i] = IF i = c THEN e ELSE calls[i]
    BY <2>1, ExceptSeq
  <2> QED BY <1>4, <2>2
<1>6. DOMAIN calls' = DOMAIN calls
  BY <1>1, <1>5, LenProperties
<1> QED BY <1>1, <1>3, <1>5, <1>6

LEMMA SetHandled ==
    ASSUME calls \in Seq(Calls), NEW c \in DOMAIN calls, NEW p \in Pings,
           calls' = [calls EXCEPT ![c].handled = Append(@, p)]
    PROVE  /\ calls' \in Seq(Calls) /\ Len(calls') = Len(calls)
           /\ DOMAIN calls' = DOMAIN calls
           /\ \A i \in DOMAIN calls :
                 /\ calls'[i].ping = calls[i].ping
                 /\ calls'[i].result = calls[i].result
                 /\ calls'[i].handled = IF i = c THEN Append(calls[i].handled, p)
                                        ELSE calls[i].handled
<1> DEFINE x == Append(calls[c].handled, p)
<1> DEFINE e == [calls[c] EXCEPT !.handled = x]
<1>1. DOMAIN calls = 1 .. Len(calls) /\ c \in 1 .. Len(calls)
  BY LenProperties
<1>2. calls[c] \in Calls
  BY <1>1, ElementOfSeq
<1>0. x \in Seq(Pings)
  BY <1>2, AppendProperties DEF Calls
<1>4. calls' = [calls EXCEPT ![c] = e]
  OBVIOUS
<1>7. calls[c].handled \in Seq(Pings) /\ x = Append(calls[c].handled, p)
  BY <1>2 DEF Calls
<1> HIDE DEF x
<1>3. /\ e \in Calls /\ e.ping = calls[c].ping
      /\ e.result = calls[c].result /\ e.handled = x
  BY <1>0, <1>2 DEF Calls
<1> HIDE DEF e
<1>5. /\ calls' \in Seq(Calls) /\ Len(calls') = Len(calls)
      /\ \A i \in 1 .. Len(calls) : calls'[i] = IF i = c THEN e ELSE calls[i]
  <2>1. e \in Calls /\ c \in 1 .. Len(calls)
    BY <1>1, <1>3
  <2>2. /\ [calls EXCEPT ![c] = e] \in Seq(Calls)
        /\ Len([calls EXCEPT ![c] = e]) = Len(calls)
        /\ \A i \in 1 .. Len(calls) :
              [calls EXCEPT ![c] = e][i] = IF i = c THEN e ELSE calls[i]
    BY <2>1, ExceptSeq
  <2> QED BY <1>4, <2>2
<1>6. DOMAIN calls' = DOMAIN calls
  BY <1>1, <1>5, LenProperties
<1> QED BY <1>1, <1>3, <1>5, <1>6, <1>7

\* A step that neither sends nor handles a request.
LEMMA Quiet ==
    ASSUME IInv, Types', DOMAIN calls' = DOMAIN calls,
           \A i \in DOMAIN calls : /\ calls'[i].ping = calls[i].ping
                                   /\ calls'[i].handled = calls[i].handled
                                   /\ Left(i)' <= Left(i),
           requests' \subseteq requests, socket' \in {socket, socket + 1}
    PROVE  RequestsAreAsked' /\ HandledAsMeant' /\ ThreeInAll'
<1>1. /\ Types /\ RequestsAreAsked /\ HandledAsMeant /\ IsFiniteSet(requests)
      /\ socket \in Nat
  BY DEF IInv, ThreeInAll, Types
<1>2. RequestsAreAsked'
  BY <1>1 DEF RequestsAreAsked
<1>3. HandledAsMeant'
  BY <1>1 DEF HandledAsMeant
<1>4. IsFiniteSet(requests')
  BY <1>1, FS_Subset
<1>5. ASSUME NEW i \in DOMAIN calls
      PROVE  Len(calls'[i].handled) + Cardinality(InFlight(i)') + Left(i)' <= 3
  <2>1. InFlight(i)' \subseteq InFlight(i)
    BY DEF InFlight
  <2>2. Cardinality(InFlight(i)') <= Cardinality(InFlight(i))
    BY <1>1, <2>1, InFlightFinite, FS_Subset
  <2>3. /\ Cardinality(InFlight(i)) \in Nat /\ Cardinality(InFlight(i)') \in Nat
        /\ Left(i) \in Nat /\ Left(i)' \in Nat
    <3>1. IsFiniteSet(InFlight(i)')
      BY <1>1, <2>1, InFlightFinite, FS_Subset
    <3> QED BY <1>1, <3>1, InFlightFinite, FS_CardinalityType, LeftIsNat DEF Left, Types
  <2>4. Len(calls[i].handled) \in Nat
    BY <1>1, ElementOfSeq, LenProperties DEF Types, Calls
  <2>5. Len(calls[i].handled) + Cardinality(InFlight(i)) + Left(i) <= 3
    BY DEF IInv, ThreeInAll
  <2> QED BY <2>2, <2>3, <2>4, <2>5
<1>6. ThreeInAll'
  BY <1>4, <1>5 DEF ThreeInAll
<1> QED BY <1>2, <1>3, <1>6

-----------------------------------------------------------------------------
(* The steps.                                                              *)

LEMMA StepPingEndpoint ==
    ASSUME IInv, NEW q \in Asked, PingEndpoint(q)
    PROVE  IInv'
<1> DEFINE n == Len(calls)
           new == [ping |-> q, handled |-> <<>>, result |-> <<>>]
<1>1. /\ pc = "idle" /\ this_client' = FALSE /\ calls' = Append(calls, new)
      /\ retries_left' = 3 /\ pc' = "send"
      /\ UNCHANGED <<socket, requests, replies, ping_callbacks>>
  BY DEF PingEndpoint
<1>2. /\ Types /\ ResultsShort /\ RequestsAreAsked /\ RepliesArePings
      /\ HandledAsMeant /\ IsFiniteSet(requests)
      /\ calls \in Seq(Calls) /\ n \in Nat /\ DOMAIN calls = 1 .. n
  BY LenProperties DEF IInv, ThreeInAll, Types
<1>3. new \in Calls
  BY EmptySeq DEF Calls
<1>4. /\ new.ping = q /\ new.handled = <<>> /\ new.result = <<>>
  OBVIOUS
<1> HIDE DEF new
<1>5. /\ calls' \in Seq(Calls) /\ Len(calls') = n + 1
      /\ \A i \in 1 .. n : calls'[i] = calls[i]
      /\ calls'[n + 1] = new
  BY <1>1, <1>2, <1>3, AppendProperties
<1>6. DOMAIN calls' = 1 .. n + 1
  BY <1>5, LenProperties
<1> HIDE DEF n
<1>7. Types'
  <2>1. Len(calls') > 0
    BY <1>2, <1>5
  <2>2. this_client' \in BOOLEAN /\ (this_client' <=> pc' = "idle")
    BY <1>1
  <2> QED BY <1>1, <1>2, <1>5, <2>1, <2>2 DEF Types
<1>8. ResultsShort'
  <2>1. Len(<<>>) = 0
    BY EmptySeq
  <2>2. \A i \in 1 .. n + 1 : i \in 1 .. n \/ i = n + 1
    BY <1>2
  <2> QED BY <1>2, <1>4, <1>5, <1>6, <2>1, <2>2 DEF ResultsShort
<1>9. RequestsAreAsked'
  BY <1>1, <1>2, <1>5, <1>6 DEF RequestsAreAsked
<1>10. RepliesArePings'
  BY <1>1, <1>2 DEF RepliesArePings
<1>11. HandledAsMeant'
  BY <1>2, <1>4, <1>5, <1>6 DEF HandledAsMeant
<1>12. ASSUME NEW i \in 1 .. n + 1
       PROVE  Len(calls'[i].handled) + Cardinality(InFlight(i)') + Left(i)' <= 3
  <2>1. InFlight(i)' = InFlight(i)
    BY <1>1 DEF InFlight
  <2>2. CASE i = n + 1
    <3>1. \A m \in requests : m.call \in 1 .. n
      BY <1>2 DEF RequestsAreAsked
    <3>2. \A m \in requests : m.call # n + 1
      BY <1>2, <3>1
    <3>3. InFlight(i) = {}
      BY <2>2, <3>2 DEF InFlight
    <3>4. Cardinality(InFlight(i)') = 0
      BY <2>1, <3>3, FS_EmptySet
    <3>5. Left(i)' = 3
      BY <2>2, <1>1, <1>5 DEF Left
    <3>6. Len(calls'[i].handled) = 0
      BY <2>2, <1>4, <1>5, EmptySeq
    <3> QED BY <3>4, <3>5, <3>6
  <2>3. CASE i \in 1 .. n
    <3>1. Left(i)' = 0 /\ Left(i) = 0
      BY <2>3, <1>1, <1>2, <1>5 DEF Left
    <3>2. Len(calls[i].handled) + Cardinality(InFlight(i)) + Left(i) <= 3
      BY <2>3, <1>2 DEF IInv, ThreeInAll
    <3> QED BY <3>1, <3>2, <2>1, <2>3, <1>5
  <2> QED BY <2>2, <2>3, <1>2
<1>13. ThreeInAll'
  BY <1>1, <1>2, <1>6, <1>12 DEF ThreeInAll
<1> QED BY <1>7, <1>8, <1>9, <1>10, <1>11, <1>13 DEF IInv

LEMMA StepSendRequest ==
    ASSUME IInv, SendRequest
    PROVE  IInv'
<1> DEFINE n == Len(calls)
           new == [socket |-> socket, call |-> n,
                   bytes |-> Sent(to_wire_ping(calls[n].ping))]
<1>1. /\ pc = "send" /\ pc' = "poll" /\ requests' = requests \cup {new}
      /\ UNCHANGED <<this_client, retries_left, socket, calls, replies,
                     ping_callbacks>>
  BY DEF SendRequest
<1>2. /\ Types /\ ResultsShort /\ RequestsAreAsked /\ RepliesArePings
      /\ HandledAsMeant /\ IsFiniteSet(requests)
      /\ n \in Nat /\ n > 0 /\ DOMAIN calls = 1 .. n
  BY <1>1, LenProperties DEF IInv, ThreeInAll, Types
<1>3. Types' /\ ResultsShort' /\ RepliesArePings' /\ HandledAsMeant'
  BY <1>1, <1>2 DEF Types, ResultsShort, RepliesArePings, HandledAsMeant
<1>4. /\ new.socket = socket /\ new.call = n
      /\ new.bytes = Sent(to_wire_ping(calls[n].ping))
  OBVIOUS
<1> HIDE DEF new, n
<1>5. RequestsAreAsked'
  BY <1>1, <1>2, <1>4 DEF RequestsAreAsked, Types
<1>6. IsFiniteSet(requests')
  BY <1>1, <1>2, FS_AddElement
<1>7. ASSUME NEW i \in 1 .. n
      PROVE  Len(calls[i].handled) + Cardinality(InFlight(i)') + Left(i)' <= 3
  <2>1. Len(calls[i].handled) + Cardinality(InFlight(i)) + Left(i) <= 3
    BY <1>2 DEF IInv, ThreeInAll
  <2>2. /\ Len(calls[i].handled) \in Nat /\ Left(i) \in Nat
        /\ IsFiniteSet(InFlight(i)) /\ Cardinality(InFlight(i)) \in Nat
    <3>1. calls[i] \in Calls
      BY <1>2, ElementOfSeq DEF Types, n
    <3>2. calls[i].handled \in Seq(Pings)
      BY <3>1 DEF Calls
    <3> QED BY <1>2, <3>2, LenProperties, LeftIsNat, InFlightFinite
  <2>3. CASE i = n
    <3>1. InFlight(i)' = InFlight(i) \cup {new}
      BY <1>1, <1>4, <2>3 DEF InFlight
    <3>2. Cardinality(InFlight(i)') <= Cardinality(InFlight(i)) + 1
      <4>1. Cardinality(InFlight(i) \cup {new}) =
                IF new \in InFlight(i) THEN Cardinality(InFlight(i))
                ELSE Cardinality(InFlight(i)) + 1
        BY <2>2, FS_AddElement
      <4> QED BY <4>1, <3>1, <2>2
    <3>3. Cardinality(InFlight(i)') \in Nat
      BY <2>2, <3>1, FS_AddElement, FS_CardinalityType
    <3>4. Left(i) = retries_left /\ Left(i)' = retries_left - 1
      BY <1>1, <2>3 DEF Left, n
    <3> QED BY <2>1, <2>2, <3>2, <3>3, <3>4, <1>2 DEF Types
  <2>4. CASE i # n
    <3>1. InFlight(i)' = InFlight(i)
      BY <1>1, <1>4, <2>4 DEF InFlight
    <3>2. Left(i)' = Left(i)
      BY <1>1, <2>4 DEF Left, n
    <3> QED BY <2>1, <3>1, <3>2
  <2> QED BY <2>3, <2>4
<1>8. ThreeInAll'
  BY <1>1, <1>2, <1>6, <1>7 DEF ThreeInAll
<1> QED BY <1>3, <1>5, <1>8 DEF IInv

\* A call returns x.
LEMMA StepFinish ==
    ASSUME IInv, pc = "poll", NEW x \in Seq(Pings), Len(x) <= 1, Finish(x),
           retries_left' \in 0 .. 3, UNCHANGED <<requests, ping_callbacks>>,
           replies' \subseteq replies
    PROVE  IInv'
<1>1. /\ Types /\ ResultsShort /\ RepliesArePings
      /\ calls \in Seq(Calls) /\ socket \in Nat /\ socket > 0
      /\ Len(calls) \in DOMAIN calls
  BY LenProperties DEF IInv, Types
<1>2. /\ calls' = [calls EXCEPT ![Len(calls)].result = x]
      /\ this_client' = TRUE /\ socket' = socket + 1 /\ pc' = "idle"
  OBVIOUS
<1>3. /\ calls' \in Seq(Calls) /\ Len(calls') = Len(calls)
      /\ DOMAIN calls' = DOMAIN calls
      /\ \A i \in DOMAIN calls :
            /\ calls'[i].ping = calls[i].ping
            /\ calls'[i].handled = calls[i].handled
            /\ calls'[i].result = IF i = Len(calls) THEN x ELSE calls[i].result
  BY <1>1, <1>2, SetResult
<1>4. Types'
  <2>1. this_client' \in BOOLEAN /\ (this_client' <=> pc' = "idle")
    BY <1>2
  <2> QED BY <1>1, <1>2, <1>3, <2>1 DEF Types
<1>5. ResultsShort'
  BY <1>1, <1>3 DEF ResultsShort
<1>6. RepliesArePings'
  BY <1>1, <1>2 DEF RepliesArePings
<1>7. \A i \in DOMAIN calls : Left(i)' <= Left(i)
  BY <1>1, <1>2, LeftIsNat DEF Left
<1> QED BY <1>2, <1>3, <1>4, <1>5, <1>6, <1>7, Quiet DEF IInv

LEMMA StepReceiveReply ==
    ASSUME IInv, ReceiveReply
    PROVE  IInv'
<1>1. PICK r \in replies, junk \in Junk :
          replies' = replies \ {r} /\ Finish(Result(r.bytes, junk))
  BY DEF ReceiveReply
<1>2. PICK p \in Pings : p.type <= MAX_PING_TYPE /\ r.bytes = Sent(to_wire_ping(p))
  BY DEF IInv, RepliesArePings
<1>3. serialize_from_ping(InMemory(r.bytes, junk)) \in Pings
  BY <1>2, HeaderCarries, RequestAssumption DEF Received
<1>4. Result(r.bytes, junk) \in Seq(Pings) /\ Len(Result(r.bytes, junk)) <= 1
  BY <1>3 DEF Result
<1>5. /\ pc = "poll" /\ retries_left' = retries_left /\ retries_left \in 0 .. 3
      /\ UNCHANGED <<requests, ping_callbacks>>
  BY DEF ReceiveReply, IInv, Types
<1> HIDE DEF Finish
<1> QED BY <1>1, <1>4, <1>5, StepFinish

LEMMA StepGiveUp ==
    ASSUME IInv, GiveUp
    PROVE  IInv'
<1>1. /\ pc = "poll" /\ retries_left' = 0 /\ Finish(<<ZeroPing>>)
      /\ UNCHANGED <<requests, replies, ping_callbacks>>
  BY DEF GiveUp
<1>2. ZeroPing \in Pings
  <2>1. 0 \in Codes /\ 0 \in Bytes /\ Zeros \in Excesses
    BY ZeroBytes
  <2> QED BY <2>1 DEF ZeroPing, Pings
<1> DEFINE x == <<ZeroPing>>
<1>3. x \in Seq(Pings) /\ Len(x) <= 1 /\ Finish(x)
  BY <1>1, <1>2
<1>4. retries_left' \in 0 .. 3 /\ replies' \subseteq replies
  BY <1>1
<1> HIDE DEF Finish, x
<1> QED BY <1>1, <1>3, <1>4, StepFinish

\* A step that leaves the calls alone and sends nothing.
LEMMA StepSilent ==
    ASSUME IInv, Types', UNCHANGED calls, requests' \subseteq requests,
           replies' \subseteq replies, socket' \in {socket, socket + 1},
           \A i \in DOMAIN calls : Left(i)' <= Left(i)
    PROVE  IInv'
<1>1. ResultsShort'
  BY DEF IInv, ResultsShort
<1>2. RepliesArePings'
  BY DEF IInv, RepliesArePings, Types
<1> QED BY <1>1, <1>2, Quiet DEF IInv

LEMMA StepRetry ==
    ASSUME IInv, Retry
    PROVE  IInv'
<1>1. /\ pc = "poll" /\ retries_left > 1 /\ retries_left' = retries_left - 1
      /\ socket' = socket + 1 /\ pc' = "send" /\ Types
      /\ UNCHANGED <<this_client, calls, requests, replies, ping_callbacks>>
  BY DEF Retry, IInv
<1>2. Types'
  BY <1>1 DEF Types
<1>3. \A i \in DOMAIN calls : Left(i)' <= Left(i)
  BY <1>1 DEF Left, Types
<1> QED BY <1>1, <1>2, <1>3, StepSilent

LEMMA StepElse ==
    ASSUME IInv,
           \/ \E type \in Echoed : RegisterPingFunc(type)
           \/ Lose
           \/ UNCHANGED vars
    PROVE  IInv'
<1>1. /\ UNCHANGED <<this_client, pc, retries_left, socket, calls>>
      /\ requests' \subseteq requests /\ replies' \subseteq replies
      /\ ping_callbacks' \subseteq Echoed /\ Types
  BY DEF RegisterPingFunc, Lose, vars, IInv, Types
<1>2. Types'
  BY <1>1 DEF Types
<1>3. \A i \in DOMAIN calls : Left(i)' <= Left(i)
  <2>1. \A i \in DOMAIN calls : Left(i)' = Left(i) /\ Left(i) \in Nat
    BY <1>1, LeftIsNat DEF Left
  <2> QED BY <2>1
<1> QED BY <1>1, <1>2, <1>3, StepSilent

\* What the other node understands of a request is what the header carries of
\* the ping that was asked, and its answer is a ping of a known type.
LEMMA HandledPing ==
    ASSUME NEW q \in Asked, NEW junk \in Junk,
           NEW p, p = serialize_from_ping(InMemory(Sent(to_wire_ping(q)), junk))
    PROVE  /\ p \in Pings /\ Carried(p) = Carried(q)
           /\ Answer(p) \in Pings /\ Answer(p).type <= MAX_PING_TYPE
<1>1. q \in Pings /\ q.type <= MAX_PING_TYPE /\ junk \in Bytes
  BY AskedArePings, RequestAssumption
<1>2. p \in Pings /\ Carried(p) = Carried(q)
  BY <1>1, HeaderCarries DEF Received
<1>3. p.type = q.type
  BY <1>2 DEF Carried
<1> DEFINE ack == [ZeroPing EXCEPT !.type = ACK]
<1>4. ack = [type |-> 1, code |-> 0, excess |-> Zeros]
  BY DEF ZeroPing, ACK
<1>5. /\ 0 \in Codes /\ 1 \in Bytes /\ Zeros \in Excesses
  BY ZeroBytes
<1>6. ack \in Pings /\ ack.type <= MAX_PING_TYPE
  BY <1>4, <1>5 DEF Pings, MAX_PING_TYPE, STATE_REQUEST
<1> HIDE DEF ack
<1>7. Answer(p) = p \/ Answer(p) = ack
  BY DEF Answer, ack
<1> QED BY <1>1, <1>2, <1>3, <1>6, <1>7

LEMMA StepHandle ==
    ASSUME IInv, Handle
    PROVE  IInv'
<1>1. PICK m \in requests, junk \in Junk :
          LET p == serialize_from_ping(InMemory(m.bytes, junk)) IN
          /\ requests' = requests \ {m}
          /\ calls' = [calls EXCEPT ![m.call].handled = Append(@, p)]
          /\ replies' = IF pc = "poll" /\ m.socket = socket
                        THEN replies \cup
                             {[socket |-> m.socket,
                               bytes |-> Sent(to_wire_ping(Answer(p)))]}
                        ELSE replies
  BY DEF Handle
<1> DEFINE p == serialize_from_ping(InMemory(m.bytes, junk))
           c == m.call
           reply == [socket |-> m.socket, bytes |-> Sent(to_wire_ping(Answer(p)))]
<1>2. /\ UNCHANGED <<this_client, pc, retries_left, socket, ping_callbacks>>
      /\ requests' = requests \ {m}
      /\ calls' = [calls EXCEPT ![c].handled = Append(@, p)]
      /\ replies' \subseteq replies \cup {reply}
  BY <1>1 DEF Handle
<1>3. /\ Types /\ ResultsShort /\ RequestsAreAsked /\ RepliesArePings
      /\ HandledAsMeant /\ ThreeInAll /\ IsFiniteSet(requests)
      /\ calls \in Seq(Calls)
      /\ c \in DOMAIN calls /\ m.socket \in 1 .. socket
      /\ m.bytes = Sent(to_wire_ping(calls[c].ping))
  BY DEF IInv, Types, RequestsAreAsked, ThreeInAll
<1>4. calls[c] \in Calls /\ calls[c].ping \in Asked
  <2>1. calls[c] \in Calls
    BY <1>3, LenProperties, ElementOfSeq
  <2> QED BY <2>1 DEF Calls
<1>5. /\ p \in Pings /\ Carried(p) = Carried(calls[c].ping)
      /\ Answer(p) \in Pings /\ Answer(p).type <= MAX_PING_TYPE
  BY <1>3, <1>4, HandledPing
<1>6. reply.socket \in 1 .. socket /\ reply.bytes = Sent(to_wire_ping(Answer(p)))
  BY <1>3
<1> HIDE DEF p, c, reply
<1>7. /\ calls' \in Seq(Calls) /\ Len(calls') = Len(calls)
      /\ DOMAIN calls' = DOMAIN calls
      /\ \A i \in DOMAIN calls :
            /\ calls'[i].ping = calls[i].ping
            /\ calls'[i].result = calls[i].result
            /\ calls'[i].handled = IF i = c THEN Append(calls[i].handled, p)
                                   ELSE calls[i].handled
  BY <1>2, <1>3, <1>5, SetHandled
<1>8. /\ calls[c].handled \in Seq(Pings)
      /\ Len(calls'[c].handled) = Len(calls[c].handled) + 1
      /\ Len(calls[c].handled) \in Nat
      /\ \A k \in DOMAIN calls'[c].handled :
            \/ k \in DOMAIN calls[c].handled /\ calls'[c].handled[k] = calls[c].handled[k]
            \/ calls'[c].handled[k] = p
  <2>1. calls[c].handled \in Seq(Pings)
    BY <1>4 DEF Calls
  <2>2. calls'[c].handled = Append(calls[c].handled, p)
    BY <1>3, <1>7
  <2>3. /\ DOMAIN calls[c].handled = 1 .. Len(calls[c].handled)
        /\ Len(calls[c].handled) \in Nat
    BY <2>1, LenProperties
  <2>4. /\ Append(calls[c].handled, p) \in Seq(Pings)
        /\ Len(Append(calls[c].handled, p)) = Len(calls[c].handled) + 1
        /\ \A k \in 1 .. Len(calls[c].handled) :
              Append(calls[c].handled, p)[k] = calls[c].handled[k]
        /\ Append(calls[c].handled, p)[Len(calls[c].handled) + 1] = p
    BY <2>1, <1>5, AppendProperties
  <2>5. DOMAIN Append(calls[c].handled, p) = 1 .. Len(calls[c].handled) + 1
    BY <2>4, LenProperties
  <2>6. \A k \in 1 .. Len(calls[c].handled) + 1 :
            k \in 1 .. Len(calls[c].handled) \/ k = Len(calls[c].handled) + 1
    BY <2>3
  <2> QED BY <2>1, <2>2, <2>3, <2>4, <2>5, <2>6
<1>9. Types'
  BY <1>2, <1>3, <1>7 DEF Types
<1>10. ResultsShort'
  BY <1>3, <1>7 DEF ResultsShort
<1>11. RequestsAreAsked'
  BY <1>2, <1>3, <1>7 DEF RequestsAreAsked
<1>12. RepliesArePings'
  BY <1>2, <1>3, <1>5, <1>6 DEF RepliesArePings
<1>13. HandledAsMeant'
  <2>1. ASSUME NEW i \in DOMAIN calls, NEW k \in DOMAIN calls'[i].handled
        PROVE  Carried(calls'[i].handled[k]) = Carried(calls'[i].ping)
    <3>1. CASE i = c
      BY <3>1, <1>3, <1>5, <1>7, <1>8 DEF HandledAsMeant
    <3>2. CASE i # c
      BY <3>2, <1>3, <1>7 DEF HandledAsMeant
    <3> QED BY <3>1, <3>2
  <2> QED BY <2>1, <1>7 DEF HandledAsMeant
<1>14. ASSUME NEW i \in DOMAIN calls
       PROVE  Len(calls'[i].handled) + Cardinality(InFlight(i)') + Left(i)' <= 3
  <2>1. Left(i)' = Left(i) /\ Left(i) \in Nat
    BY <1>2, <1>3, <1>7, LeftIsNat DEF Left
  <2>2. Len(calls[i].handled) + Cardinality(InFlight(i)) + Left(i) <= 3
    BY <1>3 DEF ThreeInAll
  <2>3. CASE i = c
    <3>1. InFlight(i)' = InFlight(i) \ {m} /\ m \in InFlight(i)
      BY <1>2, <2>3 DEF InFlight, c
    <3>2. IsFiniteSet(InFlight(i)) /\ Cardinality(InFlight(i)) \in Nat
      BY <1>3, InFlightFinite
    <3>3. Cardinality(InFlight(i)') = Cardinality(InFlight(i)) - 1
      BY <3>1, <3>2, FS_RemoveElement
    <3> QED BY <2>1, <2>2, <2>3, <3>2, <3>3, <1>8
  <2>4. CASE i # c
    <3>1. InFlight(i)' = InFlight(i)
      BY <1>2, <2>4 DEF InFlight, c
    <3> QED BY <2>1, <2>2, <2>4, <3>1, <1>7
  <2> QED BY <2>3, <2>4
<1>15. ThreeInAll'
  <2>1. IsFiniteSet(requests')
    BY <1>2, <1>3, FS_RemoveElement
  <2> QED BY <2>1, <1>7, <1>14 DEF ThreeInAll
<1> QED BY <1>9, <1>10, <1>11, <1>12, <1>13, <1>15 DEF IInv

LEMMA StepIInv ==
    ASSUME IInv, [Next]_vars
    PROVE  IInv'
BY StepPingEndpoint, StepSendRequest, StepReceiveReply, StepRetry, StepGiveUp,
   StepHandle, StepElse DEF Next, ClientStep

LEMMA Invariance == Spec => []IInv
<1>1. IInv /\ [Next]_vars => IInv'
  BY StepIInv
<1> QED BY <1>1, InitIInv, PTL DEF Spec

\* Between two calls the client has a socket for the next one, after a failed
\* call, too; every message on its way belongs to a socket there was.
THEOREM TypeCorrect == Spec => []TypeOK
<1>1. IInv => TypeOK
  <2> SUFFICES ASSUME IInv PROVE TypeOK
      OBVIOUS
  <2>1. Types /\ ResultsShort /\ RequestsAreAsked /\ RepliesArePings
    BY DEF IInv
  <2>2. ASSUME NEW i \in DOMAIN calls
        PROVE  /\ calls[i].ping \in Asked
               /\ calls[i].handled \in Seq(Pings)
               /\ calls[i].result \in Seq(Pings) /\ Len(calls[i].result) <= 1
    <3>1. calls[i] \in Calls
      BY <2>1, LenProperties, ElementOfSeq DEF Types
    <3> QED BY <3>1, <2>1 DEF Calls, ResultsShort
  <2> QED BY <2>1, <2>2 DEF TypeOK, Types, RequestsAreAsked, RepliesArePings
<1> QED BY <1>1, Invariance, PTL

\* Whatever the network and the memory of the receiver do, a request is
\* handled three times at most, and as what its header says.
THEOREM RequestsHandledAsAsked == Spec => []HandledAsAsked
<1>1. IInv => HandledAsAsked
  <2> SUFFICES ASSUME IInv, NEW i \in DOMAIN calls
               PROVE  Len(calls[i].handled) <= 3
      BY DEF IInv, HandledAsMeant, HandledAsAsked
  <2>1. Len(calls[i].handled) + Cardinality(InFlight(i)) + Left(i) <= 3
    BY DEF IInv, ThreeInAll
  <2>2. Cardinality(InFlight(i)) \in Nat /\ Left(i) \in Nat
    BY InFlightFinite, LeftIsNat DEF IInv, ThreeInAll
  <2>3. calls[i].handled \in Seq(Pings)
    <3>1. calls[i] \in Calls
      BY LenProperties, ElementOfSeq DEF IInv, Types
    <3> QED BY <3>1 DEF Calls
  <2>4. Len(calls[i].handled) \in Nat
    BY <2>3, LenProperties
  <2> QED BY <2>1, <2>2, <2>4
<1> QED BY <1>1, Invariance, PTL

-----------------------------------------------------------------------------
(* Request implements RequestReply. A reply that is received was given to  *)
(* the call that receives it, as its socket carried no other call.         *)

AnswersTo(q) == {Carried([ZeroPing EXCEPT !.type = ACK])} \cup
                (IF q.type \in Echoed THEN {q} ELSE {})

ResultOfCall ==
    \A i \in DOMAIN calls :
        calls[i].result = <<>> <=> (i = Len(calls) /\ pc # "idle")

\* Nothing was sent over the socket of the next request.
SocketIsNew ==
    pc # "poll" => /\ \A m \in requests : m.socket # socket
                   /\ \A r \in replies : r.socket # socket

SocketHasCall ==
    pc = "poll" => \A m \in requests : m.socket = socket => m.call = Len(calls)

AnswerTo(r, c) ==
    /\ Len(c.handled) > 0
    /\ \E p \in Pings : /\ p.type <= MAX_PING_TYPE
                        /\ r.bytes = Sent(to_wire_ping(p))
                        /\ Carried(p) \in AnswersTo(Carried(c.ping))

ReplyIsAnswer ==
    pc = "poll" => \A r \in replies :
        r.socket = socket => AnswerTo(r, calls[Len(calls)])

RInv == ResultOfCall /\ SocketIsNew /\ SocketHasCall /\ ReplyIsAnswer

LEMMA InitRInv == Init => RInv
BY DEF Init, RInv, ResultOfCall, SocketIsNew, SocketHasCall, ReplyIsAnswer

\* What the steps do to the calls, as far as RequestReply sees it.
LEMMA FinishRInv ==
    ASSUME IInv, RInv, pc = "poll", NEW x \in Seq(Pings), x # <<>>, Finish(x),
           UNCHANGED requests, replies' \subseteq replies
    PROVE  RInv'
<1>1. /\ calls \in Seq(Calls) /\ socket \in Nat /\ Len(calls) \in DOMAIN calls
      /\ \A m \in requests : m.socket \in 1 .. socket
      /\ \A r \in replies : r.socket \in 1 .. socket
  BY LenProperties DEF IInv, Types, RequestsAreAsked, RepliesArePings
<1>2. /\ calls' = [calls EXCEPT ![Len(calls)].result = x]
      /\ socket' = socket + 1 /\ pc' = "idle"
  OBVIOUS
<1>3. /\ Len(calls') = Len(calls) /\ DOMAIN calls' = DOMAIN calls
      /\ \A i \in DOMAIN calls :
            calls'[i].result = IF i = Len(calls) THEN x ELSE calls[i].result
  BY <1>1, <1>2, SetResult
<1>4. ResultOfCall'
  BY <1>1, <1>2, <1>3 DEF RInv, ResultOfCall
<1>5. SocketIsNew'
  BY <1>1, <1>2 DEF SocketIsNew
<1> QED BY <1>2, <1>4, <1>5 DEF RInv, SocketHasCall, ReplyIsAnswer

LEMMA HandleRInv ==
    ASSUME IInv, RInv, Handle
    PROVE  RInv'
<1>1. PICK m \in requests, junk \in Junk :
          LET p == serialize_from_ping(InMemory(m.bytes, junk)) IN
          /\ requests' = requests \ {m}
          /\ calls' = [calls EXCEPT ![m.call].handled = Append(@, p)]
          /\ replies' = IF pc = "poll" /\ m.socket = socket
                        THEN replies \cup
                             {[socket |-> m.socket,
                               bytes |-> Sent(to_wire_ping(Answer(p)))]}
                        ELSE replies
  BY DEF Handle
<1> DEFINE p == serialize_from_ping(InMemory(m.bytes, junk))
           c == m.call
           reply == [socket |-> m.socket, bytes |-> Sent(to_wire_ping(Answer(p)))]
<1>2. /\ UNCHANGED <<pc, socket>>
      /\ requests' = requests \ {m}
      /\ calls' = [calls EXCEPT ![c].handled = Append(@, p)]
      /\ replies' = IF pc = "poll" /\ m.socket = socket
                    THEN replies \cup {reply} ELSE replies
  BY <1>1 DEF Handle
<1>3. /\ calls \in Seq(Calls) /\ c \in DOMAIN calls
      /\ m.bytes = Sent(to_wire_ping(calls[c].ping))
      /\ ping_callbacks \subseteq Echoed
  BY DEF IInv, Types, RequestsAreAsked
<1>4. \A i \in DOMAIN calls : calls[i] \in Calls
  BY <1>3, LenProperties, ElementOfSeq
<1>5. /\ p \in Pings /\ Carried(p) = Carried(calls[c].ping)
      /\ Answer(p) \in Pings /\ Answer(p).type <= MAX_PING_TYPE
  BY <1>3, <1>4, HandledPing DEF Calls
<1>6. Carried(Answer(p)) \in AnswersTo(Carried(calls[c].ping))
  <2>1. CASE p.type \in ping_callbacks
    <3>1. Carried(calls[c].ping).type \in Echoed
      BY <2>1, <1>3, <1>5 DEF Carried
    <3> QED BY <2>1, <3>1, <1>5 DEF Answer, AnswersTo
  <2>2. CASE p.type \notin ping_callbacks
    BY <2>2 DEF Answer, AnswersTo
  <2> QED BY <2>1, <2>2
<1>7. reply.socket = m.socket /\ reply.bytes = Sent(to_wire_ping(Answer(p)))
  OBVIOUS
<1> HIDE DEF p, c, reply
<1>8. /\ Len(calls') = Len(calls) /\ DOMAIN calls' = DOMAIN calls
      /\ \A i \in DOMAIN calls :
            /\ calls'[i].ping = calls[i].ping
            /\ calls'[i].result = calls[i].result
            /\ calls'[i].handled = IF i = c THEN Append(calls[i].handled, p)
                                   ELSE calls[i].handled
  BY <1>2, <1>3, <1>5, SetHandled
<1>9. /\ Len(calls'[c].handled) > 0
      /\ \A i \in DOMAIN calls :
            Len(calls[i].handled) > 0 => Len(calls'[i].handled) > 0
  <2>1. /\ calls[c].handled \in Seq(Pings) /\ Len(calls[c].handled) \in Nat
    BY <1>3, <1>4, LenProperties DEF Calls
  <2>2. calls'[c].handled = Append(calls[c].handled, p)
    BY <1>3, <1>8
  <2>3. Len(calls'[c].handled) = Len(calls[c].handled) + 1
    BY <2>1, <2>2, <1>5, AppendProperties
  <2> QED BY <2>1, <2>3, <1>3, <1>8
<1>10. ResultOfCall'
  BY <1>2, <1>8 DEF RInv, ResultOfCall
<1>11. SocketIsNew' /\ SocketHasCall'
  BY <1>2, <1>8 DEF RInv, SocketIsNew, SocketHasCall
<1>12. ASSUME pc = "poll", NEW r \in replies', r.socket = socket
       PROVE  AnswerTo(r, calls'[Len(calls)])
  <2>0. Len(calls) \in DOMAIN calls
    BY <1>12, LenProperties DEF IInv, Types
  <2>1. CASE r \in replies
    <3>1. AnswerTo(r, calls[Len(calls)])
      BY <2>1, <1>12 DEF RInv, ReplyIsAnswer
    <3> QED BY <2>0, <3>1, <1>8, <1>9 DEF AnswerTo
  <2>2. CASE r \notin replies
    <3>1. r = reply /\ m.socket = socket
      BY <2>2, <1>2, <1>12
    <3>2. c = Len(calls)
      BY <3>1, <1>12 DEF RInv, SocketHasCall, c
    <3> QED BY <2>0, <3>1, <3>2, <1>5, <1>6, <1>7, <1>8, <1>9 DEF AnswerTo
  <2> QED BY <2>1, <2>2
<1>13. ReplyIsAnswer'
  BY <1>2, <1>8, <1>12 DEF ReplyIsAnswer
<1> QED BY <1>10, <1>11, <1>13 DEF RInv

\* What a reply makes a call return.
LEMMA ReceivedResult ==
    ASSUME IInv, RInv, pc = "poll", NEW r \in replies, r.socket = socket,
           NEW junk \in Junk
    PROVE  LET x == Result(r.bytes, junk)
               c == calls[Len(calls)]
           IN /\ x \in Seq(Pings) /\ x # <<>>
              /\ Len(c.handled) > 0 /\ Carried(x[1]) \in AnswersTo(Carried(c.ping))
<1> DEFINE c == calls[Len(calls)]
<1>1. AnswerTo(r, c)
  BY DEF RInv, ReplyIsAnswer
<1> HIDE DEF c
<1>2. PICK p \in Pings : /\ p.type <= MAX_PING_TYPE
                         /\ r.bytes = Sent(to_wire_ping(p))
                         /\ Carried(p) \in AnswersTo(Carried(c.ping))
  BY <1>1 DEF AnswerTo
<1> DEFINE back == serialize_from_ping(InMemory(r.bytes, junk))
<1>3. back \in Pings /\ Carried(back) = Carried(p)
  BY <1>2, HeaderCarries, RequestAssumption DEF Received
<1> HIDE DEF back
<1>4. <<back>> \in Seq(Pings) /\ <<back>> # <<>> /\ <<back>>[1] = back
  BY <1>3
<1>5. Result(r.bytes, junk) = <<back>>
  BY DEF Result, back
<1> QED BY <1>1, <1>2, <1>3, <1>4, <1>5 DEF AnswerTo, c

LEMMA StepRInv ==
    ASSUME IInv, RInv, [Next]_vars
    PROVE  RInv'
<1>0. /\ calls \in Seq(Calls) /\ socket \in Nat /\ socket > 0
      /\ Len(calls) \in Nat /\ DOMAIN calls = 1 .. Len(calls)
      /\ \A m \in requests : m.socket \in 1 .. socket
      /\ \A r \in replies : r.socket \in 1 .. socket
  BY LenProperties DEF IInv, Types, RequestsAreAsked, RepliesArePings
<1>1. ASSUME NEW q \in Asked, PingEndpoint(q)
      PROVE  RInv'
  <2> DEFINE new == [ping |-> q, handled |-> <<>>, result |-> <<>>]
             n == Len(calls)
  <2>1. /\ pc = "idle" /\ pc' = "send" /\ calls' = Append(calls, new)
        /\ UNCHANGED <<socket, requests, replies>>
    BY <1>1 DEF PingEndpoint
  <2>2. new \in Calls /\ new.result = <<>>
    BY EmptySeq DEF Calls
  <2> HIDE DEF new
  <2>3. /\ calls' \in Seq(Calls) /\ Len(calls') = n + 1
        /\ \A i \in 1 .. n : calls'[i] = calls[i]
        /\ calls'[n + 1] = new
    BY <2>1, <2>2, <1>0, AppendProperties
  <2>4. DOMAIN calls' = 1 .. n + 1
    BY <2>3, LenProperties
  <2>5. \A i \in 1 .. n : calls[i].result # <<>>
    BY <2>1, <1>0 DEF RInv, ResultOfCall
  <2> HIDE DEF n
  <2>6. n \in Nat
    BY <1>0 DEF n
  <2>7. ResultOfCall'
    BY <2>1, <2>2, <2>3, <2>4, <2>5, <2>6 DEF ResultOfCall
  <2> QED BY <2>1, <2>7 DEF RInv, SocketIsNew, SocketHasCall, ReplyIsAnswer
<1>2. CASE SendRequest
  <2> DEFINE new == [socket |-> socket, call |-> Len(calls),
                     bytes |-> Sent(to_wire_ping(calls[Len(calls)].ping))]
  <2>1. /\ pc = "send" /\ pc' = "poll" /\ requests' = requests \cup {new}
        /\ UNCHANGED <<socket, calls, replies>>
    BY <1>2 DEF SendRequest
  <2>2. new.call = Len(calls)
    OBVIOUS
  <2> HIDE DEF new
  <2> QED BY <2>1, <2>2 DEF RInv, ResultOfCall, SocketIsNew, SocketHasCall,
                            ReplyIsAnswer
<1>3. CASE ReceiveReply
  <2>1. PICK r \in replies, junk \in Junk :
            /\ r.socket = socket /\ replies' = replies \ {r}
            /\ Finish(Result(r.bytes, junk))
    BY <1>3 DEF ReceiveReply
  <2>2. pc = "poll" /\ UNCHANGED requests
    BY <1>3 DEF ReceiveReply
  <2> DEFINE x == Result(r.bytes, junk)
  <2>3. x \in Seq(Pings) /\ x # <<>> /\ Finish(x)
    BY <2>1, <2>2, ReceivedResult
  <2> HIDE DEF x, Finish
  <2> QED BY <2>1, <2>2, <2>3, FinishRInv
<1>4. CASE Retry
  BY <1>0, <1>4 DEF Retry, RInv, ResultOfCall, SocketIsNew, SocketHasCall,
                    ReplyIsAnswer
<1>5. CASE GiveUp
  <2> DEFINE x == <<ZeroPing>>
  <2>1. 0 \in Codes /\ 0 \in Bytes /\ Zeros \in Excesses
    BY ZeroBytes
  <2>2. ZeroPing \in Pings
    BY <2>1 DEF ZeroPing, Pings
  <2>3. x \in Seq(Pings) /\ x # <<>> /\ Finish(x)
    BY <1>5, <2>2 DEF GiveUp
  <2>4. pc = "poll" /\ UNCHANGED <<requests, replies>>
    BY <1>5 DEF GiveUp
  <2> HIDE DEF x, Finish
  <2> QED BY <2>3, <2>4, FinishRInv
<1>6. CASE Handle
  BY <1>6, HandleRInv
<1>7. CASE \/ \E type \in Echoed : RegisterPingFunc(type)
           \/ Lose
           \/ UNCHANGED vars
  <2>1. /\ UNCHANGED <<pc, socket, calls>>
        /\ requests' \subseteq requests /\ replies' \subseteq replies
    BY <1>7 DEF RegisterPingFunc, Lose, vars
  <2>2. ResultOfCall' /\ SocketIsNew' /\ SocketHasCall'
    BY <2>1 DEF RInv, ResultOfCall, SocketIsNew, SocketHasCall
  <2>3. ReplyIsAnswer'
    BY <2>1 DEF RInv, ReplyIsAnswer, AnswerTo
  <2> QED BY <2>2, <2>3 DEF RInv
<1> QED BY <1>1, <1>2, <1>3, <1>4, <1>5, <1>6, <1>7 DEF Next, ClientStep

\* The calls as RequestReply has them.
AbstractResult(x) == IF x = <<>> THEN <<>> ELSE <<Carried(x[1])>>

AbstractCall(c) == [request |-> Carried(c.ping), handled |-> Len(c.handled),
                    result |-> AbstractResult(c.result)]

AbstractOf(s) == [i \in DOMAIN s |-> AbstractCall(s[i])]

AbstractCalls == AbstractOf(calls)

AbstractSet == [request : {Carried(q) : q \in Asked}, handled : Nat,
                result : {AbstractResult(x) : x \in Seq(Pings)}]

LEMMA AbstractType ==
    ASSUME NEW s \in Seq(Calls)
    PROVE  /\ AbstractOf(s) \in Seq(AbstractSet)
           /\ Len(AbstractOf(s)) = Len(s)
           /\ \A i \in DOMAIN s : AbstractOf(s)[i] = AbstractCall(s[i])
<1> DEFINE n == Len(s)
<1>1. n \in Nat /\ DOMAIN s = 1 .. n
  BY LenProperties
<1>2. ASSUME NEW i \in 1 .. n
      PROVE  AbstractCall(s[i]) \in AbstractSet
  <2>1. s[i] \in Calls
    BY <1>1, ElementOfSeq
  <2>2. /\ s[i].ping \in Asked /\ s[i].handled \in Seq(Pings)
        /\ s[i].result \in Seq(Pings)
    BY <2>1 DEF Calls
  <2>3. Len(s[i].handled) \in Nat
    BY <2>2, LenProperties
  <2> QED BY <2>2, <2>3 DEF AbstractCall, AbstractSet
<1>3. AbstractOf(s) \in [1 .. n -> AbstractSet]
  BY <1>1, <1>2 DEF AbstractOf
<1>4. AbstractOf(s) \in Seq(AbstractSet)
  BY <1>1, <1>3, SeqDef
<1>5. Len(AbstractOf(s)) = n
  BY <1>1, <1>3, <1>4, LenProperties
<1> QED BY <1>4, <1>5 DEF AbstractOf

\* The steps of RequestReply, in terms of AbstractCalls.
LEMMA AbstractCallStep ==
    ASSUME NEW q \in Asked,
           \A i \in DOMAIN calls : AbstractCalls[i].result # <<>>,
           AbstractCalls' = Append(AbstractCalls,
               [request |-> Carried(q), handled |-> 0, result |-> <<>>])
    PROVE  Abstract!Next
<1>1. Abstract!Call(Carried(q))
  BY DEF Abstract!Call, Abstract!Returned, Abstract!Pending, AbstractCalls, AbstractOf,
         AbstractCall, AbstractResult
<1> QED BY <1>1 DEF Abstract!Next

LEMMA AbstractHandleStep ==
    ASSUME NEW i \in DOMAIN calls, AbstractCalls[i].handled < 3,
           AbstractCalls' = [AbstractCalls EXCEPT ![i].handled = @ + 1]
    PROVE  Abstract!Next
<1>1. Abstract!Handle(i)
  BY DEF Abstract!Handle, AbstractCalls, AbstractOf, AbstractCall, AbstractResult
<1> QED BY <1>1 DEF Abstract!Next

LEMMA AbstractReturnStep ==
    ASSUME NEW i \in DOMAIN calls, AbstractCalls[i].result = <<>>,
           NEW r, \/ r = Carried(ZeroPing)
                  \/ /\ AbstractCalls[i].handled > 0
                     /\ r \in AnswersTo(AbstractCalls[i].request),
           AbstractCalls' = [AbstractCalls EXCEPT ![i].result = <<r>>]
    PROVE  Abstract!Next
<1>1. Abstract!Return(i)
  BY DEF Abstract!Return, Abstract!Pending, AbstractCalls, AbstractOf, AbstractCall,
         AbstractResult, AnswersTo
<1> QED BY <1>1 DEF Abstract!Next

\* A call that returns x returns it in RequestReply, too.
LEMMA FinishReturns ==
    ASSUME IInv, RInv, pc = "poll", NEW x \in Seq(Pings), x # <<>>, Finish(x),
           LET c == calls[Len(calls)] IN
           \/ Carried(x[1]) = Carried(ZeroPing)
           \/ /\ Len(c.handled) > 0
              /\ Carried(x[1]) \in AnswersTo(Carried(c.ping))
    PROVE  Abstract!Next
<1> DEFINE n == Len(calls)
           r == Carried(x[1])
<1>1. calls \in Seq(Calls) /\ n \in DOMAIN calls
  BY LenProperties DEF IInv, Types
<1>2. /\ DOMAIN calls' = DOMAIN calls
      /\ \A i \in DOMAIN calls :
            /\ calls'[i].ping = calls[i].ping
            /\ calls'[i].handled = calls[i].handled
            /\ calls'[i].result = IF i = n THEN x ELSE calls[i].result
  BY <1>1, SetResult
<1>3. \A i \in DOMAIN calls : AbstractCalls[i] = AbstractCall(calls[i])
  BY DEF AbstractCalls, AbstractOf
<1>4. calls[n].result = <<>>
  BY <1>1 DEF RInv, ResultOfCall
<1>5. /\ AbstractCalls[n].result = <<>>
      /\ AbstractCalls[n].handled = Len(calls[n].handled)
      /\ AbstractCalls[n].request = Carried(calls[n].ping)
  <2>1. AbstractCalls[n] = AbstractCall(calls[n])
    BY <1>1, <1>3
  <2>2. AbstractResult(calls[n].result) = <<>>
    BY <1>4 DEF AbstractResult
  <2> QED BY <2>1, <2>2 DEF AbstractCall
<1>6. \/ r = Carried(ZeroPing)
      \/ /\ AbstractCalls[n].handled > 0
         /\ r \in AnswersTo(AbstractCalls[n].request)
  BY <1>5
<1> HIDE DEF n, r
<1>7. ASSUME NEW i \in DOMAIN calls
      PROVE  AbstractCall(calls'[i]) =
                 IF i = n THEN [AbstractCalls[n] EXCEPT !.result = <<r>>]
                 ELSE AbstractCalls[i]
  <2>1. CASE i = n
    <3>1. AbstractResult(calls'[i].result) = <<r>>
      BY <2>1, <1>2 DEF AbstractResult, r
    <3>2. AbstractCall(calls'[i]) =
              [request |-> Carried(calls[n].ping),
               handled |-> Len(calls[n].handled), result |-> <<r>>]
      BY <2>1, <3>1, <1>2 DEF AbstractCall
    <3>3. AbstractCalls[n] =
              [request |-> Carried(calls[n].ping),
               handled |-> Len(calls[n].handled),
               result |-> AbstractResult(calls[n].result)]
      BY <1>1, <1>3 DEF AbstractCall
    <3>4. [AbstractCalls[n] EXCEPT !.result = <<r>>] =
              [request |-> Carried(calls[n].ping),
               handled |-> Len(calls[n].handled), result |-> <<r>>]
      BY <3>3
    <3>5. AbstractCall(calls'[i]) = [AbstractCalls[n] EXCEPT !.result = <<r>>]
      BY <3>2, <3>4, Zenon
    <3> QED BY <2>1, <3>5, Zenon
  <2>2. CASE i # n
    <3>1. /\ calls'[i].ping = calls[i].ping
          /\ calls'[i].handled = calls[i].handled
          /\ calls'[i].result = calls[i].result
      BY <2>2, <1>2
    <3>2. AbstractCall(calls'[i]) = AbstractCall(calls[i])
      BY <3>1, Zenon DEF AbstractCall
    <3>3. AbstractCall(calls'[i]) = AbstractCalls[i]
      BY <3>2, <1>3, Zenon
    <3> QED BY <2>2, <3>3, Zenon
  <2> QED BY <2>1, <2>2
<1>8. AbstractCalls' = [AbstractCalls EXCEPT ![n].result = <<r>>]
  <2>1. AbstractCalls' = [i \in DOMAIN calls |-> AbstractCall(calls'[i])]
    BY <1>2 DEF AbstractCalls, AbstractOf
  <2>2. DOMAIN AbstractCalls = DOMAIN calls
    BY DEF AbstractCalls, AbstractOf
  <2> QED BY <2>1, <2>2, <1>7
<1> QED BY <1>1, <1>5, <1>6, <1>8, AbstractReturnStep DEF n

LEMMA HandleHandles ==
    ASSUME IInv, Handle
    PROVE  Abstract!Next
<1>1. PICK m \in requests, junk \in Junk :
          calls' = [calls EXCEPT ![m.call].handled =
                       Append(@, serialize_from_ping(InMemory(m.bytes, junk)))]
  BY DEF Handle
<1> DEFINE p == serialize_from_ping(InMemory(m.bytes, junk))
           c == m.call
<1>2. /\ calls \in Seq(Calls) /\ c \in DOMAIN calls
      /\ m.bytes = Sent(to_wire_ping(calls[c].ping))
  BY DEF IInv, Types, RequestsAreAsked
<1>3. \A i \in DOMAIN calls : calls[i] \in Calls
  BY <1>2, LenProperties, ElementOfSeq
<1>4. p \in Pings
  BY <1>2, <1>3, HandledPing DEF Calls
<1>5. calls' = [calls EXCEPT ![c].handled = Append(@, p)]
  BY <1>1
<1>6. Len(calls[c].handled) < 3
  <2>1. Len(calls[c].handled) + Cardinality(InFlight(c)) + Left(c) <= 3
    BY <1>2 DEF IInv, ThreeInAll
  <2>2. m \in InFlight(c) /\ IsFiniteSet(InFlight(c)) /\ Left(c) \in Nat
    BY InFlightFinite, LeftIsNat DEF IInv, ThreeInAll, InFlight
  <2>3. Cardinality(InFlight(c)) \in Nat /\ Cardinality(InFlight(c)) # 0
    BY <2>2, FS_CardinalityType, FS_EmptySet
  <2>4. Len(calls[c].handled) \in Nat
    BY <1>2, <1>3, LenProperties DEF Calls
  <2> QED BY <2>1, <2>2, <2>3, <2>4
<1> HIDE DEF p, c
<1>7. /\ DOMAIN calls' = DOMAIN calls
      /\ \A i \in DOMAIN calls :
            /\ calls'[i].ping = calls[i].ping
            /\ calls'[i].result = calls[i].result
            /\ calls'[i].handled = IF i = c THEN Append(calls[i].handled, p)
                                   ELSE calls[i].handled
  BY <1>2, <1>4, <1>5, SetHandled
<1>8. Len(calls'[c].handled) = Len(calls[c].handled) + 1
  <2>1. calls[c].handled \in Seq(Pings)
    BY <1>2, <1>3 DEF Calls
  <2>2. calls'[c].handled = Append(calls[c].handled, p)
    BY <1>2, <1>7
  <2> QED BY <2>1, <2>2, <1>4, AppendProperties
<1>9. \A i \in DOMAIN calls : AbstractCalls[i] = AbstractCall(calls[i])
  BY DEF AbstractCalls, AbstractOf
<1>10. ASSUME NEW i \in DOMAIN calls
       PROVE  AbstractCall(calls'[i]) =
                  IF i = c THEN [AbstractCalls[c] EXCEPT !.handled = @ + 1]
                  ELSE AbstractCalls[i]
  <2>1. CASE i = c
    <3>1. AbstractCall(calls'[i]) =
              [request |-> Carried(calls[c].ping),
               handled |-> Len(calls[c].handled) + 1,
               result |-> AbstractResult(calls[c].result)]
      BY <2>1, <1>7, <1>8 DEF AbstractCall
    <3>2. AbstractCalls[c] =
              [request |-> Carried(calls[c].ping),
               handled |-> Len(calls[c].handled),
               result |-> AbstractResult(calls[c].result)]
      BY <1>2, <1>9 DEF AbstractCall
    <3> QED BY <2>1, <3>1, <3>2
  <2>2. CASE i # c
    BY <2>2, <1>7, <1>9 DEF AbstractCall
  <2> QED BY <2>1, <2>2
<1>11. AbstractCalls' = [AbstractCalls EXCEPT ![c].handled = @ + 1]
  <2>1. AbstractCalls' = [i \in DOMAIN calls |-> AbstractCall(calls'[i])]
    BY <1>7 DEF AbstractCalls, AbstractOf
  <2>2. DOMAIN AbstractCalls = DOMAIN calls
    BY DEF AbstractCalls, AbstractOf
  <2> QED BY <2>1, <2>2, <1>10
<1>12. AbstractCalls[c].handled < 3
  <2>1. AbstractCalls[c] = AbstractCall(calls[c])
    BY <1>2, <1>9
  <2> QED BY <2>1, <1>6 DEF AbstractCall
<1> QED BY <1>2, <1>11, <1>12, AbstractHandleStep

LEMMA PingEndpointCalls ==
    ASSUME IInv, RInv, NEW q \in Asked, PingEndpoint(q)
    PROVE  Abstract!Next
<1> DEFINE n == Len(calls)
           new == [ping |-> q, handled |-> <<>>, result |-> <<>>]
           abs == [request |-> Carried(q), handled |-> 0, result |-> <<>>]
<1>1. pc = "idle" /\ calls' = Append(calls, new)
  BY DEF PingEndpoint
<1>2. calls \in Seq(Calls) /\ n \in Nat /\ DOMAIN calls = 1 .. n
  BY LenProperties DEF IInv, Types
<1>3. new \in Calls
  BY EmptySeq DEF Calls
<1>4. AbstractCall(new) = abs
  BY EmptySeq DEF AbstractCall, AbstractResult
<1>5. abs \in AbstractSet
  <2>1. AbstractResult(<<>>) = <<>> /\ <<>> \in Seq(Pings)
    BY EmptySeq DEF AbstractResult
  <2>2. <<>> \in {AbstractResult(x) : x \in Seq(Pings)}
    BY <2>1
  <2> QED BY <2>2 DEF AbstractSet
<1> HIDE DEF new, abs, n
<1>6. /\ calls' \in Seq(Calls) /\ Len(calls') = n + 1
      /\ \A i \in 1 .. n : calls'[i] = calls[i]
      /\ calls'[n + 1] = new
  BY <1>1, <1>2, <1>3, AppendProperties DEF n
<1>7. DOMAIN calls' = 1 .. n + 1
  BY <1>6, LenProperties
<1>8. /\ AbstractCalls \in Seq(AbstractSet) /\ Len(AbstractCalls) = n
      /\ \A i \in 1 .. n : AbstractCalls[i] = AbstractCall(calls[i])
  BY <1>2, AbstractType DEF n, AbstractCalls
<1>9. /\ AbstractCalls' \in Seq(AbstractSet) /\ Len(AbstractCalls') = n + 1
      /\ \A i \in 1 .. n + 1 : AbstractCalls'[i] = AbstractCall(calls'[i])
  <2>1. AbstractCalls' = AbstractOf(calls')
    BY DEF AbstractCalls
  <2>2. /\ AbstractOf(calls') \in Seq(AbstractSet)
        /\ Len(AbstractOf(calls')) = Len(calls')
        /\ \A i \in DOMAIN calls' : AbstractOf(calls')[i] = AbstractCall(calls'[i])
    BY <1>6, AbstractType
  <2> QED BY <2>1, <2>2, <1>6, <1>7
<1>10. /\ Append(AbstractCalls, abs) \in Seq(AbstractSet)
       /\ Len(Append(AbstractCalls, abs)) = n + 1
       /\ \A i \in 1 .. n : Append(AbstractCalls, abs)[i] = AbstractCalls[i]
       /\ Append(AbstractCalls, abs)[n + 1] = abs
  BY <1>5, <1>8, AppendProperties
<1>11. \A i \in 1 .. n + 1 : AbstractCalls'[i] = Append(AbstractCalls, abs)[i]
  BY <1>2, <1>4, <1>6, <1>8, <1>9, <1>10
<1>12. AbstractCalls' = Append(AbstractCalls, abs)
  BY <1>9, <1>10, <1>11, SeqEqual
<1>13. \A i \in DOMAIN calls : AbstractCalls[i].result # <<>>
  <2>1. \A i \in 1 .. n : calls[i].result # <<>>
    BY <1>1, <1>2 DEF RInv, ResultOfCall
  <2>2. ASSUME NEW i \in 1 .. n
        PROVE  AbstractCalls[i].result # <<>>
    <3>1. AbstractCalls[i].result = AbstractResult(calls[i].result)
      BY <1>8 DEF AbstractCall
    <3>2. AbstractResult(calls[i].result) = <<Carried(calls[i].result[1])>>
      BY <2>1 DEF AbstractResult
    <3> QED BY <3>1, <3>2
  <2> QED BY <2>2, <1>2
<1> QED BY <1>12, <1>13, AbstractCallStep DEF abs

LEMMA StepRefines ==
    ASSUME IInv, RInv, [Next]_vars
    PROVE  Abstract!Next \/ UNCHANGED calls
<1>1. CASE ReceiveReply
  <2>1. PICK r \in replies, junk \in Junk :
            r.socket = socket /\ Finish(Result(r.bytes, junk))
    BY <1>1 DEF ReceiveReply
  <2>2. pc = "poll"
    BY <1>1 DEF ReceiveReply
  <2> DEFINE x == Result(r.bytes, junk)
             c == calls[Len(calls)]
  <2>3. /\ x \in Seq(Pings) /\ x # <<>> /\ Finish(x)
        /\ Len(c.handled) > 0 /\ Carried(x[1]) \in AnswersTo(Carried(c.ping))
    BY <2>1, <2>2, ReceivedResult
  <2> HIDE DEF x, Finish
  <2> QED BY <2>2, <2>3, FinishReturns
<1>2. CASE GiveUp
  <2> DEFINE x == <<ZeroPing>>
  <2>1. 0 \in Codes /\ 0 \in Bytes /\ Zeros \in Excesses
    BY ZeroBytes
  <2>2. ZeroPing \in Pings
    BY <2>1 DEF ZeroPing, Pings
  <2>3. x \in Seq(Pings) /\ x # <<>> /\ Finish(x) /\ x[1] = ZeroPing
    BY <1>2, <2>2 DEF GiveUp
  <2>4. pc = "poll"
    BY <1>2 DEF GiveUp
  <2>5. Carried(x[1]) = Carried(ZeroPing)
    BY <2>3
  <2> HIDE DEF x, Finish
  <2> QED BY <2>3, <2>4, <2>5, FinishReturns
<1>3. CASE SendRequest \/ Retry \/ Lose \/ \E type \in Echoed : RegisterPingFunc(type)
  BY <1>3 DEF SendRequest, Retry, Lose, RegisterPingFunc
<1>4. CASE UNCHANGED vars
  BY <1>4 DEF vars
<1> QED BY <1>1, <1>2, <1>3, <1>4, PingEndpointCalls, HandleHandles
        DEF Next, ClientStep

\* ping_endpoint() implements RequestReply: late, lost and repeated messages
\* and sockets that are made anew never make a call return the answer to
\* another, or an answer that nobody gave.
THEOREM Refinement == Spec => RequestReplySpec
<1>1. Init => Abstract!Init
  BY DEF Init, Abstract!Init
<1>2. RInv /\ IInv /\ [Next]_vars => RInv'
  BY StepRInv
<1>3. IInv /\ RInv /\ [Next]_vars => [Abstract!Next]_AbstractCalls
  <2> SUFFICES ASSUME IInv, RInv, [Next]_vars
               PROVE  [Abstract!Next]_AbstractCalls
      OBVIOUS
  <2>1. UNCHANGED calls => UNCHANGED AbstractCalls
    BY DEF AbstractCalls
  <2> QED BY <2>1, StepRefines
<1>4. Spec => [](IInv /\ RInv)
  BY <1>2, InitRInv, Invariance, PTL DEF Spec
<1>5. Spec => Abstract!Init /\ [][Abstract!Next]_AbstractCalls
  BY <1>1, <1>3, <1>4, PTL DEF Spec
<1> QED BY <1>5, PTL DEF RequestReplySpec, Abstract!Spec, AbstractCalls,
        AbstractOf, AbstractCall, AbstractResult

=============================================================================

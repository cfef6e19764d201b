---------------------------- MODULE PingMessage -----------------------------
(***************************************************************************)
(* ping_message.c and ping_message_keys.h: a ping on the wire.             *)
(*                                                                         *)
(* The header ends with the eight bytes of excess, but PING_HEADER_SIZE,   *)
(* the number of bytes that RMTControlClient sends, counts four of them:   *)
(* of the others the receiver reads the terminator of its string and then  *)
(* what happens to be behind it.                                           *)
(***************************************************************************)
EXTENDS Naturals, FiniteSets

Bytes == 0 .. 255

PROTOCOL_VERSION == 1
PING == 2

\* Types of a ping.
UNDEF == 0
ACK   == 1
PING_ECHO == 2
STATE_REQUEST == 8
MAX_PING_TYPE == STATE_REQUEST

\* Where the members of the header are.
PROTOPOS_PING  == 0
OPPOS_PING     == PROTOPOS_PING + 1
TYPEPOS_PING   == OPPOS_PING + 1
CODEPOS_PING   == TYPEPOS_PING + 1
CHECKPOS_PING  == CODEPOS_PING + 2
EXCESSPOS_PING == CHECKPOS_PING + 2
PING_MESSAGE_SIZE == EXCESSPOS_PING + 8
PING_HEADER_SIZE  == 11

Excesses == [0 .. 7 -> Bytes]

UINT16_MAX == 65535
Codes == 0 .. UINT16_MAX

Pings == [type : Bytes, code : Codes, excess : Excesses]

Zeros == [k \in 0 .. 7 |-> 0]

ZeroPing == [type |-> 0, code |-> 0, excess |-> Zeros]

\* mutant of to_wire_ping: the excess is put where the checksum is.
to_wire_without_checksum(p) ==
    [k \in 0 .. PING_MESSAGE_SIZE - 1 |->
        CASE k = PROTOPOS_PING     -> PROTOCOL_VERSION
          [] k = OPPOS_PING        -> PING
          [] k = TYPEPOS_PING      -> p.type
          [] k = CODEPOS_PING      -> p.code % 256
          [] k = CODEPOS_PING + 1  -> p.code \div 256
          [] k \in CHECKPOS_PING .. CHECKPOS_PING + 7 -> p.excess[k - CHECKPOS_PING]
          [] OTHER                 -> 0]

to_wire_ping(p) ==
    [k \in 0 .. PING_MESSAGE_SIZE - 1 |->
        CASE k = PROTOPOS_PING     -> PROTOCOL_VERSION
          [] k = OPPOS_PING        -> PING
          [] k = TYPEPOS_PING      -> p.type
          [] k = CODEPOS_PING      -> p.code % 256
          [] k = CODEPOS_PING + 1  -> p.code \div 256
          [] k \in CHECKPOS_PING .. EXCESSPOS_PING - 1 -> 0
          [] OTHER                 -> p.excess[k - EXCESSPOS_PING]]

Sent(bytes) == [k \in 0 .. PING_HEADER_SIZE - 1 |-> bytes[k]]

\* What the getters find behind the bytes of the message.
InMemory(bytes, junk) ==
    [k \in 0 .. PING_MESSAGE_SIZE - 1 |->
        CASE k \in DOMAIN bytes     -> bytes[k]
          [] k = PING_HEADER_SIZE   -> 0
          [] OTHER                  -> junk]

\* serialize_from_ping(): zeros for another protocol, type 0 for unknown types.
serialize_from_ping(bytes) ==
    IF bytes[PROTOPOS_PING] # PROTOCOL_VERSION THEN ZeroPing
    ELSE [type |-> IF bytes[TYPEPOS_PING] <= MAX_PING_TYPE
                   THEN bytes[TYPEPOS_PING] ELSE UNDEF,
          code |-> bytes[CODEPOS_PING] + 256 * bytes[CODEPOS_PING + 1],
          excess |-> [k \in 0 .. 7 |-> bytes[EXCESSPOS_PING + k]]]

\* The part of a ping that the header carries.
Carried(p) == [type |-> p.type, code |-> p.code,
               excess |-> [k \in 0 .. 3 |-> p.excess[k]]]

=============================================================================

----------------------------- MODULE DataBuffer -----------------------------
(***************************************************************************)
(* data_messages.c: data_buffer, a message of a header and of elements     *)
(*                                                                         *)
(*    [size][type][ ... size bytes ... ][0]                                *)
(*                                                                         *)
(* one behind the other. A cell is a byte of memory. A buffer is the array *)
(* data and the members that to_wire() copies into its header; overran     *)
(* says that something was written behind the array. The messages are      *)
(* compiled with NO_NET_BYTE on little endian machines, where network16()  *)
(* and network32() are the identity.                                       *)
(***************************************************************************)
EXTENDS Naturals, Sequences, FiniteSets

CONSTANTS
    MessageSize,   \* MESSAGE_SIZE, 256
    MaxFields      \* MAX_FIELDS, 32

Cells == 0 .. 255

\* Where the header members are, and the size of the header.
PROTPOS == 0
OPPOS   == PROTPOS + 1
FUNCPOS == OPPOS + 1
MAGPOS  == FUNCPOS + 2
BYTEPOS == MAGPOS + 2
FLDPOS  == BYTEPOS + 4
NULLTERMPOS == FLDPOS + 2
DTPOS   == NULLTERMPOS + 1
DATA_HEADER_SIZE == DTPOS

PROTOCOL_VERSION == 1
DATA_PACKET == 1

\* Type codes, characters, and how many bytes a value of a type has when the
\* code copies it in one assignment; the others are copied byte by byte.
CHAR == 99
BYTE_TYPE == 121
BOOL == 98
INT8 == 112
UINT8 == 114
INT16 == 110
INT32 == 105
UINT32 == 117
UINT64 == 116
FLOAT == 102
STRING_ == 115

Width(type) ==
    CASE type \in {INT32, UINT32, FLOAT}        -> 4
      [] type \in {INT16, BOOL}                 -> 2
      [] type \in {CHAR, UINT8, INT8, BYTE_TYPE} -> 1
      [] OTHER                                  -> 0

ASSUME SizeAssumption == /\ MessageSize \in Nat /\ MessageSize > DATA_HEADER_SIZE
                         /\ MessageSize <= 256
                         /\ MaxFields \in Nat

Indexes == 0 .. MessageSize - 1

Buffers == [data : [Indexes -> Cells], byte_length : Nat, fields : Nat,
            overran : BOOLEAN]

\* The byte of n at address i: both machines are little endian.
LittleEndian(n, i) == CASE i = 0     -> n % 256
                        [] i = 1     -> (n \div 256) % 256
                        [] OTHER     -> 0

\* The header, from the members of the buffer.
to_wire(b) ==
    [b EXCEPT !.data = [k \in Indexes |->
        CASE k = PROTPOS                 -> PROTOCOL_VERSION
          [] k = OPPOS                   -> DATA_PACKET
          [] k \in FUNCPOS .. BYTEPOS - 1 -> 0
          [] k \in BYTEPOS .. FLDPOS - 1 -> LittleEndian(b.byte_length, k - BYTEPOS)
          [] k \in FLDPOS .. NULLTERMPOS - 1 -> LittleEndian(b.fields, k - FLDPOS)
          [] OTHER                       -> b.data[k]]]

\* mutant of create_buffer: byte_length is 0 like everything else.
create_buffer_empty ==
    to_wire([data |-> [k \in Indexes |-> 0], byte_length |-> 0, fields |-> 0,
             overran |-> FALSE])

create_buffer ==
    to_wire([data |-> [k \in Indexes |-> 0], byte_length |-> DATA_HEADER_SIZE,
             fields |-> 0, overran |-> FALSE])

\* The low half of the 64 bit word at f[at] is less than 4.
SmallWord(f, at) ==
    f[at] < 4 /\ f[at + 1] = 0 /\ f[at + 2] = 0 /\ f[at + 3] = 0

\* A copy by 64 bit words takes eight bytes for every four it counts.
WordCopied(n) == 8 * (n \div 4) + (n % 4)

\* How many bytes serialize_data() writes for num bytes at src.
Copied(b, src, num, type) ==
    CASE Width(type) # 0 -> Width(type)
      [] /\ Width(type) = 0 /\ num >= 4
         /\ SmallWord(src, 0) /\ SmallWord(b.data, b.byte_length + 2)
                         -> WordCopied(num)
      [] OTHER           -> num

\* mutant of Fits: size, type and terminator are forgotten.
FitsAlone(b, num) == num + b.byte_length < MessageSize

Fits(b, num) == 3 + num + b.byte_length < MessageSize

\* mutant of serialize_data: the element begins at the last terminator.
serialize_over(b, src, num, type) ==
    LET head == b.byte_length + 1
        end  == head + Copied(b, src, num, type)
    IN
    IF ~Fits(b, num) THEN b
    ELSE [data |-> [k \in Indexes |->
             CASE k = b.byte_length - 1   -> num
               [] k = b.byte_length       -> type
               [] k \in head .. end - 1   -> src[k - head]
               [] k = end                 -> 0
               [] OTHER                   -> b.data[k]],
          byte_length |-> b.byte_length + 3 + num,
          fields |-> b.fields + 1,
          overran |-> b.overran \/ end >= MessageSize]

\* src is the memory at the value and behind it. What does not fit is left
\* out, and the result is 0 as if it had been added.
serialize_data(b, src, num, type) ==
    LET head == b.byte_length + 2
        end  == head + Copied(b, src, num, type)
    IN
    IF ~Fits(b, num) THEN b
    ELSE [data |-> [k \in Indexes |->
             CASE k = b.byte_length       -> num
               [] k = b.byte_length + 1   -> type
               [] k \in head .. end - 1   -> src[k - head]
               [] k = end                 -> 0
               [] OTHER                   -> b.data[k]],
          byte_length |-> b.byte_length + 3 + num,
          fields |-> b.fields + 1,
          overran |-> b.overran \/ end >= MessageSize]

-----------------------------------------------------------------------------
(* Reading, from the bytes of a message and not from a buffer.             *)

Nowhere == 0

\* Whatever is behind a message is not a part of it.
Cell(data, k) == IF k \in DOMAIN data THEN data[k] ELSE 0

get_number_fields(data) == Cell(data, FLDPOS) + 256 * Cell(data, FLDPOS + 1)

\* Where an element starts, if every element before it ends in a terminator.
ElementAt(data, index) ==
    LET at[i \in 0 .. index] ==
          IF i = 0 THEN DTPOS
          ELSE LET terminator == at[i - 1] + 2 + Cell(data, at[i - 1])
               IN IF at[i - 1] = Nowhere \/ Cell(data, terminator) # 0
                  THEN Nowhere ELSE terminator + 1
    IN at[index]

\* get_data() has an element to return.
Found(data, index) ==
    /\ get_number_fields(data) < MaxFields
    /\ index < get_number_fields(data)
    /\ ElementAt(data, index) # Nowhere

\* The element get_data() returns: its size, its type, where its data is, and
\* how many bytes go to a destination whose first word is small (zero), too.
get_data(data, index) ==
    LET at   == ElementAt(data, index)
        size == Cell(data, at)
        type == Cell(data, at + 1)
        word == [k \in 0 .. 3 |-> Cell(data, at + 2 + k)]
    IN [size |-> size, type |-> type, data |-> at + 2,
        copied |-> CASE Width(type) # 0 -> Width(type)
                     [] Width(type) = 0 /\ size >= 4 /\ SmallWord(word, 0)
                                        -> WordCopied(size)
                     [] OTHER           -> size]

=============================================================================

---------------------------- MODULE DataMessage -----------------------------
(***************************************************************************)
(* The life of one data message: the application creates a buffer, adds    *)
(* elements to it, writes the header with to_wire() whenever it likes, and *)
(* whoever gets the bytes reads the elements back with get_data().         *)
(***************************************************************************)
EXTENDS DataBuffer

CONSTANTS
    Items,         \* the values to be added: [src, num, type]
    MaxElements    \* bound: elements the application tries to add

ASSUME ItemsAssumption ==
    /\ MaxElements \in Nat
    /\ \A x \in Items :
          /\ x.num \in Cells /\ x.type \in Cells
          /\ x.src \in [0 .. WordCopied(x.num) + 7 -> Cells]

VARIABLES
    buffer,      \* the data_buffer
    elements     \* what was added to it so far, and where

vars == <<buffer, elements>>

Init ==
    /\ buffer = create_buffer
    /\ elements = <<>>

\* What serialize_data() is given, and how much of it the buffer has room for.
Added(x) == [item |-> x, at |-> buffer.byte_length,
             copied |-> Copied(buffer, x.src, x.num, x.type)]

\* mutant of Serialize: the terminator is not counted.
SerializeShort(x) ==
    LET next == serialize_data(buffer, x.src, x.num, x.type) IN
    /\ Len(elements) < MaxElements
    /\ buffer' = [next EXCEPT !.byte_length =
                     IF Fits(buffer, x.num) THEN @ - 1 ELSE @]
    /\ elements' = IF Fits(buffer, x.num) THEN Append(elements, Added(x))
                   ELSE elements

Serialize(x) ==
    /\ Len(elements) < MaxElements
    /\ buffer' = serialize_data(buffer, x.src, x.num, x.type)
    /\ elements' = IF Fits(buffer, x.num) THEN Append(elements, Added(x))
                   ELSE elements

ToWire ==
    /\ buffer' = to_wire(buffer)
    /\ UNCHANGED elements

Next == ToWire \/ \E x \in Items : Serialize(x)

Spec == Init /\ [][Next]_vars

-----------------------------------------------------------------------------
(* Properties.                                                             *)

\* Type correctness; the length never leaves the array.
TypeOK ==
    /\ buffer \in Buffers
    /\ buffer.byte_length \in DATA_HEADER_SIZE .. MessageSize - 1
    /\ buffer.fields = Len(elements)
    /\ \A i \in DOMAIN elements :
          /\ elements[i].item \in Items
          /\ elements[i].at \in DATA_HEADER_SIZE .. MessageSize - 1

\* The bytes written for an element are the bytes its size byte counts.
Exact(e) == e.copied = e.item.num

\* An element reads back as it was added, whatever was added behind it and
\* however old the header is that counts it, unless it or an element before
\* it has another length in the array than its size says: it was copied by
\* words, or by the width of a type that is not its size.
ReadsBack ==
    \A i \in DOMAIN elements :
        /\ i <= get_number_fields(buffer.data)
        /\ get_number_fields(buffer.data) < MaxFields
        /\ \A j \in 1 .. i : Exact(elements[j])
        => LET x == elements[i].item
               got == get_data(buffer.data, i - 1)
           IN /\ Found(buffer.data, i - 1)
              /\ got.size = x.num /\ got.type = x.type
              /\ \A k \in 0 .. x.num - 1 : buffer.data[got.data + k] = x.src[k]

\* A value that can have more bytes in the message than its size and the one
\* byte to spare: its type is wider than its size, or it is copied by words.
CopiedLonger(x) ==
    \/ Width(x.type) > x.num + 1
    \/ Width(x.type) = 0 /\ x.num >= 4 /\ SmallWord(x.src, 0)

\* serialize_data() writes behind the array only after it was given a value of
\* that kind: for all the others its length check is right.
OverrunsOnlyByLongCopies ==
    buffer.overran => \E i \in DOMAIN elements : CopiedLonger(elements[i].item)

\* What is in the message stays: no step changes a byte behind the header
\* that the length already counts.
AppendOnly ==
    [][\A k \in DATA_HEADER_SIZE .. MessageSize - 1 :
          k < buffer.byte_length => buffer'.data[k] = buffer.data[k]]_vars

=============================================================================

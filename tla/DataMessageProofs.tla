------------------------- MODULE DataMessageProofs --------------------------
(***************************************************************************)
(* Proofs about DataMessage, for every size of a message up to 256, any    *)
(* values that are added and any number of them.                           *)
(***************************************************************************)
EXTENDS DataMessage, DataBufferProofs, TLAPS

LEMMA ItemsAreSources ==
    ASSUME NEW x \in Items
    PROVE  Source(x)
<1>1. /\ x.num \in Cells /\ x.type \in Cells
      /\ x.src \in [0 .. WordCopied(x.num) + 7 -> Cells]
  BY ItemsAssumption
<1>2. x.num \in Nat
  BY <1>1, CellsAreNumbers
<1> QED BY <1>1, <1>2 DEF Source

-----------------------------------------------------------------------------
(* The invariant: the length is within the array, and every element that   *)
(* was added is known with what was copied of it.                          *)

Elements == [item : Items, at : DATA_HEADER_SIZE .. MessageSize - 1, copied : Nat]

MessageTypes ==
    /\ buffer \in Buffers
    /\ buffer.byte_length \in DATA_HEADER_SIZE .. MessageSize - 1
    /\ elements \in Seq(Elements)
    /\ buffer.fields = Len(elements)

MessageInv == MessageTypes /\ OverrunsOnlyByLongCopies

LEMMA InitMessage == Init => MessageInv
<1> SUFFICES ASSUME Init PROVE MessageInv
    OBVIOUS
<1> DEFINE empty == [data |-> [k \in Indexes |-> 0], byte_length |-> DATA_HEADER_SIZE,
                     fields |-> 0, overran |-> FALSE]
<1>1. empty \in Buffers
  BY HeaderSize DEF Buffers, Cells
<1>2. /\ buffer \in Buffers /\ buffer.byte_length = DATA_HEADER_SIZE
      /\ buffer.fields = 0 /\ buffer.overran = FALSE
  BY <1>1, ToWireType DEF Init, create_buffer
<1>3. elements \in Seq(Elements) /\ Len(elements) = 0
  BY DEF Init
<1> QED BY <1>2, <1>3, HeaderSize DEF MessageInv, MessageTypes, OverrunsOnlyByLongCopies

LEMMA ToWireMessage ==
    ASSUME MessageInv, ToWire
    PROVE  MessageInv' /\ \A k \in DATA_HEADER_SIZE .. MessageSize - 1 :
                              buffer'.data[k] = buffer.data[k]
<1>1. /\ buffer \in Buffers /\ buffer' = to_wire(buffer) /\ elements' = elements
  BY DEF ToWire, MessageInv, MessageTypes
<1>2. /\ buffer' \in Buffers
      /\ buffer'.byte_length = buffer.byte_length
      /\ buffer'.fields = buffer.fields
      /\ buffer'.overran = buffer.overran
      /\ \A k \in DATA_HEADER_SIZE .. MessageSize - 1 :
             buffer'.data[k] = buffer.data[k]
  BY <1>1, ToWireType
<1> QED BY <1>1, <1>2 DEF MessageInv, MessageTypes, OverrunsOnlyByLongCopies

\* Two bytes more than the size counts are written for such a value only.
LEMMA LongCopy ==
    ASSUME NEW b, NEW x, Source(x), Copied(b, x.src, x.num, x.type) > x.num + 1
    PROVE  CopiedLonger(x)
<1>1. x.num \in Nat /\ ~ (x.num > x.num + 1)
  BY DEF Source
<1>2. CASE Width(x.type) # 0
  <2>1. Copied(b, x.src, x.num, x.type) = Width(x.type)
    BY <1>2 DEF Copied
  <2> QED BY <2>1 DEF CopiedLonger
<1>3. CASE Width(x.type) = 0
  <2>1. x.num >= 4 /\ SmallWord(x.src, 0)
    BY <1>1, <1>3 DEF Copied
  <2> QED BY <1>3, <2>1 DEF CopiedLonger
<1> QED BY <1>2, <1>3

LEMMA SerializeMessage ==
    ASSUME MessageInv, NEW x \in Items, Serialize(x)
    PROVE  MessageInv' /\ \A k \in 0 .. buffer.byte_length - 1 :
                              buffer'.data[k] = buffer.data[k]
<1>1. /\ buffer \in Buffers
      /\ buffer.byte_length \in DATA_HEADER_SIZE .. MessageSize - 1
      /\ elements \in Seq(Elements) /\ buffer.fields = Len(elements)
      /\ buffer' = serialize_data(buffer, x.src, x.num, x.type)
      /\ Source(x)
  BY ItemsAreSources DEF Serialize, MessageInv, MessageTypes
<1>2. CASE ~Fits(buffer, x.num)
  <2>1. buffer' = buffer /\ elements' = elements
    BY <1>2, <1>1 DEF Serialize, serialize_data
  <2> QED BY <2>1 DEF MessageInv, MessageTypes, OverrunsOnlyByLongCopies
<1>3. CASE Fits(buffer, x.num)
  <2>1. /\ buffer' \in Buffers
        /\ buffer'.byte_length \in DATA_HEADER_SIZE .. MessageSize - 1
        /\ buffer'.fields = buffer.fields + 1
        /\ \A k \in 0 .. buffer.byte_length - 1 : buffer'.data[k] = buffer.data[k]
        /\ buffer'.overran => \/ buffer.overran
                              \/ Copied(buffer, x.src, x.num, x.type) > x.num + 1
    BY <1>1, <1>3, SerializeType
  <2>2. elements' = Append(elements, Added(x))
    BY <1>3 DEF Serialize
  <2>3. Added(x) \in Elements
    BY <1>1, CopiedBound DEF Added, Elements
  <2>4. /\ elements' \in Seq(Elements) /\ Len(elements) \in Nat
        /\ Len(elements') = Len(elements) + 1
        /\ elements'[Len(elements')] = Added(x)
        /\ \A i \in 1 .. Len(elements) : elements'[i] = elements[i]
    BY <1>1, <2>2, <2>3
  <2>5. MessageTypes'
    BY <1>1, <2>1, <2>4 DEF MessageTypes
  <2>6. ASSUME buffer'.overran
        PROVE  \E i \in DOMAIN elements' : CopiedLonger(elements'[i].item)
    <3>1. CASE buffer.overran
      <4>1. PICK i \in 1 .. Len(elements) : CopiedLonger(elements[i].item)
        BY <3>1, <1>1 DEF MessageInv, OverrunsOnlyByLongCopies
      <4>2. i \in DOMAIN elements' /\ elements'[i] = elements[i]
        BY <2>4
      <4> QED BY <4>1, <4>2
    <3>2. CASE Copied(buffer, x.src, x.num, x.type) > x.num + 1
      <4>1. CopiedLonger(x) /\ Added(x).item = x
        BY <3>2, <1>1, LongCopy DEF Added
      <4>2. Len(elements') \in DOMAIN elements'
        BY <2>4
      <4> QED BY <4>1, <4>2, <2>4
    <3> QED BY <2>1, <2>6, <3>1, <3>2
  <2> QED BY <2>1, <2>5, <2>6 DEF MessageInv, OverrunsOnlyByLongCopies
<1> QED BY <1>2, <1>3

LEMMA StepMessage ==
    ASSUME MessageInv, [Next]_vars
    PROVE  MessageInv'
<1>1. CASE UNCHANGED vars
  BY <1>1 DEF vars, MessageInv, MessageTypes, OverrunsOnlyByLongCopies
<1> QED BY <1>1, ToWireMessage, SerializeMessage DEF Next

LEMMA Invariant == Spec => []MessageInv
<1>1. MessageInv /\ [Next]_vars => MessageInv'
  BY StepMessage
<1> QED BY <1>1, InitMessage, PTL DEF Spec

\* serialize_data() writes behind the array of a message only after it was
\* given a value that its type's width or the copy by words makes longer than
\* its size says, by two bytes at least.
THEOREM LengthCheckHolds == Spec => []OverrunsOnlyByLongCopies
<1>1. MessageInv => OverrunsOnlyByLongCopies
  BY DEF MessageInv
<1> QED BY <1>1, Invariant, PTL

\* The length never leaves the array, and fields counts the elements.
THEOREM TypeCorrect == Spec => []TypeOK
<1>1. MessageInv => TypeOK
  <2> SUFFICES ASSUME MessageInv PROVE TypeOK
    OBVIOUS
  <2>1. \A i \in DOMAIN elements : elements[i] \in Elements
    BY DEF MessageInv, MessageTypes
  <2>2. \A i \in DOMAIN elements :
           /\ elements[i].item \in Items
           /\ elements[i].at \in DATA_HEADER_SIZE .. MessageSize - 1
    BY <2>1 DEF Elements
  <2> QED BY <2>2 DEF MessageInv, MessageTypes, TypeOK
<1> QED BY <1>1, Invariant, PTL

\* An element that was added stays as it is, whatever is added behind it and
\* whenever the header is written.
THEOREM ElementsStay == Spec => AppendOnly
<1> DEFINE Stays == \A k \in DATA_HEADER_SIZE .. MessageSize - 1 :
                        k < buffer.byte_length => buffer'.data[k] = buffer.data[k]
<1>1. ASSUME MessageInv, Next
      PROVE  Stays
  <2>1. CASE ToWire
    BY <2>1, <1>1, ToWireMessage
  <2>2. CASE \E x \in Items : Serialize(x)
    <3>1. \A k \in 0 .. buffer.byte_length - 1 : buffer'.data[k] = buffer.data[k]
      BY <2>2, <1>1, SerializeMessage
    <3>2. buffer.byte_length \in Nat
      BY <1>1, HeaderSize DEF MessageInv, MessageTypes
    <3> QED BY <3>1, <3>2, HeaderSize
  <2> QED BY <1>1, <2>1, <2>2 DEF Next
<1>2. MessageInv /\ [Next]_vars => [Stays]_vars
  BY <1>1
<1> QED BY <1>2, Invariant, PTL DEF Spec, AppendOnly

-----------------------------------------------------------------------------
(* An element reads back as it was added.                                  *)

\* Where the element i ends, and the next begins.
End(i) == IF i = 0 THEN DTPOS ELSE elements[i].at + 3 + elements[i].item.num

OneBehindTheOther ==
    /\ \A i \in DOMAIN elements : elements[i].at = End(i - 1)
    /\ buffer.byte_length = End(Len(elements))

\* The bytes of an element, as far as its size counts what was copied.
Written(data, e) ==
    /\ data[e.at] = e.item.num /\ data[e.at + 1] = e.item.type
    /\ Exact(e) => /\ \A k \in 0 .. e.item.num - 1 : data[e.at + 2 + k] = e.item.src[k]
                   /\ data[e.at + 2 + e.item.num] = 0

AllWritten ==
    \A i \in DOMAIN elements :
        /\ elements[i].at + 3 + elements[i].item.num <= buffer.byte_length
        /\ Written(buffer.data, elements[i])

ReadInv == MessageInv /\ OneBehindTheOther /\ AllWritten

\* What is known of the element i.
LEMMA ElementTypes ==
    ASSUME MessageTypes, NEW i \in DOMAIN elements
    PROVE  /\ elements[i].at \in Nat /\ elements[i].at >= 13
           /\ elements[i].item \in Items
           /\ elements[i].item.num \in Nat
           /\ i \in Nat /\ i >= 1 /\ i <= Len(elements)
<1>1. elements[i] \in Elements /\ i \in 1 .. Len(elements) /\ Len(elements) \in Nat
  BY DEF MessageTypes
<1>2. Source(elements[i].item)
  BY <1>1, ItemsAreSources DEF Elements
<1> QED BY <1>1, <1>2, HeaderSize DEF Elements, Source

LEMMA InitReads == Init => ReadInv
<1> SUFFICES ASSUME Init PROVE ReadInv
    OBVIOUS
<1>1. MessageInv
  BY InitMessage
<1>2. elements = <<>> /\ Len(elements) = 0 /\ DOMAIN elements = {}
  BY DEF Init
<1>3. buffer.byte_length = DTPOS
  <2> DEFINE empty == [data |-> [k \in Indexes |-> 0], byte_length |-> DATA_HEADER_SIZE,
                       fields |-> 0, overran |-> FALSE]
  <2>1. empty \in Buffers
    BY HeaderSize DEF Buffers, Cells
  <2> QED BY <2>1, ToWireType DEF Init, create_buffer, DATA_HEADER_SIZE
<1> QED BY <1>1, <1>2, <1>3 DEF ReadInv, OneBehindTheOther, AllWritten, End

\* A step that keeps what is in the message keeps its elements.
LEMMA WrittenStays ==
    ASSUME MessageTypes, AllWritten, NEW data, NEW i \in DOMAIN elements,
           \A k \in DATA_HEADER_SIZE .. buffer.byte_length - 1 : data[k] = buffer.data[k]
    PROVE  Written(data, elements[i])
<1> PICK e : e = elements[i]
  OBVIOUS
<1>1. /\ e.at \in Nat /\ e.at >= 13 /\ e.item.num \in Nat
      /\ e.at + 3 + e.item.num <= buffer.byte_length
      /\ Written(buffer.data, e)
      /\ buffer.byte_length \in Nat
  BY ElementTypes DEF AllWritten, MessageTypes, Buffers
<1>2. /\ e.at \in DATA_HEADER_SIZE .. buffer.byte_length - 1
      /\ e.at + 1 \in DATA_HEADER_SIZE .. buffer.byte_length - 1
      /\ \A k \in 0 .. e.item.num : e.at + 2 + k \in DATA_HEADER_SIZE .. buffer.byte_length - 1
  BY <1>1, HeaderSize
<1>3. e.item.num \in 0 .. e.item.num
      /\ \A k \in 0 .. e.item.num - 1 : k \in 0 .. e.item.num
  BY <1>1
<1> QED BY <1>1, <1>2, <1>3 DEF Written

LEMMA ToWireReads ==
    ASSUME ReadInv, ToWire
    PROVE  ReadInv'
<1>1. MessageInv' /\ \A k \in DATA_HEADER_SIZE .. MessageSize - 1 :
                         buffer'.data[k] = buffer.data[k]
  BY ToWireMessage DEF ReadInv
<1>2. /\ MessageTypes /\ buffer \in Buffers /\ elements' = elements
      /\ buffer'.byte_length = buffer.byte_length
      /\ buffer.byte_length \in DATA_HEADER_SIZE .. MessageSize - 1
  BY ToWireType DEF ToWire, ReadInv, MessageInv, MessageTypes
<1>3. \A k \in DATA_HEADER_SIZE .. buffer.byte_length - 1 : buffer'.data[k] = buffer.data[k]
  BY <1>1, <1>2, HeaderSize
<1>4. \A i \in DOMAIN elements : Written(buffer'.data, elements[i])
  BY <1>2, <1>3, WrittenStays DEF ReadInv
<1>5. OneBehindTheOther'
  BY <1>2 DEF ReadInv, OneBehindTheOther, End
<1>6. AllWritten'
  BY <1>2, <1>4 DEF ReadInv, AllWritten, Written, Exact
<1> QED BY <1>1, <1>5, <1>6 DEF ReadInv

LEMMA SerializeReads ==
    ASSUME ReadInv, NEW x \in Items, Serialize(x)
    PROVE  ReadInv'
<1>1. MessageInv' /\ MessageTypes' /\ \A k \in 0 .. buffer.byte_length - 1 :
                                           buffer'.data[k] = buffer.data[k]
  BY SerializeMessage DEF ReadInv, MessageInv
<1>2. /\ MessageTypes /\ buffer \in Buffers /\ Source(x)
      /\ buffer.byte_length \in DATA_HEADER_SIZE .. MessageSize - 1
      /\ elements \in Seq(Elements)
      /\ buffer' = serialize_data(buffer, x.src, x.num, x.type)
  BY ItemsAreSources DEF ReadInv, MessageInv, MessageTypes, Serialize
<1>3. CASE ~Fits(buffer, x.num)
  <2>1. buffer' = buffer /\ elements' = elements
    BY <1>2, <1>3 DEF Serialize, serialize_data
  <2> QED BY <2>1, <1>1 DEF ReadInv, OneBehindTheOther, AllWritten, End, Written, Exact
<1>4. CASE Fits(buffer, x.num)
  <2> PICK l \in Nat : l = Len(elements)
    BY <1>2
  <2>1. elements' = Append(elements, Added(x)) /\ Added(x) \in Elements
    BY <1>2, <1>4, CopiedBound DEF Serialize, Added, Elements
  <2>2. /\ DOMAIN elements = 1 .. l /\ DOMAIN elements' = 1 .. l + 1
        /\ Len(elements') = l + 1 /\ elements'[l + 1] = Added(x)
        /\ \A i \in 1 .. l : elements'[i] = elements[i]
    BY <1>2, <2>1
  <2>3. /\ Added(x).item = x /\ Added(x).at = buffer.byte_length
        /\ Added(x).copied = Copied(buffer, x.src, x.num, x.type)
    BY DEF Added
  <2>4. /\ buffer.byte_length \in Nat /\ x.num \in Nat
        /\ buffer'.byte_length = buffer.byte_length + 3 + x.num
        /\ buffer'.data[buffer.byte_length] = x.num
        /\ buffer'.data[buffer.byte_length + 1] = x.type
        /\ Copied(buffer, x.src, x.num, x.type) = x.num =>
              /\ \A k \in 0 .. x.num - 1 : buffer'.data[buffer.byte_length + 2 + k] = x.src[k]
              /\ buffer'.data[buffer.byte_length + 2 + x.num] = 0
    BY <1>2, <1>4, SerializeBytes DEF Buffers, Source
  <2>5. Written(buffer'.data, Added(x))
    BY <2>3, <2>4 DEF Written, Exact
  <2>6. \A i \in 1 .. l : Written(buffer'.data, elements[i])
    <3>1. \A k \in DATA_HEADER_SIZE .. buffer.byte_length - 1 :
             buffer'.data[k] = buffer.data[k]
      BY <1>1, <2>4, HeaderSize
    <3> QED BY <3>1, <1>2, <2>2, WrittenStays DEF ReadInv
  <2>7. ASSUME NEW i \in 1 .. l + 1
        PROVE  /\ elements'[i].at + 3 + elements'[i].item.num <= buffer'.byte_length
               /\ Written(buffer'.data, elements'[i])
    <3>1. CASE i = l + 1
      BY <3>1, <2>2, <2>3, <2>4, <2>5
    <3>2. CASE i # l + 1
      <4>1. i \in 1 .. l /\ i \in DOMAIN elements
        BY <3>2, <2>2
      <4>2. /\ elements[i].at + 3 + elements[i].item.num <= buffer.byte_length
            /\ elements[i].at \in Nat /\ elements[i].item.num \in Nat
        BY <4>1, <1>2, ElementTypes DEF ReadInv, AllWritten
      <4>3. elements'[i] = elements[i]
        BY <4>1, <2>2
      <4>4. Written(buffer'.data, elements'[i])
        BY <4>1, <4>3, <2>6
      <4>5. elements[i].at + 3 + elements[i].item.num <= buffer'.byte_length
        <5>1. PICK bl \in Nat, m \in Nat : /\ bl = buffer.byte_length /\ m = x.num
                                         /\ buffer'.byte_length = bl + 3 + m
          BY <2>4
        <5>2. PICK a \in Nat, n \in Nat : a = elements[i].at /\ n = elements[i].item.num
          BY <4>2
        <5>3. a + 3 + n <= bl
          BY <5>1, <5>2, <4>2
        <5>4. a + 3 + n <= bl + 3 + m
          BY <5>3
        <5> QED BY <5>1, <5>2, <5>4
      <4> QED BY <4>3, <4>4, <4>5
    <3> QED BY <3>1, <3>2
  <2>8. \A i \in 0 .. l : End(i)' = End(i)
    BY <2>2 DEF End
  <2>9. ASSUME NEW i \in 1 .. l + 1
        PROVE  elements'[i].at = End(i - 1)'
    <3>1. CASE i = l + 1
      <4>1. i - 1 = l /\ l \in 0 .. l
        BY <3>1
      <4>2. buffer.byte_length = End(l)
        BY DEF ReadInv, OneBehindTheOther
      <4> QED BY <3>1, <4>1, <4>2, <2>2, <2>3, <2>8
    <3>2. CASE i # l + 1
      <4>1. i \in 1 .. l /\ i - 1 \in 0 .. l
        BY <3>2
      <4> QED BY <4>1, <2>2, <2>8 DEF ReadInv, OneBehindTheOther
    <3> QED BY <3>1, <3>2
  <2>10. buffer'.byte_length = End(l + 1)'
    BY <2>2, <2>3, <2>4 DEF End
  <2>11. OneBehindTheOther'
    BY <2>2, <2>9, <2>10 DEF OneBehindTheOther
  <2>12. AllWritten'
    BY <2>2, <2>7 DEF AllWritten, Written, Exact
  <2> QED BY <1>1, <2>11, <2>12 DEF ReadInv
<1> QED BY <1>3, <1>4

\* The elements up to i, if all have the length their sizes say, are a chain
\* that get_data() can follow.
LEMMA ReadsElement ==
    ASSUME ReadInv, NEW i \in DOMAIN elements, \A j \in 1 .. i : Exact(elements[j])
    PROVE  ElementAt(buffer.data, i - 1) = elements[i].at
<1>1. MessageTypes /\ elements \in Seq(Elements) /\ DOMAIN elements = 1 .. Len(elements)
  BY DEF ReadInv, MessageInv, MessageTypes
<1>2. i \in Nat /\ i >= 1 /\ i <= Len(elements) /\ i - 1 \in Nat
  BY <1>1, ElementTypes
<1> DEFINE place == [k \in 0 .. i - 1 |-> elements[k + 1].at]
<1>3. ASSUME NEW j \in 1 .. i
      PROVE  /\ elements[j].at \in Nat /\ elements[j].at >= 13
             /\ elements[j].item.num \in Nat
             /\ Cell(buffer.data, elements[j].at) = elements[j].item.num
             /\ Cell(buffer.data, elements[j].at + 2 + elements[j].item.num) = 0
  <2>1. j \in DOMAIN elements
    BY <1>1, <1>2
  <2>2. /\ elements[j].at \in Nat /\ elements[j].at >= 13
        /\ elements[j].item.num \in Nat
        /\ elements[j].at + 3 + elements[j].item.num <= buffer.byte_length
        /\ Written(buffer.data, elements[j]) /\ Exact(elements[j])
    BY <1>1, <2>1, ElementTypes DEF ReadInv, AllWritten
  <2>3. /\ DOMAIN buffer.data = Indexes /\ buffer.byte_length \in Nat
        /\ buffer.byte_length <= MessageSize - 1
    BY <1>1, HeaderSize DEF MessageTypes, Buffers
  <2>4. /\ elements[j].at \in Indexes
        /\ elements[j].at + 2 + elements[j].item.num \in Indexes
    <3>1. PICK a \in Nat, n \in Nat : a = elements[j].at /\ n = elements[j].item.num
      BY <2>2
    <3>2. a + 3 + n <= MessageSize - 1
      BY <3>1, <2>2, <2>3, HeaderSize
    <3>3. a \in Indexes /\ a + 2 + n \in Indexes
      BY <3>2, HeaderSize DEF Indexes
    <3> QED BY <3>1, <3>3
  <2> QED BY <2>2, <2>3, <2>4 DEF Cell, Written
<1>4. place \in [0 .. i - 1 -> Nat \ {0}]
  BY <1>2, <1>3
<1>5. place[0] = DTPOS
  <2>1. 1 \in DOMAIN elements /\ 0 \in 0 .. i - 1 /\ 1 - 1 = 0
    BY <1>1, <1>2
  <2>2. elements[1].at = End(0)
    BY <2>1 DEF ReadInv, OneBehindTheOther
  <2> QED BY <2>1, <2>2 DEF End
<1>6. ASSUME NEW k \in 1 .. i - 1
      PROVE  /\ Cell(buffer.data, place[k - 1]) \in Nat
             /\ Cell(buffer.data, place[k - 1] + 2 + Cell(buffer.data, place[k - 1])) = 0
             /\ place[k] = place[k - 1] + 2 + Cell(buffer.data, place[k - 1]) + 1
  <2>1. k \in 1 .. i /\ k + 1 \in 1 .. i /\ k # 0 /\ (k + 1) - 1 = k
    BY <1>2
  <2>2. place[k - 1] = elements[k].at /\ place[k] = elements[k + 1].at
    <3>1. k - 1 \in 0 .. i - 1 /\ k \in 0 .. i - 1 /\ (k - 1) + 1 = k
      BY <1>2
    <3> QED BY <3>1
  <2>3. elements[k + 1].at = elements[k].at + 3 + elements[k].item.num
    <3>1. k + 1 \in DOMAIN elements
      BY <2>1, <1>1, <1>2
    <3>2. elements[k + 1].at = End((k + 1) - 1)
      BY <3>1 DEF ReadInv, OneBehindTheOther
    <3> QED BY <3>2, <2>1 DEF End
  <2>4. PICK a \in Nat, n \in Nat : a = elements[k].at /\ n = elements[k].item.num
    BY <2>1, <1>3
  <2>5. a + 3 + n = a + 2 + n + 1
    OBVIOUS
  <2> QED BY <2>1, <2>2, <2>3, <2>4, <2>5, <1>3
<1>7. Chained(buffer.data, place, i - 1)
  BY <1>4, <1>5, <1>6 DEF Chained
<1>8. place[i - 1] = elements[i].at
  BY <1>2
<1> HIDE DEF place
<1> QED BY <1>2, <1>7, <1>8, ElementPlace

LEMMA ReadInvReads ==
    ASSUME ReadInv
    PROVE  ReadsBack
<1> SUFFICES ASSUME NEW i \in DOMAIN elements,
                    i <= get_number_fields(buffer.data),
                    get_number_fields(buffer.data) < MaxFields,
                    \A j \in 1 .. i : Exact(elements[j])
             PROVE  LET x == elements[i].item
                        got == get_data(buffer.data, i - 1)
                    IN /\ Found(buffer.data, i - 1)
                       /\ got.size = x.num /\ got.type = x.type
                       /\ \A k \in 0 .. x.num - 1 : buffer.data[got.data + k] = x.src[k]
    BY DEF ReadsBack
<1>1. /\ MessageTypes /\ i \in Nat /\ i >= 1
      /\ elements[i].at \in Nat /\ elements[i].at >= 13
      /\ elements[i].item.num \in Nat
      /\ elements[i].at + 3 + elements[i].item.num <= buffer.byte_length
      /\ Written(buffer.data, elements[i]) /\ Exact(elements[i])
  BY ElementTypes DEF ReadInv, MessageInv, AllWritten
<1>2. ElementAt(buffer.data, i - 1) = elements[i].at
  BY ReadsElement
<1>3. /\ elements[i].at \in DOMAIN buffer.data
      /\ elements[i].at + 1 \in DOMAIN buffer.data
      /\ buffer.data \in [Indexes -> Cells]
  BY <1>1, HeaderSize DEF MessageTypes, Buffers, Indexes
<1>4. Found(buffer.data, i - 1)
  <2>1. Cell(buffer.data, FLDPOS) \in Nat /\ Cell(buffer.data, FLDPOS + 1) \in Nat
    BY <1>3 DEF Cell, Cells
  <2>2. get_number_fields(buffer.data) \in Nat
    BY <2>1 DEF get_number_fields
  <2> QED BY <2>2, <1>1, <1>2 DEF Found, Nowhere
<1>5. /\ get_data(buffer.data, i - 1).size = elements[i].item.num
      /\ get_data(buffer.data, i - 1).type = elements[i].item.type
      /\ get_data(buffer.data, i - 1).data = elements[i].at + 2
  BY <1>1, <1>2, <1>3 DEF get_data, Cell, Written
<1> QED BY <1>1, <1>4, <1>5 DEF Written

\* An element reads back as it was added: the chain of sizes and terminators
\* that get_data() follows leads to it, and no later step writes into it.
THEOREM WhatWasAdded == Spec => []ReadsBack
<1>1. ReadInv /\ [Next]_vars => ReadInv'
  <2> SUFFICES ASSUME ReadInv, [Next]_vars PROVE ReadInv'
    OBVIOUS
  <2>1. CASE UNCHANGED vars
    <3>1. MessageInv'
      BY StepMessage DEF ReadInv
    <3> QED BY <3>1, <2>1 DEF vars, ReadInv, OneBehindTheOther, AllWritten, End, Written,
                              Exact
  <2> QED BY <2>1, ToWireReads, SerializeReads DEF Next
<1>2. ReadInv => ReadsBack
  BY ReadInvReads
<1> QED BY <1>1, <1>2, InitReads, PTL DEF Spec

=============================================================================

-------------------------- MODULE DataBufferProofs ---------------------------
(***************************************************************************)
(* Lemmas about the operators of DataBuffer, for every size of a message   *)
(* up to 256 and every value: what to_wire() and serialize_data() leave    *)
(* alone and what they write, and where get_data() finds an element.       *)
(***************************************************************************)
EXTENDS DataBuffer, WellFoundedInduction, TLAPS

LEMMA HeaderSize ==
    /\ DATA_HEADER_SIZE = 13
    /\ PROTPOS = 0 /\ OPPOS = 1 /\ FUNCPOS = 2 /\ BYTEPOS = 6
    /\ FLDPOS = 10 /\ NULLTERMPOS = 12
    /\ MessageSize \in Nat /\ MessageSize > 13 /\ MessageSize <= 256
BY SizeAssumption
   DEF DATA_HEADER_SIZE, DTPOS, NULLTERMPOS, FLDPOS, BYTEPOS, MAGPOS, FUNCPOS,
       OPPOS, PROTPOS

\* The header to_wire() writes is one of bytes.
LEMMA ByteOf ==
    ASSUME NEW n \in Nat, NEW i \in Nat
    PROVE  LittleEndian(n, i) \in Cells
<1>1. n % 256 \in Cells
  BY DEF Cells
<1>2. (n \div 256) % 256 \in Cells
  <2>1. n \div 256 \in Nat
    OBVIOUS
  <2> QED BY <2>1 DEF Cells
<1> QED BY <1>1, <1>2 DEF LittleEndian, Cells

\* to_wire() changes the header only.
LEMMA ToWireType ==
    ASSUME NEW b \in Buffers
    PROVE  /\ to_wire(b) \in Buffers
           /\ to_wire(b).byte_length = b.byte_length
           /\ to_wire(b).fields = b.fields
           /\ to_wire(b).overran = b.overran
           /\ \A k \in DATA_HEADER_SIZE .. MessageSize - 1 :
                  to_wire(b).data[k] = b.data[k]
<1> DEFINE cell(k) ==
        CASE k = PROTPOS                 -> PROTOCOL_VERSION
          [] k = OPPOS                   -> DATA_PACKET
          [] k \in FUNCPOS .. BYTEPOS - 1 -> 0
          [] k \in BYTEPOS .. FLDPOS - 1 -> LittleEndian(b.byte_length, k - BYTEPOS)
          [] k \in FLDPOS .. NULLTERMPOS - 1 -> LittleEndian(b.fields, k - FLDPOS)
          [] OTHER                       -> b.data[k]
<1>1. /\ b.data \in [Indexes -> Cells]
      /\ b.byte_length \in Nat /\ b.fields \in Nat /\ b.overran \in BOOLEAN
  BY DEF Buffers
<1>2. ASSUME NEW k \in Indexes
      PROVE  cell(k) \in Cells
  <2>1. k \in Nat
    BY HeaderSize DEF Indexes
  <2>2. b.data[k] \in Cells /\ PROTOCOL_VERSION \in Cells /\ DATA_PACKET \in Cells
        /\ 0 \in Cells
    BY <1>1 DEF PROTOCOL_VERSION, DATA_PACKET, Cells
  <2>3. k \in BYTEPOS .. FLDPOS - 1 => LittleEndian(b.byte_length, k - BYTEPOS) \in Cells
    <3>1. k \in BYTEPOS .. FLDPOS - 1 => k - BYTEPOS \in Nat
      BY <2>1, HeaderSize
    <3> QED BY <3>1, <1>1, ByteOf
  <2>4. k \in FLDPOS .. NULLTERMPOS - 1 => LittleEndian(b.fields, k - FLDPOS) \in Cells
    <3>1. k \in FLDPOS .. NULLTERMPOS - 1 => k - FLDPOS \in Nat
      BY <2>1, HeaderSize
    <3> QED BY <3>1, <1>1, ByteOf
  <2> QED BY <2>2, <2>3, <2>4
<1>3. to_wire(b) = [b EXCEPT !.data = [k \in Indexes |-> cell(k)]]
  BY DEF to_wire
<1>4. ASSUME NEW k \in DATA_HEADER_SIZE .. MessageSize - 1
      PROVE  k \in Indexes /\ cell(k) = b.data[k]
  BY HeaderSize DEF Indexes
<1> HIDE DEF cell
<1>5. [k \in Indexes |-> cell(k)] \in [Indexes -> Cells]
  BY <1>2
<1>6. /\ to_wire(b) = [data |-> [k \in Indexes |-> cell(k)],
                       byte_length |-> b.byte_length, fields |-> b.fields,
                       overran |-> b.overran]
  BY <1>3 DEF Buffers
<1> QED BY <1>1, <1>4, <1>5, <1>6 DEF Buffers

\* What serialize_data() is given.
Source(x) == /\ x.num \in Nat /\ x.num \in Cells /\ x.type \in Cells
             /\ x.src \in [0 .. WordCopied(x.num) + 7 -> Cells]

LEMMA CellsAreNumbers == 0 \in Cells /\ \A c \in Cells : c \in Nat
BY DEF Cells

\* A copy by words takes more bytes than it counts, never fewer.
LEMMA CopyLength ==
    ASSUME NEW n \in Nat
    PROVE  WordCopied(n) \in Nat /\ WordCopied(n) >= n
<1>1. n \div 4 \in Nat /\ n % 4 \in Nat /\ n = 4 * (n \div 4) + (n % 4)
  OBVIOUS
<1> QED BY <1>1 DEF WordCopied

\* The bytes that are copied are within the memory at the value and behind it.
LEMMA CopiedBound ==
    ASSUME NEW b, NEW x, Source(x)
    PROVE  /\ Copied(b, x.src, x.num, x.type) \in Nat
           /\ Copied(b, x.src, x.num, x.type) <= WordCopied(x.num) + 7
<1>1. WordCopied(x.num) \in Nat /\ WordCopied(x.num) >= x.num /\ x.num \in Nat
  BY CopyLength DEF Source
<1>2. Width(x.type) \in 0 .. 4
  BY DEF Width
<1> QED BY <1>1, <1>2 DEF Copied

\* serialize_data() writes behind what is there, and counts what it was told
\* to write, if that fits.
LEMMA SerializeType ==
    ASSUME NEW b \in Buffers, NEW x, Source(x),
           b.byte_length \in DATA_HEADER_SIZE .. MessageSize - 1,
           Fits(b, x.num)
    PROVE  LET n == serialize_data(b, x.src, x.num, x.type) IN
           /\ n \in Buffers
           /\ n.byte_length \in DATA_HEADER_SIZE .. MessageSize - 1
           /\ n.byte_length >= b.byte_length
           /\ n.fields = b.fields + 1
           /\ \A k \in 0 .. b.byte_length - 1 : n.data[k] = b.data[k]
           /\ n.overran => \/ b.overran
                           \/ Copied(b, x.src, x.num, x.type) > x.num + 1
<1> DEFINE bl   == b.byte_length
           copied == Copied(b, x.src, x.num, x.type)
           head == bl + 2
           end  == head + copied
           cell(k) ==
             CASE k = bl                  -> x.num
               [] k = bl + 1              -> x.type
               [] k \in head .. end - 1   -> x.src[k - head]
               [] k = end                 -> 0
               [] OTHER                   -> b.data[k]
           n == [data |-> [k \in Indexes |-> cell(k)],
                 byte_length |-> bl + 3 + x.num,
                 fields |-> b.fields + 1,
                 overran |-> b.overran \/ end >= MessageSize]
<1>1. /\ b.data \in [Indexes -> Cells]
      /\ bl \in Nat /\ b.fields \in Nat /\ b.overran \in BOOLEAN
      /\ bl >= 13 /\ bl <= MessageSize - 1
  BY HeaderSize DEF Buffers
<1>2. /\ x.num \in Nat /\ x.num \in Cells /\ x.type \in Cells
      /\ copied \in Nat /\ copied <= WordCopied(x.num) + 7
      /\ WordCopied(x.num) \in Nat
      /\ x.src \in [0 .. WordCopied(x.num) + 7 -> Cells]
  BY CopiedBound, CopyLength DEF Source
<1>3. bl + 3 + x.num < MessageSize
  BY <1>1, <1>2, HeaderSize DEF Fits
<1>4. serialize_data(b, x.src, x.num, x.type) = n
  BY DEF serialize_data
<1> HIDE DEF copied, bl
<1>5. ASSUME NEW k \in Indexes
      PROVE  cell(k) \in Cells
  <2>1. k \in Nat /\ b.data[k] \in Cells /\ 0 \in Cells
    BY <1>1, HeaderSize, CellsAreNumbers DEF Indexes
  <2>2. k \in head .. end - 1 => x.src[k - head] \in Cells
    <3>1. k \in head .. end - 1 => k - head \in 0 .. WordCopied(x.num) + 7
      BY <2>1, <1>1, <1>2
    <3> QED BY <3>1, <1>2
  <2> QED BY <2>1, <2>2, <1>2
<1>6. ASSUME NEW k \in 0 .. bl - 1
      PROVE  k \in Indexes /\ cell(k) = b.data[k]
  <2>1. k \in Nat /\ k < bl /\ k \in Indexes
    BY <1>1, HeaderSize DEF Indexes
  <2>2. k # bl /\ k # bl + 1 /\ k \notin head .. end - 1 /\ k # end
    BY <2>1, <1>1, <1>2
  <2> QED BY <2>1, <2>2
<1>7. end >= MessageSize => copied > x.num + 1
  BY <1>1, <1>2, <1>3, HeaderSize
<1>8. (b.overran \/ end >= MessageSize) \in BOOLEAN
  OBVIOUS
<1> HIDE DEF cell, end
<1>9. [k \in Indexes |-> cell(k)] \in [Indexes -> Cells]
  BY <1>5
<1>10. n \in Buffers
  BY <1>1, <1>2, <1>8, <1>9 DEF Buffers
<1>11. n.byte_length \in DATA_HEADER_SIZE .. MessageSize - 1 /\ n.byte_length >= bl
  BY <1>1, <1>2, <1>3, HeaderSize
<1>12. \A k \in 0 .. bl - 1 : n.data[k] = b.data[k]
  BY <1>6
<1>13. n.overran => b.overran \/ copied > x.num + 1
  BY <1>7
<1>14. n.fields = b.fields + 1
  OBVIOUS
<1> HIDE DEF n
<1> QED BY <1>4, <1>10, <1>11, <1>12, <1>13, <1>14 DEF bl, copied

\* What serialize_data() writes for an element that fits: its size, its type,
\* and, if it copies as many bytes as it counts, these and a terminator.
LEMMA SerializeBytes ==
    ASSUME NEW b \in Buffers, NEW x, Source(x),
           b.byte_length \in DATA_HEADER_SIZE .. MessageSize - 1,
           Fits(b, x.num)
    PROVE  LET n  == serialize_data(b, x.src, x.num, x.type)
               bl == b.byte_length
           IN
           /\ n.byte_length = bl + 3 + x.num
           /\ n.data[bl] = x.num /\ n.data[bl + 1] = x.type
           /\ Copied(b, x.src, x.num, x.type) = x.num =>
                 /\ \A k \in 0 .. x.num - 1 : n.data[bl + 2 + k] = x.src[k]
                 /\ n.data[bl + 2 + x.num] = 0
<1> DEFINE bl   == b.byte_length
           copied == Copied(b, x.src, x.num, x.type)
           head == bl + 2
           end  == head + copied
           cell(k) ==
             CASE k = bl                  -> x.num
               [] k = bl + 1              -> x.type
               [] k \in head .. end - 1   -> x.src[k - head]
               [] k = end                 -> 0
               [] OTHER                   -> b.data[k]
           n == serialize_data(b, x.src, x.num, x.type)
<1>1. bl \in Nat /\ bl >= 13 /\ x.num \in Nat /\ copied \in Nat
  BY HeaderSize, CopiedBound DEF Buffers, Source
<1>2. bl + 3 + x.num < MessageSize
  BY <1>1, HeaderSize DEF Fits
<1>3. n.data = [k \in Indexes |-> cell(k)] /\ n.byte_length = bl + 3 + x.num
  BY DEF serialize_data
<1> HIDE DEF n, copied, bl
<1>4. /\ bl \in Indexes /\ bl + 1 \in Indexes
      /\ \A k \in 0 .. x.num : bl + 2 + k \in Indexes
  BY <1>1, <1>2, HeaderSize DEF Indexes
<1>5. cell(bl) = x.num
  <2>1. bl # bl + 1 /\ bl \notin head .. end - 1 /\ bl # end
    BY <1>1
  <2> QED BY <2>1
<1>6. cell(bl + 1) = x.type
  <2>1. bl + 1 # bl /\ bl + 1 \notin head .. end - 1 /\ bl + 1 # end
    BY <1>1
  <2> QED BY <2>1
<1>7. ASSUME copied = x.num
      PROVE  /\ \A k \in 0 .. x.num - 1 : cell(bl + 2 + k) = x.src[k]
             /\ cell(bl + 2 + x.num) = 0
  <2>1. ASSUME NEW k \in 0 .. x.num - 1
        PROVE  cell(bl + 2 + k) = x.src[k]
    <3>1. PICK j \in Nat : j = bl + 2 + k
      BY <1>1
    <3>2. j # bl /\ j # bl + 1 /\ j \in head .. end - 1 /\ j - head = k
      BY <3>1, <1>1, <1>7
    <3> QED BY <3>1, <3>2
  <2>2. PICK j \in Nat : j = bl + 2 + x.num
    BY <1>1
  <2>3. j # bl /\ j # bl + 1 /\ j \notin head .. end - 1 /\ j = end
    BY <2>2, <1>1, <1>7
  <2> QED BY <2>1, <2>2, <2>3
<1> HIDE DEF cell
<1>8. n.data[bl] = x.num /\ n.data[bl + 1] = x.type
  BY <1>3, <1>4, <1>5, <1>6
<1>9. copied = x.num => /\ \A k \in 0 .. x.num - 1 : n.data[bl + 2 + k] = x.src[k]
                        /\ n.data[bl + 2 + x.num] = 0
  <2> SUFFICES ASSUME copied = x.num
               PROVE  /\ \A k \in 0 .. x.num - 1 : n.data[bl + 2 + k] = x.src[k]
                      /\ n.data[bl + 2 + x.num] = 0
      OBVIOUS
  <2>1. \A k \in 0 .. x.num - 1 : k \in 0 .. x.num
    BY <1>1
  <2>2. x.num \in 0 .. x.num
    BY <1>1
  <2> QED BY <2>1, <2>2, <1>3, <1>4, <1>7
<1> QED BY <1>3, <1>8, <1>9 DEF n, bl, copied

-----------------------------------------------------------------------------
(* Where get_data() finds an element.                                      *)

\* Every set of numbers has a least one: the induction of the next lemma.
LEMMA LeastNumber ==
    ASSUME NEW T \in SUBSET Nat, T # {}
    PROVE  \E n \in T : \A m \in T : n <= m
<1> DEFINE R == OpToRel(<, Nat)
<1>1. IsWellFoundedOn(R, Nat)
  BY NatLessThanWellFounded
<1> HIDE DEF R
<1>2. PICK n \in T : \A m \in T : ~ (<<m, n>> \in R)
  BY <1>1, WFMin
<1>3. \A m \in T : m < n => <<m, n>> \in R
  BY DEF R, OpToRel
<1>4. \A m \in T : ~ (m < n)
  BY <1>2, <1>3
<1> QED BY <1>4

\* The places of elements that are one behind the other, each ended by its
\* terminator.
Chained(data, place, n) ==
    /\ place \in [0 .. n -> Nat \ {0}]
    /\ place[0] = DTPOS
    /\ \A i \in 1 .. n :
          /\ Cell(data, place[i - 1]) \in Nat
          /\ Cell(data, place[i - 1] + 2 + Cell(data, place[i - 1])) = 0
          /\ place[i] = place[i - 1] + 2 + Cell(data, place[i - 1]) + 1

\* get_data() goes from element to element and finds the last of them.
THEOREM ElementPlace ==
    ASSUME NEW data, NEW n \in Nat, NEW place, Chained(data, place, n)
    PROVE  ElementAt(data, n) = place[n]
<1> DEFINE next(a) == LET terminator == a + 2 + Cell(data, a)
                      IN IF a = Nowhere \/ Cell(data, terminator) # 0
                         THEN Nowhere ELSE terminator + 1
           Defines(f) == f = [i \in 0 .. n |-> IF i = 0 THEN DTPOS ELSE next(f[i - 1])]
           at == CHOOSE f : Defines(f)
<1>1. ElementAt(data, n) = at[n]
  BY DEF ElementAt
<1>2. /\ place \in [0 .. n -> Nat \ {0}] /\ place[0] = DTPOS
      /\ \A i \in 1 .. n : place[i] = next(place[i - 1])
  <2>1. place \in [0 .. n -> Nat \ {0}] /\ place[0] = DTPOS
    BY DEF Chained
  <2>2. ASSUME NEW i \in 1 .. n
        PROVE  place[i] = next(place[i - 1])
    <3>1. i - 1 \in 0 .. n
      OBVIOUS
    <3>2. place[i - 1] # Nowhere
      BY <2>1, <3>1 DEF Nowhere
    <3> QED BY <3>2 DEF Chained
  <2> QED BY <2>1, <2>2
<1> HIDE DEF next
<1>3. \A i \in 0 .. n : i # 0 => i \in 1 .. n /\ i - 1 \in 0 .. n
  OBVIOUS
<1>4. Defines(place)
  BY <1>2, <1>3
<1>5. Defines(at)
  BY <1>4
<1> HIDE DEF at
<1>6. /\ at[0] = DTPOS
      /\ \A i \in 0 .. n : i # 0 => at[i] = next(at[i - 1])
  BY <1>5
<1> DEFINE Wrong == {i \in 0 .. n : at[i] # place[i]}
<1>7. Wrong = {}
  <2> SUFFICES ASSUME Wrong # {} PROVE FALSE
    OBVIOUS
  <2>1. Wrong \in SUBSET Nat
    OBVIOUS
  <2> HIDE DEF Wrong
  <2>2. PICK m \in Wrong : \A k \in Wrong : m <= k
    BY <2>1, LeastNumber
  <2>3. m \in 0 .. n /\ at[m] # place[m]
    BY DEF Wrong
  <2>4. m # 0
    BY <2>3, <1>2, <1>6
  <2>5. m - 1 \in 0 .. n /\ m \in 1 .. n /\ ~ (m <= m - 1)
    BY <2>3, <2>4
  <2>6. m - 1 \notin Wrong
    BY <2>2, <2>5
  <2>7. at[m - 1] = place[m - 1]
    BY <2>5, <2>6 DEF Wrong
  <2> QED BY <2>3, <2>4, <2>5, <2>7, <1>2, <1>6
<1>8. n \in 0 .. n
  OBVIOUS
<1> QED BY <1>1, <1>7, <1>8

=============================================================================

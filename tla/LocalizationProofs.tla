------------------------- MODULE LocalizationProofs -------------------------
(***************************************************************************)
(* Proofs about Localization, for any positions, measurements and number   *)
(* of messages on their way.                                               *)
(***************************************************************************)
EXTENDS Localization, DataBufferProofs, SequenceTheorems, TLAPS

Positions == [x : Cells, y : Cells, theta : Cells]

LEMMA PosesArePositions == Poses0 \subseteq Positions
BY LocalizationAssumption DEF Poses0, Positions

\* main() inside the lock, with its first k members of the position set.
Setting == {"x", "y", "theta", "unlock"}

Outside == {"new", "idle", "lock", "capture", "aborted", "quit", "gone"}

\* What the lock guards is one position, or on its way from one to the next.
Members ==
    /\ detector = "y" => pos.x = new.x
    /\ detector = "theta" => pos.x = new.x /\ pos.y = new.y
    /\ detector = "unlock" => pos = new

GuardedPosition ==
    /\ pos \in Positions
    /\ new \in Poses0
    /\ \/ guard = TRUE /\ detector \in Setting
       \/ guard = FALSE /\ detector \in Outside /\ pos \in Poses0
    /\ Members

LEMMA InitGuarded == Init => GuardedPosition
<1> SUFFICES ASSUME Init PROVE GuardedPosition
    OBVIOUS
<1>1. /\ detector = "new" /\ guard = FALSE /\ pos = Unset /\ new = Unset
      /\ Unset \in Poses0 /\ Unset \in Positions
  BY PosesArePositions DEF Init, Poses0
<1>2. detector \in Outside /\ detector \notin Setting
  BY <1>1 DEF Outside, Setting
<1>3. Members
  BY <1>1 DEF Members
<1> QED BY <1>1, <1>2, <1>3 DEF GuardedPosition

\* Two positions with the same members are the same.
LEMMA SamePosition ==
    ASSUME NEW p \in Positions, NEW q \in Positions,
           p.x = q.x, p.y = q.y
    PROVE  [p EXCEPT !.theta = q.theta] = q
BY DEF Positions

LEMMA MemberTypes ==
    ASSUME NEW p \in Positions, NEW q \in Positions
    PROVE  /\ [p EXCEPT !.x = q.x] \in Positions
           /\ [p EXCEPT !.x = q.x].x = q.x
           /\ [p EXCEPT !.y = q.y] \in Positions
           /\ [p EXCEPT !.y = q.y].x = p.x
           /\ [p EXCEPT !.y = q.y].y = q.y
           /\ [p EXCEPT !.theta = q.theta] \in Positions
BY DEF Positions

LEMMA SetGuarded ==
    ASSUME GuardedPosition, SetPosition
    PROVE  GuardedPosition'
<1>0. /\ pos \in Positions /\ new \in Positions /\ new' = new /\ guard' = guard
  BY PosesArePositions DEF GuardedPosition, SetPosition
<1> USE DEF GuardedPosition, Members, Setting, Outside, Detector
<1>1. CASE Detector("x", "y") /\ pos' = [pos EXCEPT !.x = new.x]
  <2>1. pos' \in Positions /\ pos'.x = new.x
    BY <1>0, <1>1, MemberTypes
  <2> QED BY <1>0, <1>1, <2>1
<1>2. CASE Detector("y", "theta") /\ pos' = [pos EXCEPT !.y = new.y]
  <2>1. pos.x = new.x
    BY <1>2
  <2>2. pos' \in Positions /\ pos'.x = new.x /\ pos'.y = new.y
    BY <1>0, <1>2, <2>1, MemberTypes
  <2> QED BY <1>0, <1>2, <2>2
<1>3. CASE Detector("theta", "unlock") /\ pos' = [pos EXCEPT !.theta = new.theta]
  <2>1. pos.x = new.x /\ pos.y = new.y
    BY <1>3
  <2>2. pos' = new
    BY <1>0, <1>3, <2>1, SamePosition
  <2> QED BY <1>0, <1>3, <2>2
<1> QED BY <1>1, <1>2, <1>3 DEF SetPosition

\* The other steps of main() leave the position alone.
LEMMA DetectorGuarded ==
    ASSUME GuardedPosition,
           \/ SyncStart \/ CloseWindow \/ Destroy \/ CaptureFails
           \/ LockPosition \/ UnlockPosition
           \/ \E p \in Poses : Detect(p)
    PROVE  GuardedPosition'
<1> USE DEF GuardedPosition, Members, Setting, Outside, Detector
<1>1. CASE SyncStart
  BY <1>1 DEF SyncStart
<1>2. CASE CloseWindow
  BY <1>2 DEF CloseWindow
<1>3. CASE Destroy
  BY <1>3 DEF Destroy
<1>4. CASE CaptureFails
  BY <1>4 DEF CaptureFails
<1>5. CASE LockPosition
  BY <1>5 DEF LockPosition
<1>6. CASE UnlockPosition
  <2>1. /\ detector = "unlock" /\ detector' \in {"capture", "idle"}
        /\ guard' = FALSE /\ UNCHANGED <<pos, new>>
    BY <1>6 DEF UnlockPosition
  <2>2. pos = new /\ pos' \in Poses0
    BY <2>1
  <2> QED BY <2>1, <2>2 DEF Poses0
<1>7. CASE \E p \in Poses : Detect(p)
  <2>1. PICK p \in Poses : Detect(p)
    BY <1>7
  <2>2. new' \in Poses0 /\ UNCHANGED <<pos, guard>>
    BY <2>1 DEF Detect, Poses0
  <2>3. detector = "idle" /\ detector' = "lock"
    BY <2>1 DEF Detect
  <2>4. pos' \in Positions /\ pos' \in Poses0 /\ guard' = FALSE
    BY <2>2, <2>3
  <2> QED BY <2>2, <2>3, <2>4 DEF Poses0
<1> QED BY <1>1, <1>2, <1>3, <1>4, <1>5, <1>6, <1>7

LEMMA StepGuarded ==
    ASSUME GuardedPosition, [Next]_vars
    PROVE  GuardedPosition'
<1>1. CASE \/ SyncStart \/ CloseWindow \/ Destroy \/ CaptureFails
           \/ LockPosition \/ UnlockPosition
           \/ \E p \in Poses : Detect(p)
  BY <1>1, DetectorGuarded
<1>2. CASE SetPosition
  BY <1>2, SetGuarded
<1>3. CASE \/ PublishPosition \/ PublishOther \/ Convert
           \/ (\E a, b \in Motions0 : PublishMotion(a, b)) \/ UNCHANGED vars
  <2>1. UNCHANGED cameraVars
    BY <1>3 DEF PublishPosition, PublishOther, Convert, PublishMotion, vars
  <2> QED BY <2>1 DEF cameraVars, GuardedPosition, Members
<1> QED BY <1>1, <1>2, <1>3 DEF Next

\* The publisher's thread never sends a position of which the detector has
\* set only some members.
THEOREM WholePositions == Spec => []PositionWhole
<1>1. GuardedPosition /\ [Next]_vars => GuardedPosition'
  BY StepGuarded
<1>2. GuardedPosition => PositionWhole
  BY DEF GuardedPosition, PositionWhole, Setting, Outside
<1> QED BY <1>1, <1>2, InitGuarded, PTL DEF Spec

-----------------------------------------------------------------------------
(* Messages of elements of four bytes.                                     *)

LEMMA Room == MessageSize > 48 /\ MaxFields \in Nat /\ MaxFields > 5
BY RoomAssumption, SizeAssumption, HeaderSize

\* Where the element i of such a message begins.
At(i) == DTPOS + 7 * i

\* n elements of four bytes, whatever these are.
Framed(data, n) ==
    \A i \in 0 .. n - 1 : data[At(i)] = 4 /\ data[At(i) + 6] = 0

Zeroed(data, n) ==
    \A i \in 0 .. n - 1, k \in 0 .. 3 : data[At(i) + 2 + k] = 0

Quads(b, n) ==
    /\ b \in Buffers
    /\ b.byte_length = At(n) /\ b.fields = n
    /\ Framed(b.data, n)

LEMMA AtValue ==
    ASSUME NEW i \in Nat
    PROVE  At(i) = 13 + 7 * i /\ At(i) \in Nat /\ At(i) >= 13 /\ At(i + 1) = At(i) + 7
BY HeaderSize DEF At, DATA_HEADER_SIZE

LEMMA NothingAdded == Quads(create_buffer, 0) /\ Zeroed(create_buffer.data, 0)
<1> DEFINE empty == [data |-> [k \in Indexes |-> 0], byte_length |-> DATA_HEADER_SIZE,
                     fields |-> 0, overran |-> FALSE]
<1>1. empty \in Buffers
  BY HeaderSize DEF Buffers, Cells
<1>2. /\ create_buffer \in Buffers /\ create_buffer.byte_length = DATA_HEADER_SIZE
      /\ create_buffer.fields = 0
  BY <1>1, ToWireType DEF create_buffer
<1>3. create_buffer.byte_length = At(0) /\ ~ \E i \in 0 .. 0 - 1 : TRUE
  BY <1>2, AtValue, HeaderSize
<1> QED BY <1>2, <1>3 DEF Quads, Framed, Zeroed

\* A zero of four bytes is added, as long as there is room.
LEMMA QuadAdded ==
    ASSUME NEW b, NEW n \in Nat, Quads(b, n), Zeroed(b.data, n),
           At(n + 1) < MessageSize, NEW type \in {FLOAT, INT32}
    PROVE  LET c == serialize_data(b, [k \in 0 .. 15 |-> 0], 4, type) IN
           Quads(c, n + 1) /\ Zeroed(c.data, n + 1)
<1> DEFINE src == [k \in 0 .. 15 |-> 0]
           x == [src |-> src, num |-> 4, type |-> type]
<1> PICK c : c = serialize_data(b, src, 4, type)
  OBVIOUS
<1>1. Source(x)
  <2>1. WordCopied(4) = 8
    BY DEF WordCopied
  <2>2. src \in [0 .. WordCopied(4) + 7 -> Cells]
    BY <2>1, CellsAreNumbers
  <2>3. 4 \in Cells /\ type \in Cells /\ 4 \in Nat
    BY DEF Cells, FLOAT, INT32
  <2> QED BY <2>2, <2>3 DEF Source
<1>2. /\ b \in Buffers /\ b.byte_length = At(n) /\ b.fields = n
      /\ At(n) \in Nat /\ At(n) >= 13 /\ At(n + 1) = At(n) + 7
  BY AtValue DEF Quads
<1>3. b.byte_length \in DATA_HEADER_SIZE .. MessageSize - 1 /\ Fits(b, x.num)
  BY <1>2, HeaderSize DEF Fits
<1>4. Copied(b, x.src, x.num, x.type) = x.num
  <2>1. Width(type) = 4
    BY DEF Width, FLOAT, INT32, UINT32, INT16, BOOL, CHAR, UINT8, INT8, BYTE_TYPE
  <2> QED BY <2>1 DEF Copied
<1>5. /\ c \in Buffers /\ c.fields = n + 1
      /\ \A k \in 0 .. At(n) - 1 : c.data[k] = b.data[k]
  BY <1>1, <1>2, <1>3, SerializeType
<1>6. /\ c.byte_length = At(n) + 3 + 4
      /\ c.data[At(n)] = 4
      /\ \A k \in 0 .. 4 - 1 : c.data[At(n) + 2 + k] = src[k]
      /\ c.data[At(n) + 2 + 4] = 0
  BY <1>1, <1>2, <1>3, <1>4, SerializeBytes
<1>7. ASSUME NEW i \in 0 .. n
      PROVE  /\ c.data[At(i)] = 4 /\ c.data[At(i) + 6] = 0
             /\ \A k \in 0 .. 3 : c.data[At(i) + 2 + k] = 0
  <2>1. CASE i = n
    <3>1. At(n) + 2 + 4 = At(n) + 6 /\ \A k \in 0 .. 3 : k \in 0 .. 4 - 1 /\ src[k] = 0
      BY <1>2
    <3> QED BY <2>1, <3>1, <1>6
  <2>2. CASE i # n
    <3>1. i \in 0 .. n - 1 /\ i \in Nat
      BY <2>2
    <3>2. At(i) = 13 + 7 * i /\ At(n) = 13 + 7 * n
      BY <3>1, AtValue
    <3>3. /\ At(i) \in 0 .. At(n) - 1 /\ At(i) + 6 \in 0 .. At(n) - 1
          /\ \A k \in 0 .. 3 : At(i) + 2 + k \in 0 .. At(n) - 1
      BY <3>1, <3>2
    <3> QED BY <3>1, <3>3, <1>5 DEF Quads, Framed, Zeroed
  <2> QED BY <2>1, <2>2
<1>8. (n + 1) - 1 = n
  OBVIOUS
<1>9. c.byte_length = At(n + 1)
  BY <1>2, <1>6
<1> QED BY <1>5, <1>7, <1>8, <1>9 DEF Quads, Framed, Zeroed

\* AddFloats() is defined for every number of floats ...
FloatsDefine(f, b, n) ==
    f = [i \in 0 .. n |-> IF i = 0 THEN b ELSE AddFloat(f[i - 1], 4)]

LEMMA FloatsDefined ==
    ASSUME NEW b, NEW n \in Nat
    PROVE  \E f : FloatsDefine(f, b, n)
<1> DEFINE Wrong == {m \in Nat : ~ \E f : FloatsDefine(f, b, m)}
<1> SUFFICES ASSUME Wrong # {} PROVE FALSE
  OBVIOUS
<1>1. Wrong \in SUBSET Nat
  OBVIOUS
<1> HIDE DEF Wrong
<1>2. PICK m \in Wrong : \A k \in Wrong : m <= k
  BY <1>1, LeastNumber
<1>3. m \in Nat /\ ~ \E f : FloatsDefine(f, b, m)
  BY DEF Wrong
<1>4. CASE m = 0
  <2>1. FloatsDefine([i \in 0 .. 0 |-> b], b, 0)
    BY DEF FloatsDefine
  <2> QED BY <2>1, <1>3, <1>4
<1>5. CASE m # 0
  <2>1. m - 1 \in Nat /\ ~ (m <= m - 1)
    BY <1>3, <1>5
  <2>2. PICK f : FloatsDefine(f, b, m - 1)
    BY <2>1, <1>2 DEF Wrong
  <2> DEFINE g == [i \in 0 .. m |-> IF i = m THEN AddFloat(f[m - 1], 4) ELSE f[i]]
  <2>3. ASSUME NEW i \in 0 .. m
        PROVE  g[i] = IF i = 0 THEN b ELSE AddFloat(g[i - 1], 4)
    <3>1. CASE i = m
      <4>1. i # 0 /\ i - 1 \in 0 .. m /\ i - 1 # m
        BY <3>1, <1>3, <1>5
      <4> QED BY <3>1, <4>1
    <3>2. CASE i # m
      <4>1. i \in 0 .. m - 1 /\ i \in Nat
        BY <3>2, <1>3
      <4>2. f[i] = IF i = 0 THEN b ELSE AddFloat(f[i - 1], 4)
        BY <4>1, <2>2 DEF FloatsDefine
      <4>3. i # 0 => i - 1 \in 0 .. m /\ i - 1 # m
        BY <4>1, <1>3
      <4> QED BY <3>2, <4>2, <4>3
    <3> QED BY <3>1, <3>2
  <2>4. FloatsDefine(g, b, m)
    <3>1. g = [i \in 0 .. m |-> g[i]]
      OBVIOUS
    <3> HIDE DEF g
    <3> QED BY <3>1, <2>3 DEF FloatsDefine
  <2> QED BY <2>4, <1>3
<1> QED BY <1>4, <1>5

\* ... and adds them one after the other.
LEMMA AddFloatsStep ==
    ASSUME NEW b, NEW n \in Nat
    PROVE  /\ AddFloats(b, 0) = b
           /\ AddFloats(b, n + 1) = AddFloat(AddFloats(b, n), 4)
<1> DEFINE f(m) == CHOOSE g : FloatsDefine(g, b, m)
<1>1. \A m \in Nat : AddFloats(b, m) = f(m)[m] /\ FloatsDefine(f(m), b, m)
  BY FloatsDefined DEF AddFloats, FloatsDefine
<1> HIDE DEF f
<1>2. ASSUME NEW m \in Nat
      PROVE  /\ f(m)[0] = b
             /\ \A i \in 1 .. m : f(m)[i] = AddFloat(f(m)[i - 1], 4)
  <2>1. FloatsDefine(f(m), b, m)
    BY <1>1
  <2>2. /\ 0 \in 0 .. m
        /\ \A i \in 1 .. m : i \in 0 .. m /\ i # 0
    OBVIOUS
  <2> QED BY <2>1, <2>2 DEF FloatsDefine
<1> PICK g, h : g = f(n) /\ h = f(n + 1)
  OBVIOUS
<1>3. /\ g[0] = b /\ h[0] = b
      /\ \A i \in 1 .. n : g[i] = AddFloat(g[i - 1], 4) /\ h[i] = AddFloat(h[i - 1], 4)
      /\ h[n + 1] = AddFloat(h[n], 4)
  <2>1. n + 1 \in 1 .. n + 1 /\ (n + 1) - 1 = n /\ \A i \in 1 .. n : i \in 1 .. n + 1
    OBVIOUS
  <2> QED BY <2>1, <1>2
<1> DEFINE Wrong == {i \in 0 .. n : g[i] # h[i]}
<1>4. Wrong = {}
  <2> SUFFICES ASSUME Wrong # {} PROVE FALSE
    OBVIOUS
  <2>1. Wrong \in SUBSET Nat
    OBVIOUS
  <2> HIDE DEF Wrong
  <2>2. PICK m \in Wrong : \A k \in Wrong : m <= k
    BY <2>1, LeastNumber
  <2>3. m \in 0 .. n /\ g[m] # h[m]
    BY DEF Wrong
  <2>4. m # 0
    BY <2>3, <1>3
  <2>5. m \in 1 .. n /\ m - 1 \in 0 .. n /\ ~ (m <= m - 1)
    BY <2>3, <2>4
  <2>6. g[m - 1] = h[m - 1]
    BY <2>2, <2>5 DEF Wrong
  <2> QED BY <2>3, <2>5, <2>6, <1>3
<1>5. n \in 0 .. n
  OBVIOUS
<1>6. AddFloats(b, n) = g[n] /\ AddFloats(b, n + 1) = h[n + 1] /\ AddFloats(b, 0) = b
  BY <1>1, <1>2
<1> QED BY <1>3, <1>4, <1>5, <1>6

LEMMA QuadsAdded ==
    ASSUME NEW b, NEW n \in Nat, NEW l \in Nat, Quads(b, l), Zeroed(b.data, l),
           At(l + n) < MessageSize
    PROVE  Quads(AddFloats(b, n), l + n) /\ Zeroed(AddFloats(b, n).data, l + n)
<1> DEFINE Right(m) == Quads(AddFloats(b, m), l + m) /\ Zeroed(AddFloats(b, m).data, l + m)
           Wrong == {m \in 0 .. n : ~Right(m)}
<1>1. Wrong = {}
  <2> SUFFICES ASSUME Wrong # {} PROVE FALSE
    OBVIOUS
  <2>1. Wrong \in SUBSET Nat
    OBVIOUS
  <2> HIDE DEF Wrong
  <2>2. PICK m \in Wrong : \A k \in Wrong : m <= k
    BY <2>1, LeastNumber
  <2>3. m \in 0 .. n /\ ~Right(m)
    BY DEF Wrong
  <2>4. m # 0
    <3>1. l + 0 = l /\ AddFloats(b, 0) = b
      BY AddFloatsStep
    <3>2. Right(0)
      BY <3>1
    <3> QED BY <3>2, <2>3
  <2>5. PICK k \in 0 .. n : m = k + 1 /\ k \in Nat /\ k < n /\ ~ (m <= k)
    BY <2>3, <2>4
  <2>6. Right(k)
    BY <2>2, <2>5 DEF Wrong
  <2>7. At((l + k) + 1) < MessageSize
    <3>1. /\ At((l + k) + 1) = 13 + 7 * ((l + k) + 1)
          /\ At(l + n) = 13 + 7 * (l + n)
      BY AtValue
    <3> QED BY <3>1, <2>5, HeaderSize
  <2>8. /\ Quads(AddFloat(AddFloats(b, k), 4), (l + k) + 1)
        /\ Zeroed(AddFloat(AddFloats(b, k), 4).data, (l + k) + 1)
    <3>1. l + k \in Nat
      BY <2>5
    <3> QED BY <3>1, <2>6, <2>7, QuadAdded DEF AddFloat
  <2>9. AddFloats(b, m) = AddFloat(AddFloats(b, k), 4) /\ l + m = (l + k) + 1
    BY <2>5, AddFloatsStep
  <2> QED BY <2>3, <2>8, <2>9
<1>2. n \in 0 .. n
  OBVIOUS
<1> QED BY <1>1, <1>2

\* to_wire() of such a message: its header, and the elements as they were.
Headed(buff, n) ==
    /\ buff.data[PROTPOS] = PROTOCOL_VERSION /\ buff.data[OPPOS] = DATA_PACKET
    /\ buff.data[BYTEPOS] = At(n)
    /\ buff.data[FLDPOS] = n /\ buff.data[FLDPOS + 1] = 0

LEMMA HeaderWritten ==
    ASSUME NEW b \in Buffers, b.byte_length < 256, b.fields < 256
    PROVE  LET d == to_wire(b).data IN
           /\ d[PROTPOS] = PROTOCOL_VERSION /\ d[OPPOS] = DATA_PACKET
           /\ d[BYTEPOS] = b.byte_length
           /\ d[FLDPOS] = b.fields /\ d[FLDPOS + 1] = 0
<1> DEFINE d == to_wire(b).data
           cell(k) ==
             CASE k = PROTPOS                 -> PROTOCOL_VERSION
               [] k = OPPOS                   -> DATA_PACKET
               [] k \in FUNCPOS .. BYTEPOS - 1 -> 0
               [] k \in BYTEPOS .. FLDPOS - 1 -> LittleEndian(b.byte_length, k - BYTEPOS)
               [] k \in FLDPOS .. NULLTERMPOS - 1 -> LittleEndian(b.fields, k - FLDPOS)
               [] OTHER                       -> b.data[k]
<1>1. \A k \in 0 .. 11 : k \in Indexes /\ d[k] = cell(k)
  <2>1. d = [k \in Indexes |-> cell(k)]
    BY DEF to_wire, Buffers
  <2>2. \A k \in 0 .. 11 : k \in Indexes
    BY HeaderSize DEF Indexes
  <2> HIDE DEF d, cell
  <2> QED BY <2>1, <2>2
<1>2. /\ LittleEndian(b.byte_length, 0) = b.byte_length
      /\ LittleEndian(b.fields, 0) = b.fields
      /\ LittleEndian(b.fields, 1) = 0
  <2>1. \A n \in 0 .. 255 : n % 256 = n /\ (n \div 256) % 256 = 0
    OBVIOUS
  <2>2. b.byte_length \in 0 .. 255 /\ b.fields \in 0 .. 255
    BY DEF Buffers
  <2> QED BY <2>1, <2>2 DEF LittleEndian
<1>3. cell(0) = PROTOCOL_VERSION /\ cell(1) = DATA_PACKET
  BY HeaderSize
<1>4. cell(6) = LittleEndian(b.byte_length, 0)
  <2>1. /\ 6 # PROTPOS /\ 6 # OPPOS /\ 6 \notin FUNCPOS .. BYTEPOS - 1
        /\ 6 \in BYTEPOS .. FLDPOS - 1 /\ 6 - BYTEPOS = 0
        /\ 6 \notin FLDPOS .. NULLTERMPOS - 1
    BY HeaderSize
  <2> QED BY <2>1
<1>5. cell(10) = LittleEndian(b.fields, 0)
  <2>1. /\ 10 # PROTPOS /\ 10 # OPPOS /\ 10 \notin FUNCPOS .. BYTEPOS - 1
        /\ 10 \notin BYTEPOS .. FLDPOS - 1
        /\ 10 \in FLDPOS .. NULLTERMPOS - 1 /\ 10 - FLDPOS = 0
    BY HeaderSize
  <2> QED BY <2>1
<1>6. cell(11) = LittleEndian(b.fields, 1)
  <2>1. /\ 11 # PROTPOS /\ 11 # OPPOS /\ 11 \notin FUNCPOS .. BYTEPOS - 1
        /\ 11 \notin BYTEPOS .. FLDPOS - 1
        /\ 11 \in FLDPOS .. NULLTERMPOS - 1 /\ 11 - FLDPOS = 1
    BY HeaderSize
  <2> QED BY <2>1
<1> HIDE DEF cell, d
<1>7. /\ d[0] = PROTOCOL_VERSION /\ d[1] = DATA_PACKET /\ d[6] = b.byte_length
      /\ d[10] = b.fields /\ d[11] = 0
  BY <1>1, <1>2, <1>3, <1>4, <1>5, <1>6
<1> QED BY <1>7, HeaderSize DEF d

\* The elements begin one behind the other.
LEMMA QuadPlaces ==
    ASSUME NEW data, NEW n \in Nat, Framed(data, n),
           \A k \in 0 .. At(n) - 1 : k \in DOMAIN data,
           NEW i \in 0 .. n
    PROVE  ElementAt(data, i) = At(i)
<1> DEFINE place == [k \in 0 .. i |-> At(k)]
<1>1. i \in Nat /\ i <= n
  OBVIOUS
<1>2. \A k \in 0 .. i : k \in Nat
  OBVIOUS
<1>3. ASSUME NEW k \in 1 .. i
      PROVE  /\ Cell(data, At(k - 1)) = 4
             /\ Cell(data, At(k - 1) + 2 + 4) = 0
             /\ At(k) = At(k - 1) + 2 + 4 + 1
  <2>1. k - 1 \in 0 .. n - 1 /\ k - 1 \in Nat /\ (k - 1) + 1 = k
    BY <1>1
  <2>2. At(k - 1) = 13 + 7 * (k - 1) /\ At(n) = 13 + 7 * n /\ At(k) = At(k - 1) + 7
    BY <2>1, AtValue
  <2>3. /\ At(k - 1) \in 0 .. At(n) - 1 /\ At(k - 1) + 6 \in 0 .. At(n) - 1
        /\ At(k - 1) + 2 + 4 = At(k - 1) + 6
    BY <2>1, <2>2
  <2>4. data[At(k - 1)] = 4 /\ data[At(k - 1) + 6] = 0
    BY <2>1 DEF Framed
  <2>5. At(k) = At(k - 1) + 2 + 4 + 1
    BY <2>2, <2>3
  <2> QED BY <2>3, <2>4, <2>5 DEF Cell
<1>4. \A k \in 0 .. i : At(k) \in Nat \ {0}
  BY <1>2, AtValue
<1>5. At(0) = DTPOS
  BY AtValue, HeaderSize DEF DATA_HEADER_SIZE
<1>6. Chained(data, place, i)
  <2>1. \A k \in 1 .. i : k \in 0 .. i /\ k - 1 \in 0 .. i
    OBVIOUS
  <2>2. 0 \in 0 .. i
    OBVIOUS
  <2>3. place \in [0 .. i -> Nat \ {0}]
    BY <1>4
  <2>4. ASSUME NEW k \in 1 .. i
        PROVE  /\ Cell(data, place[k - 1]) \in Nat
               /\ Cell(data, place[k - 1] + 2 + Cell(data, place[k - 1])) = 0
               /\ place[k] = place[k - 1] + 2 + Cell(data, place[k - 1]) + 1
    <3>1. place[k] = At(k) /\ place[k - 1] = At(k - 1)
      BY <2>1
    <3> QED BY <3>1, <1>3
  <2> QED BY <1>5, <2>2, <2>3, <2>4 DEF Chained
<1>7. i \in 0 .. i
  OBVIOUS
<1> HIDE DEF Chained
<1> QED BY <1>6, <1>7, ElementPlace

\* A message of at most five such elements, and where its members are.
Located(e) == [m \in DOMAIN e |-> At(e[m]) + 2]

Sound(msg, n) ==
    /\ msg = [buff |-> msg.buff, indexes |-> msg.indexes]
    /\ Quads(msg.buff, n) /\ Headed(msg.buff, n)

LEMMA MessageMade ==
    ASSUME NEW b, NEW n \in 0 .. 5, Quads(b, n),
           NEW e, \A m \in DOMAIN e : e[m] \in 0 .. n - 1
    PROVE  /\ Sound(Message(b, e), n)
           /\ Zeroed(b.data, n) => Zeroed(Message(b, e).buff.data, n)
           /\ Message(b, e).indexes = Located(e)
<1> DEFINE w == to_wire(b)
<1>1. /\ b \in Buffers /\ b.byte_length = At(n) /\ b.fields = n /\ Framed(b.data, n)
      /\ n \in Nat /\ n <= 5
  BY DEF Quads
<1>2. At(n) = 13 + 7 * n /\ At(n) <= 48 /\ At(n) < MessageSize /\ At(n) < 256 /\ n < 256
  <2>1. At(n) = 13 + 7 * n
    BY <1>1, AtValue
  <2> QED BY <2>1, <1>1, Room, HeaderSize
<1>3. /\ w \in Buffers /\ w.byte_length = At(n) /\ w.fields = n
      /\ \A k \in 13 .. MessageSize - 1 : w.data[k] = b.data[k]
  BY <1>1, ToWireType, HeaderSize
<1>4. Headed(w, n)
  BY <1>1, <1>2, HeaderWritten DEF Headed
<1> HIDE DEF w
<1>5. ASSUME NEW i \in 0 .. n - 1
      PROVE  /\ w.data[At(i)] = 4 /\ w.data[At(i) + 6] = 0
             /\ \A k \in 0 .. 3 : w.data[At(i) + 2 + k] = b.data[At(i) + 2 + k]
  <2>1. i \in Nat /\ At(i) = 13 + 7 * i
    BY AtValue
  <2>2. /\ At(i) \in 13 .. MessageSize - 1 /\ At(i) + 6 \in 13 .. MessageSize - 1
        /\ \A k \in 0 .. 3 : At(i) + 2 + k \in 13 .. MessageSize - 1
    BY <2>1, <1>1, <1>2, HeaderSize
  <2> QED BY <2>2, <1>1, <1>3 DEF Framed
<1>6. Framed(w.data, n) /\ (Zeroed(b.data, n) => Zeroed(w.data, n))
  BY <1>5 DEF Framed, Zeroed
<1>7. \A k \in 0 .. At(n) - 1 : k \in DOMAIN w.data
  <2>1. DOMAIN w.data = Indexes
    BY <1>3 DEF Buffers
  <2> QED BY <2>1, <1>2, HeaderSize DEF Indexes
<1>8. ASSUME NEW i \in 0 .. n - 1
      PROVE  Place(w, i) = At(i) + 2
  <2>1. ElementAt(w.data, i) = At(i)
    <3>1. i \in 0 .. n
      OBVIOUS
    <3> QED BY <3>1, <1>1, <1>6, <1>7, QuadPlaces
  <2> QED BY <2>1 DEF Place, get_data
<1>9. Message(b, e) = [buff |-> w, indexes |-> [m \in DOMAIN e |-> Place(w, e[m])]]
  BY DEF Message, w
<1>10. /\ Message(b, e).buff = w
       /\ Message(b, e) = [buff |-> Message(b, e).buff, indexes |-> Message(b, e).indexes]
  <2> HIDE DEF Message, Place
  <2> QED BY <1>9
<1>11. Message(b, e).indexes = Located(e)
  <2>1. \A m \in DOMAIN e : Place(w, e[m]) = At(e[m]) + 2
    BY <1>8
  <2> HIDE DEF Place
  <2> QED BY <2>1, <1>9 DEF Located
<1> QED BY <1>3, <1>4, <1>6, <1>10, <1>11 DEF Sound, Quads

-----------------------------------------------------------------------------
(* The messages of the robot, and where their members are.                 *)

LEMMA FirstPlaces ==
    /\ At(0) = 13 /\ At(1) = 20 /\ At(2) = 27 /\ At(3) = 34 /\ At(4) = 41
    /\ At(5) = 48
<1>1. \A i \in Nat : At(i) = 13 + 7 * i
  BY AtValue
<1>2. At(0) = 13 + 7 * 0 /\ At(1) = 13 + 7 * 1
  BY <1>1
<1>3. At(2) = 13 + 7 * 2 /\ At(3) = 13 + 7 * 3
  BY <1>1
<1>4. At(4) = 13 + 7 * 4 /\ At(5) = 13 + 7 * 5
  BY <1>1
<1> QED BY <1>2, <1>3, <1>4

\* What a message is made of, before its header.
LEMMA PathMade ==
    /\ Sound(create_path_state, 5) /\ Zeroed(create_path_state.buff.data, 5)
    /\ create_path_state.indexes =
          [x |-> 15, y |-> 22, theta |-> 29, v |-> 36, w |-> 43]
<1> DEFINE e == [x |-> 0, y |-> 1, theta |-> 2, v |-> 3, w |-> 4]
           b == AddFloats(create_buffer, 5)
<1>1. Quads(b, 5) /\ Zeroed(b.data, 5)
  <2>1. At(0 + 5) < MessageSize /\ 0 + 5 = 5
    BY AtValue, Room
  <2> QED BY <2>1, NothingAdded, QuadsAdded
<1>2. \A m \in DOMAIN e : e[m] \in 0 .. 5 - 1
  OBVIOUS
<1>3. create_path_state = Message(b, e)
  BY DEF create_path_state
<1>4. Located(e) = [x |-> 15, y |-> 22, theta |-> 29, v |-> 36, w |-> 43]
  <2>1. /\ At(0) + 2 = 15 /\ At(1) + 2 = 22 /\ At(2) + 2 = 29 /\ At(3) + 2 = 36
        /\ At(4) + 2 = 43
    BY FirstPlaces
  <2> QED BY <2>1 DEF Located
<1> HIDE DEF e, b
<1> QED BY <1>1, <1>2, <1>3, <1>4, MessageMade

LEMMA CmdVelMade ==
    /\ Sound(create_cmd_vel, 2)
    /\ create_cmd_vel.indexes = [lin |-> 15, ang |-> 22]
<1> DEFINE e == [lin |-> 0, ang |-> 1]
           b == AddFloats(create_buffer, 2)
<1>1. Quads(b, 2)
  <2>1. At(0 + 2) < MessageSize /\ 0 + 2 = 2
    BY AtValue, Room, HeaderSize
  <2> QED BY <2>1, NothingAdded, QuadsAdded
<1>2. \A m \in DOMAIN e : e[m] \in 0 .. 2 - 1
  OBVIOUS
<1>3. create_cmd_vel = Message(b, e)
  BY DEF create_cmd_vel
<1>4. Located(e) = [lin |-> 15, ang |-> 22]
  <2>1. At(0) + 2 = 15 /\ At(1) + 2 = 22
    BY FirstPlaces
  <2> QED BY <2>1 DEF Located
<1> HIDE DEF e, b
<1> QED BY <1>1, <1>2, <1>3, <1>4, MessageMade

\* Messages that begin with their type.
LEMMA TypeAdded ==
    ASSUME NEW n \in 0 .. 4
    PROVE  /\ Quads(AddType(create_buffer), 1)
           /\ Quads(AddFloats(AddType(create_buffer), n), n + 1)
<1>1. Quads(AddType(create_buffer), 1) /\ Zeroed(AddType(create_buffer).data, 1)
  <2>1. At(0 + 1) < MessageSize /\ 0 + 1 = 1
    BY AtValue, Room, HeaderSize
  <2> QED BY <2>1, NothingAdded, QuadAdded DEF AddType
<1>2. n \in Nat /\ 1 + n = n + 1 /\ At(1 + n) < MessageSize
  <2>1. At(1 + n) = 13 + 7 * (1 + n)
    BY AtValue
  <2> QED BY <2>1, Room, HeaderSize
<1> QED BY <1>1, <1>2, QuadsAdded

LEMMA SensorTypeMade == create_sensor_msg.indexes = [type |-> 15]
<1> DEFINE e == [type |-> 0]
<1>1. Quads(AddType(create_buffer), 1)
  BY TypeAdded
<1>2. \A m \in DOMAIN e : e[m] \in 0 .. 1 - 1
  OBVIOUS
<1>3. Located(e) = [type |-> 15]
  BY AtValue DEF Located
<1> HIDE DEF e
<1> QED BY <1>1, <1>2, <1>3, MessageMade DEF create_sensor_msg, e

LEMMA TeensyMade ==
    /\ Sound(create_teensy_sensor_array, 4)
    /\ create_teensy_sensor_array.indexes =
          [type |-> 15, v |-> 22, w |-> 29, dt |-> 36]
<1> DEFINE e == With([v |-> 1, w |-> 2, dt |-> 3], "type", 0)
           b == AddFloats(AddType(create_buffer), 3)
<1>1. Quads(b, 4)
  BY TypeAdded
<1>2. e = [type |-> 0, v |-> 1, w |-> 2, dt |-> 3]
  BY DEF With
<1>3. \A m \in DOMAIN e : e[m] \in 0 .. 4 - 1
  BY <1>2
<1>4. create_teensy_sensor_array = Message(b, e)
  BY DEF create_teensy_sensor_array, SensorMessage
<1>5. Located(e) = [type |-> 15, v |-> 22, w |-> 29, dt |-> 36]
  <2>1. At(0) + 2 = 15 /\ At(1) + 2 = 22 /\ At(2) + 2 = 29 /\ At(3) + 2 = 36
    BY FirstPlaces
  <2> HIDE DEF e
  <2> QED BY <2>1, <1>2 DEF Located
<1> HIDE DEF e, b
<1> QED BY <1>1, <1>3, <1>4, <1>5, MessageMade

LEMMA CameraMade ==
    /\ Sound(create_camera_msg, 5)
    /\ create_camera_msg.indexes =
          [type |-> 15, x |-> 22, y |-> 29, theta |-> 36, dt |-> 0]
<1> DEFINE e == With([x |-> 1, y |-> 2, theta |-> 3], "type", 0)
           b == AddFloats(AddType(create_buffer), 4)
           msg == Message(b, e)
<1>1. Quads(b, 5)
  BY TypeAdded
<1>2. e = [type |-> 0, x |-> 1, y |-> 2, theta |-> 3]
  BY DEF With
<1>3. \A m \in DOMAIN e : e[m] \in 0 .. 5 - 1
  BY <1>2
<1>4. Located(e) = [type |-> 15, x |-> 22, y |-> 29, theta |-> 36]
  <2>1. At(0) + 2 = 15 /\ At(1) + 2 = 22 /\ At(2) + 2 = 29 /\ At(3) + 2 = 36
    BY FirstPlaces
  <2> HIDE DEF e
  <2> QED BY <2>1, <1>2 DEF Located
<1>5. create_camera_msg = [msg EXCEPT !.indexes = With(@, "dt", PROTPOS)]
  BY DEF create_camera_msg, SensorMessage
<1>6. \E buff, indexes : msg = [buff |-> buff, indexes |-> indexes]
  BY DEF Message
<1>7. Sound(msg, 5) /\ msg.indexes = Located(e)
  <2> HIDE DEF e, b
  <2> QED BY <1>1, <1>3, MessageMade
<1> HIDE DEF e, b, msg
<1>8. /\ create_camera_msg.buff = msg.buff
      /\ create_camera_msg.indexes = With(msg.indexes, "dt", PROTPOS)
      /\ create_camera_msg = [buff |-> create_camera_msg.buff,
                               indexes |-> create_camera_msg.indexes]
  BY <1>5, <1>6
<1>9. With([type |-> 15, x |-> 22, y |-> 29, theta |-> 36], "dt", 0) =
          [type |-> 15, x |-> 22, y |-> 29, theta |-> 36, dt |-> 0]
  BY DEF With
<1> QED BY <1>4, <1>7, <1>8, <1>9, HeaderSize DEF Sound

-----------------------------------------------------------------------------
(* Members that have places of their own are read as they were written.    *)

Apart(indexes, members) ==
    \A m \in members :
        /\ indexes[m] \in Nat
        /\ \A n \in members \ {m} :
              indexes[m] + 3 < indexes[n] \/ indexes[n] + 3 < indexes[m]

LEMMA MembersPut ==
    ASSUME NEW data, NEW indexes, NEW values, Apart(indexes, DOMAIN values),
           NEW k \in DOMAIN data, k \in Nat
    PROVE  LET put == members_to_wire(data, indexes, values) IN
           /\ \A m \in DOMAIN values :
                 k \in indexes[m] .. indexes[m] + 3 => put[k] = values[m]
           /\ (\A m \in DOMAIN values : k \notin indexes[m] .. indexes[m] + 3)
                 => put[k] = data[k]
<1> DEFINE here == {m \in DOMAIN values : k \in indexes[m] .. indexes[m] + 3}
<1>1. members_to_wire(data, indexes, values)[k] =
          IF here = {} THEN data[k] ELSE values[CHOOSE m \in here : TRUE]
  BY DEF members_to_wire
<1>2. ASSUME NEW m \in here, NEW n \in here PROVE m = n
  <2> SUFFICES ASSUME m # n PROVE FALSE
    OBVIOUS
  <2>1. /\ indexes[m] \in Nat /\ indexes[n] \in Nat
        /\ indexes[m] + 3 < indexes[n] \/ indexes[n] + 3 < indexes[m]
    BY DEF Apart
  <2> QED BY <2>1
<1>3. ASSUME NEW m \in here
      PROVE  members_to_wire(data, indexes, values)[k] = values[m]
  <2> HIDE DEF here
  <2>1. (CHOOSE n \in here : TRUE) \in here
    OBVIOUS
  <2> QED BY <2>1, <1>1, <1>2
<1> QED BY <1>1, <1>3

LEMMA FloatRead ==
    ASSUME NEW data, NEW at \in Nat, NEW v,
           \A k \in 0 .. 3 : at + k \in DOMAIN data /\ data[at + k] = v
    PROVE  Float(data, at) = v
<1>1. \A k \in 0 .. 3 : Cell(data, at + k) = v
  BY DEF Cell
<1>2. at + 0 = at /\ 0 \in 0 .. 3 /\ \A k \in 1 .. 3 : k \in 0 .. 3
  OBVIOUS
<1> QED BY <1>1, <1>2 DEF Float

\* The bytes that are sent are the ones of the buffer.
LEMMA WireCells ==
    ASSUME NEW msg, msg.buff \in Buffers, msg.buff.byte_length <= MessageSize
    PROVE  /\ DOMAIN Wire(msg) = 0 .. msg.buff.byte_length - 1
           /\ DOMAIN Wire(msg) \subseteq Indexes
           /\ \A k \in DOMAIN Wire(msg) :
                 Wire(msg)[k] = msg.buff.data[k] /\ Cell(Wire(msg), k) = msg.buff.data[k]
<1>1. msg.buff.byte_length \in Nat
  BY DEF Buffers
<1> QED BY <1>1, HeaderSize DEF Wire, Cell, Indexes

LEMMA MembersStored ==
    ASSUME NEW b \in Buffers, b.byte_length <= MessageSize,
           NEW indexes, NEW values, Apart(indexes, DOMAIN values),
           \A m \in DOMAIN values :
               values[m] \in Cells /\ indexes[m] + 3 < b.byte_length,
           NEW old, old = [buff |-> b, indexes |-> indexes]
    PROVE  LET msg == message_to_wire(old, values) IN
           /\ msg = [buff |-> msg.buff, indexes |-> indexes]
           /\ msg.buff \in Buffers /\ msg.buff.byte_length = b.byte_length
           /\ msg.buff.fields = b.fields
           /\ \A m \in DOMAIN values : Float(Wire(msg), indexes[m]) = values[m]
           /\ \A k \in Indexes :
                 (\A m \in DOMAIN values : k \notin indexes[m] .. indexes[m] + 3)
                     => msg.buff.data[k] = b.data[k]
<1> DEFINE put == members_to_wire(b.data, indexes, values)
           msg == message_to_wire(old, values)
<1>1. /\ b.data \in [Indexes -> Cells] /\ b.byte_length \in Nat /\ b.fields \in Nat
      /\ b.overran \in BOOLEAN
      /\ b = [data |-> b.data, byte_length |-> b.byte_length, fields |-> b.fields,
              overran |-> b.overran]
  BY DEF Buffers
<1>2. msg = [buff |-> [data |-> put, byte_length |-> b.byte_length,
                       fields |-> b.fields, overran |-> b.overran],
             indexes |-> indexes]
  BY <1>1 DEF message_to_wire
<1>3. DOMAIN put = Indexes /\ put = [k \in Indexes |-> put[k]]
  BY <1>1 DEF members_to_wire
<1>4. \A k \in Indexes : k \in Nat
  BY HeaderSize DEF Indexes
<1> HIDE DEF put, msg
<1>5. ASSUME NEW k \in Indexes
      PROVE  /\ \A m \in DOMAIN values :
                   k \in indexes[m] .. indexes[m] + 3 => put[k] = values[m]
             /\ (\A m \in DOMAIN values : k \notin indexes[m] .. indexes[m] + 3)
                   => put[k] = b.data[k]
             /\ put[k] \in Cells
  <2>1. k \in DOMAIN b.data /\ k \in Nat
    BY <1>1, <1>4
  <2> QED BY <1>1, <2>1, MembersPut DEF put
<1>6. put \in [Indexes -> Cells]
  BY <1>3, <1>5
<1>7. /\ msg.buff \in Buffers /\ msg.buff.byte_length = b.byte_length
      /\ msg.buff.fields = b.fields
      /\ msg.buff.data = put /\ msg.indexes = indexes
      /\ msg = [buff |-> msg.buff, indexes |-> indexes]
  BY <1>1, <1>2, <1>6 DEF Buffers
<1>8. ASSUME NEW m \in DOMAIN values
      PROVE  Float(Wire(msg), indexes[m]) = values[m]
  <2>1. indexes[m] \in Nat /\ indexes[m] + 3 < b.byte_length
    BY DEF Apart
  <2>2. \A k \in 0 .. 3 : /\ indexes[m] + k \in 0 .. b.byte_length - 1
                          /\ indexes[m] + k \in indexes[m] .. indexes[m] + 3
                          /\ indexes[m] + k \in Indexes
    <3> PICK a, l : a = indexes[m] /\ l = b.byte_length
      OBVIOUS
    <3>1. a \in Nat /\ l \in Nat /\ a + 3 < l /\ l <= MessageSize
      BY <2>1, <1>1
    <3>2. \A k \in 0 .. 3 : a + k \in 0 .. l - 1 /\ a + k \in a .. a + 3
      BY <3>1
    <3>3. \A k \in 0 .. 3 : a + k \in Indexes
      BY <3>1, HeaderSize DEF Indexes
    <3> QED BY <3>2, <3>3
  <2>3. \A k \in 0 .. 3 : /\ indexes[m] + k \in DOMAIN Wire(msg)
                          /\ Wire(msg)[indexes[m] + k] = values[m]
    <3>1. /\ DOMAIN Wire(msg) = 0 .. b.byte_length - 1
          /\ \A k \in DOMAIN Wire(msg) : Wire(msg)[k] = put[k]
      BY <1>7, WireCells
    <3>2. \A k \in 0 .. 3 : put[indexes[m] + k] = values[m]
      BY <2>2, <1>5
    <3> QED BY <2>2, <3>1, <3>2
  <2> QED BY <2>1, <2>3, FloatRead
<1> QED BY <1>5, <1>7, <1>8 DEF msg

\* What a sensor message carries: its type, and the members behind it.
LEMMA SensorStored ==
    ASSUME NEW n \in 1 .. 5, NEW msg, Sound(msg, n), msg.indexes.type = 15,
           NEW type \in Cells, NEW values, Apart(msg.indexes, DOMAIN values),
           \A m \in DOMAIN values :
               /\ values[m] \in Cells
               /\ msg.indexes[m] + 3 < At(n)
               /\ msg.indexes[m] > 18 \/ msg.indexes[m] + 3 < 15
    PROVE  LET w == Wire(sensor_to_wire(msg, type, values)) IN
           /\ DOMAIN w \subseteq Indexes
           /\ Int32(w, 15) = type
           /\ \A m \in DOMAIN values : Float(w, msg.indexes[m]) = values[m]
<1> DEFINE b == msg.buff
           d == Store(b.data, 15, IntBytes(type))
           c == [b EXCEPT !.data = d]
           old == [buff |-> c, indexes |-> msg.indexes]
           s == message_to_wire(old, values)
<1>1. /\ b \in Buffers /\ b.byte_length = At(n) /\ msg = [buff |-> b, indexes |-> msg.indexes]
      /\ b.data \in [Indexes -> Cells] /\ b.byte_length \in Nat /\ b.fields \in Nat
      /\ b.overran \in BOOLEAN
      /\ b = [data |-> b.data, byte_length |-> b.byte_length, fields |-> b.fields,
              overran |-> b.overran]
  BY DEF Sound, Quads, Buffers
<1>2. n \in Nat /\ At(n) = 13 + 7 * n /\ At(n) >= 20 /\ At(n) <= 48 /\ At(n) <= MessageSize
  <2>1. At(n) = 13 + 7 * n /\ n \in Nat
    BY AtValue
  <2> QED BY <2>1, Room, HeaderSize
<1>3. sensor_to_wire(msg, type, values) = s
  <2> PICK put : put = members_to_wire(d, msg.indexes, values)
    OBVIOUS
  <2> DEFINE r == [buff |-> [data |-> put, byte_length |-> b.byte_length,
                             fields |-> b.fields, overran |-> b.overran],
                   indexes |-> msg.indexes]
  <2>1. sensor_to_wire(msg, type, values) = [msg EXCEPT !.buff.data = put]
    BY DEF sensor_to_wire
  <2>2. [msg EXCEPT !.buff.data = put] = r
    <3> HIDE DEF b
    <3> PICK i : i = msg.indexes
      OBVIOUS
    <3>1. msg = [buff |-> b, indexes |-> i]
      BY <1>1
    <3>2. [msg EXCEPT !.buff.data = put] =
              [buff |-> [b EXCEPT !.data = put], indexes |-> i]
      BY <3>1
    <3>3. [b EXCEPT !.data = put] =
              [data |-> put, byte_length |-> b.byte_length,
               fields |-> b.fields, overran |-> b.overran]
      BY <1>1
    <3> QED BY <3>2, <3>3
  <2>3. c = [data |-> d, byte_length |-> b.byte_length, fields |-> b.fields,
             overran |-> b.overran]
    BY <1>1
  <2>4. s = r
    <3> HIDE DEF b, c, d
    <3>1. old.buff.data = d
      BY <2>3
    <3>2. s = [old EXCEPT !.buff.data = put]
      BY <3>1 DEF message_to_wire
    <3> QED BY <2>3, <3>2
  <2> QED BY <2>1, <2>2, <2>4
<1>4. /\ d \in [Indexes -> Cells]
      /\ d[15] = type /\ d[16] = 0 /\ d[17] = 0 /\ d[18] = 0
  <2>1. d = [k \in Indexes |-> IF k \in 15 .. 18 THEN IntBytes(type)[k - 15] ELSE b.data[k]]
    BY <1>1 DEF Store
  <2>2. /\ \A k \in 15 .. 18 : k \in Indexes /\ k - 15 \in 0 .. 3
        /\ \A k \in 0 .. 3 : IntBytes(type)[k] = IF k = 0 THEN type ELSE 0
    BY HeaderSize, Room DEF Indexes, IntBytes
  <2>3. \A k \in 15 .. 18 : IntBytes(type)[k - 15] \in Cells
    BY <2>2, CellsAreNumbers
  <2>4. /\ 15 \in 15 .. 18 /\ 15 - 15 = 0 /\ 16 \in 15 .. 18 /\ 16 - 15 = 1
        /\ 17 \in 15 .. 18 /\ 17 - 15 = 2 /\ 18 \in 15 .. 18 /\ 18 - 15 = 3
    OBVIOUS
  <2> HIDE DEF d, b
  <2>5. d \in [Indexes -> Cells]
    BY <2>1, <2>3, <1>1
  <2>6. \A k \in 15 .. 18 : d[k] = IF k - 15 = 0 THEN type ELSE 0
    BY <2>1, <2>2
  <2> QED BY <2>4, <2>5, <2>6
<1>5. c \in Buffers /\ c.byte_length = At(n) /\ c.data = d
  <2>1. c = [data |-> d, byte_length |-> b.byte_length, fields |-> b.fields,
             overran |-> b.overran]
    BY <1>1
  <2> HIDE DEF c, d, b
  <2> QED BY <2>1, <1>1, <1>4 DEF Buffers
<1> HIDE DEF s, c, d, b
<1> PICK i, o : i = msg.indexes /\ o = [buff |-> c, indexes |-> i]
  OBVIOUS
<1>6. /\ s.buff \in Buffers /\ s.buff.byte_length = At(n)
      /\ \A m \in DOMAIN values : Float(Wire(s), msg.indexes[m]) = values[m]
      /\ \A k \in Indexes :
            (\A m \in DOMAIN values : k \notin msg.indexes[m] .. msg.indexes[m] + 3)
                => s.buff.data[k] = d[k]
  <2>1. Apart(i, DOMAIN values) /\ c.byte_length <= MessageSize
    BY <1>2, <1>5
  <2>2. \A m \in DOMAIN values : values[m] \in Cells /\ i[m] + 3 < c.byte_length
    BY <1>5
  <2> PICK t : t = message_to_wire(o, values)
    OBVIOUS
  <2>3. /\ t.buff \in Buffers /\ t.buff.byte_length = c.byte_length
        /\ \A m \in DOMAIN values : Float(Wire(t), i[m]) = values[m]
        /\ \A k \in Indexes :
              (\A m \in DOMAIN values : k \notin i[m] .. i[m] + 3)
                  => t.buff.data[k] = c.data[k]
    BY <1>5, <2>1, <2>2, MembersStored
  <2>4. s = t
    BY DEF s
  <2> QED BY <1>5, <2>3, <2>4
<1>7. \A k \in 15 .. 18 : k \in 0 .. At(n) - 1 /\ k \in Indexes /\ s.buff.data[k] = d[k]
  <2>1. \A k \in 15 .. 18 : k \in 0 .. At(n) - 1 /\ k \in Indexes
    BY <1>2, HeaderSize DEF Indexes
  <2>2. \A k \in 15 .. 18, m \in DOMAIN values :
           k \notin msg.indexes[m] .. msg.indexes[m] + 3
    BY DEF Apart
  <2> QED BY <1>6, <2>1, <2>2
<1>8. /\ DOMAIN Wire(s) = 0 .. At(n) - 1 /\ DOMAIN Wire(s) \subseteq Indexes
      /\ \A k \in DOMAIN Wire(s) : Cell(Wire(s), k) = s.buff.data[k]
  BY <1>2, <1>6, WireCells
<1>9. /\ Cell(Wire(s), 15) = type /\ Cell(Wire(s), 16) = 0
      /\ Cell(Wire(s), 17) = 0 /\ Cell(Wire(s), 18) = 0
  <2>1. 15 \in 15 .. 18 /\ 16 \in 15 .. 18 /\ 17 \in 15 .. 18 /\ 18 \in 15 .. 18
    OBVIOUS
  <2> QED BY <2>1, <1>4, <1>7, <1>8
<1>10. Int32(Wire(s), 15) = type
  <2>1. \A k \in 1 .. 3 : 15 + k \in {16, 17, 18}
    OBVIOUS
  <2> QED BY <2>1, <1>9 DEF Int32
<1> QED BY <1>3, <1>6, <1>8, <1>10

\* The three kinds of messages that the filter is given.
FromCamera(w, p) ==
    /\ Int32(w, 15) = CAMERA_MESSAGE
    /\ Float(w, 22) = p.x /\ Float(w, 29) = p.y /\ Float(w, 36) = p.theta

FromTeensy(w, m) ==
    /\ Int32(w, 15) = TEENSY_MSG
    /\ Float(w, 22) = m.v /\ Float(w, 29) = m.w

LEMMA CameraWire ==
    ASSUME NEW p \in Positions
    PROVE  DOMAIN camera_wire(p) \subseteq Indexes /\ FromCamera(camera_wire(p), p)
<1> DEFINE values == [x |-> p.x, y |-> p.y, theta |-> p.theta, dt |-> 0]
           i == create_camera_msg.indexes
<1>1. Sound(create_camera_msg, 5)
      /\ i = [type |-> 15, x |-> 22, y |-> 29, theta |-> 36, dt |-> 0]
  BY CameraMade
<1>2. i.type = 15 /\ i.x = 22 /\ i.y = 29 /\ i.theta = 36 /\ i.dt = 0
  BY <1>1
<1>3. /\ DOMAIN values = {"x", "y", "theta", "dt"}
      /\ values.x = p.x /\ values.y = p.y /\ values.theta = p.theta /\ values.dt = 0
      /\ p.x \in Cells /\ p.y \in Cells /\ p.theta \in Cells /\ 0 \in Cells
      /\ CAMERA_MESSAGE \in Cells
  BY DEF Positions, Cells, CAMERA_MESSAGE
<1>4. At(5) = 48
  BY FirstPlaces
<1> HIDE DEF i, values
<1>5. Apart(i, DOMAIN values)
  BY <1>2, <1>3 DEF Apart
<1>6. \A m \in DOMAIN values : /\ values[m] \in Cells
                               /\ i[m] + 3 < At(5)
                               /\ i[m] > 18 \/ i[m] + 3 < 15
  BY <1>2, <1>3, <1>4
<1>7. camera_wire(p) = Wire(sensor_to_wire(create_camera_msg, CAMERA_MESSAGE, values))
  BY DEF camera_wire, values
<1>8. /\ DOMAIN camera_wire(p) \subseteq Indexes
      /\ Int32(camera_wire(p), 15) = CAMERA_MESSAGE
      /\ \A m \in DOMAIN values : Float(camera_wire(p), i[m]) = values[m]
  BY <1>1, <1>2, <1>3, <1>5, <1>6, <1>7, SensorStored DEF i
<1> QED BY <1>2, <1>3, <1>8 DEF FromCamera

\* What the kernel publishes.
Velocities == {m \in [v : Cells, w : Cells] :
                  \E a, b \in Motions0 : m.v = a.v /\ m.w = b.w}

LEMMA VelocityTypes ==
    ASSUME NEW m \in Velocities
    PROVE  m.v \in Cells /\ m.w \in Cells
BY DEF Velocities

LEMMA TeensyWire ==
    ASSUME NEW m \in Velocities
    PROVE  /\ DOMAIN teensy_wire(m) \subseteq Indexes /\ FromTeensy(teensy_wire(m), m)
           /\ m.v \in Cells /\ m.w \in Cells
<1> DEFINE values == [v |-> m.v, w |-> m.w, dt |-> 1]
           i == create_teensy_sensor_array.indexes
<1>1. Sound(create_teensy_sensor_array, 4)
      /\ i = [type |-> 15, v |-> 22, w |-> 29, dt |-> 36]
  BY TeensyMade
<1>2. i.type = 15 /\ i.v = 22 /\ i.w = 29 /\ i.dt = 36
  BY <1>1
<1>3. /\ DOMAIN values = {"v", "w", "dt"}
      /\ values.v = m.v /\ values.w = m.w /\ values.dt = 1
      /\ m.v \in Cells /\ m.w \in Cells /\ 1 \in Cells
      /\ TEENSY_MSG \in Cells
  BY VelocityTypes DEF Cells, TEENSY_MSG
<1>4. At(4) = 41
  BY FirstPlaces
<1> HIDE DEF i, values
<1>5. Apart(i, DOMAIN values)
  BY <1>2, <1>3 DEF Apart
<1>6. \A n \in DOMAIN values : /\ values[n] \in Cells
                               /\ i[n] + 3 < At(4)
                               /\ i[n] > 18 \/ i[n] + 3 < 15
  BY <1>2, <1>3, <1>4
<1>7. teensy_wire(m) = Wire(sensor_to_wire(create_teensy_sensor_array, TEENSY_MSG, values))
  BY DEF teensy_wire, values
<1>8. /\ DOMAIN teensy_wire(m) \subseteq Indexes
      /\ Int32(teensy_wire(m), 15) = TEENSY_MSG
      /\ \A n \in DOMAIN values : Float(teensy_wire(m), i[n]) = values[n]
  BY <1>1, <1>2, <1>3, <1>5, <1>6, <1>7, SensorStored DEF i
<1> QED BY <1>2, <1>3, <1>8 DEF FromTeensy

\* A message that has no type at its beginning reads as one of none.
OtherWire == Wire(message_to_wire(create_cmd_vel, [lin |-> 3, ang |-> 3]))

LEMMA OtherWireRead ==
    /\ DOMAIN OtherWire \subseteq Indexes
    /\ Int32(OtherWire, 15) \notin {TEENSY_MSG, CAMERA_MESSAGE}
<1> DEFINE values == [lin |-> 3, ang |-> 3]
           i == create_cmd_vel.indexes
           b == create_cmd_vel.buff
           s == message_to_wire(create_cmd_vel, values)
<1>1. Sound(create_cmd_vel, 2) /\ i = [lin |-> 15, ang |-> 22]
  BY CmdVelMade
<1>2. i.lin = 15 /\ i.ang = 22 /\ At(2) = 27 /\ At(2) <= MessageSize
  BY <1>1, FirstPlaces, Room, HeaderSize
<1>3. DOMAIN values = {"lin", "ang"} /\ values.lin = 3 /\ values.ang = 3 /\ 3 \in Cells
  BY DEF Cells
<1>4. b \in Buffers /\ b.byte_length = At(2) /\ create_cmd_vel = [buff |-> b, indexes |-> i]
  BY <1>1 DEF Sound, Quads
<1> HIDE DEF i, b
<1>5. OtherWire = Wire(s)
  BY DEF OtherWire
<1> HIDE DEF values
<1>6. Apart(i, DOMAIN values)
  BY <1>2, <1>3 DEF Apart
<1>7. \A m \in DOMAIN values : values[m] \in Cells /\ i[m] + 3 < b.byte_length
  BY <1>2, <1>3, <1>4
<1>8. /\ s.buff \in Buffers /\ s.buff.byte_length = At(2)
      /\ Float(Wire(s), i.lin) = values.lin
  <2>1. /\ s.buff \in Buffers /\ s.buff.byte_length = b.byte_length
        /\ \A m \in DOMAIN values : Float(Wire(s), i[m]) = values[m]
    BY <1>2, <1>4, <1>6, <1>7, MembersStored
  <2> HIDE DEF s
  <2> QED BY <1>3, <1>4, <2>1
<1> HIDE DEF s
<1>9. DOMAIN OtherWire \subseteq Indexes /\ Float(OtherWire, 15) = 3
  BY <1>2, <1>3, <1>5, <1>8, WireCells
<1>10. \A k \in 1 .. 3 : Cell(OtherWire, 15 + k) = Cell(OtherWire, 15)
       /\ Cell(OtherWire, 15) = 3
  BY <1>9 DEF Float, Torn
<1>11. Cell(OtherWire, 15 + 1) # 0
  <2>1. 1 \in 1 .. 3
    OBVIOUS
  <2> QED BY <2>1, <1>10
<1>12. Int32(OtherWire, 15) = Torn
  <2>1. 1 \in 1 .. 3
    OBVIOUS
  <2> QED BY <2>1, <1>11 DEF Int32
<1> QED BY <1>9, <1>12 DEF Torn, TEENSY_MSG, CAMERA_MESSAGE

-----------------------------------------------------------------------------
(* What convert() reads, and the message it keeps.                         *)

Members5 == {"x", "y", "theta", "v", "w"}

Estimates == [Members5 -> Cells]

PathPlaces == [x |-> 15, y |-> 22, theta |-> 29, v |-> 36, w |-> 43]

LEMMA TypeRead ==
    ASSUME NEW w
    PROVE  sensor_msg_from_wire(create_sensor_msg, w) = Int32(w, 15)
<1>1. create_sensor_msg.indexes.type = 15
  BY SensorTypeMade
<1> QED BY <1>1 DEF sensor_msg_from_wire

LEMMA CameraRead ==
    ASSUME NEW w, NEW p \in Positions, FromCamera(w, p)
    PROVE  Updated(w) =
               [state EXCEPT !.x = p.x, !.y = p.y, !.theta = p.theta]
<1> PICK i : i = create_camera_msg.indexes
  OBVIOUS
<1>1. i = [type |-> 15, x |-> 22, y |-> 29, theta |-> 36, dt |-> 0]
  BY CameraMade
<1>2. /\ DOMAIN i = {"type", "x", "y", "theta", "dt"}
      /\ i.x = 22 /\ i.y = 29 /\ i.theta = 36
  BY <1>1
<1> PICK cam : cam = message_from_wire(create_camera_msg, w)
  OBVIOUS
<1>3. cam.x = p.x /\ cam.y = p.y /\ cam.theta = p.theta
  BY <1>2 DEF message_from_wire, FromCamera
<1>4. /\ sensor_msg_from_wire(create_sensor_msg, w) = CAMERA_MESSAGE
      /\ CAMERA_MESSAGE # TEENSY_MSG
  BY TypeRead DEF FromCamera, CAMERA_MESSAGE, TEENSY_MSG
<1> HIDE DEF FromCamera
<1> QED BY <1>3, <1>4 DEF Updated

LEMMA TeensyRead ==
    ASSUME NEW w, NEW m, FromTeensy(w, m)
    PROVE  Updated(w) = [state EXCEPT !.v = m.v, !.w = m.w]
<1> PICK i : i = create_teensy_sensor_array.indexes
  OBVIOUS
<1>1. i = [type |-> 15, v |-> 22, w |-> 29, dt |-> 36]
  BY TeensyMade
<1>2. DOMAIN i = {"type", "v", "w", "dt"} /\ i.v = 22 /\ i.w = 29
  BY <1>1
<1> PICK meas : meas = message_from_wire(create_teensy_sensor_array, w)
  OBVIOUS
<1>3. meas.v = m.v /\ meas.w = m.w
  BY <1>2 DEF message_from_wire, FromTeensy
<1>4. /\ sensor_msg_from_wire(create_sensor_msg, w) = TEENSY_MSG
      /\ CAMERA_MESSAGE # TEENSY_MSG
  BY TypeRead DEF FromTeensy, CAMERA_MESSAGE, TEENSY_MSG
<1> HIDE DEF FromTeensy
<1> QED BY <1>3, <1>4 DEF Updated

LEMMA OtherRead ==
    ASSUME NEW w, Int32(w, 15) \notin {TEENSY_MSG, CAMERA_MESSAGE}
    PROVE  Updated(w) = state
BY TypeRead DEF Updated

\* The message has the estimate in its places.
Holds(msg, est) ==
    /\ Sound(msg, 5) /\ msg.indexes = PathPlaces
    /\ \A m \in Members5 : Float(Wire(msg), PathPlaces[m]) = est[m]

LEMMA PathPlacesApart ==
    /\ DOMAIN PathPlaces = Members5
    /\ PathPlaces.x = 15 /\ PathPlaces.y = 22 /\ PathPlaces.theta = 29
    /\ PathPlaces.v = 36 /\ PathPlaces.w = 43
    /\ Apart(PathPlaces, Members5)
    /\ At(5) = 48 /\ At(5) <= MessageSize
    /\ \A m \in Members5 : /\ PathPlaces[m] + 3 < At(5) /\ PathPlaces[m] >= 15
                           /\ \E i \in 0 .. 4 : PathPlaces[m] = At(i) + 2
<1>1. /\ DOMAIN PathPlaces = Members5
      /\ PathPlaces.x = 15 /\ PathPlaces.y = 22 /\ PathPlaces.theta = 29
      /\ PathPlaces.v = 36 /\ PathPlaces.w = 43
  BY DEF PathPlaces, Members5
<1>2. /\ At(0) + 2 = 15 /\ At(1) + 2 = 22 /\ At(2) + 2 = 29 /\ At(3) + 2 = 36
      /\ At(4) + 2 = 43 /\ At(5) = 48 /\ At(5) <= MessageSize
  BY FirstPlaces, Room, HeaderSize
<1>3. Apart(PathPlaces, Members5)
  BY <1>1 DEF Apart, Members5
<1>4. \A m \in Members5 : PathPlaces[m] + 3 < At(5) /\ PathPlaces[m] >= 15
  BY <1>1, <1>2 DEF Members5
<1>5. \A m \in Members5 : \E i \in 0 .. 4 : PathPlaces[m] = At(i) + 2
  <2>1. 0 \in 0 .. 4 /\ 1 \in 0 .. 4 /\ 2 \in 0 .. 4 /\ 3 \in 0 .. 4 /\ 4 \in 0 .. 4
    OBVIOUS
  <2> QED BY <2>1, <1>1, <1>2 DEF Members5
<1> QED BY <1>1, <1>2, <1>3, <1>4, <1>5

LEMMA HoldsZero ==
    Holds(create_path_state, [x |-> 0, y |-> 0, theta |-> 0, v |-> 0, w |-> 0])
<1> DEFINE msg == create_path_state
           zero == [x |-> 0, y |-> 0, theta |-> 0, v |-> 0, w |-> 0]
<1>1. Sound(msg, 5) /\ Zeroed(msg.buff.data, 5) /\ msg.indexes = PathPlaces
  BY PathMade DEF PathPlaces
<1>2. msg.buff \in Buffers /\ msg.buff.byte_length = At(5)
  BY <1>1 DEF Sound, Quads
<1>3. \A m \in Members5 : zero[m] = 0
  BY DEF Members5
<1> HIDE DEF msg, zero
<1>4. ASSUME NEW m \in Members5
      PROVE  Float(Wire(msg), PathPlaces[m]) = 0
  <2>1. PICK i \in 0 .. 4 : PathPlaces[m] = At(i) + 2
    BY PathPlacesApart
  <2>2. i \in 0 .. 5 - 1 /\ PathPlaces[m] \in Nat /\ PathPlaces[m] + 3 < 48
        /\ At(5) = 48 /\ At(5) <= MessageSize
    BY PathPlacesApart DEF Apart
  <2>3. \A k \in 0 .. 3 : msg.buff.data[PathPlaces[m] + k] = 0
    BY <1>1, <2>1, <2>2 DEF Zeroed
  <2>4. \A k \in 0 .. 3 : PathPlaces[m] + k \in 0 .. 48 - 1
    BY <2>2
  <2>5. DOMAIN Wire(msg) = 0 .. 48 - 1
        /\ \A k \in 0 .. 48 - 1 : Wire(msg)[k] = msg.buff.data[k]
    BY <1>2, <2>2, WireCells
  <2>6. \A k \in 0 .. 3 : /\ PathPlaces[m] + k \in DOMAIN Wire(msg)
                          /\ Wire(msg)[PathPlaces[m] + k] = 0
    BY <2>3, <2>4, <2>5
  <2> QED BY <2>2, <2>6, FloatRead
<1> QED BY <1>1, <1>3, <1>4 DEF Holds, msg, zero

\* Storing an estimate leaves the header and the frame of the message alone.
LEMMA HoldsStored ==
    ASSUME NEW msg, NEW est, Holds(msg, est), NEW new5 \in Estimates
    PROVE  Holds(message_to_wire(msg, new5), new5)
<1> PICK b, s : b = msg.buff /\ s = message_to_wire(msg, new5)
  OBVIOUS
<1>1. /\ b \in Buffers /\ b.byte_length = At(5) /\ b.fields = 5
      /\ Framed(b.data, 5) /\ Headed(b, 5)
      /\ msg = [buff |-> b, indexes |-> PathPlaces]
  BY DEF Holds, Sound, Quads
<1>2. DOMAIN new5 = Members5 /\ \A m \in Members5 : new5[m] \in Cells
  BY DEF Estimates
<1>3. /\ s = [buff |-> s.buff, indexes |-> PathPlaces]
      /\ s.buff \in Buffers /\ s.buff.byte_length = At(5) /\ s.buff.fields = 5
      /\ \A m \in Members5 : Float(Wire(s), PathPlaces[m]) = new5[m]
      /\ \A k \in Indexes :
            (\A m \in Members5 : k \notin PathPlaces[m] .. PathPlaces[m] + 3)
                => s.buff.data[k] = b.data[k]
  BY <1>1, <1>2, PathPlacesApart, MembersStored
<1>4. ASSUME NEW k \in 0 .. 12
      PROVE  s.buff.data[k] = b.data[k]
  <2>1. \A m \in Members5 : k \notin PathPlaces[m] .. PathPlaces[m] + 3
    BY PathPlacesApart DEF Members5
  <2>2. k \in Indexes
    BY HeaderSize DEF Indexes
  <2> QED BY <2>1, <2>2, <1>3
<1>5. Headed(s.buff, 5)
  <2>1. /\ PROTPOS \in 0 .. 12 /\ OPPOS \in 0 .. 12 /\ BYTEPOS \in 0 .. 12
        /\ FLDPOS \in 0 .. 12 /\ FLDPOS + 1 \in 0 .. 12
    BY HeaderSize
  <2> QED BY <2>1, <1>1, <1>4 DEF Headed
<1>6. ASSUME NEW i \in 0 .. 5 - 1
      PROVE  s.buff.data[At(i)] = 4 /\ s.buff.data[At(i) + 6] = 0
  <2>1. i \in Nat /\ At(i) = 13 + 7 * i
    BY AtValue
  <2>2. \A m \in Members5 : /\ At(i) \notin PathPlaces[m] .. PathPlaces[m] + 3
                            /\ At(i) + 6 \notin PathPlaces[m] .. PathPlaces[m] + 3
    BY <2>1, PathPlacesApart DEF Members5
  <2>3. At(i) \in Indexes /\ At(i) + 6 \in Indexes
    BY <2>1, Room, HeaderSize DEF Indexes
  <2> QED BY <2>2, <2>3, <1>1, <1>3 DEF Framed
<1>7. Sound(s, 5) /\ s.indexes = PathPlaces
  BY <1>3, <1>5, <1>6 DEF Sound, Quads, Framed
<1> QED BY <1>3, <1>7 DEF Holds

\* A receiver of the message reads the estimate.
LEMMA HoldsRead ==
    ASSUME NEW msg, NEW est \in Estimates, Holds(msg, est)
    PROVE  message_from_wire(create_path_state, Wire(msg)) = est
<1>1. create_path_state.indexes = PathPlaces
  BY PathMade DEF PathPlaces
<1>2. DOMAIN PathPlaces \ {"type"} = Members5
  BY PathPlacesApart DEF Members5
<1>3. message_from_wire(create_path_state, Wire(msg)) =
          [m \in Members5 |-> Float(Wire(msg), PathPlaces[m])]
  BY <1>1, <1>2 DEF message_from_wire
<1>4. est = [m \in Members5 |-> est[m]]
  BY DEF Estimates
<1> QED BY <1>3, <1>4 DEF Holds

-----------------------------------------------------------------------------
(* The invariant of the filter.                                            *)

\* Every message on its way is of one of the three kinds.
Wires ==
    {camera_wire(p) : p \in Poses0} \cup {teensy_wire(m) : m \in Velocities}
        \cup {OtherWire}

LocalizationInv ==
    /\ GuardedPosition
    /\ blind \in BOOLEAN
    /\ traffic \in Seq(Wires)
    /\ state \in Estimates
    /\ Holds(path, state)

LEMMA InitLocalizationInv == Init => LocalizationInv
<1> SUFFICES ASSUME Init PROVE LocalizationInv
    OBVIOUS
<1>1. GuardedPosition
  BY InitGuarded
<1>2. blind \in BOOLEAN /\ traffic \in Seq(Wires)
  BY EmptySeq DEF Init
<1>3. state = [x |-> 0, y |-> 0, theta |-> 0, v |-> 0, w |-> 0]
  BY DEF Init
<1>4. state \in Estimates
  BY <1>3, CellsAreNumbers DEF Estimates, Members5
<1>5. Holds(path, state)
  BY <1>3, HoldsZero DEF Init
<1> QED BY <1>1, <1>2, <1>4, <1>5 DEF LocalizationInv

LEMMA PublishedWires ==
    ASSUME LocalizationInv, NEW w \in Wires, Publish(w)
    PROVE  traffic' \in Seq(Wires)
BY AppendProperties DEF LocalizationInv, Publish

\* One step of the filter: what it becomes is one of what PoseEstimate allows.
LEMMA ConvertStep ==
    ASSUME LocalizationInv, Convert
    PROVE  /\ traffic' \in Seq(Wires)
           /\ state' \in Estimates /\ Holds(path', state')
           /\ \/ state' = state
              \/ \E p \in Poses0 : state' =
                    [state EXCEPT !.x = p.x, !.y = p.y, !.theta = p.theta]
              \/ \E m \in Velocities : state' = [state EXCEPT !.v = m.v, !.w = m.w]
<1>1. /\ traffic \in Seq(Wires) /\ traffic # <<>> /\ traffic' = Tail(traffic)
      /\ state \in Estimates /\ Holds(path, state)
      /\ state' = Updated(Head(traffic)) /\ path' = message_to_wire(path, state')
  BY DEF Convert, LocalizationInv
<1>2. Head(traffic) \in Wires /\ traffic' \in Seq(Wires)
  BY <1>1, HeadTailProperties
<1> PICK w \in Wires : w = Head(traffic)
  BY <1>2
<1>3. CASE \E p \in Poses0 : w = camera_wire(p)
  <2>1. PICK p \in Poses0 : w = camera_wire(p)
    BY <1>3
  <2>2. p \in Positions
    BY PosesArePositions
  <2>3. state' = [state EXCEPT !.x = p.x, !.y = p.y, !.theta = p.theta]
    BY <1>1, <2>1, <2>2, CameraWire, CameraRead
  <2>4. p.x \in Cells /\ p.y \in Cells /\ p.theta \in Cells
    BY <2>2 DEF Positions
  <2>5. state' \in Estimates
    BY <1>1, <2>3, <2>4 DEF Estimates
  <2> QED BY <1>1, <1>2, <2>3, <2>5, HoldsStored
<1>4. CASE \E m \in Velocities : w = teensy_wire(m)
  <2>1. PICK m \in Velocities : w = teensy_wire(m)
    BY <1>4
  <2>2. state' = [state EXCEPT !.v = m.v, !.w = m.w]
    BY <1>1, <2>1, TeensyWire, TeensyRead
  <2>3. m.v \in Cells /\ m.w \in Cells
    BY TeensyWire
  <2>4. state' \in Estimates
    BY <1>1, <2>2, <2>3 DEF Estimates
  <2> QED BY <1>1, <1>2, <2>2, <2>4, HoldsStored
<1>5. CASE w = OtherWire
  <2>1. state' = state
    BY <1>1, <1>5, OtherWireRead, OtherRead
  <2> QED BY <1>1, <1>2, <2>1, HoldsStored
<1> QED BY <1>3, <1>4, <1>5 DEF Wires

LEMMA StepLocalizationInv ==
    ASSUME LocalizationInv, [Next]_vars
    PROVE  LocalizationInv'
<1>1. GuardedPosition'
  BY StepGuarded DEF LocalizationInv
<1>2. CASE \/ SyncStart \/ CloseWindow \/ Destroy \/ CaptureFails
           \/ LockPosition \/ SetPosition \/ UnlockPosition
           \/ (\E p \in Poses : Detect(p)) \/ UNCHANGED vars
  <2>1. blind' \in BOOLEAN /\ UNCHANGED <<traffic, filterVars>>
    BY <1>2 DEF SyncStart, CloseWindow, Destroy, CaptureFails, LockPosition,
                SetPosition, UnlockPosition, Detect, LocalizationInv, vars, cameraVars
  <2>2. UNCHANGED <<traffic, state, path>>
    BY <2>1 DEF filterVars
  <2>3. Holds(path, state)' = Holds(path', state')
    OBVIOUS
  <2> QED BY <1>1, <2>1, <2>2 DEF LocalizationInv
<1>3. CASE \/ PublishPosition \/ PublishOther \/ \E a, b \in Motions0 : PublishMotion(a, b)
  <2>1. UNCHANGED <<cameraVars, filterVars>>
    BY <1>3 DEF PublishPosition, PublishOther, PublishMotion
  <2>2. \E w \in Wires : Publish(w)
    <3>1. CASE PublishPosition
      <4>1. ~guard /\ Publish(camera_wire(pos))
        BY <3>1 DEF PublishPosition
      <4>2. pos \in Poses0
        BY <4>1 DEF LocalizationInv, GuardedPosition
      <4> QED BY <4>1, <4>2 DEF Wires
    <3>2. CASE PublishOther
      BY <3>2 DEF PublishOther, Wires, OtherWire
    <3>3. CASE \E a, b \in Motions0 : PublishMotion(a, b)
      <4>1. PICK a \in Motions0, b \in Motions0 : PublishMotion(a, b)
        BY <3>3
      <4>2. [v |-> a.v, w |-> b.w] \in Velocities
        BY LocalizationAssumption DEF Velocities, Motions0
      <4> QED BY <4>1, <4>2 DEF PublishMotion, Wires
    <3> QED BY <1>3, <3>1, <3>2, <3>3
  <2>3. traffic' \in Seq(Wires)
    BY <2>2, PublishedWires
  <2>4. UNCHANGED <<blind, state, path>>
    BY <2>1 DEF cameraVars, filterVars
  <2> QED BY <1>1, <2>3, <2>4 DEF LocalizationInv
<1>4. CASE Convert
  <2>1. blind' = blind
    BY <1>4 DEF Convert, cameraVars
  <2> QED BY <1>1, <1>4, <2>1, ConvertStep DEF LocalizationInv
<1> QED BY <1>2, <1>3, <1>4 DEF Next

LEMMA LocalizationInvariance == Spec => []LocalizationInv
<1>1. LocalizationInv /\ [Next]_vars => LocalizationInv'
  BY StepLocalizationInv
<1> QED BY <1>1, InitLocalizationInv, PTL DEF Spec

\* Types: messages on their way are no longer than the array they come from,
\* the estimate has no torn float, and the lock is held while it should be.
THEOREM TypeCorrect == Spec => []TypeOK
<1>1. LocalizationInv => TypeOK
  <2> SUFFICES ASSUME LocalizationInv PROVE TypeOK
    OBVIOUS
  <2>1. pos \in Positions /\ new \in Poses0 /\ blind \in BOOLEAN
    BY DEF LocalizationInv, GuardedPosition
  <2>2. \/ guard = TRUE /\ detector \in Setting
        \/ guard = FALSE /\ detector \in Outside
    BY DEF LocalizationInv, GuardedPosition
  <2>3. /\ guard = (detector \in {"x", "y", "theta", "unlock"})
        /\ detector \in {"new", "idle", "lock", "x", "y", "theta", "unlock",
                         "capture", "aborted", "quit", "gone"}
    <3>1. /\ Setting \cap Outside = {}
          /\ detector \in Setting \cup Outside
      BY <2>2 DEF Setting, Outside
    <3>2. guard = (detector \in Setting)
      <4>1. CASE guard = TRUE /\ detector \in Setting
        BY <4>1, Zenon
      <4>2. CASE guard = FALSE /\ detector \in Outside
        <5>1. ~ (detector \in Setting)
          BY <3>1, <4>2
        <5>2. \A b \in BOOLEAN : ~b => FALSE = b
          OBVIOUS
        <5>3. FALSE = (detector \in Setting)
          BY <5>1, <5>2
        <5> QED BY <4>2, <5>3
      <4> QED BY <2>2, <4>1, <4>2
    <3> QED BY <3>1, <3>2 DEF Setting, Outside
  <2>4. \A w \in Wires : DOMAIN w \subseteq Indexes
    BY PosesArePositions, CameraWire, TeensyWire, OtherWireRead DEF Wires
  <2>5. \A i \in DOMAIN traffic : traffic[i] \in Wires
    BY LenProperties DEF LocalizationInv
  <2>6. state \in [{"x", "y", "theta", "v", "w"} -> Cells]
    BY DEF LocalizationInv, Estimates, Members5
  <2>7. path.buff \in Buffers
    BY DEF LocalizationInv, Holds, Sound, Quads
  <2> QED BY <2>1, <2>3, <2>4, <2>5, <2>6, <2>7 DEF TypeOK, Positions
<1> QED BY <1>1, LocalizationInvariance, PTL

LEMMA HoldsFound ==
    ASSUME NEW msg, NEW est, Holds(msg, est)
    PROVE  LET data == Wire(msg) IN
           /\ data[PROTPOS] = PROTOCOL_VERSION /\ data[OPPOS] = DATA_PACKET
           /\ data[BYTEPOS] = msg.buff.byte_length
           /\ get_number_fields(data) = 5
           /\ \A i \in 0 .. 4 : Found(data, i)
<1> PICK data : data = Wire(msg)
  OBVIOUS
<1>1. /\ msg.buff \in Buffers /\ msg.buff.byte_length = At(5) /\ At(5) = 48
      /\ At(5) <= MessageSize /\ Framed(msg.buff.data, 5) /\ Headed(msg.buff, 5)
  BY PathPlacesApart DEF Holds, Sound, Quads
<1>2. /\ DOMAIN data = 0 .. At(5) - 1
      /\ \A k \in 0 .. 47 : /\ k \in DOMAIN data
                            /\ data[k] = msg.buff.data[k]
                            /\ Cell(data, k) = msg.buff.data[k]
  <2>1. \A k \in 0 .. 47 : k \in 0 .. At(5) - 1
    BY <1>1
  <2> QED BY <2>1, <1>1, WireCells
<1>3. /\ data[0] = PROTOCOL_VERSION /\ data[1] = DATA_PACKET
      /\ data[6] = At(5) /\ Cell(data, 10) = 5 /\ Cell(data, 11) = 0
  <2>1. 0 \in 0 .. 47 /\ 1 \in 0 .. 47 /\ 6 \in 0 .. 47 /\ 10 \in 0 .. 47 /\ 11 \in 0 .. 47
    OBVIOUS
  <2>2. FLDPOS + 1 = 11
    BY HeaderSize
  <2> QED BY <2>1, <2>2, <1>1, <1>2, HeaderSize DEF Headed
<1>4. get_number_fields(data) = 5
  <2>1. FLDPOS = 10 /\ FLDPOS + 1 = 11
    BY HeaderSize
  <2> QED BY <2>1, <1>3 DEF get_number_fields
<1>5. Framed(data, 5)
  <2>1. ASSUME NEW i \in 0 .. 5 - 1
        PROVE  At(i) \in 0 .. 47 /\ At(i) + 6 \in 0 .. 47
    <3>1. i \in Nat /\ At(i) = 13 + 7 * i
      BY AtValue
    <3> QED BY <3>1
  <2> QED BY <2>1, <1>1, <1>2 DEF Framed
<1>6. ASSUME NEW i \in 0 .. 4
      PROVE  Found(data, i)
  <2>1. i \in 0 .. 5 /\ i \in Nat /\ i < 5
    OBVIOUS
  <2>2. ElementAt(data, i) = At(i)
    <3>1. \A k \in 0 .. At(5) - 1 : k \in DOMAIN data
      BY <1>2
    <3> QED BY <2>1, <3>1, <1>5, QuadPlaces
  <2>3. At(i) # Nowhere
    BY <2>1, AtValue DEF Nowhere
  <2>4. 5 < MaxFields
    BY Room
  <2> QED BY <1>4, <2>1, <2>2, <2>3, <2>4 DEF Found
<1> QED BY <1>1, <1>3, <1>4, <1>6, HeaderSize

\* However many estimates are stored in the outgoing message, it keeps its
\* header, and a receiver finds every one of its five elements.
THEOREM PathStaysMessage == Spec => []PathIsMessage
<1>1. LocalizationInv => PathIsMessage
  BY HoldsFound DEF LocalizationInv, PathIsMessage
<1> QED BY <1>1, LocalizationInvariance, PTL

-----------------------------------------------------------------------------
(* The filter implements PoseEstimate.                                     *)

Received == message_from_wire(create_path_state, Wire(path))

LEMMA ReceivedState == LocalizationInv => Received = state
BY HoldsRead DEF LocalizationInv, Received

LEMMA StepEstimate ==
    ASSUME LocalizationInv, [Next]_vars
    PROVE  \/ state' = state
           \/ \E p \in Poses0 : state' =
                 [state EXCEPT !.x = p.x, !.y = p.y, !.theta = p.theta]
           \/ \E m \in Velocities : state' = [state EXCEPT !.v = m.v, !.w = m.w]
<1>1. CASE Convert
  BY <1>1, ConvertStep
<1>2. CASE ~Convert
  <2>1. UNCHANGED state
    BY <1>2 DEF Next, SyncStart, CloseWindow, Destroy, CaptureFails, LockPosition,
                SetPosition, UnlockPosition, Detect, PublishPosition, PublishOther,
                PublishMotion, vars, filterVars
  <2> QED BY <2>1
<1> QED BY <1>1, <1>2

\* Through two serialisations and two threads, a receiver of the filter's
\* messages sees whole positions, and velocities as they were published.
THEOREM EstimateRefinement == Spec => EstimateSpec
<1>1. Init => Estimate!Init
  <2> SUFFICES ASSUME Init PROVE Estimate!Init
    OBVIOUS
  <2>1. Received = state
    BY InitLocalizationInv, ReceivedState
  <2> QED BY <2>1 DEF Init, Estimate!Init, Received
<1>2. LocalizationInv /\ LocalizationInv' /\ [Next]_vars => [Estimate!Next]_Received
  <2> SUFFICES ASSUME LocalizationInv, LocalizationInv', [Next]_vars
               PROVE  [Estimate!Next]_Received
    OBVIOUS
  <2>1. Received = state
    BY ReceivedState
  <2>2. Received' = state'
    <3>1. state' \in Estimates /\ Holds(path', state')
      BY DEF LocalizationInv
    <3>2. message_from_wire(create_path_state, Wire(path')) = state'
      BY <3>1, HoldsRead
    <3>3. Received' = message_from_wire(create_path_state, Wire(path'))
      BY DEF Received
    <3> QED BY <3>2, <3>3
  <2>3. CASE state' = state
    BY <2>1, <2>2, <2>3
  <2>4. CASE \E p \in Poses0 : state' =
                [state EXCEPT !.x = p.x, !.y = p.y, !.theta = p.theta]
    BY <2>1, <2>2, <2>4 DEF Estimate!Next, Estimate!Seen, Received
  <2>5. CASE \E m \in Velocities : state' = [state EXCEPT !.v = m.v, !.w = m.w]
    <3>1. PICK m \in Velocities : state' = [state EXCEPT !.v = m.v, !.w = m.w]
      BY <2>5
    <3>2. PICK a \in Motions0, b \in Motions0 : m.v = a.v /\ m.w = b.w
      BY DEF Velocities
    <3>3. state' = [state EXCEPT !.v = a.v, !.w = b.w]
      BY <3>1, <3>2
    <3> QED BY <2>1, <2>2, <3>3 DEF Estimate!Next, Estimate!Measured, Received
  <2> QED BY <2>3, <2>4, <2>5, StepEstimate
<1>3. Spec => Estimate!Init /\ [][Estimate!Next]_Received
  BY <1>1, <1>2, LocalizationInvariance, PTL DEF Spec
<1> QED BY <1>3, PTL DEF EstimateSpec, Estimate!Spec, Received

=============================================================================

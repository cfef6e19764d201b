-------------------------- MODULE SerialLineProofs --------------------------
(***************************************************************************)
(* Proofs about SerialLine, for every size of a float, every set of speeds *)
(* and of measurements, and any number of rounds and responses.            *)
(***************************************************************************)
EXTENDS SerialLine, SequenceTheorems, TLAPS

Response == [1 .. SIZE - 1 -> Byte]

\* The sizes of a response, of a command and of the buffer they share.
LEMMA Sizes ==
    /\ FloatSize \in Nat /\ FloatSize >= 1
    /\ SIZE \in Nat /\ SIZE = 4 * FloatSize + 1
    /\ COMMAND \in Nat /\ COMMAND = 2 * FloatSize + 3
    /\ BUFFER_SIZE \in Nat /\ BUFFER_SIZE = 7 * FloatSize + 2
    /\ SIZE < BUFFER_SIZE /\ COMMAND <= BUFFER_SIZE
BY SerialAssumption DEF SIZE, COMMAND, BUFFER_SIZE

LEMMA Constants ==
    /\ Samples \subseteq Response
    /\ Speeds \subseteq [1 .. FloatSize -> Byte]
    /\ Zero \in [1 .. FloatSize -> Byte]
    /\ ZeroSample \in Response
BY SerialAssumption DEF Response, Zero, ZeroSample, Byte

\* Positions in a sequence of blocks of b.
LEMMA Division ==
    ASSUME NEW a \in Nat, NEW b \in Nat, b > 0, NEW c \in Nat, a < b * c
    PROVE  a % b \in 0 .. b - 1 /\ a \div b \in 0 .. c - 1
<1>1. a \div b \in Nat /\ a \div b < c
  OBVIOUS
<1>2. a % b \in 0 .. b - 1
  OBVIOUS
<1> QED BY <1>1, <1>2

\* A byte of what the Teensy wrote is a byte.
LEMMA StreamByte ==
    ASSUME TypeOK, consumed < arrived
    PROVE  Stream(consumed + 1) \in Byte
<1>1. /\ consumed \in Nat /\ arrived \in Nat /\ Len(answers) \in Nat
      /\ arrived <= SIZE * Len(answers)
  BY Sizes DEF TypeOK
<1>2. consumed < SIZE * Len(answers)
  BY <1>1, Sizes
<1> DEFINE k == consumed % SIZE
           q == consumed \div SIZE
<1>3. k \in 0 .. SIZE - 1 /\ q \in 0 .. Len(answers) - 1
  BY <1>1, <1>2, Sizes, Division
<1>4. Stream(consumed + 1) = IF k = 0 THEN RESPONSE ELSE answers[q + 1][k]
  BY <1>1 DEF Stream
<1> HIDE DEF k, q
<1>5. answers[q + 1] \in Samples
  BY <1>1, <1>3 DEF TypeOK
<1>6. k # 0 => answers[q + 1][k] \in Byte
  BY <1>5, <1>3, Constants, Sizes DEF Response
<1> QED BY <1>4, <1>6 DEF Byte, RESPONSE

\* Nor is what is read of it anything else; and an 'r' is read as an 'r', and
\* nothing else is.
LEMMA ReceivedByte ==
    /\ \A b \in Byte : Received(b) \in Byte
    /\ \A b : Received(b) = RESPONSE <=> b = RESPONSE
BY DEF Received, Byte, RETURN, NEWLINE, RESPONSE

LEMMA Multiples ==
    ASSUME NEW n \in Nat
    PROVE  /\ SIZE * n \in Nat
           /\ SIZE * (n + 1) = SIZE * n + SIZE
           /\ SIZE * (n - 1) = SIZE * n - SIZE
<1>1. \A z \in Nat : /\ z * n \in Nat
                     /\ z * (n + 1) = z * n + z
                     /\ z * (n - 1) = z * n - z
  OBVIOUS
<1> QED BY <1>1, Sizes

-----------------------------------------------------------------------------
(* Types.                                                                  *)

LEMMA InitTypes == Init => TypeOK
<1> SUFFICES ASSUME Init PROVE TypeOK
    OBVIOUS
<1>1. Len(answers) = 0 /\ answers \in Seq(Samples)
  BY DEF Init
<1>2. SIZE * Len(answers) = 0
  BY <1>1, Sizes
<1>3. accepted \in Seq(Response)
  BY DEF Init
<1>4. resp_msg \in Response
  BY Constants DEF Init
<1>5. buffer \in [0 .. BUFFER_SIZE - 1 -> Byte]
  BY DEF Init, NUL, Byte
<1>6. i \in 0 .. SIZE /\ loops \in 0 .. MaxLoops
  BY Sizes, SerialAssumption DEF Init
<1>7. arrived \in 0 .. SIZE * Len(answers) /\ consumed \in 0 .. arrived
  BY <1>2 DEF Init
<1> QED BY <1>1, <1>3, <1>4, <1>5, <1>6, <1>7 DEF Init, TypeOK, Response

\* What a command leaves in the buffer, byte by byte.
LEMMA CommandType ==
    ASSUME TypeOK,
           NEW lin \in [1 .. FloatSize -> Byte], NEW ang \in [1 .. FloatSize -> Byte]
    PROVE  Command(lin, ang) \in [0 .. BUFFER_SIZE - 1 -> Byte]
<1> DEFINE value(k) ==
        CASE k = 0                  -> DRIVE_COM
          [] k \in 1 .. FloatSize   -> lin[k]
          [] k \in FloatSize + 1 .. 2 * FloatSize -> ang[k - FloatSize]
          [] k = COMMAND - 2        -> NEWLINE
          [] k = COMMAND - 1        -> NUL
          [] OTHER                  -> buffer[k]
<1>1. ASSUME NEW k \in 0 .. BUFFER_SIZE - 1
      PROVE  value(k) \in Byte
  <2>1. DRIVE_COM \in Byte /\ NEWLINE \in Byte /\ NUL \in Byte
    BY DEF DRIVE_COM, NEWLINE, NUL, Byte
  <2>2. buffer[k] \in Byte
    BY DEF TypeOK
  <2>3. k \in FloatSize + 1 .. 2 * FloatSize => ang[k - FloatSize] \in Byte
    BY Sizes
  <2> QED BY <2>1, <2>2, <2>3
<1>2. Command(lin, ang) = [k \in 0 .. BUFFER_SIZE - 1 |-> value(k)]
  BY DEF Command
<1> QED BY <1>1, <1>2

LEMMA DriveTypes ==
    ASSUME TypeOK, NEW lin \in Speeds \cup {Zero}, NEW ang \in Speeds \cup {Zero},
           SendDrive(lin, ang)
    PROVE  TypeOK'
<1>1. Command(lin, ang) \in [0 .. BUFFER_SIZE - 1 -> Byte]
  BY CommandType, Constants
<1>2. i' \in 0 .. SIZE /\ loops' \in 0 .. MaxLoops /\ pc' = "read"
  BY Sizes, SerialAssumption DEF SendDrive, TypeOK
<1> QED BY <1>1, <1>2 DEF SendDrive, TypeOK, teensy

LEMMA ReadTypes ==
    ASSUME TypeOK, ReadByte
    PROVE  TypeOK'
<1>1. Received(Stream(consumed + 1)) \in Byte
  BY StreamByte, ReceivedByte DEF ReadByte
<1>2. buffer' \in [0 .. BUFFER_SIZE - 1 -> Byte]
  BY <1>1 DEF ReadByte, TypeOK
<1>3. i' \in 0 .. SIZE
  BY Sizes DEF ReadByte, TypeOK
<1>4. consumed' \in 0 .. arrived'
  <2>1. arrived \in Nat /\ arrived' = arrived
    BY Multiples DEF ReadByte, TypeOK, teensy
  <2> QED BY <2>1 DEF ReadByte, TypeOK
<1> QED BY <1>2, <1>3, <1>4 DEF ReadByte, TypeOK, device, teensy

LEMMA TakeTypes ==
    ASSUME TypeOK, TakeResponse
    PROVE  TypeOK'
<1>1. resp_msg' \in Response
  BY Sizes DEF TakeResponse, TypeOK, Response
<1>2. accepted' \in Seq(Response)
  BY <1>1 DEF TakeResponse, TypeOK, Response
<1>3. i' \in 0 .. SIZE
  BY Sizes DEF TakeResponse
<1> QED BY <1>1, <1>2, <1>3 DEF TakeResponse, TypeOK, Response, teensy

\* A read that ends, for whatever reason, keeps the bytes it has used up.
LEMMA EndTypes ==
    ASSUME TypeOK, NothingToRead \/ NoDescriptor \/ ReadError \/ RefuseResponse
    PROVE  TypeOK'
<1>1. i' \in 0 .. SIZE /\ pc' = "write"
  BY Sizes DEF TypeOK, NothingToRead, NoDescriptor, ReadError, RefuseResponse, reading
<1> QED BY <1>1 DEF TypeOK, NothingToRead, NoDescriptor, ReadError,
                    RefuseResponse, device, teensy, reading

LEMMA AnswerTypes ==
    ASSUME TypeOK, NEW s \in Samples, Answer(s)
    PROVE  TypeOK'
<1>1. /\ answers' \in Seq(Samples)
      /\ Len(answers) \in Nat /\ Len(answers') = Len(answers) + 1
  BY DEF Answer, TypeOK
<1>2. arrived' \in 0 .. SIZE * Len(answers')
  BY <1>1, Multiples, Sizes DEF Answer, TypeOK
<1> QED BY <1>1, <1>2 DEF Answer, TypeOK, device, reading

LEMMA ArriveTypes ==
    ASSUME TypeOK, Arrive
    PROVE  TypeOK'
<1>1. SIZE * Len(answers) \in Nat
  BY Multiples DEF TypeOK
<1>2. arrived' \in 0 .. SIZE * Len(answers') /\ consumed' \in 0 .. arrived'
  BY <1>1 DEF Arrive, TypeOK, reading
<1> QED BY <1>2 DEF Arrive, TypeOK, device, reading

LEMMA DeviceTypes ==
    ASSUME TypeOK, NewTeensyDevice \/ TeensyCleanup
    PROVE  TypeOK'
BY DEF TypeOK, NewTeensyDevice, TeensyCleanup, teensy, reading

LEMMA StepTypes ==
    ASSUME TypeOK, [Next]_vars
    PROVE  TypeOK'
<1>1. CASE NewTeensyDevice \/ TeensyCleanup
  BY <1>1, DeviceTypes
<1>2. CASE StopRobot \/ \E lin, ang \in Speeds : SendDrive(lin, ang)
  BY <1>2, DriveTypes DEF StopRobot
<1>3. CASE ReadByte
  BY <1>3, ReadTypes
<1>4. CASE NothingToRead \/ NoDescriptor \/ ReadError \/ RefuseResponse
  BY <1>4, EndTypes
<1>5. CASE TakeResponse
  BY <1>5, TakeTypes
<1>6. CASE \E s \in Samples : Answer(s)
  BY <1>6, AnswerTypes
<1>7. CASE Arrive
  BY <1>7, ArriveTypes
<1>8. CASE UNCHANGED vars
  BY <1>8 DEF vars, device, teensy, reading, TypeOK
<1> QED BY <1>1, <1>2, <1>3, <1>4, <1>5, <1>6, <1>7, <1>8 DEF Next, Read

\* The bytes of a response are within the buffer, whatever the sizes are and
\* wherever reads have failed: serial.c checks no bound.
THEOREM TypeCorrect == Spec => []TypeOK
<1>1. TypeOK /\ [Next]_vars => TypeOK'
  BY StepTypes
<1> QED BY <1>1, InitTypes, PTL DEF Spec

-----------------------------------------------------------------------------
(* What is taken for a response.                                           *)

\* What is counted: the rounds, and the bytes of the line and of a read.
LEMMA Counts ==
    ASSUME TypeOK
    PROVE  /\ i \in Nat /\ i <= SIZE /\ loops \in Nat /\ consumed \in Nat
<1>1. i \in Nat /\ i <= SIZE /\ loops \in Nat
  BY Sizes DEF TypeOK
<1>2. consumed \in Nat
  BY Multiples DEF TypeOK
<1> QED BY <1>1, <1>2

\* A position in blocks of b: its block and its place in the block.
LEMMA Block ==
    ASSUME NEW b \in Nat, NEW q \in Nat, NEW k \in 0 .. b - 1
    PROVE  (b * q + k) % b = k /\ (b * q + k) \div b = q
<1> DEFINE x == b * q + k
           d == x \div b
           r == x % b
<1>1. b \in Nat /\ b > 0 /\ k \in Nat /\ k < b /\ b * q \in Nat /\ x \in Nat
  OBVIOUS
<1>2. d \in Nat /\ r \in 0 .. b - 1
  BY <1>1
<1>3. b * d \in Nat /\ x = b * d + r
  BY <1>1
<1> HIDE DEF d, r
<1>4. ~ (d < q)
  <2>1. SUFFICES ASSUME d + 1 <= q PROVE FALSE
    BY <1>2
  <2>2. b * (d + 1) <= b * q /\ b * (d + 1) = b * d + b
    BY <2>1, <1>1, <1>2
  <2> QED BY <2>2, <1>1, <1>2, <1>3
<1>5. ~ (q < d)
  <2>1. SUFFICES ASSUME q + 1 <= d PROVE FALSE
    BY <1>2
  <2>2. b * (q + 1) <= b * d /\ b * (q + 1) = b * q + b
    BY <2>1, <1>1, <1>2
  <2> QED BY <2>2, <1>1, <1>2, <1>3
<1>6. d = q
  BY <1>4, <1>5, <1>2
<1>7. r = k
  BY <1>6, <1>3, <1>2, <1>1
<1> QED BY <1>6, <1>7 DEF d, r

\* The bytes that the present read has put into the buffer.
ReadSoFar ==
    pc = "read" =>
        /\ i <= consumed
        /\ \A k \in 0 .. i - 1 : buffer[k] = Received(Stream(consumed - i + k + 1))

\* AcceptedInOrder, and all that was taken was behind the thread.
Matches(f) ==
    /\ f \in [DOMAIN accepted -> DOMAIN answers]
    /\ \A m, n \in DOMAIN f : m < n => f[m] < f[n]
    /\ \A n \in DOMAIN f : accepted[n] = Delivered(answers[f[n]]) /\ SIZE * f[n] <= Whole

TakenBefore == Ambiguous \/ \E f : Matches(f)

\* The Teensy takes nothing back.
Grows == answers' = answers \/ \E s \in Samples : answers' = Append(answers, s)

LEMMA StepGrows ==
    ASSUME TypeOK, [Next]_vars
    PROVE  Grows
BY DEF Next, vars, teensy, Read, NewTeensyDevice, TeensyCleanup, SendDrive, StopRobot,
       ReadByte, NothingToRead, NoDescriptor, TakeResponse, RefuseResponse, ReadError,
       Answer, Arrive, Grows

LEMMA AnswersKept ==
    ASSUME TypeOK, Grows
    PROVE  /\ Len(answers) <= Len(answers')
           /\ DOMAIN answers \subseteq DOMAIN answers'
           /\ \A n \in DOMAIN answers : answers'[n] = answers[n]
<1>1. answers \in Seq(Samples) /\ DOMAIN answers = 1 .. Len(answers) /\ Len(answers) \in Nat
  BY DEF TypeOK
<1>2. CASE answers' = answers
  BY <1>1, <1>2
<1>3. ASSUME NEW s \in Samples, answers' = Append(answers, s)
      PROVE  /\ Len(answers') = Len(answers) + 1
             /\ DOMAIN answers' = 1 .. Len(answers')
             /\ \A n \in DOMAIN answers : answers'[n] = answers[n]
  BY <1>1, <1>3
<1> QED BY <1>1, <1>2, <1>3 DEF Grows

LEMMA AmbiguousForGood ==
    ASSUME TypeOK, Grows, Ambiguous
    PROVE  Ambiguous'
BY AnswersKept DEF Ambiguous

\* What has arrived once stays what it was.
LEMMA StreamKept ==
    ASSUME TypeOK, Grows, NEW n \in Nat, n >= 1, n <= consumed
    PROVE  Stream(n)' = Stream(n)
<1>1. Len(answers) \in Nat /\ DOMAIN answers = 1 .. Len(answers)
  BY DEF TypeOK
<1>2. n - 1 \in Nat /\ n - 1 < SIZE * Len(answers)
  <2>1. SIZE * Len(answers) \in Nat
    BY <1>1, Multiples
  <2> QED BY <2>1 DEF TypeOK
<1> DEFINE q == (n - 1) \div SIZE
<1>3. q \in 0 .. Len(answers) - 1
  BY <1>1, <1>2, Sizes, Division
<1> HIDE DEF q
<1>4. answers'[q + 1] = answers[q + 1]
  BY <1>1, <1>3, AnswersKept
<1> QED BY <1>4 DEF Stream, q

LEMMA ReadingByte ==
    ASSUME TypeOK, ReadSoFar, ReadByte
    PROVE  ReadSoFar'
<1>1. /\ i \in Nat /\ consumed \in Nat /\ i <= consumed /\ i < SIZE
      /\ pc = "read" /\ i' = i + 1 /\ consumed' = consumed + 1
      /\ buffer' = [buffer EXCEPT ![i] = Received(Stream(consumed + 1))]
  BY Counts DEF ReadByte, ReadSoFar
<1>2. \A n : Stream(n)' = Stream(n)
  BY DEF Stream, ReadByte, teensy
<1>3. i \in 0 .. BUFFER_SIZE - 1 /\ DOMAIN buffer = 0 .. BUFFER_SIZE - 1
  BY <1>1, Sizes DEF TypeOK
<1>4. ASSUME NEW k \in 0 .. i
      PROVE  buffer'[k] = Received(Stream(consumed - i + k + 1))
  <2>1. CASE k = i
    <3>1. consumed - i + k + 1 = consumed + 1
      BY <1>1, <2>1
    <3> QED BY <3>1, <2>1, <1>1, <1>3
  <2>2. CASE k # i
    <3>1. k \in Nat /\ k < i /\ i < BUFFER_SIZE
      BY <2>2, <1>1, Sizes
    <3>2. k \in 0 .. i - 1 /\ k \in 0 .. BUFFER_SIZE - 1
      BY <3>1, <1>1, Sizes
    <3> QED BY <3>2, <2>2, <1>1, <1>3 DEF ReadSoFar
  <2> QED BY <2>1, <2>2
<1>5. consumed' - i' = consumed - i /\ i' - 1 = i /\ i' <= consumed'
  BY <1>1
<1> QED BY <1>2, <1>4, <1>5 DEF ReadSoFar

LEMMA ReadingOn ==
    ASSUME TypeOK, ReadSoFar, Grows, UNCHANGED <<reading, pc>>
    PROVE  ReadSoFar'
<1> SUFFICES ASSUME pc = "read"
             PROVE  /\ i <= consumed
                    /\ \A k \in 0 .. i - 1 :
                           buffer[k] = Received(Stream(consumed - i + k + 1)')
    BY DEF ReadSoFar, reading, Stream, Received
<1>1. i \in Nat /\ consumed \in Nat /\ i <= consumed
  BY Counts DEF ReadSoFar
<1>2. ASSUME NEW k \in 0 .. i - 1
      PROVE  buffer[k] = Received(Stream(consumed - i + k + 1)')
  <2>1. PICK n \in Nat : n = consumed - i + k + 1 /\ n >= 1 /\ n <= consumed
    BY <1>1
  <2>2. n = (consumed - i + k + 1)'
    BY <2>1 DEF reading
  <2>3. Stream(n)' = Stream(n)
    BY <2>1, StreamKept
  <2> QED BY <2>1, <2>2, <2>3 DEF ReadSoFar, Stream
<1> QED BY <1>1, <1>2

LEMMA StepReading ==
    ASSUME TypeOK, TypeOK', ReadSoFar, [Next]_vars
    PROVE  ReadSoFar'
<1>1. CASE NewTeensyDevice \/ TeensyCleanup \/ NothingToRead \/ ReadError \/ NoDescriptor
           \/ RefuseResponse \/ TakeResponse
  <2>1. pc' # "read"
    BY <1>1 DEF NewTeensyDevice, TeensyCleanup, NothingToRead, ReadError, NoDescriptor,
                RefuseResponse, TakeResponse
  <2> QED BY <2>1 DEF ReadSoFar
<1>2. CASE \E lin, ang \in Speeds \cup {Zero} : SendDrive(lin, ang)
  <2>1. i' = 0 /\ consumed' = consumed /\ consumed \in Nat
    BY <1>2, Counts DEF SendDrive
  <2> QED BY <2>1 DEF ReadSoFar
<1>3. CASE ReadByte
  BY <1>3, ReadingByte
<1>4. CASE Arrive \/ (\E s \in Samples : Answer(s)) \/ UNCHANGED vars
  <2>1. UNCHANGED <<reading, pc>>
    BY <1>4 DEF Arrive, Answer, vars
  <2>2. Grows
    BY StepGrows
  <2> QED BY <2>1, <2>2, ReadingOn
<1> QED BY <1>1, <1>2, <1>3, <1>4 DEF Next, Read, StopRobot

\* What was matched stays matched when nothing is taken.
LEMMA MatchesOn ==
    ASSUME TypeOK, TypeOK', Grows, accepted' = accepted, Whole' >= Whole,
           Whole \in Int, Whole' \in Int, NEW f, Matches(f)
    PROVE  Matches(f)'
<1>1. /\ DOMAIN answers \subseteq DOMAIN answers'
      /\ \A n \in DOMAIN answers : answers'[n] = answers[n]
  BY AnswersKept
<1>2. /\ f \in [DOMAIN accepted -> DOMAIN answers']
      /\ \A m, n \in DOMAIN f : m < n => f[m] < f[n]
  BY <1>1 DEF Matches
<1>3. ASSUME NEW n \in DOMAIN f
      PROVE  accepted'[n] = Delivered(answers'[f[n]]) /\ SIZE * f[n] <= Whole'
  <2>1. f[n] \in DOMAIN answers /\ accepted[n] = Delivered(answers[f[n]])
        /\ SIZE * f[n] <= Whole
    BY DEF Matches
  <2>2. f[n] \in Nat
    BY <2>1 DEF TypeOK
  <2>3. SIZE * f[n] \in Nat
    BY <2>2, Multiples
  <2>4. SIZE * f[n] <= Whole'
    BY <2>1, <2>3
  <2> QED BY <2>1, <2>4, <1>1
<1> QED BY <1>2, <1>3 DEF Matches

\* With no 'r' in the measurements, only a whole response starts with one.
LEMMA TakesWhole ==
    ASSUME TypeOK, ReadSoFar, ~Ambiguous, TakeResponse
    PROVE  \E q \in Nat : /\ q + 1 \in DOMAIN answers
                          /\ consumed - SIZE = SIZE * q
                          /\ resp_msg' = Delivered(answers[q + 1])
<1>1. /\ pc = "read" /\ i = SIZE /\ buffer[0] = RESPONSE
      /\ resp_msg' = [k \in 1 .. SIZE - 1 |-> buffer[k]]
  BY DEF TakeResponse
<1>2. PICK c \in Nat : c = consumed - SIZE /\ c < SIZE * Len(answers)
  <2>1. SIZE <= consumed /\ consumed \in Nat
    BY <1>1, Counts DEF ReadSoFar
  <2>2. consumed <= SIZE * Len(answers)
    <3>1. SIZE * Len(answers) \in Nat
      BY Multiples DEF TypeOK
    <3> QED BY <3>1 DEF TypeOK
  <2>3. SIZE * Len(answers) \in Nat
    BY Multiples DEF TypeOK
  <2> QED BY <2>1, <2>2, <2>3, Sizes
<1>3. Len(answers) \in Nat /\ DOMAIN answers = 1 .. Len(answers)
  BY DEF TypeOK
<1>d. c % SIZE \in 0 .. SIZE - 1 /\ c \div SIZE \in 0 .. Len(answers) - 1
  BY <1>2, <1>3, Division, Sizes
<1>4. PICK q \in 0 .. Len(answers) - 1 : q = c \div SIZE
  BY <1>d
<1>5. PICK r \in 0 .. SIZE - 1 : r = c % SIZE
  BY <1>d
<1>6. q + 1 \in DOMAIN answers /\ q \in Nat
  BY <1>3, <1>4
<1>7. \A k \in 0 .. SIZE - 1 : buffer[k] = Received(Stream(c + k + 1))
  BY <1>1, <1>2 DEF ReadSoFar
<1>8. r = 0
  <2>1. RESPONSE = Stream(c + 1)
    <3>1. 0 \in 0 .. SIZE - 1 /\ c + 0 + 1 = c + 1
      BY <1>2, Sizes
    <3> QED BY <1>1, <1>7, <3>1, ReceivedByte
  <2>2. (c + 1) - 1 = c
    BY <1>2
  <2>3. r # 0 => RESPONSE = answers[q + 1][r]
    BY <2>1, <2>2, <1>4, <1>5 DEF Stream
  <2>4. r # 0 => r \in 1 .. SIZE - 1
    BY <1>5, Sizes
  <2> QED BY <2>3, <2>4, <1>6 DEF Ambiguous
<1>9. c = SIZE * q
  <2>1. c = SIZE * (c \div SIZE) + (c % SIZE)
    <3>1. \A b \in Nat : b > 0 => c = b * (c \div b) + (c % b)
      BY <1>2
    <3> QED BY <3>1, Sizes
  <2>2. SIZE * q \in Nat
    BY <1>6, Multiples
  <2> QED BY <2>1, <2>2, <1>4, <1>5, <1>8
<1>10. ASSUME NEW k \in 1 .. SIZE - 1
       PROVE  buffer[k] = Received(answers[q + 1][k])
  <2>1. k \in 0 .. SIZE - 1 /\ k # 0
    BY Sizes
  <2>2. (SIZE * q + k) % SIZE = k /\ (SIZE * q + k) \div SIZE = q
    BY <2>1, <1>6, Block, Sizes
  <2>3. (c + k + 1) - 1 = SIZE * q + k
    BY <1>9, <1>2, <2>1, Sizes
  <2>4. Stream(c + k + 1) = answers[q + 1][k]
    BY <2>1, <2>2, <2>3 DEF Stream
  <2> QED BY <2>1, <2>4, <1>7
<1>11. resp_msg' = Delivered(answers[q + 1])
  BY <1>1, <1>10 DEF Delivered
<1> QED BY <1>2, <1>6, <1>9, <1>11

\* Where complete reads have got to, in each step.
LEMMA WholeNumbers ==
    ASSUME TypeOK, ReadSoFar
    PROVE  Whole \in Nat /\ Whole <= consumed
BY Counts DEF ReadSoFar, Whole

LEMMA WholeNext ==
    ASSUME TypeOK'
    PROVE  Whole' \in Int
<1>1. SIZE * Len(answers') \in Nat
  BY Multiples DEF TypeOK
<1>2. consumed' \in Int /\ i' \in Int
  BY <1>1, Sizes DEF TypeOK
<1>3. \A a, b \in Int : a - b \in Int
  OBVIOUS
<1> QED BY <1>2, <1>3 DEF Whole

LEMMA StepWhole ==
    ASSUME TypeOK, TypeOK', ReadSoFar, [Next]_vars
    PROVE  Whole' >= Whole
<1> USE Counts, Sizes DEF ReadSoFar, Whole
<1>1. CASE NewTeensyDevice \/ TeensyCleanup
  <2>1. consumed' = consumed /\ pc # "read" /\ pc' # "read"
    BY <1>1 DEF NewTeensyDevice, TeensyCleanup, reading, TypeOK
  <2> QED BY <2>1
<1>2. CASE \E lin, ang \in Speeds \cup {Zero} : SendDrive(lin, ang)
  <2>1. pc = "write" /\ pc' = "read" /\ consumed' = consumed /\ i' = 0
    BY <1>2 DEF SendDrive
  <2> QED BY <2>1
<1>3. CASE ReadByte
  <2>1. pc = "read" /\ pc' = "read" /\ consumed' = consumed + 1 /\ i' = i + 1
    BY <1>3 DEF ReadByte
  <2> QED BY <2>1
<1>4. CASE NothingToRead \/ ReadError \/ RefuseResponse \/ TakeResponse \/ NoDescriptor
  <2>1. pc = "read" /\ pc' = "write" /\ consumed' = consumed
    BY <1>4 DEF NothingToRead, ReadError, RefuseResponse, TakeResponse, NoDescriptor, reading
  <2> QED BY <2>1
<1>5. CASE Arrive \/ (\E s \in Samples : Answer(s)) \/ UNCHANGED vars
  <2>1. UNCHANGED <<consumed, pc, i>>
    BY <1>5 DEF Arrive, Answer, reading, vars
  <2> QED BY <2>1
<1> QED BY <1>1, <1>2, <1>3, <1>4, <1>5 DEF Next, Read, StopRobot

\* A response that is taken is matched with the block that was just read,
\* which is behind all that were matched before.
LEMMA TakeMatches ==
    ASSUME TypeOK, TypeOK', ReadSoFar, ~Ambiguous, TakeResponse, NEW f, Matches(f)
    PROVE  \E g : Matches(g)'
<1>1. PICK q \in Nat : /\ q + 1 \in DOMAIN answers
                       /\ consumed - SIZE = SIZE * q
                       /\ resp_msg' = Delivered(answers[q + 1])
  BY TakesWhole
<1>2. PICK l \in Nat : /\ l = Len(accepted)
                       /\ DOMAIN accepted = 1 .. l
                       /\ accepted' = Append(accepted, resp_msg')
                       /\ DOMAIN accepted' = 1 .. l + 1
                       /\ accepted'[l + 1] = resp_msg'
                       /\ \A n \in 1 .. l : accepted'[n] = accepted[n]
  <2>1. accepted \in Seq(Response) /\ accepted' = Append(accepted, resp_msg')
    BY DEF TakeResponse, TypeOK, Response
  <2>2. Len(accepted) \in Nat /\ DOMAIN accepted = 1 .. Len(accepted)
    BY <2>1
  <2>3. /\ DOMAIN accepted' = 1 .. Len(accepted) + 1
        /\ accepted'[Len(accepted) + 1] = resp_msg'
        /\ \A n \in 1 .. Len(accepted) : accepted'[n] = accepted[n]
    <3>1. resp_msg' \in Response
      BY DEF TypeOK, Response
    <3> QED BY <2>1, <3>1
  <2> QED BY <2>1, <2>2, <2>3
<1>3. answers' = answers /\ pc = "read" /\ pc' = "write" /\ i = SIZE /\ consumed' = consumed
  BY DEF TakeResponse, teensy
<1>4. PICK w \in Nat : w = Whole /\ w = SIZE * q
  BY <1>1, <1>3, WholeNumbers DEF Whole
<1>5. Whole' = SIZE * (q + 1)
  <2>1. SIZE * (q + 1) = SIZE * q + SIZE /\ SIZE * q \in Nat
    BY Multiples
  <2>2. Whole' = consumed
    BY <1>3 DEF Whole
  <2>3. consumed = SIZE * q + SIZE
    BY <2>1, <1>1, Counts, Sizes
  <2> QED BY <2>1, <2>2, <2>3
<1> DEFINE g == [n \in 1 .. l + 1 |-> IF n = l + 1 THEN q + 1 ELSE f[n]]
<1>6. ASSUME NEW n \in 1 .. l
      PROVE  /\ f[n] \in Nat /\ f[n] \in DOMAIN answers /\ f[n] <= q
             /\ accepted[n] = Delivered(answers[f[n]])
             /\ SIZE * f[n] <= SIZE * q
  <2>1. f[n] \in DOMAIN answers /\ accepted[n] = Delivered(answers[f[n]])
        /\ SIZE * f[n] <= SIZE * q
    BY <1>2, <1>4 DEF Matches
  <2>2. f[n] \in Nat
    BY <2>1 DEF TypeOK
  <2>3. ASSUME f[n] >= q + 1 PROVE FALSE
    <3>1. PICK m \in Nat : m = f[n]
      BY <2>2
    <3>2. SIZE * m >= SIZE * (q + 1)
      BY <3>1, <2>3, Sizes
    <3>3. SIZE * (q + 1) = SIZE * q + SIZE /\ SIZE * q \in Nat /\ SIZE * m \in Nat
      BY Multiples
    <3> QED BY <3>1, <3>2, <3>3, <2>1, Sizes
  <2> QED BY <2>1, <2>2, <2>3
<1>7. g \in [DOMAIN accepted' -> DOMAIN answers']
  BY <1>1, <1>2, <1>3, <1>6
<1>8. ASSUME NEW m \in 1 .. l + 1, NEW n \in 1 .. l + 1, m < n
      PROVE  g[m] < g[n]
  <2>1. m \in 1 .. l /\ m # l + 1
    BY <1>8
  <2>2. CASE n = l + 1
    BY <2>1, <2>2, <1>6
  <2>3. CASE n # l + 1
    <3>1. n \in 1 .. l
      BY <2>3
    <3>2. f[m] < f[n]
      BY <2>1, <3>1, <1>2, <1>8 DEF Matches
    <3> QED BY <3>1, <3>2, <2>1, <2>3
  <2> QED BY <2>2, <2>3
<1>9. ASSUME NEW n \in 1 .. l + 1
      PROVE  accepted'[n] = Delivered(answers'[g[n]]) /\ SIZE * g[n] <= Whole'
  <2>1. CASE n = l + 1
    <3>1. SIZE * (q + 1) \in Nat
      BY Multiples
    <3> QED BY <3>1, <2>1, <1>1, <1>2, <1>3, <1>5
  <2>2. CASE n # l + 1
    <3>1. n \in 1 .. l /\ g[n] = f[n]
      BY <2>2
    <3>2. SIZE * f[n] <= SIZE * (q + 1)
      <4>1. PICK m \in Nat : m = f[n]
        BY <3>1, <1>6
      <4>2. SIZE * (q + 1) = SIZE * q + SIZE /\ SIZE * q \in Nat /\ SIZE * m \in Nat
        BY Multiples
      <4> QED BY <4>1, <4>2, <3>1, <1>6, Sizes
    <3> QED BY <3>1, <3>2, <1>2, <1>3, <1>5, <1>6
  <2> QED BY <2>1, <2>2
<1> HIDE DEF g
<1> QED BY <1>2, <1>7, <1>8, <1>9 DEF Matches

LEMMA StepTaken ==
    ASSUME TypeOK, TypeOK', ReadSoFar, ReadSoFar', TakenBefore, [Next]_vars
    PROVE  TakenBefore'
<1>1. Grows
  BY StepGrows
<1>2. CASE Ambiguous
  BY <1>1, <1>2, AmbiguousForGood DEF TakenBefore
<1>3. CASE ~Ambiguous
  <2>1. PICK f : Matches(f)
    BY <1>3 DEF TakenBefore
  <2>2. CASE TakeResponse
    BY <2>1, <2>2, <1>3, TakeMatches DEF TakenBefore
  <2>3. CASE ~TakeResponse
    <3>1. accepted' = accepted
      BY <2>3 DEF Next, vars, device, Read, NewTeensyDevice, TeensyCleanup, SendDrive,
                  StopRobot, ReadByte, NothingToRead, NoDescriptor, RefuseResponse,
                  ReadError, Answer, Arrive
    <3>2. Whole' >= Whole /\ Whole \in Int /\ Whole' \in Int
      BY StepWhole, WholeNumbers, WholeNext
    <3>3. Matches(f)'
      BY <1>1, <2>1, <3>1, <3>2, MatchesOn
    <3> QED BY <3>3 DEF TakenBefore
  <2> QED BY <2>2, <2>3
<1> QED BY <1>2, <1>3

\* What is taken for a response is one measurement of the Teensy, whole, as the
\* line delivers it, once and in order, wherever reads have failed before:
\* TakenBefore says with which block of the line each is matched, ReadSoFar
\* what the buffer has of the present one.
THEOREM WholeInOrder == Spec => []AcceptedInOrder
<1> DEFINE IInv == TypeOK /\ ReadSoFar /\ TakenBefore
<1>1. Init => IInv
  <2> SUFFICES ASSUME Init PROVE ReadSoFar /\ TakenBefore
    BY InitTypes
  <2>1. ReadSoFar
    BY DEF Init, ReadSoFar
  <2>2. DOMAIN accepted = {} /\ DOMAIN answers = {}
    BY DEF Init
  <2>3. Matches([n \in {} |-> 0])
    BY <2>2 DEF Matches
  <2> QED BY <2>1, <2>3 DEF TakenBefore
<1>2. IInv /\ [Next]_vars => IInv'
  BY StepTypes, StepReading, StepTaken
<1>3. IInv => AcceptedInOrder
  <2> SUFFICES ASSUME TypeOK, NEW f, Matches(f)
               PROVE  TakenFrom([n \in DOMAIN answers |-> Delivered(answers[n])])
    BY DEF TakenBefore, AcceptedInOrder
  <2> DEFINE measured == [n \in DOMAIN answers |-> Delivered(answers[n])]
  <2>1. /\ f \in [DOMAIN accepted -> DOMAIN answers]
        /\ \A m, n \in DOMAIN f : m < n => f[m] < f[n]
        /\ \A n \in DOMAIN f : accepted[n] = Delivered(answers[f[n]])
    BY DEF Matches
  <2>2. \A n \in DOMAIN f : accepted[n] = measured[f[n]]
    BY <2>1
  <2> HIDE DEF measured
  <2>3. TakenFrom(measured)
    BY <2>1, <2>2 DEF TakenFrom
  <2> QED BY <2>3 DEF measured
<1> QED BY <1>1, <1>2, <1>3, PTL DEF Spec

-----------------------------------------------------------------------------
(* Where reads begin.                                                      *)

LEMMA SameRest ==
    ASSUME NEW w \in Nat
    PROVE  (w + SIZE) % SIZE = w % SIZE
<1>1. PICK q, r \in Nat : /\ q = w \div SIZE /\ r = w % SIZE
                          /\ r \in 0 .. SIZE - 1
                          /\ w = SIZE * q + r
  <2>1. \A b \in Nat : b > 0 => /\ w \div b \in Nat /\ w % b \in 0 .. b - 1
                               /\ w = b * (w \div b) + (w % b)
    OBVIOUS
  <2> QED BY <2>1, Sizes
<1>2. SIZE * (q + 1) = SIZE * q + SIZE /\ SIZE * q \in Nat
  BY Multiples
<1>3. w + SIZE = SIZE * (q + 1) + r
  BY <1>1, <1>2, Sizes
<1>4. (SIZE * (q + 1) + r) % SIZE = r
  <2>1. q + 1 \in Nat /\ SIZE \in Nat
    BY Sizes
  <2>2. \A n \in Nat : (SIZE * n + r) % SIZE = r
    BY <1>1, <2>1, Block
  <2> QED BY <2>1, <2>2
<1> QED BY <1>1, <1>3, <1>4

\* A read that ends with all its bytes moves on by one response; one that had
\* none leaves the thread where it was.
LEMMA StepShift ==
    ASSUME TypeOK, ReadSoFar, [Next]_vars, Whole' % SIZE # Whole % SIZE
    PROVE  /\ pc = "read" /\ pc' = "write"
           /\ i \in 1 .. SIZE - 1
           /\ accepted' = accepted
<1>1. ASSUME UNCHANGED <<consumed, i>>, pc = "read" <=> pc' = "read"
      PROVE  FALSE
  BY <1>1 DEF Whole
<1>2. CASE NewTeensyDevice \/ TeensyCleanup \/ Arrive \/ (\E s \in Samples : Answer(s))
           \/ UNCHANGED vars
  BY <1>1, <1>2 DEF NewTeensyDevice, TeensyCleanup, Arrive, Answer, vars, reading
<1>3. CASE \E lin, ang \in Speeds \cup {Zero} : SendDrive(lin, ang)
  <2>1. pc = "write" /\ pc' = "read" /\ consumed' = consumed /\ i' = 0
    BY <1>3 DEF SendDrive
  <2> QED BY <2>1, Counts DEF Whole
<1>4. CASE ReadByte
  <2>1. pc = "read" /\ pc' = "read" /\ consumed' = consumed + 1 /\ i' = i + 1
    BY <1>4 DEF ReadByte
  <2>2. Whole' = Whole
    BY <2>1, Counts DEF Whole
  <2> QED BY <2>2
<1>5. CASE NothingToRead \/ NoDescriptor \/ ReadError \/ RefuseResponse \/ TakeResponse
  <2>1. pc = "read" /\ pc' = "write" /\ consumed' = consumed
    BY <1>5 DEF NothingToRead, NoDescriptor, ReadError, RefuseResponse, TakeResponse, reading
  <2>2. Whole \in Nat /\ Whole = consumed - i /\ Whole' = consumed
    BY <2>1, WholeNumbers DEF Whole
  <2>3. i # 0
    BY <2>2, Counts
  <2>4. i # SIZE
    <3>1. i = SIZE => Whole' = Whole + SIZE
      BY <2>2, Counts, Sizes
    <3> QED BY <3>1, <2>2, SameRest
  <2>5. accepted' = accepted
    BY <1>5, <2>4 DEF NothingToRead, NoDescriptor, ReadError, RefuseResponse, TakeResponse, device
  <2>6. i \in 1 .. SIZE - 1
    BY <2>3, <2>4, Counts, Sizes
  <2> QED BY <2>1, <2>5, <2>6
<1> QED BY <1>2, <1>3, <1>4, <1>5 DEF Next, Read, StopRobot

\* Only a read that is cut shifts where reads begin: complete reads, taken or
\* refused, leave the thread as much in step with the Teensy as it was.
THEOREM ShiftOnlyByCut == Spec => OnlyCutsShift
<1>1. Init => TypeOK /\ ReadSoFar
  BY InitTypes DEF Init, ReadSoFar
<1>2. TypeOK /\ ReadSoFar /\ [Next]_vars => (TypeOK /\ ReadSoFar)'
  BY StepTypes, StepReading
<1>3. TypeOK /\ ReadSoFar /\ [Next]_vars =>
          [Whole' % SIZE # Whole % SIZE =>
              /\ pc = "read" /\ pc' = "write"
              /\ i \in 1 .. SIZE - 1
              /\ accepted' = accepted]_vars
  BY StepShift
<1> QED BY <1>1, <1>2, <1>3, PTL DEF Spec, OnlyCutsShift

=============================================================================

----------------------------- MODULE SerialLine -----------------------------
(***************************************************************************)
(* serial.c: a thread drives the Teensy over a serial line, as the sender  *)
(* of KermitNetworkInterface does: a command, one attempt to read a        *)
(* response, a pause, and again. KermitKernel takes both as one step; here *)
(* the bytes arrive one by one while they are read.                        *)
(*                                                                         *)
(* The Teensy is external: it writes responses whenever it likes. No byte  *)
(* is lost on the line, but the terminal is not raw: serialport_init()     *)
(* clears IXON, IXOFF and IXANY and leaves ICRNL, which a terminal of      *)
(* Linux has from the start, so that a carriage return is read as a        *)
(* newline. Any other translation of input is off from the start.          *)
(***************************************************************************)
EXTENDS Integers, Sequences

CONSTANTS
    FloatSize,   \* sizeof(float)
    Speeds,      \* velocities that are commanded, as the bytes of a float
    Samples,     \* what the Teensy measures: the bytes of v, w, w_err and dt
    MaxLoops,    \* bound: rounds of the loop
    MaxAnswers   \* bound: responses of the Teensy

Byte == 0 .. 255

\* Characters on the line.
NUL     == 0
NEWLINE == 10
RETURN  == 13
DRIVE_COM == 100   \* 'd'
RESPONSE  == 114   \* 'r'

BUFFER_SIZE == 7 * FloatSize + 2
SIZE        == 1 + FloatSize * 4    \* of a response
COMMAND     == 1 + FloatSize * 2 + 2

ASSUME SerialAssumption ==
    /\ FloatSize \in Nat \ {0}
    /\ Speeds \subseteq [1 .. FloatSize -> Byte]
    /\ Samples \subseteq [1 .. SIZE - 1 -> Byte]
    /\ MaxLoops \in Nat /\ MaxAnswers \in Nat

VARIABLES
    fd,        \* teensy_device.fd: "none", "open", "failed" (-1) or "closed"
    leaked,    \* a descriptor was opened and is in no device
    msg,       \* the velocity in the device
    buffer,    \* the buffer that commands and responses share
    resp_msg,  \* the last response that was taken
    pc,        \* "idle", "write", "read" or "done"
    i,         \* bytes that the present read has
    loops,     \* commands so far
    answers,   \* what the Teensy wrote so far
    arrived,   \* bytes of it that arrived
    consumed,  \* bytes of it that were read
    accepted   \* responses that were taken

device  == <<fd, leaked, msg, resp_msg, accepted>>
teensy  == <<answers, arrived>>
reading == <<i, consumed, buffer>>
vars == <<device, teensy, reading, pc, loops>>

Zero == [k \in 1 .. FloatSize |-> 0]
ZeroSample == [k \in 1 .. SIZE - 1 |-> 0]

\* The bytes of the Teensy, from the first on, as it writes them.
Stream(n) ==
    LET k == (n - 1) % SIZE IN
    IF k = 0 THEN RESPONSE ELSE answers[(n - 1) \div SIZE + 1][k]

\* What read() returns of a byte that was written: ICRNL is set.
Received(b) == IF b = RETURN THEN NEWLINE ELSE b

\* A measurement as the line delivers it.
Delivered(s) == [k \in 1 .. SIZE - 1 |-> Received(s[k])]

Init ==
    /\ fd = "none"
    /\ leaked = FALSE
    /\ msg = [lin |-> Zero, ang |-> Zero]
    /\ buffer = [k \in 0 .. BUFFER_SIZE - 1 |-> NUL]
    /\ resp_msg = ZeroSample
    /\ pc = "idle"
    /\ i = 0
    /\ loops = 0
    /\ answers = <<>>
    /\ arrived = 0
    /\ consumed = 0
    /\ accepted = <<>>

\* serialport_init() may find no port, or a port with no terminal attributes:
\* that one stays open, although the device has no descriptor. The caller
\* goes on in either case.
NewTeensyDevice ==
    /\ pc = "idle"
    /\ \/ fd' = "open" /\ leaked' = FALSE
       \/ fd' = "failed" /\ leaked' \in BOOLEAN
    /\ pc' = "write"
    /\ UNCHANGED <<msg, resp_msg, accepted, teensy, reading, loops>>

\* teensy_send_data() puts the command together in the shared buffer, and has
\* no use for the result of serialport_write().
Command(lin, ang) ==
    [k \in 0 .. BUFFER_SIZE - 1 |->
        CASE k = 0                  -> DRIVE_COM
          [] k \in 1 .. FloatSize   -> lin[k]
          [] k \in FloatSize + 1 .. 2 * FloatSize -> ang[k - FloatSize]
          [] k = COMMAND - 2        -> NEWLINE
          [] k = COMMAND - 1        -> NUL
          [] OTHER                  -> buffer[k]]

SendDrive(lin, ang) ==
    /\ pc = "write"
    /\ loops < MaxLoops
    /\ msg' = [lin |-> lin, ang |-> ang]
    /\ buffer' = Command(lin, ang)
    /\ loops' = loops + 1
    /\ i' = 0
    /\ pc' = "read"
    /\ UNCHANGED <<fd, leaked, resp_msg, accepted, teensy, consumed>>

\* stop_robot() is a command with zeros.
StopRobot == SendDrive(Zero, Zero)

\* mutant of ReadByte: the loop ends one byte too late.
ReadByteTooMany ==
    /\ pc = "read" /\ fd = "open"
    /\ i <= SIZE
    /\ consumed < arrived
    /\ consumed' = consumed + 1
    /\ buffer' = [buffer EXCEPT ![i] = Received(Stream(consumed + 1))]
    /\ i' = i + 1
    /\ UNCHANGED <<device, teensy, pc, loops>>

\* One byte of serialport_read().
ReadByte ==
    /\ pc = "read" /\ fd = "open"
    /\ i < SIZE
    /\ consumed < arrived
    /\ consumed' = consumed + 1
    /\ buffer' = [buffer EXCEPT ![i] = Received(Stream(consumed + 1))]
    /\ i' = i + 1
    /\ UNCHANGED <<device, teensy, pc, loops>>

\* The only attempt finds no byte: the read fails, and what it has is gone.
NothingToRead ==
    /\ pc = "read" /\ fd = "open"
    /\ i < SIZE
    /\ consumed = arrived
    /\ pc' = "write"
    /\ i' = 0
    /\ UNCHANGED <<device, teensy, consumed, buffer, loops>>

\* The device has no descriptor.
NoDescriptor ==
    /\ pc = "read" /\ fd # "open"
    /\ pc' = "write"
    /\ UNCHANGED <<device, teensy, reading, loops>>

\* read() fails: the line was interrupted.
ReadError ==
    /\ pc = "read" /\ fd = "open"
    /\ i < SIZE
    /\ pc' = "write"
    /\ i' = 0
    /\ UNCHANGED <<device, teensy, consumed, buffer, loops>>

\* mutant of TakeResponse: whatever has the right length is a response.
TakeAnything ==
    /\ pc = "read"
    /\ i = SIZE
    /\ resp_msg' = [k \in 1 .. SIZE - 1 |-> buffer[k]]
    /\ accepted' = Append(accepted, resp_msg')
    /\ pc' = "write"
    /\ i' = 0
    /\ UNCHANGED <<fd, leaked, msg, teensy, consumed, buffer, loops>>

\* mutant of TakeResponse: the last byte is not waited for.
TakeShort ==
    /\ pc = "read"
    /\ i >= SIZE - 1
    /\ buffer[0] = RESPONSE
    /\ resp_msg' = [k \in 1 .. SIZE - 1 |-> buffer[k]]
    /\ accepted' = Append(accepted, resp_msg')
    /\ pc' = "write"
    /\ i' = 0
    /\ UNCHANGED <<fd, leaked, msg, teensy, consumed, buffer, loops>>

TakeResponse ==
    /\ pc = "read"
    /\ i = SIZE
    /\ buffer[0] = RESPONSE
    /\ resp_msg' = [k \in 1 .. SIZE - 1 |-> buffer[k]]
    /\ accepted' = Append(accepted, resp_msg')
    /\ pc' = "write"
    /\ i' = 0
    /\ UNCHANGED <<fd, leaked, msg, teensy, consumed, buffer, loops>>

\* The bytes do not begin a response; the read is a success all the same.
RefuseResponse ==
    /\ pc = "read"
    /\ i = SIZE
    /\ buffer[0] # RESPONSE
    /\ pc' = "write"
    /\ i' = 0
    /\ UNCHANGED <<device, teensy, consumed, buffer, loops>>

\* The thread has ended: the descriptor is closed.
TeensyCleanup ==
    /\ pc = "write"
    /\ fd' = "closed"
    /\ pc' = "done"
    /\ UNCHANGED <<leaked, msg, resp_msg, accepted, teensy, reading, loops>>

-----------------------------------------------------------------------------
(* The Teensy.                                                             *)

Answer(s) ==
    /\ fd = "open"
    /\ Len(answers) < MaxAnswers
    /\ answers' = Append(answers, s)
    /\ UNCHANGED <<device, arrived, reading, pc, loops>>

Arrive ==
    /\ arrived < SIZE * Len(answers)
    /\ arrived' = arrived + 1
    /\ UNCHANGED <<device, answers, reading, pc, loops>>

-----------------------------------------------------------------------------

Read == ReadByte \/ NothingToRead \/ NoDescriptor \/ TakeResponse \/ RefuseResponse

Next ==
    \/ NewTeensyDevice \/ TeensyCleanup
    \/ \E lin, ang \in Speeds : SendDrive(lin, ang)
    \/ StopRobot
    \/ Read \/ ReadError
    \/ \E s \in Samples : Answer(s)
    \/ Arrive

Spec == Init /\ [][Next]_vars

-----------------------------------------------------------------------------
(* Properties.                                                             *)

\* Type correctness: the bytes of a response are within the buffer.
TypeOK ==
    /\ fd \in {"none", "open", "failed", "closed"}
    /\ leaked \in BOOLEAN /\ (leaked => fd \in {"failed", "closed"})
    /\ msg \in [lin : Speeds \cup {Zero}, ang : Speeds \cup {Zero}]
    /\ buffer \in [0 .. BUFFER_SIZE - 1 -> Byte]
    /\ resp_msg \in [1 .. SIZE - 1 -> Byte]
    /\ pc \in {"idle", "write", "read", "done"}
    /\ i \in 0 .. SIZE
    /\ loops \in 0 .. MaxLoops
    /\ answers \in Seq(Samples)
    /\ arrived \in 0 .. SIZE * Len(answers)
    /\ consumed \in 0 .. arrived
    /\ accepted \in Seq([1 .. SIZE - 1 -> Byte])

\* A byte of the measurements that reads as the first of a response.
Ambiguous == \E n \in DOMAIN answers, k \in 1 .. SIZE - 1 : answers[n][k] = RESPONSE

\* The responses that were taken are some of these measurements, each at most
\* once and in the order in which the Teensy wrote them.
TakenFrom(measured) ==
    \E f \in [DOMAIN accepted -> DOMAIN answers] :
        /\ \A m, n \in DOMAIN f : m < n => f[m] < f[n]
        /\ \A n \in DOMAIN f : accepted[n] = measured[f[n]]

\* As long as no measurement has a byte 'r', what is taken for a response is
\* one whole measurement of the Teensy, as the line delivers it, and none is
\* taken twice or out of order, though reads that failed have eaten parts of
\* others (serial.c tells where a response begins by its first byte alone).
AcceptedInOrder ==
    Ambiguous \/ TakenFrom([n \in DOMAIN answers |-> Delivered(answers[n])])

\* "make raw" (serial.c:80): the terminal passes bytes as they are, so that the
\* measurements that are taken are those that the Teensy made. The code does
\* not keep this: a byte 13 of a float is read as 10.
AcceptedAsWritten == Ambiguous \/ TakenFrom(answers)

\* The bytes that reads that have ended, good or bad, have used up.
Whole == IF pc = "read" THEN consumed - i ELSE consumed

\* Only a read that is given up in the middle of a response shifts where the
\* next reads begin, and it yields nothing. So the thread that once is in step
\* with the Teensy stays so as long as no read is cut, and once it is out of
\* step it takes another cut to bring it back: responses that are refused
\* never do (serial.c neither drops the rest nor looks for the next 'r').
OnlyCutsShift ==
    [][Whole' % SIZE # Whole % SIZE =>
           /\ pc = "read" /\ pc' = "write"
           /\ i \in 1 .. SIZE - 1
           /\ accepted' = accepted]_vars

=============================================================================

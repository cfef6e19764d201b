--------------------------- MODULE RobotMessages ---------------------------
(***************************************************************************)
(* rmt_messages.c: the messages of the robot, data messages whose elements *)
(* have fixed places. create_...() adds the elements and looks up where    *)
(* their data is (indexes); ..._to_wire() and ..._from_wire() copy members *)
(* from and to these places and do not look at the message again.          *)
(*                                                                         *)
(* A float v is four bytes that are all v; the cells of one that was put   *)
(* together from two others read as Torn. A message is a record of its     *)
(* buffer and its indexes, a function from member names to places.         *)
(***************************************************************************)
EXTENDS DataBuffer

\* The largest messages have five elements of four bytes.
ASSUME RoomAssumption == MessageSize > DATA_HEADER_SIZE + 5 * 7 /\ MaxFields > 5

Torn == 256

FloatBytes(v) == [k \in 0 .. 3 |-> v]

IntBytes(n) == [k \in 0 .. 3 |-> IF k = 0 THEN n ELSE 0]

Float(data, at) ==
    IF \A k \in 1 .. 3 : Cell(data, at + k) = Cell(data, at)
    THEN Cell(data, at) ELSE Torn

Int32(data, at) ==
    IF \A k \in 1 .. 3 : Cell(data, at + k) = 0 THEN Cell(data, at) ELSE Torn

\* Four bytes over whatever is there.
Store(data, at, bytes) ==
    [k \in DOMAIN data |-> IF k \in at .. at + 3 THEN bytes[k - at] ELSE data[k]]

\* A zero float with num as its size, and n of them with the right one.
AddFloat(b, num) ==
    serialize_data(b, [k \in 0 .. 15 |-> 0], num, FLOAT)

AddFloats(b, n) ==
    LET added[i \in 0 .. n] == IF i = 0 THEN b ELSE AddFloat(added[i - 1], 4)
    IN added[n]

\* The place get_data() finds for an element.
Place(b, index) == get_data(b.data, index).data

With(f, member, value) ==
    [m \in DOMAIN f \cup {member} |-> IF m = member THEN value ELSE f[m]]

\* elements says which element of the message a member is.
Message(b, elements) ==
    [buff |-> to_wire(b),
     indexes |-> [m \in DOMAIN elements |-> Place(to_wire(b), elements[m])]]

create_cmd_vel ==
    Message(AddFloats(create_buffer, 2), [lin |-> 0, ang |-> 1])

\* The angular velocity has the size of an int16_t and the type of a float.
create_teensy_msg ==
    Message(AddFloat(AddFloat(create_buffer, 4), 2), [lin |-> 0, ang |-> 1])

\* mutant of create_path_state: a place of its own is forgotten for w, too.
path_state_without_w ==
    LET msg == Message(AddFloats(create_buffer, 5),
                       [x |-> 0, y |-> 1, theta |-> 2, v |-> 3])
    IN [msg EXCEPT !.indexes = With(@, "w", PROTPOS)]

create_path_state ==
    Message(AddFloats(create_buffer, 5),
            [x |-> 0, y |-> 1, theta |-> 2, v |-> 3, w |-> 4])

\* Sensor messages begin with their type.
TEENSY_MSG == 1
CAMERA_MESSAGE == 2

AddType(b) == serialize_data(b, [k \in 0 .. 15 |-> 0], 4, INT32)

create_sensor_msg == Message(AddType(create_buffer), [type |-> 0])

SensorMessage(n, elements) ==
    Message(AddFloats(AddType(create_buffer), n), With(elements, "type", 0))

create_teensy_sensor_array ==
    SensorMessage(3, [v |-> 1, w |-> 2, dt |-> 3])

\* indexes[3], the place of dt, is never set: dt is kept in the header.
create_camera_msg ==
    LET msg == SensorMessage(4, [x |-> 1, y |-> 2, theta |-> 3])
    IN [msg EXCEPT !.indexes = With(@, "dt", PROTPOS)]

-----------------------------------------------------------------------------

\* The floats in values to their places, which do not overlap.
members_to_wire(data, indexes, values) ==
    LET here(k) == {m \in DOMAIN values : k \in indexes[m] .. indexes[m] + 3}
    IN [k \in DOMAIN data |->
          IF here(k) = {} THEN data[k]
          ELSE values[CHOOSE m \in here(k) : TRUE]]

\* cmd_vel_to_wire(), teensy_msg_to_wire(), path_state_to_wire().
message_to_wire(msg, values) ==
    [msg EXCEPT !.buff.data = members_to_wire(@, msg.indexes, values)]

\* teensy_sensor_array_to_wire(), camera_msg_to_wire(): the type, too.
sensor_to_wire(msg, type, values) ==
    [msg EXCEPT !.buff.data =
        members_to_wire(Store(@, msg.indexes.type, IntBytes(type)),
                        msg.indexes, values)]

\* The bytes that are sent: byte_length of them.
Wire(msg) == [k \in 0 .. msg.buff.byte_length - 1 |-> msg.buff.data[k]]

\* ..._from_wire(), of a message that has the right type.
message_from_wire(msg, data) ==
    [m \in DOMAIN msg.indexes \ {"type"} |-> Float(data, msg.indexes[m])]

\* sensor_msg_from_wire() answers -1 to any other type.
sensor_msg_from_wire(msg, data) == Int32(data, msg.indexes.type)

=============================================================================

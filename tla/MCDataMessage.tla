--------------------------- MODULE MCDataMessage ----------------------------
(* Instances of DataMessage for TLC.                                        *)
EXTENDS DataMessage

\* n bytes at the value, and 7 behind it that are not its own.
Memory(first, n) ==
    [k \in 0 .. WordCopied(n) + 7 |-> IF k = 0 THEN first
                                      ELSE IF k < n THEN 0 ELSE 200]

Item(type, n, first) == [src |-> Memory(first, n), num |-> n, type |-> type]

\* A value of every way of copying and of every type that is copied by its
\* width; of the 64 bit integers, one the code copies by bytes and one that it
\* copies by words. Two have a size that is not the width of their type: the
\* angular velocity of teensy_msg, a float that is given the size of an
\* int16_t, and a bool of one byte.
MCItems == {Item(FLOAT, 4, 7), Item(INT32, 4, 7), Item(UINT32, 4, 7),
            Item(CHAR, 1, 5), Item(UINT8, 1, 5), Item(INT8, 1, 5),
            Item(BYTE_TYPE, 1, 5), Item(INT16, 2, 9), Item(BOOL, 2, 1),
            Item(UINT64, 8, 77), Item(UINT64, 8, 1), Item(STRING_, 3, 65),
            Item(STRING_, 0, 65), Item(FLOAT, 2, 3), Item(BOOL, 1, 1)}

=============================================================================

------------------------------- MODULE Formats -------------------------------
(***************************************************************************)
(* The formats of values on the wire, in both directions, and in memory:   *)
(* the FOURD types (src/lib4d_sql/fourd.h), vk_sizeof (fourd_type.c), and  *)
(* what socket_receiv_data (communication.c) reads for each type.          *)
(***************************************************************************)
EXTENDS Integers, Sequences

Small == {"VK_BOOLEAN", "VK_BYTE", "VK_WORD"}
Large == {"VK_LONG8", "VK_REAL", "VK_DURATION"}
Binary == {"VK_BLOB", "VK_IMAGE"}
Known == Small \union Large \union Binary
         \union {"VK_LONG", "VK_TIMESTAMP", "VK_FLOAT", "VK_STRING"}
Varying == Binary \union {"VK_FLOAT", "VK_STRING"}

(* The fields of a value but for its variable data, by their sizes.  The   *)
(* last one of a varying type is the length of the data.                   *)
Parts(t) ==
    CASE t \in Small -> <<2>>
      [] t \in Large -> <<8>>
      [] t = "VK_LONG" -> <<4>>
      [] t = "VK_TIMESTAMP" -> <<2, 1, 1, 4>>
      [] t = "VK_FLOAT" -> <<4, 1, 4>>
      [] OTHER -> <<4>>

(* vk_sizeof, or the size of the C structure.                              *)
StructSize(t) ==
    CASE t \in Small -> 2 [] t = "VK_LONG" -> 4 [] t = "VK_FLOAT" -> 24
      [] t \in Binary \union {"VK_STRING"} -> 16 [] OTHER -> 8

(* A string's data is two bytes per unit, and two more in memory.          *)
DataBytes(t, n) == IF t = "VK_STRING" THEN 2 * n ELSE n
DataSizeWithoutNul(t, n) == DataBytes(t, n)                   \* mutant of DataSize
DataSize(t, n) == IF t = "VK_STRING" THEN 2 * n + 2 ELSE n

(* The length as it is written: strings have theirs negated.               *)
Written(t, n) == IF t = "VK_STRING" THEN -n ELSE n

(* A field: so many bytes, and what they say.                              *)
Field(n, v) == [n |-> n, v |-> v]

(* A value on the wire: len is the length that is announced, if its type   *)
(* varies, v what its fields say and data what its data holds.             *)
ValueFields(t, len, v, data) ==
    LET sizes == Parts(t)
        parts == [i \in 1 .. Len(sizes) |->
                     Field(sizes[i], IF t \in Varying /\ i = Len(sizes) THEN len ELSE v)]
        n == DataBytes(t, Written(t, len))
    IN  parts \o IF t \in Varying /\ n > 0 THEN <<Field(n, data)>> ELSE <<>>

=============================================================================

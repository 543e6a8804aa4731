------------------------------ MODULE MCRowData ------------------------------
(* Pages of up to two rows of one or two columns, of every format there    *)
(* is.  Four units of a string fill the arena's rounding, so that its NULs *)
(* need bytes of their own, and six bytes do not; a chunk holds a few      *)
(* small values and less than the longest.                                 *)
EXTENDS RowData

MCSchemas == {<<>>, <<"VK_WORD">>, <<"VK_UNKNOW">>, <<"VK_STRING", "VK_LONG">>,
              <<"VK_BLOB", "VK_STRING">>, <<"VK_FLOAT", "VK_TIMESTAMP">>,
              <<"VK_REAL", "VK_IMAGE">>}
MCIntMin == -8
==============================================================================

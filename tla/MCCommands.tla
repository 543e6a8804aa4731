----------------------------- MODULE MCCommands -----------------------------
(* One connection over two descriptors, which the rest of the process uses *)
(* too: it may come to have the number that the connection has lost.       *)
EXTENDS Commands

MCErrorCodes == {-5001}
MCRowCounts == {-1, 3}
==============================================================================

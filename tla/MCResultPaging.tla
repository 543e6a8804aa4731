--------------------------- MODULE MCResultPaging ---------------------------
(* Two cursors' results on one connection, of no row or of four, in pages  *)
(* of one or, by default, three: the first, a middle, the last, a short    *)
(* and an empty page all occur, and the counters stay clear of Wrap only   *)
(* when they are right.                                                    *)
EXTENDS ResultPaging

CONSTANTS r1, r2
=============================================================================

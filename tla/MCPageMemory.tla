---------------------------- MODULE MCPageMemory ----------------------------
(* The two FOURD_RESULTs hold ten blocks at most: malloc always finds one, *)
(* and only the failures that the code provides for happen.                *)
EXTENDS PageMemory, Integers

MCBlocks == 1 .. 10
=============================================================================

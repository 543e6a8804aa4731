----------------------------- MODULE MCSession -----------------------------
(* A session with one or two cursors besides the private one.  Each cursor *)
(* holds at most a result and a statement, so that twice as many blocks as *)
(* cursors are enough: malloc always finds one.                            *)
EXTENDS Session, TLC

CONSTANTS c1, c2, p

UserSymmetry == Permutations(Users)
=============================================================================

------------------------------ MODULE RowStream ------------------------------
(***************************************************************************)
(* What a cursor promises the application: fetchone() gives the rows of    *)
(* the result one after the other, then None, and None only once all of    *)
(* them have been given.  A fetch that raises instead voids the promise    *)
(* for this result, until the next execute(), and so does one that fails   *)
(* without an error code, which may pass for the end of the rows.          *)
(***************************************************************************)
EXTENDS Integers

CONSTANTS Results,        \* the open cursors' results
          RowCounts       \* how many rows a statement may select

VARIABLES count,          \* rows of each result
          given,          \* rows fetchone() has returned
          void,           \* a fetch of this result has not kept the promise
          told            \* what the last fetch of each result said

vars == <<count, given, void, told>>

Init ==
    /\ count = [r \in Results |-> 0]
    /\ given = [r \in Results |-> 0]
    /\ void = [r \in Results |-> FALSE]
    /\ told = [r \in Results |-> "none"]

Open(r) ==
    /\ \E n \in RowCounts : count' = [count EXCEPT ![r] = n]
    /\ given' = [given EXCEPT ![r] = 0]
    /\ void' = [void EXCEPT ![r] = FALSE]
    /\ told' = [told EXCEPT ![r] = "none"]

Give(r) ==
    /\ given[r] < count[r]
    /\ given' = [given EXCEPT ![r] = @ + 1]
    /\ told' = [told EXCEPT ![r] = "row"]
    /\ UNCHANGED <<count, void>>

End(r) ==
    /\ given[r] = count[r]
    /\ told' = [told EXCEPT ![r] = "end"]
    /\ UNCHANGED <<count, given, void>>

Fail(r) ==
    /\ void' = [void EXCEPT ![r] = TRUE]
    /\ told' = [told EXCEPT ![r] = "error"]
    /\ UNCHANGED <<count, given>>

FailSilently(r) ==
    /\ void' = [void EXCEPT ![r] = TRUE]
    /\ told' = [told EXCEPT ![r] = "end"]
    /\ UNCHANGED <<count, given>>

(* After that, fetchone() may say anything.                                *)
Anything(r) ==
    /\ void[r]
    /\ \E t \in {"row", "end", "error"} : told' = [told EXCEPT ![r] = t]
    /\ given' \in [Results -> Nat]
    /\ \A s \in Results \ {r} : given'[s] = given[s]
    /\ UNCHANGED <<count, void>>

Next ==
    \E r \in Results :
        Open(r) \/ Give(r) \/ End(r) \/ Fail(r) \/ FailSilently(r) \/ Anything(r)

Spec == Init /\ [][Next]_vars

==============================================================================

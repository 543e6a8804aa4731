----------------------------- MODULE PageMemory -----------------------------
(***************************************************************************)
(* Who owns the memory of a result: fourd_exec_statement and               *)
(* _prepare_statement allocate a FOURD_RESULT and free it when the command *)
(* fails (src/lib4d_sql/fourd.c, fourd_interne.c); _fetch_result loads the *)
(* next page into a second one, nRes, which shares the column metadata,    *)
(* swaps the two pages and frees what is left of nRes; fourd_free_result   *)
(* frees the rest.  A response is received in steps, each of which         *)
(* allocates and may fail: its header (socket_receiv_header), the columns  *)
(* the header describes (traite_header_response), the table of elements    *)
(* and the arena their values lie in (socket_receiv_data).                 *)
(***************************************************************************)
CONSTANTS Blocks,         \* what malloc may return
          NULL

ASSUME NULLAssumption == NULL \notin Blocks

Holders == {"res", "nRes"}
Fields == {"self", "header", "Column", "elmt", "arena"}

VARIABLES at,             \* the pointers of the two FOURD_RESULTs
          values,         \* the arena a table of elements points into
          live,           \* the blocks allocated
          command,        \* the command that runs: "prepare", "execute", "fetch"
          pc              \* "idle", or how far its response has been received

vars == <<at, values, live, command, pc>>

Nothing == [f \in Fields |-> NULL]

Init ==
    /\ at = [h \in Holders |-> Nothing]
    /\ values = [b \in Blocks |-> NULL]
    /\ live = {}
    /\ command = "none"
    /\ pc = "idle"

(* The FOURD_RESULT that the response is received into.                    *)
State == IF command = "fetch" THEN "nRes" ELSE "res"

(* malloc: a block that is not allocated, possibly one freed before.       *)
New == CHOOSE b \in Blocks : b \notin live
Malloc == live # Blocks /\ live' = live \union {New}

(* Field f of the FOURD_RESULT being filled gets a block of its own.       *)
Allocate(f) ==
    /\ Malloc
    /\ at' = [at EXCEPT ![State][f] = New]

(* fourd_exec_statement and _prepare_statement, with a fresh result.       *)
Begin ==
    /\ pc = "idle"
    /\ at["res"] = Nothing
    /\ command' \in {"prepare", "execute"}
    /\ Malloc
    /\ at' = [at EXCEPT !["res"]["self"] = New]
    /\ pc' = "header"
    /\ UNCHANGED values

(* _fetch_result: nRes starts out with res's row_type.                     *)
BeginFetchWithRes ==                                     \* mutant of BeginFetch
    /\ pc = "idle"
    /\ at["res"] # Nothing
    /\ command' = "fetch"
    /\ Malloc
    /\ at' = [at EXCEPT !["nRes"] = [at["res"] EXCEPT !["self"] = New]]
    /\ pc' = "header"
    /\ UNCHANGED values
BeginFetch ==
    /\ pc = "idle"
    /\ at["res"] # Nothing
    /\ command' = "fetch"
    /\ Malloc
    /\ at' = [at EXCEPT !["nRes"] =
                 [Nothing EXCEPT !["self"] = New, !["Column"] = at["res"]["Column"]]]
    /\ pc' = "header"
    /\ UNCHANGED values

-----------------------------------------------------------------------------
(* Receiving the response                                                  *)

Fail ==
    /\ pc \in {"header", "columns", "data", "values"}
    /\ pc' = "failed"
    /\ UNCHANGED <<at, values, live, command>>

ReceiveHeader ==
    /\ pc = "header"
    /\ Allocate("header")
    /\ pc' = "columns"
    /\ UNCHANGED <<values, command>>

(* With a Column-Count, the header brings its own columns; an error in it  *)
(* may be found before or after them.                                      *)
ParseColumns ==
    /\ pc = "columns"
    /\ Allocate("Column")
    /\ pc' \in {"data", "failed"}
    /\ UNCHANGED <<values, command>>

ParseNoColumns ==
    /\ pc = "columns"
    /\ pc' = "data"
    /\ UNCHANGED <<at, values, live, command>>

(* An update count, no columns or no rows: there is no table.              *)
ReceiveNoData ==
    /\ pc = "data"
    /\ pc' = "loaded"
    /\ UNCHANGED <<at, values, live, command>>

ReceiveDataUnchecked ==                                 \* mutant of ReceiveData
    /\ pc = "data"
    /\ Allocate("elmt")
    /\ values' = [values EXCEPT ![New] = NULL]
    /\ pc' = "values"
    /\ UNCHANGED command
ReceiveData ==
    /\ pc = "data"
    /\ at[State]["Column"] # NULL
    /\ Allocate("elmt")
    /\ values' = [values EXCEPT ![New] = NULL]
    /\ pc' = "values"
    /\ UNCHANGED command

(* Values other than NULL are put into the arena.                          *)
ReceiveValues ==
    /\ pc = "values"
    /\ at[State]["arena"] = NULL
    /\ Allocate("arena")
    /\ values' = [values EXCEPT ![at[State]["elmt"]] = New]
    /\ UNCHANGED <<pc, command>>

ReceiveLast ==
    /\ pc = "values"
    /\ pc' = "loaded"
    /\ UNCHANGED <<at, values, live, command>>

-----------------------------------------------------------------------------
(* What becomes of it                                                      *)

Pointers(r) == {r[f] : f \in Fields} \ {NULL}

(* _free_data_result: the arena with all values in it, then the table.     *)
Page(r) == {r["elmt"], r["arena"]}

(* nRes's columns, unless they are res's.                                  *)
OwnColumnsNever(r) == {}                                \* mutant of OwnColumns
OwnColumns(r) == IF r["Column"] # at["res"]["Column"] THEN {r["Column"]} ELSE {}

Dropped(r) == OwnColumns(r) \union Page(r) \union {r["header"], r["self"]}

(* fourd_free_result.                                                      *)
FreedKeepsHeader(r) == Pointers(r) \ {r["header"]}           \* mutant of Freed
Freed(r) == Pointers(r)

FreeRes ==
    /\ live' = live \ Freed(at["res"])
    /\ at' = [at EXCEPT !["res"] = Nothing]

Return ==
    /\ pc' = "idle"
    /\ command' = "none"

ExecuteReturns ==
    /\ pc = "loaded"
    /\ command = "execute"
    /\ Return
    /\ UNCHANGED <<at, values, live>>

PrepareReturns ==
    /\ pc \in {"loaded", "failed"}
    /\ command = "prepare"
    /\ FreeRes
    /\ Return
    /\ UNCHANGED values

ExecuteFails ==
    /\ pc = "failed"
    /\ command = "execute"
    /\ FreeRes
    /\ Return
    /\ UNCHANGED values

(* The page just loaded becomes res's, the old one goes with nRes.         *)
SwappedElements(r, n) == [r EXCEPT !["elmt"] = n["elmt"]]  \* mutant of Swapped
Swapped(r, n) == [r EXCEPT !["elmt"] = n["elmt"], !["arena"] = n["arena"]]

FetchReturns ==
    /\ pc = "loaded"
    /\ command = "fetch"
    /\ at' = [at EXCEPT !["res"] = Swapped(at["res"], at["nRes"]), !["nRes"] = Nothing]
    /\ live' = live \ Dropped(Swapped(at["nRes"], at["res"]))
    /\ Return
    /\ UNCHANGED values

FetchFails ==
    /\ pc = "failed"
    /\ command = "fetch"
    /\ at' = [at EXCEPT !["nRes"] = Nothing]
    /\ live' = live \ Dropped(at["nRes"])
    /\ Return
    /\ UNCHANGED values

(* The cursor frees its result.                                            *)
FreeResult ==
    /\ pc = "idle"
    /\ at["res"] # Nothing
    /\ FreeRes
    /\ UNCHANGED <<values, command, pc>>

Next ==
    \/ Begin \/ BeginFetch \/ Fail
    \/ ReceiveHeader \/ ParseColumns \/ ParseNoColumns \/ ReceiveNoData
    \/ ReceiveData \/ ReceiveValues \/ ReceiveLast
    \/ ExecuteReturns \/ PrepareReturns \/ ExecuteFails
    \/ FetchReturns \/ FetchFails \/ FreeResult

Spec == Init /\ [][Next]_vars

-----------------------------------------------------------------------------
TypeOK ==
    /\ at \in [Holders -> [Fields -> Blocks \union {NULL}]]
    /\ values \in [Blocks -> Blocks \union {NULL}]
    /\ live \subseteq Blocks
    /\ command \in {"none", "prepare", "execute", "fetch"}
    /\ pc \in {"idle", "header", "columns", "data", "values", "loaded", "failed"}
    /\ pc = "idle" <=> command = "none"
    /\ pc = "values" => at[State]["Column"] # NULL /\ at[State]["elmt"] # NULL

(* Nothing leaks and nothing dangles: at every moment the blocks allocated *)
(* are those a FOURD_RESULT points to (README, "response header + column   *)
(* metadata leaked on every FETCH-RESULT page").                           *)
NoLeakNoDangling == Pointers(at["res"]) \union Pointers(at["nRes"]) = live

(* A block has one owner, but for the columns that nRes borrows from res   *)
(* while it is filled.                                                     *)
OneOwner ==
    \A h, k \in Holders, f, g \in Fields :
        at[h][f] = at[k][g] /\ at[h][f] # NULL =>
            \/ h = k /\ f = g
            \/ h # k /\ f = "Column" /\ g = "Column"

(* The values of the page at hand lie in the arena that is freed with it.  *)
ValuesAreInTheirArena ==
    \A h \in Holders :
        at[h]["elmt"] # NULL => values[at[h]["elmt"]] = at[h]["arena"]

=============================================================================

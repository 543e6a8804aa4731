---------------------------- MODULE ResultPaging ----------------------------
(***************************************************************************)
(* The rows of the results open on one connection: fourd_next_row          *)
(* (src/lib4d_sql/fourd.c) advances a result's row number, _fetch_result   *)
(* (src/lib4d_sql/fourd_interne.c) asks the server for the next page when  *)
(* the row is past the page held in memory, and the cursor's fetchone      *)
(* (src/p4d/p4d.py) tells rows, end and errors apart by the return value   *)
(* and by the connection's error_code, which all the results share.        *)
(*                                                                         *)
(* The counters are C's unsigned int, of which there are Wrap values.  A   *)
(* request and its response are one step: nothing else runs on the         *)
(* connection between them.                                                *)
(***************************************************************************)
EXTENDS Integers

CONSTANTS Results,        \* the open cursors' results
          RowCounts,      \* what Row-Count may be
          PageSizes,      \* page_size; 0 stands for the default
          DefaultPage,    \* _fetch_result's page when page_size is 0
          ErrorCodes,     \* the codes a failed command may leave
          Wrap,           \* 2^32
          MaxPastEnd      \* bound: calls made past the last row

ASSUME CountsAssumption ==
    /\ Wrap \in Nat /\ Wrap > 2
    /\ RowCounts \subseteq Nat /\ PageSizes \subseteq Nat
    /\ MaxPastEnd \in Nat /\ MaxPastEnd + 1 < Wrap
    /\ DefaultPage \in Nat \ {0} /\ 2 * DefaultPage < Wrap
    /\ \A n \in PageSizes : 2 * n < Wrap
    /\ \A n \in RowCounts : 2 * n < Wrap /\ n + MaxPastEnd + 1 < Wrap

ASSUME ServerAssumption == ErrorCodes \subseteq Int \ {0}

VARIABLES numRow,         \* res->numRow
          row_count,      \* res->row_count
          row_count_sent, \* res->row_count_sent
          first_row,      \* res->first_row
          page_size,      \* res->page_size
          error_code,     \* cnx->error_code
          told,           \* what the last fetchone said: a row, the end, an error
          given,          \* history: rows fetchone has returned
          failed,         \* history: page loads of this result that failed
          empty,          \* history: pages of it that came without a row
          codeless,       \* history: a load has failed without an error code
          void            \* history: a fetchone of this result has raised

result == <<numRow, row_count, row_count_sent, first_row, page_size>>
history == <<given, failed, empty, codeless, void>>
vars == <<result, error_code, told, history>>

(* unsigned int arithmetic on operands below Wrap.                         *)
Plus(a, b) == IF a + b >= Wrap THEN a + b - Wrap ELSE a + b
MinusSigned(a, b) == a - b                                    \* mutant of Minus
Minus(a, b) == IF a >= b THEN a - b ELSE a - b + Wrap

(* The row number of a fresh result, -1: the first fetch moves it to row 0. *)
BeforeFirstRowZeroed == 0                            \* mutant of BeforeFirstRow
BeforeFirstRow == Minus(0, 1)

MinOf(a, b) == IF a < b THEN a ELSE b

Init ==
    /\ numRow = [r \in Results |-> BeforeFirstRow]
    /\ row_count = [r \in Results |-> 0]
    /\ row_count_sent = [r \in Results |-> 0]
    /\ first_row = [r \in Results |-> 0]
    /\ page_size = [r \in Results |-> 0]
    /\ error_code = 0
    /\ told = [r \in Results |-> "none"]
    /\ given = [r \in Results |-> 0]
    /\ failed = [r \in Results |-> 0]
    /\ empty = [r \in Results |-> 0]
    /\ codeless = [r \in Results |-> FALSE]
    /\ void = [r \in Results |-> FALSE]

(* fourd_exec_statement: a fresh result with its first page, in which the  *)
(* server puts as many rows as it likes, none too, of those asked for.     *)
Execute(r) ==
    /\ \E n \in RowCounts, p \in PageSizes :
          /\ row_count' = [row_count EXCEPT ![r] = n]
          /\ page_size' = [page_size EXCEPT ![r] = p]
          /\ \E k \in 0 .. MinOf(n, IF p > 0 THEN p ELSE DefaultPage) :
                /\ row_count_sent' = [row_count_sent EXCEPT ![r] = k]
                /\ empty' = [empty EXCEPT ![r] = IF k = 0 THEN 1 ELSE 0]
    /\ first_row' = [first_row EXCEPT ![r] = 0]
    /\ numRow' = [numRow EXCEPT ![r] = BeforeFirstRow]
    /\ error_code' = 0
    /\ told' = [told EXCEPT ![r] = "none"]
    /\ given' = [given EXCEPT ![r] = 0]
    /\ failed' = [failed EXCEPT ![r] = 0]
    /\ codeless' = [codeless EXCEPT ![r] = FALSE]
    /\ void' = [void EXCEPT ![r] = FALSE]

(* A command of the connection that the server refuses, or that loses the  *)
(* connection, leaves its code behind (a commit, another cursor's execute).*)
OtherCommandFails ==
    /\ \E e \in ErrorCodes : error_code' = e
    /\ UNCHANGED <<result, told, history>>

Tell(r, what) == told' = [told EXCEPT ![r] = what]

(* fetchone's answer when fourd_next_row returns 1.                        *)
GiveRow(r) ==
    /\ Tell(r, "row")
    /\ given' = [given EXCEPT ![r] = @ + 1]
    /\ UNCHANGED void

(* fetchone's answer when it returns 0: an error if fourd_errno, e, is one.*)
NoRowIsEnd(r, e) == Tell(r, "end") /\ UNCHANGED <<void, given>>    \* mutant of NoRow
NoRow(r, e) ==
    /\ Tell(r, IF e # 0 THEN "error" ELSE "end")
    /\ void' = [void EXCEPT ![r] = @ \/ e # 0]
    /\ UNCHANGED given

NextNumRow(r) == Plus(numRow[r], 1)
AdvanceAgainOnLoad(r) ==                                    \* mutant of Advance
    LET past == NextNumRow(r) >= Plus(first_row[r], row_count_sent[r])
    IN  numRow' = [numRow EXCEPT ![r] = Plus(NextNumRow(r), IF past THEN 1 ELSE 0)]
Advance(r) == numRow' = [numRow EXCEPT ![r] = NextNumRow(r)]

IsPastEndEarly(r) == Plus(NextNumRow(r), 1) >= row_count[r] \* mutant of IsPastEnd
IsPastEnd(r) == NextNumRow(r) >= row_count[r]
IsPastPageLate(r) ==                                     \* mutant of IsPastPage
    NextNumRow(r) > Plus(first_row[r], row_count_sent[r])
IsPastPage(r) ==
    NextNumRow(r) > Minus(Plus(first_row[r], row_count_sent[r]), 1)

(* rowcount is 0: fetchone returns None without a call.                    *)
FetchNothing(r) ==
    /\ row_count[r] = 0
    /\ Tell(r, "end")
    /\ UNCHANGED <<result, error_code, history>>

FetchPastEnd(r) ==
    /\ row_count[r] > 0
    /\ IsPastEnd(r)
    /\ numRow[r] < row_count[r] + MaxPastEnd
    /\ Advance(r)
    /\ NoRow(r, error_code)
    /\ UNCHANGED <<row_count, row_count_sent, first_row, page_size>>
    /\ UNCHANGED <<error_code, failed, empty, codeless>>

FetchFromPage(r) ==
    /\ ~IsPastEnd(r) /\ ~IsPastPage(r)
    /\ Advance(r)
    /\ GiveRow(r)
    /\ UNCHANGED <<row_count, row_count_sent, first_row, page_size>>
    /\ UNCHANGED <<error_code, failed, empty, codeless>>

(* The page _fetch_result asks for: from FirstRow(r), Asked(r) rows.       *)
FirstRow(r) == Plus(first_row[r], row_count_sent[r])
LastRow(r) ==
    LET page == IF page_size[r] > 0 THEN page_size[r] ELSE DefaultPage
        last == Minus(Plus(FirstRow(r), page), 1)
    IN  IF last >= row_count[r] THEN Minus(row_count[r], 1) ELSE last
Asked(r) == Plus(Minus(LastRow(r), FirstRow(r)), 1)

FetchLoadsPage(r) ==
    /\ ~IsPastEnd(r) /\ IsPastPage(r)
    /\ \E k \in 0 .. Asked(r) :
          /\ row_count_sent' = [row_count_sent EXCEPT ![r] = k]
          /\ empty' = [empty EXCEPT ![r] = @ + IF k = 0 THEN 1 ELSE 0]
    /\ first_row' = [first_row EXCEPT ![r] = FirstRow(r)]
    /\ Advance(r)
    /\ error_code' = 0
    /\ GiveRow(r)
    /\ UNCHANGED <<row_count, page_size, failed, codeless>>

(* The command cannot be sent, is refused, or its answer is cut short or   *)
(* malformed: the row number has moved, the page has not.                  *)
FetchFails(r) ==
    /\ ~IsPastEnd(r) /\ IsPastPage(r)
    /\ \E e \in ErrorCodes : error_code' = e /\ NoRow(r, e)
    /\ Advance(r)
    /\ failed' = [failed EXCEPT ![r] = @ + 1]
    /\ UNCHANGED <<row_count, row_count_sent, first_row, page_size, empty, codeless>>

(* It fails without a code of its own: calloc of the new page's result     *)
(* fails before the error is cleared, or the header is refused for what it *)
(* says, several Result-Types or no status, and its code is 0.             *)
FetchFailsWithoutCode(r) ==
    /\ ~IsPastEnd(r) /\ IsPastPage(r)
    /\ Advance(r)
    /\ \E e \in {0, error_code} : error_code' = e /\ NoRow(r, e)
    /\ failed' = [failed EXCEPT ![r] = @ + 1]
    /\ codeless' = [codeless EXCEPT ![r] = TRUE]
    /\ UNCHANGED <<row_count, row_count_sent, first_row, page_size, empty>>

Fetch(r) ==
    \/ FetchNothing(r) \/ FetchPastEnd(r) \/ FetchFromPage(r)
    \/ FetchLoadsPage(r) \/ FetchFails(r) \/ FetchFailsWithoutCode(r)

Next == OtherCommandFails \/ \E r \in Results : Execute(r) \/ Fetch(r)

Spec == Init /\ [][Next]_vars

-----------------------------------------------------------------------------
TypeOK ==
    /\ numRow \in [Results -> 0 .. Wrap - 1]
    /\ row_count \in [Results -> RowCounts \union {0}]
    /\ row_count_sent \in [Results -> 0 .. Wrap - 1]
    /\ first_row \in [Results -> 0 .. Wrap - 1]
    /\ page_size \in [Results -> PageSizes \union {0}]
    /\ error_code \in ErrorCodes \union {0}
    /\ told \in [Results -> {"none", "row", "end", "error"}]
    /\ given \in [Results -> Nat]
    /\ failed \in [Results -> Nat]
    /\ empty \in [Results -> Nat]
    /\ codeless \in [Results -> BOOLEAN]
    /\ void \in [Results -> BOOLEAN]

(* fourd_field indexes elmt with (numRow - first_row) * nbColumn + numCol  *)
(* and checks numRow only against row_count.  Of every row fourd_next_row  *)
(* said 1 to, after failed loads and empty pages too: it is never before   *)
(* the page in memory, and beyond its end by no more places than loads     *)
(* have failed or brought no row; with none of them it is in the page.     *)
(* Only a statement whose first page is empty is left out: the end of that *)
(* page, first_row + row_count_sent - 1, wraps, and no other is asked for. *)
RowNearPage ==
    \A r \in Results : told[r] = "row" /\ FirstRow(r) > 0 =>
        /\ first_row[r] <= numRow[r]
        /\ numRow[r] - first_row[r] < row_count_sent[r] + failed[r] + empty[r]

(* fourd_field refuses a "num Row out of bounds" (fourd.c:254), and of a   *)
(* row past the page fourd_next_row says that it is "out of local          *)
(* result_set" and is to be loaded (fourd.c:197): where the server sent    *)
(* rows in every page, each row given is one that the page in memory holds.*)
EveryRowInPage ==
    \A r \in Results : told[r] = "row" /\ empty[r] = 0 =>
        /\ first_row[r] <= numRow[r]
        /\ numRow[r] - first_row[r] < row_count_sent[r]

(* The rows come in order across the pages, none twice, and none is left   *)
(* out but the one that each failed load was for.                          *)
RowsInOrder ==
    \A r \in Results : told[r] = "row" => given[r] + failed[r] = numRow[r] + 1

(* fetchone returns None once it has returned every row but those whose    *)
(* loads failed; before, only when a load has failed without a code.       *)
EndMeansAllRows ==
    \A r \in Results : told[r] = "end" =>
        \/ given[r] + failed[r] = row_count[r]
        \/ codeless[r] /\ numRow[r] < row_count[r]

(* A page load that fails raises; it is never taken for the end of the     *)
(* rows (p4d.py, the comment in fetchone), unless it leaves no error code: *)
(* no memory for a result, or a header refused for what it says, several   *)
(* Result-Types or no status.                                              *)
LoadFailureRaises ==
    \A r \in Results : failed[r] > 0 => void[r] \/ codeless[r]

(* Only a failure to load its own page makes a result's fetchone raise,    *)
(* whose pages have all had rows.                                          *)
OnlyOwnFailureRaises ==
    \A r \in Results : void[r] /\ empty[r] = 0 => failed[r] > 0

(* A cursor is the row stream that RowStream promises.                     *)
Cursor == INSTANCE RowStream WITH
    count <- row_count,
    void <- [r \in Results |-> void[r] \/ codeless[r]]

ImplementsRowStream == Cursor!Spec

=============================================================================

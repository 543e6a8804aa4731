------------------------------- MODULE Header -------------------------------
(***************************************************************************)
(* What the client makes of a response's header: get, _get_status and      *)
(* traite_header_response (src/lib4d_sql/fourd_interne.c), as functions of *)
(* the header and of the FOURD_RESULT that it is read into.                *)
(*                                                                         *)
(* A header is a status and the lines under it, each a name and a value: a *)
(* number, the columns' types, the words of a Result-Type, TRUE for a Y.   *)
(***************************************************************************)
EXTENDS Integers, Sequences

CONSTANTS MaxColumns      \* FOURD_MAX_COLUMNS

ASSUME MaxColumnsAssumption == MaxColumns \in Nat \ {0}

Line(name, value) == [name |-> name, value |-> value]

(* A FOURD_RESULT: fresh, and the one _fetch_result prepares for a page of *)
(* n rows, which borrows the columns of the result it continues.           *)
NewResult ==
    [ret |-> 0, error_code |-> 0, status |-> "OK", columns |-> <<>>, borrowed |-> FALSE,
     row_count |-> 0, row_count_sent |-> 0, id_statement |-> 0, updateability |-> FALSE,
     resultType |-> "UNKNOW"]
PageResult(types, n, y) ==
    [NewResult EXCEPT !.columns = types, !.borrowed = TRUE,
                      !.row_count_sent = n, !.updateability = y]

(* strstr finds a section's name in any line that contains it, and takes   *)
(* the first.                                                              *)
IsFoundIn(name, section) ==
    name = section \/ (name = "Row-Count-Sent" /\ section = "Row-Count")
Hits(h, section) == {i \in DOMAIN h.lines : IsFoundIn(h.lines[i].name, section)}
Has(h, section) == Hits(h, section) # {}
GetLast(h, section) ==                                           \* mutant of Get
    LET i == CHOOSE i \in Hits(h, section) : \A j \in Hits(h, section) : i >= j
    IN  h.lines[i].value
Get(h, section) ==
    LET i == CHOOSE i \in Hits(h, section) : \A j \in Hits(h, section) : i <= j
    IN  h.lines[i].value

Clamped(n) == IF n < 0 THEN 0 ELSE n

(* Without an Error-Code, what atoi is given was never written.            *)
ErrorCode(h, junk) == IF Has(h, "Error-Code") THEN Get(h, "Error-Code") ELSE junk

(* A code of 0 is no error to traite_header_response, though the status is.*)
WithStatus(h, s, junk) ==
    CASE h.status = "OK" -> [s EXCEPT !.error_code = 0, !.status = "OK"]
      [] h.status = "none" -> [s EXCEPT !.status = "ERROR", !.ret = 1]
      [] OTHER -> LET e == ErrorCode(h, junk)
                  IN  [s EXCEPT !.error_code = e, !.status = "ERROR",
                                !.ret = IF e = 0 THEN 0 ELSE 1]

(* The columns are the result's own from here on, and of no type yet.      *)
WithAnyColumns(h, s) ==                                  \* mutant of WithColumns
    IF ~Has(h, "Column-Count") THEN s
    ELSE [s EXCEPT !.columns = [i \in 1 .. Get(h, "Column-Count") |-> "VK_UNKNOW"],
                   !.borrowed = FALSE]
WithColumns(h, s) ==
    IF ~Has(h, "Column-Count") THEN s
    ELSE LET n == Get(h, "Column-Count")
         IN  IF n \in 0 .. MaxColumns
             THEN [s EXCEPT !.columns = [i \in 1 .. n |-> "VK_UNKNOW"], !.borrowed = FALSE]
             ELSE [s EXCEPT !.error_code = -1, !.status = "ERROR", !.ret = 1]

WithTypes(h, s) ==
    IF ~Has(h, "Column-Types") THEN s
    ELSE LET types == Get(h, "Column-Types")
         IN  [s EXCEPT !.columns =
                 [i \in DOMAIN @ |-> IF i \in DOMAIN types THEN types[i] ELSE @[i]]]

WithRows(h, s) ==
    LET t == IF Has(h, "Row-Count")
             THEN [s EXCEPT !.row_count = Clamped(Get(h, "Row-Count"))] ELSE s
    IN  IF Has(h, "Row-Count-Sent")
        THEN [t EXCEPT !.row_count_sent = Clamped(Get(h, "Row-Count-Sent"))] ELSE t

WithStatement(h, s) ==
    LET t == IF Has(h, "Statement-ID")
             THEN [s EXCEPT !.id_statement = Get(h, "Statement-ID")] ELSE s
    IN  IF Has(h, "Column-Updateability")
        THEN [t EXCEPT !.updateability = Get(h, "Column-Updateability")] ELSE t

(* Several types are refused, without an error code.                       *)
WithResultType(h, s) ==
    IF ~Has(h, "Result-Type") THEN s
    ELSE LET words == Get(h, "Result-Type")
         IN  IF Len(words) > 1 THEN [s EXCEPT !.ret = 1]
             ELSE [s EXCEPT !.resultType =
                      CASE words = <<"Update-Count">> -> "UPDATE_COUNT"
                        [] words = <<"Result-Set">> -> "RESULT_SET"
                        [] OTHER -> "UNKNOW"]

(* traite_header_response: ret is what it returns, the rest is the state   *)
(* as it leaves it.                                                        *)
Treated(h, s, junk) ==
    LET t == WithStatus(h, s, junk)
        u == WithColumns(h, t)
    IN  IF t.ret # 0 THEN t
        ELSE IF u.ret # 0 THEN u
        ELSE WithResultType(h, WithStatement(h, WithRows(h, WithTypes(h, u))))

=============================================================================

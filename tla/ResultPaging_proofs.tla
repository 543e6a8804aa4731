------------------------- MODULE ResultPaging_proofs -------------------------
(***************************************************************************)
(* What paging does for every number of results, rows, page sizes and      *)
(* every width of the counters, however many rows the server puts in a     *)
(* page and whichever loads fail.                                          *)
(***************************************************************************)
EXTENDS ResultPaging, TLAPS

(* The page lies within the result, and so no counter wraps around.        *)
PageWithinResult(r) ==
    /\ first_row[r] + row_count_sent[r] <= row_count[r]
    /\ numRow[r] <= row_count[r] + MaxPastEnd \/ numRow[r] = Wrap - 1

BeforeFirst(r) == numRow[r] = Wrap - 1 /\ given[r] = 0 /\ failed[r] = 0 /\ first_row[r] = 0

(* On a row, at or after the page's first and after its last by no more    *)
(* than loads have failed or come empty, unless the first page was empty.  *)
OnRow(r) ==
    /\ numRow[r] < row_count[r]
    /\ given[r] + failed[r] = numRow[r] + 1
    /\ first_row[r] + row_count_sent[r] > 0 =>
          /\ first_row[r] <= numRow[r]
          /\ numRow[r] < first_row[r] + row_count_sent[r] + failed[r] + empty[r]

AfterLast(r) ==
    /\ numRow[r] >= row_count[r] /\ given[r] + failed[r] = row_count[r]
    /\ row_count[r] > 0 => numRow[r] # Wrap - 1

(* Where a result stands, and what its last fetch said of it.              *)
Position(r) ==
    /\ BeforeFirst(r) \/ OnRow(r) \/ AfterLast(r)
    /\ told[r] = "row" => OnRow(r)
    /\ told[r] = "end" => AfterLast(r) \/ (OnRow(r) /\ codeless[r])

ResultInv(r) == PageWithinResult(r) /\ Position(r)

IInv == TypeOK /\ \A r \in Results : ResultInv(r)

-----------------------------------------------------------------------------
(* The counters of a result, as numbers.                                   *)
LEMMA CountersAreNumbers ==
    ASSUME IInv, NEW r \in Results
    PROVE  /\ numRow[r] \in 0 .. Wrap - 1 /\ row_count[r] \in Nat
           /\ row_count_sent[r] \in Nat /\ first_row[r] \in Nat
           /\ page_size[r] \in Nat /\ 2 * page_size[r] < Wrap
           /\ given[r] \in Nat /\ failed[r] \in Nat /\ empty[r] \in Nat
           /\ Wrap \in Nat /\ Wrap > 2 /\ MaxPastEnd \in Nat
           /\ 2 * row_count[r] < Wrap /\ row_count[r] + MaxPastEnd + 1 < Wrap
           /\ PageWithinResult(r)
<1>1. row_count[r] \in RowCounts \union {0} /\ page_size[r] \in PageSizes \union {0}
  BY DEF IInv, TypeOK
<1>2. /\ row_count[r] \in Nat /\ 2 * row_count[r] < Wrap
      /\ row_count[r] + MaxPastEnd + 1 < Wrap
  <2>1. CASE row_count[r] \in RowCounts
    BY <2>1, CountsAssumption
  <2>2. CASE row_count[r] = 0
    BY <2>2, CountsAssumption
  <2> QED BY <1>1, <2>1, <2>2
<1>3. page_size[r] \in Nat /\ 2 * page_size[r] < Wrap
  <2>1. CASE page_size[r] \in PageSizes
    BY <2>1, CountsAssumption
  <2>2. CASE page_size[r] = 0
    BY <2>2, CountsAssumption
  <2> QED BY <1>1, <2>1, <2>2
<1>4. /\ numRow[r] \in 0 .. Wrap - 1 /\ row_count_sent[r] \in Nat
      /\ first_row[r] \in Nat /\ given[r] \in Nat /\ failed[r] \in Nat /\ empty[r] \in Nat
  BY CountsAssumption DEF IInv, TypeOK
<1> QED BY <1>2, <1>3, <1>4, CountsAssumption DEF IInv, ResultInv


(* fourd_next_row's numRow++ and its test for a row past the page, without *)
(* the wrap-around of their unsigned arithmetic.                           *)
LEMMA NextRowArithmetic ==
    ASSUME IInv, NEW r \in Results
    PROVE  /\ NextNumRow(r) = IF numRow[r] = Wrap - 1 THEN 0 ELSE numRow[r] + 1
           /\ FirstRow(r) = first_row[r] + row_count_sent[r]
           /\ FirstRow(r) > 0 => (IsPastPage(r) <=> NextNumRow(r) >= FirstRow(r))
           /\ FirstRow(r) = 0 => ~IsPastPage(r)
<1>t. /\ numRow[r] \in 0 .. Wrap - 1 /\ row_count[r] \in Nat
      /\ row_count_sent[r] \in Nat /\ first_row[r] \in Nat
      /\ Wrap \in Nat /\ Wrap > 2 /\ 2 * row_count[r] < Wrap
      /\ first_row[r] + row_count_sent[r] <= row_count[r]
  BY CountersAreNumbers DEF PageWithinResult
<1>1. NextNumRow(r) = IF numRow[r] = Wrap - 1 THEN 0 ELSE numRow[r] + 1
  <2>1. CASE numRow[r] = Wrap - 1
    BY <1>t, <2>1 DEF NextNumRow, Plus
  <2>2. CASE numRow[r] # Wrap - 1
    BY <1>t, <2>2 DEF NextNumRow, Plus
  <2> QED BY <2>1, <2>2
<1>2. FirstRow(r) = first_row[r] + row_count_sent[r]
  BY <1>t DEF FirstRow, Plus
<1>3. Minus(FirstRow(r), 1) = IF FirstRow(r) = 0 THEN Wrap - 1 ELSE FirstRow(r) - 1
  BY <1>t, <1>2 DEF Minus
<1>4. NextNumRow(r) \in 0 .. Wrap - 1
  BY <1>t, <1>1
<1>5. IsPastPage(r) <=> NextNumRow(r) > Minus(FirstRow(r), 1)
  BY DEF IsPastPage, FirstRow
<1> HIDE DEF FirstRow
<1> QED BY <1>t, <1>1, <1>2, <1>3, <1>4, <1>5

(* _fetch_result asks for rows the result has and the page in memory does  *)
(* not: at least one, and none past row_count.                             *)
LEMMA AskedRowsExist ==
    ASSUME IInv, NEW r \in Results, ~IsPastEnd(r), IsPastPage(r)
    PROVE  /\ FirstRow(r) = first_row[r] + row_count_sent[r]
           /\ FirstRow(r) > 0 /\ FirstRow(r) <= NextNumRow(r)
           /\ Asked(r) \in Nat \ {0} /\ FirstRow(r) + Asked(r) <= row_count[r]
<1>t. /\ numRow[r] \in 0 .. Wrap - 1 /\ row_count[r] \in Nat
      /\ row_count_sent[r] \in Nat /\ first_row[r] \in Nat
      /\ page_size[r] \in Nat /\ 2 * page_size[r] < Wrap
      /\ Wrap \in Nat /\ Wrap > 2 /\ 2 * row_count[r] < Wrap
      /\ first_row[r] + row_count_sent[r] <= row_count[r]
  BY CountersAreNumbers DEF PageWithinResult
<1>1. FirstRow(r) = first_row[r] + row_count_sent[r]
  BY <1>t DEF FirstRow, Plus
<1>2. NextNumRow(r) < row_count[r] /\ NextNumRow(r) \in Nat
  BY <1>t, NextRowArithmetic DEF IsPastEnd
<1>3. /\ FirstRow(r) \in Nat /\ FirstRow(r) < row_count[r]
      /\ FirstRow(r) > 0 /\ FirstRow(r) <= NextNumRow(r)
  BY <1>t, <1>1, <1>2, NextRowArithmetic
<1> DEFINE page == IF page_size[r] > 0 THEN page_size[r] ELSE DefaultPage
           last == Minus(Plus(FirstRow(r), page), 1)
<1>4. page \in Nat \ {0} /\ 2 * page < Wrap
  BY <1>t, CountsAssumption
<1> HIDE DEF page
<1>5. Plus(FirstRow(r), page) = FirstRow(r) + page
  BY <1>t, <1>3, <1>4 DEF Plus
<1>6. last = FirstRow(r) + page - 1
  BY <1>t, <1>3, <1>4, <1>5 DEF Minus
<1>7. LastRow(r) = IF last >= row_count[r] THEN row_count[r] - 1 ELSE last
  BY <1>t, <1>3 DEF LastRow, Minus, page
<1> HIDE DEF last
<1>8. LastRow(r) \in Nat /\ LastRow(r) >= FirstRow(r) /\ LastRow(r) < row_count[r]
  BY <1>t, <1>3, <1>4, <1>6, <1>7
<1>9. Asked(r) = LastRow(r) - FirstRow(r) + 1
  BY <1>t, <1>3, <1>8 DEF Asked, Plus, Minus
<1> QED BY <1>t, <1>1, <1>2, <1>3, <1>8, <1>9

LEMMA InitHolds == Init => IInv
<1> SUFFICES ASSUME Init PROVE IInv
  OBVIOUS
<1>1. Minus(0, 1) = Wrap - 1 /\ Wrap - 1 \in 0 .. Wrap - 1
  BY CountsAssumption DEF Minus
<1>2. TypeOK
  BY <1>1, CountsAssumption DEF Init, TypeOK, BeforeFirstRow
<1> QED BY <1>1, <1>2, CountsAssumption
        DEF Init, BeforeFirstRow, IInv, ResultInv, PageWithinResult, Position, BeforeFirst

(* What a step leaves alone of a result keeps its invariant.               *)
LEMMA UntouchedResult ==
    ASSUME NEW s \in Results, ResultInv(s),
           numRow'[s] = numRow[s], row_count'[s] = row_count[s],
           row_count_sent'[s] = row_count_sent[s], first_row'[s] = first_row[s],
           given'[s] = given[s], told'[s] = told[s], failed'[s] = failed[s],
           empty'[s] = empty[s], codeless'[s] = codeless[s]
    PROVE  ResultInv(s)'
BY DEF ResultInv, PageWithinResult, Position, BeforeFirst, OnRow, AfterLast

(* A fresh result with its first page.                                     *)
LEMMA ExecuteHolds ==
    ASSUME IInv, NEW r \in Results, Execute(r)
    PROVE  IInv'
<1> USE DEF IInv
<1>1. PICK n \in RowCounts, p \in PageSizes :
         /\ row_count' = [row_count EXCEPT ![r] = n]
         /\ page_size' = [page_size EXCEPT ![r] = p]
         /\ \E k \in 0 .. MinOf(n, IF p > 0 THEN p ELSE DefaultPage) :
               /\ row_count_sent' = [row_count_sent EXCEPT ![r] = k]
               /\ empty' = [empty EXCEPT ![r] = IF k = 0 THEN 1 ELSE 0]
  BY DEF Execute
<1>2. PICK k \in 0 .. MinOf(n, IF p > 0 THEN p ELSE DefaultPage) :
         /\ row_count_sent' = [row_count_sent EXCEPT ![r] = k]
         /\ empty' = [empty EXCEPT ![r] = IF k = 0 THEN 1 ELSE 0]
  BY <1>1
<1>3. /\ k \in Nat /\ k <= n
      /\ n \in Nat /\ 2 * n < Wrap /\ Wrap \in Nat /\ Wrap > 2
  <2>1. n \in Nat /\ 2 * n < Wrap /\ p \in Nat /\ DefaultPage \in Nat
    BY CountsAssumption
  <2> QED BY <2>1, CountsAssumption DEF MinOf
<1>4. Minus(0, 1) = Wrap - 1 /\ Wrap - 1 \in 0 .. Wrap - 1 /\ k \in 0 .. Wrap - 1
  BY <1>3 DEF Minus
<1>5. /\ first_row' = [first_row EXCEPT ![r] = 0]
      /\ numRow' = [numRow EXCEPT ![r] = Wrap - 1]
      /\ error_code' = 0
      /\ told' = [told EXCEPT ![r] = "none"]
      /\ given' = [given EXCEPT ![r] = 0]
      /\ failed' = [failed EXCEPT ![r] = 0]
      /\ codeless' = [codeless EXCEPT ![r] = FALSE]
      /\ void' = [void EXCEPT ![r] = FALSE]
  BY <1>4 DEF Execute, BeforeFirstRow
<1>6. TypeOK'
  BY <1>1, <1>2, <1>3, <1>4, <1>5 DEF TypeOK
<1>7. ASSUME NEW s \in Results PROVE ResultInv(s)'
  <2>1. CASE s # r
    BY <1>1, <1>2, <1>5, <2>1, UntouchedResult DEF TypeOK
  <2>2. CASE s = r
    BY <1>1, <1>2, <1>3, <1>5, <2>2
       DEF TypeOK, ResultInv, PageWithinResult, Position, BeforeFirst
  <2> QED BY <2>1, <2>2
<1> QED BY <1>6, <1>7

(* The answers that leave the page alone, with the row number moved on.    *)
LEMMA AdvanceHolds ==
    ASSUME IInv, NEW r \in Results, Advance(r), NextNumRow(r) <= row_count[r] + MaxPastEnd,
           UNCHANGED <<row_count, row_count_sent, first_row, page_size, empty>>,
           error_code' \in ErrorCodes \union {0},
           NEW t \in {"row", "end", "error"}, told' = [told EXCEPT ![r] = t],
           NEW g \in Nat, given' = [given EXCEPT ![r] = g],
           NEW f \in Nat, failed' = [failed EXCEPT ![r] = f],
           NEW c \in BOOLEAN, codeless' = [codeless EXCEPT ![r] = c],
           void' \in [Results -> BOOLEAN],
           Position(r)'
    PROVE  IInv'
<1> USE DEF IInv
<1>t. /\ numRow[r] \in 0 .. Wrap - 1 /\ row_count[r] \in Nat /\ MaxPastEnd \in Nat
      /\ Wrap \in Nat /\ Wrap > 2
  BY CountersAreNumbers
<1>1. NextNumRow(r) \in 0 .. Wrap - 1
  BY <1>t, NextRowArithmetic
<1>2. TypeOK'
  BY <1>1 DEF TypeOK, Advance
<1>3. ASSUME NEW s \in Results PROVE ResultInv(s)'
  <2>1. CASE s # r
    <3>1. /\ numRow'[s] = numRow[s] /\ row_count'[s] = row_count[s]
          /\ row_count_sent'[s] = row_count_sent[s] /\ first_row'[s] = first_row[s]
          /\ given'[s] = given[s] /\ told'[s] = told[s] /\ failed'[s] = failed[s]
          /\ empty'[s] = empty[s] /\ codeless'[s] = codeless[s]
      BY <2>1 DEF TypeOK, Advance
    <3> QED BY <3>1, UntouchedResult
  <2>2. CASE s = r
    <3>1. numRow'[r] = NextNumRow(r)
      BY DEF TypeOK, Advance
    <3>2. PageWithinResult(r)'
      BY <3>1 DEF ResultInv, PageWithinResult
    <3> QED BY <2>2, <3>2 DEF ResultInv
  <2> QED BY <2>1, <2>2
<1> QED BY <1>2, <1>3

(* Where fourd_next_row's row number comes to stand.                       *)
LEMMA NextRowPosition ==
    ASSUME IInv, NEW r \in Results, row_count[r] > 0
    PROVE  /\ IsPastEnd(r) /\ numRow[r] < row_count[r] + MaxPastEnd =>
                 NextNumRow(r) = numRow[r] + 1 /\ given[r] + failed[r] = row_count[r]
           /\ ~IsPastEnd(r) =>
                 /\ NextNumRow(r) < row_count[r] /\ given[r] + failed[r] = NextNumRow(r)
                 /\ ~IsPastPage(r) /\ FirstRow(r) > 0 =>
                       first_row[r] <= NextNumRow(r) /\ NextNumRow(r) < FirstRow(r)
                 /\ IsPastPage(r) =>
                       /\ first_row[r] <= NextNumRow(r)
                       /\ NextNumRow(r) <= numRow[r] + 1
                       /\ numRow[r] < FirstRow(r) + failed[r] + empty[r]
<1>t. /\ numRow[r] \in 0 .. Wrap - 1 /\ row_count[r] \in Nat /\ MaxPastEnd \in Nat
      /\ row_count_sent[r] \in Nat /\ first_row[r] \in Nat
      /\ given[r] \in Nat /\ failed[r] \in Nat /\ empty[r] \in Nat
      /\ Wrap \in Nat /\ Wrap > 2 /\ row_count[r] + MaxPastEnd + 1 < Wrap
  BY CountersAreNumbers
<1>1. /\ NextNumRow(r) = IF numRow[r] = Wrap - 1 THEN 0 ELSE numRow[r] + 1
      /\ FirstRow(r) = first_row[r] + row_count_sent[r]
      /\ FirstRow(r) > 0 => (IsPastPage(r) <=> NextNumRow(r) >= FirstRow(r))
      /\ FirstRow(r) = 0 => ~IsPastPage(r)
  BY NextRowArithmetic
<1>2. Position(r)
  BY DEF IInv, ResultInv
<1>3. CASE BeforeFirst(r)
  BY <1>t, <1>1, <1>3 DEF BeforeFirst, IsPastEnd
<1>4. CASE OnRow(r)
  BY <1>t, <1>1, <1>4 DEF OnRow, IsPastEnd
<1>5. CASE AfterLast(r)
  BY <1>t, <1>1, <1>5 DEF AfterLast, IsPastEnd
<1> QED BY <1>2, <1>3, <1>4, <1>5 DEF Position

LEMMA FetchHolds ==
    ASSUME IInv, NEW r \in Results, Fetch(r)
    PROVE  IInv'
<1>t. /\ numRow[r] \in 0 .. Wrap - 1 /\ row_count[r] \in Nat /\ MaxPastEnd \in Nat
      /\ row_count_sent[r] \in Nat /\ first_row[r] \in Nat
      /\ given[r] \in Nat /\ failed[r] \in Nat /\ empty[r] \in Nat
      /\ Wrap \in Nat /\ Wrap > 2 /\ row_count[r] + MaxPastEnd + 1 < Wrap
      /\ PageWithinResult(r)
  BY CountersAreNumbers
<1>u. TypeOK /\ \A s \in Results : ResultInv(s)
  BY DEF IInv
<1>v. /\ NextNumRow(r) = IF numRow[r] = Wrap - 1 THEN 0 ELSE numRow[r] + 1
      /\ NextNumRow(r) \in 0 .. Wrap - 1
      /\ FirstRow(r) = first_row[r] + row_count_sent[r]
  BY <1>t, NextRowArithmetic
<1>1. CASE FetchNothing(r)
  <2>1. /\ row_count[r] = 0 /\ told' = [told EXCEPT ![r] = "end"]
        /\ UNCHANGED <<result, error_code, history>>
    BY <1>1 DEF FetchNothing, Tell
  <2>2. TypeOK'
    BY <1>u, <2>1 DEF TypeOK, result, history
  <2>3. ASSUME NEW s \in Results PROVE ResultInv(s)'
    <3>1. CASE s # r
      BY <1>u, <2>1, <3>1, UntouchedResult DEF TypeOK, result, history
    <3>2. CASE s = r
      BY <1>t, <1>u, <2>1, <3>2
         DEF TypeOK, result, history, ResultInv, PageWithinResult, Position, BeforeFirst,
             OnRow, AfterLast
    <3> QED BY <3>1, <3>2
  <2> QED BY <2>2, <2>3 DEF IInv
<1>2. CASE FetchPastEnd(r)
  <2> DEFINE t == IF error_code # 0 THEN "error" ELSE "end"
  <2>1. /\ row_count[r] > 0 /\ IsPastEnd(r) /\ numRow[r] < row_count[r] + MaxPastEnd
        /\ Advance(r) /\ told' = [told EXCEPT ![r] = t]
        /\ void' = [void EXCEPT ![r] = @ \/ error_code # 0]
        /\ UNCHANGED <<row_count, row_count_sent, first_row, page_size>>
        /\ UNCHANGED <<error_code, given, failed, empty, codeless>>
    BY <1>2 DEF FetchPastEnd, NoRow, Tell
  <2>2. /\ given' = [given EXCEPT ![r] = given[r]]
        /\ failed' = [failed EXCEPT ![r] = failed[r]]
        /\ codeless' = [codeless EXCEPT ![r] = codeless[r]] /\ codeless[r] \in BOOLEAN
        /\ void' \in [Results -> BOOLEAN] /\ error_code' \in ErrorCodes \union {0}
    BY <1>u, <2>1 DEF TypeOK
  <2>3. /\ NextNumRow(r) <= row_count[r] + MaxPastEnd /\ NextNumRow(r) >= row_count[r]
        /\ NextNumRow(r) # Wrap - 1
        /\ given[r] + failed[r] = row_count[r]
    BY <1>t, <1>v, <2>1, NextRowPosition DEF IsPastEnd
  <2>4. Position(r)'
    <3>1. /\ numRow'[r] = NextNumRow(r) /\ given'[r] = given[r] /\ row_count'[r] = row_count[r]
          /\ failed'[r] = failed[r] /\ told'[r] \in {"error", "end"}
      BY <1>u, <2>1 DEF TypeOK, Advance
    <3>2. AfterLast(r)'
      BY <2>3, <3>1 DEF AfterLast
    <3> QED BY <3>1, <3>2 DEF Position
  <2> QED BY <1>t, <2>1, <2>2, <2>3, <2>4, AdvanceHolds
<1>3. CASE FetchFromPage(r)
  <2>1. /\ ~IsPastEnd(r) /\ ~IsPastPage(r)
        /\ Advance(r) /\ told' = [told EXCEPT ![r] = "row"]
        /\ given' = [given EXCEPT ![r] = given[r] + 1]
        /\ UNCHANGED <<row_count, row_count_sent, first_row, page_size>>
        /\ UNCHANGED <<error_code, failed, empty, codeless, void>>
    BY <1>3 DEF FetchFromPage, GiveRow, Tell
  <2>2. /\ given[r] + 1 \in Nat
        /\ failed' = [failed EXCEPT ![r] = failed[r]]
        /\ codeless' = [codeless EXCEPT ![r] = codeless[r]] /\ codeless[r] \in BOOLEAN
        /\ void' \in [Results -> BOOLEAN] /\ error_code' \in ErrorCodes \union {0}
    BY <1>t, <1>u, <2>1 DEF TypeOK
  <2>3. NextNumRow(r) < row_count[r] /\ row_count[r] > 0
    BY <1>t, <1>v, <2>1 DEF IsPastEnd
  <2>4. Position(r)'
    <3>1. /\ given[r] + failed[r] = NextNumRow(r)
          /\ FirstRow(r) > 0 =>
                first_row[r] <= NextNumRow(r) /\ NextNumRow(r) < FirstRow(r)
      BY <2>1, <2>3, NextRowPosition
    <3>2. /\ numRow'[r] = NextNumRow(r) /\ given'[r] = given[r] + 1 /\ told'[r] = "row"
          /\ row_count'[r] = row_count[r] /\ first_row'[r] = first_row[r]
          /\ row_count_sent'[r] = row_count_sent[r] /\ failed'[r] = failed[r]
          /\ empty'[r] = empty[r]
      BY <1>u, <2>1 DEF TypeOK, Advance
    <3>3. OnRow(r)'
      BY <1>t, <1>v, <2>3, <3>1, <3>2 DEF OnRow
    <3> QED BY <3>2, <3>3 DEF Position
  <2>5. NextNumRow(r) <= row_count[r] + MaxPastEnd
    BY <1>t, <1>v, <2>3
  <2>6. PICK t \in {"row", "end", "error"}, g \in Nat, f \in Nat, c \in BOOLEAN :
           /\ told' = [told EXCEPT ![r] = t] /\ given' = [given EXCEPT ![r] = g]
           /\ failed' = [failed EXCEPT ![r] = f] /\ codeless' = [codeless EXCEPT ![r] = c]
    BY <1>t, <2>1, <2>2
  <2> QED BY <2>1, <2>2, <2>4, <2>5, <2>6, AdvanceHolds
<1>4. CASE FetchFails(r) \/ FetchFailsWithoutCode(r)
  <2>1. PICK e \in ErrorCodes \union {0} :
           /\ ~IsPastEnd(r) /\ IsPastPage(r) /\ Advance(r) /\ error_code' = e
           /\ told' = [told EXCEPT ![r] = IF e # 0 THEN "error" ELSE "end"]
           /\ void' = [void EXCEPT ![r] = @ \/ e # 0]
           /\ failed' = [failed EXCEPT ![r] = failed[r] + 1]
           /\ UNCHANGED <<row_count, row_count_sent, first_row, page_size, empty, given>>
           /\ \/ e # 0 /\ UNCHANGED codeless
              \/ codeless' = [codeless EXCEPT ![r] = TRUE]
    BY <1>4, <1>u, ServerAssumption
       DEF FetchFails, FetchFailsWithoutCode, NoRow, Tell, TypeOK
  <2>2. PICK t \in {"row", "end", "error"}, g \in Nat, f \in Nat, c \in BOOLEAN :
           /\ told' = [told EXCEPT ![r] = t] /\ given' = [given EXCEPT ![r] = g]
           /\ failed' = [failed EXCEPT ![r] = f] /\ codeless' = [codeless EXCEPT ![r] = c]
    <3>1. given' = [given EXCEPT ![r] = given[r]]
      BY <1>u, <2>1 DEF TypeOK
    <3>2. \E c \in BOOLEAN : codeless' = [codeless EXCEPT ![r] = c]
      <4>1. CASE codeless' = codeless
        <5>1. codeless[r] \in BOOLEAN /\ codeless' = [codeless EXCEPT ![r] = codeless[r]]
          BY <1>u, <4>1 DEF TypeOK
        <5> QED BY <5>1
      <4> QED BY <2>1, <4>1
    <3>3. \E t \in {"row", "end", "error"} : told' = [told EXCEPT ![r] = t]
      <4>1. CASE e # 0
        BY <2>1, <4>1
      <4>2. CASE e = 0
        BY <2>1, <4>2
      <4> QED BY <4>1, <4>2
    <3>4. given[r] \in Nat /\ failed[r] + 1 \in Nat
      BY <1>t
    <3>5. failed' = [failed EXCEPT ![r] = failed[r] + 1]
      BY <2>1
    <3> QED BY ZenonT(30), <3>1, <3>2, <3>3, <3>4, <3>5
  <2>6. void' \in [Results -> BOOLEAN]
    BY <1>u, <2>1 DEF TypeOK
  <2>3. NextNumRow(r) < row_count[r] /\ row_count[r] > 0
    BY <1>t, <1>v, <2>1 DEF IsPastEnd
  <2>4. Position(r)'
    <3>1. /\ given[r] + failed[r] = NextNumRow(r)
          /\ first_row[r] <= NextNumRow(r) /\ NextNumRow(r) <= numRow[r] + 1
          /\ numRow[r] < FirstRow(r) + failed[r] + empty[r]
      BY <2>1, <2>3, NextRowPosition
    <3>2. /\ numRow'[r] = NextNumRow(r) /\ given'[r] = given[r]
          /\ row_count'[r] = row_count[r] /\ first_row'[r] = first_row[r]
          /\ row_count_sent'[r] = row_count_sent[r] /\ failed'[r] = failed[r] + 1
          /\ empty'[r] = empty[r]
          /\ told'[r] \in {"error", "end"} /\ (told'[r] = "end" => codeless'[r])
      BY <1>u, <2>1 DEF TypeOK, Advance
    <3>3. OnRow(r)'
      BY <1>t, <1>v, <2>3, <3>1, <3>2 DEF OnRow
    <3> QED BY <3>2, <3>3 DEF Position
  <2>5. NextNumRow(r) <= row_count[r] + MaxPastEnd
    BY <1>t, <1>v, <2>3
  <2> QED BY <2>1, <2>2, <2>4, <2>5, <2>6, AdvanceHolds
<1>5. CASE FetchLoadsPage(r)
  <2>1. /\ ~IsPastEnd(r) /\ IsPastPage(r)
        /\ first_row' = [first_row EXCEPT ![r] = FirstRow(r)]
        /\ numRow' = [numRow EXCEPT ![r] = NextNumRow(r)]
        /\ error_code' = 0 /\ told' = [told EXCEPT ![r] = "row"]
        /\ given' = [given EXCEPT ![r] = given[r] + 1]
        /\ UNCHANGED <<row_count, page_size, failed, codeless, void>>
    BY <1>5 DEF FetchLoadsPage, GiveRow, Tell, Advance
  <2>2. PICK k \in 0 .. Asked(r) :
           /\ row_count_sent' = [row_count_sent EXCEPT ![r] = k]
           /\ empty' = [empty EXCEPT ![r] = empty[r] + IF k = 0 THEN 1 ELSE 0]
    BY <1>5 DEF FetchLoadsPage
  <2>3. /\ FirstRow(r) > 0 /\ FirstRow(r) <= NextNumRow(r)
        /\ Asked(r) \in Nat \ {0} /\ FirstRow(r) + Asked(r) <= row_count[r]
    BY <2>1, AskedRowsExist
  <2>4. /\ k \in 0 .. Wrap - 1 /\ FirstRow(r) \in 0 .. Wrap - 1
        /\ FirstRow(r) + k <= row_count[r]
    BY <1>t, <1>v, <2>3
  <2>5. TypeOK'
    BY <1>t, <1>u, <1>v, <2>1, <2>2, <2>4 DEF TypeOK
  <2>6. ASSUME NEW s \in Results PROVE ResultInv(s)'
    <3>1. CASE s # r
      BY <1>u, <2>1, <2>2, <3>1, UntouchedResult DEF TypeOK
    <3>2. CASE s = r
      <4>1. /\ numRow'[r] = NextNumRow(r) /\ row_count'[r] = row_count[r]
            /\ row_count_sent'[r] = k /\ first_row'[r] = FirstRow(r)
            /\ given'[r] = given[r] + 1 /\ told'[r] = "row" /\ failed'[r] = failed[r]
            /\ empty'[r] = empty[r] + IF k = 0 THEN 1 ELSE 0
        BY <1>u, <2>1, <2>2 DEF TypeOK
      <4>2. NextNumRow(r) < row_count[r] /\ row_count[r] > 0
        BY <1>t, <1>v, <2>1 DEF IsPastEnd
      <4>3. PageWithinResult(r)'
        BY <1>t, <1>v, <2>4, <4>1, <4>2 DEF PageWithinResult
      <4>4. /\ given[r] + failed[r] = NextNumRow(r) /\ NextNumRow(r) <= numRow[r] + 1
            /\ numRow[r] < FirstRow(r) + failed[r] + empty[r]
        BY <2>1, <4>2, NextRowPosition
      <4>5. NextNumRow(r) < FirstRow(r) + k + failed[r] + empty'[r]
        BY <1>t, <1>v, <2>4, <4>1, <4>4
      <4>6. OnRow(r)'
        BY <1>t, <1>v, <2>3, <2>4, <4>1, <4>2, <4>4, <4>5 DEF OnRow
      <4> QED BY <3>2, <4>1, <4>3, <4>6 DEF ResultInv, Position
    <3> QED BY <3>1, <3>2
  <2> QED BY <2>5, <2>6 DEF IInv
<1> QED BY <1>1, <1>2, <1>3, <1>4, <1>5 DEF Fetch

LEMMA NextHolds == IInv /\ [Next]_vars => IInv'
<1> SUFFICES ASSUME IInv, [Next]_vars PROVE IInv'
  OBVIOUS
<1>1. CASE OtherCommandFails
  <2>1. TypeOK'
    BY <1>1 DEF OtherCommandFails, IInv, TypeOK, result, history
  <2>2. \A s \in Results : ResultInv(s)'
    BY <1>1, UntouchedResult DEF OtherCommandFails, IInv, result, history
  <2> QED BY <2>1, <2>2 DEF IInv
<1>2. ASSUME NEW r \in Results, Execute(r) PROVE IInv'
  BY <1>2, ExecuteHolds
<1>3. ASSUME NEW r \in Results, Fetch(r) PROVE IInv'
  BY <1>3, FetchHolds
<1>4. CASE UNCHANGED vars
  <2>1. TypeOK'
    BY <1>4 DEF vars, IInv, TypeOK, result, history
  <2>2. \A s \in Results : ResultInv(s)'
    BY <1>4, UntouchedResult DEF vars, IInv, result, history
  <2> QED BY <2>1, <2>2 DEF IInv
<1> QED BY <1>1, <1>2, <1>3, <1>4 DEF Next

(* Spec => []IInv.                                                         *)
THEOREM InvariantHolds == Spec => []IInv
BY InitHolds, NextHolds, PTL DEF Spec

(* The type invariant: none of fourd_next_row's and _fetch_result's        *)
(* unsigned counters leaves its range, whatever fails.                     *)
THEOREM TypeCorrect == Spec => []TypeOK
BY InvariantHolds, PTL DEF IInv

(* Every row fourd_next_row says 1 to, after whatever failures: fourd_field *)
(* takes it from the page in memory, or from as many places past its end   *)
(* as loads of that result have failed or brought no row.                  *)
THEOREM RowsAreNearTheirPage == Spec => []RowNearPage
<1>1. IInv => RowNearPage
  <2> SUFFICES ASSUME IInv, NEW r \in Results, told[r] = "row", FirstRow(r) > 0
               PROVE  /\ first_row[r] <= numRow[r]
                      /\ numRow[r] - first_row[r] < row_count_sent[r] + failed[r] + empty[r]
    BY DEF RowNearPage
  <2>1. OnRow(r)
    BY DEF IInv, ResultInv, Position
  <2>2. /\ numRow[r] \in 0 .. Wrap - 1 /\ first_row[r] \in Nat /\ row_count_sent[r] \in Nat
        /\ failed[r] \in Nat /\ empty[r] \in Nat /\ Wrap \in Nat
        /\ FirstRow(r) = first_row[r] + row_count_sent[r]
    BY CountersAreNumbers, NextRowArithmetic
  <2> QED BY <2>1, <2>2 DEF OnRow
<1> QED BY <1>1, InvariantHolds, PTL

(* Across pages the rows come in order, each once, but the one that each   *)
(* failed load was for.                                                    *)
THEOREM RowsComeInOrder == Spec => []RowsInOrder
<1>1. IInv => RowsInOrder
  BY DEF IInv, ResultInv, Position, OnRow, RowsInOrder
<1> QED BY <1>1, InvariantHolds, PTL

(* fetchone's None comes after the last row, or with a load that failed    *)
(* without a code.                                                         *)
THEOREM NoneMeansAllRows == Spec => []EndMeansAllRows
<1>1. IInv => EndMeansAllRows
  BY DEF IInv, ResultInv, Position, OnRow, AfterLast, EndMeansAllRows
<1> QED BY <1>1, InvariantHolds, PTL

-----------------------------------------------------------------------------
(* A failed load raises unless it leaves no code; so a cursor is a      *)
(* RowStream.                                                              *)
LEMMA LoadFailureNext ==
    ASSUME IInv, LoadFailureRaises, [Next]_vars
    PROVE  LoadFailureRaises'
<1>t. /\ failed \in [Results -> Nat] /\ void \in [Results -> BOOLEAN]
      /\ codeless \in [Results -> BOOLEAN]
      /\ \A s \in Results : failed[s] > 0 => void[s] \/ codeless[s]
  BY DEF IInv, TypeOK, LoadFailureRaises
<1>1. ASSUME NEW r \in Results, Execute(r) PROVE LoadFailureRaises'
  <2>1. /\ failed' = [failed EXCEPT ![r] = 0]
        /\ codeless' = [codeless EXCEPT ![r] = FALSE]
        /\ void' = [void EXCEPT ![r] = FALSE]
    BY <1>1 DEF Execute
  <2> QED BY <1>t, <2>1 DEF LoadFailureRaises
<1>2. ASSUME NEW r \in Results, FetchFails(r) PROVE LoadFailureRaises'
  <2>1. PICK e \in ErrorCodes : NoRow(r, e)
    BY <1>2 DEF FetchFails
  <2>2. /\ failed' = [failed EXCEPT ![r] = @ + 1]
        /\ void' = [void EXCEPT ![r] = TRUE]
        /\ UNCHANGED codeless
    BY <1>t, <1>2, <2>1, ServerAssumption DEF FetchFails, NoRow
  <2> QED BY <1>t, <2>2 DEF LoadFailureRaises
<1>3. ASSUME NEW r \in Results, FetchPastEnd(r) PROVE LoadFailureRaises'
  <2>1. /\ UNCHANGED <<failed, codeless>>
        /\ void' = [void EXCEPT ![r] = void[r] \/ error_code # 0]
    BY <1>3 DEF FetchPastEnd, NoRow
  <2> QED BY <1>t, <2>1 DEF LoadFailureRaises
<1>4. ASSUME NEW r \in Results, FetchNothing(r) \/ FetchFromPage(r) \/ FetchLoadsPage(r)
      PROVE LoadFailureRaises'
  <2>1. UNCHANGED <<failed, codeless, void>>
    BY <1>4 DEF FetchNothing, FetchFromPage, FetchLoadsPage, GiveRow, history
  <2> QED BY <1>t, <2>1 DEF LoadFailureRaises
<1>5. CASE OtherCommandFails \/ UNCHANGED vars
  <2>1. UNCHANGED <<failed, codeless, void>>
    BY <1>5 DEF OtherCommandFails, vars, history
  <2> QED BY <1>t, <2>1 DEF LoadFailureRaises
<1>6. ASSUME NEW r \in Results, FetchFailsWithoutCode(r) PROVE LoadFailureRaises'
  <2>1. PICK e \in {0, error_code} :
           /\ failed' = [failed EXCEPT ![r] = @ + 1]
           /\ codeless' = [codeless EXCEPT ![r] = TRUE]
           /\ void' = [void EXCEPT ![r] = @ \/ e # 0]
    BY <1>6 DEF FetchFailsWithoutCode, NoRow
  <2> QED BY <1>t, <2>1 DEF LoadFailureRaises
<1> QED BY <1>1, <1>2, <1>3, <1>4, <1>5, <1>6 DEF Next, Fetch

(* A page load that fails raises, unless it leaves no code.                 *)
THEOREM FailedLoadsRaise == Spec => []LoadFailureRaises
<1>1. Init => LoadFailureRaises
  BY DEF Init, LoadFailureRaises
<1>2. IInv /\ LoadFailureRaises /\ [Next]_vars => LoadFailureRaises'
  BY LoadFailureNext
<1> QED BY <1>1, <1>2, InvariantHolds, PTL DEF Spec

(* RowStream's void.                                                       *)
Void == [r \in Results |-> void[r] \/ codeless[r]]

LEMMA CursorInit == Init => Cursor!Init
BY DEF Init, Cursor!Init

(* fetchone on a result that has kept its promise gives the next row or    *)
(* ends; on one that has not, RowStream allows anything.                   *)
LEMMA FetchSimulates ==
    ASSUME IInv, IInv', LoadFailureRaises,
           NEW r \in Results, Fetch(r)
    PROVE  Cursor!Next
<1>t. /\ void \in [Results -> BOOLEAN] /\ codeless \in [Results -> BOOLEAN]
      /\ given \in [Results -> Nat]
      /\ told \in [Results -> {"none", "row", "end", "error"}]
      /\ given' \in [Results -> Nat]
      /\ row_count[r] \in Nat /\ given[r] \in Nat
  BY CountersAreNumbers DEF IInv, TypeOK
<1>o. ~Void[r] => failed[r] = 0
  BY DEF LoadFailureRaises, IInv, TypeOK, Void
<1>p. Position(r)'
  BY DEF IInv, ResultInv
<1>1. CASE FetchNothing(r) \/ (FetchPastEnd(r) /\ error_code = 0)
  <2>1. /\ told' = [told EXCEPT ![r] = "end"]
        /\ UNCHANGED <<row_count, given, failed, void, codeless>>
    BY <1>1, <1>t DEF FetchNothing, FetchPastEnd, NoRow, Tell, result, history
  <2>2. CASE Void[r]
    BY <1>t, <2>1, <2>2 DEF Cursor!Next, Cursor!Anything, Void
  <2>3. CASE ~Void[r]
    <3>1. told'[r] = "end"
      BY <1>t, <2>1
    <3>2. given[r] = row_count[r]
      <4>1. ~codeless'[r] /\ failed'[r] = 0 /\ row_count'[r] = row_count[r]
        BY <1>o, <2>1, <2>3 DEF Void
      <4>2. AfterLast(r)'
        BY <1>p, <3>1, <4>1 DEF Position
      <4> QED BY <1>t, <2>1, <4>1, <4>2 DEF AfterLast
    <3> QED BY <2>1, <3>2 DEF Cursor!Next, Cursor!End
  <2> QED BY <2>2, <2>3
<1>2. CASE FetchFails(r) \/ (FetchPastEnd(r) /\ error_code # 0)
  <2>1. /\ told' = [told EXCEPT ![r] = "error"] /\ void' = [void EXCEPT ![r] = TRUE]
        /\ UNCHANGED <<row_count, given, codeless>>
    BY <1>2, <1>t, ServerAssumption DEF FetchFails, FetchPastEnd, NoRow, Tell
  <2>2. Void' = [Void EXCEPT ![r] = TRUE]
    BY <1>t, <2>1 DEF Void
  <2> QED BY <2>1, <2>2 DEF Cursor!Next, Cursor!Fail, Void
<1>3. CASE FetchFailsWithoutCode(r)
  <2>1. PICK e \in {0, error_code} :
           /\ told' = [told EXCEPT ![r] = IF e # 0 THEN "error" ELSE "end"]
           /\ void' = [void EXCEPT ![r] = @ \/ e # 0]
           /\ codeless' = [codeless EXCEPT ![r] = TRUE]
           /\ UNCHANGED <<row_count, given>>
    BY <1>3 DEF FetchFailsWithoutCode, NoRow, Tell
  <2>2. Void' = [Void EXCEPT ![r] = TRUE]
    BY <1>t, <2>1 DEF Void
  <2>3. CASE e # 0
    BY <2>1, <2>2, <2>3 DEF Cursor!Next, Cursor!Fail, Void
  <2>4. CASE e = 0
    BY <2>1, <2>2, <2>4 DEF Cursor!Next, Cursor!FailSilently, Void
  <2> QED BY <2>3, <2>4
<1>4. CASE FetchFromPage(r) \/ FetchLoadsPage(r)
  <2>1. /\ told' = [told EXCEPT ![r] = "row"] /\ given' = [given EXCEPT ![r] = @ + 1]
        /\ UNCHANGED <<row_count, failed, void, codeless>>
    BY <1>4 DEF FetchFromPage, FetchLoadsPage, GiveRow, Tell
  <2>2. CASE Void[r]
    BY <1>t, <2>1, <2>2 DEF Cursor!Next, Cursor!Anything, Void
  <2>3. CASE ~Void[r]
    <3>1. told'[r] = "row" /\ given'[r] = given[r] + 1
      BY <1>t, <2>1
    <3>2. OnRow(r)'
      BY <1>p, <2>1, <2>3, <3>1 DEF Position
    <3>3. numRow'[r] \in Nat /\ numRow'[r] < row_count'[r] /\ given'[r] = numRow'[r] + 1
      BY <1>o, <1>t, <2>1, <2>3, <3>1, <3>2, CountsAssumption DEF OnRow, IInv, TypeOK
    <3>4. given[r] < row_count[r]
      BY <1>t, <2>1, <3>1, <3>3
    <3> QED BY <2>1, <3>4 DEF Cursor!Next, Cursor!Give
  <2> QED BY <2>2, <2>3
<1> QED BY <1>1, <1>2, <1>3, <1>4 DEF Fetch

(* The cursors of a connection are the row streams RowStream promises: by  *)
(* fourd_next_row, _fetch_result and fetchone, whatever the page sizes and *)
(* whichever loads and other commands fail.                                *)
THEOREM PagingImplementsRowStream == Spec => ImplementsRowStream
<1>1. IInv /\ IInv' /\ LoadFailureRaises /\ [Next]_vars => [Cursor!Next]_(Cursor!vars)
  <2> SUFFICES ASSUME IInv, IInv', LoadFailureRaises, [Next]_vars
               PROVE  [Cursor!Next]_(Cursor!vars)
    OBVIOUS
  <2>1. ASSUME NEW r \in Results, Execute(r) PROVE Cursor!Next
    <3>1. PICK n \in RowCounts : row_count' = [row_count EXCEPT ![r] = n]
      BY <2>1 DEF Execute
    <3>2. Void' = [Void EXCEPT ![r] = FALSE]
      BY <2>1 DEF Execute, IInv, TypeOK, Void
    <3> QED BY <2>1, <3>1, <3>2 DEF Execute, Cursor!Next, Cursor!Open, Void
  <2>2. ASSUME NEW r \in Results, Fetch(r) PROVE Cursor!Next
    BY <2>2, FetchSimulates
  <2>3. CASE OtherCommandFails \/ UNCHANGED vars
    BY <2>3 DEF OtherCommandFails, vars, result, history, Cursor!vars
  <2> QED BY <2>1, <2>2, <2>3 DEF Next
<1> QED BY <1>1, CursorInit, InvariantHolds, FailedLoadsRaise, PTL
        DEF Spec, ImplementsRowStream, Cursor!Spec

=============================================================================

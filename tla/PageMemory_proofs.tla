-------------------------- MODULE PageMemory_proofs --------------------------
(***************************************************************************)
(* For every set of blocks: a response that fails at any step leaves no    *)
(* block behind and frees none that is still pointed to.                   *)
(*                                                                         *)
(* NoLeakNoDangling alone is not inductive: that a block taken is not lost *)
(* when a pointer is overwritten needs Progress (which pointers are still  *)
(* NULL at which step), and that freeing one FOURD_RESULT leaves the other *)
(* intact needs OneOwner.                                                  *)
(***************************************************************************)
EXTENDS PageMemory, TLAPS

(* NoLeakNoDangling, said block by block.                                  *)
Owned ==
    \A b \in Blocks : b \in live <=> \E h \in Holders, f \in Fields : at[h][f] = b

(* How much of the response has been stored at each step.                  *)
Progress ==
    /\ command # "fetch" => at["nRes"] = Nothing
    /\ pc = "header" => at[State]["header"] = NULL
    /\ pc \in {"header", "columns"} =>
          at[State]["Column"] = IF command = "fetch" THEN at["res"]["Column"] ELSE NULL
    /\ pc \in {"header", "columns", "data"} =>
          at[State]["elmt"] = NULL /\ at[State]["arena"] = NULL

IInv == TypeOK /\ Owned /\ OneOwner /\ ValuesAreInTheirArena /\ Progress

-----------------------------------------------------------------------------
LEMMA OwnedIsNoLeak ==
  ASSUME TypeOK
  PROVE  Owned <=> NoLeakNoDangling
<1>1. ASSUME NEW b \in Blocks
      PROVE  b \in Pointers(at["res"]) \union Pointers(at["nRes"])
                <=> \E h \in Holders, f \in Fields : at[h][f] = b
  BY NULLAssumption DEF Pointers, Holders
<1>2. Pointers(at["res"]) \union Pointers(at["nRes"]) \subseteq Blocks
  BY DEF TypeOK, Pointers, Holders
<1> QED
  BY <1>1, <1>2 DEF Owned, NoLeakNoDangling, TypeOK

LEMMA StateIsHolder == State \in Holders
BY DEF State, Holders

(* malloc gives a block that no FOURD_RESULT points to.                    *)
LEMMA NewIsNew ==
  ASSUME IInv, live # Blocks
  PROVE  /\ New \in Blocks \ live /\ New # NULL
         /\ \A h \in Holders, f \in Fields : at[h][f] # New
<1>1. \E b \in Blocks : b \notin live
  BY DEF IInv, TypeOK
<1>2. New \in Blocks \ live
  BY <1>1 DEF New
<1> QED
  BY <1>2, NULLAssumption DEF IInv, Owned

(* A block is allocated for a pointer that is NULL, or that was borrowed.  *)
LEMMA Adding ==
  ASSUME IInv, Malloc, NEW x \in Holders, NEW g \in Fields,
         at' = [at EXCEPT ![x][g] = New],
         \/ at[x][g] = NULL
         \/ g = "Column" /\ x = "nRes" /\ at["nRes"]["Column"] = at["res"]["Column"]
  PROVE  /\ at' \in [Holders -> [Fields -> Blocks \union {NULL}]] /\ live' \subseteq Blocks
         /\ Owned' /\ OneOwner'
<1>1. New \in Blocks \ live /\ New # NULL /\ \A h \in Holders, f \in Fields : at[h][f] # New
  BY NewIsNew DEF Malloc
<1>2. at \in [Holders -> [Fields -> Blocks \union {NULL}]] /\ live \subseteq Blocks
  BY DEF IInv, TypeOK
<1>3. \A h \in Holders, f \in Fields :
         at'[h][f] = IF h = x /\ f = g THEN New ELSE at[h][f]
  BY <1>2
<1>4. at' \in [Holders -> [Fields -> Blocks \union {NULL}]] /\ live' \subseteq Blocks
  BY <1>1, <1>2 DEF Malloc
<1>5. Owned'
  <2> SUFFICES ASSUME NEW b \in Blocks
               PROVE  b \in live' <=> \E h \in Holders, f \in Fields : at'[h][f] = b
    BY DEF Owned
  <2>1. CASE b = New
    BY <2>1, <1>3 DEF Malloc
  <2>2. CASE b # New
    <3>1. b \in live' <=> b \in live
      BY <2>2 DEF Malloc
    <3>2. b \in live <=> \E h \in Holders, f \in Fields : at[h][f] = b
      BY DEF IInv, Owned
    <3>3. ASSUME NEW h \in Holders, NEW f \in Fields, at[h][f] = b
          PROVE  \E k \in Holders, e \in Fields : at'[k][e] = b
      <4>1. CASE ~(h = x /\ f = g)
        BY <4>1, <3>3, <1>3
      <4>2. CASE h = x /\ f = g
        <5>1. g = "Column" /\ x = "nRes" /\ at["res"]["Column"] = b
          BY <4>2, <3>3, NULLAssumption
        <5>2. "res" \in Holders /\ at'["res"]["Column"] = b
          BY <5>1, <1>3 DEF Holders, Fields
        <5> QED
          BY <5>1, <5>2
      <4> QED
        BY <4>1, <4>2
    <3>4. ASSUME NEW h \in Holders, NEW f \in Fields, at'[h][f] = b
          PROVE  at[h][f] = b
      BY <3>4, <2>2, <1>3
    <3> QED
      BY <3>1, <3>2, <3>3, <3>4
  <2> QED
    BY <2>1, <2>2
<1>6. OneOwner'
  BY <1>1, <1>3 DEF IInv, OneOwner
<1> QED
  BY <1>4, <1>5, <1>6

(* Every pointer but those to NULL names a block of its own result.        *)
LEMMA PointersOf ==
  ASSUME TypeOK, NEW h \in Holders, NEW b
  PROVE  b \in Pointers(at[h]) <=> b # NULL /\ \E f \in Fields : at[h][f] = b
BY DEF Pointers

LEMMA FreeingRes ==
  ASSUME IInv, FreeRes, command # "fetch"
  PROVE  /\ at' \in [Holders -> [Fields -> Blocks \union {NULL}]] /\ live' \subseteq Blocks
         /\ Owned' /\ OneOwner'
         /\ \A h \in Holders, f \in Fields : at'[h][f] = NULL
<1>1. at \in [Holders -> [Fields -> Blocks \union {NULL}]] /\ live \subseteq Blocks
  BY DEF IInv, TypeOK
<1>2. at["nRes"] = Nothing
  BY DEF IInv, Progress
<1>3. \A h \in Holders, f \in Fields : at'[h][f] = NULL
  BY <1>1, <1>2 DEF FreeRes, Holders, Nothing
<1>4. at' \in [Holders -> [Fields -> Blocks \union {NULL}]] /\ live' \subseteq Blocks
  BY <1>1 DEF FreeRes, Nothing
<1>5. live' = {}
  <2> SUFFICES ASSUME NEW b \in live PROVE b \in Pointers(at["res"])
    BY DEF FreeRes, Freed
  <2>1. PICK h \in Holders, f \in Fields : at[h][f] = b
    BY <1>1 DEF IInv, Owned
  <2>2. b # NULL
    BY <1>1, NULLAssumption
  <2>3. h = "res"
    BY <2>1, <2>2, <1>2 DEF Holders, Nothing
  <2> QED
    BY <2>1, <2>2, <2>3 DEF Pointers
<1>6. Owned' /\ OneOwner'
  BY <1>3, <1>5, NULLAssumption DEF Owned, OneOwner
<1> QED
  BY <1>3, <1>4, <1>6

(* The page just loaded takes the place of the old one, which goes.        *)
LEMMA SwappingPages ==
  ASSUME IInv, FetchReturns
  PROVE  /\ at' \in [Holders -> [Fields -> Blocks \union {NULL}]] /\ live' \subseteq Blocks
         /\ Owned' /\ OneOwner'
<1> DEFINE r == at["res"]
           n == at["nRes"]
           gone == OwnColumns(n) \union {r["elmt"], r["arena"], n["header"], n["self"]}
<1>1. at \in [Holders -> [Fields -> Blocks \union {NULL}]] /\ live \subseteq Blocks
  BY DEF IInv, TypeOK
<1>2. \A f \in Fields :
         /\ at'["res"][f] = IF f \in {"elmt", "arena"} THEN n[f] ELSE r[f]
         /\ at'["nRes"][f] = NULL
  BY <1>1 DEF FetchReturns, Swapped, Nothing, Holders, Fields
<1>3. at' \in [Holders -> [Fields -> Blocks \union {NULL}]]
  BY <1>1 DEF FetchReturns, Swapped, Nothing, Holders, Fields
<1>4. live' = live \ gone
  BY <1>1 DEF FetchReturns, Swapped, Dropped, Page, OwnColumns, Holders, Fields
<1>5. ASSUME NEW f \in Fields, NEW b \in Blocks, at'["res"][f] = b
      PROVE  b \in live /\ b \notin gone
  <2>1. b # NULL
    BY NULLAssumption
  <2>2. CASE f \in {"elmt", "arena"}
    <3>1. n[f] = b
      BY <2>2, <1>5, <1>2
    <3>2. b \in live
      BY <3>1 DEF IInv, Owned, Holders
    <3>3. b \notin {r["elmt"], r["arena"], n["header"], n["self"], n["Column"]}
      BY <2>1, <2>2, <3>1 DEF IInv, OneOwner, Holders, Fields
    <3> QED
      BY <3>2, <3>3 DEF OwnColumns
  <2>3. CASE f \notin {"elmt", "arena"}
    <3>1. r[f] = b
      BY <2>3, <1>5, <1>2
    <3>2. b \in live
      BY <3>1 DEF IInv, Owned, Holders
    <3>3. b \notin {r["elmt"], r["arena"], n["header"], n["self"]}
      BY <2>1, <2>3, <3>1 DEF IInv, OneOwner, Holders, Fields
    <3>4. b \notin OwnColumns(n)
      <4>1. CASE f = "Column"
        BY <4>1, <3>1 DEF OwnColumns
      <4>2. CASE f # "Column"
        BY <4>2, <2>1, <3>1 DEF OwnColumns, IInv, OneOwner, Holders, Fields
      <4> QED
        BY <4>1, <4>2
    <3> QED
      BY <3>2, <3>3, <3>4
  <2> QED
    BY <2>2, <2>3
<1>6. ASSUME NEW b \in live, b \notin gone
      PROVE  \E f \in Fields : at'["res"][f] = b
  <2>1. PICK h \in Holders, f \in Fields : at[h][f] = b
    BY <1>1 DEF IInv, Owned
  <2>2. CASE h = "res"
    <3>1. f \notin {"elmt", "arena"}
      BY <2>1, <2>2, <1>6
    <3> QED
      BY <2>1, <2>2, <3>1, <1>2
  <2>3. CASE h = "nRes"
    <3>1. f \notin {"header", "self"}
      BY <2>1, <2>3, <1>6
    <3>2. CASE f = "Column"
      BY <2>1, <2>3, <3>2, <1>6, <1>2 DEF OwnColumns, Fields
    <3>3. CASE f \in {"elmt", "arena"}
      BY <2>1, <2>3, <3>3, <1>2 DEF Fields
    <3> QED
      BY <3>1, <3>2, <3>3 DEF Fields
  <2> QED
    BY <2>2, <2>3 DEF Holders
<1>7. Owned'
  <2> SUFFICES ASSUME NEW b \in Blocks
               PROVE  b \in live' <=> \E h \in Holders, f \in Fields : at'[h][f] = b
    BY DEF Owned
  <2>1. ASSUME b \in live' PROVE \E h \in Holders, f \in Fields : at'[h][f] = b
    BY <2>1, <1>4, <1>6 DEF Holders
  <2>2. ASSUME NEW h \in Holders, NEW f \in Fields, at'[h][f] = b PROVE b \in live'
    <3>1. h = "res"
      BY <2>2, <1>2, NULLAssumption DEF Holders
    <3> QED
      BY <3>1, <2>2, <1>4, <1>5
  <2> QED
    BY <2>1, <2>2
<1>8. OneOwner'
  <2> SUFFICES ASSUME NEW h \in Holders, NEW k \in Holders, NEW f \in Fields, NEW g \in Fields,
                      at'[h][f] = at'[k][g], at'[h][f] # NULL
               PROVE  h = k /\ f = g
    BY DEF OneOwner
  <2>1. h = "res" /\ k = "res"
    BY <1>2 DEF Holders
  <2>2. \A e, d \in Fields : r[e] = r[d] /\ r[e] # NULL => e = d
    BY DEF IInv, OneOwner, Holders
  <2>3. \A e, d \in Fields : n[e] = n[d] /\ n[e] # NULL => e = d
    BY DEF IInv, OneOwner, Holders
  <2>4. \A e, d \in Fields : r[e] = n[d] /\ r[e] # NULL => e = "Column" /\ d = "Column"
    BY DEF IInv, OneOwner, Holders
  <2> QED
    BY <2>1, <2>2, <2>3, <2>4, <1>2
<1> QED
  BY <1>1, <1>3, <1>4, <1>7, <1>8

(* nRes goes with what it holds, but for columns that are res's.           *)
LEMMA DroppingPage ==
  ASSUME IInv, FetchFails
  PROVE  /\ at' \in [Holders -> [Fields -> Blocks \union {NULL}]] /\ live' \subseteq Blocks
         /\ Owned' /\ OneOwner'
<1> DEFINE r == at["res"]
           n == at["nRes"]
           gone == OwnColumns(n) \union {n["elmt"], n["arena"], n["header"], n["self"]}
<1>1. at \in [Holders -> [Fields -> Blocks \union {NULL}]] /\ live \subseteq Blocks
  BY DEF IInv, TypeOK
<1>2. \A f \in Fields : at'["res"][f] = r[f] /\ at'["nRes"][f] = NULL
  BY <1>1 DEF FetchFails, Nothing, Holders, Fields
<1>3. at' \in [Holders -> [Fields -> Blocks \union {NULL}]]
  BY <1>1 DEF FetchFails, Nothing, Holders, Fields
<1>4. live' = live \ gone
  BY DEF FetchFails, Dropped, Page
<1>5. ASSUME NEW f \in Fields, NEW b \in Blocks, r[f] = b
      PROVE  b \in live /\ b \notin gone
  <2>1. b # NULL
    BY NULLAssumption
  <2>2. b \in live
    BY <1>5 DEF IInv, Owned, Holders
  <2>3. b \notin {n["elmt"], n["arena"], n["header"], n["self"]}
    BY <2>1, <1>5 DEF IInv, OneOwner, Holders, Fields
  <2>4. b \notin OwnColumns(n)
    <3>1. CASE f = "Column"
      BY <3>1, <1>5 DEF OwnColumns
    <3>2. CASE f # "Column"
      BY <3>2, <2>1, <1>5 DEF OwnColumns, IInv, OneOwner, Holders, Fields
    <3> QED
      BY <3>1, <3>2
  <2> QED
    BY <2>2, <2>3, <2>4
<1>6. ASSUME NEW b \in live, b \notin gone
      PROVE  \E f \in Fields : r[f] = b
  <2>1. PICK h \in Holders, f \in Fields : at[h][f] = b
    BY <1>1 DEF IInv, Owned
  <2>2. CASE h = "nRes"
    BY <2>1, <2>2, <1>6 DEF OwnColumns, Fields
  <2> QED
    BY <2>1, <2>2 DEF Holders
<1>7. Owned'
  <2> SUFFICES ASSUME NEW b \in Blocks
               PROVE  b \in live' <=> \E h \in Holders, f \in Fields : at'[h][f] = b
    BY DEF Owned
  <2>1. ASSUME b \in live' PROVE \E h \in Holders, f \in Fields : at'[h][f] = b
    BY <2>1, <1>2, <1>4, <1>6 DEF Holders
  <2>2. ASSUME NEW h \in Holders, NEW f \in Fields, at'[h][f] = b PROVE b \in live'
    <3>1. h = "res"
      BY <2>2, <1>2, NULLAssumption DEF Holders
    <3> QED
      BY <3>1, <2>2, <1>2, <1>4, <1>5
  <2> QED
    BY <2>1, <2>2
<1>8. OneOwner'
  <2> SUFFICES ASSUME NEW h \in Holders, NEW k \in Holders, NEW f \in Fields, NEW g \in Fields,
                      at'[h][f] = at'[k][g], at'[h][f] # NULL
               PROVE  h = k /\ f = g
    BY DEF OneOwner
  <2>1. h = "res" /\ k = "res"
    BY <1>2 DEF Holders
  <2> QED
    BY <2>1, <1>2 DEF IInv, OneOwner
<1> QED
  BY <1>1, <1>3, <1>4, <1>7, <1>8

-----------------------------------------------------------------------------
LEMMA Initially == Init => IInv
<1> SUFFICES ASSUME Init PROVE IInv
  OBVIOUS
<1>1. \A h \in Holders, f \in Fields : at[h][f] = NULL
  BY DEF Init, Nothing
<1>2. TypeOK
  BY DEF Init, TypeOK, Nothing
<1>3. Owned /\ OneOwner /\ ValuesAreInTheirArena
  BY <1>1, NULLAssumption DEF Init, Owned, OneOwner, ValuesAreInTheirArena, Fields
<1>4. Progress
  BY DEF Init, Progress, Holders
<1> QED
  BY <1>2, <1>3, <1>4 DEF IInv

(* What is left to show of a step that moves no pointer.                   *)
LEMMA Moving ==
  ASSUME IInv, UNCHANGED <<at, values, live, command>>,
         command # "none",
         pc' \in {"data", "loaded", "failed"},
         pc' = "data" => pc = "columns"
  PROVE  IInv'
<1>1. TypeOK'
  BY DEF IInv, TypeOK
<1>2. Owned' /\ OneOwner' /\ ValuesAreInTheirArena'
  BY DEF IInv, Owned, OneOwner, ValuesAreInTheirArena
<1>3. Progress'
  BY DEF IInv, Progress, State
<1> QED
  BY <1>1, <1>2, <1>3 DEF IInv

LEMMA BeginKeepsIt == IInv /\ Begin => IInv'
<1> SUFFICES ASSUME IInv, Begin PROVE IInv'
  OBVIOUS
<1>1. at \in [Holders -> [Fields -> Blocks \union {NULL}]]
  BY DEF IInv, TypeOK
<1>2. New \in Blocks
  BY NewIsNew DEF Begin, Malloc
<1>3. command = "none" /\ at["nRes"] = Nothing
  BY DEF IInv, TypeOK, Progress, Begin
<1>4. \A h \in Holders, f \in Fields :
         at'[h][f] = IF h = "res" /\ f = "self" THEN New ELSE NULL
  BY <1>1, <1>3 DEF Begin, Nothing, Holders, Fields
<1>5. at["res"]["self"] = NULL
  BY DEF Begin, Nothing, Fields
<1>6. /\ at' \in [Holders -> [Fields -> Blocks \union {NULL}]] /\ live' \subseteq Blocks
      /\ Owned' /\ OneOwner'
  BY <1>5, Adding DEF Begin, Holders, Fields
<1>7. TypeOK'
  BY <1>6 DEF IInv, TypeOK, Begin
<1>8. ValuesAreInTheirArena'
  BY <1>4 DEF ValuesAreInTheirArena, Fields
<1>9. Progress'
  BY <1>3, <1>4, <1>1 DEF Progress, State, Begin, Holders, Fields
<1> QED
  BY <1>6, <1>7, <1>8, <1>9 DEF IInv

LEMMA BeginFetchKeepsIt == IInv /\ BeginFetch => IInv'
<1> SUFFICES ASSUME IInv, BeginFetch PROVE IInv'
  OBVIOUS
<1>1. at \in [Holders -> [Fields -> Blocks \union {NULL}]]
  BY DEF IInv, TypeOK
<1>2. New \in Blocks \ live /\ New # NULL /\ \A h \in Holders, f \in Fields : at[h][f] # New
  BY NewIsNew DEF BeginFetch, Malloc
<1>3. command = "none" /\ at["nRes"] = Nothing
  BY DEF IInv, TypeOK, Progress, BeginFetch
<1>4. \A f \in Fields :
         /\ at'["res"][f] = at["res"][f]
         /\ at'["nRes"][f] = CASE f = "self" -> New
                              [] f = "Column" -> at["res"]["Column"]
                              [] OTHER -> NULL
  BY <1>1 DEF BeginFetch, Nothing, Holders, Fields
<1>5. at' \in [Holders -> [Fields -> Blocks \union {NULL}]]
  BY <1>1, <1>2 DEF BeginFetch, Nothing, Holders, Fields
<1>6. TypeOK'
  BY <1>2, <1>5 DEF IInv, TypeOK, BeginFetch, Malloc
<1>7. Owned'
  <2> SUFFICES ASSUME NEW b \in Blocks
               PROVE  b \in live' <=> \E h \in Holders, f \in Fields : at'[h][f] = b
    BY DEF Owned
  <2>1. b \in live' <=> b \in live \/ b = New
    BY DEF BeginFetch, Malloc
  <2>2. b \in live <=> \E f \in Fields : at["res"][f] = b
    <3>1. \A f \in Fields : at["nRes"][f] # b
      BY <1>3, NULLAssumption DEF Nothing
    <3> QED
      BY <3>1 DEF IInv, Owned, Holders
  <2>3. at'["nRes"]["self"] = New
    BY <1>4 DEF Fields
  <2>4. ASSUME NEW f \in Fields, at'["nRes"][f] = b
        PROVE  b = New \/ at["res"]["Column"] = b
    BY <2>4, <1>4, NULLAssumption DEF Fields
  <2> QED
    BY <2>1, <2>2, <2>3, <2>4, <1>4 DEF Holders, Fields
<1>8. OneOwner'
  <2>1. \A f, g \in Fields : at["res"][f] = at["res"][g] /\ at["res"][f] # NULL => f = g
    BY DEF IInv, OneOwner, Holders
  <2>2. \A f \in Fields : at["res"][f] # New
    BY <1>2 DEF Holders
  <2> QED
    BY <2>1, <2>2, <1>2, <1>4 DEF OneOwner, Holders, Fields
<1>9. ValuesAreInTheirArena'
  BY <1>4 DEF IInv, ValuesAreInTheirArena, BeginFetch, Holders, Fields
<1>10. Progress'
  BY <1>4 DEF Progress, State, BeginFetch, Fields
<1> QED
  BY <1>6, <1>7, <1>8, <1>9, <1>10 DEF IInv

LEMMA ReceivingKeepsIt ==
  IInv /\ (ReceiveHeader \/ ParseColumns \/ ReceiveData \/ ReceiveValues) => IInv'
<1> SUFFICES ASSUME IInv, ReceiveHeader \/ ParseColumns \/ ReceiveData \/ ReceiveValues
             PROVE  IInv'
  OBVIOUS
<1> USE StateIsHolder
<1>1. at \in [Holders -> [Fields -> Blocks \union {NULL}]] /\ values \in [Blocks -> Blocks \union {NULL}]
  BY DEF IInv, TypeOK
<1>2. New \in Blocks \ live /\ New # NULL /\ \A h \in Holders, f \in Fields : at[h][f] # New
  BY NewIsNew DEF ReceiveHeader, ParseColumns, ReceiveData, ReceiveValues, Allocate, Malloc
<1>3. command # "none" /\ command' = command /\ State' = State /\ (command = "fetch" <=> State = "nRes")
  BY DEF IInv, TypeOK, State, ReceiveHeader, ParseColumns, ReceiveData, ReceiveValues
<1>4. CASE ReceiveHeader
  <2>1. \A h \in Holders, f \in Fields :
           at'[h][f] = IF h = State /\ f = "header" THEN New ELSE at[h][f]
    BY <1>1, <1>4 DEF ReceiveHeader, Allocate
  <2>2. /\ at' \in [Holders -> [Fields -> Blocks \union {NULL}]] /\ live' \subseteq Blocks
        /\ Owned' /\ OneOwner'
    BY <1>4, Adding DEF ReceiveHeader, Allocate, IInv, Progress, Fields
  <2>3. TypeOK'
    BY <1>3, <1>4, <2>2 DEF IInv, TypeOK, ReceiveHeader
  <2>4. ValuesAreInTheirArena'
    BY <1>4, <2>1 DEF IInv, ValuesAreInTheirArena, ReceiveHeader, Fields
  <2>5. Progress'
    <3>1. command # "fetch" => at'["nRes"] = at["nRes"]
      BY <1>1, <1>3, <1>4 DEF ReceiveHeader, Allocate, State, Holders
    <3> QED
      BY <1>3, <1>4, <2>1, <3>1 DEF IInv, Progress, ReceiveHeader, Holders, Fields
  <2> QED
    BY <2>2, <2>3, <2>4, <2>5 DEF IInv
<1>5. CASE ParseColumns
  <2>1. \A h \in Holders, f \in Fields :
           at'[h][f] = IF h = State /\ f = "Column" THEN New ELSE at[h][f]
    BY <1>1, <1>5 DEF ParseColumns, Allocate
  <2>2. /\ at' \in [Holders -> [Fields -> Blocks \union {NULL}]] /\ live' \subseteq Blocks
        /\ Owned' /\ OneOwner'
    BY <1>3, <1>5, Adding DEF ParseColumns, Allocate, IInv, Progress, Fields
  <2>3. TypeOK'
    BY <1>3, <1>5, <2>2 DEF IInv, TypeOK, ParseColumns
  <2>4. ValuesAreInTheirArena'
    BY <1>5, <2>1 DEF IInv, ValuesAreInTheirArena, ParseColumns, Fields
  <2>5. Progress'
    <3>1. command # "fetch" => at'["nRes"] = at["nRes"]
      BY <1>1, <1>3, <1>5 DEF ParseColumns, Allocate, State, Holders
    <3> QED
      BY <1>3, <1>5, <2>1, <3>1 DEF IInv, Progress, ParseColumns, Holders, Fields
  <2> QED
    BY <2>2, <2>3, <2>4, <2>5 DEF IInv
<1>6. CASE ReceiveData
  <2>1. \A h \in Holders, f \in Fields :
           at'[h][f] = IF h = State /\ f = "elmt" THEN New ELSE at[h][f]
    BY <1>1, <1>6 DEF ReceiveData, Allocate
  <2>2. /\ at' \in [Holders -> [Fields -> Blocks \union {NULL}]] /\ live' \subseteq Blocks
        /\ Owned' /\ OneOwner'
    BY <1>6, Adding DEF ReceiveData, Allocate, IInv, Progress, Fields
  <2>3. at'[State]["Column"] # NULL /\ at'[State]["elmt"] # NULL
    BY <1>2, <1>6, <2>1 DEF ReceiveData, Fields
  <2>4. TypeOK'
    BY <1>1, <1>2, <1>3, <1>6, <2>2, <2>3 DEF IInv, TypeOK, ReceiveData
  <2>5. ValuesAreInTheirArena'
    <3> SUFFICES ASSUME NEW h \in Holders, at'[h]["elmt"] # NULL
                 PROVE  values'[at'[h]["elmt"]] = at'[h]["arena"]
      BY DEF ValuesAreInTheirArena
    <3>1. CASE h = State
      BY <1>1, <1>2, <1>6, <2>1, <3>1 DEF IInv, Progress, ReceiveData, Fields
    <3>2. CASE h # State
      BY <1>1, <1>2, <1>6, <2>1, <3>2 DEF IInv, ValuesAreInTheirArena, ReceiveData, Fields
    <3> QED
      BY <3>1, <3>2
  <2>6. Progress'
    <3>1. command # "fetch" => at'["nRes"] = at["nRes"]
      BY <1>1, <1>3, <1>6 DEF ReceiveData, Allocate, State, Holders
    <3> QED
      BY <1>3, <1>6, <3>1 DEF IInv, Progress, ReceiveData
  <2> QED
    BY <2>2, <2>4, <2>5, <2>6 DEF IInv
<1>7. CASE ReceiveValues
  <2>1. \A h \in Holders, f \in Fields :
           at'[h][f] = IF h = State /\ f = "arena" THEN New ELSE at[h][f]
    BY <1>1, <1>7 DEF ReceiveValues, Allocate
  <2>2. /\ at' \in [Holders -> [Fields -> Blocks \union {NULL}]] /\ live' \subseteq Blocks
        /\ Owned' /\ OneOwner'
    BY <1>7, Adding DEF ReceiveValues, Allocate, Fields
  <2>3. at[State]["elmt"] \in Blocks /\ at[State]["Column"] # NULL
    BY <1>1, <1>7 DEF IInv, TypeOK, ReceiveValues, Fields
  <2>4. TypeOK'
    BY <1>1, <1>2, <1>3, <1>7, <2>1, <2>2, <2>3 DEF IInv, TypeOK, ReceiveValues, Fields
  <2>5. ValuesAreInTheirArena'
    <3> SUFFICES ASSUME NEW h \in Holders, at'[h]["elmt"] # NULL
                 PROVE  values'[at'[h]["elmt"]] = at'[h]["arena"]
      BY DEF ValuesAreInTheirArena
    <3>1. CASE h = State
      BY <1>1, <1>7, <2>1, <2>3, <3>1 DEF ReceiveValues, Fields
    <3>2. CASE h # State
      <4>1. at[h]["elmt"] # at[State]["elmt"]
        BY <2>1, <3>2, NULLAssumption DEF IInv, OneOwner, Fields
      <4> QED
        BY <1>1, <1>7, <2>1, <2>3, <3>2, <4>1 DEF IInv, ValuesAreInTheirArena, ReceiveValues, Fields
    <3> QED
      BY <3>1, <3>2
  <2>6. Progress'
    <3>1. command # "fetch" => at'["nRes"] = at["nRes"]
      BY <1>1, <1>3, <1>7 DEF ReceiveValues, Allocate, State, Holders
    <3> QED
      BY <1>3, <1>7, <3>1 DEF IInv, Progress, ReceiveValues
  <2> QED
    BY <2>2, <2>4, <2>5, <2>6 DEF IInv
<1> QED
  BY <1>4, <1>5, <1>6, <1>7

LEMMA EndingKeepsIt ==
  IInv /\ (ExecuteReturns \/ PrepareReturns \/ ExecuteFails \/ FreeResult) => IInv'
<1>1. ASSUME IInv, ExecuteReturns PROVE IInv'
  <2>1. TypeOK'
    BY <1>1 DEF IInv, TypeOK, ExecuteReturns, Return
  <2>2. Owned' /\ OneOwner' /\ ValuesAreInTheirArena'
    BY <1>1 DEF IInv, Owned, OneOwner, ValuesAreInTheirArena, ExecuteReturns
  <2>3. Progress'
    BY <1>1 DEF IInv, Progress, State, ExecuteReturns, Return
  <2> QED
    BY <2>1, <2>2, <2>3 DEF IInv
<1>2. ASSUME IInv, PrepareReturns \/ ExecuteFails \/ FreeResult PROVE IInv'
  <2>1. FreeRes /\ command # "fetch" /\ command' = "none" /\ pc' = "idle" /\ values' = values
    BY <1>2 DEF IInv, TypeOK, PrepareReturns, ExecuteFails, FreeResult, Return
  <2>2. /\ at' \in [Holders -> [Fields -> Blocks \union {NULL}]] /\ live' \subseteq Blocks
        /\ Owned' /\ OneOwner'
        /\ \A h \in Holders, f \in Fields : at'[h][f] = NULL
    BY <1>2, <2>1, FreeingRes
  <2>3. TypeOK'
    BY <1>2, <2>1, <2>2 DEF IInv, TypeOK
  <2>4. ValuesAreInTheirArena'
    BY <2>2 DEF ValuesAreInTheirArena, Fields
  <2>5. Progress'
    <3>1. at'["nRes"] = Nothing
      BY <2>2 DEF Nothing, Holders
    <3> QED
      BY <2>1, <3>1 DEF Progress
  <2> QED
    BY <2>2, <2>3, <2>4, <2>5 DEF IInv
<1> QED
  BY <1>1, <1>2

LEMMA FetchEndKeepsIt == IInv /\ (FetchReturns \/ FetchFails) => IInv'
<1> SUFFICES ASSUME IInv, FetchReturns \/ FetchFails PROVE IInv'
  OBVIOUS
<1>1. at \in [Holders -> [Fields -> Blocks \union {NULL}]]
  BY DEF IInv, TypeOK
<1>2. /\ at' \in [Holders -> [Fields -> Blocks \union {NULL}]] /\ live' \subseteq Blocks
      /\ Owned' /\ OneOwner'
  BY SwappingPages, DroppingPage
<1>3. pc' = "idle" /\ command' = "none" /\ values' = values /\ at'["nRes"] = Nothing
  BY <1>1 DEF FetchReturns, FetchFails, Return, Holders
<1>4. TypeOK'
  BY <1>2, <1>3 DEF IInv, TypeOK
<1>5. \/ at'["res"]["elmt"] = at["res"]["elmt"] /\ at'["res"]["arena"] = at["res"]["arena"]
      \/ at'["res"]["elmt"] = at["nRes"]["elmt"] /\ at'["res"]["arena"] = at["nRes"]["arena"]
  BY <1>1 DEF FetchReturns, FetchFails, Swapped, Holders, Fields
<1>6. at'["nRes"]["elmt"] = NULL
  BY <1>3 DEF Nothing, Fields
<1>7. ValuesAreInTheirArena'
  BY <1>3, <1>5, <1>6 DEF IInv, ValuesAreInTheirArena, Holders
<1>8. Progress'
  BY <1>3 DEF Progress
<1> QED
  BY <1>2, <1>4, <1>7, <1>8 DEF IInv

(* Every step of a response, of its failure and of its release keeps the   *)
(* ownership of all blocks.                                                *)
THEOREM InvariantHolds == Spec => []IInv
<1>1. IInv /\ [Next]_vars => IInv'
  <2> SUFFICES ASSUME IInv, [Next]_vars PROVE IInv'
    OBVIOUS
  <2>1. CASE Begin
    BY <2>1, BeginKeepsIt
  <2>2. CASE BeginFetch
    BY <2>2, BeginFetchKeepsIt
  <2>3. CASE Fail \/ ParseNoColumns \/ ReceiveNoData \/ ReceiveLast
    <3>1. command # "none"
      BY <2>3 DEF IInv, TypeOK, Fail, ParseNoColumns, ReceiveNoData, ReceiveLast
    <3> QED
      BY <2>3, <3>1, Moving DEF Fail, ParseNoColumns, ReceiveNoData, ReceiveLast
  <2>4. CASE ReceiveHeader \/ ParseColumns \/ ReceiveData \/ ReceiveValues
    BY <2>4, ReceivingKeepsIt
  <2>5. CASE ExecuteReturns \/ PrepareReturns \/ ExecuteFails \/ FreeResult
    BY <2>5, EndingKeepsIt
  <2>6. CASE FetchReturns \/ FetchFails
    BY <2>6, FetchEndKeepsIt
  <2>7. CASE UNCHANGED vars
    BY <2>7 DEF vars, IInv, TypeOK, Owned, OneOwner, ValuesAreInTheirArena, Progress, State
  <2> QED
    BY <2>1, <2>2, <2>3, <2>4, <2>5, <2>6, <2>7 DEF Next
<1> QED
  BY Initially, <1>1, PTL DEF Spec

(* The pointers of the results, the arenas and the steps of a response     *)
(* stay in their types; a table is filled only where there are columns.    *)
THEOREM TypeCorrect == Spec => []TypeOK
<1>1. IInv => TypeOK
  BY DEF IInv
<1> QED
  BY <1>1, InvariantHolds, PTL

(* Whatever step of a response fails, no block leaks and none dangles.     *)
THEOREM NothingLeaksOrDangles == Spec => []NoLeakNoDangling
<1>1. IInv => NoLeakNoDangling
  BY OwnedIsNoLeak DEF IInv
<1> QED
  BY <1>1, InvariantHolds, PTL

(* No block is freed twice: it has one owner, the columns that a page      *)
(* borrows apart.                                                          *)
THEOREM BlocksHaveOneOwner == Spec => []OneOwner
<1>1. IInv => OneOwner
  BY DEF IInv
<1> QED
  BY <1>1, InvariantHolds, PTL

(* The values of a page are freed with its table and not before.           *)
THEOREM ValuesLiveWithTheirPage == Spec => []ValuesAreInTheirArena
<1>1. IInv => ValuesAreInTheirArena
  BY DEF IInv
<1> QED
  BY <1>1, InvariantHolds, PTL

=============================================================================

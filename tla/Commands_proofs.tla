-------------------------- MODULE Commands_proofs --------------------------
(***************************************************************************)
(* What the commands of a process promise holds for every set of           *)
(* connections and descriptors, every set of error codes, and results of   *)
(* any number of columns and rows: through refusals, lost links, failed    *)
(* sends and descriptors that are used again.                              *)
(***************************************************************************)
EXTENDS Commands, SequenceTheorems, WellFoundedInduction, TLAPS

-----------------------------------------------------------------------------
(* The types of headers, items, results and calls                          *)
Numbers == {"Error-Code", "Column-Count", "Row-Count", "Row-Count-Sent", "Statement-ID"}
Types == {"VK_LONG", "VK_UNKNOW"}
Words == {"Update-Count", "Result-Set"}
Lines ==
    [name : Numbers, value : Int]
    \union [name : {"Column-Types"}, value : Seq(Types)]
    \union [name : {"Result-Type"}, value : Seq(Words)]
    \union [name : {"Column-Updateability"}, value : BOOLEAN]
Headers == [status : {"OK", "ERROR", "none"}, lines : Seq(Lines)]
Items == [kind : {"header", "count", "row", "bad", "leftover"}, header : Headers]
States ==
    [ret : {0, 1}, error_code : Int, status : {"OK", "ERROR"}, columns : Seq(Types),
     borrowed : BOOLEAN, row_count : Nat, row_count_sent : Nat, id_statement : Int,
     updateability : BOOLEAN, resultType : {"UNKNOW", "UPDATE_COUNT", "RESULT_SET"}]

Ops == {"login", "query", "prepare", "fetch", "close_statement", "logout", "quit"}
Steps == {"send", "header", "count", "rows", "close"}
CallsMade ==
    [op : Ops, c : Conns, step : Steps, left : Int, own : BOOLEAN, header : Headers,
     state : States]
Told ==
    [c : Conns \union {"none"}, op : Ops \union {"none"}, ret : {0, 1}, code : Int,
     own : BOOLEAN, header : Headers, state : States]

Fresh(op) == IF op = "fetch" THEN PageResult(<<"VK_LONG">>, Asked, FALSE) ELSE NewResult

-----------------------------------------------------------------------------
LEMMA Least ==
    ASSUME NEW T \in SUBSET Nat, T # {}
    PROVE  \E i \in T : \A j \in T : i <= j
<1>1. PICK i \in T : \A j \in T : ~(<<j, i>> \in OpToRel(<, Nat))
  BY NatLessThanWellFounded, WFMin
<1>2. \A j \in T : ~(j < i)
  BY <1>1 DEF OpToRel
<1> QED  BY <1>2

LEMMA LowestIsFree ==
    ASSUME Free # {}
    PROVE  Lowest \in Free
<1>1. Free \in SUBSET Nat
  BY CommandsAssumption DEF Free
<1>2. \E i \in Free : \A j \in Free : i =< j
  BY <1>1, Least
<1> QED  BY <1>2 DEF Lowest, Min

LEMMA OwnersAreNamed ==
    {"free", "orphan", "other", "none"} \cap Conns = {}
  BY CommandsAssumption

LEMMA FirstHit ==
    ASSUME NEW h \in Headers, NEW section, Has(h, section)
    PROVE  \E i \in DOMAIN h.lines :
              /\ IsFoundIn(h.lines[i].name, section) /\ Get(h, section) = h.lines[i].value
              /\ \A j \in DOMAIN h.lines : IsFoundIn(h.lines[j].name, section) => i <= j
<1>1. h.lines \in Seq(Lines)
  BY DEF Headers
<1>2. DOMAIN h.lines = 1 .. Len(h.lines) /\ Len(h.lines) \in Nat
  BY <1>1, LenProperties
<1>3. Hits(h, section) \in SUBSET Nat /\ Hits(h, section) # {}
  BY <1>2 DEF Hits, Has
<1>4. \E i \in Hits(h, section) : \A j \in Hits(h, section) : i <= j
  BY <1>3, Least
<1>5. PICK i \in Hits(h, section) :
         (\A j \in Hits(h, section) : i <= j) /\ Get(h, section) = h.lines[i].value
  BY <1>4 DEF Get
<1> QED  BY <1>5 DEF Hits

LEMMA LineTypes ==
    ASSUME NEW h \in Headers, NEW i \in DOMAIN h.lines
    PROVE  /\ h.lines[i].name \in Numbers => h.lines[i].value \in Int
           /\ h.lines[i].name = "Column-Types" => h.lines[i].value \in Seq(Types)
           /\ h.lines[i].name = "Result-Type" => h.lines[i].value \in Seq(Words)
           /\ h.lines[i].name = "Column-Updateability" => h.lines[i].value \in BOOLEAN
<1>1. h.lines \in Seq(Lines)
  BY DEF Headers
<1>2. h.lines[i] \in Lines
  BY <1>1, LenProperties, ElementOfSeq
<1> QED  BY <1>2 DEF Lines, Numbers

LEMMA GetTypes ==
    ASSUME NEW h \in Headers, NEW section, Has(h, section)
    PROVE  /\ section \in Numbers => Get(h, section) \in Int
           /\ section = "Column-Types" => Get(h, section) \in Seq(Types)
           /\ section = "Result-Type" => Get(h, section) \in Seq(Words)
           /\ section = "Column-Updateability" => Get(h, section) \in BOOLEAN
<1>1. PICK i \in DOMAIN h.lines :
              IsFoundIn(h.lines[i].name, section) /\ Get(h, section) = h.lines[i].value
  BY FirstHit
<1>2. /\ section \in Numbers => h.lines[i].name \in Numbers
      /\ section \notin Numbers => h.lines[i].name = section
  BY <1>1 DEF IsFoundIn, Numbers
<1> QED  BY <1>1, <1>2, LineTypes DEF Numbers

LEMMA ClampedIsNat == \A n \in Int : Clamped(n) \in Nat
  BY DEF Clamped

OfStatus(s, e, w) == [s EXCEPT !.error_code = e, !.status = w]
OfOutcome(s, e, w, r) == [s EXCEPT !.error_code = e, !.status = w, !.ret = r]

LEMMA StatusSet ==
    ASSUME NEW s \in States, NEW e \in Int, NEW w \in {"OK", "ERROR"}
    PROVE  /\ OfStatus(s, e, w) \in States /\ OfStatus(s, e, w).columns = s.columns
           /\ OfStatus(s, e, w).ret = s.ret /\ OfStatus(s, e, w).error_code = e
<1>1. OfStatus(s, e, w) \in States
  BY DEF OfStatus, States
<1> QED  BY <1>1 DEF OfStatus, States

LEMMA OutcomeSet ==
    ASSUME NEW s \in States, NEW e \in Int, NEW w \in {"OK", "ERROR"}, NEW r \in {0, 1}
    PROVE  /\ OfOutcome(s, e, w, r) \in States /\ OfOutcome(s, e, w, r).columns = s.columns
           /\ OfOutcome(s, e, w, r).ret = r /\ OfOutcome(s, e, w, r).error_code = e
<1>1. OfOutcome(s, e, w, r) \in States
  BY DEF OfOutcome, States
<1> QED  BY <1>1 DEF OfOutcome, States

LEMMA StatusTypes ==
    ASSUME NEW h \in Headers, NEW s \in States, NEW junk \in Int
    PROVE  /\ WithStatus(h, s, junk) \in States
           /\ WithStatus(h, s, junk).columns = s.columns
           /\ WithStatus(h, s, junk).ret # 0 /\ s.ret = 0 /\ h.status # "none"
                 => WithStatus(h, s, junk).error_code # 0
<1>1. ErrorCode(h, junk) \in Int
  BY GetTypes DEF ErrorCode, Numbers
<1> DEFINE e == ErrorCode(h, junk)
           r == IF e = 0 THEN 0 ELSE 1
<1>2. CASE h.status = "OK"
  <2>1. WithStatus(h, s, junk) = OfStatus(s, 0, "OK")
    BY <1>2 DEF WithStatus, OfStatus
  <2> DEFINE t == OfStatus(s, 0, "OK")
  <2>2. t \in States /\ t.columns = s.columns /\ t.ret = s.ret
    BY StatusSet
  <2> HIDE DEF t
  <2> QED  BY <2>1, <2>2 DEF t
<1>3. CASE h.status = "none"
  <2>1. WithStatus(h, s, junk) = [s EXCEPT !.status = "ERROR", !.ret = 1]
    BY <1>3 DEF WithStatus
  <2>2. [s EXCEPT !.status = "ERROR", !.ret = 1] \in States
    BY DEF States
  <2>3. [s EXCEPT !.status = "ERROR", !.ret = 1].columns = s.columns
    BY DEF States
  <2> QED  BY <1>3, <2>1, <2>2, <2>3
<1>4. CASE h.status \notin {"OK", "none"}
  <2>1. WithStatus(h, s, junk) = OfOutcome(s, e, "ERROR", r)
    BY <1>4 DEF WithStatus, OfOutcome
  <2>2. e \in Int /\ r \in {0, 1} /\ (r # 0 => e # 0)
    BY <1>1
  <2> HIDE DEF e, r
  <2> DEFINE t == OfOutcome(s, e, "ERROR", r)
  <2>3. t \in States /\ t.columns = s.columns /\ t.ret = r /\ t.error_code = e
    BY <2>2, OutcomeSet
  <2> HIDE DEF t
  <2> QED  BY <2>1, <2>2, <2>3 DEF t
<1> QED  BY <1>2, <1>3, <1>4

Fits(s) == s \in States /\ Len(s.columns) <= MaxColumns

LEMMA ColumnsTypes ==
    ASSUME NEW h \in Headers, NEW s, Fits(s)
    PROVE  Fits(WithColumns(h, s))
<1>1. CASE ~Has(h, "Column-Count")
  BY <1>1 DEF WithColumns
<1>2. CASE Has(h, "Column-Count")
  <2> DEFINE n == Get(h, "Column-Count")
             cols == [i \in 1 .. n |-> "VK_UNKNOW"]
  <2>1. CASE n \in 0 .. MaxColumns
    <3>1. n \in Nat /\ n <= MaxColumns
      BY <2>1, MaxColumnsAssumption
    <3>2. cols \in [1 .. n -> Types]
      BY DEF Types
    <3>3. cols \in Seq(Types) /\ Len(cols) = n
      BY <3>1, <3>2, SeqDef
    <3>4. WithColumns(h, s) = [s EXCEPT !.columns = cols, !.borrowed = FALSE]
      BY <1>2, <2>1 DEF WithColumns
    <3> HIDE DEF n, cols
    <3> QED  BY <3>1, <3>3, <3>4 DEF Fits, States
  <2>2. CASE n \notin 0 .. MaxColumns
    <3>1. WithColumns(h, s) = OfOutcome(s, -1, "ERROR", 1)
      BY <1>2, <2>2 DEF WithColumns, OfOutcome
    <3>2. PICK e \in Int : e = -1
      OBVIOUS
    <3>3. s \in States
      BY DEF Fits
    <3>4. /\ OfOutcome(s, e, "ERROR", 1) \in States
          /\ OfOutcome(s, e, "ERROR", 1).columns = s.columns
      BY <3>3, OutcomeSet
    <3> QED  BY <3>1, <3>2, <3>4 DEF Fits
  <2> QED  BY <2>1, <2>2
<1> QED  BY <1>1, <1>2

LEMMA TypesTypes ==
    ASSUME NEW h \in Headers, NEW s, Fits(s)
    PROVE  Fits(WithTypes(h, s))
<1>1. CASE ~Has(h, "Column-Types")
  BY <1>1 DEF WithTypes
<1>2. CASE Has(h, "Column-Types")
  <2> DEFINE types == Get(h, "Column-Types")
             cols == [i \in DOMAIN s.columns |->
                         IF i \in DOMAIN types THEN types[i] ELSE s.columns[i]]
  <2>1. types \in Seq(Types) /\ s.columns \in Seq(Types)
    BY <1>2, GetTypes DEF Fits, States
  <2> HIDE DEF types
  <2>2. PICK k \in Nat : k = Len(s.columns) /\ DOMAIN s.columns = 1 .. k
    BY <2>1, LenProperties
  <2>3. \A i \in 1 .. k : (IF i \in DOMAIN types THEN types[i] ELSE s.columns[i]) \in Types
    BY <2>1, <2>2, LenProperties, ElementOfSeq
  <2>4. cols \in [1 .. k -> Types]
    BY <2>2, <2>3
  <2>5. cols \in Seq(Types) /\ Len(cols) = k
    BY <2>2, <2>4, SeqDef
  <2>6. WithTypes(h, s) = [s EXCEPT !.columns = cols]
    BY <1>2 DEF WithTypes, types
  <2> HIDE DEF cols
  <2> QED  BY <2>2, <2>5, <2>6 DEF Fits, States
<1> QED  BY <1>1, <1>2

LEMMA RowsTypes ==
    ASSUME NEW h \in Headers, NEW s, Fits(s)
    PROVE  Fits(WithRows(h, s)) /\ WithRows(h, s).ret = s.ret
<1> DEFINE t == IF Has(h, "Row-Count")
                THEN [s EXCEPT !.row_count = Clamped(Get(h, "Row-Count"))] ELSE s
<1>1. Fits(t) /\ t.ret = s.ret
  BY GetTypes, ClampedIsNat DEF Fits, States, Numbers
<1>2. WithRows(h, s) = IF Has(h, "Row-Count-Sent")
        THEN [t EXCEPT !.row_count_sent = Clamped(Get(h, "Row-Count-Sent"))] ELSE t
  BY DEF WithRows
<1> DEFINE k == Clamped(Get(h, "Row-Count-Sent"))
<1>3. Has(h, "Row-Count-Sent") => k \in Nat
  BY GetTypes, ClampedIsNat DEF Numbers
<1> HIDE DEF t, k
<1>4. CASE ~Has(h, "Row-Count-Sent")
  BY <1>1, <1>2, <1>4
<1>5. CASE Has(h, "Row-Count-Sent")
  <2>1. WithRows(h, s) = [t EXCEPT !.row_count_sent = k] /\ k \in Nat
    BY <1>2, <1>3, <1>5 DEF k
  <2> QED  BY <1>1, <2>1 DEF Fits, States
<1> QED  BY <1>4, <1>5

LEMMA StatementTypes ==
    ASSUME NEW h \in Headers, NEW s, Fits(s)
    PROVE  Fits(WithStatement(h, s))
<1> DEFINE t == IF Has(h, "Statement-ID")
                THEN [s EXCEPT !.id_statement = Get(h, "Statement-ID")] ELSE s
<1>1. Fits(t)
  BY GetTypes DEF Fits, States, Numbers
<1>2. WithStatement(h, s) = IF Has(h, "Column-Updateability")
        THEN [t EXCEPT !.updateability = Get(h, "Column-Updateability")] ELSE t
  BY DEF WithStatement
<1> HIDE DEF t
<1> QED  BY <1>1, <1>2, GetTypes DEF Fits, States

LEMMA ResultTypeTypes ==
    ASSUME NEW h \in Headers, NEW s, Fits(s)
    PROVE  Fits(WithResultType(h, s))
<1> DEFINE words == Get(h, "Result-Type")
           r == CASE words = <<"Update-Count">> -> "UPDATE_COUNT"
                  [] words = <<"Result-Set">> -> "RESULT_SET"
                  [] OTHER -> "UNKNOW"
<1>1. WithResultType(h, s) \in {s, [s EXCEPT !.ret = 1], [s EXCEPT !.resultType = r]}
  BY DEF WithResultType
<1>2. r \in {"UNKNOW", "UPDATE_COUNT", "RESULT_SET"}
  OBVIOUS
<1> HIDE DEF r
<1> QED  BY <1>1, <1>2 DEF Fits, States

LEMMA TreatedTypes ==
    ASSUME NEW h \in Headers, NEW s, Fits(s), NEW junk \in Int
    PROVE  Fits(Treated(h, s, junk))
<1> DEFINE t == WithStatus(h, s, junk)
           u == WithColumns(h, t)
<1>1. Fits(t)
  BY StatusTypes DEF Fits
<1>2. Fits(u)
  BY <1>1, ColumnsTypes
<1>3. Treated(h, s, junk) =
         IF t.ret # 0 THEN t
         ELSE IF u.ret # 0 THEN u
         ELSE WithResultType(h, WithStatement(h, WithRows(h, WithTypes(h, u))))
  BY DEF Treated
<1> HIDE DEF t, u
<1> QED  BY <1>1, <1>2, <1>3, TypesTypes, RowsTypes, StatementTypes, ResultTypeTypes

LEMMA NewResultFits == Fits(NewResult) /\ NewResult.ret = 0 /\ NewResult.error_code = 0
<1>1. <<>> \in Seq(Types) /\ Len(<<>>) = 0
  BY EmptySeq
<1> QED  BY <1>1, MaxColumnsAssumption DEF Fits, States, NewResult

LEMMA PageResultFits ==
    ASSUME NEW types \in Seq(Types), Len(types) <= MaxColumns, NEW n \in Nat, NEW y \in BOOLEAN
    PROVE  /\ Fits(PageResult(types, n, y))
           /\ PageResult(types, n, y).ret = 0 /\ PageResult(types, n, y).error_code = 0
           /\ PageResult(types, n, y).row_count_sent = n
<1> DEFINE s == PageResult(types, n, y)
<1>1. NewResult \in States /\ NewResult.ret = 0 /\ NewResult.error_code = 0
  BY NewResultFits DEF Fits
<1>2. s = [NewResult EXCEPT !.columns = types, !.borrowed = TRUE, !.row_count_sent = n,
                            !.updateability = y]
  BY DEF PageResult
<1> HIDE DEF s
<1>3. s \in States
  BY <1>1, <1>2 DEF States
<1>4. s.columns = types /\ s.ret = 0 /\ s.error_code = 0 /\ s.row_count_sent = n
  BY <1>1, <1>2 DEF States
<1>5. Fits(s)
  BY <1>3, <1>4 DEF Fits
<1> QED  BY <1>4, <1>5 DEF s

LEMMA FreshFits ==
    ASSUME NEW op
    PROVE  Fits(Fresh(op)) /\ Fresh(op).ret = 0 /\ Fresh(op).error_code = 0
<1> DEFINE cols == <<"VK_LONG">>
<1>1. cols \in Seq(Types) /\ Len(cols) = 1
  BY DEF Types
<1>2. Len(cols) <= MaxColumns /\ Asked \in Nat
  BY <1>1, MaxColumnsAssumption DEF Asked
<1>3. Fresh(op) = IF op = "fetch" THEN PageResult(cols, Asked, FALSE) ELSE NewResult
  BY DEF Fresh
<1> HIDE DEF cols
<1> QED  BY <1>1, <1>2, <1>3, NewResultFits, PageResultFits

LEMMA NoHeaderType == NoHeader \in Headers /\ OK \in Headers /\ Leftover \in Items
<1>1. <<>> \in Seq(Lines)
  BY EmptySeq
<1> QED  BY <1>1 DEF NoHeader, OK, Headers, Leftover, Item, Items

-----------------------------------------------------------------------------
TypeInv ==
    /\ TypeOK
    /\ rbuf \in [Conns -> Seq(Items)] /\ wire \in [Descriptors -> Seq(Items)]
    /\ call # NoCall =>
          /\ call \in CallsMade /\ Fits(call.state)
          /\ call.step \in {"send", "header"} => call.state = Fresh(call.op)
    /\ told \in Told

LEMMA SocketOwner ==
    ASSUME TypeInv, NEW c \in Conns
    PROVE  /\ OwnerOf(socket[c]) \in Conns \union {"free", "orphan", "other"}
           /\ OwnerOf(socket[c]) # "free" =>
                 socket[c] \in Descriptors /\ OwnerOf(socket[c]) = owner[socket[c]]
  BY DEF TypeInv, TypeOK, OwnerOf

LEMMA PendingType ==
    ASSUME TypeInv, NEW c \in Conns
    PROVE  /\ Pending(c) \in Seq(Items)
           /\ DOMAIN Pending(c) = 1 .. Len(Pending(c)) /\ Len(Pending(c)) \in Nat
           /\ Pending(c) # <<>> => 1 \in DOMAIN Pending(c)
<1>1. rbuf[c] \in Seq(Items) /\ <<>> \in Seq(Items)
  BY EmptySeq DEF TypeInv
<1>2. OwnerOf(socket[c]) \in Conns => wire[socket[c]] \in Seq(Items)
  BY SocketOwner, OwnersAreNamed DEF TypeInv
<1>3. Pending(c) \in Seq(Items)
  BY <1>1, <1>2, ConcatProperties DEF Pending
<1> HIDE DEF Pending
<1> QED  BY <1>3, LenProperties, EmptySeq

LEMMA TakesType ==
    ASSUME TypeInv, NEW c \in Conns, NEW n \in DOMAIN Pending(c), Takes(c, n)
    PROVE  rbuf' \in [Conns -> Seq(Items)] /\ wire' \in [Descriptors -> Seq(Items)]
<1> DEFINE p == Pending(c)
<1>1. p \in Seq(Items) /\ DOMAIN p = 1 .. Len(p) /\ Len(p) \in Nat /\ \A i \in 1 .. Len(p) : p[i] \in Items
  BY PendingType, ElementOfSeq
<1>2. PICK k \in {n, Len(p)} :
        /\ rbuf' = [rbuf EXCEPT ![c] = SubSeq(p, n + 1, k)]
        /\ wire' = IF OwnerOf(socket[c]) \in Conns
                   THEN [wire EXCEPT ![socket[c]] = SubSeq(p, k + 1, Len(p))] ELSE wire
  BY DEF Takes
<1> HIDE DEF p
<1>3. n \in 1 .. Len(p)
  BY <1>1 DEF p
<1>4. SubSeq(p, n + 1, k) \in Seq(Items) /\ SubSeq(p, k + 1, Len(p)) \in Seq(Items)
  <2>1. \A i \in n + 1 .. k : p[i] \in Items
    BY <1>1, <1>2, <1>3
  <2>2. \A i \in k + 1 .. Len(p) : p[i] \in Items
    BY <1>1, <1>2, <1>3
  <2>3. n + 1 \in Int /\ k \in Int /\ k + 1 \in Int /\ Len(p) \in Int
    BY <1>1, <1>2, <1>3
  <2> QED  BY <2>1, <2>2, <2>3, SubSeqProperties
<1>5. OwnerOf(socket[c]) \in Conns => socket[c] \in Descriptors
  BY SocketOwner, OwnersAreNamed
<1> QED  BY <1>2, <1>4, <1>5 DEF TypeInv

LEMMA AgedType ==
    ASSUME NEW s \in Seq(Items)
    PROVE  Aged(s) \in Seq(Items)
  BY NoHeaderType DEF Aged

-----------------------------------------------------------------------------
LEMMA CallTypes ==
    ASSUME NEW c \in Conns, NEW op \in Ops, NEW st, st = Fresh(op), Calls(c, op, st)
    PROVE  /\ call' \in CallsMade /\ call'.state = st /\ call'.op = op /\ call'.c = c
           /\ call'.step = "send"
<1>1. st \in States
  BY FreshFits DEF Fits
<1> QED  BY <1>1, NoHeaderType DEF Calls, CallsMade, Steps

LEMMA ReturnTypes ==
    ASSUME NEW done \in CallsMade, NEW ret \in {0, 1}, NEW code \in Int, Returns(done, ret, code)
    PROVE  call' = NoCall /\ told' \in Told
  BY DEF Returns, CallsMade, Told

LEMMA EndTypes ==
    ASSUME TypeInv, NEW done \in CallsMade, NEW ret \in {0, 1}, NEW code \in Int,
           Ends(done, ret, code)
    PROVE  /\ call' = NoCall /\ told' \in Told /\ socket' = socket
           /\ error_code' \in [Conns -> Int] /\ connected' \in [Conns -> BOOLEAN]
           /\ open' \in [Conns -> BOOLEAN]
<1> DEFINE e == IF done.op = "login" /\ ret = 1 /\ code = 0 THEN -1 ELSE code
<1>1. /\ Returns(done, ret, e) /\ error_code' = [error_code EXCEPT ![done.c] = e]
      /\ connected' \in {connected, [connected EXCEPT ![done.c] = ret = 0]}
      /\ open' \in {open, [open EXCEPT ![done.c] = ret = 0], [open EXCEPT ![done.c] = FALSE]}
      /\ socket' = socket
  <2>1. CASE done.op = "login"
    BY <2>1 DEF Ends
  <2>2. CASE done.op \in {"logout", "quit"}
    BY <2>2 DEF Ends
  <2>3. CASE done.op \notin {"login", "logout", "quit"}
    BY <2>3 DEF Ends
  <2> QED  BY <2>1, <2>2, <2>3
<1>2. e \in Int
  OBVIOUS
<1> HIDE DEF e
<1> QED  BY <1>1, <1>2, ReturnTypes DEF TypeInv, TypeOK

LEMMA GoTypes ==
    ASSUME TypeInv, NEW done \in CallsMade, NEW step \in Steps, Goes(done, step)
    PROVE  /\ call' \in CallsMade /\ call'.state = done.state /\ call'.op = done.op
           /\ call'.c = done.c /\ call'.step = step /\ call'.left = done.state.row_count_sent
           /\ call'.own = done.own /\ call'.header = done.header
           /\ error_code' \in [Conns -> Int] /\ socket' = socket /\ connected' = connected
           /\ open' = open /\ told' = told
<1> DEFINE s == done.state
<1>1. s \in States /\ s.row_count_sent \in Int /\ s.error_code \in Int
  BY DEF CallsMade, States
<1>2. call' = [done EXCEPT !.step = step, !.left = s.row_count_sent]
  BY DEF Goes
<1> HIDE DEF s
<1>3. call' \in CallsMade
  BY <1>1, <1>2 DEF CallsMade
<1>4. /\ call'.state = s /\ call'.op = done.op /\ call'.c = done.c /\ call'.step = step
      /\ call'.left = s.row_count_sent /\ call'.own = done.own /\ call'.header = done.header
  BY <1>1, <1>2 DEF CallsMade, s
<1> QED  BY <1>1, <1>3, <1>4 DEF Goes, TypeInv, TypeOK, s

LEMMA CloseTypes ==
    ASSUME TypeInv, NEW d, CloseDescriptor(d)
    PROVE  /\ owner' \in [Descriptors -> Conns \union {"free", "orphan", "other"}]
           /\ alive' \in [Descriptors -> BOOLEAN] /\ wire' \in [Descriptors -> Seq(Items)]
<1>1. <<>> \in Seq(Items)
  BY EmptySeq
<1> QED  BY <1>1 DEF CloseDescriptor, TypeInv, TypeOK, net

-----------------------------------------------------------------------------
Bodied == {"count", "row", "bad"}

LEMMA HeadedShape ==
    ASSUME NEW status \in {"OK", "ERROR", "none"}, NEW lines \in Seq(Lines), NEW k \in Nat,
           NEW body \in [1 .. k -> Bodied]
    PROVE  /\ Headed(status, lines, body) \in Seq(Items)
           /\ Len(Headed(status, lines, body)) = k + 1
           /\ Headed(status, lines, body)[1] =
                 Item("header", [status |-> status, lines |-> lines])
           /\ \A i \in 2 .. k + 1 : Headed(status, lines, body)[i] \in Items
                                      /\ Headed(status, lines, body)[i].kind = body[i - 1]
<1> DEFINE h == Item("header", [status |-> status, lines |-> lines])
           rest == [i \in 1 .. k |-> Item(body[i], NoHeader)]
<1>1. h \in Items
  BY DEF Item, Items, Headers
<1>2. \A i \in 1 .. k : rest[i] \in Items /\ rest[i].kind = body[i]
  BY NoHeaderType DEF Item, Items, Bodied
<1>3. rest \in [1 .. k -> Items]
  BY <1>2
<1>4. rest \in Seq(Items) /\ Len(rest) = k
  BY <1>3, SeqDef
<1>5. Headed(status, lines, body) = <<h>> \o rest
  BY DEF Headed
<1> HIDE DEF h, rest
<1>6. <<h>> \in Seq(Items) /\ Len(<<h>>) = 1 /\ <<h>>[1] = h
  BY <1>1
<1>7. /\ <<h>> \o rest \in Seq(Items) /\ Len(<<h>> \o rest) = 1 + k
      /\ \A i \in 1 .. 1 + k : (<<h>> \o rest)[i] = IF i <= 1 THEN <<h>>[i] ELSE rest[i - 1]
  BY <1>4, <1>6, ConcatProperties
<1>8. \A i \in 2 .. k + 1 : (<<h>> \o rest)[i] = rest[i - 1] /\ i - 1 \in 1 .. k
  BY <1>7
<1> QED  BY <1>2, <1>5, <1>6, <1>7, <1>8 DEF h

LEMMA BodyType ==
    ASSUME NEW k \in Nat, NEW body \in Bodies(k)
    PROVE  body \in [1 .. k -> Bodied]
  BY DEF Bodies, Bodied

LEMMA LineIs ==
    ASSUME NEW n
    PROVE  /\ n \in Int => \A s \in Numbers : Line(s, n) \in Lines
           /\ n \in Seq(Types) => Line("Column-Types", n) \in Lines
           /\ n \in Seq(Words) => Line("Result-Type", n) \in Lines
           /\ n \in BOOLEAN => Line("Column-Updateability", n) \in Lines
  BY DEF Line, Lines

LEMMA WordsType ==
    /\ <<"Update-Count">> \in Seq(Words) /\ <<"Result-Set">> \in Seq(Words)
    /\ <<"Update-Count", "Update-Count">> \in Seq(Words) /\ <<"VK_LONG">> \in Seq(Types)
  BY DEF Words, Types

IsHeaded(r, status, lines, k) ==
    \E body \in [1 .. k -> Bodied] : r = Headed(status, lines, body)

LEMMA RefusalsAre ==
    ASSUME NEW r \in Refusals
    PROVE  \/ \E e \in ErrorCodes : IsHeaded(r, "ERROR", <<Line("Error-Code", e)>>, 0)
           \/ \E status \in {"ERROR", "none"} : IsHeaded(r, status, <<>>, 0)
<1>1. <<>> \in [1 .. 0 -> Bodied]
  BY EmptySeq, SeqDef
<1> QED  BY <1>1 DEF Refusals, IsHeaded

LEMMA AcknowledgedAre ==
    ASSUME NEW r \in Acknowledged
    PROVE  IsHeaded(r, "OK", <<>>, 0)
<1>1. <<>> \in [1 .. 0 -> Bodied]
  BY EmptySeq, SeqDef
<1> QED  BY <1>1 DEF Acknowledged, OK, IsHeaded

CountedLines == <<Line("Statement-ID", 1), ResultType(<<"Update-Count">>)>>
SeveralLines == <<ResultType(<<"Update-Count", "Update-Count">>)>>
SelectedLines(m, n, k) ==
    <<Line("Statement-ID", 1), Line("Column-Count", m), Line("Column-Types", <<"VK_LONG">>),
      Line("Row-Count", n), Line("Row-Count-Sent", k), Line("Column-Updateability", FALSE),
      ResultType(<<"Result-Set">>)>>
PageLines == <<ResultType(<<"Result-Set">>)>>
ShortPageLines == <<Line("Row-Count-Sent", 1), ResultType(<<"Result-Set">>)>>
PreparedLines == <<ResultType(<<"Update-Count">>)>>
MiscountedLines == <<Line("Column-Count", -1)>>

LEMMA CountedAre ==
    /\ \A r \in Counted : IsHeaded(r, "OK", CountedLines, 1)
    /\ \A r \in Several : IsHeaded(r, "OK", SeveralLines, 2)
    /\ \A r \in Miscounted : IsHeaded(r, "OK", MiscountedLines, 1)
    /\ \A r \in Prepared : IsHeaded(r, "OK", PreparedLines, 0)
<1>1. /\ <<"count">> \in [1 .. 1 -> Bodied] /\ <<"row">> \in [1 .. 1 -> Bodied]
      /\ <<"count", "count">> \in [1 .. 2 -> Bodied] /\ <<>> \in [1 .. 0 -> Bodied]
  BY EmptySeq, SeqDef DEF Bodied
<1>2. /\ Counted = {Headed("OK", CountedLines, <<"count">>)}
      /\ Several = {Headed("OK", SeveralLines, <<"count", "count">>)}
      /\ Miscounted = {Headed("OK", MiscountedLines, <<"row">>)}
      /\ Prepared = {Headed("OK", PreparedLines, <<>>)}
  BY DEF Counted, CountedLines, Several, SeveralLines, Miscounted, MiscountedLines, Prepared,
         PreparedLines
<1> HIDE DEF CountedLines, SeveralLines, MiscountedLines, PreparedLines
<1> QED  BY <1>1, <1>2 DEF IsHeaded

LEMMA SelectedAre ==
    ASSUME NEW r \in Selected
    PROVE  \E m \in ColumnCounts, n \in RowCounts, k \in FirstPages :
              IsHeaded(r, "OK", SelectedLines(m, n, k), IF m = 0 THEN 0 ELSE k)
<1> DEFINE Rs(m, n, k) == {Headed("OK", SelectedLines(m, n, k), body)
                            : body \in Bodies(IF m = 0 THEN 0 ELSE k)}
<1>1. Selected = UNION {Rs(m, n, k) : m \in ColumnCounts, n \in RowCounts, k \in FirstPages}
  BY DEF Selected, SelectedLines
<1> HIDE DEF Rs
<1>2. PICK m \in ColumnCounts, n \in RowCounts, k \in FirstPages : r \in Rs(m, n, k)
  BY <1>1
<1>3. PICK body \in Bodies(IF m = 0 THEN 0 ELSE k) : r = Headed("OK", SelectedLines(m, n, k), body)
  BY <1>2 DEF Rs
<1>4. (IF m = 0 THEN 0 ELSE k) \in Nat
  BY CommandsAssumption
<1> QED  BY <1>3, <1>4, BodyType DEF IsHeaded

LEMMA PagesAre ==
    ASSUME NEW r \in Page
    PROVE  IsHeaded(r, "OK", PageLines, Asked) \/ IsHeaded(r, "OK", ShortPageLines, 1)
<1>1. Asked \in Nat /\ 1 \in Nat
  BY DEF Asked
<1>2. \/ \E body \in Bodies(Asked) : r = Headed("OK", PageLines, body)
      \/ \E body \in Bodies(1) : r = Headed("OK", ShortPageLines, body)
  BY DEF Page, PageLines, ShortPageLines
<1> QED  BY <1>1, <1>2, BodyType DEF IsHeaded

LEMMA Seven ==
    ASSUME NEW S, NEW a \in S, NEW b \in S, NEW c \in S, NEW d \in S, NEW e \in S, NEW f \in S,
           NEW g \in S
    PROVE  <<a, b, c, d, e, f, g>> \in Seq(S)
  OBVIOUS

LEMMA LinesTyped ==
    /\ <<>> \in Seq(Lines) /\ \A e \in ErrorCodes : <<Line("Error-Code", e)>> \in Seq(Lines)
    /\ CountedLines \in Seq(Lines) /\ SeveralLines \in Seq(Lines) /\ MiscountedLines \in Seq(Lines)
    /\ PreparedLines \in Seq(Lines) /\ PageLines \in Seq(Lines) /\ ShortPageLines \in Seq(Lines)
    /\ \A m \in ColumnCounts, n \in RowCounts, k \in FirstPages :
          SelectedLines(m, n, k) \in Seq(Lines)
<1>1. \A n \in Int : /\ Line("Statement-ID", n) \in Lines /\ Line("Column-Count", n) \in Lines
                      /\ Line("Row-Count", n) \in Lines /\ Line("Row-Count-Sent", n) \in Lines
                      /\ Line("Error-Code", n) \in Lines
  BY LineIs DEF Numbers
<1>2. /\ ResultType(<<"Update-Count">>) \in Lines /\ ResultType(<<"Result-Set">>) \in Lines
      /\ ResultType(<<"Update-Count", "Update-Count">>) \in Lines
      /\ Line("Column-Types", <<"VK_LONG">>) \in Lines /\ Line("Column-Updateability", FALSE) \in Lines
  BY LineIs, WordsType DEF ResultType
<1>3. <<>> \in Seq(Lines)
  BY EmptySeq
<1>4. \A e \in ErrorCodes : <<Line("Error-Code", e)>> \in Seq(Lines)
  BY <1>1, CommandsAssumption
<1>5. /\ CountedLines \in Seq(Lines) /\ SeveralLines \in Seq(Lines) /\ MiscountedLines \in Seq(Lines)
      /\ PreparedLines \in Seq(Lines) /\ PageLines \in Seq(Lines) /\ ShortPageLines \in Seq(Lines)
  <2> HIDE DEF Line, ResultType
  <2> QED  BY <1>1, <1>2 DEF CountedLines, SeveralLines, MiscountedLines, PreparedLines, PageLines,
             ShortPageLines
<1>6. ASSUME NEW m \in ColumnCounts, NEW n \in RowCounts, NEW k \in FirstPages
      PROVE  SelectedLines(m, n, k) \in Seq(Lines)
  <2>1. m \in Int /\ n \in Int /\ k \in Int
    BY CommandsAssumption
  <2>2. /\ Line("Statement-ID", 1) \in Lines /\ Line("Column-Count", m) \in Lines
        /\ Line("Row-Count", n) \in Lines /\ Line("Row-Count-Sent", k) \in Lines
    BY <1>1, <2>1
  <2> QED  BY <1>2, <2>2, Seven, Zenon DEF SelectedLines
<1> QED  BY <1>3, <1>4, <1>5, <1>6

(* Every response is a header, with a body that has no header in it.       *)
LEMMA ResponseShape ==
    ASSUME NEW op, NEW r \in Responses(op)
    PROVE  /\ r \in Seq(Items) /\ Len(r) >= 1 /\ r[1].kind = "header" /\ r[1].header \in Headers
           /\ \A i \in 2 .. Len(r) : r[i].kind # "header"
<1>1. \E status \in {"OK", "ERROR", "none"}, lines \in Seq(Lines), k \in Nat :
         IsHeaded(r, status, lines, k)
  <2>1. r \in Refusals \union Acknowledged \union Counted \union Several \union Miscounted
             \union Selected \union Prepared \union Page
    BY DEF Responses
  <2>2. CASE r \in Refusals
    BY <2>2, RefusalsAre, LinesTyped
  <2>3. CASE r \in Acknowledged
    BY <2>3, AcknowledgedAre, LinesTyped
  <2>4. CASE r \in Counted \union Several \union Miscounted \union Prepared
    BY <2>4, CountedAre, LinesTyped
  <2>5. CASE r \in Selected
    <3>1. PICK m \in ColumnCounts, n \in RowCounts, k \in FirstPages :
              IsHeaded(r, "OK", SelectedLines(m, n, k), IF m = 0 THEN 0 ELSE k)
      BY <2>5, SelectedAre
    <3>2. (IF m = 0 THEN 0 ELSE k) \in Nat
      BY CommandsAssumption
    <3> QED  BY <3>1, <3>2, LinesTyped
  <2>6. CASE r \in Page
    BY <2>6, PagesAre, LinesTyped DEF Asked
  <2> QED  BY <2>1, <2>2, <2>3, <2>4, <2>5, <2>6
<1>2. PICK status \in {"OK", "ERROR", "none"}, lines \in Seq(Lines), k \in Nat :
         \E body \in [1 .. k -> Bodied] : r = Headed(status, lines, body)
  BY <1>1 DEF IsHeaded
<1> PICK body \in [1 .. k -> Bodied] : r = Headed(status, lines, body)
  BY <1>2
<1>3. [status |-> status, lines |-> lines] \in Headers
  BY DEF Headers
<1>4. /\ r \in Seq(Items) /\ Len(r) = k + 1
      /\ r[1] = Item("header", [status |-> status, lines |-> lines])
      /\ \A i \in 2 .. k + 1 : r[i].kind = body[i - 1]
  BY HeadedShape
<1>5. \A i \in 2 .. k + 1 : body[i - 1] \in Bodied
  OBVIOUS
<1>6. \A i \in 2 .. k + 1 : r[i].kind # "header"
  BY <1>4, <1>5 DEF Bodied
<1> QED  BY <1>3, <1>4, <1>6 DEF Item

-----------------------------------------------------------------------------
LEMMA NothingType == Nothing \in Told
<1>1. NewResult \in States
  BY NewResultFits DEF Fits
<1> QED  BY <1>1, NoHeaderType DEF Nothing, Told

LEMMA HistoryTypes ==
    ASSUME TypeInv
    PROVE  /\ \A c \in Conns : \A b : FallsOutOfStep(c, b) => outOfStep' \in [Conns -> BOOLEAN]
           /\ \A c : Uses(c) => strayed' \in BOOLEAN
  BY DEF TypeInv, TypeOK, FallsOutOfStep, Uses

LEMMA InitTypes == Init => TypeInv
<1> SUFFICES ASSUME Init PROVE TypeInv
  OBVIOUS
<1>1. <<>> \in Seq(Items)
  BY EmptySeq
<1>2. /\ socket \in [Conns -> Descriptors \union {INVALID_SOCKET}]
      /\ connected \in [Conns -> BOOLEAN] /\ open \in [Conns -> BOOLEAN]
      /\ error_code \in [Conns -> Int] /\ outOfStep \in [Conns -> BOOLEAN]
  BY DEF Init
<1>3. /\ owner \in [Descriptors -> Conns \union {"free", "orphan", "other"}]
      /\ alive \in [Descriptors -> BOOLEAN]
  BY DEF Init
<1>4. TypeOK
  BY <1>2, <1>3 DEF Init, TypeOK
<1>5. rbuf \in [Conns -> Seq(Items)] /\ wire \in [Descriptors -> Seq(Items)]
  BY <1>1 DEF Init
<1> QED  BY <1>4, <1>5, NothingType DEF Init, TypeInv

LEMMA BeginTypes ==
    ASSUME TypeInv, NEW c \in Conns, NEW op \in Ops, NEW st, st = Fresh(op), Begin(c, op, st)
    PROVE  TypeInv'
<1>1. /\ call' \in CallsMade /\ call'.state = st /\ call'.op = op /\ call'.step = "send"
      /\ call'.c \in Conns
  BY CallTypes DEF Begin
<1>2. rbuf' \in [Conns -> Seq(Items)] /\ wire' \in [Descriptors -> Seq(Items)]
  BY AgedType DEF Begin, TypeInv
<1>3. told' \in Told
  BY NothingType DEF Begin
<1>4. error_code' \in [Conns -> Int]
  BY DEF Begin, Cleared, TypeInv, TypeOK
<1>5. Fits(st)
  BY FreshFits
<1>6. TypeOK'
  BY <1>1, <1>4, <1>5 DEF Begin, TypeInv, TypeOK, history, Fits
<1> QED  BY <1>1, <1>2, <1>3, <1>5, <1>6 DEF TypeInv

LEMMA TellTypes ==
    ASSUME TypeInv, NEW c \in Conns, NEW op \in Ops, NEW code \in Int, Tells(c, op, code)
    PROVE  told' \in Told /\ error_code' \in [Conns -> Int] /\ call' = call
<1>1. told' = [Nothing EXCEPT !.c = c, !.op = op, !.ret = 1, !.code = code]
  BY DEF Tells
<1>2. told' \in Told
  BY <1>1, NothingType DEF Told
<1> QED  BY <1>2 DEF Tells, TypeInv, TypeOK

LEMMA CodesAreInts == ErrorCodes \subseteq Int /\ -1 \in Int /\ -5001 \in Int
  BY CommandsAssumption

LEMMA RefusedTypes ==
    ASSUME TypeInv, NEW c \in Conns, AlreadyConnected(c) \/ ConnectFails(c) \/ RefuseQuery(c)
    PROVE  TypeInv'
<1>1. PICK code \in Int, op \in Ops : Tells(c, op, code)
  BY CodesAreInts DEF AlreadyConnected, ConnectFails, RefuseQuery, Ops
<1>2. told' \in Told /\ error_code' \in [Conns -> Int] /\ call' = call
  BY <1>1, TellTypes
<1>3. socket' \in {socket, [socket EXCEPT ![c] = INVALID_SOCKET]}
  BY DEF AlreadyConnected, ConnectFails, RefuseQuery
<1>4. /\ connected' = connected /\ open' = open /\ rbuf' = rbuf
      /\ UNCHANGED net /\ UNCHANGED history
  BY DEF AlreadyConnected, ConnectFails, RefuseQuery
<1> QED  BY <1>2, <1>3, <1>4 DEF TypeInv, TypeOK, net, history

LEMMA ConnectTypes ==
    ASSUME TypeInv, NEW c \in Conns, Connect(c)
    PROVE  TypeInv'
<1>1. Lowest \in Descriptors
  BY LowestIsFree DEF Connect, Free
<1>2. socket' \in [Conns -> Descriptors \union {INVALID_SOCKET}]
  BY <1>1 DEF Connect, TypeInv, TypeOK
<1>3. <<>> \in Seq(Items)
  BY EmptySeq
<1>4. /\ owner' \in [Descriptors -> Conns \union {"free", "orphan", "other"}]
      /\ alive' \in [Descriptors -> BOOLEAN] /\ wire' \in [Descriptors -> Seq(Items)]
  BY <1>3 DEF Connect, TypeInv, TypeOK
<1>5. rbuf' \in [Conns -> Seq(Items)] /\ outOfStep' \in [Conns -> BOOLEAN]
  BY <1>3 DEF Connect, EmptyBuffer, TypeInv, TypeOK
<1>6. error_code' \in [Conns -> Int]
  BY DEF Connect, Cleared, TypeInv, TypeOK
<1>7. NewResult = Fresh("login") /\ "login" \in Ops
  BY DEF Fresh, Ops
<1>8. /\ call' \in CallsMade /\ call'.state = NewResult /\ call'.op = "login" /\ call'.step = "send"
      /\ call'.c = c
  BY <1>7, CallTypes DEF Connect
<1>9. told' \in Told
  BY NothingType DEF Connect
<1>10. Fits(NewResult)
  BY <1>7, FreshFits
<1>11. TypeOK'
  BY <1>2, <1>4, <1>5, <1>6, <1>8, <1>10 DEF Connect, TypeInv, TypeOK, Fits
<1> QED  BY <1>4, <1>5, <1>7, <1>8, <1>9, <1>10, <1>11 DEF TypeInv

LEMMA CommandTypes ==
    ASSUME TypeInv, NEW c \in Conns,
           Query(c) \/ Prepare(c) \/ Fetch(c) \/ CloseStatement(c) \/ Logout(c)
    PROVE  TypeInv'
<1>1. \E op \in Ops : Begin(c, op, Fresh(op))
  BY DEF Query, Prepare, Fetch, CloseStatement, Logout, Ops, Fresh
<1> QED  BY <1>1, BeginTypes

LEMMA StepOn ==
    ASSUME TypeInv, At("send"), call' = [call EXCEPT !.step = "header"]
    PROVE  /\ call \in CallsMade /\ call' \in CallsMade /\ call'.state = call.state
           /\ call'.op = call.op /\ call'.c = call.c /\ call'.step = "header"
           /\ call.c \in Conns /\ Fits(call.state) /\ call.state = Fresh(call.op) /\ call # NoCall
           /\ call'.header = call.header /\ call'.own = call.own
  BY DEF TypeInv, At, CallsMade, Steps

LEMMA SendTypes ==
    ASSUME TypeInv, SendOk \/ SendIntoTheVoid \/ SendFails
    PROVE  TypeInv'
<1>1. CASE SendOk
  <2>1. /\ call' \in CallsMade /\ call'.state = call.state /\ call'.op = call.op
        /\ call'.step = "header" /\ Fits(call.state) /\ call.state = Fresh(call.op)
        /\ call.c \in Conns /\ call'.c \in Conns
    BY <1>1, StepOn DEF SendOk
  <2>2. socket[call.c] \in Descriptors
    BY <1>1, <2>1, SocketOwner, OwnersAreNamed DEF SendOk, IsUp
  <2>3. PICK r \in Responses(call.op) :
          wire' = [wire EXCEPT ![socket[call.c]] = wire[socket[call.c]] \o r]
    BY <1>1, <2>2 DEF SendOk, TypeInv
  <2>4. r \in Seq(Items)
    BY ResponseShape
  <2>5. wire[socket[call.c]] \o r \in Seq(Items)
    BY <2>2, <2>4, ConcatProperties DEF TypeInv
  <2>6. wire' \in [Descriptors -> Seq(Items)]
    BY <2>2, <2>3, <2>5 DEF TypeInv
  <2>7. strayed' \in BOOLEAN
    BY <1>1, HistoryTypes DEF SendOk
  <2>8. TypeOK'
    BY <1>1, <2>1, <2>7 DEF SendOk, cnx, TypeInv, TypeOK, Fits
  <2> QED  BY <1>1, <2>1, <2>6, <2>8 DEF SendOk, cnx, TypeInv
<1>2. CASE SendIntoTheVoid
  <2>1. /\ call' \in CallsMade /\ call'.state = call.state /\ call'.op = call.op
        /\ call'.step = "header" /\ Fits(call.state) /\ call.state = Fresh(call.op)
        /\ call.c \in Conns /\ call'.c \in Conns
    BY <1>2, StepOn DEF SendIntoTheVoid
  <2>2. strayed' \in BOOLEAN
    BY <1>2, HistoryTypes DEF SendIntoTheVoid
  <2>3. TypeOK'
    BY <1>2, <2>1, <2>2 DEF SendIntoTheVoid, cnx, net, TypeInv, TypeOK, Fits
  <2> QED  BY <1>2, <2>1, <2>3 DEF SendIntoTheVoid, cnx, net, TypeInv
<1>3. CASE SendFails
  <2>1. call \in CallsMade /\ call.c \in Conns /\ Fits(call.state) /\ call.state = Fresh(call.op)
    BY <1>3 DEF SendFails, At, TypeInv, CallsMade
  <2>2. /\ owner' \in [Descriptors -> Conns \union {"free", "orphan", "other"}]
        /\ alive' \in [Descriptors -> BOOLEAN] /\ wire' \in [Descriptors -> Seq(Items)]
    BY <1>3, CloseTypes DEF SendFails
  <2>3. strayed' \in BOOLEAN
    BY <1>3, HistoryTypes DEF SendFails
  <2>4. /\ told' \in Told
        /\ call' # NoCall => call' \in CallsMade /\ call'.state = call.state /\ call'.op = call.op
                               /\ call'.step = "header" /\ call'.c \in Conns
    <3>1. CASE Checked(call.op)
      <4>1. Returns(call, 1, -1)
        BY <1>3, <3>1 DEF SendFails
      <4> QED  BY <2>1, <4>1, ReturnTypes
    <3>2. CASE ~Checked(call.op)
      <4>1. call' = [call EXCEPT !.step = "header"] /\ told' = told
        BY <1>3, <3>2 DEF SendFails
      <4> QED  BY <1>3, <4>1, StepOn DEF SendFails, TypeInv, CallsMade
    <3> QED  BY <3>1, <3>2
  <2>5. error_code' \in [Conns -> Int] /\ connected' \in [Conns -> BOOLEAN]
    BY <1>3, <2>1 DEF SendFails, TypeInv, TypeOK
  <2>6. TypeOK'
    BY <1>3, <2>1, <2>2, <2>3, <2>4, <2>5 DEF SendFails, TypeInv, TypeOK, Fits, Steps
  <2> QED  BY <1>3, <2>1, <2>2, <2>4, <2>6 DEF SendFails, TypeInv
<1> QED  BY <1>1, <1>2, <1>3

CallOk(x) == /\ x # NoCall => /\ x \in CallsMade /\ Fits(x.state)
                              /\ x.step \in {"send", "header"} => x.state = Fresh(x.op)

LEMMA AcceptTypes ==
    ASSUME TypeInv, NEW done \in CallsMade, Fits(done.state), Accepted(done)
    PROVE  /\ CallOk(call') /\ told' \in Told /\ socket' = socket
           /\ error_code' \in [Conns -> Int] /\ connected' \in [Conns -> BOOLEAN]
           /\ open' \in [Conns -> BOOLEAN]
<1>1. CASE \E step \in {"rows", "count", "close"} : Goes(done, step)
  <2>1. PICK step \in {"rows", "count", "close"} : Goes(done, step)
    BY <1>1
  <2>2. step \in Steps
    BY DEF Steps
  <2> QED  BY <2>1, <2>2, GoTypes DEF CallOk, TypeInv, TypeOK
<1>2. CASE Cleared(done.c, "quit") /\ Calls(done.c, "quit", NewResult)
           /\ UNCHANGED <<socket, connected, open, told>>
  <2>1. NewResult = Fresh("quit") /\ "quit" \in Ops /\ done.c \in Conns
    BY DEF Fresh, Ops, CallsMade
  <2>2. /\ call' \in CallsMade /\ call'.state = NewResult /\ call'.op = "quit"
        /\ call'.step = "send"
    BY <1>2, <2>1, CallTypes
  <2>3. Fits(NewResult)
    BY <2>1, FreshFits
  <2> QED  BY <1>2, <2>1, <2>2, <2>3 DEF CallOk, Cleared, TypeInv, TypeOK
<1>3. CASE \E code \in Int : Ends(done, 0, code)
  BY <1>3, EndTypes DEF CallOk
<1>4. done.state.error_code \in Int
  BY DEF Fits, States
<1> QED  BY <1>1, <1>2, <1>3, <1>4 DEF Accepted

Answered(x, b, h, s) == [x EXCEPT !.own = b, !.header = h, !.state = s]
IsAnswered(d, x, b, h, s) ==
    /\ d \in CallsMade /\ d.own = b /\ d.header = h /\ d.state = s /\ d.op = x.op
    /\ d.c = x.c /\ d.step = x.step /\ d.left = x.left

LEMMA WithState ==
    ASSUME NEW x \in CallsMade, NEW b \in BOOLEAN, NEW h \in Headers, NEW s \in States
    PROVE  IsAnswered(Answered(x, b, h, s), x, b, h, s)
<1>1. Answered(x, b, h, s) \in CallsMade
  BY DEF Answered, CallsMade
<1> QED  BY <1>1 DEF Answered, IsAnswered, CallsMade

(* What ReadHeader does, once its choices are made.                        *)
Owned(n) == n = 1 /\ Pending(call.c)[1] # Leftover /\ Owns(call.c)
Reads(n, h, junk, s, done) ==
    /\ HeaderRead(n, h) /\ Takes(call.c, n)
    /\ s = Treated(h, call.state, junk)
    /\ done = [call EXCEPT !.own = Owned(n), !.header = h, !.state = s]
    /\ s.ret = 0 => Accepted(done)
    /\ s.ret # 0 => Ends(done, 1, s.error_code)
    /\ FallsOutOfStep(call.c, ~done.own \/ (s.ret = 0) # (h.status = "OK"))

LEMMA HeaderIsRead ==
    ASSUME TypeInv, ReadHeader
    PROVE  \E n \in DOMAIN Pending(call.c), h \in Headers, junk \in Int, s \in States,
              done \in CallsMade :
              /\ Reads(n, h, junk, s, done) /\ Fits(s) /\ junk \in ErrorCodes \union {0}
              /\ done.own = Owned(n) /\ done.header = h /\ done.state = s /\ done.op = call.op
              /\ done.c = call.c
<1> DEFINE p == Pending(call.c)
<1>1. /\ call # NoCall /\ call \in CallsMade /\ call.c \in Conns /\ Fits(call.state)
      /\ call.state = Fresh(call.op)
  BY DEF ReadHeader, At, TypeInv, CallsMade
<1>2. p \in Seq(Items) /\ \A i \in DOMAIN p : p[i] \in Items
  BY <1>1, PendingType, ElementOfSeq
<1>3. PICK n \in DOMAIN p, h \in {NoHeader, OK} \union {p[i].header : i \in DOMAIN p},
           junk \in ErrorCodes \union {0} :
        /\ HeaderRead(n, h) /\ Takes(call.c, n)
        /\ LET s == Treated(h, call.state, junk)
               done == [call EXCEPT !.own = n = 1 /\ p[1] # Leftover /\ Owns(call.c),
                                    !.header = h, !.state = s]
           IN  /\ IF s.ret = 0 THEN Accepted(done) ELSE Ends(done, 1, s.error_code)
               /\ FallsOutOfStep(call.c, ~done.own \/ (s.ret = 0) # (h.status = "OK"))
  BY Zenon DEF ReadHeader
<1>4. h \in Headers
  BY <1>2, <1>3, NoHeaderType DEF Items
<1>5. junk \in Int
  BY CodesAreInts
<1> DEFINE s == Treated(h, call.state, junk)
           done == [call EXCEPT !.own = Owned(n), !.header = h, !.state = s]
<1>6. Reads(n, h, junk, s, done)
  BY <1>3, Zenon DEF Reads, Owned
<1>7. Fits(s) /\ s \in States
  <2> HIDE DEF p
  <2> QED  BY <1>1, <1>4, <1>5, TreatedTypes DEF Fits
<1>8. Owned(n) \in BOOLEAN
  BY DEF Owned
<1> HIDE DEF s
<1>9. /\ done \in CallsMade /\ done.own = Owned(n) /\ done.header = h /\ done.state = s
      /\ done.op = call.op /\ done.c = call.c
  <2> HIDE DEF p
  <2> DEFINE o == Owned(n)
  <2> HIDE DEF o
  <2>1. o \in BOOLEAN /\ done = Answered(call, o, h, s)
    BY <1>8 DEF o, Answered
  <2> HIDE DEF done
  <2>2. IsAnswered(done, call, o, h, s)
    BY <1>1, <1>4, <1>7, <2>1, WithState
  <2> QED  BY <2>2 DEF o, IsAnswered
<1> HIDE DEF done, p
<1> QED  BY <1>3, <1>4, <1>5, <1>6, <1>7, <1>9 DEF p

LEMMA ReadHeaderTypes ==
    ASSUME TypeInv, ReadHeader
    PROVE  TypeInv'
<1>1. PICK n \in DOMAIN Pending(call.c), h \in Headers, junk \in Int, s \in States,
           done \in CallsMade :
         Reads(n, h, junk, s, done) /\ Fits(s) /\ done.state = s /\ done.c = call.c
  BY HeaderIsRead
<1>2. call.c \in Conns
  BY DEF ReadHeader, At, TypeInv, CallsMade
<1>3. rbuf' \in [Conns -> Seq(Items)] /\ wire' \in [Descriptors -> Seq(Items)]
  BY <1>1, <1>2, TakesType DEF Reads
<1>4. /\ CallOk(call') /\ told' \in Told /\ socket' = socket
      /\ error_code' \in [Conns -> Int] /\ connected' \in [Conns -> BOOLEAN]
      /\ open' \in [Conns -> BOOLEAN]
  <2>1. CASE s.ret = 0
    BY <1>1, <2>1, AcceptTypes DEF Reads
  <2>2. CASE s.ret # 0
    <3>1. Ends(done, 1, s.error_code) /\ s.error_code \in Int
      BY <1>1, <2>2 DEF Reads, States
    <3> QED  BY <3>1, EndTypes DEF CallOk
  <2> QED  BY <2>1, <2>2
<1>5. outOfStep' \in [Conns -> BOOLEAN] /\ strayed' \in BOOLEAN
  BY <1>1, <1>2, HistoryTypes DEF Reads, ReadHeader
<1>6. UNCHANGED <<owner, alive, lost>>
  BY DEF ReadHeader
<1>7. TypeOK'
  BY <1>4, <1>5, <1>6 DEF TypeInv, TypeOK, CallOk, CallsMade, Fits, Steps
<1> QED  BY <1>3, <1>4, <1>7 DEF TypeInv, CallOk

LEMMA ReadTypes ==
    ASSUME TypeInv, ReadCount \/ ReadRow \/ MalformedRow \/ ReadFails \/ NoMemory
    PROVE  TypeInv'
<1>1. /\ call # NoCall /\ call \in CallsMade /\ call.c \in Conns /\ Fits(call.state)
      /\ call.state.error_code \in Int /\ error_code[call.c] \in Int /\ call.left \in Int
  BY DEF ReadCount, ReadRow, MalformedRow, ReadFails, NoMemory, At, TypeInv, TypeOK, CallsMade, Fits,
         States
<1>2. rbuf' \in [Conns -> Seq(Items)] /\ wire' \in [Descriptors -> Seq(Items)]
  <2>1. CASE ReadCount \/ ReadRow \/ MalformedRow
    <3>1. 1 \in DOMAIN Pending(call.c) /\ Takes(call.c, 1)
      BY <1>1, <2>1, PendingType DEF ReadCount, ReadRow, MalformedRow
    <3> QED  BY <1>1, <3>1, TakesType
  <2>2. CASE ReadFails
    BY <1>1, <2>2, EmptySeq DEF ReadFails, net, TypeInv
  <2>3. CASE NoMemory
    BY <2>3 DEF NoMemory, net, TypeInv
  <2> QED  BY <2>1, <2>2, <2>3
<1>3. /\ CallOk(call') /\ told' \in Told /\ socket' = socket
      /\ error_code' \in [Conns -> Int] /\ connected' \in [Conns -> BOOLEAN]
      /\ open' \in [Conns -> BOOLEAN]
  <2>1. CASE \E ret \in {0, 1}, code \in Int : Ends(call, ret, code)
    BY <1>1, <2>1, EndTypes DEF CallOk
  <2>2. CASE ReadRow /\ ~(call.left = 1)
    <3>1. /\ call' = [call EXCEPT !.left = call.left - 1] /\ call.step = "rows"
          /\ UNCHANGED <<socket, connected, error_code, open, told>>
      BY <2>2 DEF ReadRow, At
    <3>2. call' \in CallsMade /\ call'.state = call.state /\ call'.step = "rows"
      BY <1>1, <3>1 DEF CallsMade
    <3> QED  BY <1>1, <3>1, <3>2 DEF CallOk, TypeInv, TypeOK
  <2>3. CASE ReadCount \/ MalformedRow \/ NoMemory
    <3>1. Ends(call, 0, call.state.error_code) \/ Ends(call, 1, -1)
      BY <2>3 DEF ReadCount, MalformedRow, NoMemory
    <3>2. \E ret \in {0, 1}, code \in Int : Ends(call, ret, code)
      BY <1>1, <3>1
    <3> QED  BY <2>1, <3>2
  <2>4. CASE ReadRow
    BY <1>1, <2>1, <2>2, <2>4 DEF ReadRow
  <2>5. CASE ReadFails
    <3>1. (IF error_code[call.c] = 0 THEN -1 ELSE error_code[call.c]) \in Int
      BY <1>1
    <3> QED  BY <2>1, <2>5, <3>1 DEF ReadFails
  <2> QED  BY <2>3, <2>4, <2>5
<1>4. outOfStep' \in [Conns -> BOOLEAN] /\ strayed' \in BOOLEAN /\ UNCHANGED <<owner, alive, lost>>
  <2>1. outOfStep' \in [Conns -> BOOLEAN]
    BY <1>1, HistoryTypes DEF ReadCount, ReadRow, MalformedRow, ReadFails, NoMemory, TypeInv, TypeOK
  <2>2. strayed' \in BOOLEAN
    BY <1>1, HistoryTypes DEF ReadCount, ReadRow, MalformedRow, ReadFails, NoMemory, TypeInv, TypeOK
  <2> QED  BY <2>1, <2>2 DEF ReadCount, ReadRow, MalformedRow, ReadFails, NoMemory, net
<1>5. TypeOK'
  BY <1>3, <1>4 DEF TypeInv, TypeOK, CallOk, CallsMade, Fits, Steps
<1> QED  BY <1>2, <1>3, <1>5 DEF TypeInv, CallOk

LEMMA DisconnectTypes ==
    ASSUME TypeInv, Disconnect
    PROVE  TypeInv'
<1>1. call # NoCall /\ call \in CallsMade /\ call.c \in Conns /\ error_code[call.c] \in Int
  BY DEF Disconnect, At, TypeInv, TypeOK, CallsMade
<1>2. /\ owner' \in [Descriptors -> Conns \union {"free", "orphan", "other"}]
      /\ alive' \in [Descriptors -> BOOLEAN] /\ wire' \in [Descriptors -> Seq(Items)]
  BY CloseTypes DEF Disconnect
<1>3. call' = NoCall /\ told' \in Told
  BY <1>1, ReturnTypes DEF Disconnect
<1>4. strayed' \in BOOLEAN
  BY HistoryTypes DEF Disconnect
<1>5. TypeOK'
  BY <1>1, <1>2, <1>3, <1>4 DEF Disconnect, TypeInv, TypeOK
<1> QED  BY <1>2, <1>3, <1>5 DEF Disconnect, TypeInv

LEMMA WorldTypes ==
    ASSUME TypeInv, OtherOpens \/ \E d \in Descriptors : LinkDrops(d) \/ OtherCloses(d)
    PROVE  TypeInv'
<1>1. told' \in Told
  BY NothingType DEF OtherOpens, LinkDrops, OtherCloses
<1>2. wire' \in [Descriptors -> Seq(Items)]
  <2>1. CASE \E d \in Descriptors : LinkDrops(d)
    <3>1. PICK d \in Descriptors : LinkDrops(d)
      BY <2>1
    <3>2. wire[d] \in Seq(Items)
      BY DEF TypeInv
    <3>3. PICK k \in 0 .. Len(wire[d]) : wire' = [wire EXCEPT ![d] = SubSeq(wire[d], 1, k)]
      BY <3>1 DEF LinkDrops, TypeInv
    <3>4. Len(wire[d]) \in Nat /\ \A i \in 1 .. Len(wire[d]) : wire[d][i] \in Items
      BY <3>2, LenProperties, ElementOfSeq
    <3>5. SubSeq(wire[d], 1, k) \in Seq(Items)
      BY <3>3, <3>4, SubSeqProperties
    <3> QED  BY <3>3, <3>5 DEF TypeInv
  <2>2. CASE ~\E d \in Descriptors : LinkDrops(d)
    BY <2>2 DEF OtherOpens, OtherCloses, TypeInv
  <2> QED  BY <2>1, <2>2
<1>3. /\ owner' \in [Descriptors -> Conns \union {"free", "orphan", "other"}]
      /\ alive' \in [Descriptors -> BOOLEAN]
  BY DEF OtherOpens, LinkDrops, OtherCloses, TypeInv, TypeOK
<1>4. UNCHANGED <<socket, connected, error_code, rbuf, open, call, outOfStep, lost, strayed>>
  BY DEF OtherOpens, LinkDrops, OtherCloses, cnx, history
<1> QED  BY <1>1, <1>2, <1>3, <1>4 DEF TypeInv, TypeOK

LEMMA TypesNext ==
    ASSUME TypeInv, [Next]_vars
    PROVE  TypeInv'
<1>1. CASE ClientStep
  BY <1>1, SendTypes, ReadHeaderTypes, ReadTypes, DisconnectTypes DEF ClientStep
<1>2. CASE OtherOpens \/ \E d \in Descriptors : LinkDrops(d) \/ OtherCloses(d)
  BY <1>2, WorldTypes
<1>3. ASSUME NEW c \in Conns,
             \/ AlreadyConnected(c) \/ ConnectFails(c) \/ Connect(c) \/ RefuseQuery(c)
             \/ Query(c) \/ Prepare(c) \/ Fetch(c) \/ CloseStatement(c) \/ Logout(c)
      PROVE  TypeInv'
  BY <1>3, RefusedTypes, ConnectTypes, CommandTypes
<1>4. CASE UNCHANGED vars
  BY <1>4 DEF vars, cnx, net, history, TypeInv, TypeOK
<1> QED  BY <1>1, <1>2, <1>3, <1>4 DEF Next

(* Types, and that a call whose request has not been answered has the     *)
(* result it began with.                                                   *)
THEOREM TypeInvariantHolds == Spec => []TypeInv
  BY InitTypes, TypesNext, PTL DEF Spec

(* Types: no call has more columns than a result may have.                 *)
THEOREM TypeCorrect == Spec => []TypeOK
<1>1. TypeInv => TypeOK
  BY DEF TypeInv
<1> QED  BY <1>1, TypeInvariantHolds, PTL

-----------------------------------------------------------------------------
(* Descriptors                                                             *)
OwnInv == ~strayed => \A c \in Conns : connected[c] => Owns(c)
LostInv ==
    ~lost => /\ ~strayed /\ \A c \in Conns : open[c] => connected[c]
             /\ call # NoCall => Owns(call.c)
DescriptorInv == OwnInv /\ LostInv

LEMMA OwnerStays ==
    ASSUME UNCHANGED <<socket, owner>>
    PROVE  \A c \in Conns : Owns(c)' <=> Owns(c)
  BY DEF Owns, OwnerOf

LEMMA OwnsIs ==
    ASSUME TypeInv, NEW c \in Conns
    PROVE  Owns(c) <=> socket[c] \in Descriptors /\ owner[socket[c]] = c
  BY OwnersAreNamed DEF Owns, OwnerOf

LEMMA OwnsIsNext ==
    ASSUME TypeInv', NEW c \in Conns
    PROVE  Owns(c)' <=> socket'[c] \in Descriptors /\ owner'[socket'[c]] = c
  BY OwnersAreNamed DEF Owns, OwnerOf

(* A step of a call that opens and closes no descriptor.                   *)
Decides(b) ==
    /\ connected' = [connected EXCEPT ![call.c] = b]
    /\ open' = [open EXCEPT ![call.c] = b]
StepsOn ==
    /\ UNCHANGED <<socket, owner, lost>>
    /\ Uses(call.c) \/ UNCHANGED strayed
    /\ call' = NoCall \/ call'.c = call.c
    /\ \/ UNCHANGED <<connected, open>>
       \/ UNCHANGED connected /\ open' = [open EXCEPT ![call.c] = FALSE]
       \/ Decides(FALSE)
       \/ Decides(TRUE) /\ Uses(call.c)

LEMMA StepsOnOwn ==
    ASSUME TypeInv, DescriptorInv, call # NoCall, StepsOn
    PROVE  DescriptorInv'
<1>1. call.c \in Conns
  BY DEF TypeInv, TypeOK
<1>2. \A c \in Conns : Owns(c)' <=> Owns(c)
  BY OwnerStays DEF StepsOn
<1>3. ~strayed' => ~strayed
  BY DEF StepsOn, Uses
<1>4. ~lost => ~strayed' /\ Owns(call.c)
  BY DEF StepsOn, Uses, DescriptorInv, LostInv
<1>5. connected \in [Conns -> BOOLEAN] /\ open \in [Conns -> BOOLEAN]
  BY DEF TypeInv, TypeOK
<1>6. ASSUME ~strayed', NEW c \in Conns, connected'[c]
      PROVE  Owns(c)
  <2>1. CASE connected[c]
    BY <1>3, <1>6, <2>1 DEF DescriptorInv, OwnInv
  <2>2. CASE ~connected[c]
    <3>1. c = call.c /\ Uses(call.c)
      BY <1>1, <1>5, <1>6, <2>2 DEF StepsOn, Decides
    <3> QED  BY <1>6, <3>1 DEF Uses
  <2> QED  BY <2>1, <2>2
<1>7. OwnInv'
  BY <1>2, <1>6 DEF OwnInv
<1>8. ASSUME ~lost, NEW c \in Conns, open'[c]
      PROVE  connected'[c]
  <2>1. open[c] => connected[c]
    BY <1>8 DEF DescriptorInv, LostInv
  <2> QED  BY <1>1, <1>5, <1>8, <2>1 DEF StepsOn, Decides
<1>9. LostInv'
  <2>1. call' # NoCall => call'.c = call.c
    BY DEF StepsOn
  <2>2. lost' = lost
    BY DEF StepsOn
  <2> QED  BY <1>1, <1>2, <1>4, <1>8, <2>1, <2>2 DEF LostInv
<1> QED  BY <1>7, <1>9 DEF DescriptorInv

LEMMA EndStepsOn ==
    ASSUME NEW done \in CallsMade, done.c = call.c, NEW ret \in {0, 1}, NEW code \in Int,
           Ends(done, ret, code), UNCHANGED <<owner, lost>>, Uses(call.c) \/ UNCHANGED strayed,
           ret = 0 => Uses(call.c)
    PROVE  StepsOn
<1>1. UNCHANGED socket /\ call' = NoCall
  BY DEF Ends, Returns
<1>2. \/ UNCHANGED <<connected, open>>
      \/ UNCHANGED connected /\ open' = [open EXCEPT ![call.c] = FALSE]
      \/ Decides(ret = 0)
  <2>1. CASE done.op = "login"
    BY <2>1 DEF Ends, Decides
  <2>2. CASE done.op \in {"logout", "quit"}
    BY <2>2 DEF Ends
  <2>3. CASE done.op \notin {"login", "logout", "quit"}
    BY <2>3 DEF Ends
  <2> QED  BY <2>1, <2>2, <2>3
<1>3. Decides(ret = 0) => Decides(FALSE) \/ (Decides(TRUE) /\ Uses(call.c))
  <2>1. (ret = 0) = TRUE \/ (ret = 0) = FALSE
    OBVIOUS
  <2> QED  BY <2>1
<1> QED  BY <1>1, <1>2, <1>3 DEF StepsOn

LEMMA ReadHeaderOwn ==
    ASSUME TypeInv, DescriptorInv, ReadHeader
    PROVE  DescriptorInv'
<1>1. PICK n \in DOMAIN Pending(call.c), h \in Headers, junk \in Int, s \in States,
           done \in CallsMade :
         Reads(n, h, junk, s, done) /\ Fits(s) /\ done.state = s /\ done.c = call.c
  BY HeaderIsRead
<1>2. call # NoCall /\ Uses(call.c) /\ UNCHANGED <<owner, lost>> /\ s.error_code \in Int
  BY DEF ReadHeader, At, States
<1>3. StepsOn
  <2>1. CASE \E ret \in {0, 1}, code \in Int : Ends(done, ret, code)
    BY <1>1, <1>2, <2>1, EndStepsOn
  <2>2. CASE \E step \in {"rows", "count", "close"} : Goes(done, step)
    <3>1. PICK step \in {"rows", "count", "close"} : Goes(done, step)
      BY <2>2
    <3>2. step \in Steps
      BY DEF Steps
    <3>3. call'.c = done.c /\ UNCHANGED <<socket, connected, open>>
      BY <3>1, <3>2, GoTypes
    <3> QED  BY <1>1, <1>2, <3>3 DEF StepsOn
  <2>3. CASE Calls(done.c, "quit", NewResult) /\ UNCHANGED <<socket, connected, open, told>>
    BY <1>1, <1>2, <2>3 DEF StepsOn, Calls
  <2>4. CASE s.ret = 0
    <3>1. Accepted(done)
      BY <1>1, <2>4 DEF Reads
    <3> QED  BY <1>1, <1>2, <2>1, <2>2, <2>3, <3>1 DEF Accepted
  <2>5. CASE s.ret # 0
    <3>1. Ends(done, 1, s.error_code)
      BY <1>1, <2>5 DEF Reads
    <3> QED  BY <1>2, <2>1, <3>1
  <2> QED  BY <2>4, <2>5
<1> QED  BY <1>2, <1>3, StepsOnOwn

LEMMA ReadOwn ==
    ASSUME TypeInv, DescriptorInv, ReadCount \/ ReadRow \/ MalformedRow \/ ReadFails \/ NoMemory
    PROVE  DescriptorInv'
<1>1. /\ call # NoCall /\ call \in CallsMade /\ call.c \in Conns
      /\ call.state.error_code \in Int /\ error_code[call.c] \in Int
  BY DEF ReadCount, ReadRow, MalformedRow, ReadFails, NoMemory, At, TypeInv, TypeOK, CallsMade, Fits,
         States
<1>2. UNCHANGED <<owner, lost>> /\ (NoMemory \/ Uses(call.c)) /\ (NoMemory => UNCHANGED strayed)
  BY DEF ReadCount, ReadRow, MalformedRow, ReadFails, NoMemory, net
<1>3. CASE ReadCount \/ (ReadRow /\ call.left = 1)
  <2>1. Ends(call, 0, call.state.error_code) /\ Uses(call.c)
    BY <1>3 DEF ReadCount, ReadRow
  <2> QED  BY <1>1, <1>2, <2>1, EndStepsOn, StepsOnOwn
<1>4. CASE ReadRow /\ call.left # 1
  <2>1. call'.c = call.c /\ UNCHANGED <<socket, connected, open>> /\ Uses(call.c)
    BY <1>1, <1>4 DEF ReadRow, CallsMade
  <2> QED  BY <1>1, <1>2, <2>1, StepsOnOwn DEF StepsOn
<1>5. CASE MalformedRow \/ NoMemory \/ ReadFails
  <2>1. \E code \in Int : Ends(call, 1, code)
    <3>1. (IF error_code[call.c] = 0 THEN -1 ELSE error_code[call.c]) \in Int /\ -1 \in Int
      BY <1>1
    <3> QED  BY <1>5, <3>1 DEF MalformedRow, NoMemory, ReadFails
  <2> QED  BY <1>1, <1>2, <2>1, EndStepsOn, StepsOnOwn
<1> QED  BY <1>3, <1>4, <1>5

LEMMA CloseOwn ==
    ASSUME TypeInv, OwnInv, call # NoCall, CloseDescriptor(socket[call.c]), UNCHANGED socket,
           connected' = [connected EXCEPT ![call.c] = FALSE], Uses(call.c), TypeInv'
    PROVE  OwnInv'
<1>1. call.c \in Conns /\ connected \in [Conns -> BOOLEAN]
  BY DEF TypeInv, TypeOK
<1> SUFFICES ASSUME ~strayed', NEW c \in Conns, connected'[c]
             PROVE  Owns(c)'
  BY DEF OwnInv
<1>2. ~strayed /\ Owns(call.c)
  BY DEF Uses
<1>3. c # call.c /\ connected[c]
  BY <1>1
<1>4. Owns(c)
  BY <1>2, <1>3 DEF OwnInv
<1>5. /\ socket[c] \in Descriptors /\ owner[socket[c]] = c /\ socket[call.c] \in Descriptors
      /\ owner[socket[call.c]] = call.c
  BY <1>1, <1>2, <1>4, OwnsIs
<1>6. owner' \in {owner, [owner EXCEPT ![socket[call.c]] = "free"]}
  BY DEF CloseDescriptor, net
<1>7. owner'[socket[c]] = c
  BY <1>3, <1>5, <1>6 DEF TypeInv, TypeOK
<1> QED  BY <1>5, <1>7, OwnsIsNext

LEMMA SendOwn ==
    ASSUME TypeInv, TypeInv', DescriptorInv, SendOk \/ SendIntoTheVoid \/ SendFails \/ Disconnect
    PROVE  DescriptorInv'
<1>1. call # NoCall
  BY DEF SendOk, SendIntoTheVoid, SendFails, Disconnect, At
<1>2. CASE SendOk \/ SendIntoTheVoid
  <2>1. call'.c = call.c
    BY <1>2, StepOn DEF SendOk, SendIntoTheVoid
  <2>2. StepsOn
    BY <1>2, <2>1 DEF SendOk, SendIntoTheVoid, StepsOn, cnx, net
  <2> QED  BY <1>1, <2>2, StepsOnOwn
<1>3. CASE SendFails
  <2>1. OwnInv'
    BY <1>1, <1>3, CloseOwn DEF SendFails, DescriptorInv
  <2> QED  BY <1>3, <2>1 DEF SendFails, DescriptorInv, LostInv
<1>4. CASE Disconnect
  <2>1. OwnInv'
    BY <1>1, <1>4, CloseOwn DEF Disconnect, DescriptorInv
  <2>2. call' = NoCall /\ lost' = lost /\ strayed' = (strayed \/ ~Owns(call.c))
    BY <1>4 DEF Disconnect, Returns, Uses
  <2>3. ASSUME ~lost
        PROVE  ~strayed' /\ \A c \in Conns : open'[c] => connected'[c]
    <3>1. ~strayed' /\ \A c \in Conns : open[c] => connected[c]
      BY <1>1, <2>2, <2>3 DEF DescriptorInv, LostInv
    <3>2. /\ connected' = [connected EXCEPT ![call.c] = FALSE]
          /\ open' = [open EXCEPT ![call.c] = FALSE]
      BY <1>4 DEF Disconnect
    <3> QED  BY <3>1, <3>2 DEF TypeInv, TypeOK
  <2> QED  BY <2>1, <2>2, <2>3 DEF DescriptorInv, LostInv
<1> QED  BY <1>2, <1>3, <1>4

LEMMA BeginOwn ==
    ASSUME TypeInv, DescriptorInv, NEW c \in Conns, open[c], NEW op, NEW st, Begin(c, op, st)
    PROVE  DescriptorInv'
<1>1. \A d \in Conns : Owns(d)' <=> Owns(d)
  BY OwnerStays DEF Begin
<1>2. call'.c = c /\ UNCHANGED <<connected, open, strayed, lost>>
  BY DEF Begin, Calls, history
<1>3. ~lost => Owns(c)
  BY DEF DescriptorInv, LostInv, OwnInv
<1> QED  BY <1>1, <1>2, <1>3 DEF DescriptorInv, OwnInv, LostInv

LEMMA ConnectOwn ==
    ASSUME TypeInv, TypeInv', DescriptorInv, NEW c \in Conns, Connect(c)
    PROVE  DescriptorInv'
<1>1. Lowest \in Descriptors /\ owner[Lowest] = "free"
  BY LowestIsFree DEF Connect, Free
<1>2. /\ ~connected[c] /\ UNCHANGED <<connected, open, lost, strayed>>
      /\ socket' = [socket EXCEPT ![c] = Lowest] /\ call'.c = c
      /\ owner' = [d \in Descriptors |-> IF d \in {d2 \in Descriptors : owner[d2] = c} THEN "orphan" ELSE
                                                IF d = Lowest THEN c ELSE owner[d]]
  BY DEF Connect, Calls
<1>3. socket'[c] = Lowest /\ owner'[Lowest] = c
  BY <1>1, <1>2, OwnersAreNamed DEF TypeInv, TypeOK
<1>4. Owns(c)'
  BY <1>1, <1>3, OwnsIsNext
<1>5. ASSUME NEW d \in Conns, d # c, Owns(d)
      PROVE  Owns(d)'
  <2>1. socket[d] \in Descriptors /\ owner[socket[d]] = d /\ socket'[d] = socket[d]
    BY <1>2, <1>5, OwnsIs DEF TypeInv, TypeOK
  <2>2. owner'[socket[d]] = d
    BY <1>1, <1>2, <1>5, <2>1, OwnersAreNamed
  <2> QED  BY <2>1, <2>2, OwnsIsNext
<1> QED  BY <1>2, <1>4, <1>5 DEF DescriptorInv, OwnInv, LostInv

LEMMA OthersOwn ==
    ASSUME TypeInv, TypeInv', DescriptorInv,
           OtherOpens \/ \E d \in Descriptors : LinkDrops(d) \/ OtherCloses(d)
    PROVE  DescriptorInv'
<1>1. UNCHANGED <<socket, connected, open, call, lost, strayed>>
  BY DEF OtherOpens, LinkDrops, OtherCloses, cnx, history
<1>2. ASSUME NEW d \in Descriptors, owner[d] \in Conns
      PROVE  owner'[d] = owner[d]
  <2>1. CASE OtherOpens
    <3>1. Lowest \in Free
      BY <2>1, LowestIsFree DEF OtherOpens
    <3>2. owner' = [owner EXCEPT ![Lowest] = "other"] /\ owner[Lowest] = "free"
      BY <2>1, <3>1 DEF OtherOpens, Free
    <3> QED  BY <1>2, <3>2, OwnersAreNamed DEF TypeInv, TypeOK
  <2>2. CASE \E x \in Descriptors : LinkDrops(x) \/ OtherCloses(x)
    <3>1. PICK x \in Descriptors : LinkDrops(x) \/ OtherCloses(x)
      BY <2>2
    <3>2. owner' = owner \/ (owner' = [owner EXCEPT ![x] = "free"] /\ owner[x] = "other")
      BY <3>1 DEF LinkDrops, OtherCloses
    <3> QED  BY <1>2, <3>2, OwnersAreNamed DEF TypeInv, TypeOK
  <2> QED  BY <2>1, <2>2
<1>3. ASSUME NEW c \in Conns, Owns(c)
      PROVE  Owns(c)'
  <2>1. socket[c] \in Descriptors /\ owner[socket[c]] = c
    BY <1>3, OwnsIs
  <2>2. owner'[socket[c]] = c
    BY <1>2, <2>1
  <2> QED  BY <1>1, <2>1, <2>2, OwnsIsNext
<1>4. call # NoCall => call.c \in Conns
  BY DEF TypeInv, TypeOK
<1> QED  BY <1>1, <1>3, <1>4 DEF DescriptorInv, OwnInv, LostInv

LEMMA RefusedOwn ==
    ASSUME TypeInv, TypeInv', DescriptorInv, NEW c \in Conns,
           AlreadyConnected(c) \/ ConnectFails(c) \/ RefuseQuery(c)
    PROVE  DescriptorInv'
<1>1. \E op, code : Tells(c, op, code)
  BY DEF AlreadyConnected, ConnectFails, RefuseQuery
<1>2. UNCHANGED <<connected, open, call, lost, strayed, owner>> /\ call = NoCall
  <2>1. UNCHANGED call
    BY <1>1 DEF Tells
  <2> QED  BY <2>1 DEF AlreadyConnected, ConnectFails, RefuseQuery, net, history, Idle
<1>3. socket' = socket \/ (~connected[c] /\ socket' = [socket EXCEPT ![c] = INVALID_SOCKET])
  BY DEF AlreadyConnected, ConnectFails, RefuseQuery
<1>4. \A d \in Conns : connected[d] => socket'[d] = socket[d]
  BY <1>3 DEF TypeInv, TypeOK
<1>5. \A d \in Conns : connected[d] /\ Owns(d) => Owns(d)'
  BY <1>2, <1>4, OwnsIs, OwnsIsNext
<1> QED  BY <1>2, <1>5 DEF DescriptorInv, OwnInv, LostInv

LEMMA DescriptorsNext ==
    ASSUME TypeInv, TypeInv', DescriptorInv, [Next]_vars
    PROVE  DescriptorInv'
<1>1. CASE ClientStep
  BY <1>1, SendOwn, ReadHeaderOwn, ReadOwn DEF ClientStep
<1>2. CASE OtherOpens \/ \E d \in Descriptors : LinkDrops(d) \/ OtherCloses(d)
  BY <1>2, OthersOwn
<1>3. ASSUME NEW c \in Conns,
             \/ AlreadyConnected(c) \/ ConnectFails(c) \/ Connect(c) \/ RefuseQuery(c)
             \/ Query(c) \/ Prepare(c) \/ Fetch(c) \/ CloseStatement(c) \/ Logout(c)
      PROVE  DescriptorInv'
  <2>1. CASE AlreadyConnected(c) \/ ConnectFails(c) \/ RefuseQuery(c)
    BY <2>1, RefusedOwn
  <2>2. CASE Connect(c)
    BY <2>2, ConnectOwn
  <2>3. CASE Query(c) \/ Prepare(c) \/ Fetch(c) \/ CloseStatement(c) \/ Logout(c)
    <3>1. open[c] /\ \E op, st : Begin(c, op, st)
      BY <2>3 DEF Query, Prepare, Fetch, CloseStatement, Logout
    <3> QED  BY <3>1, BeginOwn
  <2> QED  BY <1>3, <2>1, <2>2, <2>3
<1>4. CASE UNCHANGED vars
  <2>1. UNCHANGED <<socket, owner>> /\ UNCHANGED <<connected, open, call, lost, strayed>>
    BY <1>4 DEF vars, cnx, net, history
  <2>2. \A c \in Conns : Owns(c)' <=> Owns(c)
    BY <2>1, OwnerStays
  <2>3. call # NoCall => call.c \in Conns
    BY DEF TypeInv, TypeOK
  <2> QED  BY <2>1, <2>2, <2>3 DEF DescriptorInv, OwnInv, LostInv
<1> QED  BY <1>1, <1>2, <1>3, <1>4 DEF Next

(* Whose descriptor a call in progress uses: what makes the next one       *)
(* inductive.                                                              *)
THEOREM DescriptorsHold == Spec => []DescriptorInv
<1>1. Init => DescriptorInv
  BY DEF Init, DescriptorInv, OwnInv, LostInv
<1>2. TypeInv /\ TypeInv' /\ DescriptorInv /\ [Next]_vars => DescriptorInv'
  BY DescriptorsNext
<1> QED  BY <1>1, <1>2, TypeInvariantHolds, PTL DEF Spec

(* Until a socket_send fails and closes the descriptor under the fields    *)
(* that still name it, no call uses a descriptor that is not its           *)
(* connection's, however descriptors are opened, closed and used again.    *)
THEOREM OwnDescriptorsOnly == Spec => []OwnDescriptor
<1>1. DescriptorInv => OwnDescriptor
  BY DEF DescriptorInv, OwnInv, LostInv, OwnDescriptor
<1> QED  BY <1>1, DescriptorsHold, PTL

-----------------------------------------------------------------------------
(* What a header says                                                      *)
IsHit(h, section, i) == i \in DOMAIN h.lines /\ IsFoundIn(h.lines[i].name, section)
IsFirstHit(h, section, i) ==
    IsHit(h, section, i) /\ \A j \in DOMAIN h.lines : IsHit(h, section, j) => i <= j
IsFirstLine(h, section, i) ==
    /\ i \in DOMAIN h.lines /\ h.lines[i].name = section
    /\ \A j \in DOMAIN h.lines : h.lines[j].name = section => i <= j

LEMMA GetIs ==
    ASSUME NEW h \in Headers, NEW section, NEW i, IsFirstHit(h, section, i)
    PROVE  Has(h, section) /\ Get(h, section) = h.lines[i].value
<1>1. Has(h, section)
  BY DEF Has, Hits, IsFirstHit, IsHit
<1>2. PICK k \in DOMAIN h.lines :
        /\ IsFoundIn(h.lines[k].name, section) /\ Get(h, section) = h.lines[k].value
        /\ \A j \in DOMAIN h.lines : IsFoundIn(h.lines[j].name, section) => k <= j
  BY <1>1, FirstHit
<1>3. DOMAIN h.lines = 1 .. Len(h.lines) /\ Len(h.lines) \in Nat
  BY LenProperties DEF Headers
<1>4. i = k
  <2>1. i \in Int /\ k \in Int /\ i <= k /\ k <= i
    BY <1>2, <1>3 DEF IsFirstHit, IsHit
  <2> QED  BY <2>1
<1> QED  BY <1>1, <1>2, <1>4

LEMMA SaidIs ==
    ASSUME NEW h \in Headers, NEW section, NEW default
    PROVE  /\ \A i : IsFirstLine(h, section, i) => Said(h, section, default) = h.lines[i].value
           /\ (\A i \in DOMAIN h.lines : h.lines[i].name # section) => Said(h, section, default) = default
<1> DEFINE lines == {i \in DOMAIN h.lines : h.lines[i].name = section}
<1>1. DOMAIN h.lines = 1 .. Len(h.lines) /\ Len(h.lines) \in Nat
  BY LenProperties DEF Headers
<1>2. lines \in SUBSET Nat
  BY <1>1
<1>3. Said(h, section, default) = IF lines = {} THEN default ELSE h.lines[Min(lines)].value
  BY DEF Said
<1>4. ASSUME NEW i, IsFirstLine(h, section, i)
      PROVE  lines # {} /\ Min(lines) = i
  <2>1. i \in lines /\ \A j \in lines : i =< j
    BY <1>4 DEF IsFirstLine
  <2> HIDE DEF lines
  <2>2. Min(lines) \in lines /\ \A j \in lines : Min(lines) =< j
    BY <2>1 DEF Min
  <2>3. PICK m \in lines : m = Min(lines)
    BY <2>2
  <2>4. i \in Nat /\ m \in Nat /\ i <= m /\ m <= i
    BY <1>2, <2>1, <2>2, <2>3
  <2> QED  BY <2>1, <2>3, <2>4
<1>5. (\A i \in DOMAIN h.lines : h.lines[i].name # section) => lines = {}
  OBVIOUS
<1> HIDE DEF lines
<1> QED  BY <1>3, <1>4, <1>5

LEMMA SaidIsGot ==
    ASSUME NEW h \in Headers, Has(h, "Result-Type")
    PROVE  Said(h, "Result-Type", <<>>) = Get(h, "Result-Type")
<1>1. PICK i \in DOMAIN h.lines :
        /\ IsFoundIn(h.lines[i].name, "Result-Type") /\ Get(h, "Result-Type") = h.lines[i].value
        /\ \A j \in DOMAIN h.lines : IsFoundIn(h.lines[j].name, "Result-Type") => i <= j
  BY FirstHit
<1>2. IsFirstLine(h, "Result-Type", i)
  BY <1>1 DEF IsFirstLine, IsFoundIn
<1> QED  BY <1>1, <1>2, SaidIs

-----------------------------------------------------------------------------
(* What traite_header_response makes of it                                 *)
Counts(h, s, t) ==
    /\ t.row_count = IF Has(h, "Row-Count") THEN Clamped(Get(h, "Row-Count")) ELSE s.row_count
    /\ t.row_count_sent =
          IF Has(h, "Row-Count-Sent") THEN Clamped(Get(h, "Row-Count-Sent")) ELSE s.row_count_sent
Same(s, t) == t.ret = s.ret /\ t.error_code = s.error_code /\ t.resultType = s.resultType
SameCounts(s, t) == t.row_count = s.row_count /\ t.row_count_sent = s.row_count_sent
SameLength(s, t) == Len(t.columns) = Len(s.columns)
Width(h, s, t) ==
    IF Has(h, "Column-Count")
    THEN Get(h, "Column-Count") \in 0 .. MaxColumns /\ Len(t.columns) = Get(h, "Column-Count")
    ELSE SameLength(s, t)

LEMMA StatusKeeps ==
    ASSUME NEW h \in Headers, NEW s \in States, NEW junk \in Int, WithStatus(h, s, junk).ret = 0
    PROVE  /\ h.status # "none" /\ SameCounts(s, WithStatus(h, s, junk))
           /\ WithStatus(h, s, junk).resultType = s.resultType
<1> DEFINE e == ErrorCode(h, junk)
           t == WithStatus(h, s, junk)
<1>1. CASE h.status = "OK"
  <2>1. t = [s EXCEPT !.error_code = 0, !.status = "OK"]
    BY <1>1 DEF WithStatus
  <2> HIDE DEF t
  <2> QED  BY <1>1, <2>1 DEF States, SameCounts, t
<1>2. CASE h.status = "none"
  <2>1. t = [s EXCEPT !.status = "ERROR", !.ret = 1]
    BY <1>2 DEF WithStatus
  <2>2. t.ret = 1
    BY <2>1 DEF States
  <2> QED  BY <2>2
<1>3. CASE h.status \notin {"OK", "none"}
  <2>1. t = [s EXCEPT !.error_code = e, !.status = "ERROR", !.ret = IF e = 0 THEN 0 ELSE 1]
    BY <1>3 DEF WithStatus
  <2> HIDE DEF t, e
  <2> QED  BY <1>3, <2>1 DEF States, SameCounts, t
<1> QED  BY <1>1, <1>2, <1>3

LEMMA ColumnsKeep ==
    ASSUME NEW h \in Headers, NEW s, Fits(s), NEW u, u = WithColumns(h, s), s.ret = 0
    PROVE  /\ u.ret # 0 => u.error_code # 0
           /\ u.ret = 0 => Same(s, u) /\ SameCounts(s, u) /\ Width(h, s, u)
<1>1. CASE ~Has(h, "Column-Count")
  BY <1>1 DEF WithColumns, Same, SameCounts, Width, SameLength
<1>2. CASE Has(h, "Column-Count")
  <2> DEFINE n == Get(h, "Column-Count")
             cols == [i \in 1 .. n |-> "VK_UNKNOW"]
  <2>1. CASE n \in 0 .. MaxColumns
    <3>1. n \in Nat
      BY <2>1, MaxColumnsAssumption
    <3>2. Len(cols) = n
      BY <3>1
    <3>3. u = [s EXCEPT !.columns = cols, !.borrowed = FALSE]
      BY <1>2, <2>1 DEF WithColumns
    <3> HIDE DEF n, cols
    <3>4. u.columns = cols /\ Same(s, u) /\ SameCounts(s, u) /\ u.ret = 0
      BY <3>3 DEF Fits, States, Same, SameCounts
    <3> QED  BY <1>2, <2>1, <3>2, <3>4 DEF Width, n
  <2>2. CASE n \notin 0 .. MaxColumns
    <3>1. u = [s EXCEPT !.error_code = -1, !.status = "ERROR", !.ret = 1]
      BY <1>2, <2>2 DEF WithColumns
    <3>2. u.ret = 1 /\ u.error_code = -1
      BY <3>1 DEF Fits, States
    <3> QED  BY <3>2
  <2> QED  BY <2>1, <2>2
<1> QED  BY <1>1, <1>2

LEMMA TypesKeep ==
    ASSUME NEW h \in Headers, NEW s, Fits(s), NEW t, t = WithTypes(h, s)
    PROVE  Same(s, t) /\ SameCounts(s, t) /\ SameLength(s, t)
<1>1. CASE ~Has(h, "Column-Types")
  BY <1>1 DEF WithTypes, Same, SameCounts, SameLength
<1>2. CASE Has(h, "Column-Types")
  <2> DEFINE types == Get(h, "Column-Types")
             cols == [i \in DOMAIN s.columns |->
                         IF i \in DOMAIN types THEN types[i] ELSE s.columns[i]]
  <2>1. s.columns \in Seq(Types)
    BY DEF Fits, States
  <2>2. PICK k \in Nat : k = Len(s.columns) /\ DOMAIN s.columns = 1 .. k
    BY <2>1, LenProperties
  <2>3. Len(cols) = k
    BY <2>2
  <2>4. t = [s EXCEPT !.columns = cols]
    BY <1>2 DEF WithTypes
  <2> HIDE DEF cols
  <2>5. t.columns = cols /\ Same(s, t) /\ SameCounts(s, t)
    BY <2>4 DEF Fits, States, Same, SameCounts
  <2> QED  BY <2>2, <2>3, <2>5 DEF SameLength
<1> QED  BY <1>1, <1>2

LEMMA RowsKeep ==
    ASSUME NEW h \in Headers, NEW s, Fits(s), NEW v, v = WithRows(h, s)
    PROVE  Same(s, v) /\ Counts(h, s, v) /\ SameLength(s, v)
<1> DEFINE t == IF Has(h, "Row-Count")
                THEN [s EXCEPT !.row_count = Clamped(Get(h, "Row-Count"))] ELSE s
           n == Clamped(Get(h, "Row-Count"))
           k == Clamped(Get(h, "Row-Count-Sent"))
<1>1. /\ Fits(t) /\ Same(s, t) /\ t.columns = s.columns /\ t.row_count_sent = s.row_count_sent
      /\ t.row_count = IF Has(h, "Row-Count") THEN n ELSE s.row_count
  <2>1. Has(h, "Row-Count") => n \in Nat
    BY GetTypes, ClampedIsNat DEF Numbers
  <2>2. t = IF Has(h, "Row-Count") THEN [s EXCEPT !.row_count = n] ELSE s
    OBVIOUS
  <2> HIDE DEF t, n
  <2> QED  BY <2>1, <2>2 DEF Fits, States, Same
<1>2. v = IF Has(h, "Row-Count-Sent") THEN [t EXCEPT !.row_count_sent = k] ELSE t
  BY DEF WithRows
<1> HIDE DEF t, n, k
<1>3. /\ Same(t, v) /\ v.columns = t.columns /\ v.row_count = t.row_count
      /\ v.row_count_sent = IF Has(h, "Row-Count-Sent") THEN k ELSE t.row_count_sent
  BY <1>1, <1>2 DEF Fits, States, Same
<1> QED  BY <1>1, <1>3 DEF Same, Counts, SameLength, n, k

LEMMA StatementKeeps ==
    ASSUME NEW h \in Headers, NEW s, Fits(s), NEW v, v = WithStatement(h, s)
    PROVE  Same(s, v) /\ SameCounts(s, v) /\ SameLength(s, v)
<1> DEFINE t == IF Has(h, "Statement-ID")
                THEN [s EXCEPT !.id_statement = Get(h, "Statement-ID")] ELSE s
<1>1. Fits(t) /\ Same(s, t) /\ SameCounts(s, t) /\ t.columns = s.columns
  <2> DEFINE n == Get(h, "Statement-ID")
  <2>1. Has(h, "Statement-ID") => n \in Int
    BY GetTypes DEF Numbers
  <2>2. t = IF Has(h, "Statement-ID") THEN [s EXCEPT !.id_statement = n] ELSE s
    OBVIOUS
  <2> HIDE DEF t, n
  <2> QED  BY <2>1, <2>2 DEF Fits, States, Same, SameCounts
<1>2. v = IF Has(h, "Column-Updateability")
          THEN [t EXCEPT !.updateability = Get(h, "Column-Updateability")] ELSE t
  BY DEF WithStatement
<1> HIDE DEF t
<1>3. Same(t, v) /\ SameCounts(t, v) /\ v.columns = t.columns
  BY <1>1, <1>2 DEF Fits, States, Same, SameCounts
<1> QED  BY <1>1, <1>3 DEF Same, SameCounts, SameLength

ResultTypeOf(words) ==
    CASE words = <<"Update-Count">> -> "UPDATE_COUNT"
      [] words = <<"Result-Set">> -> "RESULT_SET"
      [] OTHER -> "UNKNOW"
Kind(h, s, t) ==
    IF Has(h, "Result-Type")
    THEN Len(Get(h, "Result-Type")) <= 1 /\ t.resultType = ResultTypeOf(Get(h, "Result-Type"))
    ELSE t.resultType = s.resultType

LEMMA ResultTypeKeeps ==
    ASSUME NEW h \in Headers, NEW s, Fits(s), NEW v, v = WithResultType(h, s), s.ret = 0
    PROVE  /\ v.ret # 0 => Has(h, "Result-Type") /\ Len(Get(h, "Result-Type")) > 1
           /\ v.ret = 0 => SameCounts(s, v) /\ SameLength(s, v) /\ Kind(h, s, v)
<1>1. CASE ~Has(h, "Result-Type")
  BY <1>1 DEF WithResultType, SameCounts, SameLength, Kind
<1>2. CASE Has(h, "Result-Type")
  <2> DEFINE words == Get(h, "Result-Type")
  <2>1. Len(words) \in Nat
    BY <1>2, GetTypes, LenProperties
  <2>2. CASE Len(words) > 1
    <3>1. v = [s EXCEPT !.ret = 1]
      BY <1>2, <2>2 DEF WithResultType
    <3>2. v.ret = 1
      BY <3>1 DEF Fits, States
    <3> QED  BY <1>2, <2>2, <3>2
  <2>3. CASE ~(Len(words) > 1)
    <3> DEFINE r == ResultTypeOf(words)
    <3>1. v = [s EXCEPT !.resultType = r]
      BY <1>2, <2>3 DEF WithResultType, ResultTypeOf
    <3> HIDE DEF r
    <3>2. v.ret = 0 /\ v.resultType = r /\ SameCounts(s, v) /\ v.columns = s.columns
      BY <3>1 DEF Fits, States, SameCounts
    <3> QED  BY <1>2, <2>1, <2>3, <3>2 DEF Kind, SameLength, r
  <2> QED  BY <2>2, <2>3
<1> QED  BY <1>1, <1>2

(* A header that is refused says why, but for two cases; one that is       *)
(* accepted gives the counts, the columns and the kind of result.          *)
LEMMA TreatedIs ==
    ASSUME NEW h \in Headers, NEW s, Fits(s), s.ret = 0, NEW junk \in Int,
           NEW w, w = Treated(h, s, junk)
    PROVE  /\ w.ret # 0 /\ w.error_code = 0 =>
                 h.status = "none" \/ (Has(h, "Result-Type") /\ Len(Get(h, "Result-Type")) > 1)
           /\ w.ret = 0 => h.status # "none" /\ Counts(h, s, w) /\ Width(h, s, w) /\ Kind(h, s, w)
<1> DEFINE t == WithStatus(h, s, junk)
           u == WithColumns(h, t)
           x == WithTypes(h, u)
           y == WithRows(h, x)
           z == WithStatement(h, y)
<1>1. w = IF t.ret # 0 THEN t ELSE IF u.ret # 0 THEN u ELSE WithResultType(h, z)
  BY DEF Treated
<1>2. /\ Fits(t) /\ t.columns = s.columns /\ t \in States
      /\ t.ret # 0 /\ h.status # "none" => t.error_code # 0
  BY StatusTypes DEF Fits
<1>3. t.ret = 0 => h.status # "none" /\ SameCounts(s, t) /\ t.resultType = s.resultType
  BY StatusKeeps DEF Fits
<1>4. Fits(u) /\ Fits(x) /\ Fits(y) /\ Fits(z)
  BY <1>2, ColumnsTypes, TypesTypes, RowsTypes, StatementTypes
<1>5. t.ret = 0 => /\ u.ret # 0 => u.error_code # 0
                   /\ u.ret = 0 => Same(t, u) /\ SameCounts(t, u) /\ Width(h, t, u)
  BY <1>2, ColumnsKeep
<1>6. Same(u, x) /\ SameCounts(u, x) /\ SameLength(u, x)
  BY <1>4, TypesKeep
<1>7. Same(x, y) /\ Counts(h, x, y) /\ SameLength(x, y)
  BY <1>4, RowsKeep
<1>8. Same(y, z) /\ SameCounts(y, z) /\ SameLength(y, z)
  BY <1>4, StatementKeeps
<1>9. z.ret = 0 =>
        /\ WithResultType(h, z).ret # 0 => Has(h, "Result-Type") /\ Len(Get(h, "Result-Type")) > 1
        /\ WithResultType(h, z).ret = 0 =>
              SameCounts(z, WithResultType(h, z)) /\ SameLength(z, WithResultType(h, z))
              /\ Kind(h, z, WithResultType(h, z))
  BY <1>4, ResultTypeKeeps
<1> HIDE DEF t, u, x, y, z
<1>10. CASE t.ret # 0
  BY <1>1, <1>2, <1>10
<1>11. CASE t.ret = 0 /\ u.ret # 0
  BY <1>1, <1>5, <1>11
<1>12. CASE t.ret = 0 /\ u.ret = 0
  <2>1. w = WithResultType(h, z) /\ z.ret = 0
    BY <1>1, <1>5, <1>6, <1>7, <1>8, <1>12 DEF Same
  <2>2. w.ret # 0 => Has(h, "Result-Type") /\ Len(Get(h, "Result-Type")) > 1
    BY <1>9, <2>1
  <2>3. ASSUME w.ret = 0
        PROVE  h.status # "none" /\ Counts(h, s, w) /\ Width(h, s, w) /\ Kind(h, s, w)
    <3>1. SameCounts(z, w) /\ SameLength(z, w) /\ Kind(h, z, w)
      BY <1>9, <2>1, <2>3
    <3>2. Counts(h, s, w)
      BY <1>3, <1>5, <1>6, <1>7, <1>8, <1>12, <3>1 DEF Counts, SameCounts
    <3>3. Width(h, s, w)
      BY <1>2, <1>5, <1>6, <1>7, <1>8, <1>12, <3>1 DEF Width, SameLength
    <3>4. Kind(h, s, w)
      BY <1>3, <1>5, <1>6, <1>7, <1>8, <1>12, <3>1 DEF Kind, Same
    <3> QED  BY <1>3, <1>12, <3>2, <3>3, <3>4
  <2> QED  BY <2>2, <2>3
<1> QED  BY <1>10, <1>11, <1>12

-----------------------------------------------------------------------------
(* Reasons of failures                                                     *)
SaysWhy(t) ==
    t.ret = 1 /\ t.code = 0 =>
        \/ t.header.status = "none"
        \/ Len(Said(t.header, "Result-Type", <<>>)) > 1

LEMMA ReturnSaysWhy ==
    ASSUME NEW done, NEW ret, NEW code, Returns(done, ret, code), ret = 0 \/ code # 0
    PROVE  SaysWhy(told')
<1>1. told'.ret = ret /\ told'.code = code
  BY DEF Returns
<1> QED  BY <1>1 DEF SaysWhy

LEMMA EndSaysWhy ==
    ASSUME NEW done, NEW ret, NEW code, Ends(done, ret, code), ret = 0 \/ code # 0
    PROVE  SaysWhy(told')
<1> DEFINE e == IF done.op = "login" /\ ret = 1 /\ code = 0 THEN -1 ELSE code
<1>1. Returns(done, ret, e)
  BY DEF Ends
<1>2. ret = 0 \/ e # 0
  OBVIOUS
<1> HIDE DEF e
<1> QED  BY <1>1, <1>2, ReturnSaysWhy

LEMMA RefusalSaysWhy ==
    ASSUME TypeInv, NEW n, NEW h \in Headers, NEW junk \in Int, NEW s \in States, NEW done \in CallsMade,
           Reads(n, h, junk, s, done), done.header = h, s.ret # 0, call.state = Fresh(call.op)
    PROVE  SaysWhy(told')
<1> DEFINE e == IF done.op = "login" /\ s.error_code = 0 THEN -1 ELSE s.error_code
<1>1. s = Treated(h, Fresh(call.op), junk) /\ Ends(done, 1, s.error_code)
  BY DEF Reads
<1>2. s.error_code = 0 =>
         h.status = "none" \/ (Has(h, "Result-Type") /\ Len(Get(h, "Result-Type")) > 1)
  BY <1>1, FreshFits, TreatedIs
<1>3. Returns(done, 1, e)
  BY <1>1 DEF Ends
<1>4. e = 0 => s.error_code = 0
  OBVIOUS
<1> HIDE DEF e
<1>5. told'.code = e /\ told'.header = h
  BY <1>3 DEF Returns
<1> QED  BY <1>2, <1>4, <1>5, SaidIsGot DEF SaysWhy

LEMMA AcceptSaysWhy ==
    ASSUME FailureHasReason, NEW done, Accepted(done)
    PROVE  SaysWhy(told')
<1>1. CASE told' = told
  BY <1>1 DEF FailureHasReason, SaysWhy
<1>2. CASE \E code : Ends(done, 0, code)
  BY <1>2, EndSaysWhy
<1> QED  BY <1>1, <1>2 DEF Accepted, Goes

LEMMA ReasonNext ==
    ASSUME TypeInv, FailureHasReason, [Next]_vars
    PROVE  SaysWhy(told')
<1>1. CASE told' = told
  BY <1>1 DEF FailureHasReason, SaysWhy
<1>2. CASE told' = Nothing
  BY <1>2 DEF Nothing, SaysWhy
<1>3. ASSUME NEW c \in Conns, AlreadyConnected(c) \/ ConnectFails(c) \/ RefuseQuery(c)
      PROVE  SaysWhy(told')
  <2>1. PICK op, code : Tells(c, op, code) /\ code # 0
    BY <1>3, CommandsAssumption DEF AlreadyConnected, ConnectFails, RefuseQuery
  <2>2. told'.code = code
    BY <2>1 DEF Tells, Nothing
  <2> QED  BY <2>1, <2>2 DEF SaysWhy
<1>4. CASE ReadHeader
  <2>1. PICK n \in DOMAIN Pending(call.c), h \in Headers, junk \in Int, s \in States,
             done \in CallsMade : Reads(n, h, junk, s, done) /\ done.header = h
    BY <1>4, HeaderIsRead
  <2>2. CASE s.ret = 0
    BY <2>1, <2>2, AcceptSaysWhy DEF Reads
  <2>3. CASE s.ret # 0
    <3>1. call.state = Fresh(call.op)
      BY <1>4 DEF ReadHeader, At, TypeInv
    <3> QED  BY <2>1, <2>3, <3>1, RefusalSaysWhy
  <2> QED  BY <2>2, <2>3
<1>5. CASE ReadCount \/ ReadRow \/ MalformedRow \/ ReadFails \/ NoMemory
  <2>1. CASE \E ret, code : Ends(call, ret, code) /\ (ret = 0 \/ code # 0)
    BY <2>1, EndSaysWhy
  <2>2. CASE ReadFails
    <3>1. (IF error_code[call.c] = 0 THEN -1 ELSE error_code[call.c]) # 0
      OBVIOUS
    <3> QED  BY <2>1, <2>2, <3>1 DEF ReadFails
  <2>3. CASE ReadRow /\ call.left # 1
    BY <1>1, <2>3 DEF ReadRow
  <2>4. CASE ReadCount \/ (ReadRow /\ call.left = 1)
    BY <2>1, <2>4 DEF ReadCount, ReadRow
  <2>5. CASE MalformedRow \/ NoMemory
    <3>1. Ends(call, 1, -1)
      BY <2>5, Zenon DEF MalformedRow, NoMemory
    <3>2. -1 # 0
      OBVIOUS
    <3> QED  BY <2>1, <3>1, <3>2
  <2> QED  BY <1>5, <2>2, <2>3, <2>4, <2>5
<1>6. CASE SendFails
  <2>1. Returns(call, 1, -1) \/ told' = told
    BY <1>6 DEF SendFails
  <2>2. -1 # 0
    OBVIOUS
  <2> QED  BY <1>1, <2>1, <2>2, ReturnSaysWhy
<1>7. CASE Disconnect
  BY <1>7, ReturnSaysWhy DEF Disconnect
<1>8. CASE SendOk \/ SendIntoTheVoid
  BY <1>1, <1>8 DEF SendOk, SendIntoTheVoid
<1>9. CASE OtherOpens \/ \E d \in Descriptors : LinkDrops(d) \/ OtherCloses(d)
  BY <1>2, <1>9 DEF OtherOpens, LinkDrops, OtherCloses
<1>10. ASSUME NEW c \in Conns,
              Connect(c) \/ Query(c) \/ Prepare(c) \/ Fetch(c) \/ CloseStatement(c) \/ Logout(c)
       PROVE  SaysWhy(told')
  BY <1>2, <1>10 DEF Connect, Query, Prepare, Fetch, CloseStatement, Logout, Begin
<1>11. CASE UNCHANGED vars
  BY <1>1, <1>11 DEF vars
<1> QED  BY <1>3, <1>4, <1>5, <1>6, <1>7, <1>8, <1>9, <1>10, <1>11 DEF Next, ClientStep

(* Whatever the header says and wherever a call of fourd_interne.c breaks  *)
(* off, one that fails leaves an error code, but for a header without      *)
(* status and one of several Result-Types.                                 *)
THEOREM FailuresHaveAReason == Spec => []FailureHasReason
<1>1. Init => FailureHasReason
  BY DEF Init, Nothing, FailureHasReason
<1>2. TypeInv /\ FailureHasReason /\ [Next]_vars => FailureHasReason'
  BY ReasonNext DEF SaysWhy, FailureHasReason
<1> QED  BY <1>1, <1>2, TypeInvariantHolds, PTL DEF Spec

-----------------------------------------------------------------------------
(* The responses, as their headers are read                                *)
RowsAfter(op, s) ==
    /\ op = "fetch" \/ (op \in {"query", "prepare"} /\ s.resultType = "RESULT_SET")
    /\ s.columns # <<>> /\ s.row_count_sent > 0
CountAfter(op, s) == op = "query" /\ s.resultType = "UPDATE_COUNT"

RightCounts(op, h, s) ==
    /\ op # "fetch" => s.row_count = Clamped(Said(h, "Row-Count", 0))
    /\ s.row_count_sent = Said(h, "Row-Count-Sent", IF op = "fetch" THEN Asked ELSE 0)

(* What an accepted header leaves to be read is there.                     *)
RightLength(op, r, s) ==
    /\ RowsAfter(op, s) => Len(r) - 1 <= s.row_count_sent
    /\ ~RowsAfter(op, s) /\ CountAfter(op, s) => Len(r) <= 2
    /\ ~RowsAfter(op, s) /\ ~CountAfter(op, s) => Len(r) = 1

LEMMA FreshCounts ==
    /\ \A op : op # "fetch" => Fresh(op).row_count = 0 /\ Fresh(op).row_count_sent = 0
    /\ Fresh("fetch").row_count_sent = Asked /\ Len(Fresh("fetch").columns) = 1
    /\ \A op : Fresh(op).resultType = "UNKNOW"
<1> DEFINE cols == <<"VK_LONG">>
<1>1. cols \in Seq(Types) /\ Len(cols) = 1
  BY DEF Types
<1>2. NewResult \in States /\ NewResult.row_count = 0 /\ NewResult.row_count_sent = 0
      /\ NewResult.resultType = "UNKNOW"
  BY NewResultFits DEF Fits, NewResult
<1> DEFINE s == PageResult(cols, Asked, FALSE)
<1>3. s = [NewResult EXCEPT !.columns = cols, !.borrowed = TRUE, !.row_count_sent = Asked,
                            !.updateability = FALSE]
  BY DEF PageResult
<1>4. \A op : Fresh(op) = IF op = "fetch" THEN s ELSE NewResult
  BY DEF Fresh
<1> HIDE DEF s, cols
<1>5. s.row_count_sent = Asked /\ s.columns = cols /\ s.resultType = "UNKNOW"
  BY <1>2, <1>3 DEF States
<1> QED  BY <1>1, <1>2, <1>4, <1>5

(* A header as it stands at the head of a response.                        *)
LEMMA HeadedIs ==
    ASSUME NEW status \in {"OK", "ERROR", "none"}, NEW lines \in Seq(Lines), NEW k \in Nat, NEW r,
           IsHeaded(r, status, lines, k)
    PROVE  /\ Len(r) = k + 1 /\ r[1].header \in Headers
           /\ r[1].header.status = status /\ r[1].header.lines = lines
<1>1. PICK body \in [1 .. k -> Bodied] : r = Headed(status, lines, body)
  BY DEF IsHeaded
<1>2. Len(r) = k + 1 /\ r[1] = Item("header", [status |-> status, lines |-> lines])
  BY <1>1, HeadedShape
<1>3. r[1].header = [status |-> status, lines |-> lines]
  BY <1>2 DEF Item
<1> QED  BY <1>2, <1>3 DEF Headers

Begins(r, length, status, lines) ==
    /\ Len(r) = length /\ r[1].header \in Headers
    /\ r[1].header.status = status /\ r[1].header.lines = lines

LEMMA BeginsSo ==
    ASSUME NEW status \in {"OK", "ERROR", "none"}, NEW lines \in Seq(Lines), NEW k \in Nat,
           NEW n \in Nat, n = k + 1, NEW r, IsHeaded(r, status, lines, k)
    PROVE  Begins(r, n, status, lines)
  BY HeadedIs DEF Begins

LEMMA FamiliesBegin ==
    /\ \A r \in Acknowledged : Begins(r, 1, "OK", <<>>)
    /\ \A r \in Prepared : Begins(r, 1, "OK", PreparedLines)
    /\ \A r \in Counted : Begins(r, 2, "OK", CountedLines)
    /\ \A r \in Several : Begins(r, 3, "OK", SeveralLines)
    /\ \A r \in Miscounted : Begins(r, 2, "OK", MiscountedLines)
    /\ \A r \in Page : Begins(r, 3, "OK", PageLines) \/ Begins(r, 2, "OK", ShortPageLines)
    /\ \A r \in Refusals : \E status \in {"ERROR", "none"} : \E lines : Begins(r, 1, status, lines)
<1> DEFINE all == {"OK", "ERROR", "none"}
<1>1. /\ "OK" \in all /\ "ERROR" \in all /\ "none" \in all /\ {"ERROR", "none"} \subseteq all
      /\ 0 \in Nat /\ 1 \in Nat /\ 2 \in Nat /\ 3 \in Nat
      /\ 1 = 0 + 1 /\ 2 = 1 + 1 /\ 3 = 2 + 1 /\ Asked = 2
  BY DEF Asked
<1>2. \A status \in all, lines \in Seq(Lines), k \in Nat, n \in Nat :
         n = k + 1 => \A r : IsHeaded(r, status, lines, k) => Begins(r, n, status, lines)
  BY BeginsSo
<1> HIDE DEF all
<1>3. \A r \in Acknowledged : Begins(r, 1, "OK", <<>>)
  BY <1>1, <1>2, AcknowledgedAre, LinesTyped, Zenon
<1>4. \A r \in Prepared : Begins(r, 1, "OK", PreparedLines)
  BY <1>1, <1>2, CountedAre, LinesTyped, Zenon
<1>5. \A r \in Counted : Begins(r, 2, "OK", CountedLines)
  BY <1>1, <1>2, CountedAre, LinesTyped, Zenon
<1>6. \A r \in Several : Begins(r, 3, "OK", SeveralLines)
  BY <1>1, <1>2, CountedAre, LinesTyped, Zenon
<1>7. \A r \in Miscounted : Begins(r, 2, "OK", MiscountedLines)
  BY <1>1, <1>2, CountedAre, LinesTyped, Zenon
<1>8. ASSUME NEW r \in Page
      PROVE  Begins(r, 3, "OK", PageLines) \/ Begins(r, 2, "OK", ShortPageLines)
  <2>1. CASE IsHeaded(r, "OK", PageLines, 2)
    BY <1>1, <1>2, <2>1, LinesTyped, Zenon
  <2>2. CASE IsHeaded(r, "OK", ShortPageLines, 1)
    BY <1>1, <1>2, <2>2, LinesTyped, Zenon
  <2> QED  BY <1>1, <2>1, <2>2, PagesAre
<1>9. ASSUME NEW r \in Refusals
      PROVE  \E status \in {"ERROR", "none"} : \E lines : Begins(r, 1, status, lines)
  <2>1. CASE \E e \in ErrorCodes : IsHeaded(r, "ERROR", <<Line("Error-Code", e)>>, 0)
    <3>1. PICK e \in ErrorCodes : IsHeaded(r, "ERROR", <<Line("Error-Code", e)>>, 0)
      BY <2>1
    <3>2. Begins(r, 1, "ERROR", <<Line("Error-Code", e)>>)
      BY <1>1, <1>2, <3>1, LinesTyped, Zenon
    <3> QED  BY <3>2, Zenon
  <2>2. CASE \E status \in {"ERROR", "none"} : IsHeaded(r, status, <<>>, 0)
    <3>1. PICK status \in {"ERROR", "none"} : IsHeaded(r, status, <<>>, 0)
      BY <2>2
    <3>2. status \in all
      BY <1>1
    <3>3. Begins(r, 1, status, <<>>)
      BY <1>1, <1>2, <3>1, <3>2, LinesTyped, Zenon
    <3> QED  BY <3>3, Zenon
  <2> QED  BY <2>1, <2>2, RefusalsAre
<1> QED  BY <1>3, <1>4, <1>5, <1>6, <1>7, <1>8, <1>9

LEMMA Unfound ==
    ASSUME NEW h \in Headers, NEW section, \A i \in DOMAIN h.lines : ~IsFoundIn(h.lines[i].name, section)
    PROVE  ~Has(h, section) /\ \A default : Said(h, section, default) = default
<1>1. ~Has(h, section)
  BY DEF Has, Hits
<1>2. \A i \in DOMAIN h.lines : h.lines[i].name # section
  BY DEF IsFoundIn
<1> QED  BY <1>1, <1>2, SaidIs

LEMMA LineFields ==
    ASSUME NEW name, NEW value
    PROVE  Line(name, value).name = name /\ Line(name, value).value = value
  BY DEF Line

LEMMA UncountedRows ==
    ASSUME NEW op, NEW h \in Headers, NEW s, Counts(h, Fresh(op), s),
           \A i \in DOMAIN h.lines : h.lines[i].name \notin {"Row-Count", "Row-Count-Sent"}
    PROVE  RightCounts(op, h, s)
<1>1. \A i \in DOMAIN h.lines : /\ ~IsFoundIn(h.lines[i].name, "Row-Count")
                                /\ ~IsFoundIn(h.lines[i].name, "Row-Count-Sent")
  BY DEF IsFoundIn
<1>2. /\ ~Has(h, "Row-Count") /\ ~Has(h, "Row-Count-Sent")
      /\ Said(h, "Row-Count", 0) = 0
      /\ Said(h, "Row-Count-Sent", IF op = "fetch" THEN Asked ELSE 0) = IF op = "fetch" THEN Asked ELSE 0
  BY <1>1, Unfound
<1>3. Clamped(0) = 0
  BY DEF Clamped
<1> QED  BY <1>2, <1>3, FreshCounts DEF RightCounts, Counts

LEMMA OneLineIs ==
    ASSUME NEW a
    PROVE  DOMAIN <<a>> = {1} /\ <<a>>[1] = a
  OBVIOUS

LEMMA TwoLinesAre ==
    ASSUME NEW a, NEW b
    PROVE  DOMAIN <<a, b>> = {1, 2} /\ <<a, b>>[1] = a /\ <<a, b>>[2] = b
  OBVIOUS

LEMMA SevenLinesAre ==
    ASSUME NEW a, NEW b, NEW c, NEW d, NEW e, NEW f, NEW g, NEW l, l = <<a, b, c, d, e, f, g>>
    PROVE  /\ DOMAIN l = 1 .. 7
           /\ l[1] = a /\ l[2] = b /\ l[3] = c /\ l[4] = d /\ l[5] = e /\ l[6] = f /\ l[7] = g
  OBVIOUS

(* What holds of the call once it has accepted r.                          *)
Suits(op, r, s) == RightCounts(op, r[1].header, s) /\ RightLength(op, r, s)

LEMMA ShortSuits ==
    ASSUME NEW op, NEW r, NEW s \in States, Len(r) = 1
    PROVE  RightLength(op, r, s)
<1>1. s.row_count_sent \in Nat
  BY DEF States
<1> QED  BY <1>1 DEF RightLength

AcceptedFrom(op, h, s) ==
    /\ h \in Headers /\ s \in States /\ h.status = "OK"
    /\ Counts(h, Fresh(op), s) /\ Width(h, Fresh(op), s) /\ Kind(h, Fresh(op), s)

LEMMA AcknowledgedSuits ==
    ASSUME NEW op, NEW r \in Acknowledged, NEW s, AcceptedFrom(op, r[1].header, s)
    PROVE  Suits(op, r, s)
<1>1. Len(r) = 1 /\ r[1].header.lines = <<>>
  BY FamiliesBegin DEF Begins
<1>2. DOMAIN r[1].header.lines = {}
  BY <1>1
<1> QED  BY <1>1, <1>2, UncountedRows, ShortSuits DEF AcceptedFrom, Suits

LEMMA PreparedSuits ==
    ASSUME NEW op, NEW r \in Prepared, NEW s, AcceptedFrom(op, r[1].header, s)
    PROVE  Suits(op, r, s)
<1>1. Len(r) = 1 /\ r[1].header.lines = PreparedLines
  BY FamiliesBegin DEF Begins
<1>2. \A i \in DOMAIN PreparedLines : PreparedLines[i].name = "Result-Type"
  BY OneLineIs, LineFields DEF PreparedLines, ResultType
<1> QED  BY <1>1, <1>2, UncountedRows, ShortSuits DEF AcceptedFrom, Suits

LEMMA SeveralSuits ==
    ASSUME NEW op, NEW r \in Several, NEW s
    PROVE  ~AcceptedFrom(op, r[1].header, s)
<1> DEFINE h == r[1].header
           words == <<"Update-Count", "Update-Count">>
<1>1. h.lines = SeveralLines
  BY FamiliesBegin DEF Begins
<1>2. DOMAIN SeveralLines = {1} /\ SeveralLines[1].name = "Result-Type" /\ SeveralLines[1].value = words
  BY OneLineIs, LineFields DEF SeveralLines, ResultType
<1> HIDE DEF words, h
<1>3. IsFirstHit(h, "Result-Type", 1)
  BY <1>1, <1>2 DEF IsFirstHit, IsHit, IsFoundIn
<1>4. Len(words) = 2
  BY DEF words
<1>5. h \in Headers => Has(h, "Result-Type") /\ Get(h, "Result-Type") = words
  BY <1>1, <1>2, <1>3, GetIs
<1>6. ASSUME AcceptedFrom(op, h, s)
      PROVE  FALSE
  <2>1. h \in Headers /\ Kind(h, Fresh(op), s)
    BY <1>6 DEF AcceptedFrom
  <2>2. Len(words) <= 1
    BY <1>5, <2>1 DEF Kind
  <2> QED  BY <1>4, <2>2
<1> QED  BY <1>6 DEF h

LEMMA MiscountedSuits ==
    ASSUME NEW op, NEW r \in Miscounted, NEW s
    PROVE  ~AcceptedFrom(op, r[1].header, s)
<1> DEFINE h == r[1].header
<1>1. h.lines = MiscountedLines
  BY FamiliesBegin DEF Begins
<1>2. DOMAIN MiscountedLines = {1} /\ MiscountedLines[1].name = "Column-Count"
      /\ MiscountedLines[1].value = -1
  BY OneLineIs, LineFields DEF MiscountedLines
<1> HIDE DEF h
<1>3. IsFirstHit(h, "Column-Count", 1)
  BY <1>1, <1>2 DEF IsFirstHit, IsHit, IsFoundIn
<1>4. h \in Headers => Has(h, "Column-Count") /\ Get(h, "Column-Count") = -1
  BY <1>1, <1>2, <1>3, GetIs
<1>5. -1 \notin 0 .. MaxColumns
  BY MaxColumnsAssumption
<1> QED  BY <1>4, <1>5 DEF AcceptedFrom, Width, h

LEMMA CountedSuits ==
    ASSUME NEW r \in Counted, NEW s, AcceptedFrom("query", r[1].header, s)
    PROVE  Suits("query", r, s)
<1> DEFINE h == r[1].header
           words == <<"Update-Count">>
<1>1. Len(r) = 2 /\ h.lines = CountedLines
  BY FamiliesBegin DEF Begins
<1>2. /\ DOMAIN CountedLines = {1, 2} /\ CountedLines[1].name = "Statement-ID"
      /\ CountedLines[2].name = "Result-Type" /\ CountedLines[2].value = words
  BY TwoLinesAre, LineFields DEF CountedLines, ResultType
<1> HIDE DEF h, words
<1>3. IsFirstHit(h, "Result-Type", 2)
  BY <1>1, <1>2 DEF IsFirstHit, IsHit, IsFoundIn
<1>4. Has(h, "Result-Type") /\ Get(h, "Result-Type") = words
  BY <1>1, <1>2, <1>3, GetIs DEF AcceptedFrom, h
<1>5. s.resultType = "UPDATE_COUNT"
  BY <1>4 DEF AcceptedFrom, Kind, ResultTypeOf, words, h
<1>6. RightLength("query", r, s)
  BY <1>1, <1>5 DEF RightLength, RowsAfter, CountAfter
<1>7. RightCounts("query", h, s)
  BY <1>1, <1>2, UncountedRows DEF AcceptedFrom, h
<1> QED  BY <1>6, <1>7 DEF Suits, h

LEMMA NotNone == \A s : Len(s) # 0 => s # <<>>
<1>1. Len(<<>>) = 0
  OBVIOUS
<1> QED  BY <1>1, Zenon

LEMMA PageSuits ==
    ASSUME NEW r \in Page, NEW s, AcceptedFrom("fetch", r[1].header, s)
    PROVE  Suits("fetch", r, s)
<1> DEFINE h == r[1].header
<1>1. s.columns \in Seq(Types) /\ h \in Headers
  BY DEF AcceptedFrom, States
<1>2. CASE Begins(r, 3, "OK", PageLines)
  <2>1. Len(r) = Asked + 1 /\ h.lines = PageLines
    BY <1>2 DEF Begins, Asked
  <2>2. DOMAIN PageLines = {1} /\ PageLines[1].name = "Result-Type"
    BY OneLineIs, LineFields DEF PageLines, ResultType
  <2>3. \A i \in DOMAIN h.lines : h.lines[i].name = "Result-Type"
    BY <2>1, <2>2
  <2> HIDE DEF h
  <2>4. RightCounts("fetch", h, s)
    BY <1>1, <2>3, UncountedRows DEF AcceptedFrom, h
  <2>5. ~Has(h, "Row-Count-Sent") /\ ~Has(h, "Column-Count")
    BY <1>1, <2>3, Unfound DEF IsFoundIn
  <2>6. s.row_count_sent = Asked /\ Len(s.columns) = 1
    BY <2>5, FreshCounts DEF AcceptedFrom, Counts, Width, SameLength, h
  <2>7. s.columns # <<>>
    <3>1. Len(s.columns) # 0
      BY <2>6
    <3> QED  BY <3>1, NotNone, Zenon
  <2>8. RightLength("fetch", r, s)
    BY <2>1, <2>6, <2>7 DEF RightLength, RowsAfter, Asked
  <2> QED  BY <2>4, <2>8 DEF Suits, h
<1>3. CASE Begins(r, 2, "OK", ShortPageLines)
  <2>1. Len(r) = 2 /\ h.lines = ShortPageLines
    BY <1>3 DEF Begins
  <2>2. /\ DOMAIN ShortPageLines = {1, 2} /\ ShortPageLines[1].name = "Row-Count-Sent"
        /\ ShortPageLines[1].value = 1 /\ ShortPageLines[2].name = "Result-Type"
    BY TwoLinesAre, LineFields DEF ShortPageLines, ResultType
  <2> HIDE DEF h
  <2>3. IsFirstHit(h, "Row-Count-Sent", 1) /\ IsFirstLine(h, "Row-Count-Sent", 1)
    BY <2>1, <2>2 DEF IsFirstHit, IsFirstLine, IsHit, IsFoundIn
  <2>4. /\ Has(h, "Row-Count-Sent") /\ Get(h, "Row-Count-Sent") = 1
        /\ Said(h, "Row-Count-Sent", Asked) = 1
    BY <1>1, <2>1, <2>2, <2>3, GetIs, SaidIs
  <2>5. \A i \in DOMAIN h.lines : ~IsFoundIn(h.lines[i].name, "Column-Count")
    BY <2>1, <2>2 DEF IsFoundIn
  <2>6. ~Has(h, "Column-Count")
    BY <1>1, <2>5, Unfound
  <2>7. s.row_count_sent = 1 /\ Len(s.columns) = 1
    BY <2>4, <2>6, FreshCounts DEF AcceptedFrom, Counts, Width, SameLength, Clamped, h
  <2>8. s.columns # <<>>
    <3>1. Len(s.columns) # 0
      BY <2>7
    <3> QED  BY <3>1, NotNone, Zenon
  <2>9. RightLength("fetch", r, s)
    BY <2>1, <2>7, <2>8 DEF RightLength, RowsAfter
  <2>10. RightCounts("fetch", h, s)
    BY <2>4, <2>7 DEF RightCounts
  <2> QED  BY <2>9, <2>10 DEF Suits, h
<1> QED  BY <1>2, <1>3, FamiliesBegin

LEMMA SelectedSuits ==
    ASSUME NEW r \in Selected, NEW s, AcceptedFrom("query", r[1].header, s)
    PROVE  Suits("query", r, s)
<1> DEFINE h == r[1].header
           words == <<"Result-Set">>
<1>1. PICK m \in ColumnCounts, n \in RowCounts, k \in FirstPages :
         IsHeaded(r, "OK", SelectedLines(m, n, k), IF m = 0 THEN 0 ELSE k)
  BY SelectedAre
<1>2. m \in Int /\ n \in Int /\ k \in Nat
  BY CommandsAssumption
<1> DEFINE l == SelectedLines(m, n, k)
           rows == IF m = 0 THEN 0 ELSE k
<1>3. rows \in Nat
  BY <1>2
<1>4. Len(r) = rows + 1 /\ h.lines = l
  <2> HIDE DEF rows, l
  <2>1. IsHeaded(r, "OK", l, rows)
    BY <1>1 DEF rows, l
  <2>2. l \in Seq(Lines)
    BY LinesTyped DEF l
  <2> QED  BY <1>3, <2>1, <2>2, HeadedIs
<1>5. /\ DOMAIN l = 1 .. 7
      /\ l[1] = Line("Statement-ID", 1) /\ l[2] = Line("Column-Count", m)
      /\ l[3] = Line("Column-Types", <<"VK_LONG">>) /\ l[4] = Line("Row-Count", n)
      /\ l[5] = Line("Row-Count-Sent", k) /\ l[6] = Line("Column-Updateability", FALSE)
      /\ l[7] = ResultType(words)
  <2> DEFINE a == Line("Statement-ID", 1)
             b == Line("Column-Count", m)
             c == Line("Column-Types", <<"VK_LONG">>)
             d == Line("Row-Count", n)
             e == Line("Row-Count-Sent", k)
             f == Line("Column-Updateability", FALSE)
             g == ResultType(words)
  <2>1. l = <<a, b, c, d, e, f, g>>
    BY DEF SelectedLines
  <2> HIDE DEF a, b, c, d, e, f, g, l
  <2>2. /\ DOMAIN l = 1 .. 7
        /\ l[1] = a /\ l[2] = b /\ l[3] = c /\ l[4] = d /\ l[5] = e /\ l[6] = f /\ l[7] = g
    BY <2>1, SevenLinesAre
  <2> QED  BY <2>2 DEF a, b, c, d, e, f, g
<1> HIDE DEF l
<1>6. /\ l[1].name = "Statement-ID" /\ l[2].name = "Column-Count" /\ l[2].value = m
      /\ l[3].name = "Column-Types" /\ l[4].name = "Row-Count" /\ l[4].value = n
      /\ l[5].name = "Row-Count-Sent" /\ l[5].value = k /\ l[6].name = "Column-Updateability"
      /\ l[7].name = "Result-Type" /\ l[7].value = words
  <2> HIDE DEF words
  <2>1. l[1].name = "Statement-ID" /\ l[2].name = "Column-Count" /\ l[2].value = m
    BY <1>5, LineFields
  <2>2. l[3].name = "Column-Types" /\ l[4].name = "Row-Count" /\ l[4].value = n
    BY <1>5, LineFields
  <2>3. l[5].name = "Row-Count-Sent" /\ l[5].value = k
    BY <1>5, LineFields
  <2>4. l[6].name = "Column-Updateability"
    BY <1>5, LineFields, Zenon
  <2>5. l[7].name = "Result-Type" /\ l[7].value = words
    BY <1>5, LineFields DEF ResultType
  <2> QED  BY <2>1, <2>2, <2>3, <2>5, <2>4
<1> HIDE DEF h, words
<1>7. \A i \in 1 .. 7 : i = 1 \/ i = 2 \/ i = 3 \/ i = 4 \/ i = 5 \/ i = 6 \/ i = 7
  OBVIOUS
<1>8. /\ IsFirstHit(h, "Column-Count", 2) /\ IsFirstHit(h, "Row-Count", 4)
      /\ IsFirstHit(h, "Row-Count-Sent", 5) /\ IsFirstHit(h, "Result-Type", 7)
      /\ IsFirstLine(h, "Row-Count", 4) /\ IsFirstLine(h, "Row-Count-Sent", 5)
  <2>1. DOMAIN h.lines = 1 .. 7
    BY <1>4, <1>5
  <2>2. /\ h.lines[1].name = "Statement-ID" /\ h.lines[2].name = "Column-Count"
        /\ h.lines[3].name = "Column-Types" /\ h.lines[4].name = "Row-Count"
        /\ h.lines[5].name = "Row-Count-Sent" /\ h.lines[6].name = "Column-Updateability"
        /\ h.lines[7].name = "Result-Type"
    BY <1>4, <1>6
  <2>3. IsFirstHit(h, "Column-Count", 2)
    BY <2>1, <2>2, <1>7 DEF IsFirstHit, IsHit, IsFoundIn
  <2>4. IsFirstHit(h, "Row-Count", 4)
    BY <2>1, <2>2, <1>7 DEF IsFirstHit, IsHit, IsFoundIn
  <2>5. IsFirstHit(h, "Row-Count-Sent", 5)
    BY <2>1, <2>2, <1>7 DEF IsFirstHit, IsHit, IsFoundIn
  <2>6. IsFirstHit(h, "Result-Type", 7)
    BY <2>1, <2>2, <1>7 DEF IsFirstHit, IsHit, IsFoundIn
  <2>7. IsFirstLine(h, "Row-Count", 4) /\ IsFirstLine(h, "Row-Count-Sent", 5)
    BY <2>1, <2>2, <1>7 DEF IsFirstLine
  <2> QED  BY <2>3, <2>4, <2>5, <2>6, <2>7
<1>9. h \in Headers /\ s.columns \in Seq(Types)
  BY DEF AcceptedFrom, States, h
<1>10. /\ Has(h, "Column-Count") /\ Get(h, "Column-Count") = m
       /\ Has(h, "Row-Count") /\ Get(h, "Row-Count") = n
       /\ Has(h, "Row-Count-Sent") /\ Get(h, "Row-Count-Sent") = k
       /\ Has(h, "Result-Type") /\ Get(h, "Result-Type") = words
  BY <1>4, <1>6, <1>8, <1>9, GetIs
<1>11. Said(h, "Row-Count", 0) = n /\ Said(h, "Row-Count-Sent", 0) = k
  BY <1>4, <1>6, <1>8, <1>9, SaidIs
<1>12. /\ s.row_count = Clamped(n) /\ s.row_count_sent = Clamped(k) /\ Len(s.columns) = m
       /\ m \in 0 .. MaxColumns
  BY <1>10 DEF AcceptedFrom, Counts, Width, h
<1>13. s.row_count_sent = k
  BY <1>2, <1>12 DEF Clamped
<1>14. RightCounts("query", h, s)
  BY <1>11, <1>12, <1>13 DEF RightCounts
<1>15. s.resultType = "RESULT_SET"
  BY <1>10 DEF AcceptedFrom, Kind, ResultTypeOf, words, h
<1>16. m # 0 => s.columns # <<>>
  BY <1>12, NotNone
<1>17. RightLength("query", r, s)
  BY <1>2, <1>4, <1>13, <1>15, <1>16 DEF RightLength, RowsAfter, CountAfter
<1> QED  BY <1>14, <1>17 DEF Suits, h

LEMMA RefusalIsShort ==
    ASSUME NEW r \in Refusals
    PROVE  Len(r) = 1 /\ r[1].header.status # "OK"
<1>1. PICK status \in {"ERROR", "none"} : \E lines : Begins(r, 1, status, lines)
  BY FamiliesBegin
<1> QED  BY <1>1 DEF Begins

LEMMA OthersAreOk ==
    ASSUME NEW op, NEW r \in Responses(op), r \notin Refusals
    PROVE  r[1].header.status = "OK"
<1>1. r \in Acknowledged \union Counted \union Several \union Miscounted \union Selected
            \union Prepared \union Page
  BY DEF Responses
<1>2. CASE r \in Selected
  <2>1. PICK m \in ColumnCounts, n \in RowCounts, k \in FirstPages :
            IsHeaded(r, "OK", SelectedLines(m, n, k), IF m = 0 THEN 0 ELSE k)
    BY <1>2, SelectedAre
  <2>2. (IF m = 0 THEN 0 ELSE k) \in Nat
    BY CommandsAssumption
  <2>3. SelectedLines(m, n, k) \in Seq(Lines)
    BY LinesTyped
  <2> HIDE DEF SelectedLines
  <2> QED  BY <2>1, <2>2, <2>3, HeadedIs
<1>3. CASE r \in Acknowledged \union Counted \union Several \union Miscounted \union Prepared
  BY <1>3, FamiliesBegin DEF Begins
<1>4. CASE r \in Page
  BY <1>4, FamiliesBegin DEF Begins
<1> QED  BY <1>1, <1>2, <1>3, <1>4

(* A response whose status is taken for what it is: a refusal is read to   *)
(* its end with its header, and of an accepted one as much is to come as   *)
(* the result says.                                                        *)
LEMMA ResponseSuits ==
    ASSUME NEW op \in Ops, NEW r \in Responses(op), NEW junk \in Int, NEW s,
           s = Treated(r[1].header, Fresh(op), junk), s.ret = 0 <=> r[1].header.status = "OK"
    PROVE  /\ s.ret # 0 => Len(r) = 1
           /\ s.ret = 0 => Suits(op, r, s)
<1>1. r[1].header \in Headers
  BY ResponseShape
<1>2. Fits(s)
  BY <1>1, FreshFits, TreatedTypes
<1>3. s.ret # 0 => Len(r) = 1
  BY RefusalIsShort, OthersAreOk
<1>4. ASSUME s.ret = 0
      PROVE  Suits(op, r, s)
  <2>1. AcceptedFrom(op, r[1].header, s)
    BY <1>1, <1>2, <1>4, FreshFits, TreatedIs DEF AcceptedFrom, Fits
  <2>2. r \notin Refusals
    BY <1>4, RefusalIsShort
  <2>3. CASE op = "query"
    <3>1. r \in Acknowledged \union Counted \union Several \union Miscounted \union Selected
      BY <2>2, <2>3 DEF Responses
    <3> QED  BY <2>1, <2>3, <3>1, AcknowledgedSuits, CountedSuits, SeveralSuits, MiscountedSuits,
                SelectedSuits
  <2>4. CASE op = "prepare"
    <3>1. r \in Acknowledged \union Prepared
      BY <2>2, <2>4 DEF Responses
    <3> QED  BY <2>1, <3>1, AcknowledgedSuits, PreparedSuits
  <2>5. CASE op = "fetch"
    <3>1. r \in Page \union Several
      BY <2>2, <2>5 DEF Responses
    <3> QED  BY <2>1, <2>5, <3>1, PageSuits, SeveralSuits
  <2>6. CASE op \notin {"query", "prepare", "fetch"}
    <3>1. r \in Acknowledged
      BY <2>2, <2>6 DEF Responses
    <3> QED  BY <2>1, <3>1, AcknowledgedSuits
  <2> QED  BY <2>3, <2>4, <2>5, <2>6
<1> QED  BY <1>3, <1>4

-----------------------------------------------------------------------------
(* What is on its way to a connection                                      *)
FreeInv == \A d \in Descriptors : owner[d] \in {"free", "other"} => wire[d] = <<>>

Quiet(c) == rbuf[c] = <<>> /\ (Owns(c) => wire[socket[c]] = <<>>)
IsPartOf(s, r) == \E k \in 0 .. Len(r) : s = SubSeq(r, 1, k)
Answering(c) ==
    /\ rbuf[c] = <<>>
    /\ Owns(c) => \E r \in Responses(call.op) : IsPartOf(wire[socket[c]], r)
Right(x) == x.own /\ x.header.status = "OK" /\ RightCounts(x.op, x.header, x.state)

Busy(c) == call # NoCall /\ call.c = c
Reading(c) == Busy(c) /\ call.step \in {"header", "count", "rows"}
ConnInv(c) ==
    /\ ~Reading(c) => Quiet(c)
    /\ Busy(c) /\ call.step = "header" => Answering(c)
    /\ Busy(c) /\ call.step = "count" => Owns(c) /\ Len(Pending(c)) <= 1
    /\ Busy(c) /\ call.step = "rows" => Owns(c) /\ Len(Pending(c)) <= call.left
    /\ Busy(c) /\ call.step \in {"count", "rows", "close"} => Right(call)
StreamInv == ~strayed => \A c \in Conns : ~outOfStep[c] => ConnInv(c)

LEMMA NoneOfNone ==
    /\ Aged(<<>>) = <<>> /\ <<>> \in Seq(Items)
    /\ \A k \in Int : k <= 0 => SubSeq(<<>>, 1, k) = <<>>
<1>1. \A k \in Int : k <= 0 => SubSeq(<<>>, 1, k) = <<>>
  <2> TAKE k \in Int
  <2> HAVE k <= 0
  <2>1. SubSeq(<<>>, 1, k) \in Seq(Items) /\ Len(SubSeq(<<>>, 1, k)) = 0
    BY SubSeqProperties
  <2> QED  BY <2>1, EmptySeq
<1> QED  BY <1>1, EmptySeq DEF Aged

LEMMA TakenFromFree ==
    ASSUME TypeInv, FreeInv, NEW c \in Conns, NEW n, Takes(c, n), UNCHANGED owner
    PROVE  FreeInv'
<1>1. wire' = wire \/ (OwnerOf(socket[c]) \in Conns /\ \E s : wire' = [wire EXCEPT ![socket[c]] = s])
  BY DEF Takes
<1>2. OwnerOf(socket[c]) \in Conns => socket[c] \in Descriptors /\ owner[socket[c]] \in Conns
  BY SocketOwner, OwnersAreNamed
<1>3. "free" \notin Conns /\ "other" \notin Conns
  BY OwnersAreNamed
<1>4. ASSUME NEW d \in Descriptors, owner'[d] \in {"free", "other"}
      PROVE  wire'[d] = <<>>
  <2>1. wire[d] = <<>> /\ wire \in [Descriptors -> Seq(Items)]
    BY <1>4 DEF FreeInv, TypeInv
  <2>2. CASE wire' = wire
    BY <2>1, <2>2
  <2>3. CASE OwnerOf(socket[c]) \in Conns /\ \E s : wire' = [wire EXCEPT ![socket[c]] = s]
    <3>1. d # socket[c]
      BY <1>2, <1>3, <1>4, <2>3
    <3> QED  BY <2>1, <2>3, <3>1
  <2> QED  BY <1>1, <2>2, <2>3
<1> QED  BY <1>4 DEF FreeInv

LEMMA ClosedIsFree ==
    ASSUME TypeInv, FreeInv, NEW d, CloseDescriptor(d)
    PROVE  FreeInv'
  BY DEF CloseDescriptor, FreeInv, TypeInv, TypeOK, net

LEMMA FreeNext ==
    ASSUME TypeInv, FreeInv, [Next]_vars
    PROVE  FreeInv'
<1>1. "free" \notin Conns /\ "other" \notin Conns /\ "orphan" \notin Conns
  BY OwnersAreNamed
<1>2. CASE UNCHANGED <<owner, wire>>
  BY <1>2 DEF FreeInv
<1>3. CASE SendOk
  <2>1. /\ call.c \in Conns
        /\ IsUp(socket[call.c])
    BY <1>3 DEF SendOk, At, TypeInv, CallsMade
  <2>2. socket[call.c] \in Descriptors /\ owner[socket[call.c]] \in Conns
    BY <1>1, <2>1, SocketOwner DEF IsUp
  <2>3. UNCHANGED owner /\ \E s : wire' = [wire EXCEPT ![socket[call.c]] = s]
    BY <1>3 DEF SendOk
  <2> QED  BY <1>1, <2>2, <2>3 DEF FreeInv, TypeInv
<1>4. CASE SendIntoTheVoid \/ ReadFails \/ NoMemory
  BY <1>2, <1>4 DEF SendIntoTheVoid, ReadFails, NoMemory, net
<1>5. CASE SendFails \/ Disconnect
  BY <1>5, ClosedIsFree DEF SendFails, Disconnect
<1>6. CASE ReadHeader \/ ReadCount \/ ReadRow \/ MalformedRow
  <2>1. call.c \in Conns /\ UNCHANGED owner /\ \E n : Takes(call.c, n)
    BY <1>6 DEF ReadHeader, ReadCount, ReadRow, MalformedRow, At, TypeInv, CallsMade
  <2> QED  BY <2>1, TakenFromFree
<1>7. CASE OtherOpens
  <2>1. Lowest \in Descriptors /\ owner[Lowest] = "free"
    BY <1>7, LowestIsFree DEF OtherOpens, Free
  <2> QED  BY <1>7, <2>1 DEF OtherOpens, FreeInv, TypeInv, TypeOK
<1>8. ASSUME NEW d \in Descriptors, LinkDrops(d)
      PROVE  FreeInv'
  BY <1>1, <1>8 DEF LinkDrops, FreeInv, TypeInv
<1>9. ASSUME NEW d \in Descriptors, OtherCloses(d)
      PROVE  FreeInv'
  BY <1>9 DEF OtherCloses, FreeInv, TypeInv, TypeOK
<1>10. ASSUME NEW c \in Conns, AlreadyConnected(c) \/ ConnectFails(c) \/ RefuseQuery(c)
      PROVE  FreeInv'
  BY <1>2, <1>10 DEF AlreadyConnected, ConnectFails, RefuseQuery, net
<1>11. ASSUME NEW c \in Conns, Connect(c)
       PROVE  FreeInv'
  <2>1. Lowest \in Descriptors /\ owner[Lowest] = "free"
    <3>1. Free # {}
      BY <1>11 DEF Connect
    <3> QED  BY <3>1, LowestIsFree DEF Free
  <2>2. \A d \in Descriptors :
           /\ wire'[d] = IF owner[d] = c THEN <<>> ELSE wire[d]
           /\ owner'[d] = IF owner[d] = c THEN "orphan" ELSE IF d = Lowest THEN c ELSE owner[d]
    BY <1>11, Zenon DEF Connect
  <2> QED  BY <1>1, <2>1, <2>2 DEF FreeInv
<1>12. ASSUME NEW c \in Conns, Query(c) \/ Prepare(c) \/ Fetch(c) \/ CloseStatement(c) \/ Logout(c)
       PROVE  FreeInv'
  <2>1. UNCHANGED owner /\ \A d \in Descriptors : wire'[d] = Aged(wire[d])
    BY <1>12 DEF Query, Prepare, Fetch, CloseStatement, Logout, Begin
  <2> QED  BY <2>1, NoneOfNone DEF FreeInv
<1>13. CASE UNCHANGED vars
  BY <1>2, <1>13 DEF vars, net
<1> QED  BY <1>3, <1>4, <1>5, <1>6, <1>7, <1>8, <1>9, <1>10, <1>11, <1>12, <1>13 DEF Next, ClientStep

-----------------------------------------------------------------------------
(* What a step leaves to the connections it is not about, or to all.       *)
Kept(c) ==
    /\ rbuf'[c] = rbuf[c]
    /\ Owns(c)' => Owns(c) /\ wire'[socket'[c]] = wire[socket[c]]

LEMMA QuietStays ==
    ASSUME NEW c, Kept(c), Quiet(c)
    PROVE  Quiet(c)'
  BY DEF Kept, Quiet

LEMMA OwnedApart ==
    ASSUME TypeInv, NEW c \in Conns, NEW b \in Conns, b # c, Owns(b)
    PROVE  OwnerOf(socket[c]) = c => socket[b] # socket[c]
  BY DEF Owns

LEMMA OwnPending ==
    ASSUME TypeInv, NEW c \in Conns, Owns(c)
    PROVE  /\ Pending(c) = rbuf[c] \o wire[socket[c]] /\ Len(Pending(c)) = Len(rbuf[c]) + Len(wire[socket[c]])
           /\ rbuf[c] = <<>> => Pending(c) = wire[socket[c]]
           /\ rbuf[c] \in Seq(Items) /\ wire[socket[c]] \in Seq(Items)
           /\ Len(Pending(c)) = 0 => rbuf[c] = <<>> /\ wire[socket[c]] = <<>>
           /\ Pending(c) = <<>> => Len(Pending(c)) = 0
<1>1. socket[c] \in Descriptors /\ OwnerOf(socket[c]) \in Conns
  BY OwnsIs DEF Owns
<1>2. rbuf[c] \in Seq(Items) /\ wire[socket[c]] \in Seq(Items)
  BY <1>1 DEF TypeInv
<1>3. Pending(c) = rbuf[c] \o wire[socket[c]]
  BY <1>1 DEF Pending
<1>4. Len(Pending(c)) = Len(rbuf[c]) + Len(wire[socket[c]])
  BY <1>2, <1>3, ConcatProperties
<1>5. rbuf[c] = <<>> => Pending(c) = wire[socket[c]]
  BY <1>2, <1>3, ConcatEmptySeq
<1>6. Len(rbuf[c]) \in Nat /\ Len(wire[socket[c]]) \in Nat
  BY <1>2, LenProperties
<1>7. Len(Pending(c)) = 0 => Len(rbuf[c]) = 0 /\ Len(wire[socket[c]]) = 0
  <2> DEFINE x == Len(rbuf[c])
             y == Len(wire[socket[c]])
             z == Len(Pending(c))
  <2> SUFFICES z = 0 => x = 0 /\ y = 0
    OBVIOUS
  <2>1. x \in Nat /\ y \in Nat /\ z = x + y
    BY <1>4, <1>6
  <2> HIDE DEF x, y, z
  <2> QED  BY <2>1
<1>8. Len(Pending(c)) = 0 => rbuf[c] = <<>> /\ wire[socket[c]] = <<>>
  BY <1>2, <1>7, EmptySeq
<1>9. Pending(c) = <<>> => Len(Pending(c)) = 0
  BY EmptySeq
<1> QED  BY <1>2, <1>3, <1>4, <1>5, <1>8, <1>9

LEMMA TakesLeaves ==
    ASSUME TypeInv, TypeInv', NEW c \in Conns, NEW n \in DOMAIN Pending(c), Takes(c, n), Owns(c),
           UNCHANGED <<socket, owner>>
    PROVE  /\ Owns(c)' /\ Len(Pending(c)') = Len(Pending(c)) - n
           /\ \A b \in Conns \ {c} : Kept(b)
<1> DEFINE p == Pending(c)
           d == socket[c]
<1>1. /\ p \in Seq(Items) /\ DOMAIN p = 1 .. Len(p) /\ Len(p) \in Nat
      /\ \A i \in 1 .. Len(p) : p[i] \in Items
  BY PendingType, ElementOfSeq
<1>2. d \in Descriptors /\ OwnerOf(d) = c
  BY OwnsIs DEF Owns
<1>3. PICK k \in {n, Len(p)} :
        rbuf' = [rbuf EXCEPT ![c] = SubSeq(p, n + 1, k)]
        /\ wire' = [wire EXCEPT ![d] = SubSeq(p, k + 1, Len(p))]
  BY <1>2 DEF Takes
<1>4. Owns(c)'
  BY OwnerStays
<1>5. rbuf'[c] = SubSeq(p, n + 1, k) /\ wire'[d] = SubSeq(p, k + 1, Len(p))
  BY <1>2, <1>3 DEF TypeInv
<1>6. Len(Pending(c)') = Len(rbuf'[c]) + Len(wire'[socket'[c]])
  <2>1. (Owns(c) /\ TypeInv => Len(Pending(c)) = Len(rbuf[c]) + Len(wire[socket[c]]))'
    BY OwnPending, PTL
  <2> QED  BY <1>4, <2>1
<1> HIDE DEF p
<1>7. n \in 1 .. Len(p) /\ k \in n .. Len(p)
  BY <1>1, <1>3 DEF p
<1>8. Len(SubSeq(p, n + 1, k)) = k - n /\ Len(SubSeq(p, k + 1, Len(p))) = Len(p) - k
  BY <1>1, <1>7, SubSeqProperties
<1>9. Len(Pending(c)') = Len(p) - n
  <2> DEFINE q == Len(Pending(c)')
             l == Len(p)
  <2>1. q = (k - n) + (l - k)
    <3>1. Len(rbuf'[c]) = k - n /\ Len(wire'[socket'[c]]) = l - k
      BY <1>5, <1>8
    <3> QED  BY <1>6, <3>1
  <2>2. l \in Nat /\ n \in Int /\ k \in Int
    BY <1>1, <1>7
  <2> HIDE DEF q, l
  <2>3. q = l - n
    BY <2>1, <2>2
  <2> QED  BY <2>3 DEF q, l
<1>10. ASSUME NEW b \in Conns \ {c}
       PROVE  Kept(b)
  <2>1. rbuf'[b] = rbuf[b]
    BY <1>3, <1>10 DEF TypeInv
  <2>2. ASSUME Owns(b)'
        PROVE  Owns(b) /\ wire'[socket'[b]] = wire[socket[b]]
    <3>1. Owns(b)
      BY <2>2, OwnerStays
    <3>2. socket[b] # d /\ socket[b] \in Descriptors
      BY <1>2, <3>1, OwnsIs, OwnedApart
    <3> QED  BY <1>3, <3>1, <3>2 DEF TypeInv
  <2> QED  BY <2>1, <2>2 DEF Kept
<1> QED  BY <1>4, <1>9, <1>10 DEF p

LEMMA ClosesElsewhere ==
    ASSUME TypeInv, NEW c \in Conns, Owns(c), CloseDescriptor(socket[c]), UNCHANGED <<socket, rbuf>>
    PROVE  ~Owns(c)' /\ \A b \in Conns \ {c} : Kept(b)
<1> DEFINE d == socket[c]
<1>1. d \in Descriptors /\ OwnerOf(d) = c /\ OwnerOf(d) # "free" /\ c # "free"
  BY OwnsIs, OwnersAreNamed DEF Owns
<1>2. owner' = [owner EXCEPT ![d] = "free"] /\ wire' = [wire EXCEPT ![d] = <<>>]
  BY <1>1 DEF CloseDescriptor
<1>3. owner \in [Descriptors -> Conns \union {"free", "orphan", "other"}] /\ DOMAIN wire = Descriptors
  BY DEF TypeInv, TypeOK
<1>4. owner'[d] = "free"
  BY <1>1, <1>2, <1>3
<1>5. ~Owns(c)'
  BY <1>1, <1>4 DEF Owns, OwnerOf
<1>6. ASSUME NEW b \in Conns \ {c}
      PROVE  Kept(b)
  <2>1. ASSUME Owns(b)'
        PROVE  Owns(b) /\ wire'[socket'[b]] = wire[socket[b]]
    <3>1. socket[b] \in Descriptors /\ owner'[socket[b]] = b /\ b # "free"
      BY <2>1, OwnersAreNamed DEF Owns, OwnerOf
    <3>2. socket[b] # d
      BY <1>4, <3>1
    <3> QED  BY <1>2, <1>3, <3>1, <3>2 DEF Owns, OwnerOf
  <2> QED  BY <2>1 DEF Kept
<1> QED  BY <1>5, <1>6

(* A step of the call in progress, or the step that ends it.               *)
LEMMA CallSteps ==
    ASSUME StreamInv, NEW c \in Conns, Busy(c), call' = NoCall \/ call'.c = c,
           ~strayed' => ~strayed,
           ~strayed' => \A b \in Conns \ {c} : Kept(b) /\ outOfStep'[b] = outOfStep[b],
           ~strayed' /\ ~outOfStep'[c] => ConnInv(c)'
    PROVE  StreamInv'
<1>1. SUFFICES ASSUME ~strayed', NEW b \in Conns, ~outOfStep'[b]
               PROVE  ConnInv(b)'
  BY DEF StreamInv
<1>2. CASE b = c
  BY <1>1, <1>2
<1>3. CASE b # c
  <2>1. Kept(b) /\ ConnInv(b)
    BY <1>1, <1>3 DEF StreamInv
  <2>2. ~Busy(b) /\ ~Busy(b)'
    BY <1>3 DEF Busy
  <2>3. Quiet(b)'
    BY <2>1, <2>2, QuietStays DEF ConnInv, Reading
  <2> QED  BY <2>2, <2>3 DEF ConnInv, Reading
<1> QED  BY <1>2, <1>3

LEMMA QuietSuffices ==
    ASSUME NEW c, call' = NoCall, Quiet(c)'
    PROVE  ConnInv(c)'
  BY DEF ConnInv, Busy, Reading

LEMMA UsesOwn ==
    ASSUME StreamInv, NEW c \in Conns, Uses(c), ~strayed'
    PROVE  ~strayed /\ Owns(c) /\ (~outOfStep[c] => ConnInv(c))
  BY DEF Uses, StreamInv

LEMMA EmptiedIsQuiet ==
    ASSUME TypeInv', NEW c \in Conns, Owns(c)', Len(Pending(c)') = 0
    PROVE  Quiet(c)'
<1>1. (Owns(c) /\ TypeInv /\ Len(Pending(c)) = 0 => rbuf[c] = <<>> /\ wire[socket[c]] = <<>>)'
  BY OwnPending, PTL
<1> QED  BY <1>1 DEF Quiet

-----------------------------------------------------------------------------
(* The steps of a call                                                     *)
LEMMA InCall ==
    ASSUME TypeInv, NEW c, c = call.c, call # NoCall
    PROVE  c \in Conns /\ Busy(c) /\ call \in CallsMade
  BY DEF TypeInv, CallsMade, Busy

LEMMA WholeIsPart ==
    ASSUME NEW r \in Seq(Items)
    PROVE  IsPartOf(r, r) /\ IsPartOf(<<>>, r)
<1>1. Len(r) \in Nat /\ r = SubSeq(r, 1, Len(r))
  BY LenProperties, SubSeqProperties
<1>2. SubSeq(r, 1, 0) = <<>>
  <2>1. SubSeq(r, 1, 0) \in Seq(Items) /\ Len(SubSeq(r, 1, 0)) = 0
    BY SubSeqProperties
  <2> QED  BY <2>1, EmptySeq
<1>3. Len(r) \in 0 .. Len(r) /\ 0 \in 0 .. Len(r)
  BY <1>1
<1>4. \E k \in 0 .. Len(r) : r = SubSeq(r, 1, k)
  BY <1>1, <1>3, Zenon
<1>5. \E k \in 0 .. Len(r) : <<>> = SubSeq(r, 1, k)
  BY <1>2, <1>3, Zenon
<1> QED  BY <1>4, <1>5 DEF IsPartOf

LEMMA PartIs ==
    ASSUME NEW r \in Seq(Items), NEW s, IsPartOf(s, r)
    PROVE  /\ s \in Seq(Items) /\ Len(s) <= Len(r) /\ Len(s) \in Nat
           /\ \A i \in 1 .. Len(s) : s[i] = r[i]
<1>1. PICK k \in 0 .. Len(r) : s = SubSeq(r, 1, k)
  BY DEF IsPartOf
<1>2. \A i \in 1 .. k : r[i] \in Items
  BY ElementOfSeq, LenProperties
<1>3. Len(r) \in Nat
  BY LenProperties
<1>4. s \in Seq(Items) /\ Len(s) = k /\ \A i \in 1 .. k : s[i] = r[i]
  BY <1>1, <1>2, <1>3, SubSeqProperties
<1> QED  BY <1>3, <1>4

LEMMA PartOfPart ==
    ASSUME NEW r \in Seq(Items), NEW s, IsPartOf(s, r), NEW k \in 0 .. Len(s)
    PROVE  IsPartOf(SubSeq(s, 1, k), r)
<1>1. PICK j \in 0 .. Len(r) : s = SubSeq(r, 1, j)
  BY DEF IsPartOf
<1>2. \A i \in 1 .. j : r[i] \in Items
  BY ElementOfSeq, LenProperties
<1>3. Len(r) \in Nat
  BY LenProperties
<1>4. s \in Seq(Items) /\ Len(s) = j /\ \A i \in 1 .. j : s[i] = r[i]
  BY <1>1, <1>2, <1>3, SubSeqProperties
<1>5. /\ SubSeq(s, 1, k) \in Seq(Items) /\ Len(SubSeq(s, 1, k)) = k
      /\ \A i \in 1 .. k : SubSeq(s, 1, k)[i] = s[i]
  <2>1. \A i \in 1 .. k : s[i] \in Items
    BY <1>3, <1>4, ElementOfSeq
  <2> QED  BY <1>3, <1>4, <2>1, SubSeqProperties
<1>6. /\ SubSeq(r, 1, k) \in Seq(Items) /\ Len(SubSeq(r, 1, k)) = k
      /\ \A i \in 1 .. k : SubSeq(r, 1, k)[i] = r[i]
  <2>1. \A i \in 1 .. k : r[i] \in Items
    BY <1>2, <1>3, <1>4
  <2> QED  BY <1>3, <1>4, <2>1, SubSeqProperties
<1>7. SubSeq(s, 1, k) = SubSeq(r, 1, k)
  BY <1>3, <1>4, <1>5, <1>6, SeqEqual
<1>8. k \in 0 .. Len(r)
  BY <1>3, <1>4
<1> QED  BY <1>7, <1>8 DEF IsPartOf

LEMMA SendStream ==
    ASSUME TypeInv, TypeInv', StreamInv, SendOk \/ SendIntoTheVoid \/ SendFails
    PROVE  StreamInv'
<1>1. PICK c : c = call.c
  OBVIOUS
<1>2. call # NoCall /\ call.step = "send"
  BY DEF SendOk, SendIntoTheVoid, SendFails, At
<1>3. c \in Conns /\ Busy(c) /\ call \in CallsMade
  BY <1>1, <1>2, InCall
<1>4. Uses(c) /\ UNCHANGED <<socket, rbuf, outOfStep>>
  BY <1>1 DEF SendOk, SendIntoTheVoid, SendFails, cnx
<1>5. ~strayed' => ~strayed /\ Owns(c) /\ (~outOfStep[c] => Quiet(c))
  <2>1. ~Reading(c)
    BY <1>2 DEF Reading
  <2> QED  BY <1>3, <1>4, <2>1, UsesOwn DEF ConnInv
<1>6. call' = NoCall \/ (call' # NoCall /\ call'.c = c /\ call'.op = call.op /\ call'.step = "header")
  <2>1. call' = [call EXCEPT !.step = "header"] => call'.c = c /\ call'.op = call.op /\ call'.step = "header"
    BY <1>1, <1>3 DEF CallsMade
  <2>2. call' = NoCall \/ call' = [call EXCEPT !.step = "header"]
    BY DEF SendOk, SendIntoTheVoid, SendFails, Returns
  <2> QED  BY <2>1, <2>2
<1>7. call' # NoCall => Responses(call'.op) = Responses(call.op)
  BY <1>6
<1>8. ~strayed' => /\ \A b \in Conns \ {c} : Kept(b) /\ outOfStep'[b] = outOfStep[b]
                   /\ ~outOfStep'[c] => ConnInv(c)'
  <2> SUFFICES ASSUME ~strayed'
               PROVE  /\ \A b \in Conns \ {c} : Kept(b)
                      /\ ~outOfStep'[c] => ConnInv(c)'
    BY <1>4
  <2>1. socket[c] \in Descriptors /\ wire \in [Descriptors -> Seq(Items)]
    BY <1>3, <1>5, OwnsIs DEF TypeInv
  <2>2. CASE SendOk
    <3>1. PICK r \in Responses(call.op) : wire' = [wire EXCEPT ![socket[c]] = wire[socket[c]] \o r]
      BY <1>1, <2>2 DEF SendOk
    <3>2. UNCHANGED owner
      BY <2>2 DEF SendOk
    <3>3. call' # NoCall
      BY <1>2, <1>3, <2>2 DEF SendOk, NoCall, CallsMade
    <3>4. ASSUME NEW b \in Conns \ {c}
          PROVE  Kept(b)
      <4>1. ASSUME Owns(b)'
            PROVE  Owns(b) /\ wire'[socket'[b]] = wire[socket[b]]
        <5>1. Owns(b)
          BY <1>4, <3>2, <4>1, OwnerStays
        <5>2. socket[b] \in Descriptors /\ socket[b] # socket[c]
          BY <1>3, <1>5, <5>1, OwnsIs, OwnedApart DEF Owns
        <5> QED  BY <1>4, <2>1, <3>1, <5>1, <5>2
      <4> QED  BY <1>4, <4>1 DEF Kept
    <3>5. ASSUME ~outOfStep'[c]
          PROVE  Answering(c)'
      <4>1. Quiet(c)
        BY <1>4, <1>5, <3>5
      <4>2. rbuf'[c] = <<>> /\ wire[socket[c]] = <<>>
        BY <1>4, <1>5, <4>1 DEF Quiet
      <4>3. r \in Seq(Items)
        BY ResponseShape
      <4>4. wire'[socket'[c]] = r
        BY <1>4, <2>1, <3>1, <4>2, <4>3, ConcatEmptySeq
      <4>5. IsPartOf(wire'[socket'[c]], r)
        BY <4>3, <4>4, WholeIsPart
      <4> QED  BY <1>7, <3>3, <4>2, <4>5 DEF Answering, IsPartOf
    <3> QED  BY <1>6, <3>4, <3>5, <3>3 DEF ConnInv, Busy, Reading
  <2>3. CASE SendIntoTheVoid
    <3>1. UNCHANGED <<owner, wire>>
      BY <2>3 DEF SendIntoTheVoid, net
    <3>2. \A b \in Conns : Kept(b)
      BY <1>4, <3>1, OwnerStays DEF Kept
    <3>3. call' # NoCall
      BY <1>2, <1>3, <2>3 DEF SendIntoTheVoid, NoCall, CallsMade
    <3>4. ASSUME ~outOfStep'[c]
          PROVE  Answering(c)'
      <4>1. rbuf'[c] = <<>> /\ wire'[socket'[c]] = <<>>
        BY <1>4, <1>5, <3>1, <3>4 DEF Quiet
      <4>2. PICK r : r \in Responses(call.op)
        BY DEF Responses, Refusals
      <4>3. IsPartOf(wire'[socket'[c]], r)
        BY <4>1, <4>2, ResponseShape, WholeIsPart
      <4> QED  BY <1>7, <3>3, <4>1, <4>2, <4>3 DEF Answering, IsPartOf
    <3> QED  BY <1>6, <3>2, <3>4, <3>3 DEF ConnInv, Busy, Reading
  <2>4. CASE SendFails
    <3>1. CloseDescriptor(socket[c])
      BY <1>1, <2>4 DEF SendFails
    <3>2. ~Owns(c)' /\ \A b \in Conns \ {c} : Kept(b)
      BY <1>3, <1>4, <1>5, <3>1, ClosesElsewhere
    <3>3. ASSUME ~outOfStep'[c]
          PROVE  Quiet(c)' /\ Answering(c)'
      BY <1>4, <1>5, <3>2, <3>3 DEF Quiet, Answering
    <3> QED  BY <1>6, <3>2, <3>3 DEF ConnInv, Busy, Reading
  <2> QED  BY <2>2, <2>3, <2>4
<1> QED  BY <1>3, <1>5, <1>6, <1>8, CallSteps

-----------------------------------------------------------------------------
(* The steps between two calls                                             *)
LEMMA IdleQuiet ==
    ASSUME StreamInv, Idle
    PROVE  ~strayed /\ call = NoCall /\ \A c \in Conns : ~outOfStep[c] => Quiet(c)
  BY DEF StreamInv, ConnInv, Reading, Busy, Idle

LEMMA BeginStream ==
    ASSUME TypeInv, StreamInv, NEW c \in Conns, NEW op, NEW st, Begin(c, op, st)
    PROVE  StreamInv'
<1>1. Idle /\ call'.step = "send" /\ UNCHANGED <<socket, owner, outOfStep, strayed>>
  BY DEF Begin, Calls, history
<1>2. /\ \A b \in Conns : rbuf'[b] = Aged(rbuf[b])
      /\ \A d \in Descriptors : wire'[d] = Aged(wire[d])
  BY DEF Begin
<1>3. ASSUME NEW b \in Conns, ~outOfStep'[b]
      PROVE  Quiet(b)'
  <2>1. Quiet(b)
    BY <1>1, <1>3, IdleQuiet
  <2>2. Owns(b)' => Owns(b) /\ socket[b] \in Descriptors
    BY <1>1, OwnerStays, OwnsIs
  <2> QED  BY <1>1, <1>2, <2>1, <2>2, NoneOfNone DEF Quiet
<1> QED  BY <1>1, <1>3 DEF StreamInv, ConnInv, Reading

LEMMA ConnectStream ==
    ASSUME TypeInv, FreeInv, StreamInv, NEW c \in Conns, Connect(c)
    PROVE  StreamInv'
<1>1. /\ Idle /\ call'.step = "send" /\ UNCHANGED strayed /\ Free # {}
      /\ rbuf' = [rbuf EXCEPT ![c] = <<>>] /\ socket' = [socket EXCEPT ![c] = Lowest]
      /\ outOfStep' = [outOfStep EXCEPT ![c] = FALSE]
  BY DEF Connect, Calls, EmptyBuffer
<1>2. \A d \in Descriptors :
         /\ wire'[d] = IF owner[d] = c THEN <<>> ELSE wire[d]
         /\ owner'[d] = IF owner[d] = c THEN "orphan" ELSE IF d = Lowest THEN c ELSE owner[d]
  BY Zenon DEF Connect
<1>3. Lowest \in Descriptors /\ wire[Lowest] = <<>> /\ owner[Lowest] = "free"
  BY <1>1, LowestIsFree DEF Free, FreeInv
<1>4. ASSUME NEW b \in Conns, ~outOfStep'[b]
      PROVE  Quiet(b)'
  <2>1. CASE b = c
    <3>1. rbuf'[b] = <<>> /\ socket'[b] = Lowest
      BY <1>1, <2>1 DEF TypeInv, TypeOK
    <3>2. wire'[Lowest] = <<>>
      BY <1>2, <1>3
    <3> QED  BY <3>1, <3>2 DEF Quiet
  <2>2. CASE b # c
    <3>1. Quiet(b) /\ rbuf'[b] = rbuf[b] /\ socket'[b] = socket[b]
      BY <1>1, <1>4, <2>2, IdleQuiet DEF TypeInv, TypeOK
    <3>2. ASSUME Owns(b)'
          PROVE  Owns(b) /\ wire'[socket[b]] = wire[socket[b]]
      <4>1. socket[b] \in Descriptors /\ owner'[socket[b]] = b
        BY <3>1, <3>2, OwnersAreNamed DEF Owns, OwnerOf
      <4> QED  BY <1>2, <2>2, <4>1, OwnersAreNamed DEF Owns, OwnerOf
    <3> QED  BY <3>1, <3>2 DEF Quiet
  <2> QED  BY <2>1, <2>2
<1> QED  BY <1>1, <1>4 DEF StreamInv, ConnInv, Reading

LEMMA TellStream ==
    ASSUME TypeInv, StreamInv, NEW c \in Conns, AlreadyConnected(c) \/ ConnectFails(c) \/ RefuseQuery(c)
    PROVE  StreamInv'
<1>1. Idle /\ call' = NoCall /\ UNCHANGED <<rbuf, wire, owner, outOfStep, strayed>>
  <2>1. \A op, code : Tells(c, op, code) => UNCHANGED call
    BY DEF Tells
  <2>2. Idle /\ UNCHANGED <<rbuf, net, history>> /\ \E op, code : Tells(c, op, code)
    BY DEF AlreadyConnected, ConnectFails, RefuseQuery
  <2> QED  BY <2>1, <2>2 DEF Idle, net, history
<1>2. socket' = socket \/ socket' = [socket EXCEPT ![c] = INVALID_SOCKET]
  BY DEF AlreadyConnected, ConnectFails, RefuseQuery
<1>3. OwnerOf(INVALID_SOCKET)' = "free"
  <2>1. INVALID_SOCKET \notin Descriptors
    BY CommandsAssumption DEF INVALID_SOCKET
  <2> QED  BY <2>1 DEF OwnerOf
<1>4. ASSUME NEW b \in Conns, ~outOfStep'[b]
      PROVE  Quiet(b)'
  <2>1. Quiet(b)
    BY <1>1, <1>4, IdleQuiet
  <2>2. CASE socket'[b] = socket[b]
    BY <1>1, <2>1, <2>2 DEF Quiet, Owns, OwnerOf
  <2>3. CASE socket'[b] = INVALID_SOCKET
    <3>1. ~Owns(b)'
      BY <1>3, <2>3, OwnersAreNamed DEF Owns, OwnerOf
    <3> QED  BY <1>1, <2>1, <3>1 DEF Quiet
  <2> QED  BY <1>2, <2>2, <2>3 DEF TypeInv, TypeOK
<1> QED  BY <1>1, <1>4 DEF StreamInv, ConnInv, Reading, Busy, Idle

(* What the network and the process do besides leaves a call where it is.  *)
LEMMA WorldStream ==
    ASSUME TypeInv, TypeInv', StreamInv,
           UNCHANGED <<socket, rbuf, call, outOfStep, strayed>>,
           \A b \in Conns : Owns(b)' <=> Owns(b),
           \A b \in Conns : Owns(b) =>
              \E k \in 0 .. Len(wire[socket[b]]) : wire'[socket[b]] = SubSeq(wire[socket[b]], 1, k)
    PROVE  StreamInv'
<1>1. SUFFICES ASSUME NEW c \in Conns, ConnInv(c)
               PROVE  ConnInv(c)'
  BY DEF StreamInv
<1>2. ASSUME Owns(c)
      PROVE  /\ wire[socket[c]] = <<>> => wire'[socket[c]] = <<>>
             /\ \A r \in Seq(Items) : IsPartOf(wire[socket[c]], r) => IsPartOf(wire'[socket[c]], r)
             /\ \A n \in Int : Len(Pending(c)) <= n => Len(Pending(c)') <= n
  <2>1. PICK k \in 0 .. Len(wire[socket[c]]) : wire'[socket[c]] = SubSeq(wire[socket[c]], 1, k)
    BY <1>2
  <2>2. wire[socket[c]] \in Seq(Items) /\ rbuf[c] \in Seq(Items)
    BY <1>2, OwnPending
  <2>3. wire[socket[c]] = <<>> => wire'[socket[c]] = <<>>
    BY <2>1, NoneOfNone, EmptySeq
  <2>4. \A r \in Seq(Items) : IsPartOf(wire[socket[c]], r) => IsPartOf(wire'[socket[c]], r)
    BY <2>1, PartOfPart
  <2>5. IsPartOf(wire'[socket[c]], wire[socket[c]])
    BY <2>1 DEF IsPartOf
  <2>6. Len(wire'[socket[c]]) <= Len(wire[socket[c]]) /\ Len(wire'[socket[c]]) \in Nat
    BY <2>2, <2>5, PartIs
  <2>7. (Owns(c) /\ TypeInv => Len(Pending(c)) = Len(rbuf[c]) + Len(wire[socket[c]]))'
    BY OwnPending, PTL
  <2>8. Len(Pending(c)') = Len(rbuf[c]) + Len(wire'[socket[c]])
    BY <1>2, <2>7
  <2>9. Len(Pending(c)) = Len(rbuf[c]) + Len(wire[socket[c]])
    BY <1>2, OwnPending
  <2>10. Len(rbuf[c]) \in Nat /\ Len(wire[socket[c]]) \in Nat
    BY <2>2, LenProperties
  <2>11. \A n \in Int : Len(Pending(c)) <= n => Len(Pending(c)') <= n
    <3> DEFINE x == Len(rbuf[c])
               y == Len(wire[socket[c]])
               z == Len(wire'[socket[c]])
               p == Len(Pending(c))
               q == Len(Pending(c)')
    <3> SUFFICES \A n \in Int : p <= n => q <= n
      OBVIOUS
    <3>1. x \in Nat /\ y \in Nat /\ z \in Nat /\ z <= y /\ p = x + y /\ q = x + z
      BY <2>6, <2>8, <2>9, <2>10
    <3> HIDE DEF x, y, z, p, q
    <3> QED  BY <3>1
  <2> QED  BY <2>3, <2>4, <2>11
<1>3. Quiet(c) => Quiet(c)'
  BY <1>2 DEF Quiet
<1>4. Answering(c) => Answering(c)'
  <2>1. \A r \in Responses(call.op) : r \in Seq(Items)
    BY ResponseShape
  <2>2. Responses(call.op)' = Responses(call.op)
    OBVIOUS
  <2>3. ASSUME NEW r \in Responses(call.op), Owns(c), IsPartOf(wire[socket[c]], r)
        PROVE  IsPartOf(wire'[socket[c]], r)
    BY <1>2, <2>1, <2>3
  <2> QED  BY <2>2, <2>3 DEF Answering, IsPartOf
<1>5. Busy(c) => call.left \in Int
  BY DEF Busy, TypeInv, CallsMade
<1>6. Busy(c) /\ call.step = "count" => (Owns(c) /\ Len(Pending(c)) <= 1)'
  BY <1>1, <1>2 DEF ConnInv
<1>7. Busy(c) /\ call.step = "rows" => (Owns(c) /\ Len(Pending(c)) <= call.left)'
  BY <1>1, <1>2, <1>5 DEF ConnInv
<1>8. /\ Busy(c)' <=> Busy(c)
      /\ Reading(c)' <=> Reading(c)
      /\ Right(call) => Right(call)'
  BY DEF Busy, Reading, Right
<1> QED  BY <1>1, <1>3, <1>4, <1>6, <1>7, <1>8 DEF ConnInv

LEMMA OthersStream ==
    ASSUME TypeInv, TypeInv', FreeInv, StreamInv,
           OtherOpens \/ \E d \in Descriptors : LinkDrops(d) \/ OtherCloses(d)
    PROVE  StreamInv'
<1>1. UNCHANGED <<socket, rbuf, call, outOfStep, strayed>>
  BY DEF OtherOpens, LinkDrops, OtherCloses, cnx, history
<1>2. \A b \in Conns : Owns(b) => wire[socket[b]] \in Seq(Items) /\ socket[b] \in Descriptors
  BY OwnPending, OwnsIs
<1>3. CASE OtherOpens \/ \E d \in Descriptors : OtherCloses(d)
  <2>1. UNCHANGED wire
    BY <1>3 DEF OtherOpens, OtherCloses
  <2>2. \A b \in Conns : Owns(b) =>
           \E k \in 0 .. Len(wire[socket[b]]) : wire'[socket[b]] = SubSeq(wire[socket[b]], 1, k)
    BY <1>2, <2>1, WholeIsPart DEF IsPartOf
  <2>3. \A b \in Conns : Owns(b)' <=> Owns(b)
    <3>1. \E d \in Descriptors : \E v :
            /\ owner' = [owner EXCEPT ![d] = v]
            /\ owner[d] \in {"free", "other"} /\ v \in {"free", "other"}
      <4>1. CASE OtherOpens
        <5>1. Lowest \in Descriptors /\ owner[Lowest] = "free"
          BY <4>1, LowestIsFree DEF OtherOpens, Free
        <5> QED  BY <4>1, <5>1 DEF OtherOpens
      <4>2. CASE \E d \in Descriptors : OtherCloses(d)
        BY <4>2 DEF OtherCloses
      <4> QED  BY <1>3, <4>1, <4>2
    <3> QED  BY <1>1, <3>1, OwnersAreNamed DEF Owns, OwnerOf, TypeInv, TypeOK
  <2> QED  BY <1>1, <2>2, <2>3, WorldStream
<1>4. ASSUME NEW d \in Descriptors, LinkDrops(d)
      PROVE  StreamInv'
  <2>1. UNCHANGED owner
    BY <1>4 DEF LinkDrops
  <2>2. PICK k \in 0 .. Len(wire[d]) : wire' = [wire EXCEPT ![d] = SubSeq(wire[d], 1, k)]
    BY <1>4 DEF LinkDrops
  <2>3. \A b \in Conns : Owns(b)' <=> Owns(b)
    BY <1>1, <2>1, OwnerStays
  <2>4. ASSUME NEW b \in Conns, Owns(b)
        PROVE  \E j \in 0 .. Len(wire[socket[b]]) : wire'[socket[b]] = SubSeq(wire[socket[b]], 1, j)
    <3>1. CASE socket[b] = d
      BY <2>2, <3>1 DEF TypeInv
    <3>2. CASE socket[b] # d
      <4>1. wire'[socket[b]] = wire[socket[b]]
        BY <1>2, <2>2, <2>4, <3>2 DEF TypeInv
      <4> QED  BY <1>2, <2>4, <4>1, WholeIsPart DEF IsPartOf
    <3> QED  BY <3>1, <3>2
  <2> QED  BY <1>1, <2>3, <2>4, WorldStream
<1> QED  BY <1>3, <1>4

-----------------------------------------------------------------------------
(* The steps that read                                                     *)
LEMMA HeaderIsOwn ==
    ASSUME TypeInv, NEW c, c = call.c, call # NoCall, call.step = "header", Owns(c), ConnInv(c),
           NEW n \in DOMAIN Pending(c), NEW h, HeaderRead(n, h), Owned(n)
    PROVE  n = 1 /\ \E r \in Responses(call.op) : h = r[1].header /\ Len(Pending(c)) <= Len(r)
<1> DEFINE p == Pending(c)
<1>1. c \in Conns /\ Busy(c)
  BY InCall
<1>2. Answering(c)
  BY <1>1 DEF ConnInv
<1>3. PICK r \in Responses(call.op) : IsPartOf(p, r)
  BY <1>1, <1>2, OwnPending DEF Answering
<1>4. /\ r \in Seq(Items) /\ Len(r) >= 1 /\ r[1].kind = "header"
  BY ResponseShape
<1>5. n = 1 /\ DOMAIN p = 1 .. Len(p) /\ Len(p) \in Nat
  BY <1>1, PendingType DEF Owned
<1>6. p[1] = r[1] /\ Len(p) <= Len(r)
  <2> HIDE DEF p
  <2>1. Len(p) <= Len(r) /\ \A i \in 1 .. Len(p) : p[i] = r[i]
    BY <1>3, <1>4, PartIs
  <2>2. 1 \in 1 .. Len(p)
    BY <1>5 DEF p
  <2> QED  BY <2>1, <2>2
<1>7. h = p[1].header
  <2>1. \A i \in 1 .. 1 : i = 1
    OBVIOUS
  <2>2. p[1].kind = "header"
    BY <1>4, <1>6
  <2>3. 1 \in 1 .. 1
    OBVIOUS
  <2> QED  BY <1>5, <2>2, <2>3 DEF HeaderRead
<1> HIDE DEF p
<1> QED  BY <1>5, <1>6, <1>7 DEF p

(* Where an accepted header leads the call.                                *)
LEMMA AcceptLeads ==
    ASSUME TypeInv, NEW done \in CallsMade, NEW s \in States, done.state = s, NEW op, op = call.op,
           done.op = op, Accepted(done)
    PROVE  \/ RowsAfter(op, s) /\ Goes(done, "rows")
           \/ ~RowsAfter(op, s) /\ CountAfter(op, s) /\ Goes(done, "count")
           \/ /\ ~RowsAfter(op, s) /\ ~CountAfter(op, s)
              /\ \/ Calls(done.c, "quit", NewResult) /\ UNCHANGED <<socket, told>>
                 \/ Goes(done, "close")
                 \/ \E code : Ends(done, 0, code)
<1>1. /\ RowsFollow(s) <=> RowsAfter(op, s)
      /\ CountFollows(s) <=> CountAfter(op, s)
  BY DEF RowsFollow, RowsAfter, CountFollows, CountAfter
<1>2. /\ RowsFollow(s) => ~CountFollows(s) /\ done.op # "logout" /\ done.op # "quit"
      /\ CountFollows(s) => ~RowsFollow(s) /\ done.op # "logout" /\ done.op # "quit"
  BY DEF RowsFollow, CountFollows
<1>3. CASE RowsFollow(s)
  <2>1. Goes(done, "rows")
    BY <1>3, <1>2 DEF Accepted
  <2> QED  BY <1>1, <1>3, <2>1
<1>4. CASE ~RowsFollow(s) /\ CountFollows(s)
  <2>1. Goes(done, "count")
    BY <1>4, <1>2 DEF Accepted
  <2> QED  BY <1>1, <1>4, <2>1
<1>5. CASE ~RowsFollow(s) /\ ~CountFollows(s)
  <2>1. \/ Calls(done.c, "quit", NewResult) /\ UNCHANGED <<socket, connected, open, told>>
        \/ Goes(done, "close")
        \/ Ends(done, 0, IF done.op = "login" THEN 0 ELSE done.state.error_code)
    BY <1>5 DEF Accepted
  <2>2. \/ Calls(done.c, "quit", NewResult) /\ UNCHANGED <<socket, told>>
        \/ Goes(done, "close")
        \/ \E code : Ends(done, 0, code)
    BY <2>1, Zenon
  <2> QED  BY <1>1, <1>5, <2>2
<1> QED  BY <1>3, <1>4, <1>5

LEMMA RightKept ==
    ASSUME NEW x, NEW y, Right(x), y.own = x.own, y.header = x.header, y.op = x.op, y.state = x.state
    PROVE  Right(y)
  BY DEF Right

LEMMA NoCallIs == NoCall \notin CallsMade
  BY DEF NoCall, CallsMade

LEMMA AcceptStream ==
    ASSUME TypeInv, TypeInv', NEW c \in Conns, c = call.c, NEW op, op = call.op,
           NEW done \in CallsMade, done.c = c, done.op = op,
           NEW s \in States, done.state = s, NEW r, NEW n \in Nat, n = Len(r), RightLength(op, r, s),
           Right(done), Accepted(done), Owns(c)',
           NEW l \in Nat, l = Len(Pending(c)'), l <= n - 1
    PROVE  ConnInv(c)'
<1>1. CASE RowsAfter(op, s) /\ Goes(done, "rows")
  <2>1. "rows" \in Steps
    BY DEF Steps
  <2>2. /\ Busy(c)' /\ call'.step = "rows" /\ call'.left = s.row_count_sent
        /\ call'.own = done.own /\ call'.header = done.header /\ call'.op = done.op
        /\ call'.state = done.state
    BY <1>1, <2>1, GoTypes, NoCallIs DEF Busy
  <2>3. Right(call')
    BY <2>2, RightKept
  <2>4. s.row_count_sent \in Nat
    BY DEF States
  <2>5. l <= call'.left
    BY <1>1, <2>2, <2>4 DEF RightLength
  <2> QED  BY <2>2, <2>3, <2>5 DEF ConnInv, Reading
<1>2. CASE ~RowsAfter(op, s) /\ CountAfter(op, s) /\ Goes(done, "count")
  <2>1. "count" \in Steps
    BY DEF Steps
  <2>2. /\ Busy(c)' /\ call'.step = "count" /\ call'.own = done.own /\ call'.header = done.header
        /\ call'.op = done.op /\ call'.state = done.state
    BY <1>2, <2>1, GoTypes, NoCallIs DEF Busy
  <2>3. Right(call')
    BY <2>2, RightKept
  <2>4. l <= 1
    BY <1>2 DEF RightLength
  <2> QED  BY <2>2, <2>3, <2>4 DEF ConnInv, Reading
<1>3. CASE ~RowsAfter(op, s) /\ ~CountAfter(op, s)
  <2>1. l = 0
    <3>1. n = 1
      BY <1>3 DEF RightLength
    <3> QED  BY <3>1
  <2>2. Quiet(c)'
    BY <2>1, EmptiedIsQuiet
  <2>3. CASE Calls(done.c, "quit", NewResult)
    <3>1. call'.step = "send"
      BY <2>3 DEF Calls
    <3> QED  BY <2>2, <3>1 DEF ConnInv, Reading
  <2>4. CASE Goes(done, "close")
    <3>1. "close" \in Steps
      BY DEF Steps
    <3>2. /\ call'.step = "close" /\ call'.own = done.own /\ call'.header = done.header
          /\ call'.op = done.op /\ call'.state = done.state
      BY <2>4, <3>1, GoTypes
    <3>3. Right(call')
      BY <3>2, RightKept
    <3> QED  BY <2>2, <3>2, <3>3 DEF ConnInv, Reading
  <2>5. CASE \E code : Ends(done, 0, code)
    <3>1. call' = NoCall
      BY <2>5 DEF Ends, Returns
    <3> QED  BY <2>2, <3>1, QuietSuffices
  <2> QED  BY <1>3, <2>3, <2>4, <2>5, AcceptLeads
<1> QED  BY <1>1, <1>2, <1>3, AcceptLeads

LEMMA OutOfStepIs ==
    ASSUME TypeInv, NEW c \in Conns, NEW b, FallsOutOfStep(c, b)
    PROVE  /\ ~outOfStep'[c] => ~outOfStep[c] /\ ~b
           /\ \A x \in Conns \ {c} : outOfStep'[x] = outOfStep[x]
  BY DEF FallsOutOfStep, TypeInv, TypeOK

(* An answer that keeps its connection in step is the one to the request,  *)
(* and what it leaves to be read is what the call goes on to read.         *)
LEMMA AnswerIsOwn ==
    ASSUME TypeInv, StreamInv, NEW c \in Conns, c = call.c, call # NoCall, call.step = "header",
           Uses(c), ~strayed', ~outOfStep'[c], NEW n \in DOMAIN Pending(c), NEW h \in Headers,
           NEW junk \in Int, NEW s \in States, NEW done \in CallsMade, Reads(n, h, junk, s, done),
           done.own = Owned(n), done.header = h, done.state = s, done.op = call.op
    PROVE  /\ n = 1 /\ Owns(c)
           /\ \E r \in Responses(call.op) :
                 /\ Len(r) \in Nat /\ Len(Pending(c)) <= Len(r)
                 /\ s.ret # 0 => Len(r) = 1
                 /\ s.ret = 0 => RightLength(call.op, r, s)
           /\ s.ret = 0 => Right(done)
<1>1. Owns(c) /\ (~outOfStep[c] => ConnInv(c))
  BY UsesOwn
<1>2. /\ HeaderRead(n, h) /\ s = Treated(h, call.state, junk)
      /\ FallsOutOfStep(c, ~done.own \/ (s.ret = 0) # (h.status = "OK"))
  BY DEF Reads
<1>3. ~outOfStep[c] /\ done.own /\ (s.ret = 0 <=> h.status = "OK")
  <2> DEFINE b == ~done.own \/ (s.ret = 0) # (h.status = "OK")
  <2>1. ~outOfStep[c] /\ ~b
    <3> HIDE DEF b
    <3>1. FallsOutOfStep(c, b)
      BY <1>2 DEF b
    <3> QED  BY <3>1, OutOfStepIs
  <2>2. done.own \in BOOLEAN
    BY DEF CallsMade
  <2> QED  BY <2>1, <2>2
<1>4. n = 1 /\ \E r \in Responses(call.op) : h = r[1].header /\ Len(Pending(c)) <= Len(r)
  <2>1. Owned(n) /\ ConnInv(c) /\ Owns(c) /\ HeaderRead(n, h)
    BY <1>1, <1>2, <1>3
  <2> QED  BY <2>1, HeaderIsOwn
<1>5. PICK r \in Responses(call.op) : h = r[1].header /\ Len(Pending(c)) <= Len(r)
  BY <1>4
<1>6. call.state = Fresh(call.op) /\ call.op \in Ops
  BY DEF TypeInv, CallsMade
<1>7. /\ s.ret # 0 => Len(r) = 1
      /\ s.ret = 0 => Suits(call.op, r, s)
  BY <1>2, <1>3, <1>5, <1>6, ResponseSuits
<1>8. Len(r) \in Nat
  BY ResponseShape, LenProperties
<1>9. s.ret = 0 => RightLength(call.op, r, s) /\ Right(done)
  BY <1>3, <1>5, <1>7 DEF Suits, Right
<1> QED  BY <1>1, <1>4, <1>5, <1>7, <1>8, <1>9

LEMMA HeaderStream ==
    ASSUME TypeInv, TypeInv', StreamInv, ReadHeader
    PROVE  StreamInv'
<1>1. PICK c : c = call.c
  OBVIOUS
<1>2. PICK op : op = call.op
  OBVIOUS
<1>3. call # NoCall /\ call.step = "header" /\ Uses(c) /\ UNCHANGED owner
  BY <1>1 DEF ReadHeader, At
<1>4. c \in Conns /\ Busy(c) /\ call \in CallsMade
  BY <1>1, <1>3, InCall
<1>5. PICK n \in DOMAIN Pending(c), h \in Headers, junk \in Int, s \in States, done \in CallsMade :
         /\ Reads(n, h, junk, s, done) /\ Fits(s)
         /\ done.own = Owned(n) /\ done.header = h /\ done.state = s /\ done.op = call.op
         /\ done.c = c
  BY <1>1, HeaderIsRead
<1>6. Takes(c, n) /\ \E b : FallsOutOfStep(c, b)
  BY <1>1, <1>5 DEF Reads
<1>7. UNCHANGED socket /\ (call' = NoCall \/ call'.c = c)
  <2>1. CASE s.ret = 0
    <3>1. Accepted(done)
      BY <1>5, <2>1 DEF Reads
    <3>2. \/ \E step \in Steps : Goes(done, step)
          \/ Calls(c, "quit", NewResult) /\ UNCHANGED socket
          \/ \E code : Ends(done, 0, code)
      <4>1. "rows" \in Steps /\ "count" \in Steps /\ "close" \in Steps
        BY DEF Steps
      <4> QED  BY <1>2, <1>5, <3>1, <4>1, AcceptLeads
    <3>3. CASE \E step \in Steps : Goes(done, step)
      BY <1>5, <3>3, GoTypes
    <3>4. CASE Calls(c, "quit", NewResult) /\ UNCHANGED socket
      BY <3>4 DEF Calls
    <3>5. CASE \E code : Ends(done, 0, code)
      BY <3>5 DEF Ends, Returns
    <3> QED  BY <3>2, <3>3, <3>4, <3>5
  <2>2. CASE s.ret # 0
    BY <1>5, <2>2 DEF Reads, Ends, Returns
  <2> QED  BY <2>1, <2>2
<1>8. ~strayed' => ~strayed /\ Owns(c)
  BY <1>3, <1>4, UsesOwn
<1>9. ASSUME ~strayed'
      PROVE  /\ Owns(c)' /\ Len(Pending(c)') = Len(Pending(c)) - n
             /\ \A b \in Conns \ {c} : Kept(b) /\ outOfStep'[b] = outOfStep[b]
  <2>1. \A b \in Conns \ {c} : outOfStep'[b] = outOfStep[b]
    BY <1>4, <1>6, OutOfStepIs
  <2>2. /\ Owns(c)' /\ Len(Pending(c)') = Len(Pending(c)) - n
        /\ \A b \in Conns \ {c} : Kept(b)
    BY <1>3, <1>4, <1>5, <1>6, <1>7, <1>8, <1>9, TakesLeaves
  <2> QED  BY <2>1, <2>2
<1>10. ASSUME ~strayed', ~outOfStep'[c]
       PROVE  ConnInv(c)'
  <2>1. /\ n = 1
        /\ \E r \in Responses(call.op) :
              /\ Len(r) \in Nat /\ Len(Pending(c)) <= Len(r)
              /\ s.ret # 0 => Len(r) = 1
              /\ s.ret = 0 => RightLength(call.op, r, s)
        /\ s.ret = 0 => Right(done)
    BY <1>1, <1>3, <1>4, <1>5, <1>10, AnswerIsOwn
  <2>2. PICK r : /\ Len(r) \in Nat /\ Len(Pending(c)) <= Len(r)
                 /\ s.ret # 0 => Len(r) = 1
                 /\ s.ret = 0 => RightLength(op, r, s)
    BY <1>2, <2>1
  <2>3. PICK l : l = Len(Pending(c)')
    OBVIOUS
  <2>4. PICK k : k = Len(r)
    OBVIOUS
  <2>5. PICK m : m = Len(Pending(c))
    OBVIOUS
  <2>6. m \in Nat /\ k \in Nat /\ l = m - 1 /\ 1 \in 1 .. m /\ m <= k
    <3>1. m \in Nat /\ n \in 1 .. m
      BY <1>4, <1>5, <2>5, PendingType
    <3>2. k \in Nat /\ m <= k
      BY <2>2, <2>4, <2>5
    <3>3. l = m - n
      BY <1>9, <1>10, <2>3, <2>5
    <3> QED  BY <2>1, <3>1, <3>2, <3>3
  <2>7. l \in Nat /\ l <= k - 1
    BY <2>6
  <2>8. CASE s.ret = 0
    <3>1. Accepted(done) /\ RightLength(op, r, s) /\ Right(done)
      BY <1>5, <2>1, <2>2, <2>8 DEF Reads
    <3> QED  BY <1>1, <1>2, <1>4, <1>5, <1>9, <1>10, <2>3, <2>4, <2>6, <2>7, <3>1, AcceptStream
  <2>9. CASE s.ret # 0
    <3>1. call' = NoCall
      BY <1>5, <2>9 DEF Reads, Ends, Returns
    <3>2. l = 0
      <4>1. k = 1
        BY <2>2, <2>4, <2>9
      <4> QED  BY <2>7, <4>1
    <3>3. Quiet(c)'
      BY <1>4, <1>9, <1>10, <2>3, <3>2, EmptiedIsQuiet
    <3> QED  BY <3>1, <3>3, QuietSuffices
  <2> QED  BY <2>8, <2>9
<1> QED  BY <1>4, <1>7, <1>8, <1>9, <1>10, CallSteps

LEMMA BodyStream ==
    ASSUME TypeInv, TypeInv', StreamInv, ReadCount \/ ReadRow
    PROVE  StreamInv'
<1>1. PICK c : c = call.c
  OBVIOUS
<1>2. /\ call # NoCall /\ call.step \in {"count", "rows"} /\ Uses(c) /\ UNCHANGED <<owner, outOfStep>>
      /\ Takes(c, 1) /\ Pending(c) # <<>>
  BY <1>1 DEF ReadCount, ReadRow, At
<1>3. c \in Conns /\ Busy(c) /\ call \in CallsMade /\ call.left \in Int
  BY <1>1, <1>2, InCall DEF CallsMade
<1>4. 1 \in DOMAIN Pending(c) /\ Len(Pending(c)) \in Nat /\ DOMAIN Pending(c) = 1 .. Len(Pending(c))
  BY <1>2, <1>3, PendingType
<1>5. /\ UNCHANGED socket
      /\ \/ call' = NoCall /\ (call.step = "rows" => call.left = 1)
         \/ call' = [call EXCEPT !.left = call.left - 1] /\ call.step = "rows"
  <2>1. CASE ReadCount
    BY <2>1 DEF ReadCount, At, Ends, Returns
  <2>2. CASE ReadRow
    BY <2>2 DEF ReadRow, At, Ends, Returns
  <2> QED  BY <2>1, <2>2
<1>6. call' = [call EXCEPT !.left = call.left - 1] =>
         /\ Busy(c)' /\ call'.c = c /\ call'.step = call.step /\ call'.left = call.left - 1
         /\ Right(call) => Right(call')
  <2> SUFFICES ASSUME call' = [call EXCEPT !.left = call.left - 1]
               PROVE  /\ Busy(c)' /\ call'.c = c /\ call'.step = call.step
                      /\ call'.left = call.left - 1
                      /\ Right(call) => Right(call')
    OBVIOUS
  <2>1. call' \in CallsMade /\ call'.c = c /\ call'.step = call.step /\ call'.left = call.left - 1
    BY <1>1, <1>3 DEF CallsMade
  <2>2. call'.own = call.own /\ call'.header = call.header /\ call'.op = call.op
        /\ call'.state = call.state
    BY <1>3 DEF CallsMade
  <2>3. Right(call) => Right(call')
    BY <2>2, RightKept
  <2> QED  BY <2>1, <2>3, NoCallIs DEF Busy
<1>7. ~strayed' => ~strayed /\ Owns(c) /\ (~outOfStep[c] => ConnInv(c))
  BY <1>2, <1>3, UsesOwn
<1>8. ASSUME ~strayed'
      PROVE  /\ Owns(c)' /\ Len(Pending(c)') = Len(Pending(c)) - 1
             /\ \A b \in Conns \ {c} : Kept(b) /\ outOfStep'[b] = outOfStep[b]
  BY <1>2, <1>3, <1>4, <1>5, <1>7, <1>8, TakesLeaves
<1>9. ASSUME ~strayed', ~outOfStep'[c]
      PROVE  ConnInv(c)'
  <2>1. /\ call.step = "count" => Len(Pending(c)) <= 1
        /\ call.step = "rows" => Len(Pending(c)) <= call.left
        /\ Right(call)
    BY <1>2, <1>3, <1>7, <1>9 DEF ConnInv
  <2>2. PICK l : l = Len(Pending(c)')
    OBVIOUS
  <2>3. PICK m : m = Len(Pending(c))
    OBVIOUS
  <2>4. m \in Nat /\ 1 \in 1 .. m /\ l = m - 1
    BY <1>4, <1>8, <1>9, <2>2, <2>3
  <2>5. CASE call' = NoCall /\ (call.step = "rows" => call.left = 1)
    <3>1. m <= 1
      BY <1>2, <2>1, <2>3, <2>5
    <3>2. l = 0
      BY <2>4, <3>1
    <3>3. Quiet(c)'
      BY <1>3, <1>8, <1>9, <2>2, <3>2, EmptiedIsQuiet
    <3> QED  BY <2>5, <3>3, QuietSuffices
  <2>6. CASE call' = [call EXCEPT !.left = call.left - 1] /\ call.step = "rows"
    <3>1. l <= call.left - 1
      BY <1>3, <2>1, <2>3, <2>4, <2>6
    <3>2. Busy(c)' /\ call'.step = "rows" /\ l <= call'.left /\ Right(call')
      BY <1>6, <2>1, <2>6, <3>1
    <3> QED  BY <1>8, <1>9, <2>2, <3>2 DEF ConnInv, Reading
  <2> QED  BY <1>5, <2>5, <2>6
<1>10. call' = NoCall \/ call'.c = c
  BY <1>5, <1>6
<1>11. /\ ~strayed' => ~strayed
       /\ ~strayed' => \A b \in Conns \ {c} : Kept(b) /\ outOfStep'[b] = outOfStep[b]
       /\ ~strayed' /\ ~outOfStep'[c] => ConnInv(c)'
  BY <1>7, <1>8, <1>9
<1> QED  BY <1>3, <1>10, <1>11, CallSteps

LEMMA GiveUpStream ==
    ASSUME TypeInv, TypeInv', StreamInv, MalformedRow \/ ReadFails \/ NoMemory
    PROVE  StreamInv'
<1>1. PICK c : c = call.c
  OBVIOUS
<1>2. call # NoCall
  BY DEF MalformedRow, ReadFails, NoMemory, At
<1>3. c \in Conns /\ Busy(c) /\ call \in CallsMade
  BY <1>1, <1>2, InCall
<1>4. call' = NoCall /\ UNCHANGED <<socket, owner>>
  <2>1. \E ret, code : Ends(call, ret, code)
    BY DEF MalformedRow, ReadFails, NoMemory
  <2> QED  BY <2>1 DEF Ends, Returns, MalformedRow, ReadFails, NoMemory, net
<1>5. CASE MalformedRow
  <2>1. Takes(c, 1) /\ Uses(c) /\ FallsOutOfStep(c, TRUE) /\ Pending(c) # <<>>
    BY <1>1, <1>5 DEF MalformedRow
  <2>2. ~strayed' => ~strayed /\ Owns(c)
    BY <1>3, <2>1, UsesOwn
  <2>3. 1 \in DOMAIN Pending(c)
    BY <1>3, <2>1, PendingType
  <2>4. ~strayed' => \A b \in Conns \ {c} : Kept(b)
    BY <1>3, <1>4, <2>1, <2>2, <2>3, TakesLeaves
  <2>5. outOfStep'[c] /\ \A b \in Conns \ {c} : outOfStep'[b] = outOfStep[b]
    BY <1>3, <2>1, OutOfStepIs
  <2> QED  BY <1>3, <1>4, <2>2, <2>4, <2>5, CallSteps
<1>6. CASE NoMemory
  <2>1. FallsOutOfStep(c, TRUE) /\ UNCHANGED <<rbuf, wire, strayed>>
    BY <1>1, <1>6 DEF NoMemory, net
  <2>2. outOfStep'[c] /\ \A b \in Conns \ {c} : outOfStep'[b] = outOfStep[b]
    BY <1>3, <2>1, OutOfStepIs
  <2>3. \A b \in Conns : Kept(b)
    BY <1>4, <2>1, OwnerStays DEF Kept
  <2> QED  BY <1>3, <1>4, <2>1, <2>2, <2>3, CallSteps
<1>7. CASE ReadFails
  <2>1. /\ Uses(c) /\ UNCHANGED <<wire, outOfStep>> /\ rbuf' = [rbuf EXCEPT ![c] = <<>>]
        /\ call.step \in {"header", "count", "rows"}
        /\ \A i \in DOMAIN Pending(c) : call.step = "header" /\ Pending(c)[i].kind # "header"
    BY <1>1, <1>7 DEF ReadFails, net, At
  <2>2. ~strayed' => ~strayed /\ Owns(c) /\ (~outOfStep[c] => ConnInv(c))
    BY <1>3, <2>1, UsesOwn
  <2>3. \A b \in Conns \ {c} : Kept(b)
    BY <1>3, <1>4, <2>1, OwnerStays DEF Kept, TypeInv
  <2>4. ASSUME ~strayed', ~outOfStep'[c]
        PROVE  ConnInv(c)'
    <3>1. Owns(c) /\ ConnInv(c)
      BY <2>1, <2>2, <2>4
    <3>2. Pending(c) = <<>>
      <4>1. SUFFICES ASSUME Pending(c) # <<>>
                     PROVE  FALSE
        OBVIOUS
      <4>2. 1 \in DOMAIN Pending(c) /\ DOMAIN Pending(c) = 1 .. Len(Pending(c))
        BY <1>3, <4>1, PendingType
      <4>3. call.step = "header" /\ Pending(c)[1].kind # "header"
        BY <2>1, <4>2
      <4>4. Answering(c)
        BY <1>3, <3>1, <4>3 DEF ConnInv
      <4>5. PICK r \in Responses(call.op) : IsPartOf(Pending(c), r)
        BY <1>3, <3>1, <4>4, OwnPending DEF Answering
      <4>6. r \in Seq(Items) /\ r[1].kind = "header"
        BY ResponseShape
      <4>7. PICK p : p = Pending(c)
        OBVIOUS
      <4>8. p[1] = r[1]
        <5>1. \A i \in 1 .. Len(p) : p[i] = r[i]
          BY <4>5, <4>6, <4>7, PartIs
        <5> QED  BY <4>2, <4>7, <5>1
      <4> QED  BY <4>3, <4>6, <4>7, <4>8
    <3>3. wire[socket[c]] = <<>>
      BY <1>3, <3>1, <3>2, OwnPending
    <3>4. rbuf'[c] = <<>>
      BY <1>3, <2>1 DEF TypeInv
    <3>5. Quiet(c)'
      BY <1>4, <2>1, <3>3, <3>4 DEF Quiet
    <3> QED  BY <1>4, <3>5, QuietSuffices
  <2>5. \A b \in Conns \ {c} : Kept(b) /\ outOfStep'[b] = outOfStep[b]
    BY <2>1, <2>3
  <2> QED  BY <1>3, <1>4, <2>2, <2>4, <2>5, CallSteps
<1> QED  BY <1>5, <1>6, <1>7

LEMMA CloseStream ==
    ASSUME TypeInv, StreamInv, Disconnect
    PROVE  StreamInv'
<1>1. PICK c : c = call.c
  OBVIOUS
<1>2. /\ call # NoCall /\ call.step = "close" /\ call' = NoCall /\ Uses(c)
      /\ CloseDescriptor(socket[c]) /\ UNCHANGED <<socket, rbuf, outOfStep>>
  BY <1>1 DEF Disconnect, At, Returns
<1>3. c \in Conns /\ Busy(c) /\ call \in CallsMade
  BY <1>1, <1>2, InCall
<1>4. ASSUME ~strayed'
      PROVE  /\ ~strayed /\ ~Owns(c)' /\ (~outOfStep[c] => Quiet(c))
             /\ \A b \in Conns \ {c} : Kept(b)
  <2>1. ~strayed /\ Owns(c) /\ (~outOfStep[c] => ConnInv(c))
    BY <1>2, <1>3, <1>4, UsesOwn
  <2>2. ~Owns(c)' /\ \A b \in Conns \ {c} : Kept(b)
    BY <1>2, <1>3, <2>1, ClosesElsewhere
  <2> QED  BY <1>2, <2>1, <2>2 DEF ConnInv, Reading
<1>5. ASSUME ~strayed', ~outOfStep'[c]
      PROVE  ConnInv(c)'
  <2>1. Quiet(c)'
    BY <1>2, <1>4, <1>5 DEF Quiet
  <2> QED  BY <1>2, <2>1, QuietSuffices
<1>6. ~strayed' => \A b \in Conns \ {c} : Kept(b) /\ outOfStep'[b] = outOfStep[b]
  BY <1>2, <1>4
<1> QED  BY <1>2, <1>3, <1>4, <1>5, <1>6, CallSteps

LEMMA StreamNext ==
    ASSUME TypeInv, TypeInv', FreeInv, StreamInv, [Next]_vars
    PROVE  StreamInv'
<1>1. CASE SendOk \/ SendIntoTheVoid \/ SendFails
  BY <1>1, SendStream
<1>2. CASE ReadHeader
  BY <1>2, HeaderStream
<1>3. CASE ReadCount \/ ReadRow
  BY <1>3, BodyStream
<1>4. CASE MalformedRow \/ ReadFails \/ NoMemory
  BY <1>4, GiveUpStream
<1>5. CASE Disconnect
  BY <1>5, CloseStream
<1>6. CASE OtherOpens \/ \E d \in Descriptors : LinkDrops(d) \/ OtherCloses(d)
  BY <1>6, OthersStream
<1>7. ASSUME NEW c \in Conns, AlreadyConnected(c) \/ ConnectFails(c) \/ RefuseQuery(c)
      PROVE  StreamInv'
  BY <1>7, TellStream
<1>8. ASSUME NEW c \in Conns, Connect(c)
      PROVE  StreamInv'
  BY <1>8, ConnectStream
<1>9. ASSUME NEW c \in Conns, Query(c) \/ Prepare(c) \/ Fetch(c) \/ CloseStatement(c) \/ Logout(c)
      PROVE  StreamInv'
  <2>1. \E op, st : Begin(c, op, st)
    BY <1>9 DEF Query, Prepare, Fetch, CloseStatement, Logout
  <2> QED  BY <2>1, BeginStream
<1>10. CASE UNCHANGED vars
  <2>1. UNCHANGED <<socket, rbuf, owner, wire, call, outOfStep, strayed>>
    BY <1>10 DEF vars, cnx, net, history
  <2>2. /\ \A c \in Conns : Owns(c)' <=> Owns(c)
        /\ \A c \in Conns : Owns(c) =>
              \E k \in 0 .. Len(wire[socket[c]]) : wire'[socket[c]] = SubSeq(wire[socket[c]], 1, k)
    BY <2>1, OwnerStays, OwnPending, WholeIsPart DEF IsPartOf
  <2> QED  BY <2>1, <2>2, WorldStream
<1> QED  BY <1>1, <1>2, <1>3, <1>4, <1>5, <1>6, <1>7, <1>8, <1>9, <1>10 DEF Next, ClientStep

LEMMA InitStream == Init => FreeInv /\ StreamInv
<1> SUFFICES ASSUME Init
             PROVE  FreeInv /\ StreamInv
  OBVIOUS
<1>1. FreeInv
  BY DEF Init, FreeInv
<1>2. ASSUME NEW c \in Conns
      PROVE  Quiet(c)
  <2>1. ~Owns(c)
    <3>1. OwnerOf(socket[c]) = "free"
      BY DEF Init, OwnerOf
    <3> QED  BY <3>1, OwnersAreNamed DEF Owns
  <2> QED  BY <2>1 DEF Init, Quiet
<1>3. StreamInv
  BY <1>2 DEF Init, StreamInv, ConnInv, Reading, Busy
<1> QED  BY <1>1, <1>3

(* The inductive invariant of the streams: what a call in progress has not *)
(* read is of its own response, and no longer than what it goes on to      *)
(* read; a connection without a call has nothing to read.                  *)
THEOREM StreamInvariantHolds == Spec => [](FreeInv /\ StreamInv)
<1>1. TypeInv /\ TypeInv' /\ FreeInv /\ StreamInv /\ [Next]_vars => (FreeInv /\ StreamInv)'
  BY FreeNext, StreamNext
<1> QED  BY <1>1, InitStream, TypeInvariantHolds, PTL DEF Spec

(* Whatever the responses, a command that returns has read its response to *)
(* the end, unless it gave it up half-way: the next reads its own.         *)
THEOREM CommandsStayInStep == Spec => []InStep
<1>1. TypeInv /\ DescriptorInv /\ StreamInv => InStep
  <2> SUFFICES ASSUME TypeInv, DescriptorInv, StreamInv, NEW c \in Conns,
                      call = NoCall, connected[c], ~outOfStep[c], ~strayed
               PROVE  Pending(c) = <<>>
    BY DEF InStep
  <2>1. Owns(c)
    BY DEF DescriptorInv, OwnInv
  <2>2. Quiet(c)
    BY DEF StreamInv, ConnInv, Reading, Busy
  <2> QED  BY <2>1, <2>2, OwnPending DEF Quiet
<1> QED  BY <1>1, TypeInvariantHolds, DescriptorsHold, StreamInvariantHolds, PTL

-----------------------------------------------------------------------------
(* Answers                                                                 *)
RightTold(x, isOut, isStray) == x.c \in Conns /\ x.ret = 0 /\ ~isOut[x.c] /\ ~isStray => Right(x)

LEMMA OwnAnswerIs == OwnAnswer <=> RightTold(told, outOfStep, strayed)
  BY DEF OwnAnswer, RightTold, Right, RightCounts

LEMMA OwnAnswerIsNext == OwnAnswer' <=> RightTold(told', outOfStep', strayed')
  BY DEF OwnAnswer, RightTold, Right, RightCounts

LEMMA ReturnIsRight ==
    ASSUME NEW done, NEW ret, NEW code, Returns(done, ret, code), Right(done)
    PROVE  Right(told')
<1>1. told'.own = done.own /\ told'.header = done.header /\ told'.op = done.op
      /\ told'.state = done.state
  BY DEF Returns
<1> QED  BY <1>1, RightKept

LEMMA ReturnedTo ==
    ASSUME NEW done, NEW ret, NEW code, Returns(done, ret, code) \/ Ends(done, ret, code)
    PROVE  /\ told'.c = done.c /\ told'.ret = ret
           /\ Right(done) => Right(told')
<1>1. PICK e : Returns(done, ret, e)
  BY DEF Ends
<1>2. told'.c = done.c /\ told'.ret = ret
  BY <1>1 DEF Returns
<1> QED  BY <1>1, <1>2, ReturnIsRight

LEMMA AnswerNext ==
    ASSUME TypeInv, StreamInv, RightTold(told, outOfStep, strayed), [Next]_vars
    PROVE  RightTold(told', outOfStep', strayed')
<1>1. ASSUME told' = told, ~strayed' => ~strayed,
             \A c \in Conns : ~outOfStep'[c] => ~outOfStep[c]
      PROVE  RightTold(told', outOfStep', strayed')
  BY <1>1 DEF RightTold
<1>2. ASSUME told' = Nothing
      PROVE  RightTold(told', outOfStep', strayed')
  BY <1>2, OwnersAreNamed DEF RightTold, Nothing
<1>3. ASSUME told'.ret = 1
      PROVE  RightTold(told', outOfStep', strayed')
  BY <1>3 DEF RightTold
<1>4. ASSUME NEW c \in Conns, AlreadyConnected(c) \/ ConnectFails(c) \/ RefuseQuery(c)
      PROVE  RightTold(told', outOfStep', strayed')
  <2>1. \A op, code : Tells(c, op, code) => told'.ret = 1
    BY DEF Tells, Nothing
  <2>2. \E op, code : Tells(c, op, code)
    BY <1>4 DEF AlreadyConnected, ConnectFails, RefuseQuery
  <2> QED  BY <1>3, <2>1, <2>2
<1>5. CASE SendOk \/ SendIntoTheVoid \/ SendFails
  <2>1. UNCHANGED outOfStep /\ (~strayed' => ~strayed)
    BY <1>5 DEF SendOk, SendIntoTheVoid, SendFails, Uses
  <2>2. told' = told \/ \E code : Returns(call, 1, code)
    BY <1>5 DEF SendOk, SendIntoTheVoid, SendFails
  <2> QED  BY <1>1, <1>3, <2>1, <2>2, ReturnedTo
<1>6. CASE ReadHeader
  <2>1. PICK c : c = call.c
    OBVIOUS
  <2>2. call # NoCall /\ call.step = "header" /\ Uses(c)
    BY <1>6, <2>1 DEF ReadHeader, At
  <2>3. c \in Conns
    BY <2>1, <2>2, InCall
  <2>4. PICK n \in DOMAIN Pending(c), h \in Headers, junk \in Int, s \in States, done \in CallsMade :
           /\ Reads(n, h, junk, s, done)
           /\ done.own = Owned(n) /\ done.header = h /\ done.state = s /\ done.op = call.op
           /\ done.c = c
    BY <1>6, <2>1, HeaderIsRead
  <2>5. /\ ~strayed' => ~strayed
        /\ \A x \in Conns : ~outOfStep'[x] => ~outOfStep[x]
    <3>1. \E b : FallsOutOfStep(c, b)
      BY <2>1, <2>4 DEF Reads
    <3> QED  BY <2>2, <2>3, <3>1, OutOfStepIs DEF Uses
  <2>6. CASE s.ret # 0
    <3>1. Ends(done, 1, s.error_code)
      BY <2>4, <2>6 DEF Reads
    <3> QED  BY <1>3, <3>1, ReturnedTo
  <2>7. CASE s.ret = 0
    <3>1. told' = told \/ \E code : Ends(done, 0, code)
      <4>1. Accepted(done)
        BY <2>4, <2>7 DEF Reads
      <4>2. PICK op : op = call.op
        OBVIOUS
      <4> QED  BY <2>4, <4>1, <4>2, AcceptLeads DEF Goes
    <3>2. ASSUME NEW code, Ends(done, 0, code), ~outOfStep'[c], ~strayed'
          PROVE  Right(told')
      <4>1. Right(done)
        BY <2>1, <2>2, <2>3, <2>4, <2>7, <3>2, AnswerIsOwn
      <4> QED  BY <3>2, <4>1, ReturnedTo
    <3>3. ASSUME NEW code, Ends(done, 0, code)
          PROVE  told'.c = c
      BY <2>4, <3>3, ReturnedTo
    <3> QED  BY <1>1, <2>5, <3>1, <3>2, <3>3 DEF RightTold
  <2> QED  BY <2>6, <2>7
<1>7. CASE ReadCount \/ ReadRow \/ Disconnect
  <2>1. PICK c : c = call.c
    OBVIOUS
  <2>2. call # NoCall /\ call.step \in {"count", "rows", "close"} /\ Uses(c) /\ UNCHANGED outOfStep
    BY <1>7, <2>1 DEF ReadCount, ReadRow, Disconnect, At
  <2>3. c \in Conns /\ Busy(c)
    BY <2>1, <2>2, InCall
  <2>4. told' = told \/ \E code : Returns(call, 0, code) \/ Ends(call, 0, code)
    BY <1>7 DEF ReadCount, ReadRow, Disconnect
  <2>5. ASSUME NEW code, Returns(call, 0, code) \/ Ends(call, 0, code), ~outOfStep'[c], ~strayed'
        PROVE  Right(told')
    <3>1. ConnInv(c)
      BY <2>2, <2>3, <2>5, UsesOwn
    <3>2. Right(call)
      BY <2>2, <2>3, <3>1 DEF ConnInv
    <3> QED  BY <2>5, <3>2, ReturnedTo
  <2>6. ASSUME NEW code, Returns(call, 0, code) \/ Ends(call, 0, code)
        PROVE  told'.c = c
    BY <2>1, <2>6, ReturnedTo
  <2>7. ~strayed' => ~strayed
    BY <2>2 DEF Uses
  <2> QED  BY <1>1, <2>2, <2>4, <2>5, <2>6, <2>7 DEF RightTold
<1>8. CASE MalformedRow \/ ReadFails \/ NoMemory
  <2>1. \E code : Ends(call, 1, code)
    BY <1>8 DEF MalformedRow, ReadFails, NoMemory
  <2> QED  BY <1>3, <2>1, ReturnedTo
<1>9. CASE OtherOpens \/ \E d \in Descriptors : LinkDrops(d) \/ OtherCloses(d)
  BY <1>2, <1>9 DEF OtherOpens, LinkDrops, OtherCloses
<1>10. ASSUME NEW c \in Conns,
              Connect(c) \/ Query(c) \/ Prepare(c) \/ Fetch(c) \/ CloseStatement(c) \/ Logout(c)
       PROVE  RightTold(told', outOfStep', strayed')
  BY <1>2, <1>10 DEF Connect, Query, Prepare, Fetch, CloseStatement, Logout, Begin
<1>11. CASE UNCHANGED vars
  BY <1>1, <1>11 DEF vars, history
<1> QED  BY <1>4, <1>5, <1>6, <1>7, <1>8, <1>9, <1>10, <1>11 DEF Next, ClientStep

(* Whatever the responses, a command of fourd_interne.c that succeeds has  *)
(* read the response to its own request, which said OK, and takes its      *)
(* counts of rows from that header.                                        *)
THEOREM AnswersAreOwn == Spec => []OwnAnswer
<1>1. Init => OwnAnswer
  BY OwnersAreNamed DEF Init, Nothing, OwnAnswer
<1>2. TypeInv /\ StreamInv /\ OwnAnswer /\ [Next]_vars => OwnAnswer'
  BY AnswerNext, OwnAnswerIs, OwnAnswerIsNext
<1> QED  BY <1>1, <1>2, TypeInvariantHolds, StreamInvariantHolds, PTL DEF Spec
=============================================================================

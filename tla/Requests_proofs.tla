--------------------------- MODULE Requests_proofs ---------------------------
(***************************************************************************)
(* Requests: no block of a statement is lost or freed under its owner, for *)
(* any texts and parameters and any size of the table, through binds that  *)
(* fail; what base64_encode writes, base64_decode gives back, for any      *)
(* sequence of bytes; and a request that is sent carries the text and the  *)
(* values the caller gave, whatever the marks and the tuples in them.      *)
(***************************************************************************)
(* Inductions over sequences are made with sets of naturals (Least,        *)
(* Induction, Recursion), which need no operator as a parameter.           *)
(***************************************************************************)
EXTENDS Requests, SequenceTheorems, FiniteSetTheorems, WellFoundedInduction, TLAPS

-----------------------------------------------------------------------------
(* Blocks and their names                                                  *)

(* An element and what _copy has allocated for it.                         *)
Fits(e, i) ==
    /\ e.type \in Known
    /\ e.null => e.pValue = {}
    /\ ~e.null => e.pValue = Copied(e.type, i)

IsStatement(s) ==
    /\ s = [elmt |-> s.elmt, nbAllocElement |-> s.nbAllocElement, table |-> s.table]
    /\ s.elmt \in Seq(ToSet(s.elmt))
    /\ s.table \in Nat \ {0}
    /\ Len(s.elmt) <= s.table
    /\ \A i \in DOMAIN s.elmt : Fits(s.elmt[i], i)

ValuesOf(s) == UNION {s.elmt[i].pValue : i \in DOMAIN s.elmt}
OwnedBy(s) == IF s = None THEN {} ELSE StatementBlocks(s) \union ValuesOf(s)
StringOf(is) == IF is THEN String ELSE {}

Lost == {<<"string", 1>>, <<"string data", 1>>}

(* While parameters are bound, the table is as long as the statement says. *)
StatementInv ==
    /\ statement # None => IsStatement(statement)
    /\ pc \in {"bind", "bound"} =>
          statement # None /\ statement.nbAllocElement = statement.table

BlockInv ==
    /\ string \in BOOLEAN
    /\ stranded \subseteq Lost
    /\ live = OwnedBy(statement) \union stranded \union StringOf(string)

(* The string at hand is that of the parameter that is bound next.         *)
StringInv ==
    /\ string => pc \in {"bind", "bound"}
    /\ string /\ pc = "bind" => HasNext /\ IsMade(params[Number]) /\ ~IsRefused(params[Number])

IInv == StatementInv /\ BlockInv /\ StringInv

LEMMA StatementIsNotNone ==
    ASSUME NEW s, IsStatement(s)
    PROVE  s # None
  BY DEF IsStatement, None

LEMMA CopiesAreNamed ==
    ASSUME NEW t, NEW i, NEW b \in Copied(t, i)
    PROVE  b \in {<<"value", i>>, <<"data", i>>}
  BY DEF Copied

LEMMA ValuesAreNamed ==
    ASSUME NEW s, IsStatement(s), NEW b \in ValuesOf(s)
    PROVE  \E i \in DOMAIN s.elmt : b \in {<<"value", i>>, <<"data", i>>}
<1>1. PICK i \in DOMAIN s.elmt : b \in s.elmt[i].pValue
  BY DEF ValuesOf
<1>2. b \in Copied(s.elmt[i].type, i)
  BY <1>1 DEF IsStatement, Fits
<1> QED  BY <1>2, CopiesAreNamed

LEMMA StringsAreNamed ==
    /\ \A b \in String \union Lost : b[1] \in {"string", "string data"}
    /\ String \intersect Lost = {}
<1>1. \A k : <<"string", k>>[1] = "string" /\ <<"string data", k>>[1] = "string data"
  OBVIOUS
<1>2. \A b \in String : b[1] \in {"string", "string data"}
  BY <1>1 DEF String
<1>3. \A b \in Lost : b[1] \in {"string", "string data"}
  BY <1>1 DEF Lost
<1>4. ASSUME NEW b \in String PROVE b \notin Lost
  <2>1. \A name : <<name, 0>> # <<"string", 1>> /\ <<name, 0>> # <<"string data", 1>>
    OBVIOUS
  <2> QED  BY <2>1 DEF String, Lost
<1> QED  BY <1>2, <1>3, <1>4

LEMMA OwnedAreNamed ==
    ASSUME NEW s, s # None => IsStatement(s), NEW b \in OwnedBy(s)
    PROVE  b \notin String \union Lost
<1>1. CASE b \in StatementBlocks(s)
  <2>1. b[1] \in {"statement", "query", "image types", "table"}
    <3>1. \A name, k : <<name, k>>[1] = name
      OBVIOUS
    <3> QED  BY <1>1, <3>1 DEF StatementBlocks, Table
  <2> QED  BY <2>1, StringsAreNamed
<1>2. CASE s # None /\ b \in ValuesOf(s)
  <2>1. b[1] \in {"value", "data"}
    BY <1>2, ValuesAreNamed
  <2> QED  BY <2>1, StringsAreNamed
<1> QED  BY <1>1, <1>2 DEF OwnedBy

(* fourd_free_statement frees what the statement and its elements own.     *)
LEMMA FreedIsOwned ==
    ASSUME NEW s, s # None => IsStatement(s)
    PROVE  FreeStatement(s) = OwnedBy(s)
<1>1. SUFFICES ASSUME IsStatement(s), s # None
               PROVE  \A i \in DOMAIN s.elmt : FreedOf(s.elmt[i], i) = s.elmt[i].pValue
  BY DEF FreeStatement, OwnedBy, ValuesOf
<1>2. ASSUME NEW i \in DOMAIN s.elmt
      PROVE  FreedOf(s.elmt[i], i) = s.elmt[i].pValue
  <2> DEFINE e == s.elmt[i]
  <2>1. Fits(e, i)
    BY <1>1 DEF IsStatement
  <2>2. CASE e.pValue = {}
    BY <2>2 DEF FreedOf
  <2>3. CASE e.pValue # {}
    BY <2>1, <2>3 DEF Fits, FreedOf, Copied, Varying, Binary
  <2> QED  BY <2>2, <2>3
<1> QED  BY <1>2

LEMMA NewStatementIs == IsStatement(NewStatement) /\ ValuesOf(NewStatement) = {}
<1>1. <<>> \in Seq(ToSet(<<>>)) /\ Len(<<>>) = 0 /\ DOMAIN <<>> = {}
  OBVIOUS
<1> QED  BY <1>1, RequestsAssumption DEF IsStatement, NewStatement, ValuesOf

(* A parameter has a FOURD type.                                           *)
LEMMA TypesAreKnown ==
    ASSUME NEW p
    PROVE  TypeOf(p) \in Known
  BY DEF TypeOf, Known, Small, Large, Binary

(* One element more: the statement that a bind leaves.                     *)
LEMMA Appended ==
    ASSUME NEW s, IsStatement(s), NEW e, Fits(e, Len(s.elmt) + 1),
           NEW s2, s2.elmt = Append(s.elmt, e),
           s2 = [elmt |-> s2.elmt, nbAllocElement |-> s2.nbAllocElement, table |-> s2.table],
           s2.table \in Nat \ {0}, Len(s.elmt) + 1 <= s2.table
    PROVE  /\ IsStatement(s2)
           /\ ValuesOf(s2) = ValuesOf(s) \union e.pValue
<1> DEFINE m == Len(s.elmt)
           S == ToSet(s.elmt) \union {e}
<1>1. m \in Nat /\ DOMAIN s.elmt = 1 .. m /\ s.elmt \in Seq(S)
  BY DEF IsStatement
<1>2. /\ s2.elmt \in Seq(S) /\ Len(s2.elmt) = m + 1 /\ DOMAIN s2.elmt = 1 .. m + 1
      /\ s2.elmt[m + 1] = e
      /\ \A i \in 1 .. m : s2.elmt[i] = s.elmt[i]
  BY <1>1
<1>3. s2.elmt \in Seq(ToSet(s2.elmt))
  BY <1>1, <1>2 DEF ToSet
<1>4. \A i \in DOMAIN s2.elmt : Fits(s2.elmt[i], i)
  BY <1>1, <1>2 DEF IsStatement
<1>5. IsStatement(s2)
  BY <1>1, <1>2, <1>3, <1>4 DEF IsStatement
<1>6. 1 .. m + 1 = (1 .. m) \union {m + 1}
  BY <1>1
<1>7. ValuesOf(s2) = ValuesOf(s) \union e.pValue
  BY <1>1, <1>2, <1>6 DEF ValuesOf
<1> QED  BY <1>5, <1>7

-----------------------------------------------------------------------------
(* No block is lost                                                        *)

LEMMA InitInv == Init => IInv
  BY DEF Init, IInv, StatementInv, BlockInv, StringInv, OwnedBy, StringOf

(* What a statement that is freed leaves.                                  *)
LEMMA Freed ==
    ASSUME IInv
    PROVE  live \ FreeStatement(statement) = stranded \union StringOf(string)
<1>1. FreeStatement(statement) = OwnedBy(statement)
  BY FreedIsOwned DEF IInv, StatementInv
<1>2. \A b \in OwnedBy(statement) : b \notin String \union Lost
  BY OwnedAreNamed DEF IInv, StatementInv
<1>3. stranded \union StringOf(string) \subseteq String \union Lost
  BY DEF IInv, BlockInv, StringOf
<1> QED  BY <1>1, <1>2, <1>3 DEF IInv, BlockInv

LEMMA BindInv ==
    ASSUME IInv, Bind
    PROVE  IInv'
<1> DEFINE p == params[Number]
           s == statement
           t == TypeOf(p)
           copies == IF IsNull(p) THEN {} ELSE Copied(t, Number)
           table == IF IsFull THEN Grown ELSE s.table
           e == [type |-> t, null |-> IsNull(p), pValue |-> copies, data |-> DataOf(p)]
<1>1. /\ IsStatement(s) /\ s.nbAllocElement = s.table
      /\ Len(s.elmt) \in Nat /\ s.table \in Nat \ {0} /\ Len(s.elmt) <= s.table
  BY DEF IInv, StatementInv, Bind, IsStatement
<1>2. /\ statement' = [elmt |-> Append(s.elmt, e),
                       nbAllocElement |-> IF IsFull THEN Grown ELSE s.nbAllocElement,
                       table |-> table]
      /\ live' = (live \ {Table(s.table)}) \union {Table(table)} \union copies
      /\ UNCHANGED <<string, stranded>>
  BY DEF Bind
<1>3. Fits(e, Len(s.elmt) + 1)
  BY TypesAreKnown DEF Fits, Number
<1>4. table \in Nat \ {0} /\ Len(s.elmt) + 1 <= table
  BY <1>1 DEF IsFull, Grown, Number
<1>5. IsStatement(statement') /\ ValuesOf(statement') = ValuesOf(s) \union copies
  <2>1. /\ e.pValue = copies
        /\ statement' = [elmt |-> statement'.elmt, table |-> statement'.table,
                         nbAllocElement |-> statement'.nbAllocElement]
        /\ statement'.elmt = Append(s.elmt, e) /\ statement'.table = table
    BY <1>2
  <2> HIDE DEF e, table, s, copies
  <2> QED  BY <1>1, <1>3, <1>4, <2>1, Appended
<1>6. statement'.nbAllocElement = statement'.table
  BY <1>1, <1>2
<1>7. StatementInv'
  BY <1>5, <1>6, StatementIsNotNone DEF StatementInv
<1>8. Table(s.table) \notin ValuesOf(s) \union stranded \union StringOf(string)
  <2>1. Table(s.table) \notin ValuesOf(s)
    BY <1>1, ValuesAreNamed DEF Table
  <2>2. Table(s.table) \notin String \union Lost
    BY StringsAreNamed DEF Table
  <2> QED  BY <2>1, <2>2 DEF IInv, BlockInv, StringOf
<1>9. StatementBlocks(statement') =
          (StatementBlocks(s) \ {Table(s.table)}) \union {Table(table)}
  <2>1. statement'.table = table
    BY <1>2
  <2>2. \A n : Table(n)[1] = "table"
    BY DEF Table
  <2>3. \A n : Table(n) \notin {<<"statement", 0>>, <<"query", 0>>, <<"image types", 0>>}
    BY <2>2 DEF Table
  <2> QED  BY <2>1, <2>3 DEF StatementBlocks
<1>10. OwnedBy(s) = StatementBlocks(s) \union ValuesOf(s)
  BY <1>1, StatementIsNotNone DEF OwnedBy
<1>11. OwnedBy(statement') = StatementBlocks(statement') \union ValuesOf(statement')
  BY <1>5, StatementIsNotNone DEF OwnedBy
<1>12. BlockInv'
  <2> HIDE DEF copies, table, s
  <2>1. live = StatementBlocks(s) \union ValuesOf(s) \union stranded \union StringOf(string)
    BY <1>10 DEF IInv, BlockInv, s
  <2>2. live' = StatementBlocks(statement') \union ValuesOf(statement')
                  \union stranded \union StringOf(string)
    BY <1>2, <1>5, <1>8, <1>9, <2>1, ZenonT(60)
  <2>3. string' = string /\ stranded' = stranded /\ StringOf(string') = StringOf(string)
    BY <1>2
  <2> QED  BY <1>11, <2>2, <2>3 DEF IInv, BlockInv
<1>13. StringInv'
  BY DEF Bind, StringInv, IInv, BlockInv
<1> QED  BY <1>7, <1>12, <1>13 DEF IInv

LEMMA BindNoMemoryInv ==
    ASSUME IInv, BindNoMemory
    PROVE  IInv'
<1> DEFINE s == statement
<1>1. IsStatement(s) /\ s # None
  BY DEF IInv, StatementInv, BindNoMemory
<1>2. statement' = [elmt |-> s.elmt, nbAllocElement |-> Grown, table |-> s.table]
  BY <1>1 DEF BindNoMemory, IsStatement
<1>3. IsStatement(statement') /\ OwnedBy(statement') = OwnedBy(s)
  <2>1. statement'.elmt = s.elmt /\ statement'.table = s.table
    BY <1>2
  <2>2. IsStatement(statement')
    BY <1>1, <1>2, <2>1 DEF IsStatement
  <2>3. statement' # None
    BY <2>2, StatementIsNotNone
  <2> QED  BY <1>1, <2>1, <2>2, <2>3 DEF OwnedBy, StatementBlocks, ValuesOf
<1>4. {<<b[1], 1>> : b \in String} = Lost
  BY <<"string", 0>>[1] = "string", <<"string data", 0>>[1] = "string data" DEF String, Lost
<1>5. /\ string' = FALSE /\ pc' = "returned"
      /\ stranded' = stranded \union IF string THEN Lost ELSE {}
      /\ live' = IF string THEN (live \ String) \union stranded' ELSE live
  BY <1>4 DEF BindNoMemory
<1>6. \A b \in OwnedBy(s) : b \notin String
  BY OwnedAreNamed DEF IInv, StatementInv
<1>7. stranded \intersect String = {}
  BY StringsAreNamed DEF IInv, BlockInv
<1>8. BlockInv'
  <2>1. stranded' \subseteq Lost /\ string' \in BOOLEAN /\ StringOf(string') = {}
    BY <1>5 DEF IInv, BlockInv, StringOf
  <2>2. live' = OwnedBy(s) \union stranded'
    BY <1>5, <1>6, <1>7 DEF IInv, BlockInv, StringOf
  <2> QED  BY <1>3, <2>1, <2>2 DEF BlockInv
<1> QED  BY <1>3, <1>5, <1>8 DEF IInv, StatementInv, StringInv

LEMMA NextInv == IInv /\ [Next]_vars => IInv'
<1> SUFFICES ASSUME IInv, [Next]_vars PROVE IInv'
  OBVIOUS
<1> USE DEF IInv, StatementInv, BlockInv, StringInv
<1>1. CASE \E q \in Queries, args \in Arguments : Execute(q, args)
  BY <1>1 DEF Execute
<1>2. CASE OpenTuple
  BY <1>2 DEF OpenTuple
<1>3. CASE Prepare
  <2>1. live' = StatementBlocks(NewStatement) \union stranded \union StringOf(string)
    BY <1>3, Freed DEF Prepare
  <2>2. statement' = NewStatement /\ statement' # None
    BY <1>3, NewStatementIs, StatementIsNotNone DEF Prepare
  <2>3. OwnedBy(statement') = StatementBlocks(NewStatement)
    BY <2>2, NewStatementIs DEF OwnedBy
  <2> QED  BY <1>3, <2>1, <2>2, <2>3, NewStatementIs DEF Prepare, NewStatement
<1>4. CASE PrepareFails
  <2>1. live' = stranded \union StringOf(string)
    BY <1>4, Freed DEF PrepareFails
  <2> QED  BY <1>4, <2>1 DEF PrepareFails, OwnedBy
<1>5. CASE CreateString
  <2>1. live' = OwnedBy(statement) \union stranded \union String
    BY <1>5 DEF CreateString, StringOf
  <2>2. HasNext' /\ IsMade(params[Number])' /\ ~IsRefused(params[Number])'
    BY <1>5 DEF CreateString, HasNext, Number
  <2> QED  BY <1>5, <2>1, <2>2 DEF CreateString, StringOf
<1>6. CASE Bind
  BY <1>6, BindInv
<1>7. CASE BindNoMemory
  BY <1>7, BindNoMemoryInv
<1>8. CASE BindRaises
  BY <1>8 DEF BindRaises
<1>9. CASE FreeString
  <2>1. \A b \in OwnedBy(statement) : b \notin String
    BY OwnedAreNamed
  <2>2. stranded \intersect String = {}
    BY StringsAreNamed
  <2>3. live' = OwnedBy(statement) \union stranded
    BY <1>9, <2>1, <2>2 DEF FreeString, StringOf
  <2> QED  BY <1>9, <2>3 DEF FreeString, StringOf
<1>10. CASE Send
  BY <1>10 DEF Send
<1>11. CASE Return
  BY <1>11 DEF Return
<1>12. CASE ForgetStatement
  <2>1. live' = stranded \union StringOf(string)
    BY <1>12, Freed DEF ForgetStatement
  <2> QED  BY <1>12, <2>1 DEF ForgetStatement, OwnedBy
<1>13. CASE UNCHANGED vars
  BY <1>13 DEF vars, HasNext, Number, IsMade, IsRefused
<1> QED
  BY <1>1, <1>2, <1>3, <1>4, <1>5, <1>6, <1>7, <1>8, <1>9, <1>10, <1>11, <1>12, <1>13 DEF Next

(* The inductive invariant of a statement's blocks: each element owns just *)
(* what _copy allocated for it, and while parameters are bound the table   *)
(* is as long as nbAllocElement says, so that growing it replaces it.      *)
THEOREM BlockInvariantHolds == Spec => []IInv
  BY InitInv, NextInv, PTL DEF Spec

(* However parameters are typed and binds break off, every block allocated *)
(* has an owner that will free it, but the strings of binds that ran out   *)
(* of memory, and no element is written past the table's end.              *)
THEOREM BlocksAreOwned == Spec => []EveryBlockIsOwned
<1>1. IInv => EveryBlockIsOwned
  <2> SUFFICES ASSUME IInv PROVE EveryBlockIsOwned
    OBVIOUS
  <2>1. Owned = OwnedBy(statement)
    BY DEF Owned, OwnedBy, ValuesOf
  <2>2. Len(statement.elmt) <= statement.table
    <3>1. CASE statement = None
      BY <3>1 DEF None
    <3>2. CASE statement # None
      BY <3>2 DEF IInv, StatementInv, IsStatement
    <3> QED  BY <3>1, <3>2
  <2> QED  BY <2>1, <2>2 DEF IInv, BlockInv, StringInv, StringOf, EveryBlockIsOwned
<1> QED  BY <1>1, BlockInvariantHolds, PTL

-----------------------------------------------------------------------------
(* The codec of the statement's text                                       *)

(* How many symbols stand before the pads.                                 *)
Count(s) == (4 * Len(s) + 2) \div 3

LEMMA EncodeShape ==
    ASSUME NEW s \in Seq(Byte)
    PROVE  /\ Len(s) \in Nat
           /\ Len(Encode(s)) = ((Len(s) + 2) \div 3) * 4
           /\ DOMAIN Encode(s) = 1 .. ((Len(s) + 2) \div 3) * 4
<1> DEFINE n == ((Len(s) + 2) \div 3) * 4
<1>1. Len(s) \in Nat
  OBVIOUS
<1>2. n \in Nat
  BY <1>1
<1>3. DOMAIN Encode(s) = 1 .. n
  BY DEF Encode
<1>4. \E S : Encode(s) \in Seq(S)
  <2> DEFINE S == {Encode(s)[k] : k \in 1 .. n}
  <2>1. Encode(s) \in [1 .. n -> S]
    BY DEF Encode
  <2>2. Encode(s) \in Seq(S)
    BY <2>1, <1>2
  <2> QED
    BY <2>2
<1>5. Len(Encode(s)) = n
  BY <1>2, <1>3, <1>4
<1> QED
  BY <1>1, <1>3, <1>5

(* The symbols of group g, counted from 0.                                 *)
LEMMA Groups ==
    ASSUME NEW s \in Seq(Byte), NEW g \in Nat, 3 * g < Len(s)
    PROVE  /\ 4 * g + 4 <= Len(Encode(s))
           /\ Encode(s)[4 * g + 1] = At(s, 3 * g + 1) \div 4
           /\ Encode(s)[4 * g + 2] = (At(s, 3 * g + 1) % 4) * 16 + At(s, 3 * g + 2) \div 16
           /\ Encode(s)[4 * g + 3] =
                IF 3 * g + 2 <= Len(s)
                THEN (At(s, 3 * g + 2) % 16) * 4 + At(s, 3 * g + 3) \div 64 ELSE Pad
           /\ Encode(s)[4 * g + 4] =
                IF 3 * g + 3 <= Len(s) THEN At(s, 3 * g + 3) % 64 ELSE Pad
<1>1. Len(s) \in Nat /\ Len(Encode(s)) = ((Len(s) + 2) \div 3) * 4
  BY EncodeShape
<1>2. 4 * g + 4 <= ((Len(s) + 2) \div 3) * 4
  BY <1>1
<1>3. /\ (4 * g + 1) % 4 = 1 /\ (4 * g + 2) % 4 = 2 /\ (4 * g + 3) % 4 = 3
      /\ (4 * g + 4) % 4 = 0
      /\ (4 * g + 1 - 1) \div 4 = g /\ (4 * g + 2 - 1) \div 4 = g
      /\ (4 * g + 3 - 1) \div 4 = g /\ (4 * g + 4 - 1) \div 4 = g
  OBVIOUS
<1> DEFINE N == ((Len(s) + 2) \div 3) * 4
           Sym(k, h) ==
             CASE k % 4 = 1 -> At(s, 3 * h + 1) \div 4
               [] k % 4 = 2 -> (At(s, 3 * h + 1) % 4) * 16 + At(s, 3 * h + 2) \div 16
               [] k % 4 = 3 -> IF 3 * h + 2 <= Len(s)
                               THEN (At(s, 3 * h + 2) % 16) * 4 + At(s, 3 * h + 3) \div 64
                               ELSE Pad
               [] OTHER -> IF 3 * h + 3 <= Len(s) THEN At(s, 3 * h + 3) % 64 ELSE Pad
<1>4. 4 * g + 1 \in 1 .. N /\ 4 * g + 2 \in 1 .. N /\ 4 * g + 3 \in 1 .. N /\ 4 * g + 4 \in 1 .. N
  BY <1>2, <1>1
<1>5. \A k \in 1 .. N : Encode(s)[k] = Sym(k, (k - 1) \div 4)
  BY Zenon DEF Encode
<1>6. /\ Encode(s)[4 * g + 1] = Sym(4 * g + 1, g)
      /\ Encode(s)[4 * g + 2] = Sym(4 * g + 2, g)
      /\ Encode(s)[4 * g + 3] = Sym(4 * g + 3, g)
      /\ Encode(s)[4 * g + 4] = Sym(4 * g + 4, g)
  <2> HIDE DEF Sym, N
  <2> QED
    BY <1>3, <1>4, <1>5
<1>7. Sym(4 * g + 1, g) = At(s, 3 * g + 1) \div 4
  <2>1. (4 * g + 1) % 4 = 1 /\ (4 * g + 1) % 4 # 2 /\ (4 * g + 1) % 4 # 3
    BY <1>3
  <2> QED
    BY <2>1 DEF Sym
<1>8. Sym(4 * g + 2, g) = (At(s, 3 * g + 1) % 4) * 16 + At(s, 3 * g + 2) \div 16
  <2>1. (4 * g + 2) % 4 # 1 /\ (4 * g + 2) % 4 = 2
    BY <1>3
  <2> QED
    BY <2>1 DEF Sym
<1>9. Sym(4 * g + 3, g) =
        IF 3 * g + 2 <= Len(s)
        THEN (At(s, 3 * g + 2) % 16) * 4 + At(s, 3 * g + 3) \div 64 ELSE Pad
  <2>1. (4 * g + 3) % 4 # 1 /\ (4 * g + 3) % 4 # 2 /\ (4 * g + 3) % 4 = 3
    BY <1>3
  <2> QED
    BY <2>1 DEF Sym
<1>10. Sym(4 * g + 4, g) = IF 3 * g + 3 <= Len(s) THEN At(s, 3 * g + 3) % 64 ELSE Pad
  <2>1. (4 * g + 4) % 4 # 1 /\ (4 * g + 4) % 4 # 2 /\ (4 * g + 4) % 4 # 3
    BY <1>3
  <2> QED
    BY <2>1, Zenon DEF Sym
<1> HIDE DEF Sym, N
<1> QED
  BY <1>1, <1>2, <1>6, <1>7, <1>8, <1>9, <1>10

(* Three bytes cut into four parts of six bits, and put together again.    *)
LEMMA Bits ==
    ASSUME NEW x \in Byte, NEW y \in Byte, NEW z \in Byte
    PROVE  /\ x \div 4 \in 0 .. 63
           /\ (x % 4) * 16 + y \div 16 \in 0 .. 63
           /\ (y % 16) * 4 + z \div 64 \in 0 .. 63
           /\ z % 64 \in 0 .. 63
           /\ (x \div 4) * 4 + ((x % 4) * 16 + y \div 16) \div 16 = x
           /\ (((x % 4) * 16 + y \div 16) % 16) * 16 + ((y % 16) * 4 + z \div 64) \div 4 = y
           /\ (((y % 16) * 4 + z \div 64) % 4) * 64 + (z % 64) = z
<1>1. /\ x = 4 * (x \div 4) + (x % 4) /\ x \div 4 \in 0 .. 63 /\ x % 4 \in 0 .. 3
      /\ y = 16 * (y \div 16) + (y % 16) /\ y \div 16 \in 0 .. 15 /\ y % 16 \in 0 .. 15
      /\ z = 64 * (z \div 64) + (z % 64) /\ z \div 64 \in 0 .. 3 /\ z % 64 \in 0 .. 63
  BY DEF Byte
<1>2. ASSUME NEW a \in 0 .. 3, NEW b \in 0 .. 15
      PROVE  a * 16 + b \in 0 .. 63 /\ (a * 16 + b) \div 16 = a /\ (a * 16 + b) % 16 = b
  OBVIOUS
<1>3. ASSUME NEW a \in 0 .. 15, NEW b \in 0 .. 3
      PROVE  a * 4 + b \in 0 .. 63 /\ (a * 4 + b) \div 4 = a /\ (a * 4 + b) % 4 = b
  OBVIOUS
<1> HIDE DEF Byte
<1>4. /\ (x % 4) * 16 + y \div 16 \in 0 .. 63
      /\ ((x % 4) * 16 + y \div 16) \div 16 = x % 4
      /\ ((x % 4) * 16 + y \div 16) % 16 = y \div 16
  BY <1>1, <1>2
<1>5. /\ (y % 16) * 4 + z \div 64 \in 0 .. 63
      /\ ((y % 16) * 4 + z \div 64) \div 4 = y % 16
      /\ ((y % 16) * 4 + z \div 64) % 4 = z \div 64
  BY <1>1, <1>3
<1>6. (x \div 4) * 4 + ((x % 4) * 16 + y \div 16) \div 16 = x
  <2>1. (x \div 4) * 4 + (x % 4) = x
    BY <1>1
  <2> QED
    BY <1>4, <2>1
<1>7. (((x % 4) * 16 + y \div 16) % 16) * 16 + ((y % 16) * 4 + z \div 64) \div 4 = y
  <2>1. (y \div 16) * 16 + (y % 16) = y
    BY <1>1
  <2> QED
    BY <1>4, <1>5, <2>1
<1>8. (((y % 16) * 4 + z \div 64) % 4) * 64 + (z % 64) = z
  <2>1. (z \div 64) * 64 + (z % 64) = z
    BY <1>1
  <2> QED
    BY <1>5, <2>1
<1> QED
  BY <1>1, <1>4, <1>5, <1>6, <1>7, <1>8

LEMMA AtIsByte ==
    ASSUME NEW s \in Seq(Byte), NEW i \in Nat, i > 0
    PROVE  At(s, i) \in Byte
<1>1. CASE i <= Len(s)
  <2>1. s[i] \in Byte
    BY <1>1
  <2> QED
    BY <1>1, <2>1 DEF At
<1>2. CASE ~(i <= Len(s))
  BY <1>2 DEF At, Byte
<1> QED
  BY <1>1, <1>2

(* The pads are the symbols behind the first Count(s).                     *)
LEMMA PadsAreLast ==
    ASSUME NEW s \in Seq(Byte), NEW k \in DOMAIN Encode(s)
    PROVE  /\ k <= Count(s) => Encode(s)[k] \in 0 .. 63
           /\ k > Count(s) => Encode(s)[k] = Pad
<1>1. Len(s) \in Nat /\ k \in 1 .. ((Len(s) + 2) \div 3) * 4
  BY EncodeShape
<1>2. PICK g \in Nat : /\ 3 * g < Len(s)
                      /\ k \in {4 * g + 1, 4 * g + 2, 4 * g + 3, 4 * g + 4}
  <2> DEFINE h == (k - 1) \div 4
  <2>1. h \in Nat /\ 3 * h < Len(s)
    BY <1>1
  <2>2. k = 4 * h + 1 \/ k = 4 * h + 2 \/ k = 4 * h + 3 \/ k = 4 * h + 4
    BY <1>1, SMTT(30)
  <2> HIDE DEF h
  <2> QED
    BY <2>1, <2>2
<1>3. k = 4 * g + 1 \/ k = 4 * g + 2 \/ k = 4 * g + 3 \/ k = 4 * g + 4
  BY <1>2
<1> DEFINE x == At(s, 3 * g + 1)
           y == At(s, 3 * g + 2)
           z == At(s, 3 * g + 3)
<1>4. x \in Byte /\ y \in Byte /\ z \in Byte
  BY <1>2, AtIsByte
<1>5. /\ x \div 4 \in 0 .. 63 /\ (x % 4) * 16 + y \div 16 \in 0 .. 63
      /\ (y % 16) * 4 + z \div 64 \in 0 .. 63 /\ z % 64 \in 0 .. 63
  BY <1>4, Bits
<1>6. /\ 4 * g + 2 <= Count(s)
      /\ 4 * g + 3 <= Count(s) <=> 3 * g + 2 <= Len(s)
      /\ 4 * g + 4 <= Count(s) <=> 3 * g + 3 <= Len(s)
  <2>1. g \in Nat /\ Len(s) \in Nat /\ 3 * g < Len(s)
    BY <1>1, <1>2
  <2>2. ASSUME NEW c \in Nat
        PROVE  c <= Count(s) <=> 3 * c <= 4 * Len(s) + 2
    BY <2>1 DEF Count
  <2>3. 4 * g + 2 \in Nat /\ 4 * g + 3 \in Nat /\ 4 * g + 4 \in Nat
    BY <2>1
  <2>4. 4 * g + 2 <= Count(s) <=> 3 * (4 * g + 2) <= 4 * Len(s) + 2
    BY <2>2, <2>3, Zenon
  <2>5. 4 * g + 3 <= Count(s) <=> 3 * (4 * g + 3) <= 4 * Len(s) + 2
    BY <2>2, <2>3, Zenon
  <2>6. 4 * g + 4 <= Count(s) <=> 3 * (4 * g + 4) <= 4 * Len(s) + 2
    BY <2>2, <2>3, Zenon
  <2> QED
    BY <2>1, <2>4, <2>5, <2>6
<1>7. Count(s) \in Int
  BY <1>1 DEF Count
<1>g. /\ Encode(s)[4 * g + 1] = x \div 4
      /\ Encode(s)[4 * g + 2] = (x % 4) * 16 + y \div 16
      /\ Encode(s)[4 * g + 3] =
            IF 3 * g + 2 <= Len(s) THEN (y % 16) * 4 + z \div 64 ELSE Pad
      /\ Encode(s)[4 * g + 4] = IF 3 * g + 3 <= Len(s) THEN z % 64 ELSE Pad
  BY <1>2, Groups
<1> HIDE DEF x, y, z
<1>8. CASE k = 4 * g + 1
  BY <1>2, <1>5, <1>6, <1>7, <1>8, <1>g
<1>9. CASE k = 4 * g + 2
  BY <1>2, <1>5, <1>6, <1>7, <1>9, <1>g
<1>10. CASE k = 4 * g + 3
  BY <1>2, <1>5, <1>6, <1>7, <1>10, <1>g
<1>11. CASE k = 4 * g + 4
  BY <1>2, <1>5, <1>6, <1>7, <1>11, <1>g
<1> QED
  BY <1>3, <1>8, <1>9, <1>10, <1>11

LEMMA SymbolsAreCounted ==
    ASSUME NEW s \in Seq(Byte)
    PROVE  Symbols(Encode(s)) = Count(s)
<1> DEFINE t == Encode(s)
           IsFirstPad(i) == t[i] = Pad /\ \A j \in 1 .. i - 1 : t[j] # Pad
<1>1. /\ Len(s) \in Nat /\ Len(t) = ((Len(s) + 2) \div 3) * 4
      /\ DOMAIN t = 1 .. ((Len(s) + 2) \div 3) * 4
  BY EncodeShape
<1>2. Count(s) \in 0 .. Len(t)
  BY <1>1 DEF Count
<1>3. \A k \in DOMAIN t : t[k] = Pad <=> k > Count(s)
  <2> SUFFICES ASSUME NEW k \in DOMAIN t PROVE t[k] = Pad <=> k > Count(s)
    OBVIOUS
  <2>1. k \in Int /\ Count(s) \in Int
    BY <1>1, <1>2
  <2> QED
    <3>1. CASE k <= Count(s)
      <4>1. t[k] \in 0 .. 63
        BY <3>1, PadsAreLast
      <4>2. t[k] # Pad
        <5>1. \A v \in 0 .. 63 : v # Pad
          BY DEF Pad
        <5> QED
          BY <4>1, <5>1, Zenon
      <4>3. ~(k > Count(s))
        BY <2>1, <3>1
      <4> QED
        BY <4>2, <4>3
    <3>2. CASE k > Count(s)
      BY <2>1, <3>2, PadsAreLast
    <3> QED
      BY <2>1, <3>1, <3>2
<1> HIDE DEF t
<1>4. CASE Count(s) = Len(t)
  <2>1. ~ \E i \in DOMAIN t : t[i] = Pad
    BY <1>1, <1>3, <1>4
  <2> QED
    BY <2>1, <1>4 DEF Symbols, t
<1>5. CASE Count(s) < Len(t)
  <2>1. Count(s) + 1 \in DOMAIN t /\ t[Count(s) + 1] = Pad
    BY <1>1, <1>2, <1>3, <1>5
  <2>2. IsFirstPad(Count(s) + 1)
    BY <1>1, <1>2, <1>3, <2>1
  <2>3. ASSUME NEW i \in DOMAIN t, IsFirstPad(i)
        PROVE  i = Count(s) + 1
    <3>1. i > Count(s) /\ i \in Nat
      BY <2>3, <1>1, <1>3
    <3>2. ~ Count(s) + 1 \in 1 .. i - 1
      BY <2>1, <2>3
    <3> QED
      BY <3>1, <3>2, <1>1, <1>2
  <2>4. (CHOOSE i \in DOMAIN t : IsFirstPad(i)) = Count(s) + 1
    <3>1. (CHOOSE i \in DOMAIN t : IsFirstPad(i)) \in DOMAIN t
          /\ IsFirstPad(CHOOSE i \in DOMAIN t : IsFirstPad(i))
      BY <2>1, <2>2
    <3> QED
      BY <3>1, <2>3
  <2>5. Symbols(t) = (CHOOSE i \in DOMAIN t : IsFirstPad(i)) - 1
    BY <2>1 DEF Symbols
  <2>6. Symbols(t) = Count(s)
    <3>1. Symbols(t) = (Count(s) + 1) - 1
      BY <2>4, <2>5, Zenon
    <3> QED
      BY <3>1, <1>2
  <2> QED
    BY <2>6 DEF t
<1> QED
  BY <1>2, <1>1, <1>4, <1>5

(* A statement survives its encoding: base64_decode, given what            *)
(* base64_encode has made of any bytes, returns these bytes.               *)
THEOREM RoundTrip ==
    ASSUME NEW s \in Seq(Byte)
    PROVE  Decode(Encode(s)) = s
<1> DEFINE t == Encode(s)
           n == Symbols(t)
<1>1. /\ Len(s) \in Nat /\ Len(t) = ((Len(s) + 2) \div 3) * 4
      /\ DOMAIN t = 1 .. ((Len(s) + 2) \div 3) * 4
  BY EncodeShape
<1>2. n = (4 * Len(s) + 2) \div 3
  BY SymbolsAreCounted DEF Count
<1>3. ~(n % 4 = 1) /\ (3 * n) \div 4 = Len(s)
  BY <1>1, <1>2
<1> DEFINE Out(j) ==
             LET i == 4 * ((j - 1) \div 3)
             IN  CASE j % 3 = 1 -> t[i + 1] * 4 + t[i + 2] \div 16
                   [] j % 3 = 2 -> (t[i + 2] % 16) * 16 + t[i + 3] \div 4
                   [] OTHER -> (t[i + 3] % 4) * 64 + t[i + 4]
<1>4. Decode(t) = [j \in 1 .. (3 * n) \div 4 |-> Out(j)]
  BY <1>3 DEF Decode
<1>5. Decode(t) = [j \in 1 .. Len(s) |-> Out(j)]
  BY <1>3, <1>4
<1>6. ASSUME NEW j \in 1 .. Len(s)
      PROVE  Out(j) = s[j]
  <2> DEFINE g == (j - 1) \div 3
             x == At(s, 3 * g + 1)
             y == At(s, 3 * g + 2)
             z == At(s, 3 * g + 3)
  <2>1. g \in Nat /\ 3 * g < Len(s)
    BY <1>1
  <2>2. x \in Byte /\ y \in Byte /\ z \in Byte
    BY <2>1, AtIsByte
  <2>3. /\ t[4 * g + 1] = x \div 4
        /\ t[4 * g + 2] = (x % 4) * 16 + y \div 16
        /\ t[4 * g + 3] = IF 3 * g + 2 <= Len(s) THEN (y % 16) * 4 + z \div 64 ELSE Pad
        /\ t[4 * g + 4] = IF 3 * g + 3 <= Len(s) THEN z % 64 ELSE Pad
    BY <2>1, Groups
  <2>4. /\ (x \div 4) * 4 + ((x % 4) * 16 + y \div 16) \div 16 = x
        /\ (((x % 4) * 16 + y \div 16) % 16) * 16 + ((y % 16) * 4 + z \div 64) \div 4 = y
        /\ (((y % 16) * 4 + z \div 64) % 4) * 64 + (z % 64) = z
    BY <2>2, Bits
  <2>5. \/ j = 3 * g + 1 /\ j % 3 = 1
        \/ j = 3 * g + 2 /\ j % 3 = 2
        \/ j = 3 * g + 3 /\ j % 3 = 0
    BY <1>1
  <2>6. At(s, j) = s[j]
    BY DEF At
  <2>7. Out(j) = CASE j % 3 = 1 -> t[4 * g + 1] * 4 + t[4 * g + 2] \div 16
                   [] j % 3 = 2 -> (t[4 * g + 2] % 16) * 16 + t[4 * g + 3] \div 4
                   [] OTHER -> (t[4 * g + 3] % 4) * 64 + t[4 * g + 4]
    OBVIOUS
  <2>8. j <= Len(s) /\ j \in Nat
    BY <1>1
  <2> HIDE DEF g, x, y, z, Out, t
  <2>9. CASE j = 3 * g + 1 /\ j % 3 = 1
    <3>1. At(s, j) = x
      BY <2>9 DEF x
    <3>2. Out(j) = t[4 * g + 1] * 4 + t[4 * g + 2] \div 16
      BY <2>7, <2>9
    <3> QED
      BY <3>1, <3>2, <2>3, <2>4, <2>6
  <2>10. CASE j = 3 * g + 2 /\ j % 3 = 2
    <3>1. At(s, j) = y
      BY <2>10 DEF y
    <3>2. Out(j) = (t[4 * g + 2] % 16) * 16 + t[4 * g + 3] \div 4
      BY <2>7, <2>10
    <3>3. t[4 * g + 3] = (y % 16) * 4 + z \div 64
      BY <2>3, <2>8, <2>10, <2>1
    <3> QED
      BY <3>1, <3>2, <3>3, <2>3, <2>4, <2>6
  <2>11. CASE j = 3 * g + 3 /\ j % 3 = 0
    <3>1. At(s, j) = z
      BY <2>11 DEF z
    <3>2. Out(j) = (t[4 * g + 3] % 4) * 64 + t[4 * g + 4]
      BY <2>7, <2>11
    <3>3. t[4 * g + 3] = (y % 16) * 4 + z \div 64 /\ t[4 * g + 4] = z % 64
      BY <2>3, <2>8, <2>11, <2>1
    <3>4. (t[4 * g + 3] % 4) * 64 + t[4 * g + 4] = z
      BY <3>3, <2>4
    <3> QED
      BY <3>1, <3>2, <3>4, <2>6
  <2> QED
    BY <2>5, <2>9, <2>10, <2>11
<1>7. s = [j \in 1 .. Len(s) |-> s[j]]
  OBVIOUS
<1> QED
  BY <1>5, <1>6, <1>7
-----------------------------------------------------------------------------
(* Induction and recursion                                                 *)

LEMMA Least ==
    ASSUME NEW T \in SUBSET Nat, T # {}
    PROVE  \E i \in T : \A j \in T : i <= j
<1>1. PICK i \in T : \A j \in T : ~(<<j, i>> \in OpToRel(<, Nat))
  BY NatLessThanWellFounded, WFMin
<1>2. \A j \in T : ~(j < i)
  BY <1>1 DEF OpToRel
<1> QED  BY <1>2

(* Induction over the set of the numbers that have a property.             *)
LEMMA Induction ==
    ASSUME NEW P \in SUBSET Nat, 0 \in P, \A n \in P : n + 1 \in P
    PROVE  P = Nat
<1>1. SUFFICES ASSUME Nat \ P # {} PROVE FALSE
  OBVIOUS
<1>2. PICK k \in Nat \ P : \A j \in Nat \ P : k <= j
  BY <1>1, Least
<1>3. k - 1 \in P
  BY <1>2
<1> QED  BY <1>2, <1>3

(* A function is determined by its value at 0 and what each step makes of  *)
(* the value before it.                                                    *)
AreSteps(step, n, V) == \A i \in 1 .. n : \A v \in V : step[i][v] \in V
Follows(f, b, step, n) == f[0] = b /\ \A i \in 1 .. n : f[i] = step[i][f[i - 1]]

LEMMA Recursion ==
    ASSUME NEW V, NEW b \in V, NEW n \in Nat, NEW step, AreSteps(step, n, V)
    PROVE  \E f \in [0 .. n -> V] : Follows(f, b, step, n)
<1> DEFINE Fine(f, k) == f \in [0 .. k -> V] /\ Follows(f, b, step, k)
           P == {k \in Nat : k <= n => \E f : Fine(f, k)}
<1>1. 0 \in P
  <2>1. Fine([i \in 0 .. 0 |-> b], 0)
    BY DEF Follows
  <2> QED  BY <2>1
<1>2. ASSUME NEW k \in P PROVE k + 1 \in P
  <2>1. SUFFICES ASSUME k + 1 <= n PROVE \E f : Fine(f, k + 1)
    OBVIOUS
  <2>2. PICK f : Fine(f, k)
    BY <2>1
  <2> DEFINE v == step[k + 1][f[k]]
             g == [i \in 0 .. k + 1 |-> IF i = k + 1 THEN v ELSE f[i]]
  <2>3. f[k] \in V /\ k + 1 \in 1 .. n
    BY <2>1, <2>2
  <2>4. v \in V
    BY <2>3 DEF AreSteps
  <2>5. g \in [0 .. k + 1 -> V] /\ g[0] = b
    BY <2>2, <2>4 DEF Follows
  <2>6. ASSUME NEW i \in 1 .. k + 1 PROVE g[i] = step[i][g[i - 1]]
    <3>1. CASE i = k + 1
      <4>1. g[i] = v /\ g[i - 1] = f[k]
        BY <3>1
      <4> QED  BY <3>1, <4>1
    <3>2. CASE i # k + 1
      <4>1. g[i] = f[i] /\ g[i - 1] = f[i - 1] /\ i \in 1 .. k
        BY <3>2
      <4> QED  BY <2>2, <4>1 DEF Follows
    <3> QED  BY <3>1, <3>2
  <2> QED  BY <2>5, <2>6 DEF Follows
<1> HIDE DEF P
<1>3. P = Nat
  BY <1>1, <1>2, Induction DEF P
<1> QED  BY <1>3 DEF P

(* Two functions that begin alike and go on by the same step are alike.    *)
LEMMA SameRecursion ==
    ASSUME NEW n \in Nat, NEW f, NEW g, f[0] = g[0],
           \A i \in 1 .. n : f[i - 1] = g[i - 1] => f[i] = g[i]
    PROVE  \A i \in 0 .. n : f[i] = g[i]
<1> DEFINE P == {k \in Nat : k <= n => f[k] = g[k]}
<1>1. 0 \in P
  OBVIOUS
<1>2. ASSUME NEW k \in P PROVE k + 1 \in P
  <2>1. SUFFICES ASSUME k + 1 <= n PROVE f[k + 1] = g[k + 1]
    OBVIOUS
  <2>2. k + 1 \in 1 .. n /\ f[(k + 1) - 1] = g[(k + 1) - 1]
    BY <2>1
  <2> QED  BY <2>2
<1> HIDE DEF P
<1>3. P = Nat
  BY <1>1, <1>2, Induction DEF P
<1> QED  BY <1>3 DEF P

-----------------------------------------------------------------------------
(* FlattenSeq                                                              *)

IsFlattening(f, s) ==
    f = [i \in 1 .. Len(s) |-> IF i = 1 THEN s[i] ELSE f[i - 1] \o s[i]]

LEMMA FlatteningBegins ==
    ASSUME NEW s, NEW f, IsFlattening(f, s), NEW n \in Nat \ {0}, Len(s) = n
    PROVE  f[1] = s[1]
<1>1. 1 \in 1 .. n
  OBVIOUS
<1> QED  BY <1>1 DEF IsFlattening

LEMMA FlatteningSteps ==
    ASSUME NEW s, NEW f, IsFlattening(f, s), NEW n \in Nat, Len(s) = n
    PROVE  \A i \in 1 .. n - 1 : f[i + 1] = f[i] \o s[i + 1]
<1>1. \A i \in 1 .. n : f[i] = IF i = 1 THEN s[i] ELSE f[i - 1] \o s[i]
  BY DEF IsFlattening
<1>2. ASSUME NEW i \in 1 .. n - 1 PROVE f[i + 1] = f[i] \o s[i + 1]
  <2>1. i + 1 \in 1 .. n /\ (i + 1) - 1 = i /\ i + 1 # 1
    OBVIOUS
  <2> QED  BY <1>1, <2>1
<1> QED  BY <1>2

LEMMA FlatteningExists ==
    ASSUME NEW T, NEW s \in Seq(Seq(T))
    PROVE  \E f : IsFlattening(f, s)
<1> DEFINE n == Len(s)
           V == Seq(T)
           step == [i \in 1 .. n |-> [v \in V |-> v \o s[i]]]
<1>1. n \in Nat /\ (\A i \in 1 .. n : s[i] \in V) /\ <<>> \in V
  OBVIOUS
<1>2. ASSUME NEW i \in 1 .. n, NEW v \in V PROVE step[i][v] = v \o s[i] /\ v \o s[i] \in V
  <2>1. s[i] \in Seq(T)
    BY <1>1
  <2> QED  BY <2>1
<1> HIDE DEF n, V, step
<1>3. AreSteps(step, n, V)
  BY <1>2 DEF AreSteps
<1>4. PICK f \in [0 .. n -> V] : Follows(f, <<>>, step, n)
  BY <1>1, <1>3, Recursion
<1>5. f[0] = <<>> /\ \A i \in 1 .. n : f[i - 1] \in V /\ f[i] = f[i - 1] \o s[i]
  <2>1. \A i \in 1 .. n : i - 1 \in 0 .. n
    BY <1>1
  <2> QED  BY <1>1, <1>2, <1>4, <2>1 DEF Follows
<1> DEFINE g == [i \in 1 .. n |-> f[i]]
<1>6. ASSUME NEW i \in 1 .. n PROVE g[i] = IF i = 1 THEN s[i] ELSE g[i - 1] \o s[i]
  <2>1. CASE i = 1
    <3>1. 1 \in 1 .. n /\ 1 - 1 = 0
      BY <1>1, <2>1
    <3>2. f[1] = <<>> \o s[1] /\ s[1] \in Seq(T)
      BY <1>1, <1>5, <3>1 DEF V
    <3>3. f[1] = s[1]
      BY <3>2
    <3> QED  BY <2>1, <3>3
  <2>2. CASE i # 1
    <3>1. i - 1 \in 1 .. n
      BY <1>1, <2>2
    <3> QED  BY <1>5, <2>2, <3>1
  <2> QED  BY <2>1, <2>2
<1>7. IsFlattening(g, s)
  BY <1>6 DEF IsFlattening, n
<1> QED  BY <1>7

LEMMA FlattensToLast ==
    ASSUME NEW T, NEW s \in Seq(Seq(T)), NEW n \in Nat \ {0}, Len(s) = n
    PROVE  \E f : IsFlattening(f, s) /\ FlattenSeq(s) = f[n] /\ \A i \in 1 .. n : f[i] \in Seq(T)
<1> DEFINE h == CHOOSE h : IsFlattening(h, s)
<1>1. IsFlattening(h, s)
  BY FlatteningExists
<1>2. FlattenSeq(s) = h[n]
  BY DEF FlattenSeq, IsFlattening
<1>3. \A i \in 1 .. n : s[i] \in Seq(T)
  OBVIOUS
<1> HIDE DEF h
<1> DEFINE P == {k \in Nat : k + 1 <= n => h[k + 1] \in Seq(T)}
<1>4. 0 \in P
  <2>1. h[1] = s[1] /\ s[1] \in Seq(T)
    BY <1>1, <1>3, FlatteningBegins
  <2> QED  BY <2>1
<1>5. ASSUME NEW k \in P PROVE k + 1 \in P
  <2>1. SUFFICES ASSUME (k + 1) + 1 <= n PROVE h[(k + 1) + 1] \in Seq(T)
    OBVIOUS
  <2>2. k + 1 \in 1 .. n - 1 /\ h[k + 1] \in Seq(T) /\ s[(k + 1) + 1] \in Seq(T)
    BY <1>3, <2>1
  <2>3. h[(k + 1) + 1] = h[k + 1] \o s[(k + 1) + 1]
    BY <1>1, <2>2, FlatteningSteps
  <2> QED  BY <2>2, <2>3
<1> HIDE DEF P
<1>6. P = Nat
  BY <1>4, <1>5, Induction DEF P
<1>7. ASSUME NEW i \in 1 .. n PROVE h[i] \in Seq(T)
  <2>1. i - 1 \in P /\ (i - 1) + 1 = i
    BY <1>6
  <2> QED  BY <2>1 DEF P
<1> QED  BY <1>1, <1>2, <1>7

LEMMA FlattenEmpty == FlattenSeq(<<>>) = <<>>
  BY DEF FlattenSeq

LEMMA FlattenType ==
    ASSUME NEW T, NEW s \in Seq(Seq(T))
    PROVE  FlattenSeq(s) \in Seq(T)
<1>1. CASE s = <<>>
  BY <1>1, FlattenEmpty, EmptySeq
<1>2. CASE s # <<>>
  <2>1. Len(s) \in Nat \ {0}
    BY <1>2
  <2>2. \E f : FlattenSeq(s) = f[Len(s)] /\ \A i \in 1 .. Len(s) : f[i] \in Seq(T)
    BY <2>1, FlattensToLast
  <2> QED  BY <2>1, <2>2
<1> QED  BY <1>1, <1>2

LEMMA FlattenAppend ==
    ASSUME NEW T, NEW s \in Seq(Seq(T)), NEW x \in Seq(T)
    PROVE  FlattenSeq(Append(s, x)) = FlattenSeq(s) \o x
<1>1. PICK t : t = Append(s, x)
  OBVIOUS
<1>2. PICK n : n = Len(s)
  OBVIOUS
<1>3. /\ n \in Nat /\ n + 1 \in Nat \ {0} /\ t \in Seq(Seq(T)) /\ Len(t) = n + 1
      /\ t[n + 1] = x /\ \A i \in 1 .. n : t[i] = s[i]
  <2>1. Seq(T) # {} /\ \A V : s \in Seq(V) /\ x \in V => t \in Seq(V)
    BY <1>1
  <2> QED  BY <1>1, <1>2, <2>1
<1>4. PICK g : IsFlattening(g, t) /\ FlattenSeq(t) = g[n + 1]
  BY <1>3, FlattensToLast
<1>5. CASE n = 0
  <2>1. g[1] = t[1]
    BY <1>3, <1>4, FlatteningBegins
  <2>3. FlattenSeq(t) = x
    BY <1>3, <1>4, <1>5, <2>1
  <2>2. s = <<>>
    BY <1>2, <1>5, EmptySeq
  <2> QED  BY <1>1, <2>2, <2>3, FlattenEmpty
<1>6. CASE n # 0
  <2>1. n \in Nat \ {0} /\ Len(s) = n
    BY <1>2, <1>3, <1>6
  <2>2. PICK f : IsFlattening(f, s) /\ FlattenSeq(s) = f[n]
    BY <2>1, FlattensToLast
  <2>3. f[1] = g[1]
    <3>1. f[1] = s[1]
      BY <2>1, <2>2, FlatteningBegins
    <3>2. g[1] = t[1]
      BY <1>3, <1>4, FlatteningBegins
    <3> QED  BY <1>3, <2>1, <3>1, <3>2
  <2>4. ASSUME NEW i \in 1 .. n - 1, f[i] = g[i] PROVE f[i + 1] = g[i + 1]
    <3>1. f[i + 1] = f[i] \o s[i + 1]
      BY <2>1, <2>2, FlatteningSteps
    <3>2. g[i + 1] = g[i] \o t[i + 1]
      <4>1. i \in 1 .. (n + 1) - 1
        BY <1>3
      <4> QED  BY <1>3, <1>4, <4>1, FlatteningSteps
    <3>3. t[i + 1] = s[i + 1]
      BY <1>3
    <3> QED  BY <2>4, <3>1, <3>2, <3>3
  <2> DEFINE P == {k \in Nat : k + 1 <= n => f[k + 1] = g[k + 1]}
  <2>5. 0 \in P
    BY <2>3
  <2>6. ASSUME NEW k \in P PROVE k + 1 \in P
    <3>1. SUFFICES ASSUME (k + 1) + 1 <= n PROVE f[(k + 1) + 1] = g[(k + 1) + 1]
      OBVIOUS
    <3>2. k + 1 \in 1 .. n - 1 /\ f[k + 1] = g[k + 1]
      BY <1>3, <3>1
    <3> QED  BY <2>4, <3>2
  <2> HIDE DEF P
  <2>7. P = Nat
    BY <2>5, <2>6, Induction DEF P
  <2>8. f[n] = g[n]
    <3>1. n - 1 \in P /\ (n - 1) + 1 = n
      BY <2>1, <2>7
    <3> QED  BY <2>1, <3>1 DEF P
  <2>9. g[n + 1] = g[n] \o t[n + 1]
    <3>1. n \in 1 .. (n + 1) - 1
      BY <2>1
    <3> QED  BY <1>3, <1>4, <3>1, FlatteningSteps
  <2> QED  BY <1>1, <1>3, <1>4, <2>2, <2>8, <2>9
<1> QED  BY <1>5, <1>6

(* Induction over the set of the sequences that have a property.           *)
LEMMA AppendInduction ==
    ASSUME NEW S, NEW P \in SUBSET Seq(S), <<>> \in P,
           \A q \in P : \A x \in S : Append(q, x) \in P
    PROVE  P = Seq(S)
<1> DEFINE N == {n \in Nat : \A q \in Seq(S) : Len(q) = n => q \in P}
<1>1. 0 \in N
  BY EmptySeq
<1>2. ASSUME NEW n \in N PROVE n + 1 \in N
  <2>1. SUFFICES ASSUME NEW q \in Seq(S), Len(q) = n + 1 PROVE q \in P
    OBVIOUS
  <2>2. PICK front : front = SubSeq(q, 1, n)
    OBVIOUS
  <2>3. front \in Seq(S) /\ Len(front) = n /\ q[n + 1] \in S /\ q = Append(front, q[n + 1])
    <3>1. \A i \in 1 .. n + 1 : q[i] \in S
      BY <2>1
    <3>2. front \in Seq(S) /\ Len(front) = n /\ \A i \in 1 .. n : front[i] = q[i]
      BY <2>1, <2>2
    <3>3. PICK a : a = Append(front, q[n + 1])
      OBVIOUS
    <3>4. /\ a \in Seq(S) /\ Len(a) = n + 1 /\ a[n + 1] = q[n + 1]
          /\ \A i \in 1 .. n : a[i] = front[i]
      BY <3>1, <3>2, <3>3
    <3>5. ASSUME NEW i \in 1 .. n + 1 PROVE a[i] = q[i]
      <4>1. i \in 1 .. n \/ i = n + 1
        OBVIOUS
      <4> QED  BY <3>2, <3>4, <4>1
    <3>6. a = q
      BY <2>1, <3>4, <3>5, SeqEqual
    <3> QED  BY <3>1, <3>2, <3>3, <3>6
  <2> QED  BY <2>3
<1> HIDE DEF N
<1>3. N = Nat
  BY <1>1, <1>2, Induction DEF N
<1>4. \A q \in Seq(S) : Len(q) \in N
  BY <1>3
<1> QED  BY <1>4 DEF N

LEMMA IsAppended ==
    ASSUME NEW T, NEW q \in Seq(T), NEW x \in T, NEW n \in Nat, Len(q) = n,
           NEW t \in [1 .. n + 1 -> T], t[n + 1] = x, \A i \in 1 .. n : t[i] = q[i]
    PROVE  t = Append(q, x)
<1>1. PICK a : a = Append(q, x)
  OBVIOUS
<1>2. /\ a \in Seq(T) /\ Len(a) = n + 1 /\ a[n + 1] = x
      /\ \A i \in 1 .. n : a[i] = q[i]
  BY <1>1
<1>3. ASSUME NEW i \in 1 .. n + 1 PROVE a[i] = t[i]
  <2>1. i \in 1 .. n \/ i = n + 1
    OBVIOUS
  <2> QED  BY <1>2, <2>1
<1>5. t \in Seq(T) /\ Len(t) = n + 1
  OBVIOUS
<1>6. t = a
  BY <1>2, <1>3, <1>5, SeqEqual
<1> QED  BY <1>1, <1>6

LEMMA FlattenOne ==
    ASSUME NEW T, NEW x \in Seq(T)
    PROVE  FlattenSeq(<<x>>) = x
<1>1. <<>> \in Seq(Seq(T)) /\ Append(<<>>, x) = <<x>> /\ <<>> \o x = x
  OBVIOUS
<1> QED  BY <1>1, FlattenAppend, FlattenEmpty

LEMMA FlattenConcat ==
    ASSUME NEW T, NEW s \in Seq(Seq(T)), NEW t \in Seq(Seq(T))
    PROVE  FlattenSeq(s \o t) = FlattenSeq(s) \o FlattenSeq(t)
<1> DEFINE S == Seq(T)
           P == {q \in Seq(S) : FlattenSeq(s \o q) = FlattenSeq(s) \o FlattenSeq(q)}
<1>1. <<>> \in P
  <2>1. s \o <<>> = s /\ FlattenSeq(s) \in Seq(T)
    BY FlattenType
  <2>2. FlattenSeq(s) \o <<>> = FlattenSeq(s)
    BY <2>1
  <2> QED  BY <2>1, <2>2, FlattenEmpty
<1>2. ASSUME NEW q \in P, NEW x \in S PROVE Append(q, x) \in P
  <2>1. q \in Seq(Seq(T)) /\ x \in Seq(T) /\ Append(q, x) \in Seq(S) /\ s \o q \in Seq(Seq(T))
    OBVIOUS
  <2>2. s \o Append(q, x) = Append(s \o q, x)
    BY <2>1
  <2>3. FlattenSeq(s \o Append(q, x)) = FlattenSeq(s \o q) \o x
    BY <2>1, <2>2, FlattenAppend
  <2>4. FlattenSeq(Append(q, x)) = FlattenSeq(q) \o x
    BY <2>1, FlattenAppend
  <2>5. FlattenSeq(s) \in Seq(T) /\ FlattenSeq(q) \in Seq(T)
    BY <2>1, FlattenType
  <2>6. (FlattenSeq(s) \o FlattenSeq(q)) \o x = FlattenSeq(s) \o (FlattenSeq(q) \o x)
    BY <2>1, <2>5, ConcatAssociative, SMTT(30)
  <2> QED  BY <2>1, <2>3, <2>4, <2>6
<1> HIDE DEF P
<1>3. P = Seq(S)
  BY <1>1, <1>2, AppendInduction DEF P
<1> QED  BY <1>3 DEF P

(* One sequence for each place of another, by what was in that place.      *)
LEMMA FlattenSingles ==
    ASSUME NEW T, NEW s \in Seq(T)
    PROVE  FlattenSeq([i \in DOMAIN s |-> <<s[i]>>]) = s
<1> DEFINE Singles(q) == [i \in DOMAIN q |-> <<q[i]>>]
           P == {q \in Seq(T) : FlattenSeq(Singles(q)) = q}
<1>1. <<>> \in P
  <2>1. Singles(<<>>) = <<>>
    OBVIOUS
  <2> QED  BY <2>1, FlattenEmpty
<1>2. ASSUME NEW q \in P, NEW x \in T PROVE Append(q, x) \in P
  <2>1. PICK n : n = Len(q)
    OBVIOUS
  <2>2. PICK a, t : a = Singles(q) /\ t = Singles(Append(q, x))
    OBVIOUS
  <2>3. /\ n \in Nat /\ DOMAIN q = 1 .. n /\ DOMAIN Append(q, x) = 1 .. n + 1
        /\ Append(q, x)[n + 1] = x /\ \A i \in 1 .. n : Append(q, x)[i] = q[i] /\ q[i] \in T
    BY <2>1
  <2>4. a \in Seq(Seq(T)) /\ Len(a) = n /\ <<x>> \in Seq(T)
    <3>1. a \in [1 .. n -> Seq(T)]
      BY <2>2, <2>3
    <3> QED  BY <2>3, <3>1
  <2>5. t \in [1 .. n + 1 -> Seq(T)] /\ t[n + 1] = <<x>> /\ \A i \in 1 .. n : t[i] = a[i]
    BY <2>2, <2>3
  <2>6. t = Append(a, <<x>>)
    BY <2>3, <2>4, <2>5, IsAppended
  <2>7. FlattenSeq(t) = FlattenSeq(a) \o <<x>>
    BY <2>4, <2>6, FlattenAppend
  <2>8. Append(q, x) \in Seq(T) /\ Append(q, x) = q \o <<x>> /\ FlattenSeq(Singles(q)) = q
    BY AppendIsConcat
  <2> QED  BY <2>2, <2>7, <2>8
<1> HIDE DEF P
<1>3. P = Seq(T)
  BY <1>1, <1>2, AppendInduction DEF P
<1> QED  BY <1>3 DEF P

-----------------------------------------------------------------------------
(* PairsReplaced                                                           *)

(* becomes makes tokens of T.                                              *)
Becomes(becomes, T) == \A x \in DOMAIN becomes : becomes[x] \in T

IsPass(f, q, becomes) ==
    f = [n \in 0 .. Len(q) |-> IF n = 0 THEN <<>> ELSE Joined(f[n - 1], q[n], becomes)]

LEMMA JoinedType ==
    ASSUME NEW T, NEW done \in Seq(T), NEW x \in T, NEW becomes, Becomes(becomes, T)
    PROVE  Joined(done, x, becomes) \in Seq(T)
<1>1. CASE x \in DOMAIN becomes /\ done # <<>> /\ Last(done) = "%"
  <2>1. becomes[x] \in T /\ Front(done) \in Seq(T)
    BY <1>1 DEF Becomes, Front
  <2> QED  BY <1>1, <2>1 DEF Joined
<1>2. CASE ~(x \in DOMAIN becomes /\ done # <<>> /\ Last(done) = "%")
  BY <1>2 DEF Joined
<1> QED  BY <1>1, <1>2

LEMMA PassExists ==
    ASSUME NEW T, NEW q \in Seq(T), NEW becomes, Becomes(becomes, T)
    PROVE  \E f : IsPass(f, q, becomes)
<1> DEFINE n == Len(q)
           V == Seq(T)
           step == [i \in 1 .. n |-> [v \in V |-> Joined(v, q[i], becomes)]]
<1>1. n \in Nat /\ (\A i \in 1 .. n : q[i] \in T) /\ <<>> \in V
  OBVIOUS
<1>2. ASSUME NEW i \in 1 .. n, NEW v \in V
      PROVE  step[i][v] = Joined(v, q[i], becomes) /\ Joined(v, q[i], becomes) \in V
  BY <1>1, JoinedType
<1> HIDE DEF n, V, step
<1>3. AreSteps(step, n, V)
  BY <1>2 DEF AreSteps
<1>4. PICK f \in [0 .. n -> V] : Follows(f, <<>>, step, n)
  BY <1>1, <1>3, Recursion
<1>5. f[0] = <<>> /\ \A i \in 1 .. n : f[i] = Joined(f[i - 1], q[i], becomes)
  <2>1. \A i \in 1 .. n : i - 1 \in 0 .. n
    BY <1>1
  <2> QED  BY <1>1, <1>2, <1>4, <2>1 DEF Follows
<1>6. ASSUME NEW i \in 0 .. n
      PROVE  f[i] = IF i = 0 THEN <<>> ELSE Joined(f[i - 1], q[i], becomes)
  <2>1. i = 0 \/ i \in 1 .. n
    BY <1>1
  <2> QED  BY <1>1, <1>5, <2>1
<1>7. IsPass(f, q, becomes)
  BY <1>1, <1>6 DEF IsPass, n
<1> QED  BY <1>7

LEMMA PassSteps ==
    ASSUME NEW q, NEW becomes, NEW f, IsPass(f, q, becomes), NEW n \in Nat, Len(q) = n
    PROVE  /\ f[0] = <<>>
           /\ \A i \in 1 .. n : f[i] = Joined(f[i - 1], q[i], becomes)
<1>1. \A i \in 0 .. n : f[i] = IF i = 0 THEN <<>> ELSE Joined(f[i - 1], q[i], becomes)
  BY DEF IsPass
<1> QED  BY <1>1

LEMMA PassIs ==
    ASSUME NEW T, NEW q \in Seq(T), NEW becomes, Becomes(becomes, T), NEW n \in Nat, Len(q) = n
    PROVE  \E f : /\ IsPass(f, q, becomes) /\ PairsReplaced(q, becomes) = f[n]
                  /\ \A i \in 0 .. n : f[i] \in Seq(T)
<1> DEFINE h == CHOOSE h : IsPass(h, q, becomes)
<1>1. IsPass(h, q, becomes)
  BY PassExists
<1>2. PairsReplaced(q, becomes) = h[n]
  BY DEF PairsReplaced, IsPass
<1> HIDE DEF h
<1>3. h[0] = <<>> /\ \A i \in 1 .. n : h[i] = Joined(h[i - 1], q[i], becomes)
  BY <1>1, PassSteps
<1> DEFINE P == {k \in Nat : k <= n => h[k] \in Seq(T)}
<1>4. 0 \in P
  <2>1. <<>> \in Seq(T)
    BY EmptySeq
  <2> QED  BY <1>3, <2>1
<1>5. ASSUME NEW k \in P PROVE k + 1 \in P
  <2>1. SUFFICES ASSUME k + 1 <= n PROVE h[k + 1] \in Seq(T)
    OBVIOUS
  <2>2. k + 1 \in 1 .. n /\ (k + 1) - 1 = k /\ h[k] \in Seq(T) /\ q[k + 1] \in T
    BY <2>1
  <2>3. h[k + 1] = Joined(h[k], q[k + 1], becomes)
    BY <1>3, <2>2
  <2> QED  BY <2>2, <2>3, JoinedType
<1> HIDE DEF P
<1>6. P = Nat
  BY <1>4, <1>5, Induction DEF P
<1>7. \A i \in 0 .. n : h[i] \in Seq(T)
  BY <1>6 DEF P
<1> QED  BY <1>1, <1>2, <1>7

LEMMA PairsType ==
    ASSUME NEW T, NEW q \in Seq(T), NEW becomes, Becomes(becomes, T)
    PROVE  PairsReplaced(q, becomes) \in Seq(T)
<1>1. PICK n : n = Len(q)
  OBVIOUS
<1>2. n \in Nat /\ n \in 0 .. n
  BY <1>1
<1>3. PICK f : PairsReplaced(q, becomes) = f[n] /\ \A i \in 0 .. n : f[i] \in Seq(T)
  BY <1>1, <1>2, PassIs
<1> QED  BY <1>2, <1>3

LEMMA PairsEmpty ==
    ASSUME NEW becomes
    PROVE  PairsReplaced(<<>>, becomes) = <<>>
<1> DEFINE T == {becomes[x] : x \in DOMAIN becomes}
<1>1. PICK q : q = <<>>
  OBVIOUS
<1>2. Becomes(becomes, T)
  BY DEF Becomes
<1> HIDE DEF T
<1>3. q \in Seq(T) /\ Len(q) = 0 /\ 0 \in Nat
  BY <1>1, EmptySeq
<1>4. PICK f : /\ IsPass(f, q, becomes) /\ PairsReplaced(q, becomes) = f[0]
               /\ \A i \in 0 .. 0 : f[i] \in Seq(T)
  BY <1>2, <1>3, PassIs, ZenonT(60)
<1>5. f[0] = <<>>
  BY <1>3, <1>4, PassSteps
<1> QED  BY <1>1, <1>4, <1>5

LEMMA PairsAppend ==
    ASSUME NEW T, NEW q \in Seq(T), NEW x \in T, NEW becomes, Becomes(becomes, T)
    PROVE  PairsReplaced(Append(q, x), becomes) = Joined(PairsReplaced(q, becomes), x, becomes)
<1>1. PICK n, t : n = Len(q) /\ t = Append(q, x)
  OBVIOUS
<1>2. /\ n \in Nat /\ n + 1 \in Nat /\ t \in Seq(T) /\ Len(t) = n + 1 /\ t[n + 1] = x
      /\ \A i \in 1 .. n : t[i] = q[i]
  BY <1>1
<1>3. PICK f : IsPass(f, q, becomes) /\ PairsReplaced(q, becomes) = f[n]
  BY <1>1, <1>2, PassIs
<1>4. PICK g : IsPass(g, t, becomes) /\ PairsReplaced(t, becomes) = g[n + 1]
  BY <1>2, PassIs
<1>5. f[0] = <<>> /\ \A i \in 1 .. n : f[i] = Joined(f[i - 1], q[i], becomes)
  BY <1>1, <1>2, <1>3, PassSteps
<1>6. g[0] = <<>> /\ \A i \in 1 .. n + 1 : g[i] = Joined(g[i - 1], t[i], becomes)
  BY <1>2, <1>4, PassSteps
<1>7. ASSUME NEW i \in 1 .. n, f[i - 1] = g[i - 1] PROVE f[i] = g[i]
  <2>1. i \in 1 .. n + 1
    BY <1>2
  <2> QED  BY <1>2, <1>5, <1>6, <1>7, <2>1
<1>8. f[n] = g[n]
  <2>1. n \in 0 .. n /\ f[0] = g[0]
    BY <1>2, <1>5, <1>6
  <2>2. n \in Nat
    BY <1>2
  <2>3. \A i \in 1 .. n : f[i - 1] = g[i - 1] => f[i] = g[i]
    BY <1>7
  <2>4. f[0] = g[0]
    BY <2>1
  <2>5. \A i \in 0 .. n : f[i] = g[i]
    BY <2>3, <2>4, <2>2, SameRecursion, SMTT(30)
  <2> QED  BY <2>1, <2>5
<1>9. g[n + 1] = Joined(g[n], x, becomes)
  <2>1. n + 1 \in 1 .. n + 1 /\ (n + 1) - 1 = n
    BY <1>2
  <2> QED  BY <1>2, <1>6, <2>1
<1> QED  BY <1>1, <1>3, <1>4, <1>8, <1>9

-----------------------------------------------------------------------------
(* The text that execute() makes is the text that is meant                 *)

LEMMA AppendEnds ==
    ASSUME NEW T, NEW s \in Seq(T), NEW x \in T
    PROVE  /\ Append(s, x) \in Seq(T) /\ Append(s, x) # <<>>
           /\ Last(Append(s, x)) = x /\ Front(Append(s, x)) = s
           /\ Len(Append(s, x)) = Len(s) + 1
           /\ \A i \in 1 .. Len(s) : Append(s, x)[i] = s[i]
<1>1. PICK a, n : a = Append(s, x) /\ n = Len(s)
  OBVIOUS
<1>2. /\ a \in Seq(T) /\ Len(a) = n + 1 /\ a[n + 1] = x /\ n \in Nat
      /\ \A i \in 1 .. n : a[i] = s[i] /\ s[i] \in T
  BY <1>1
<1>3. a # <<>>
  BY <1>2
<1>4. PICK f : f = SubSeq(a, 1, n)
  OBVIOUS
<1>5. f \in Seq(T) /\ Len(f) = n /\ \A i \in 1 .. n : f[i] = a[i]
  BY <1>2, <1>4
<1>6. f = s
  BY <1>1, <1>2, <1>5, SeqEqual
<1>7. Last(a) = x /\ Front(a) = s
  BY <1>2, <1>4, <1>6 DEF Last, Front
<1> QED  BY <1>1, <1>2, <1>3, <1>7

LEMMA FrontAndLast ==
    ASSUME NEW T, NEW s \in Seq(T), s # <<>>
    PROVE  /\ Front(s) \in Seq(T) /\ Last(s) \in T /\ s = Append(Front(s), Last(s))
           /\ Len(s) \in Nat /\ Len(Front(s)) = Len(s) - 1
           /\ \A i \in 1 .. Len(s) - 1 : Front(s)[i] = s[i]
<1>1. PICK f, x, n : f = Front(s) /\ x = Last(s) /\ n = Len(s) - 1
  OBVIOUS
<1>2. /\ n \in Nat /\ Len(s) = n + 1 /\ x = s[n + 1] /\ f = SubSeq(s, 1, n)
      /\ \A i \in 1 .. n + 1 : s[i] \in T
  BY <1>1, EmptySeq DEF Last, Front
<1>3. f \in Seq(T) /\ Len(f) = n /\ \A i \in 1 .. n : f[i] = s[i]
  BY <1>2
<1>4. x \in T /\ s \in [1 .. n + 1 -> T]
  BY <1>2
<1>5. s = Append(f, x)
  BY <1>2, <1>3, <1>4, IsAppended
<1> QED  BY <1>1, <1>2, <1>3, <1>4, <1>5

EndsInPercent(s) == s # <<>> /\ Last(s) = "%"

LEMMA JoinedIs ==
    ASSUME NEW done, NEW x, NEW becomes
    PROVE  /\ x \in DOMAIN becomes /\ EndsInPercent(done) =>
                 Joined(done, x, becomes) = Append(Front(done), becomes[x])
           /\ ~(x \in DOMAIN becomes /\ EndsInPercent(done)) =>
                 Joined(done, x, becomes) = Append(done, x)
<1>1. CASE x \in DOMAIN becomes /\ EndsInPercent(done)
  BY <1>1 DEF Joined, EndsInPercent
<1>2. CASE ~(x \in DOMAIN becomes /\ EndsInPercent(done))
  BY <1>2 DEF Joined, EndsInPercent
<1> QED  BY <1>1, <1>2

(* Tokens, and the escaped percent sign that there is none of before.      *)
Tok == ToSet(Tokens)
Toks == Tok \union {"%%"}

LEMMA TokIs ==
    /\ Tok = {"%", "?", "a", "x", "'", "(", ",", ")", "%(a)s", "%(b)s", ":a", ":b"}
    /\ "%%" \notin Tok /\ Tok \subseteq Toks
<1>1. /\ DOMAIN Tokens = 1 .. 12
      /\ Tokens[1] = "%" /\ Tokens[2] = "?" /\ Tokens[3] = "a" /\ Tokens[4] = "x"
      /\ Tokens[5] = "'" /\ Tokens[6] = "(" /\ Tokens[7] = "," /\ Tokens[8] = ")"
      /\ Tokens[9] = "%(a)s" /\ Tokens[10] = "%(b)s" /\ Tokens[11] = ":a"
      /\ Tokens[12] = ":b"
  BY DEF Tokens
<1>2. Tok = {Tokens[i] : i \in 1 .. 12}
  BY <1>1 DEF Tok, ToSet
<1>3. 1 .. 12 = {1, 2, 3, 4, 5, 6, 7, 8, 9, 10, 11, 12}
  OBVIOUS
<1>4. Tok = {"%", "?", "a", "x", "'", "(", ",", ")", "%(a)s", "%(b)s", ":a", ":b"}
  <2>1. /\ 1 \in 1 .. 12 /\ 2 \in 1 .. 12 /\ 3 \in 1 .. 12 /\ 4 \in 1 .. 12 /\ 5 \in 1 .. 12
        /\ 6 \in 1 .. 12 /\ 7 \in 1 .. 12 /\ 8 \in 1 .. 12 /\ 9 \in 1 .. 12
        /\ 10 \in 1 .. 12 /\ 11 \in 1 .. 12 /\ 12 \in 1 .. 12
    OBVIOUS
  <2>2. ASSUME NEW t
        PROVE  t \in Tok <=> t \in {"%", "?", "a", "x", "'", "(", ",", ")",
                                    "%(a)s", "%(b)s", ":a", ":b"}
    <3>1. t \in Tok <=> \E i \in 1 .. 12 : t = Tokens[i]
      BY <1>2
    <3> QED  BY <1>1, <1>3, <2>1, <3>1, ZenonT(60)
  <2> QED  BY <2>2
<1> QED  BY <1>4 DEF Toks

LEMMA TablesAre ==
    /\ Becomes(Format, Toks) /\ DOMAIN Format = {"a"} /\ Format["a"] = "?"
    /\ Becomes(Escape, Toks) /\ DOMAIN Escape = {"%"} /\ Escape["%"] = "%%"
    /\ Becomes(Pair, Toks) /\ DOMAIN Pair = {"%", "a"} /\ Pair["%"] = "%%" /\ Pair["a"] = "?"
<1>1. DOMAIN Format = {"a"} /\ Format["a"] = "?"
  BY DEF Format
<1>2. DOMAIN Escape = {"%"} /\ Escape["%"] = "%%"
  BY DEF Escape
<1>3. DOMAIN Pair = {"%", "a"} /\ Pair["%"] = "%%" /\ Pair["a"] = "?"
  BY DEF Pair
<1> QED  BY <1>1, <1>2, <1>3, TokIs DEF Becomes, Toks

(* No escaped percent sign stands before a letter.                         *)
Unescapable(r) == \A i \in 1 .. Len(r) - 1 : r[i] = "%%" => r[i + 1] # "a"

LEMMA UnescapableBefore ==
    ASSUME NEW r \in Seq(Toks), NEW x \in Tok, Unescapable(Joined(r, x, Pair))
    PROVE  Unescapable(r)
<1> DEFINE t == Joined(r, x, Pair)
<1>1. CASE x \in DOMAIN Pair /\ EndsInPercent(r)
  <2>1. PICK c, f, n : c = Pair[x] /\ f = Front(r) /\ n = Len(f)
    OBVIOUS
  <2>2. c \in Toks /\ t = Append(f, c)
    BY <1>1, <2>1, JoinedIs, TablesAre DEF Becomes
  <2>3. /\ f \in Seq(Toks) /\ n \in Nat /\ Len(r) = n + 1 /\ r[n + 1] = "%"
        /\ \A i \in 1 .. n : f[i] = r[i]
    <3>1. r # <<>> /\ Last(r) = "%"
      BY <1>1 DEF EndsInPercent
    <3>2. r[Len(r)] = "%"
      BY <3>1 DEF Last
    <3>3. /\ Front(r) \in Seq(Toks) /\ Len(r) \in Nat /\ Len(Front(r)) = Len(r) - 1
          /\ \A i \in 1 .. Len(r) - 1 : Front(r)[i] = r[i]
      BY ONLY r \in Seq(Toks), <3>1, FrontAndLast
    <3>4. f \in Seq(Toks) /\ n = Len(r) - 1 /\ n \in Nat
      BY <2>1, <3>3
    <3> QED  BY <2>1, <3>2, <3>3, <3>4
  <2>4. Len(t) = n + 1 /\ \A i \in 1 .. n : t[i] = r[i]
    BY <2>1, <2>2, <2>3, AppendEnds
  <2>5. ASSUME NEW i \in 1 .. Len(r) - 1, r[i] = "%%" PROVE r[i + 1] # "a"
    <3>1. CASE i + 1 = n + 1
      BY <2>3, <3>1
    <3>2. CASE i + 1 # n + 1
      <4>1. i \in 1 .. n /\ i + 1 \in 1 .. n /\ i \in 1 .. Len(t) - 1
        BY <2>3, <2>4, <3>2
      <4> QED  BY <2>4, <2>5, <4>1 DEF Unescapable
    <3> QED  BY <3>1, <3>2
  <2> QED  BY <2>5 DEF Unescapable
<1>2. CASE ~(x \in DOMAIN Pair /\ EndsInPercent(r))
  <2>1. t = Append(r, x) /\ x \in Toks
    BY <1>2, JoinedIs, TokIs
  <2>2. PICK n : n = Len(r)
    OBVIOUS
  <2>3. n \in Nat /\ Len(t) = n + 1 /\ \A i \in 1 .. n : t[i] = r[i]
    BY <2>1, <2>2, AppendEnds
  <2>4. ASSUME NEW i \in 1 .. n - 1, r[i] = "%%" PROVE r[i + 1] # "a"
    <3>1. i \in 1 .. n /\ i + 1 \in 1 .. n /\ i \in 1 .. Len(t) - 1
      BY <2>3
    <3> QED  BY <2>3, <2>4, <3>1 DEF Unescapable
  <2> QED  BY <2>2, <2>4 DEF Unescapable
<1> QED  BY <1>1, <1>2

LEMMA UnescapedIsRead ==
    ASSUME NEW q \in Seq(Tok), Unescapable(Read(q))
    PROVE  PairsReplaced(WithoutFormats(q), Escape) = Read(q)
<1> DEFINE W(s) == PairsReplaced(s, Format)
           E(s) == PairsReplaced(s, Escape)
           R(s) == PairsReplaced(s, Pair)
           P == {s \in Seq(Tok) : Unescapable(R(s)) => E(W(s)) = R(s)}
<1>1. <<>> \in P
  <2>1. <<>> \in Seq(Tok)
    BY EmptySeq
  <2> QED  BY <2>1, PairsEmpty
<1>2. ASSUME NEW s \in P, NEW x \in Tok PROVE Append(s, x) \in P
  <2>1. /\ s \in Seq(Tok) /\ s \in Seq(Toks) /\ x \in Toks
        /\ Append(s, x) \in Seq(Tok)
    <3>1. s \in Seq(Tok) /\ x \in Tok /\ Tok \subseteq Toks
      BY TokIs
    <3> QED  BY <3>1
  <2>2. PICK w, r, rx, wx : w = W(s) /\ r = R(s) /\ rx = R(Append(s, x)) /\ wx = W(Append(s, x))
    OBVIOUS
  <2>3. w \in Seq(Toks) /\ r \in Seq(Toks) /\ \A v \in Seq(Toks) : E(v) \in Seq(Toks)
    BY <2>1, <2>2, PairsType, TablesAre
  <2>4. rx = Joined(r, x, Pair) /\ wx = Joined(w, x, Format)
    BY <2>1, <2>2, PairsAppend, TablesAre
  <2>5. \A v \in Seq(Toks) : \A y \in Toks : E(Append(v, y)) = Joined(E(v), y, Escape)
    BY PairsAppend, TablesAre
  <2>6. E(<<>>) = <<>>
    BY PairsEmpty
  <2>7. Unescapable(r) => E(w) = r
    BY <2>2
  <2> HIDE DEF W, E, R
  <2>8. SUFFICES ASSUME Unescapable(rx) PROVE E(wx) = rx
    BY <2>1, <2>2
  <2>9. E(w) = r
    BY <2>1, <2>3, <2>4, <2>7, <2>8, UnescapableBefore
  <2>10. CASE x # "%" /\ x # "a"
    <3>1. rx = Append(r, x) /\ wx = Append(w, x)
      BY <2>4, <2>10, TablesAre, JoinedIs
    <3>2. E(wx) = Joined(r, x, Escape)
      BY <2>1, <2>3, <2>5, <2>9, <3>1
    <3> QED  BY <2>10, <3>1, <3>2, TablesAre, JoinedIs
  <2>11. CASE x = "%"
    <3>1. wx = Append(w, x)
      BY <2>4, <2>11, TablesAre, JoinedIs
    <3>2. E(wx) = Joined(r, x, Escape)
      BY <2>1, <2>3, <2>5, <2>9, <3>1
    <3>3. Joined(r, x, Escape) = Joined(r, x, Pair)
      <4>1. CASE EndsInPercent(r)
        <5>1. Joined(r, "%", Escape) = Append(Front(r), "%%")
          BY <4>1, TablesAre, JoinedIs
        <5>2. Joined(r, "%", Pair) = Append(Front(r), "%%")
          BY <4>1, TablesAre, JoinedIs
        <5> QED  BY <2>11, <5>1, <5>2
      <4>2. CASE ~EndsInPercent(r)
        BY <4>2, JoinedIs
      <4> QED  BY <4>1, <4>2
    <3> QED  BY <2>4, <3>2, <3>3
  <2>12. CASE x = "a" /\ EndsInPercent(w)
    <3>1. PICK f : f = Front(w)
      OBVIOUS
    <3>2. f \in Seq(Toks) /\ w = Append(f, "%") /\ "%" \in Toks /\ "?" \in Toks
      BY <2>3, <2>12, <3>1, FrontAndLast, TokIs DEF EndsInPercent
    <3>3. wx = Append(f, "?")
      BY <2>4, <2>12, <3>1, TablesAre, JoinedIs
    <3>4. PICK e : e = E(f)
      OBVIOUS
    <3>5. e \in Seq(Toks) /\ E(wx) = Joined(e, "?", Escape) /\ r = Joined(e, "%", Escape)
      BY <2>3, <2>5, <2>9, <3>2, <3>3, <3>4
    <3>6. E(wx) = Append(e, "?")
      BY <3>5, TablesAre, JoinedIs
    <3>7. CASE EndsInPercent(e)
      <4>1. PICK g, n : g = Front(e) /\ n = Len(g)
        OBVIOUS
      <4>2. g \in Seq(Toks) /\ r = Append(g, "%%") /\ "%%" \in Toks /\ n \in Nat
        <5>1. g \in Seq(Toks) /\ "%%" \in Toks
          BY <3>5, <3>7, <4>1, FrontAndLast DEF EndsInPercent, Toks
        <5>2. r = Append(g, "%%")
          BY <3>5, <3>7, <4>1, TablesAre, JoinedIs
        <5> QED  BY <4>1, <5>1, <5>2
      <4>3. Last(r) = "%%" /\ r # <<>> /\ Len(r) = n + 1 /\ r[n + 1] = "%%"
        BY <4>1, <4>2, AppendEnds DEF Last
      <4>4. rx = Append(r, x)
        BY <2>4, <4>3, JoinedIs DEF EndsInPercent
      <4>5. Len(rx) = n + 2 /\ rx[n + 1] = "%%" /\ rx[n + 2] = "a"
        <5>1. /\ Len(rx) = (n + 1) + 1 /\ rx[Len(rx)] = x
              /\ \A i \in 1 .. n + 1 : rx[i] = r[i]
          BY <2>1, <2>3, <4>3, <4>4, AppendEnds DEF Last
        <5>2. n + 1 \in 1 .. n + 1 /\ (n + 1) + 1 = n + 2
          BY <4>2
        <5> QED  BY <2>12, <4>3, <5>1, <5>2
      <4>6. n + 1 \in 1 .. Len(rx) - 1 /\ (n + 1) + 1 = n + 2
        BY <4>2, <4>5
      <4> QED  BY <2>8, <4>5, <4>6 DEF Unescapable
    <3>8. CASE ~EndsInPercent(e)
      <4>1. r = Append(e, "%")
        BY <3>5, <3>8, JoinedIs
      <4>2. EndsInPercent(r) /\ Front(r) = e
        BY <3>2, <3>5, <4>1, AppendEnds DEF EndsInPercent
      <4>3. rx = Append(e, "?")
        BY <2>4, <2>12, <4>2, TablesAre, JoinedIs
      <4> QED  BY <3>6, <4>3
    <3> QED  BY <3>7, <3>8
  <2>13. CASE x = "a" /\ ~EndsInPercent(w)
    <3>1. wx = Append(w, x)
      BY <2>4, <2>13, JoinedIs
    <3>2. E(wx) = Append(r, x)
      BY <2>1, <2>3, <2>5, <2>9, <2>13, <3>1, TablesAre, JoinedIs
    <3>3. ~EndsInPercent(r)
      <4>1. CASE w = <<>>
        BY <2>6, <2>9, <4>1 DEF EndsInPercent
      <4>2. CASE w # <<>>
        <5>1. PICK f, l : f = Front(w) /\ l = Last(w)
          OBVIOUS
        <5>2. f \in Seq(Toks) /\ l \in Toks /\ w = Append(f, l) /\ l # "%"
          BY <2>3, <2>13, <4>2, <5>1, FrontAndLast DEF EndsInPercent
        <5>3. r = Append(E(f), l)
          BY <2>5, <2>9, <5>2, TablesAre, JoinedIs
        <5> QED  BY <2>3, <5>2, <5>3, AppendEnds DEF EndsInPercent
      <4> QED  BY <4>1, <4>2
    <3> QED  BY <2>4, <3>2, <3>3, JoinedIs
  <2> QED  BY <2>10, <2>11, <2>12, <2>13
<1> HIDE DEF P
<1>3. P = Seq(Tok)
  BY <1>1, <1>2, AppendInduction DEF P
<1> QED  BY <1>3 DEF P, Read, WithoutFormats

LEMMA SeqSubset ==
    ASSUME NEW S, NEW T, S \subseteq T, NEW s \in Seq(S)
    PROVE  s \in Seq(T)
  OBVIOUS

(* Marks for the tokens of D.                                              *)
Replaced(s, D) == [i \in DOMAIN s |-> IF s[i] \in D THEN "?" ELSE s[i]]
Mark(x, D) == IF x \in D THEN "?" ELSE x

LEMMA ReplacedType ==
    ASSUME NEW T, "?" \in T, NEW s \in Seq(T), NEW D
    PROVE  /\ Replaced(s, D) \in Seq(T) /\ Len(Replaced(s, D)) = Len(s)
           /\ \A i \in 1 .. Len(s) : Replaced(s, D)[i] = Mark(s[i], D)
<1>1. PICK n, r : n = Len(s) /\ r = Replaced(s, D)
  OBVIOUS
<1>2. n \in Nat /\ DOMAIN s = 1 .. n /\ \A i \in 1 .. n : s[i] \in T
  BY <1>1
<1>3. r \in [1 .. n -> T] /\ \A i \in 1 .. n : r[i] = Mark(s[i], D)
  BY <1>1, <1>2 DEF Replaced, Mark
<1>4. r \in Seq(T) /\ Len(r) = n
  BY <1>2, <1>3
<1> QED  BY <1>1, <1>3, <1>4

LEMMA ReplacedAppend ==
    ASSUME NEW T, "?" \in T, NEW s \in Seq(T), NEW x \in T, NEW D
    PROVE  Replaced(Append(s, x), D) = Append(Replaced(s, D), Mark(x, D))
<1>1. PICK n, r, t, a : /\ n = Len(s) /\ r = Replaced(s, D)
                        /\ a = Append(s, x) /\ t = Replaced(a, D)
  OBVIOUS
<1>2. /\ a \in Seq(T) /\ Len(a) = n + 1 /\ n \in Nat /\ a[n + 1] = x
      /\ \A i \in 1 .. n : a[i] = s[i]
  BY <1>1
<1>3. /\ r \in Seq(T) /\ Len(r) = n /\ \A i \in 1 .. n : r[i] = Mark(s[i], D)
  BY <1>1, ReplacedType
<1>4. /\ t \in Seq(T) /\ Len(t) = n + 1 /\ \A i \in 1 .. n + 1 : t[i] = Mark(a[i], D)
  BY <1>1, <1>2, ReplacedType, ZenonT(60)
<1>5. t \in [1 .. n + 1 -> T] /\ Mark(x, D) \in T
  BY <1>2, <1>4 DEF Mark
<1>6. t[n + 1] = Mark(x, D) /\ \A i \in 1 .. n : t[i] = r[i]
  BY <1>2, <1>3, <1>4
<1> QED  BY <1>1, <1>2, <1>3, <1>5, <1>6, IsAppended

KeyTokens == {"%(a)s", "%(b)s", ":a", ":b"}

LEMMA StyleIs ==
    ASSUME NEW q
    PROVE  DOMAIN Style(q) \subseteq KeyTokens
  BY DEF Style, PyformatKey, NamedKey, KeyTokens

LEMMA ReadReplaced ==
    ASSUME NEW q \in Seq(Tok), NEW D \in SUBSET KeyTokens
    PROVE  Read(Replaced(q, D)) = Replaced(Read(q), D)
<1> DEFINE K(s) == Replaced(s, D)
           R(s) == PairsReplaced(s, Pair)
           P == {s \in Seq(Tok) : R(K(s)) = K(R(s))}
<1>1. <<>> \in P
  <2>1. <<>> \in Seq(Tok) /\ K(<<>>) = <<>>
    BY EmptySeq DEF Replaced
  <2> QED  BY <2>1, PairsEmpty
<1>2. ASSUME NEW s \in P, NEW x \in Tok PROVE Append(s, x) \in P
  <2>1. /\ s \in Seq(Tok) /\ s \in Seq(Toks) /\ x \in Toks /\ "?" \in Toks /\ "?" \in Tok
        /\ "%%" \in Toks
    <3>1. s \in Seq(Tok) /\ x \in Tok /\ Tok \subseteq Toks
      BY TokIs
    <3>2. s \in Seq(Toks)
      BY <3>1, SeqSubset
    <3>3. x \in Toks /\ "?" \in Toks /\ "?" \in Tok /\ "%%" \in Toks
      BY <3>1, TokIs DEF Toks
    <3> QED  BY <3>1, <3>2, <3>3
  <2>2. Append(s, x) \in Seq(Tok)
    BY <2>1
  <2>3. PICK r, k : r = R(s) /\ k = K(s)
    OBVIOUS
  <2>4. r \in Seq(Toks) /\ k \in Seq(Toks) /\ Mark(x, D) \in Toks /\ K(r) \in Seq(Toks)
    BY <2>1, <2>3, PairsType, TablesAre, ReplacedType DEF Mark
  <2>5. R(Append(s, x)) = Joined(r, x, Pair)
    BY <2>1, <2>3, PairsAppend, TablesAre
  <2>6. R(K(Append(s, x))) = Joined(R(k), Mark(x, D), Pair)
    <3>1. K(Append(s, x)) = Append(k, Mark(x, D))
      BY <2>1, <2>3, ReplacedAppend
    <3>2. R(Append(k, Mark(x, D))) = Joined(R(k), Mark(x, D), Pair)
      BY <2>4, PairsAppend, TablesAre
    <3> QED  BY <3>1, <3>2
  <2>7. R(k) = K(r)
    BY <2>3
  <2>8. \A v \in Seq(Toks) : \A y \in Toks : K(Append(v, y)) = Append(K(v), Mark(y, D))
    BY <2>1, ReplacedAppend
  <2>9. \A v \in Seq(Toks) : K(v) \in Seq(Toks)
    BY <2>1, ReplacedType
  <2>10. K(<<>>) = <<>>
    BY DEF Replaced
  <2> HIDE DEF K, R
  <2>11. SUFFICES Joined(K(r), Mark(x, D), Pair) = K(Joined(r, x, Pair))
    BY <2>2, <2>5, <2>6, <2>7
  <2>12. CASE x \in D
    <3>1. x \notin DOMAIN Pair /\ Mark(x, D) = "?" /\ "?" \notin DOMAIN Pair
      BY <2>12, TablesAre DEF KeyTokens, Mark
    <3>2. Joined(r, x, Pair) = Append(r, x) /\ Joined(K(r), "?", Pair) = Append(K(r), "?")
      BY <3>1, JoinedIs
    <3> QED  BY <2>1, <2>4, <2>8, <3>1, <3>2
  <2>13. CASE x \notin D
    <3>1. Mark(x, D) = x
      BY <2>13 DEF Mark
    <3>2. CASE r = <<>>
      <4>1. ~EndsInPercent(r) /\ K(r) = r
        BY <2>10, <3>2 DEF EndsInPercent
      <4>2. Joined(r, x, Pair) = Append(r, x) /\ Joined(K(r), x, Pair) = Append(K(r), x)
        BY <4>1, JoinedIs
      <4> QED  BY <2>1, <2>4, <2>8, <3>1, <4>2
    <3>3. CASE r # <<>>
      <4>1. PICK f, l : f = Front(r) /\ l = Last(r)
        OBVIOUS
      <4>2. f \in Seq(Toks) /\ l \in Toks /\ r = Append(f, l)
        BY <2>4, <3>3, <4>1, FrontAndLast
      <4>3. K(r) = Append(K(f), Mark(l, D)) /\ K(f) \in Seq(Toks) /\ Mark(l, D) \in Toks
        BY <2>1, <2>8, <2>9, <4>2 DEF Mark
      <4>4. K(r) # <<>> /\ Front(K(r)) = K(f) /\ Last(K(r)) = Mark(l, D)
        BY <4>3, AppendEnds
      <4>5. Mark(l, D) = "%" <=> l = "%"
        BY DEF Mark, KeyTokens
      <4>6. EndsInPercent(K(r)) <=> EndsInPercent(r)
        BY <3>3, <4>1, <4>4, <4>5 DEF EndsInPercent
      <4>7. CASE x \in DOMAIN Pair /\ EndsInPercent(r)
        <5>1. Pair[x] \in {"?", "%%"} /\ Mark(Pair[x], D) = Pair[x] /\ Pair[x] \in Toks
          BY <2>1, <4>7, TablesAre DEF Mark, KeyTokens
        <5>2. Joined(r, x, Pair) = Append(f, Pair[x])
          BY <4>1, <4>7, JoinedIs
        <5>3. Joined(K(r), x, Pair) = Append(K(f), Pair[x])
          BY <4>4, <4>6, <4>7, JoinedIs
        <5> QED  BY <2>8, <3>1, <4>2, <5>1, <5>2, <5>3
      <4>8. CASE ~(x \in DOMAIN Pair /\ EndsInPercent(r))
        <5>1. Joined(r, x, Pair) = Append(r, x) /\ Joined(K(r), x, Pair) = Append(K(r), x)
          BY <4>6, <4>8, JoinedIs
        <5> QED  BY <2>1, <2>4, <2>8, <3>1, <5>1
      <4> QED  BY <4>7, <4>8
    <3> QED  BY <3>2, <3>3
  <2> QED  BY <2>12, <2>13
<1> HIDE DEF P
<1>3. P = Seq(Tok)
  BY <1>1, <1>2, AppendInduction DEF P
<1> QED  BY <1>3 DEF P, Read

LEMMA ReplacedIsUnescapable ==
    ASSUME NEW r \in Seq(Toks), Unescapable(r), NEW D \in SUBSET KeyTokens
    PROVE  Unescapable(Replaced(r, D))
<1>1. PICK n, k : n = Len(r) /\ k = Replaced(r, D)
  OBVIOUS
<1>2. n \in Nat /\ Len(k) = n /\ \A i \in 1 .. n : k[i] = Mark(r[i], D)
  <2>1. "?" \in Toks
    BY TokIs DEF Toks
  <2> QED  BY <1>1, <2>1, ReplacedType
<1>3. ASSUME NEW i \in 1 .. n - 1, k[i] = "%%" PROVE k[i + 1] # "a"
  <2>1. i \in 1 .. n /\ i + 1 \in 1 .. n
    BY <1>2
  <2>2. r[i] = "%%"
    BY <1>2, <1>3, <2>1 DEF Mark
  <2>3. r[i + 1] # "a"
    BY <1>1, <2>2 DEF Unescapable
  <2> QED  BY <1>2, <2>1, <2>3 DEF Mark
<1> QED  BY <1>1, <1>2, <1>3 DEF Unescapable

LEMMA RenamedType ==
    ASSUME NEW s \in Seq(Toks)
    PROVE  Renamed(s, "%%", "%") \in Seq(Tok)
<1>1. PICK n, r : n = Len(s) /\ r = Renamed(s, "%%", "%")
  OBVIOUS
<1>2. n \in Nat /\ DOMAIN s = 1 .. n /\ \A i \in 1 .. n : s[i] \in Toks
  BY <1>1
<1>3. r \in [1 .. n -> Tok]
  BY <1>1, <1>2, TokIs DEF Renamed, Toks
<1>4. r \in Seq(Tok)
  BY <1>2, <1>3
<1> QED  BY <1>1, <1>4

(* The text that a query is rewritten to.                                  *)
LEMMA TextIsMeant ==
    ASSUME NEW q \in Seq(Tok)
    PROVE  /\ Unescaped(WithoutFormats(q)) \in Seq(Tok)
           /\ Unescapable(Read(q)) => Unescaped(WithoutFormats(q)) = Meaning(q)
<1>1. q \in Seq(Toks)
  BY TokIs, SeqSubset
<1>2. PairsReplaced(WithoutFormats(q), Escape) \in Seq(Toks)
  BY <1>1, PairsType, TablesAre DEF WithoutFormats
<1> QED  BY <1>2, RenamedType, UnescapedIsRead DEF Unescaped, Meaning

LEMMA WithoutKeysIs ==
    ASSUME NEW q \in Seq(Tok)
    PROVE  /\ WithoutKeys(q) \in Seq(Tok)
           /\ IsPlain(q) => Unescapable(Read(q)) /\ Unescapable(Read(WithoutKeys(q)))
<1>1. WithoutKeys(q) = Replaced(q, DOMAIN Style(q)) /\ "?" \in Tok /\ q \in Seq(Toks)
  BY TokIs, SeqSubset DEF WithoutKeys, Replaced
<1>2. WithoutKeys(q) \in Seq(Tok)
  BY <1>1, ReplacedType
<1>3. ASSUME IsPlain(q) PROVE Unescapable(Read(q)) /\ Unescapable(Read(WithoutKeys(q)))
  <2>1. Unescapable(Read(q))
    BY <1>3 DEF IsPlain, Unescapable
  <2>2. Read(q) \in Seq(Toks)
    BY <1>1, PairsType, TablesAre DEF Read
  <2>3. Read(WithoutKeys(q)) = Replaced(Read(q), DOMAIN Style(q))
    BY <1>1, StyleIs, ReadReplaced
  <2> QED  BY <2>1, <2>2, <2>3, StyleIs, ReplacedIsUnescapable
<1> QED  BY <1>2, <1>3

(* What execute() begins with.                                             *)
LEMMA ExecutedText ==
    ASSUME NEW q \in Seq(Tok), NEW d \in BOOLEAN
    PROVE  LET t == IF d THEN WithoutKeys(q) ELSE q
           IN  /\ Unescaped(WithoutFormats(t)) \in Seq(Tok)
               /\ IsPlain(q) => Unescaped(WithoutFormats(t)) = Meaning(t)
  BY WithoutKeysIs, TextIsMeant

-----------------------------------------------------------------------------
(* Marks are counted                                                       *)

LEMMA MarksType ==
    ASSUME NEW q, NEW i \in Nat
    PROVE  /\ IsFiniteSet({j \in 1 .. i : q[j] = "?"})
           /\ MarksUpTo(q, i) \in Nat
<1>1. IsFiniteSet(1 .. i)
  BY FS_Interval
<1>2. IsFiniteSet({j \in 1 .. i : q[j] = "?"})
  BY <1>1, FS_Subset
<1> QED  BY <1>2, FS_CardinalityType DEF MarksUpTo

LEMMA MarksZero ==
    ASSUME NEW q
    PROVE  MarksUpTo(q, 0) = 0
<1>1. {j \in 1 .. 0 : q[j] = "?"} = {}
  OBVIOUS
<1> QED  BY <1>1, FS_EmptySet DEF MarksUpTo

LEMMA MarksSame ==
    ASSUME NEW q, NEW r, NEW i \in Nat, \A j \in 1 .. i : q[j] = r[j]
    PROVE  MarksUpTo(q, i) = MarksUpTo(r, i)
<1>1. {j \in 1 .. i : q[j] = "?"} = {j \in 1 .. i : r[j] = "?"}
  OBVIOUS
<1> QED  BY <1>1 DEF MarksUpTo

OneFor(x) == IF x = "?" THEN 1 ELSE 0

LEMMA MarksStep ==
    ASSUME NEW q, NEW i \in Nat
    PROVE  MarksUpTo(q, i + 1) = MarksUpTo(q, i) + OneFor(q[i + 1])
<1> DEFINE A == {j \in 1 .. i : q[j] = "?"}
           B == {j \in 1 .. i + 1 : q[j] = "?"}
<1>1. IsFiniteSet(A) /\ Cardinality(A) \in Nat /\ i + 1 \notin A
  BY MarksType DEF MarksUpTo
<1>2. CASE q[i + 1] = "?"
  <2>1. B = A \union {i + 1}
    BY <1>2
  <2>2. Cardinality(B) = Cardinality(A) + 1
    BY <1>1, <2>1, FS_AddElement
  <2> QED  BY <1>2, <2>2 DEF MarksUpTo, OneFor
<1>3. CASE q[i + 1] # "?"
  <2>1. B = A
    BY <1>3
  <2> QED  BY <1>1, <1>3, <2>1 DEF MarksUpTo, OneFor
<1> QED  BY <1>2, <1>3

MarksOf(q) == MarksUpTo(q, Len(q))

LEMMA MarksAppend ==
    ASSUME NEW T, NEW s \in Seq(T), NEW x \in T
    PROVE  /\ MarksOf(s) \in Nat
           /\ MarksOf(Append(s, x)) = MarksOf(s) + OneFor(x)
           /\ MarksUpTo(Append(s, x), Len(s) + 1) = MarksOf(s) + OneFor(x)
           /\ \A i \in 0 .. Len(s) : MarksUpTo(Append(s, x), i) = MarksUpTo(s, i)
<1>1. PICK a, n : a = Append(s, x) /\ n = Len(s)
  OBVIOUS
<1>2. /\ Len(a) = n + 1 /\ a[n + 1] = x /\ n \in Nat /\ n \in 0 .. n
      /\ \A i \in 1 .. n : a[i] = s[i]
  BY <1>1
<1>3. ASSUME NEW i \in 0 .. n PROVE MarksUpTo(a, i) = MarksUpTo(s, i)
  <2>1. i \in Nat /\ \A j \in 1 .. i : a[j] = s[j]
    BY <1>2
  <2> QED  BY <2>1, MarksSame
<1>4. MarksUpTo(a, n + 1) = MarksUpTo(s, n) + OneFor(x)
  BY <1>2, <1>3, MarksStep
<1>5. MarksUpTo(s, n) \in Nat
  BY <1>2, MarksType
<1> QED  BY <1>1, <1>2, <1>3, <1>4, <1>5 DEF MarksOf

LEMMA MarksEmpty == MarksOf(<<>>) = 0
<1>1. Len(<<>>) = 0
  OBVIOUS
<1> QED  BY <1>1, MarksZero DEF MarksOf

LEMMA MarksConcat ==
    ASSUME NEW T, NEW q \in Seq(T), NEW r \in Seq(T)
    PROVE  MarksOf(q \o r) = MarksOf(q) + MarksOf(r) /\ MarksOf(q) \in Nat /\ MarksOf(r) \in Nat
<1> DEFINE P == {s \in Seq(T) : MarksOf(q \o s) = MarksOf(q) + MarksOf(s)}
<1>1. Len(q) \in Nat /\ \A s \in Seq(T) : Len(s) \in Nat
  OBVIOUS
<1>2. MarksOf(q) \in Nat /\ \A s \in Seq(T) : MarksOf(s) \in Nat
  BY <1>1, MarksType DEF MarksOf
<1>3. <<>> \in P
  <2>1. q \o <<>> = q /\ <<>> \in Seq(T)
    OBVIOUS
  <2> QED  BY <1>2, <2>1, MarksEmpty
<1>4. ASSUME NEW s \in P, NEW x \in T PROVE Append(s, x) \in P
  <2>1. s \in Seq(T) /\ q \o s \in Seq(T) /\ Append(s, x) \in Seq(T)
    OBVIOUS
  <2>2. q \o Append(s, x) = Append(q \o s, x)
    BY <2>1
  <2>3. MarksOf(Append(q \o s, x)) = MarksOf(q \o s) + OneFor(x)
    BY <2>1, MarksAppend
  <2>4. MarksOf(Append(s, x)) = MarksOf(s) + OneFor(x)
    BY <2>1, MarksAppend
  <2>5. OneFor(x) \in Nat /\ MarksOf(s) \in Nat
    BY <1>2, <2>1 DEF OneFor
  <2>6. MarksOf(q \o s) = MarksOf(q) + MarksOf(s)
    OBVIOUS
  <2>7. MarksOf(q \o Append(s, x)) = MarksOf(q) + MarksOf(Append(s, x))
    BY <1>2, <2>2, <2>3, <2>4, <2>5, <2>6
  <2> QED  BY <2>1, <2>7
<1> HIDE DEF P
<1>5. P = Seq(T)
  BY <1>3, <1>4, AppendInduction DEF P
<1>6. r \in P
  BY <1>5
<1> QED  BY <1>2, <1>6 DEF P

(* The n-th mark.                                                          *)
LEMMA MarkExists ==
    ASSUME NEW T, NEW q \in Seq(T), NEW n \in Nat \ {0}, n <= MarksOf(q)
    PROVE  \E i \in DOMAIN q : q[i] = "?" /\ MarksUpTo(q, i) = n
<1> DEFINE Has(s, k) == \E i \in 1 .. Len(s) : s[i] = "?" /\ MarksUpTo(s, i) = k
           P == {s \in Seq(T) : \A k \in Nat \ {0} : k <= MarksOf(s) => Has(s, k)}
<1>1. <<>> \in P
  <2>1. <<>> \in Seq(T)
    OBVIOUS
  <2> QED  BY <2>1, MarksEmpty
<1>2. ASSUME NEW s \in P, NEW x \in T PROVE Append(s, x) \in P
  <2>1. PICK a, m : a = Append(s, x) /\ m = Len(s)
    OBVIOUS
  <2>2. /\ s \in Seq(T) /\ a \in Seq(T) /\ m \in Nat /\ Len(a) = m + 1 /\ a[m + 1] = x
        /\ \A i \in 1 .. m : a[i] = s[i]
    BY <2>1
  <2>3. /\ MarksOf(s) \in Nat /\ MarksOf(a) = MarksOf(s) + OneFor(x)
        /\ MarksUpTo(a, m + 1) = MarksOf(s) + OneFor(x)
        /\ \A i \in 0 .. m : MarksUpTo(a, i) = MarksUpTo(s, i)
    BY <2>1, <2>2, MarksAppend
  <2>4. ASSUME NEW k \in Nat \ {0}, k <= MarksOf(a) PROVE Has(a, k)
    <3>1. CASE k <= MarksOf(s)
      <4>1. PICK i \in 1 .. m : s[i] = "?" /\ MarksUpTo(s, i) = k
        BY <2>1, <3>1
      <4>2. i \in 0 .. m /\ i \in 1 .. m + 1
        BY <2>2
      <4> QED  BY <2>2, <2>3, <4>1, <4>2
    <3>2. CASE ~(k <= MarksOf(s))
      <4>1. x = "?" /\ k = MarksOf(s) + 1 /\ OneFor(x) = 1
        BY <2>3, <2>4, <3>2 DEF OneFor
      <4>2. m + 1 \in 1 .. m + 1
        BY <2>2
      <4> QED  BY <2>2, <2>3, <4>1, <4>2
    <3> QED  BY <3>1, <3>2
  <2> QED  BY <2>1, <2>2, <2>4
<1> HIDE DEF P
<1>3. P = Seq(T)
  BY <1>1, <1>2, AppendInduction DEF P
<1>4. q \in P /\ DOMAIN q = 1 .. Len(q)
  BY <1>3
<1> QED  BY <1>4 DEF P

(* The text before and after its n-th mark.                                *)
Splits(a, b, q, by, n) ==
    /\ q = Append(a, "?") \o b /\ MarksOf(a) = n - 1
    /\ ReplaceNth(q, by, n) = a \o by \o b

LEMMA MarkSplits ==
    ASSUME NEW q \in Seq(Tok), NEW n \in Nat \ {0}, n <= MarksOf(q), NEW by
    PROVE  \E a, b \in Seq(Tok) : Splits(a, b, q, by, n)
<1> DEFINE k == CHOOSE i \in DOMAIN q : q[i] = "?" /\ MarksUpTo(q, i) = n
<1>1. k \in DOMAIN q /\ q[k] = "?" /\ MarksUpTo(q, k) = n
  BY MarkExists
<1>2. PICK l : l = Len(q)
  OBVIOUS
<1>3. MarksOf(q) \in Nat /\ l \in Nat
  <2>1. Len(q) \in Nat
    OBVIOUS
  <2> QED  BY <1>2, <2>1, MarksType DEF MarksOf
<1>4. ReplaceNth(q, by, n) = SubSeq(q, 1, k - 1) \o by \o SubSeq(q, k + 1, l)
  <2>1. ~(MarksUpTo(q, Len(q)) < n)
    BY <1>3 DEF MarksOf
  <2> QED  BY <1>2, <2>1 DEF ReplaceNth
<1> HIDE DEF k
<1>5. l \in Nat /\ DOMAIN q = 1 .. l /\ k \in 1 .. l /\ \A i \in 1 .. l : q[i] \in Tok
  BY <1>1, <1>2
<1>6. PICK a, b : a = SubSeq(q, 1, k - 1) /\ b = SubSeq(q, k + 1, l)
  OBVIOUS
<1>7. /\ a \in Seq(Tok) /\ Len(a) = k - 1 /\ (\A i \in 1 .. k - 1 : a[i] = q[i])
  BY <1>5, <1>6
<1>8. /\ b \in Seq(Tok) /\ Len(b) = l - k /\ (\A i \in 1 .. l - k : b[i] = q[k + i])
  BY <1>5, <1>6
<1>9. PICK c, d : c = Append(a, "?") /\ d = c \o b
  OBVIOUS
<1>0. "?" \in Tok
  BY TokIs
<1>10. /\ c \in Seq(Tok) /\ Len(c) = k /\ c[k] = "?" /\ \A i \in 1 .. k - 1 : c[i] = q[i]
  <2>1. c \in Seq(Tok) /\ Len(c) = (k - 1) + 1 /\ c[(k - 1) + 1] = "?"
        /\ \A i \in 1 .. k - 1 : c[i] = a[i]
    BY <1>0, <1>7, <1>9
  <2> QED  BY <1>5, <1>7, <2>1
<1>11. d = q
  <2>1. /\ d \in Seq(Tok) /\ Len(d) = l /\ (\A i \in 1 .. k : d[i] = c[i])
        /\ \A i \in k + 1 .. l : d[i] = b[i - k]
    <3>1. d \in Seq(Tok)
      BY <1>8, <1>9, <1>10
    <3>2. Len(d) = k + (l - k)
      <4>1. Len(d) = Len(c) + Len(b)
        BY <1>8, <1>9, <1>10, ConcatProperties
      <4> QED  BY <1>8, <1>10, <4>1
    <3>3. \A i \in 1 .. k : d[i] = c[i]
      BY <1>8, <1>9, <1>10
    <3>4. \A i \in k + 1 .. l : d[i] = b[i - k]
      BY <1>5, <1>8, <1>9, <1>10
    <3> QED  BY <1>5, <3>1, <3>2, <3>3, <3>4
  <2>2. ASSUME NEW i \in 1 .. l PROVE d[i] = q[i]
    <3>1. CASE i \in 1 .. k - 1
      BY <1>5, <1>10, <2>1, <3>1
    <3>2. CASE i = k
      BY <1>1, <1>5, <1>10, <2>1, <3>2
    <3>3. CASE i \in k + 1 .. l
      <4>1. i - k \in 1 .. l - k /\ k + (i - k) = i
        BY <1>5, <3>3
      <4> QED  BY <1>8, <2>1, <3>3, <4>1
    <3> QED  BY <1>5, <3>1, <3>2, <3>3
  <2> QED  BY <1>2, <2>1, <2>2, SeqEqual
<1>12. MarksOf(a) = n - 1
  <2>1. k - 1 \in Nat /\ (k - 1) + 1 = k
    BY <1>5
  <2>2. MarksUpTo(q, k) = MarksUpTo(q, k - 1) + OneFor(q[k])
    BY <2>1, MarksStep
  <2>3. MarksUpTo(a, k - 1) = MarksUpTo(q, k - 1) /\ MarksUpTo(q, k - 1) \in Nat
    BY <1>7, <2>1, MarksSame, MarksType
  <2>4. OneFor(q[k]) = 1
    BY <1>1 DEF OneFor
  <2> QED  BY <1>1, <1>7, <2>2, <2>3, <2>4 DEF MarksOf
<1> QED  BY <1>4, <1>6, <1>7, <1>8, <1>9, <1>11, <1>12 DEF Splits

LEMMA MarkIsCounted ==
    ASSUME NEW q, NEW n \in Nat, Len(q) = n, NEW i \in 1 .. n, q[i] = "?"
    PROVE  MarksUpTo(q, i) \in 1 .. MarksOf(q)
<1> DEFINE A == {j \in 1 .. i : q[j] = "?"}
           B == {j \in 1 .. n : q[j] = "?"}
<1>1. IsFiniteSet(B) /\ IsFiniteSet(A) /\ MarksUpTo(q, i) \in Nat /\ MarksUpTo(q, n) \in Nat
  <2>1. i \in Nat
    OBVIOUS
  <2> QED  BY <2>1, MarksType
<1>2. A \subseteq B
  OBVIOUS
<1>3. Cardinality(A) <= Cardinality(B)
  BY <1>1, <1>2, FS_Subset
<1>4. i \in A
  OBVIOUS
<1>5. Cardinality(A) # 0
  BY <1>1, <1>4, FS_EmptySet
<1> QED  BY <1>1, <1>3, <1>5 DEF MarksUpTo, MarksOf

-----------------------------------------------------------------------------
(* Parameters: tuples in tuples to any depth                               *)

AreNested(f, n) ==
    f = [d \in 0 .. n |-> IF d = 0 THEN Values ELSE Values \union TuplesOf(f[d - 1])]

LEMMA NestedExists == \A n \in Nat : \E f : AreNested(f, n)
<1> DEFINE P == {n \in Nat : \E f : AreNested(f, n)}
<1>1. 0 \in P
  <2>1. AreNested([d \in 0 .. 0 |-> Values], 0)
    BY DEF AreNested
  <2> QED  BY <2>1
<1>2. ASSUME NEW n \in P PROVE n + 1 \in P
  <2>1. PICK f : AreNested(f, n)
    OBVIOUS
  <2>2. PICK g : g = [d \in 0 .. n + 1 |-> IF d = 0 THEN Values
                                           ELSE Values \union TuplesOf(f[d - 1])]
    OBVIOUS
  <2>3. ASSUME NEW d \in 1 .. n + 1 PROVE g[d - 1] = f[d - 1]
    <3>1. d - 1 \in 0 .. n /\ d - 1 \in 0 .. n + 1
      OBVIOUS
    <3> QED  BY <2>1, <2>2, <3>1 DEF AreNested
  <2>4. ASSUME NEW d \in 0 .. n + 1
        PROVE  g[d] = IF d = 0 THEN Values ELSE Values \union TuplesOf(g[d - 1])
    <3>1. CASE d = 0
      BY <2>2, <3>1
    <3>2. CASE d # 0
      <4>1. d \in 1 .. n + 1
        BY <3>2
      <4> QED  BY <2>2, <2>3, <3>2, <4>1
    <3> QED  BY <3>1, <3>2
  <2>5. AreNested(g, n + 1)
    BY <2>2, <2>4 DEF AreNested
  <2> QED  BY <2>5
<1> HIDE DEF P
<1>3. P = Nat
  BY <1>1, <1>2, Induction DEF P
<1> QED  BY <1>3 DEF P

LEMMA NestedIs ==
    /\ Nested[0] = Values
    /\ \A d \in 1 .. Depth : Nested[d] = Values \union TuplesOf(Nested[d - 1])
<1>1. Depth \in Nat
  BY RequestsAssumption
<1>2. AreNested(Nested, Depth)
  <2>1. \E f : AreNested(f, Depth)
    BY <1>1, NestedExists
  <2> QED  BY <2>1 DEF Nested, AreNested
<1>3. Nested[0] = Values
  <2>1. 0 \in 0 .. Depth
    BY <1>1
  <2> QED  BY <1>2, <2>1 DEF AreNested
<1>4. ASSUME NEW d \in 1 .. Depth PROVE Nested[d] = Values \union TuplesOf(Nested[d - 1])
  <2>1. d \in 0 .. Depth /\ d # 0
    BY <1>1
  <2> QED  BY <1>2, <2>1 DEF AreNested
<1> QED  BY <1>3, <1>4

LEMMA TuplesAre ==
    /\ \A p \in Values : ~IsTuple(p)
    /\ \A S : \A p \in TuplesOf(S) : IsTuple(p) /\ p.items \in Seq(S)
    /\ \A S, T : S \subseteq T => TuplesOf(S) \subseteq TuplesOf(T)
<1>1. "tuple" \notin Classes
  BY DEF Classes, Known, Small, Large, Binary
<1>2. \A p \in Values : ~IsTuple(p)
  BY <1>1 DEF Values, IsTuple
<1>3. \A S : \A p \in TuplesOf(S) : IsTuple(p) /\ p.items \in Seq(S)
  BY DEF TuplesOf, IsTuple
<1>4. ASSUME NEW S, NEW T, S \subseteq T, NEW p \in TuplesOf(S) PROVE p \in TuplesOf(T)
  <2>1. /\ p = [class |-> p.class, data |-> p.data, items |-> p.items]
        /\ p.class \in {"tuple"} /\ p.data \in {<<>>} /\ p.items \in Seq(S)
    BY <1>4 DEF TuplesOf
  <2>2. p.items \in Seq(T)
    BY <1>4, <2>1, SeqSubset
  <2> QED  BY <2>1, <2>2 DEF TuplesOf
<1> QED  BY <1>2, <1>3, <1>4

(* What lies less deep lies as deep.                                       *)
LEMMA NestedGrows == \A d \in 1 .. Depth : Nested[d - 1] \subseteq Nested[d]
<1>1. Depth \in Nat
  BY RequestsAssumption
<1> DEFINE P == {d \in Nat : d + 1 <= Depth => Nested[d] \subseteq Nested[d + 1]}
<1>2. 0 \in P
  <2>1. SUFFICES ASSUME 0 + 1 <= Depth PROVE Nested[0] \subseteq Nested[0 + 1]
    OBVIOUS
  <2>2. 0 + 1 \in 1 .. Depth
    BY <1>1, <2>1
  <2>3. Nested[0] = Values /\ Nested[0 + 1] = Values \union TuplesOf(Nested[(0 + 1) - 1])
    BY <2>2, NestedIs
  <2> QED  BY <2>3
<1>3. ASSUME NEW d \in P PROVE d + 1 \in P
  <2>1. SUFFICES ASSUME (d + 1) + 1 <= Depth PROVE Nested[d + 1] \subseteq Nested[(d + 1) + 1]
    OBVIOUS
  <2>2. d + 1 \in 1 .. Depth /\ (d + 1) + 1 \in 1 .. Depth
    BY <1>1, <2>1
  <2>3. (d + 1) - 1 = d /\ ((d + 1) + 1) - 1 = d + 1
    OBVIOUS
  <2>4. Nested[d] \subseteq Nested[d + 1]
    BY <1>1, <2>1
  <2>5. /\ Nested[d + 1] = Values \union TuplesOf(Nested[d])
        /\ Nested[(d + 1) + 1] = Values \union TuplesOf(Nested[d + 1])
    BY <2>2, <2>3, NestedIs
  <2> QED  BY <2>4, <2>5, TuplesAre
<1> HIDE DEF P
<1>4. P = Nat
  BY <1>2, <1>3, Induction DEF P
<1>5. ASSUME NEW d \in 1 .. Depth PROVE Nested[d - 1] \subseteq Nested[d]
  <2>1. d - 1 \in Nat /\ (d - 1) + 1 = d /\ d <= Depth
    BY <1>1
  <2>2. d - 1 \in P
    BY <1>4, <2>1
  <2> QED  BY <2>1, <2>2 DEF P
<1> QED  BY <1>5

LEMMA ParamsAre ==
    /\ Values \subseteq Params
    /\ \A p \in Params : IsTuple(p) => p.items \in Seq(Params)
    /\ \A p \in Params : ~IsTuple(p) => p \in Values
    /\ \A p \in Values : ~IsTuple(p)
<1>1. Depth \in Nat
  BY RequestsAssumption
<1>2. CASE Depth = 0
  BY <1>2, NestedIs, TuplesAre DEF Params
<1>3. CASE Depth # 0
  <2>1. Depth \in 1 .. Depth
    BY <1>1, <1>3
  <2>2. PICK S : S = Nested[Depth - 1]
    OBVIOUS
  <2>3. Params = Values \union TuplesOf(S) /\ S \subseteq Params
    BY <2>1, <2>2, NestedIs, NestedGrows DEF Params
  <2>4. \A p \in TuplesOf(S) : IsTuple(p) /\ p.items \in Seq(S)
    BY TuplesAre
  <2>5. Seq(S) \subseteq Seq(Params)
    BY <2>3, SeqSubset
  <2> QED  BY <2>3, <2>4, <2>5, TuplesAre
<1> QED  BY <1>2, <1>3

-----------------------------------------------------------------------------
(* A fold over the tuples                                                  *)

AtDepth(f, d, x, val, comb) ==
    IF IsTuple(x) THEN comb[[i \in DOMAIN x.items |-> f[d - 1][x.items[i]]]] ELSE val[x]
IsFold(f, n, val, comb) ==
    f = [d \in 0 .. n |-> [x \in Nested[d] |-> AtDepth(f, d, x, val, comb)]]

LEMMA FoldExists ==
    ASSUME NEW val, NEW comb
    PROVE  \A n \in 0 .. Depth : \E f : IsFold(f, n, val, comb)
<1>1. Depth \in Nat
  BY RequestsAssumption
<1> DEFINE P == {n \in Nat : \E f : IsFold(f, n, val, comb)}
<1>2. ASSUME NEW f, NEW g, NEW d, f[d - 1] = g[d - 1], NEW x
      PROVE  AtDepth(f, d, x, val, comb) = AtDepth(g, d, x, val, comb)
  BY <1>2 DEF AtDepth
<1>3. 0 \in P
  <2>1. PICK f : f = [d \in 0 .. 0 |-> [x \in Nested[d] |-> val[x]]]
    OBVIOUS
  <2>2. ASSUME NEW d \in 0 .. 0
        PROVE  [x \in Nested[d] |-> AtDepth(f, d, x, val, comb)] = [x \in Nested[d] |-> val[x]]
    <3>1. d = 0 /\ Nested[d] = Values
      BY NestedIs
    <3>2. \A x \in Nested[d] : AtDepth(f, d, x, val, comb) = val[x]
      BY <3>1, TuplesAre DEF AtDepth
    <3> QED  BY <3>2
  <2>3. [d \in 0 .. 0 |-> [x \in Nested[d] |-> AtDepth(f, d, x, val, comb)]] =
           [d \in 0 .. 0 |-> [x \in Nested[d] |-> val[x]]]
    BY <2>2
  <2>4. IsFold(f, 0, val, comb)
    BY <2>1, <2>3 DEF IsFold
  <2> QED  BY <2>4
<1>4. ASSUME NEW n \in P, n + 1 <= Depth PROVE n + 1 \in P
  <2>1. PICK f : IsFold(f, n, val, comb)
    OBVIOUS
  <2>2. PICK g : g = [d \in 0 .. n + 1 |-> [x \in Nested[d] |-> AtDepth(f, d, x, val, comb)]]
    OBVIOUS
  <2>3. ASSUME NEW d \in 1 .. n + 1 PROVE f[d - 1] = g[d - 1]
    <3>1. d - 1 \in 0 .. n /\ d - 1 \in 0 .. n + 1
      OBVIOUS
    <3>2. f[d - 1] = [x \in Nested[d - 1] |-> AtDepth(f, d - 1, x, val, comb)]
      BY <2>1, <3>1 DEF IsFold
    <3> QED  BY <2>2, <3>1, <3>2
  <2>4. ASSUME NEW d \in 0 .. n + 1, NEW x \in Nested[d]
        PROVE  AtDepth(f, d, x, val, comb) = AtDepth(g, d, x, val, comb)
    <3>1. CASE d = 0
      BY <2>4, <3>1, NestedIs, TuplesAre DEF AtDepth
    <3>2. CASE d # 0
      <4>1. d \in 1 .. n + 1
        BY <3>2
      <4> QED  BY <1>2, <2>3, <4>1
    <3> QED  BY <3>1, <3>2
  <2>5. [d \in 0 .. n + 1 |-> [x \in Nested[d] |-> AtDepth(g, d, x, val, comb)]] = g
    BY <2>2, <2>4
  <2>6. IsFold(g, n + 1, val, comb)
    BY <2>5 DEF IsFold
  <2> QED  BY <2>6
<1> DEFINE Q == {n \in Nat : n <= Depth => n \in P}
<1>5. 0 \in Q
  BY <1>3
<1>6. ASSUME NEW n \in Q PROVE n + 1 \in Q
  <2> HIDE DEF P
  <2>1. SUFFICES ASSUME n + 1 <= Depth PROVE n + 1 \in P
    OBVIOUS
  <2>2. n <= Depth
    BY <1>1, <2>1
  <2> QED  BY <1>4, <2>1, <2>2
<1> HIDE DEF P, Q
<1>7. Q = Nat
  BY <1>5, <1>6, Induction DEF Q
<1>8. ASSUME NEW n \in 0 .. Depth PROVE \E f : IsFold(f, n, val, comb)
  <2>1. n \in Nat /\ n <= Depth
    BY <1>1
  <2>2. n \in P
    BY <1>7, <2>1 DEF Q
  <2> QED  BY <2>2 DEF P
<1> QED  BY <1>8

(* What a fold gives: val of a value, and of a tuple comb of its items.    *)
LEMMA FoldIs ==
    ASSUME NEW V, NEW val \in [Values -> V], NEW comb \in [Seq(V) -> V]
    PROVE  /\ \A p \in Params : FoldTuples(p, val, comb) \in V
           /\ \A p \in Params :
                 IsTuple(p) =>
                    FoldTuples(p, val, comb) =
                       comb[[i \in DOMAIN p.items |-> FoldTuples(p.items[i], val, comb)]]
           /\ \A p \in Params : ~IsTuple(p) => FoldTuples(p, val, comb) = val[p]
<1>0. Depth \in Nat /\ Depth \in 0 .. Depth
  BY RequestsAssumption
<1>1. PICK f : /\ IsFold(f, Depth, val, comb)
               /\ \A p : FoldTuples(p, val, comb) = f[Depth][p]
  <2>1. PICK f : f = CHOOSE g : IsFold(g, Depth, val, comb)
    OBVIOUS
  <2>2. \E g : IsFold(g, Depth, val, comb)
    BY <1>0, FoldExists
  <2>3. IsFold(f, Depth, val, comb)
    BY <2>1, <2>2
  <2>4. \A p : FoldTuples(p, val, comb) = f[Depth][p]
    BY <2>1 DEF FoldTuples, IsFold, AtDepth
  <2> QED  BY <2>3, <2>4
<1>2. ASSUME NEW d \in 0 .. Depth, NEW x \in Nested[d]
      PROVE  f[d][x] = AtDepth(f, d, x, val, comb)
  BY <1>1, <1>2 DEF IsFold
<1>3. ASSUME NEW d \in 0 .. Depth PROVE DOMAIN f[d] = Nested[d]
  BY <1>1 DEF IsFold
<1>4. ASSUME NEW d \in 1 .. Depth
      PROVE  Nested[d] = Values \union TuplesOf(Nested[d - 1])
  BY NestedIs
<1>5. ASSUME NEW d \in 0 .. Depth, NEW x \in Values
      PROVE  x \in Nested[d] /\ f[d][x] = val[x] /\ val[x] \in V
  <2>1. x \in Nested[d]
    <3>1. d = 0 \/ d \in 1 .. Depth
      BY <1>0
    <3> QED  BY <1>4, <3>1, NestedIs
  <2> QED  BY <1>2, <2>1, TuplesAre DEF AtDepth
<1>6. ASSUME NEW d \in 1 .. Depth, NEW e, e = d - 1, NEW x \in TuplesOf(Nested[e]),
             NEW s, s = x.items
      PROVE  /\ x \in Nested[d] /\ IsTuple(x) /\ s \in Seq(Nested[e])
             /\ f[d][x] = comb[[i \in DOMAIN s |-> f[e][s[i]]]]
  <2>1. x \in Nested[d] /\ IsTuple(x) /\ s \in Seq(Nested[e])
    BY <1>4, <1>6, TuplesAre
  <2>2. d \in 0 .. Depth
    BY <1>0
  <2>3. f[d][x] = comb[[i \in DOMAIN s |-> f[d - 1][s[i]]]]
    BY <1>2, <1>6, <2>1, <2>2 DEF AtDepth
  <2> QED  BY <1>6, <2>1, <2>3
<1>7. ASSUME NEW d \in 0 .. Depth PROVE \A x \in Nested[d] : f[d][x] \in V
  <2> DEFINE P == {n \in Nat : n <= Depth => \A x \in Nested[n] : f[n][x] \in V}
  <2>1. 0 \in P
    <3>1. 0 \in 0 .. Depth
      BY <1>0
    <3> QED  BY <1>5, <3>1, NestedIs
  <2>2. ASSUME NEW n \in P PROVE n + 1 \in P
    <3>1. SUFFICES ASSUME n + 1 <= Depth, NEW x \in Nested[n + 1] PROVE f[n + 1][x] \in V
      OBVIOUS
    <3>2. n + 1 \in 1 .. Depth /\ n + 1 \in 0 .. Depth /\ (n + 1) - 1 = n /\ n <= Depth
      BY <1>0, <3>1
    <3>3. CASE x \in Values
      BY <1>5, <3>2, <3>3
    <3>4. CASE x \in TuplesOf(Nested[n])
      <4>1. PICK s, t : s = x.items /\ t = [i \in DOMAIN s |-> f[n][s[i]]]
        OBVIOUS
      <4>2. s \in Seq(Nested[n]) /\ f[n + 1][x] = comb[t]
        <5>1. PICK a : a = n + 1
          OBVIOUS
        <5>2. a \in 1 .. Depth /\ n = a - 1
          BY <3>2, <5>1
        <5>3. s = x.items /\ x \in TuplesOf(Nested[n])
          BY <3>4, <4>1
        <5>4. f[a][x] = comb[[i \in DOMAIN s |-> f[n][s[i]]]] /\ s \in Seq(Nested[n])
          BY <1>6, <5>2, <5>3
        <5> QED  BY <4>1, <5>1, <5>4
      <4>3. \A y \in Nested[n] : f[n][y] \in V
        BY <3>2
      <4>4. PICK m : m = Len(s)
        OBVIOUS
      <4>5. m \in Nat /\ DOMAIN s = 1 .. m /\ \A i \in 1 .. m : s[i] \in Nested[n]
        BY <4>2, <4>4
      <4>6. t \in [1 .. m -> V]
        BY <4>1, <4>3, <4>5
      <4>7. t \in Seq(V)
        BY <4>5, <4>6
      <4> QED  BY <4>2, <4>7
    <3> QED  BY <1>4, <3>1, <3>2, <3>3, <3>4
  <2> HIDE DEF P
  <2>3. P = Nat
    BY <2>1, <2>2, Induction DEF P
  <2>4. d \in P /\ d <= Depth
    BY <1>0, <2>3
  <2> QED  BY <2>4 DEF P
<1>8. ASSUME NEW d \in 1 .. Depth PROVE \A x \in Nested[d - 1] : f[d][x] = f[d - 1][x]
  <2> DEFINE P == {n \in Nat : n + 1 <= Depth => \A x \in Nested[n] : f[n + 1][x] = f[n][x]}
  <2>1. 0 \in P
    <3>1. SUFFICES ASSUME 0 + 1 <= Depth, NEW x \in Nested[0] PROVE f[0 + 1][x] = f[0][x]
      OBVIOUS
    <3>2. 0 \in 0 .. Depth /\ 0 + 1 \in 0 .. Depth /\ x \in Values
      BY <1>0, <3>1, NestedIs
    <3> QED  BY <1>5, <3>2
  <2>2. ASSUME NEW n \in P PROVE n + 1 \in P
    <3>1. SUFFICES ASSUME (n + 1) + 1 <= Depth, NEW x \in Nested[n + 1]
                   PROVE  f[(n + 1) + 1][x] = f[n + 1][x]
      OBVIOUS
    <3>2. PICK a, b : a = n + 1 /\ b = a + 1
      OBVIOUS
    <3>3. /\ a \in 1 .. Depth /\ b \in 1 .. Depth /\ a \in 0 .. Depth /\ b \in 0 .. Depth
          /\ a - 1 = n /\ b - 1 = a /\ n + 1 <= Depth
      BY <1>0, <3>1, <3>2
    <3>4. CASE x \in Values
      <4>1. f[a][x] = val[x] /\ f[b][x] = val[x]
        BY <1>5, <3>3, <3>4
      <4> QED  BY <3>2, <4>1
    <3>5. CASE x \in TuplesOf(Nested[n])
      <4>1. PICK s : s = x.items
        OBVIOUS
      <4>2. s \in Seq(Nested[n]) /\ f[a][x] = comb[[i \in DOMAIN s |-> f[n][s[i]]]]
        BY <1>6, <3>3, <3>5, <4>1
      <4>3. x \in TuplesOf(Nested[a])
        BY <3>3, <3>5, NestedGrows, TuplesAre
      <4>4. f[b][x] = comb[[i \in DOMAIN s |-> f[a][s[i]]]]
        BY <1>6, <3>3, <4>1, <4>3
      <4>5. \A i \in DOMAIN s : f[a][s[i]] = f[n][s[i]]
        <5>1. \A i \in DOMAIN s : s[i] \in Nested[n]
          BY <4>2
        <5> QED  BY <3>2, <3>3, <5>1
      <4>6. [i \in DOMAIN s |-> f[a][s[i]]] = [i \in DOMAIN s |-> f[n][s[i]]]
        BY <4>5
      <4> QED  BY <3>2, <4>2, <4>4, <4>6
    <3> QED  BY <1>4, <3>1, <3>2, <3>3, <3>4, <3>5
  <2> HIDE DEF P
  <2>3. P = Nat
    BY <2>1, <2>2, Induction DEF P
  <2>4. d - 1 \in Nat /\ (d - 1) + 1 = d /\ d <= Depth
    BY <1>0
  <2>5. d - 1 \in P
    BY <2>3, <2>4
  <2> QED  BY <2>4, <2>5 DEF P
<1>9. ASSUME NEW p \in Params PROVE FoldTuples(p, val, comb) \in V
  BY <1>0, <1>1, <1>7 DEF Params
<1>10. ASSUME NEW p \in Params, ~IsTuple(p) PROVE FoldTuples(p, val, comb) = val[p]
  <2>1. p \in Values
    BY <1>10, ParamsAre
  <2> QED  BY <1>0, <1>1, <1>5, <2>1
<1>11. ASSUME NEW p \in Params, IsTuple(p)
       PROVE  FoldTuples(p, val, comb) =
                 comb[[i \in DOMAIN p.items |-> FoldTuples(p.items[i], val, comb)]]
  <2>1. PICK s : s = p.items
    OBVIOUS
  <2>2. Depth # 0
    BY <1>11, NestedIs, TuplesAre DEF Params
  <2>3. Depth \in 1 .. Depth
    BY <1>0, <2>2
  <2>4. PICK e : e = Depth - 1
    OBVIOUS
  <2>5. p \in TuplesOf(Nested[e])
    BY <1>4, <1>11, <2>3, <2>4, TuplesAre DEF Params
  <2>6. s \in Seq(Nested[e]) /\ f[Depth][p] = comb[[i \in DOMAIN s |-> f[e][s[i]]]]
    BY <1>6, <2>1, <2>3, <2>5, <2>4
  <2>7. \A i \in DOMAIN s : f[e][s[i]] = FoldTuples(s[i], val, comb)
    <3>1. \A i \in DOMAIN s : s[i] \in Nested[e]
      BY <2>6
    <3> QED  BY <1>1, <1>8, <2>3, <2>4, <3>1
  <2>8. [i \in DOMAIN s |-> f[e][s[i]]] = [i \in DOMAIN s |-> FoldTuples(s[i], val, comb)]
    BY <2>7
  <2> QED  BY <1>1, <2>1, <2>6, <2>8
<1> QED  BY <1>9, <1>10, <1>11

-----------------------------------------------------------------------------
(* Parameters and their shapes                                             *)

Separated(parts) ==
    [i \in DOMAIN parts |-> IF i = 1 THEN parts[i] ELSE <<",">> \o parts[i]]

LEMMA ParenthesesType ==
    ASSUME NEW parts \in Seq(Seq(Tok))
    PROVE  /\ Separated(parts) \in Seq(Seq(Tok))
           /\ InParentheses(parts) = <<"(">> \o FlattenSeq(Separated(parts)) \o <<")">>
           /\ InParentheses(parts) \in Seq(Tok)
<1>1. PICK n, s : n = Len(parts) /\ s = Separated(parts)
  OBVIOUS
<1>2. n \in Nat /\ DOMAIN parts = 1 .. n /\ \A i \in 1 .. n : parts[i] \in Seq(Tok)
  BY <1>1
<1>3. "(" \in Tok /\ ")" \in Tok /\ "," \in Tok
  BY TokIs
<1>4. <<"(">> \in Seq(Tok) /\ <<")">> \in Seq(Tok) /\ <<",">> \in Seq(Tok)
  <2>1. \A x \in Tok : <<x>> \in Seq(Tok)
    OBVIOUS
  <2> QED  BY <1>3, <2>1
<1>5. \A i \in 1 .. n : <<",">> \o parts[i] \in Seq(Tok)
  BY <1>2, <1>4, ConcatProperties
<1>6. s \in [1 .. n -> Seq(Tok)]
  BY <1>1, <1>2, <1>5 DEF Separated
<1>7. s \in Seq(Seq(Tok))
  BY <1>2, <1>6
<1>8. FlattenSeq(s) \in Seq(Tok)
  BY <1>7, FlattenType
<1>9. <<"(">> \o FlattenSeq(s) \o <<")">> \in Seq(Tok)
  BY <1>4, <1>8, ConcatProperties
<1>10. InParentheses(parts) = <<"(">> \o FlattenSeq(s) \o <<")">>
  BY <1>1 DEF InParentheses, Separated
<1> QED  BY <1>1, <1>7, <1>9, <1>10

LEMMA GroupType ==
    ASSUME NEW n \in Nat
    PROVE  Group(n) \in Seq(Tok)
<1>1. PICK parts : parts = [i \in 1 .. n |-> <<"?">>]
  OBVIOUS
<1>2. <<"?">> \in Seq(Tok)
  <2>1. "?" \in Tok
    BY TokIs
  <2> QED  BY <2>1
<1>3. parts \in [1 .. n -> Seq(Tok)]
  BY <1>1, <1>2
<1>4. parts \in Seq(Seq(Tok))
  BY <1>3
<1> QED  BY <1>1, <1>4, ParenthesesType DEF Group

Shapes(items) == [i \in DOMAIN items |-> Shape(items[i])]

LEMMA ShapeIs ==
    ASSUME NEW p \in Params
    PROVE  /\ Shape(p) \in Seq(Tok)
           /\ IsTuple(p) => Shape(p) = InParentheses(Shapes(p.items))
           /\ ~IsTuple(p) => Shape(p) = <<"?">>
<1>1. PICK V, val, comb : /\ V = Seq(Tok) /\ val = [v \in Values |-> <<"?">>]
                          /\ comb = [parts \in Seq(V) |-> InParentheses(parts)]
  OBVIOUS
<1>2. val \in [Values -> V]
  <2>1. "?" \in Tok
    BY TokIs
  <2>2. <<"?">> \in Seq(Tok)
    BY <2>1
  <2> QED  BY <1>1, <2>2
<1>3. comb \in [Seq(V) -> V]
  BY <1>1, ParenthesesType
<1>4. \A q : Shape(q) = FoldTuples(q, val, comb)
  BY <1>1 DEF Shape, Tok
<1>5. \A q \in Params : Shape(q) \in V
  BY <1>2, <1>3, <1>4, FoldIs
<1>6. ASSUME IsTuple(p) PROVE Shape(p) = InParentheses(Shapes(p.items))
  <2>1. PICK items, n, s : items = p.items /\ n = Len(items) /\ s = Shapes(items)
    OBVIOUS
  <2>2. items \in Seq(Params)
    BY <1>6, <2>1, ParamsAre
  <2>3. n \in Nat /\ DOMAIN items = 1 .. n /\ \A i \in 1 .. n : items[i] \in Params
    BY <2>1, <2>2
  <2>4. s \in [1 .. n -> V]
    BY <1>5, <2>1, <2>3 DEF Shapes
  <2>5. s \in Seq(V)
    BY <2>3, <2>4
  <2>6. s = [i \in DOMAIN items |-> FoldTuples(items[i], val, comb)]
    BY <1>4, <2>1 DEF Shapes
  <2>7. FoldTuples(p, val, comb) =
           comb[[i \in DOMAIN p.items |-> FoldTuples(p.items[i], val, comb)]]
    BY <1>2, <1>3, <1>6, FoldIs
  <2>8. Shape(p) = comb[s]
    BY <1>4, <2>1, <2>6, <2>7
  <2> QED  BY <1>1, <2>1, <2>5, <2>8
<1>7. ASSUME ~IsTuple(p) PROVE Shape(p) = <<"?">>
  <2>1. p \in Values
    BY <1>7, ParamsAre
  <2>2. \A q \in Params : ~IsTuple(q) => FoldTuples(q, val, comb) = val[q]
    BY <1>2, <1>3, FoldIs
  <2>3. FoldTuples(p, val, comb) = val[p]
    BY <1>7, <2>2
  <2> QED  BY <1>1, <1>4, <2>1, <2>3
<1> QED  BY <1>1, <1>5, <1>6, <1>7

LEMMA ShapesType ==
    ASSUME NEW items \in Seq(Params)
    PROVE  /\ Shapes(items) \in Seq(Seq(Tok)) /\ Len(Shapes(items)) = Len(items)
           /\ \A i \in 1 .. Len(items) : Shapes(items)[i] = Shape(items[i])
           /\ \A i \in 1 .. Len(items) : Shape(items[i]) \in Seq(Tok)
<1>1. PICK n, s : n = Len(items) /\ s = Shapes(items)
  OBVIOUS
<1>2. n \in Nat /\ DOMAIN items = 1 .. n /\ \A i \in 1 .. n : items[i] \in Params
  BY <1>1
<1>3. \A i \in 1 .. n : Shape(items[i]) \in Seq(Tok)
  BY <1>2, ShapeIs
<1>4. s \in [1 .. n -> Seq(Tok)] /\ \A i \in 1 .. n : s[i] = Shape(items[i])
  BY <1>1, <1>2, <1>3 DEF Shapes
<1>5. s \in Seq(Seq(Tok)) /\ Len(s) = n
  BY <1>2, <1>4
<1> QED  BY <1>1, <1>3, <1>4, <1>5

-----------------------------------------------------------------------------
(* The text with shapes for its marks, from the mark after the m-th on     *)

Spot(ps, k) == IF k <= Len(ps) THEN Shape(ps[k]) ELSE <<"?">>
PartOf(x, ps, k) == IF x = "?" THEN Spot(ps, k) ELSE <<x>>
PartsOf(q, ps, m) == [i \in DOMAIN q |-> PartOf(q[i], ps, m + MarksUpTo(q, i))]
Shaped(q, ps, m) == FlattenSeq(PartsOf(q, ps, m))

LEMMA PartType ==
    ASSUME NEW x \in Tok, NEW ps \in Seq(Params), NEW k \in Nat \ {0}
    PROVE  PartOf(x, ps, k) \in Seq(Tok)
<1>1. <<x>> \in Seq(Tok)
  OBVIOUS
<1>2. CASE x = "?" /\ k <= Len(ps)
  <2>1. ps[k] \in Params
    BY <1>2
  <2> QED  BY <1>2, <2>1, ShapeIs DEF PartOf, Spot
<1>3. CASE ~(x = "?" /\ k <= Len(ps))
  BY <1>1, <1>3 DEF PartOf, Spot
<1> QED  BY <1>2, <1>3

(* A part that is no mark is the same wherever it stands.                  *)
LEMMA PartAt ==
    ASSUME NEW q \in Seq(Tok), NEW ps \in Seq(Params), NEW m \in Nat, NEW i \in 1 .. Len(q)
    PROVE  PartOf(q[i], ps, m + MarksUpTo(q, i)) \in Seq(Tok)
<1>1. q[i] \in Tok /\ i \in Nat
  OBVIOUS
<1>2. MarksUpTo(q, i) \in Nat
  BY <1>1, MarksType
<1>3. CASE q[i] = "?"
  <2>1. i - 1 \in Nat /\ (i - 1) + 1 = i
    OBVIOUS
  <2>2. MarksUpTo(q, i) = MarksUpTo(q, i - 1) + 1 /\ MarksUpTo(q, i - 1) \in Nat
    BY <1>3, <2>1, MarksStep, MarksType DEF OneFor
  <2>3. m + MarksUpTo(q, i) \in Nat \ {0}
    BY <2>2
  <2> QED  BY <1>1, <2>3, PartType
<1>4. CASE q[i] # "?"
  <2>1. <<q[i]>> \in Seq(Tok)
    BY <1>1
  <2> QED  BY <1>4, <2>1 DEF PartOf
<1> QED  BY <1>3, <1>4

LEMMA PartsType ==
    ASSUME NEW q \in Seq(Tok), NEW ps \in Seq(Params), NEW m \in Nat
    PROVE  /\ PartsOf(q, ps, m) \in Seq(Seq(Tok)) /\ Len(PartsOf(q, ps, m)) = Len(q)
           /\ \A i \in 1 .. Len(q) :
                 PartsOf(q, ps, m)[i] = PartOf(q[i], ps, m + MarksUpTo(q, i))
           /\ Shaped(q, ps, m) \in Seq(Tok)
<1>1. PICK n, s : n = Len(q) /\ s = PartsOf(q, ps, m)
  OBVIOUS
<1>2. n \in Nat /\ DOMAIN q = 1 .. n
  BY <1>1
<1>3. /\ s \in [1 .. n -> Seq(Tok)]
      /\ \A i \in 1 .. n : s[i] = PartOf(q[i], ps, m + MarksUpTo(q, i))
  BY <1>1, <1>2, PartAt DEF PartsOf
<1>4. s \in Seq(Seq(Tok)) /\ Len(s) = n
  BY <1>2, <1>3
<1>5. FlattenSeq(s) \in Seq(Tok)
  BY <1>4, FlattenType
<1> QED  BY <1>1, <1>3, <1>4, <1>5 DEF Shaped

LEMMA ShapedEmpty ==
    ASSUME NEW ps, NEW m
    PROVE  Shaped(<<>>, ps, m) = <<>>
<1>1. PartsOf(<<>>, ps, m) = <<>>
  BY DEF PartsOf
<1> QED  BY <1>1, FlattenEmpty DEF Shaped

LEMMA ShapedAppend ==
    ASSUME NEW q \in Seq(Tok), NEW x \in Tok, NEW ps \in Seq(Params), NEW m \in Nat
    PROVE  /\ PartOf(x, ps, m + MarksOf(q) + 1) \in Seq(Tok)
           /\ Shaped(Append(q, x), ps, m) =
                 Shaped(q, ps, m) \o PartOf(x, ps, m + MarksOf(q) + 1)
<1>1. PICK a, n, s, t, p : /\ a = Append(q, x) /\ n = Len(q)
                           /\ s = PartsOf(q, ps, m) /\ t = PartsOf(a, ps, m)
                           /\ p = PartOf(x, ps, m + MarksOf(q) + 1)
  OBVIOUS
<1>2. /\ a \in Seq(Tok) /\ n \in Nat /\ Len(a) = n + 1 /\ a[n + 1] = x
      /\ \A i \in 1 .. n : a[i] = q[i]
  BY <1>1
<1>3. /\ MarksOf(q) \in Nat
      /\ MarksUpTo(a, n + 1) = MarksOf(q) + OneFor(x)
      /\ \A i \in 0 .. n : MarksUpTo(a, i) = MarksUpTo(q, i)
  BY <1>1, MarksAppend
<1>4. p \in Seq(Tok)
  <2>1. m + MarksOf(q) + 1 \in Nat \ {0}
    BY <1>3
  <2> QED  BY <1>1, <2>1, PartType
<1>5. /\ s \in Seq(Seq(Tok)) /\ Len(s) = n
      /\ \A i \in 1 .. n : s[i] = PartOf(q[i], ps, m + MarksUpTo(q, i))
  BY <1>1, PartsType
<1>6. /\ t \in Seq(Seq(Tok)) /\ Len(t) = n + 1
      /\ \A i \in 1 .. n + 1 : t[i] = PartOf(a[i], ps, m + MarksUpTo(a, i))
  <2>1. a \in Seq(Tok) /\ Len(a) = n + 1 /\ t = PartsOf(a, ps, m)
    BY <1>1, <1>2
  <2> QED  BY <2>1, PartsType
<1>7. t[n + 1] = p
  <2>1. n + 1 \in 1 .. n + 1
    BY <1>2
  <2>2. t[n + 1] = PartOf(x, ps, m + (MarksOf(q) + OneFor(x)))
    BY <1>2, <1>3, <1>6, <2>1
  <2>3. CASE x = "?"
    <3>1. m + (MarksOf(q) + OneFor(x)) = m + MarksOf(q) + 1
      BY <1>3, <2>3 DEF OneFor
    <3> QED  BY <1>1, <2>2, <3>1
  <2>4. CASE x # "?"
    BY <1>1, <2>2, <2>4 DEF PartOf
  <2> QED  BY <2>3, <2>4
<1>8. ASSUME NEW i \in 1 .. n PROVE t[i] = s[i]
  <2>1. i \in 0 .. n /\ i \in 1 .. n + 1
    BY <1>2
  <2> QED  BY <1>2, <1>3, <1>5, <1>6, <2>1
<1>9. t \in [1 .. n + 1 -> Seq(Tok)]
  BY <1>2, <1>6
<1>10. t = Append(s, p)
  BY <1>2, <1>4, <1>5, <1>7, <1>8, <1>9, IsAppended
<1>11. FlattenSeq(t) = FlattenSeq(s) \o p
  BY <1>4, <1>5, <1>10, FlattenAppend
<1> QED  BY <1>1, <1>4, <1>11 DEF Shaped

Associates(u, v, w) == (u \o v) \o w = u \o (v \o w)

LEMMA TextsConcat == \A u, v, w \in Seq(Tok) : Associates(u, v, w)
  BY ConcatAssociative DEF Associates

LEMMA ShapedConcat ==
    ASSUME NEW q \in Seq(Tok), NEW r \in Seq(Tok), NEW ps \in Seq(Params), NEW m \in Nat
    PROVE  Shaped(q \o r, ps, m) = Shaped(q, ps, m) \o Shaped(r, ps, m + MarksOf(q))
<1> DEFINE k == m + MarksOf(q)
           P == {s \in Seq(Tok) : Shaped(q \o s, ps, m) = Shaped(q, ps, m) \o Shaped(s, ps, k)}
<1>1. Shaped(q, ps, m) \in Seq(Tok)
  BY PartsType
<1>2. MarksOf(q) \in Nat /\ k \in Nat
  BY MarksConcat
<1>3. <<>> \in P
  <2>1. q \o <<>> = q /\ <<>> \in Seq(Tok)
    OBVIOUS
  <2>2. Shaped(q, ps, m) \o <<>> = Shaped(q, ps, m)
    BY <1>1
  <2> QED  BY <2>1, <2>2, ShapedEmpty
<1>4. ASSUME NEW s \in P, NEW x \in Tok PROVE Append(s, x) \in P
  <2>1. s \in Seq(Tok) /\ q \o s \in Seq(Tok) /\ Append(s, x) \in Seq(Tok)
    OBVIOUS
  <2>2. q \o Append(s, x) = Append(q \o s, x)
    BY <2>1
  <2> DEFINE p == PartOf(x, ps, k + MarksOf(s) + 1)
  <2>3. Shaped(Append(s, x), ps, k) = Shaped(s, ps, k) \o p /\ p \in Seq(Tok)
    BY <1>2, <2>1, ShapedAppend
  <2>4. m + MarksOf(q \o s) + 1 = k + MarksOf(s) + 1
    <3>1. MarksOf(q \o s) = MarksOf(q) + MarksOf(s) /\ MarksOf(s) \in Nat
      BY <2>1, MarksConcat
    <3> QED  BY <1>2, <3>1
  <2>5. Shaped(Append(q \o s, x), ps, m) = Shaped(q \o s, ps, m) \o p
    <3>1. Shaped(Append(q \o s, x), ps, m) =
             Shaped(q \o s, ps, m) \o PartOf(x, ps, m + MarksOf(q \o s) + 1)
      BY <2>1, ShapedAppend
    <3> QED  BY <2>4, <3>1
  <2>6. Shaped(s, ps, k) \in Seq(Tok)
    BY <1>2, <2>1, PartsType
  <2>7. Shaped(q \o s, ps, m) = Shaped(q, ps, m) \o Shaped(s, ps, k)
    OBVIOUS
  <2>8. PICK u, v, w : u = Shaped(q, ps, m) /\ v = Shaped(s, ps, k) /\ w = p
    OBVIOUS
  <2>9. u \in Seq(Tok) /\ v \in Seq(Tok) /\ w \in Seq(Tok)
    BY <1>1, <2>3, <2>6, <2>8
  <2>10. (u \o v) \o w = u \o (v \o w)
    <3>1. Associates(u, v, w)
      BY ONLY <2>9, TextsConcat
    <3> QED  BY ONLY <3>1 DEF Associates
  <2>11. Shaped(q \o Append(s, x), ps, m) = (u \o v) \o w
    BY <2>2, <2>5, <2>7, <2>8
  <2>12. Shaped(Append(s, x), ps, k) = v \o w
    BY <2>3, <2>8
  <2> QED  BY <2>1, <2>8, <2>10, <2>11, <2>12
<1> HIDE DEF P
<1>5. P = Seq(Tok)
  BY <1>3, <1>4, AppendInduction DEF P
<1>6. r \in P
  BY <1>5
<1> QED  BY <1>6 DEF P

(* What the shapes are for the marks there are is all that counts.         *)
LEMMA ShapedAlike ==
    ASSUME NEW q \in Seq(Tok), NEW ps \in Seq(Params), NEW pt \in Seq(Params),
           NEW m \in Nat, NEW l \in Nat,
           \A j \in 1 .. MarksOf(q) : Spot(ps, m + j) = Spot(pt, l + j)
    PROVE  Shaped(q, ps, m) = Shaped(q, pt, l)
<1>1. PICK n, s, t : n = Len(q) /\ s = PartsOf(q, ps, m) /\ t = PartsOf(q, pt, l)
  OBVIOUS
<1>2. /\ s \in Seq(Seq(Tok)) /\ Len(s) = n
      /\ \A i \in 1 .. n : s[i] = PartOf(q[i], ps, m + MarksUpTo(q, i))
  BY <1>1, PartsType
<1>3. /\ t \in Seq(Seq(Tok)) /\ Len(t) = n
      /\ \A i \in 1 .. n : t[i] = PartOf(q[i], pt, l + MarksUpTo(q, i))
  BY <1>1, PartsType
<1>4. n \in Nat
  BY <1>1
<1>5. ASSUME NEW i \in 1 .. n PROVE s[i] = t[i]
  <2>1. CASE q[i] # "?"
    BY <1>2, <1>3, <2>1 DEF PartOf
  <2>2. CASE q[i] = "?"
    <3>1. MarksUpTo(q, i) \in 1 .. MarksOf(q)
      BY <1>1, <1>4, <2>2, MarkIsCounted
    <3> QED  BY <1>2, <1>3, <2>2, <3>1 DEF PartOf
  <2> QED  BY <2>1, <2>2
<1>6. s = t
  BY <1>2, <1>3, <1>5, SeqEqual
<1> QED  BY <1>1, <1>6 DEF Shaped

-----------------------------------------------------------------------------
(* One tuple is opened                                                     *)

LEMMA ShapedOne ==
    ASSUME NEW x \in Tok, NEW ps \in Seq(Params), NEW m \in Nat
    PROVE  /\ <<x>> \in Seq(Tok) /\ MarksOf(<<x>>) = OneFor(x)
           /\ Shaped(<<x>>, ps, m) = PartOf(x, ps, m + 1)
<1>1. PICK e : e = <<>>
  OBVIOUS
<1>2. e \in Seq(Tok) /\ Append(e, x) = <<x>> /\ MarksOf(e) = 0 /\ Shaped(e, ps, m) = <<>>
  BY <1>1, MarksEmpty, ShapedEmpty
<1>3. MarksOf(<<x>>) = 0 + OneFor(x)
  BY <1>2, MarksAppend
<1>4. /\ PartOf(x, ps, m + 0 + 1) \in Seq(Tok)
      /\ Shaped(<<x>>, ps, m) = <<>> \o PartOf(x, ps, m + 0 + 1)
  <2>1. /\ PartOf(x, ps, m + MarksOf(e) + 1) \in Seq(Tok)
        /\ Shaped(Append(e, x), ps, m) =
              Shaped(e, ps, m) \o PartOf(x, ps, m + MarksOf(e) + 1)
    BY <1>2, ShapedAppend
  <2> QED  BY <1>2, <2>1
<1>5. m + 0 + 1 = m + 1
  OBVIOUS
<1>6. Shaped(<<x>>, ps, m) = PartOf(x, ps, m + 1)
  BY <1>4, <1>5, ConcatEmptySeq
<1>7. <<x>> \in Seq(Tok) /\ 0 + OneFor(x) = OneFor(x)
  BY DEF OneFor
<1> QED  BY <1>3, <1>6, <1>7

Piece(n, y) == IF n = 0 THEN y ELSE <<",">> \o y

LEMMA PieceType ==
    ASSUME NEW n, NEW y \in Seq(Tok)
    PROVE  Piece(n, y) \in Seq(Tok)
<1>1. \A x \in Tok : <<x>> \in Seq(Tok)
  OBVIOUS
<1>2. <<",">> \in Seq(Tok)
  BY <1>1, TokIs
<1> QED  BY <1>2, ConcatProperties DEF Piece

LEMMA SeparatedAppend ==
    ASSUME NEW parts \in Seq(Seq(Tok)), NEW y \in Seq(Tok)
    PROVE  FlattenSeq(Separated(Append(parts, y))) =
              FlattenSeq(Separated(parts)) \o Piece(Len(parts), y)
<1>1. PICK a, n, s, t : /\ a = Append(parts, y) /\ n = Len(parts)
                        /\ s = Separated(parts) /\ t = Separated(a)
  OBVIOUS
<1>2. /\ a \in Seq(Seq(Tok)) /\ n \in Nat /\ Len(a) = n + 1 /\ a[n + 1] = y
      /\ \A i \in 1 .. n : a[i] = parts[i]
  <2>1. PICK T : T = Seq(Tok)
    OBVIOUS
  <2>2. /\ a \in Seq(T) /\ n \in Nat /\ Len(a) = n + 1 /\ a[n + 1] = y
        /\ \A i \in 1 .. n : a[i] = parts[i]
    BY <1>1, <2>1, AppendEnds, AppendProperties
  <2> QED  BY <2>1, <2>2
<1>3. DOMAIN parts = 1 .. n /\ DOMAIN a = 1 .. n + 1
  BY <1>1, <1>2
<1>4. /\ DOMAIN s = 1 .. n /\ DOMAIN t = 1 .. n + 1
      /\ t[n + 1] = Piece(n, y) /\ \A i \in 1 .. n : t[i] = s[i]
  <2>1. /\ DOMAIN s = 1 .. n /\ DOMAIN t = 1 .. n + 1
        /\ \A i \in 1 .. n : s[i] = IF i = 1 THEN parts[i] ELSE <<",">> \o parts[i]
        /\ \A i \in 1 .. n + 1 : t[i] = IF i = 1 THEN a[i] ELSE <<",">> \o a[i]
    BY <1>1, <1>3 DEF Separated
  <2>2. n + 1 \in 1 .. n + 1 /\ (n + 1 = 1 <=> n = 0)
    BY <1>2
  <2>3. t[n + 1] = Piece(n, y)
    BY <1>2, <2>1, <2>2 DEF Piece
  <2>4. \A i \in 1 .. n : i \in 1 .. n + 1 /\ a[i] = parts[i]
    BY <1>2
  <2>5. \A i \in 1 .. n : t[i] = s[i]
    BY <2>1, <2>4
  <2> QED  BY <2>1, <2>3, <2>5
<1>5. s \in Seq(Seq(Tok)) /\ t \in Seq(Seq(Tok)) /\ Piece(n, y) \in Seq(Tok)
  BY <1>1, <1>2, ParenthesesType, PieceType
<1>6. Len(s) = n /\ t \in [1 .. n + 1 -> Seq(Tok)]
  BY <1>2, <1>4, <1>5
<1>7. t = Append(s, Piece(n, y))
  BY <1>2, <1>4, <1>5, <1>6, IsAppended
<1> QED  BY <1>1, <1>5, <1>7, FlattenAppend

Ones(n) == [i \in 1 .. n |-> <<"?">>]

LEMMA OnesAppend ==
    ASSUME NEW n \in Nat
    PROVE  /\ <<"?">> \in Seq(Tok) /\ Ones(n) \in Seq(Seq(Tok)) /\ Len(Ones(n)) = n
           /\ Ones(n + 1) = Append(Ones(n), <<"?">>)
<1>1. "?" \in Tok
  BY TokIs
<1>2. <<"?">> \in Seq(Tok)
  BY <1>1
<1>3. \A k \in Nat : Ones(k) \in [1 .. k -> Seq(Tok)]
  BY <1>2 DEF Ones
<1>4. Ones(n) \in Seq(Seq(Tok)) /\ Len(Ones(n)) = n
  BY <1>3
<1>5. Ones(n + 1)[n + 1] = <<"?">> /\ \A i \in 1 .. n : Ones(n + 1)[i] = Ones(n)[i]
  BY DEF Ones
<1>6. Ones(n + 1) \in [1 .. n + 1 -> Seq(Tok)]
  BY <1>3
<1> QED  BY <1>2, <1>4, <1>5, <1>6, IsAppended

LEMMA ShapesAppend ==
    ASSUME NEW items \in Seq(Params), NEW x \in Params
    PROVE  /\ Shape(x) \in Seq(Tok)
           /\ Shapes(Append(items, x)) = Append(Shapes(items), Shape(x))
<1>1. PICK a, n, s, t : /\ a = Append(items, x) /\ n = Len(items)
                        /\ s = Shapes(items) /\ t = Shapes(a)
  OBVIOUS
<1>2. /\ a \in Seq(Params) /\ n \in Nat /\ Len(a) = n + 1 /\ a[n + 1] = x
      /\ \A i \in 1 .. n : a[i] = items[i]
  BY <1>1
<1>3. /\ s \in Seq(Seq(Tok)) /\ Len(s) = n /\ \A i \in 1 .. n : s[i] = Shape(items[i])
  BY <1>1, ShapesType
<1>4. /\ t \in Seq(Seq(Tok)) /\ Len(t) = n + 1
      /\ \A i \in 1 .. n + 1 : t[i] = Shape(a[i]) /\ Shape(a[i]) \in Seq(Tok)
  <2>1. a \in Seq(Params) /\ Len(a) = n + 1 /\ t = Shapes(a)
    BY <1>1, <1>2
  <2> QED  BY <2>1, ShapesType
<1>5. n + 1 \in 1 .. n + 1 /\ \A i \in 1 .. n : i \in 1 .. n + 1
  BY <1>2
<1>6. t[n + 1] = Shape(x) /\ Shape(x) \in Seq(Tok) /\ \A i \in 1 .. n : t[i] = s[i]
  BY <1>2, <1>3, <1>4, <1>5
<1>7. t \in [1 .. n + 1 -> Seq(Tok)]
  BY <1>2, <1>4
<1>8. t = Append(s, Shape(x))
  BY <1>2, <1>3, <1>6, <1>7, IsAppended
<1> QED  BY <1>1, <1>6, <1>8

Body(n) == FlattenSeq(Separated(Ones(n)))

(* The shape of a tuple is that of the group its marker becomes.           *)
LEMMA BodyShaped ==
    ASSUME NEW items \in Seq(Params), NEW pt \in Seq(Params), NEW l \in Nat,
           \A j \in 1 .. Len(items) : Spot(pt, l + j) = Shape(items[j])
    PROVE  /\ Body(Len(items)) \in Seq(Tok) /\ MarksOf(Body(Len(items))) = Len(items)
           /\ Shaped(Body(Len(items)), pt, l) = FlattenSeq(Separated(Shapes(items)))
<1> DEFINE Fit(s) == \A j \in 1 .. Len(s) : Spot(pt, l + j) = Shape(s[j])
           Good(s) == /\ Body(Len(s)) \in Seq(Tok) /\ MarksOf(Body(Len(s))) = Len(s)
                      /\ Shaped(Body(Len(s)), pt, l) = FlattenSeq(Separated(Shapes(s)))
           P == {s \in Seq(Params) : Fit(s) => Good(s)}
<1>1. <<>> \in P
  <2>1. Separated(<<>>) = <<>> /\ Ones(0) = <<>> /\ Shapes(<<>>) = <<>> /\ Len(<<>>) = 0
    BY DEF Separated, Ones, Shapes
  <2>2. Body(0) = <<>> /\ FlattenSeq(Separated(Shapes(<<>>))) = <<>>
    BY <2>1, FlattenEmpty DEF Body
  <2>3. <<>> \in Seq(Params) /\ <<>> \in Seq(Tok)
    OBVIOUS
  <2> QED  BY <2>1, <2>2, <2>3, MarksEmpty, ShapedEmpty
<1>2. ASSUME NEW s \in P, NEW x \in Params PROVE Append(s, x) \in P
  <2>1. PICK a, n : a = Append(s, x) /\ n = Len(s)
    OBVIOUS
  <2>2. /\ s \in Seq(Params) /\ a \in Seq(Params) /\ n \in Nat /\ Len(a) = n + 1
        /\ a[n + 1] = x /\ \A i \in 1 .. n : a[i] = s[i]
    BY <2>1
  <2>3. SUFFICES ASSUME Fit(a) PROVE Good(a)
    BY <2>1, <2>2
  <2>4. Fit(s)
    BY <2>1, <2>2, <2>3
  <2>5. Good(s)
    BY <2>4
  <2>6. PICK b, f : b = Body(n) /\ f = FlattenSeq(Separated(Shapes(s)))
    OBVIOUS
  <2>7. b \in Seq(Tok) /\ MarksOf(b) = n /\ Shaped(b, pt, l) = f
    BY <2>1, <2>5, <2>6
  <2>8. Spot(pt, l + n + 1) = Shape(x) /\ Shape(x) \in Seq(Tok)
    <3>1. n + 1 \in 1 .. Len(a) /\ l + (n + 1) = l + n + 1
      BY <2>2
    <3>2. Spot(pt, l + (n + 1)) = Shape(a[n + 1])
      BY <2>3, <3>1
    <3> QED  BY <2>2, <3>1, <3>2, ShapesAppend
  <2> HIDE DEF P, Fit
  <2>9. Body(n + 1) = b \o Piece(n, <<"?">>) /\ Piece(n, <<"?">>) \in Seq(Tok)
    <3>1. /\ <<"?">> \in Seq(Tok) /\ Ones(n) \in Seq(Seq(Tok)) /\ Len(Ones(n)) = n
          /\ Ones(n + 1) = Append(Ones(n), <<"?">>)
      BY <2>2, OnesAppend
    <3>2. FlattenSeq(Separated(Append(Ones(n), <<"?">>))) =
             FlattenSeq(Separated(Ones(n))) \o Piece(Len(Ones(n)), <<"?">>)
      BY <3>1, SeparatedAppend
    <3> QED  BY <2>6, <3>1, <3>2, PieceType DEF Body
  <2>10. FlattenSeq(Separated(Shapes(a))) = f \o Piece(n, Shape(x))
    <3>1. /\ Shapes(s) \in Seq(Seq(Tok)) /\ Len(Shapes(s)) = n
          /\ Shapes(a) = Append(Shapes(s), Shape(x))
      BY <2>1, <2>2, ShapesType, ShapesAppend
    <3>2. FlattenSeq(Separated(Append(Shapes(s), Shape(x)))) =
             FlattenSeq(Separated(Shapes(s))) \o Piece(Len(Shapes(s)), Shape(x))
      BY <2>8, <3>1, SeparatedAppend
    <3> QED  BY <2>6, <3>1, <3>2
  <2>11. /\ Shaped(Piece(n, <<"?">>), pt, l + n) = Piece(n, Shape(x))
         /\ MarksOf(Piece(n, <<"?">>)) = 1
    <3>1. l + n \in Nat /\ (l + n) + 0 = l + n
      BY <2>2
    <3>6. "?" \in Tok /\ "," \in Tok
      BY TokIs
    <3>2. /\ <<"?">> \in Seq(Tok) /\ MarksOf(<<"?">>) = 1
          /\ Shaped(<<"?">>, pt, l + n) = Shape(x)
      BY <2>8, <3>1, <3>6, ShapedOne DEF PartOf, OneFor
    <3>3. /\ <<",">> \in Seq(Tok) /\ MarksOf(<<",">>) = 0
          /\ Shaped(<<",">>, pt, l + n) = <<",">>
      BY <3>1, <3>6, ShapedOne DEF PartOf, OneFor
    <3>4. MarksOf(<<",">> \o <<"?">>) = 1
      <4>1. MarksOf(<<",">> \o <<"?">>) = MarksOf(<<",">>) + MarksOf(<<"?">>)
        BY <3>2, <3>3, MarksConcat
      <4>2. 0 + 1 = 1
        OBVIOUS
      <4> QED  BY <3>2, <3>3, <4>1, <4>2, Zenon
    <3>5. Shaped(<<",">> \o <<"?">>, pt, l + n) = <<",">> \o Shape(x)
      <4>2. Shaped(<<",">> \o <<"?">>, pt, l + n) =
               Shaped(<<",">>, pt, l + n) \o Shaped(<<"?">>, pt, (l + n) + MarksOf(<<",">>))
        BY <3>1, <3>2, <3>3, ShapedConcat
      <4> QED  BY <3>1, <3>2, <3>3, <4>2
    <3> QED  BY <3>2, <3>4, <3>5 DEF Piece
  <2>12. Body(n + 1) \in Seq(Tok)
    BY <2>7, <2>9, ConcatProperties
  <2>13. MarksOf(Body(n + 1)) = n + 1
    BY <2>2, <2>7, <2>9, <2>11, MarksConcat
  <2>14. Shaped(Body(n + 1), pt, l) = f \o Piece(n, Shape(x))
    <3>1. Shaped(b \o Piece(n, <<"?">>), pt, l) =
             Shaped(b, pt, l) \o Shaped(Piece(n, <<"?">>), pt, l + MarksOf(b))
      BY <2>7, <2>9, ShapedConcat
    <3> QED  BY <2>7, <2>9, <2>11, <3>1
  <2> QED  BY <2>2, <2>10, <2>12, <2>13, <2>14
<1> HIDE DEF P
<1>3. P = Seq(Params)
  BY <1>1, <1>2, AppendInduction DEF P
<1>4. items \in P
  BY <1>3
<1> QED  BY <1>4 DEF P

LEMMA GroupShaped ==
    ASSUME NEW items \in Seq(Params), NEW pt \in Seq(Params), NEW l \in Nat,
           \A j \in 1 .. Len(items) : Spot(pt, l + j) = Shape(items[j])
    PROVE  /\ MarksOf(Group(Len(items))) = Len(items)
           /\ Shaped(Group(Len(items)), pt, l) = InParentheses(Shapes(items))
<1>1. PICK n, b, f : n = Len(items) /\ b = Body(n) /\ f = FlattenSeq(Separated(Shapes(items)))
  OBVIOUS
<1>2. b \in Seq(Tok) /\ MarksOf(b) = n /\ Shaped(b, pt, l) = f
  BY <1>1, BodyShaped
<1>3. n \in Nat
  BY <1>1
<1>4. "(" \in Tok /\ ")" \in Tok
  BY TokIs
<1>5. /\ <<"(">> \in Seq(Tok) /\ MarksOf(<<"(">>) = 0 /\ Shaped(<<"(">>, pt, l) = <<"(">>
  BY <1>4, ShapedOne DEF OneFor, PartOf
<1>6. /\ <<")">> \in Seq(Tok) /\ MarksOf(<<")">>) = 0 /\ Shaped(<<")">>, pt, l + n) = <<")">>
  <2>1. l + n \in Nat
    BY <1>3
  <2> QED  BY <1>4, <2>1, ShapedOne DEF OneFor, PartOf
<1>7. Group(n) = <<"(">> \o b \o <<")">>
  <2>1. Ones(n) \in Seq(Seq(Tok))
    BY <1>3, OnesAppend
  <2>2. InParentheses(Ones(n)) = <<"(">> \o b \o <<")">>
    BY <1>1, <2>1, ParenthesesType DEF Body
  <2> QED  BY <2>2 DEF Group, Ones
<1>8. InParentheses(Shapes(items)) = <<"(">> \o f \o <<")">>
  BY <1>1, ShapesType, ParenthesesType
<1>9. /\ <<"(">> \o b \in Seq(Tok) /\ MarksOf(<<"(">> \o b) = n
      /\ Shaped(<<"(">> \o b, pt, l) = <<"(">> \o f
  <2>1. l + 0 = l /\ 0 + n = n
    BY <1>3
  <2>2. <<"(">> \o b \in Seq(Tok)
    BY <1>2, <1>5, ConcatProperties
  <2>3. MarksOf(<<"(">> \o b) = 0 + n
    BY <1>2, <1>5, MarksConcat
  <2>4. Shaped(<<"(">> \o b, pt, l) = Shaped(<<"(">>, pt, l) \o Shaped(b, pt, l + MarksOf(<<"(">>))
    BY <1>2, <1>5, ShapedConcat
  <2> QED  BY <1>2, <1>5, <2>1, <2>2, <2>3, <2>4
<1>10. MarksOf(Group(n)) = n
  <2>1. MarksOf((<<"(">> \o b) \o <<")">>) = MarksOf(<<"(">> \o b) + MarksOf(<<")">>)
    BY <1>6, <1>9, MarksConcat
  <2>2. n + 0 = n
    BY <1>3
  <2> QED  BY <1>6, <1>7, <1>9, <2>1, <2>2
<1>11. Shaped(Group(n), pt, l) = <<"(">> \o f \o <<")">>
  <2>1. Shaped(Group(n), pt, l) =
           Shaped(<<"(">> \o b, pt, l) \o Shaped(<<")">>, pt, l + MarksOf(<<"(">> \o b))
    BY <1>6, <1>7, <1>9, ShapedConcat, ZenonT(60)
  <2> QED  BY <1>6, <1>9, <2>1
<1> QED  BY <1>1, <1>8, <1>10, <1>11

LEMMA WithShapesIs ==
    ASSUME NEW q \in Seq(Tok), NEW ps \in Seq(Params)
    PROVE  WithShapes(q, ps) = Shaped(q, ps, 0)
<1>1. PICK n, t : /\ n = Len(q)
                  /\ t = [i \in DOMAIN q |->
                            IF q[i] = "?" /\ MarksUpTo(q, i) <= Len(ps)
                            THEN Shape(ps[MarksUpTo(q, i)]) ELSE <<q[i]>>]
  OBVIOUS
<1>2. n \in Nat /\ DOMAIN q = 1 .. n
  BY <1>1
<1>3. ASSUME NEW i \in 1 .. n PROVE t[i] = PartOf(q[i], ps, 0 + MarksUpTo(q, i))
  <2>1. i \in Nat
    OBVIOUS
  <2>2. MarksUpTo(q, i) \in Nat
    BY <2>1, MarksType
  <2>3. 0 + MarksUpTo(q, i) = MarksUpTo(q, i)
    BY <2>2
  <2> QED  BY <1>1, <1>2, <2>3 DEF PartOf, Spot
<1>4. t = PartsOf(q, ps, 0)
  BY <1>1, <1>2, <1>3 DEF PartsOf
<1> QED  BY <1>1, <1>4 DEF WithShapes, Shaped

(* What is left when all tuples are open.                                  *)
LEMMA NoTuplesShaped ==
    ASSUME NEW q \in Seq(Tok), NEW ps \in Seq(Params), \A i \in DOMAIN ps : ~IsTuple(ps[i])
    PROVE  WithShapes(q, ps) = q
<1>1. PICK n, t : n = Len(q) /\ t = PartsOf(q, ps, 0)
  OBVIOUS
<1>2. n \in Nat /\ DOMAIN q = 1 .. n
  BY <1>1
<1>3. ASSUME NEW i \in 1 .. n PROVE t[i] = <<q[i]>>
  <2>1. t[i] = PartOf(q[i], ps, 0 + MarksUpTo(q, i))
    BY <1>1, PartsType
  <2>2. CASE q[i] = "?"
    <3>1. PICK k : k = 0 + MarksUpTo(q, i)
      OBVIOUS
    <3>2. k \in Nat \ {0}
      <4>1. MarksUpTo(q, i) \in 1 .. MarksOf(q)
        BY <1>1, <1>2, <2>2, MarkIsCounted
      <4>2. MarksOf(q) \in Nat
        BY <1>1, <1>2, MarksType DEF MarksOf
      <4> QED  BY <3>1, <4>1, <4>2
    <3>3. Spot(ps, k) = <<"?">>
      <4>1. CASE k <= Len(ps)
        <5>1. k \in DOMAIN ps
          BY <3>2, <4>1
        <5>2. ps[k] \in Params /\ ~IsTuple(ps[k])
          BY <5>1
        <5> QED  BY <4>1, <5>2, ShapeIs DEF Spot
      <4>2. CASE ~(k <= Len(ps))
        BY <4>2 DEF Spot
      <4> QED  BY <4>1, <4>2
    <3> QED  BY <2>1, <2>2, <3>1, <3>3 DEF PartOf
  <2>3. CASE q[i] # "?"
    BY <2>1, <2>3 DEF PartOf
  <2> QED  BY <2>2, <2>3
<1>4. DOMAIN t = 1 .. n
  BY <1>1, <1>2 DEF PartsOf
<1>5. t = [i \in DOMAIN q |-> <<q[i]>>]
  BY <1>1, <1>2, <1>3, <1>4 DEF PartsOf
<1>6. FlattenSeq(t) = q
  BY <1>5, FlattenSingles
<1> QED  BY <1>1, <1>6, WithShapesIs DEF Shaped

LEMMA ConcatIs ==
    ASSUME NEW S, NEW s \in Seq(S), NEW t \in Seq(S)
    PROVE  /\ s \o t \in Seq(S) /\ Len(s \o t) = Len(s) + Len(t)
           /\ \A j \in 1 .. Len(s) : (s \o t)[j] = s[j]
           /\ \A j \in 1 .. Len(t) : (s \o t)[Len(s) + j] = t[j]
<1>1. PICK n, m, u : n = Len(s) /\ m = Len(t) /\ u = s \o t
  OBVIOUS
<1>2. n \in Nat /\ m \in Nat
  BY <1>1
<1>3. \A j \in 1 .. n + m : u[j] = IF j <= n THEN s[j] ELSE t[j - n]
  BY <1>1, ConcatProperties
<1>4. \A j \in 1 .. n : u[j] = s[j]
  BY <1>2, <1>3
<1>5. ASSUME NEW j \in 1 .. m PROVE u[n + j] = t[j]
  <2>1. n + j \in 1 .. n + m /\ ~(n + j <= n) /\ (n + j) - n = j
    BY <1>2
  <2> QED  BY <1>3, <2>1
<1> QED  BY <1>1, <1>4, <1>5, ConcatProperties

Opened(ps, i) == SubSeq(ps, 1, i - 1) \o ps[i].items \o SubSeq(ps, i + 1, Len(ps))

LEMMA SameShift ==
    ASSUME NEW i \in Int, NEW k \in Int, NEW n \in Int, NEW j \in Int
    PROVE  (i - 1) + k + j <= (i - 1) + k + (n - i) <=> j <= n - i
<1>1. PICK u, v : u = (i - 1) + k /\ v = n - i
  OBVIOUS
<1>2. u \in Int /\ v \in Int
  BY <1>1
<1>3. u + j <= u + v <=> j <= v
  BY <1>2
<1> QED  BY <1>1, <1>3

LEMMA WithinItems ==
    ASSUME NEW n \in Nat, NEW i \in 1 .. n, NEW k \in Nat, NEW j \in 1 .. k
    PROVE  (i - 1) + j <= (i - 1) + k + (n - i)
<1>1. PICK u, v : u = i - 1 /\ v = n - i
  OBVIOUS
<1>2. u \in Nat /\ v \in Nat
  BY <1>1
<1>3. u + j <= u + k + v
  BY <1>2
<1> QED  BY <1>1, <1>3

IsOpened(pt, ps, i, n, items, k) ==
    /\ Len(pt) = (i - 1) + k + (n - i)
    /\ \A j \in 1 .. i - 1 : pt[j] = ps[j]
    /\ \A j \in 1 .. k : pt[(i - 1) + j] = items[j]
    /\ \A j \in 1 .. n - i : pt[(i - 1) + k + j] = ps[i + j]

LEMMA OpenedIs ==
    ASSUME NEW ps \in Seq(Params), NEW i \in 1 .. Len(ps), ps[i].items \in Seq(Params)
    PROVE  /\ SubSeq(ps, 1, i - 1) \in Seq(Params) /\ SubSeq(ps, i + 1, Len(ps)) \in Seq(Params)
           /\ ps = Append(SubSeq(ps, 1, i - 1), ps[i]) \o SubSeq(ps, i + 1, Len(ps))
           /\ Opened(ps, i) \in Seq(Params)
           /\ IsOpened(Opened(ps, i), ps, i, Len(ps), ps[i].items, Len(ps[i].items))
<1>0. PICK n, items, k : n = Len(ps) /\ items = ps[i].items /\ k = Len(items)
  OBVIOUS
<1>14. n \in Nat /\ i \in 1 .. n /\ k \in Nat /\ items \in Seq(Params)
  BY <1>0
<1>1. PICK a, b, c, d : /\ a = SubSeq(ps, 1, i - 1) /\ b = SubSeq(ps, i + 1, n)
                        /\ c = a \o items /\ d = c \o b
  OBVIOUS
<1>2. \A j \in 1 .. n : ps[j] \in Params
  BY <1>0
<1>3. a \in Seq(Params) /\ Len(a) = i - 1 /\ \A j \in 1 .. i - 1 : a[j] = ps[j]
  BY <1>0, <1>1, <1>2
<1>4. b \in Seq(Params) /\ Len(b) = n - i /\ \A j \in 1 .. n - i : b[j] = ps[i + j]
  BY <1>0, <1>1, <1>2
<1>5. items \in Seq(Params)
  BY <1>14
<1>6. /\ c \in Seq(Params) /\ Len(c) = (i - 1) + k
      /\ \A j \in 1 .. i - 1 : c[j] = a[j]
      /\ \A j \in 1 .. k : c[(i - 1) + j] = items[j]
  <2>1. /\ c \in Seq(Params) /\ Len(c) = Len(a) + Len(items)
        /\ \A j \in 1 .. Len(a) : c[j] = a[j]
        /\ \A j \in 1 .. Len(items) : c[Len(a) + j] = items[j]
    BY <1>1, <1>3, <1>5, ConcatIs
  <2> QED  BY <1>0, <1>3, <2>1
<1>7. /\ d \in Seq(Params) /\ Len(d) = ((i - 1) + k) + (n - i)
      /\ \A j \in 1 .. (i - 1) + k : d[j] = c[j]
      /\ \A j \in 1 .. n - i : d[((i - 1) + k) + j] = b[j]
  <2>1. /\ d \in Seq(Params) /\ Len(d) = Len(c) + Len(b)
        /\ \A j \in 1 .. Len(c) : d[j] = c[j]
        /\ \A j \in 1 .. Len(b) : d[Len(c) + j] = b[j]
    <3>1. c \in Seq(Params) /\ b \in Seq(Params) /\ d = c \o b
      BY <1>1, <1>4, <1>6
    <3> QED  BY <3>1, ConcatIs
  <2> QED  BY <1>4, <1>6, <2>1
<1>8. Len(d) = (i - 1) + k + (n - i)
  BY <1>7, <1>14
<1>9. ASSUME NEW j \in 1 .. i - 1 PROVE d[j] = ps[j]
  <2>1. j \in 1 .. (i - 1) + k
    BY <1>14
  <2> QED  BY <1>3, <1>6, <1>7, <2>1
<1>10. ASSUME NEW j \in 1 .. k PROVE d[(i - 1) + j] = items[j]
  <2>1. (i - 1) + j \in 1 .. (i - 1) + k
    BY <1>14
  <2> QED  BY <1>6, <1>7, <2>1
<1>11. \A j \in 1 .. n - i : d[(i - 1) + k + j] = ps[i + j]
  BY <1>4, <1>7, <1>14
<1>12. Opened(ps, i) = d
  BY <1>0, <1>1 DEF Opened
<1>13. ps = Append(a, ps[i]) \o b
  <2>1. PICK e, f : e = Append(a, ps[i]) /\ f = e \o b
    OBVIOUS
  <2>2. e \in Seq(Params) /\ Len(e) = i /\ e[i] = ps[i] /\ \A j \in 1 .. i - 1 : e[j] = a[j]
    <3>1. /\ e \in Seq(Params) /\ Len(e) = (i - 1) + 1 /\ e[(i - 1) + 1] = ps[i]
          /\ \A j \in 1 .. i - 1 : e[j] = a[j]
      BY <1>2, <1>3, <1>14, <2>1, AppendProperties
    <3> QED  BY <1>14, <3>1
  <2>3. /\ f \in Seq(Params) /\ Len(f) = i + (n - i)
        /\ \A j \in 1 .. i : f[j] = e[j]
        /\ \A j \in 1 .. n - i : f[i + j] = b[j]
    <3>1. /\ f \in Seq(Params) /\ Len(f) = Len(e) + Len(b)
          /\ \A j \in 1 .. Len(e) : f[j] = e[j]
          /\ \A j \in 1 .. Len(b) : f[Len(e) + j] = b[j]
      <4>1. e \in Seq(Params) /\ b \in Seq(Params) /\ f = e \o b
        BY <1>4, <2>1, <2>2
      <4> QED  BY <4>1, ConcatIs
    <3> QED  BY <1>4, <2>2, <3>1
  <2>4. Len(f) = n
    BY <2>3, <1>14
  <2>5. ASSUME NEW j \in 1 .. n PROVE f[j] = ps[j]
    <3>1. CASE j \in 1 .. i - 1
      BY <1>3, <2>2, <2>3, <3>1
    <3>2. CASE j = i
      BY <2>2, <2>3, <3>2
    <3>3. CASE j \in i + 1 .. n
      <4>1. j - i \in 1 .. n - i /\ i + (j - i) = j
        BY <3>3, <1>14
      <4> QED  BY <1>4, <2>3, <4>1
    <3> QED  BY <1>14, <3>1, <3>2, <3>3
  <2>6. f = ps
    BY <1>0, <2>3, <2>4, <2>5, SeqEqual
  <2> QED  BY <2>1, <2>6
<1> QED  BY <1>0, <1>1, <1>3, <1>4, <1>7, <1>8, <1>9, <1>10, <1>11, <1>12, <1>13 DEF IsOpened

(* A pass over the tuples leaves the text that is asked for.               *)
LEMMA OpenedShaped ==
    ASSUME NEW q \in Seq(Tok), NEW ps \in Seq(Params), NEW i \in DOMAIN ps, IsTuple(ps[i]),
           NEW r, r = ReplaceNth(q, Group(Len(ps[i].items)), i)
    PROVE  /\ r \in Seq(Tok) /\ Opened(ps, i) \in Seq(Params)
           /\ WithShapes(r, Opened(ps, i)) = WithShapes(q, ps)
<1>1. PICK n, items, k, pt, G : /\ n = Len(ps) /\ items = ps[i].items /\ k = Len(items)
                                /\ pt = Opened(ps, i) /\ G = Group(k)
  OBVIOUS
<1>2. n \in Nat /\ i \in 1 .. n /\ ps[i] \in Params
  BY <1>1
<1>3. items \in Seq(Params) /\ k \in Nat
  <2>1. items \in Seq(Params)
    BY <1>1, <1>2, ParamsAre
  <2> QED  BY <1>1, <2>1
<1>4. /\ pt \in Seq(Params) /\ Len(pt) = (i - 1) + k + (n - i)
      /\ \A j \in 1 .. i - 1 : pt[j] = ps[j]
      /\ \A j \in 1 .. k : pt[(i - 1) + j] = items[j]
      /\ \A j \in 1 .. n - i : pt[(i - 1) + k + j] = ps[i + j]
  <2>1. ps[i].items \in Seq(Params) /\ i \in 1 .. Len(ps)
    BY <1>1, <1>2, <1>3
  <2>2. /\ Opened(ps, i) \in Seq(Params)
        /\ IsOpened(Opened(ps, i), ps, i, Len(ps), ps[i].items, Len(ps[i].items))
    BY <2>1, OpenedIs
  <2>3. pt \in Seq(Params) /\ IsOpened(pt, ps, i, n, items, k)
    BY <1>1, <2>2
  <2> QED  BY <2>3 DEF IsOpened
<1>5. \A j \in 1 .. i - 1 : Spot(pt, 0 + j) = Spot(ps, 0 + j)
  <2>1. ASSUME NEW j \in 1 .. i - 1 PROVE Spot(pt, 0 + j) = Spot(ps, 0 + j)
    <3>1. 0 + j = j /\ j <= Len(pt) /\ j <= n
      BY <1>2, <1>3, <1>4
    <3> QED  BY <1>1, <1>4, <3>1 DEF Spot
  <2> QED  BY <2>1
<1>6. MarksOf(q) \in Nat
  <2>1. Len(q) \in Nat
    OBVIOUS
  <2> QED  BY <2>1, MarksType DEF MarksOf
<1>7. SUFFICES r \in Seq(Tok) /\ Shaped(r, pt, 0) = Shaped(q, ps, 0)
  BY <1>1, <1>4, WithShapesIs
<1>8. CASE MarksOf(q) < i
  <2>1. r = q
    BY <1>8 DEF ReplaceNth, MarksOf
  <2>2. \A j \in 1 .. MarksOf(q) : j \in 1 .. i - 1
    BY <1>2, <1>6, <1>8
  <2>3. \A j \in 1 .. MarksOf(q) : Spot(pt, 0 + j) = Spot(ps, 0 + j)
    BY <1>5, <2>2
  <2> QED  BY <1>4, <2>1, <2>3, ShapedAlike
<1>9. CASE ~(MarksOf(q) < i)
  <2>1. "?" \in Tok /\ i \in Nat \ {0} /\ i <= MarksOf(q)
    <3>1. "?" \in Tok
      BY TokIs
    <3>2. i \in Nat \ {0} /\ i <= MarksOf(q)
      BY <1>2, <1>6, <1>9
    <3> QED  BY <3>1, <3>2
  <2>2. PICK a, b \in Seq(Tok) : /\ q = Append(a, "?") \o b /\ MarksOf(a) = i - 1
                                 /\ r = a \o G \o b
    <3>1. PICK a, b \in Seq(Tok) : Splits(a, b, q, G, i)
      BY <2>1, MarkSplits
    <3>2. r = ReplaceNth(q, G, i)
      BY <1>1
    <3> QED  BY <3>1, <3>2 DEF Splits
  <2>3. G \in Seq(Tok)
    BY <1>1, <1>3, GroupType
  <2>4. PICK c : c = Append(a, "?")
    OBVIOUS
  <2>5. /\ c \in Seq(Tok) /\ MarksOf(c) = i
        /\ Shaped(c, ps, 0) = Shaped(a, ps, 0) \o Shape(ps[i])
    <3>1. c \in Seq(Tok)
      BY <2>1, <2>4
    <3>2. MarksOf(c) = (i - 1) + 1 /\ (i - 1) + 1 = i /\ 0 + (i - 1) + 1 = i
      <4>1. MarksOf(c) = MarksOf(a) + OneFor("?") /\ OneFor("?") = 1
        BY <2>1, <2>4, MarksAppend DEF OneFor
      <4> QED  BY <1>2, <2>2, <4>1
    <3>3. Shaped(c, ps, 0) = Shaped(a, ps, 0) \o PartOf("?", ps, 0 + MarksOf(a) + 1)
      BY <2>1, <2>4, ShapedAppend
    <3>4. PartOf("?", ps, i) = Shape(ps[i])
      BY <1>1, <1>2 DEF PartOf, Spot
    <3> QED  BY <2>2, <3>1, <3>2, <3>3, <3>4
  <2>6. Shaped(q, ps, 0) = Shaped(a, ps, 0) \o Shape(ps[i]) \o Shaped(b, ps, i)
    <3>1. Shaped(c \o b, ps, 0) = Shaped(c, ps, 0) \o Shaped(b, ps, 0 + MarksOf(c))
      BY <2>5, ShapedConcat
    <3>3. q = c \o b
      BY <2>2, <2>4
    <3>2. 0 + i = i
      BY <1>2
    <3> QED  BY <2>5, <3>1, <3>2, <3>3
  <2>7. MarksOf(G) = k /\ Shaped(G, pt, i - 1) = Shape(ps[i])
    <3>1. i - 1 \in Nat
      BY <1>2
    <3>2. ASSUME NEW j \in 1 .. Len(items) PROVE Spot(pt, (i - 1) + j) = Shape(items[j])
      <4>1. PICK l, m : l = Len(pt) /\ m = (i - 1) + j
        OBVIOUS
      <4>2. j \in 1 .. k
        BY <1>1
      <4>3. pt[m] = items[j]
        BY <1>4, <4>1, <4>2
      <4>4. l = (i - 1) + k + (n - i)
        BY <1>4, <4>1
      <4>5. m <= l
        <5>1. (i - 1) + j <= (i - 1) + k + (n - i)
          BY <1>2, <1>3, <4>2, WithinItems
        <5> QED  BY <4>1, <4>4, <5>1
      <4>6. m <= Len(pt) /\ pt[m] = items[j]
        BY <4>1, <4>3, <4>5
      <4>7. Spot(pt, m) = Shape(items[j])
        BY <4>6 DEF Spot
      <4> QED  BY <4>1, <4>7
    <3>3. MarksOf(G) = k /\ Shaped(G, pt, i - 1) = InParentheses(Shapes(items))
      BY <1>1, <1>3, <1>4, <3>1, <3>2, GroupShaped, ZenonT(60)
    <3> QED  BY <1>1, <1>2, <3>3, ShapeIs
  <2>8. a \o G \in Seq(Tok) /\ r \in Seq(Tok)
    <3>1. a \o G \in Seq(Tok)
      BY <2>3, ConcatProperties
    <3> QED  BY <2>2, <3>1, ConcatProperties
  <2>9. MarksOf(a \o G) = (i - 1) + k
    BY <2>2, <2>3, <2>7, MarksConcat
  <2>10. Shaped(a \o G, pt, 0) = Shaped(a, pt, 0) \o Shape(ps[i])
    <3>1. Shaped(a \o G, pt, 0) = Shaped(a, pt, 0) \o Shaped(G, pt, 0 + MarksOf(a))
      BY <1>4, <2>3, ShapedConcat, SMTT(30)
    <3>2. 0 + (i - 1) = i - 1
      BY <1>2
    <3> QED  BY <2>2, <2>7, <3>1, <3>2
  <2>11. Shaped(r, pt, 0) = Shaped(a, pt, 0) \o Shape(ps[i]) \o Shaped(b, pt, (i - 1) + k)
    <3>1. PICK h : h = a \o G
      OBVIOUS
    <3>3. Shaped(h \o b, pt, 0) = Shaped(h, pt, 0) \o Shaped(b, pt, 0 + MarksOf(h))
      <4>1. h \in Seq(Tok) /\ pt \in Seq(Params) /\ 0 \in Nat
        BY <1>4, <2>8, <3>1
      <4> QED  BY <4>1, ShapedConcat
    <3>4. r = h \o b
      BY <2>2, <3>1
    <3>2. 0 + ((i - 1) + k) = (i - 1) + k
      BY <1>2, <1>3
    <3> QED  BY <2>9, <2>10, <3>1, <3>2, <3>3, <3>4
  <2>12. Shaped(a, pt, 0) = Shaped(a, ps, 0)
    BY <1>4, <1>5, <2>2, ShapedAlike
  <2>13. Shaped(b, pt, (i - 1) + k) = Shaped(b, ps, i)
    <3>1. MarksOf(b) \in Nat
      BY MarksConcat
    <3>2. (i - 1) + k \in Nat /\ i \in Nat
      BY <1>2, <1>3
    <3>3. PICK l : l = Len(pt)
      OBVIOUS
    <3>4. l = (i - 1) + k + (n - i)
      BY <1>4, <3>3
    <3>5. ASSUME NEW j \in 1 .. MarksOf(b)
          PROVE  Spot(pt, ((i - 1) + k) + j) = Spot(ps, i + j)
      <4>1. j \in Nat \ {0}
        BY <3>1
      <4>2. ((i - 1) + k + j <= l <=> j <= n - i) /\ (i + j <= n <=> j <= n - i)
        <5>1. i \in Int /\ k \in Int /\ n \in Int /\ j \in Int
          BY <1>2, <1>3, <4>1
        <5>2. (i - 1) + k + j <= l <=> j <= n - i
          BY <3>4, <5>1, SameShift
        <5>3. i + j <= n <=> j <= n - i
          BY <5>1
        <5> QED  BY <5>2, <5>3
      <4>3. CASE j <= n - i
        <5>1. j \in 1 .. n - i
          BY <1>2, <4>1, <4>3
        <5>2. pt[(i - 1) + k + j] = ps[i + j]
          BY <1>4, <5>1
        <5> QED  BY <1>1, <3>3, <4>2, <4>3, <5>2 DEF Spot
      <4>4. CASE ~(j <= n - i)
        BY <1>1, <3>3, <4>2, <4>4 DEF Spot
      <4> QED  BY <4>3, <4>4
    <3>6. \A j \in 1 .. MarksOf(b) : Spot(pt, ((i - 1) + k) + j) = Spot(ps, i + j)
      BY <3>5
    <3> QED  BY <1>4, <3>2, <3>6, ShapedAlike, SMTT(30)
  <2> QED  BY <2>6, <2>8, <2>11, <2>12, <2>13
<1> QED  BY <1>8, <1>9

-----------------------------------------------------------------------------
(* The parameters, with the items of tuples in their places                *)

LeavesOf(ps) == [i \in DOMAIN ps |-> Leaves(ps[i])]

LEMMA LeavesAre ==
    ASSUME NEW p \in Params
    PROVE  /\ Leaves(p) \in Seq(Values)
           /\ IsTuple(p) => Leaves(p) = FlattenSeq(LeavesOf(p.items))
           /\ ~IsTuple(p) => Leaves(p) = <<p>>
<1>1. PICK V, val, comb : /\ V = Seq(Values) /\ val = [v \in Values |-> <<v>>]
                          /\ comb = [parts \in Seq(V) |-> FlattenSeq(parts)]
  OBVIOUS
<1>2. val \in [Values -> V]
  <2>1. \A v \in Values : <<v>> \in Seq(Values)
    OBVIOUS
  <2> QED  BY <1>1, <2>1
<1>3. comb \in [Seq(V) -> V]
  BY <1>1, FlattenType
<1>4. \A q : Leaves(q) = FoldTuples(q, val, comb)
  BY <1>1 DEF Leaves
<1>5. \A q \in Params : Leaves(q) \in V
  BY <1>2, <1>3, <1>4, FoldIs
<1>6. ASSUME IsTuple(p) PROVE Leaves(p) = FlattenSeq(LeavesOf(p.items))
  <2>1. PICK items, n, s : items = p.items /\ n = Len(items) /\ s = LeavesOf(items)
    OBVIOUS
  <2>2. items \in Seq(Params)
    BY <1>6, <2>1, ParamsAre
  <2>3. n \in Nat /\ DOMAIN items = 1 .. n /\ \A i \in 1 .. n : items[i] \in Params
    BY <2>1, <2>2
  <2>4. s \in [1 .. n -> V]
    BY <1>5, <2>1, <2>3 DEF LeavesOf
  <2>5. s \in Seq(V)
    BY <2>3, <2>4
  <2>6. s = [i \in DOMAIN items |-> FoldTuples(items[i], val, comb)]
    BY <1>4, <2>1 DEF LeavesOf
  <2>7. FoldTuples(p, val, comb) =
           comb[[i \in DOMAIN p.items |-> FoldTuples(p.items[i], val, comb)]]
    BY <1>2, <1>3, <1>6, FoldIs
  <2>8. Leaves(p) = comb[s]
    BY <1>4, <2>1, <2>6, <2>7
  <2> QED  BY <1>1, <2>1, <2>5, <2>8
<1>7. ASSUME ~IsTuple(p) PROVE Leaves(p) = <<p>>
  <2>1. p \in Values
    BY <1>7, ParamsAre
  <2>2. \A q \in Params : ~IsTuple(q) => FoldTuples(q, val, comb) = val[q]
    BY <1>2, <1>3, FoldIs
  <2>3. FoldTuples(p, val, comb) = val[p]
    BY <1>7, <2>2
  <2> QED  BY <1>1, <1>4, <2>1, <2>3
<1> QED  BY <1>1, <1>5, <1>6, <1>7

LEMMA LeavesOfType ==
    ASSUME NEW ps \in Seq(Params)
    PROVE  /\ LeavesOf(ps) \in Seq(Seq(Values)) /\ Len(LeavesOf(ps)) = Len(ps)
           /\ \A i \in 1 .. Len(ps) : LeavesOf(ps)[i] = Leaves(ps[i])
           /\ Flat(ps) = FlattenSeq(LeavesOf(ps)) /\ Flat(ps) \in Seq(Values)
<1>1. PICK n, s : n = Len(ps) /\ s = LeavesOf(ps)
  OBVIOUS
<1>2. n \in Nat /\ DOMAIN ps = 1 .. n /\ \A i \in 1 .. n : ps[i] \in Params
  BY <1>1
<1>3. s \in [1 .. n -> Seq(Values)] /\ \A i \in 1 .. n : s[i] = Leaves(ps[i])
  BY <1>1, <1>2, LeavesAre DEF LeavesOf
<1>4. s \in Seq(Seq(Values)) /\ Len(s) = n
  BY <1>2, <1>3
<1>5. Flat(ps) = FlattenSeq(s)
  BY <1>1 DEF Flat, LeavesOf
<1> QED  BY <1>1, <1>3, <1>4, <1>5, FlattenType

LEMMA FlatAppend ==
    ASSUME NEW ps \in Seq(Params), NEW p \in Params
    PROVE  Flat(Append(ps, p)) = Flat(ps) \o Leaves(p) /\ Leaves(p) \in Seq(Values)
<1>1. PICK a, n, s, t : a = Append(ps, p) /\ n = Len(ps) /\ s = LeavesOf(ps) /\ t = LeavesOf(a)
  OBVIOUS
<1>2. /\ a \in Seq(Params) /\ n \in Nat /\ Len(a) = n + 1 /\ a[n + 1] = p
      /\ \A i \in 1 .. n : a[i] = ps[i]
  BY <1>1
<1>3. s \in Seq(Seq(Values)) /\ Len(s) = n /\ \A i \in 1 .. n : s[i] = Leaves(ps[i])
  BY <1>1, LeavesOfType
<1>4. t \in Seq(Seq(Values)) /\ Len(t) = n + 1 /\ \A i \in 1 .. n + 1 : t[i] = Leaves(a[i])
  <2>1. a \in Seq(Params) /\ Len(a) = n + 1 /\ t = LeavesOf(a)
    BY <1>1, <1>2
  <2> QED  BY <2>1, LeavesOfType
<1>5. n + 1 \in 1 .. n + 1 /\ \A i \in 1 .. n : i \in 1 .. n + 1
  BY <1>2
<1>6. t[n + 1] = Leaves(p) /\ \A i \in 1 .. n : t[i] = s[i]
  BY <1>2, <1>3, <1>4, <1>5
<1>7. t \in [1 .. n + 1 -> Seq(Values)] /\ Leaves(p) \in Seq(Values)
  BY <1>2, <1>4, LeavesAre
<1>8. t = Append(s, Leaves(p))
  BY <1>2, <1>3, <1>6, <1>7, IsAppended
<1>9. FlattenSeq(t) = FlattenSeq(s) \o Leaves(p)
  BY <1>3, <1>7, <1>8, FlattenAppend
<1> QED  BY <1>1, <1>2, <1>7, <1>9, LeavesOfType

LEMMA FlatConcat ==
    ASSUME NEW ps \in Seq(Params), NEW pt \in Seq(Params)
    PROVE  Flat(ps \o pt) = Flat(ps) \o Flat(pt)
<1>1. PICK c, s, t, u : /\ c = ps \o pt /\ s = LeavesOf(ps) /\ t = LeavesOf(pt)
                        /\ u = LeavesOf(c)
  OBVIOUS
<1>2. PICK n, m : n = Len(ps) /\ m = Len(pt)
  OBVIOUS
<1>3. n \in Nat /\ m \in Nat
  BY <1>2
<1>4. /\ c \in Seq(Params) /\ Len(c) = n + m
      /\ \A j \in 1 .. n : c[j] = ps[j]
      /\ \A j \in 1 .. m : c[n + j] = pt[j]
  BY <1>1, <1>2, ConcatIs
<1>5. s \in Seq(Seq(Values)) /\ Len(s) = n /\ \A i \in 1 .. n : s[i] = Leaves(ps[i])
  BY <1>1, <1>2, LeavesOfType
<1>6. t \in Seq(Seq(Values)) /\ Len(t) = m /\ \A i \in 1 .. m : t[i] = Leaves(pt[i])
  BY <1>1, <1>2, LeavesOfType
<1>7. u \in Seq(Seq(Values)) /\ Len(u) = n + m /\ \A i \in 1 .. n + m : u[i] = Leaves(c[i])
  <2>1. c \in Seq(Params) /\ Len(c) = n + m /\ u = LeavesOf(c)
    BY <1>1, <1>4
  <2> QED  BY <2>1, LeavesOfType
<1>8. PICK v : v = s \o t
  OBVIOUS
<1>9. /\ v \in Seq(Seq(Values)) /\ Len(v) = n + m
      /\ \A j \in 1 .. n : v[j] = s[j]
      /\ \A j \in 1 .. m : v[n + j] = t[j]
  <2>1. /\ v \in Seq(Seq(Values)) /\ Len(v) = Len(s) + Len(t)
        /\ \A j \in 1 .. Len(s) : v[j] = s[j]
        /\ \A j \in 1 .. Len(t) : v[Len(s) + j] = t[j]
    <3>1. s \in Seq(Seq(Values)) /\ t \in Seq(Seq(Values))
      BY <1>5, <1>6
    <3> QED  BY <1>8, <3>1, ConcatIs
  <2> QED  BY <1>5, <1>6, <2>1
<1>10. ASSUME NEW i \in 1 .. n + m PROVE u[i] = v[i]
  <2>1. u[i] = Leaves(c[i])
    BY <1>7
  <2>2. CASE i <= n
    <3>1. i \in 1 .. n
      BY <1>3, <2>2
    <3> QED  BY <1>4, <1>5, <1>9, <2>1, <3>1
  <2>3. CASE ~(i <= n)
    <3>1. PICK j : j = i - n
      OBVIOUS
    <3>2. j \in 1 .. m /\ n + j = i
      BY <1>3, <2>3, <3>1
    <3>3. c[i] = pt[j] /\ v[i] = t[j] /\ t[j] = Leaves(pt[j])
      BY <1>4, <1>6, <1>9, <3>2
    <3> QED  BY <2>1, <3>3
  <2> QED  BY <2>2, <2>3
<1>11. u = v
  BY <1>7, <1>9, <1>10, SeqEqual
<1>12. FlattenSeq(v) = FlattenSeq(s) \o FlattenSeq(t)
  BY <1>5, <1>6, <1>8, FlattenConcat
<1>13. Flat(c) = FlattenSeq(u) /\ Flat(ps) = FlattenSeq(s) /\ Flat(pt) = FlattenSeq(t)
  BY <1>1, <1>4, LeavesOfType
<1> QED  BY <1>1, <1>11, <1>12, <1>13

LEMMA FlatItems ==
    ASSUME NEW p \in Params, IsTuple(p)
    PROVE  p.items \in Seq(Params) /\ Flat(p.items) = Leaves(p)
<1>1. PICK items : items = p.items
  OBVIOUS
<1>2. items \in Seq(Params)
  BY <1>1, ParamsAre
<1>3. Flat(items) = FlattenSeq(LeavesOf(items)) /\ Leaves(p) = FlattenSeq(LeavesOf(items))
  BY <1>1, <1>2, LeavesAre, LeavesOfType
<1> QED  BY <1>1, <1>2, <1>3

LEMMA OpenedFlat ==
    ASSUME NEW ps \in Seq(Params), NEW i \in DOMAIN ps, IsTuple(ps[i])
    PROVE  Flat(Opened(ps, i)) = Flat(ps)
<1>1. PICK a, b, p : a = SubSeq(ps, 1, i - 1) /\ b = SubSeq(ps, i + 1, Len(ps)) /\ p = ps[i]
  OBVIOUS
<1>2. i \in 1 .. Len(ps) /\ p \in Params
  BY <1>1
<1>3. /\ p.items \in Seq(Params) /\ Flat(p.items) = Leaves(p)
      /\ Leaves(p) \in Seq(Values)
  BY <1>1, <1>2, FlatItems, LeavesAre
<1>4. a \in Seq(Params) /\ b \in Seq(Params) /\ ps = Append(a, p) \o b
  BY <1>1, <1>2, <1>3, OpenedIs
<1>5. Append(a, p) \in Seq(Params) /\ a \o p.items \in Seq(Params)
  BY <1>2, <1>3, <1>4, ConcatProperties
<1>6. Flat(ps) = Flat(Append(a, p)) \o Flat(b) /\ Flat(Append(a, p)) = Flat(a) \o Leaves(p)
  BY <1>2, <1>4, <1>5, FlatConcat, FlatAppend
<1>7. Opened(ps, i) = a \o p.items \o b
  BY <1>1 DEF Opened
<1>8. /\ Flat((a \o p.items) \o b) = Flat(a \o p.items) \o Flat(b)
      /\ Flat(a \o p.items) = Flat(a) \o Flat(p.items)
  BY <1>3, <1>4, <1>5, FlatConcat
<1> QED  BY <1>3, <1>6, <1>7, <1>8

LEMMA NoTuplesFlat ==
    ASSUME NEW ps \in Seq(Params), \A i \in DOMAIN ps : ~IsTuple(ps[i])
    PROVE  Flat(ps) = ps /\ ps \in Seq(Values)
<1>1. PICK n : n = Len(ps)
  OBVIOUS
<1>2. n \in Nat /\ DOMAIN ps = 1 .. n /\ \A i \in 1 .. n : ps[i] \in Values
  <2>1. \A i \in DOMAIN ps : ps[i] \in Params
    OBVIOUS
  <2> QED  BY <1>1, <2>1, ParamsAre
<1>3. \A i \in 1 .. n : Leaves(ps[i]) = <<ps[i]>>
  BY <1>2, ParamsAre, LeavesAre
<1>4. LeavesOf(ps) = [i \in DOMAIN ps |-> <<ps[i]>>]
  BY <1>2, <1>3 DEF LeavesOf
<1>5. ps \in [1 .. n -> Values]
  BY <1>2
<1>6. ps \in Seq(Values)
  BY <1>2, <1>5
<1> QED  BY <1>4, <1>6, FlattenSingles, LeavesOfType

-----------------------------------------------------------------------------
(* The list of types is long enough                                        *)

AreEnds(e, types) ==
    e = [k \in 0 .. Len(types) |-> IF k = 0 THEN 0 ELSE e[k - 1] + 1 + NameLength[types[k]]]

LEMMA NamesAre ==
    \A t \in Known : NameLength[t] \in 1 .. 12
  BY DEF NameLength, Known, Small, Large, Binary

LEMMA EndsExist ==
    ASSUME NEW types \in Seq(Known)
    PROVE  \E e : AreEnds(e, types)
<1> DEFINE n == Len(types)
           step == [i \in 1 .. n |-> [v \in Nat |-> v + 1 + NameLength[types[i]]]]
<1>1. n \in Nat /\ \A i \in 1 .. n : types[i] \in Known
  OBVIOUS
<1>2. ASSUME NEW i \in 1 .. n, NEW v \in Nat
      PROVE  step[i][v] = v + 1 + NameLength[types[i]] /\ v + 1 + NameLength[types[i]] \in Nat
  <2>1. NameLength[types[i]] \in Nat
    BY <1>1, NamesAre
  <2> QED  BY <2>1
<1> HIDE DEF n, step
<1>3. AreSteps(step, n, Nat)
  BY <1>2 DEF AreSteps
<1>4. PICK f \in [0 .. n -> Nat] : Follows(f, 0, step, n)
  BY <1>1, <1>3, Recursion
<1>5. f[0] = 0 /\ \A i \in 1 .. n : f[i] = f[i - 1] + 1 + NameLength[types[i]]
  <2>1. \A i \in 1 .. n : i - 1 \in 0 .. n
    BY <1>1
  <2> QED  BY <1>1, <1>2, <1>4, <2>1 DEF Follows
<1>6. ASSUME NEW i \in 0 .. n
      PROVE  f[i] = IF i = 0 THEN 0 ELSE f[i - 1] + 1 + NameLength[types[i]]
  <2>1. i = 0 \/ i \in 1 .. n
    BY <1>1
  <2> QED  BY <1>1, <1>5, <2>1
<1>7. AreEnds(f, types)
  BY <1>1, <1>6 DEF AreEnds, n
<1> QED  BY <1>7

(* No name of a type is cut off.                                           *)
LEMMA TypesFit ==
    ASSUME NEW types \in Seq(Known)
    PROVE  TypeList(types) = types
<1> DEFINE e == CHOOSE e : AreEnds(e, types)
           n == Len(types)
<1>1. AreEnds(e, types)
  BY EndsExist
<1>2. n \in Nat /\ DOMAIN types = 1 .. n /\ \A i \in 1 .. n : types[i] \in Known
  OBVIOUS
<1>3. TypeList(types) = [k \in DOMAIN types |->
                           IF e[k] <= ListSize(n) - 2 THEN types[k] ELSE "cut"]
  BY DEF TypeList, AreEnds
<1> HIDE DEF e
<1>4. \A k \in 0 .. n : e[k] = IF k = 0 THEN 0 ELSE e[k - 1] + 1 + NameLength[types[k]]
  BY <1>1 DEF AreEnds
<1> HIDE DEF n
<1> DEFINE P == {k \in Nat : k <= n => e[k] \in 0 .. 13 * k}
<1>5. 0 \in P
  <2>1. 0 \in 0 .. n
    BY <1>2
  <2>2. e[0] = 0
    BY <1>4, <2>1
  <2> QED  BY <2>2
<1>6. ASSUME NEW k \in P PROVE k + 1 \in P
  <2>1. SUFFICES ASSUME k + 1 <= n PROVE e[k + 1] \in 0 .. 13 * (k + 1)
    OBVIOUS
  <2>2. k \in Nat /\ k + 1 \in 1 .. n /\ k + 1 \in 0 .. n /\ (k + 1) - 1 = k /\ k + 1 # 0
    BY <1>2, <2>1
  <2>3. e[k + 1] = e[k] + 1 + NameLength[types[k + 1]]
    BY <1>4, <2>2
  <2>4. NameLength[types[k + 1]] \in 1 .. 12
    BY <1>2, <2>2, NamesAre
  <2>5. e[k] \in 0 .. 13 * k
    <3>1. k <= n
      BY <1>2, <2>1, <2>2
    <3> QED  BY <3>1
  <2> HIDE DEF P
  <2>6. PICK x, y : x = e[k] /\ y = NameLength[types[k + 1]]
    OBVIOUS
  <2>7. x + 1 + y \in 0 .. 13 * (k + 1)
    <3>1. x \in 0 .. 13 * k /\ y \in 1 .. 12 /\ k \in Nat
      BY <2>2, <2>4, <2>5, <2>6
    <3> QED  BY <3>1
  <2> QED  BY <2>3, <2>6, <2>7
<1> HIDE DEF P
<1>7. P = Nat
  BY <1>5, <1>6, Induction DEF P
<1>8. ASSUME NEW k \in 1 .. n PROVE e[k] <= ListSize(n) - 2
  <2>1. k \in P
    BY <1>7
  <2>2. e[k] \in 0 .. 13 * k
    BY <2>1 DEF P
  <2> QED  BY <1>2, <2>2 DEF ListSize
<1>9. TypeList(types) = [k \in DOMAIN types |-> types[k]]
  BY <1>2, <1>3, <1>8
<1> QED  BY <1>9

-----------------------------------------------------------------------------
(* The values                                                              *)

(* The UTF-16 units of a text are as many as its characters, or more.      *)
LEMMA ShortSequences ==
    ASSUME NEW S, NEW x \in S, NEW y \in S
    PROVE  /\ <<x>> \in Seq(S) /\ Len(<<x>>) = 1
           /\ <<x, y>> \in Seq(S) /\ Len(<<x, y>>) = 2
  OBVIOUS

LEMMA ThreeFields ==
    ASSUME NEW x, NEW y, NEW z
    PROVE  <<x, y>> \o <<z>> = <<x, y, z>>
<1>1. PICK q, c, t : q = <<x, y>> /\ c = q \o <<z>> /\ t = <<x, y, z>>
  OBVIOUS
<1>2. PICK S : S = {x, y, z}
  OBVIOUS
<1>3. q \in Seq(S) /\ <<z>> \in Seq(S) /\ t \in Seq(S)
  BY <1>1, <1>2
<1>4. Len(q) = 2 /\ q[1] = x /\ q[2] = y /\ Len(<<z>>) = 1 /\ <<z>>[1] = z
  BY <1>1
<1>5. Len(t) = 3 /\ t[1] = x /\ t[2] = y /\ t[3] = z
  BY <1>1
<1>6. c \in Seq(S) /\ Len(c) = 3 /\ c[1] = x /\ c[2] = y /\ c[3] = z
  <2>1. /\ c \in Seq(S) /\ Len(c) = Len(q) + Len(<<z>>)
        /\ \A j \in 1 .. Len(q) : c[j] = q[j]
        /\ \A j \in 1 .. Len(<<z>>) : c[Len(q) + j] = <<z>>[j]
    BY <1>1, <1>3, ConcatIs
  <2>2. 1 \in 1 .. 2 /\ 2 \in 1 .. 2 /\ 1 \in 1 .. 1 /\ 2 + 1 = 3
    OBVIOUS
  <2> QED  BY <1>4, <2>1, <2>2
<1>7. \A i \in 1 .. 3 : i = 1 \/ i = 2 \/ i = 3
  OBVIOUS
<1>8. c = t
  BY <1>3, <1>5, <1>6, <1>7, SeqEqual
<1> QED  BY <1>1, <1>8

LEMMA UnitsType ==
    ASSUME NEW chars \in Seq(STRING)
    PROVE  \E T : /\ Units(chars) \in Seq(T) /\ Len(chars) <= Len(Units(chars))
                  /\ "w" \notin ToSet(chars) => Len(Units(chars)) = Len(chars)
<1>0. PICK T : T = STRING \union {"high", "low"}
  OBVIOUS
<1> DEFINE U(c) == IF c = "w" THEN <<"high", "low">> ELSE <<c>>
           Us(s) == [i \in DOMAIN s |-> U(s[i])]
           Narrow(s) == \A i \in 1 .. Len(s) : s[i] # "w"
           P == {s \in Seq(T) : /\ Len(s) <= Len(FlattenSeq(Us(s)))
                                /\ Narrow(s) => Len(FlattenSeq(Us(s))) = Len(s)}
<1>1. ASSUME NEW c \in T
      PROVE  U(c) \in Seq(T) /\ Len(U(c)) >= 1 /\ (c # "w" => Len(U(c)) = 1)
  <2>1. "high" \in T /\ "low" \in T
    BY <1>0
  <2>2. /\ <<"high", "low">> \in Seq(T) /\ Len(<<"high", "low">>) = 2
        /\ <<c>> \in Seq(T) /\ Len(<<c>>) = 1
    BY <2>1, ShortSequences
  <2> QED  BY <2>2
<1> HIDE DEF U
<1>2. ASSUME NEW s \in Seq(T)
      PROVE  /\ Us(s) \in Seq(Seq(T)) /\ Len(Us(s)) = Len(s)
             /\ \A i \in 1 .. Len(s) : Us(s)[i] = U(s[i])
             /\ FlattenSeq(Us(s)) \in Seq(T)
  <2>1. PICK n, u : n = Len(s) /\ u = Us(s)
    OBVIOUS
  <2>2. n \in Nat /\ DOMAIN s = 1 .. n /\ \A i \in 1 .. n : s[i] \in T
    BY <2>1
  <2>3. u \in [1 .. n -> Seq(T)] /\ \A i \in 1 .. n : u[i] = U(s[i])
    BY <1>1, <2>1, <2>2
  <2>4. u \in Seq(Seq(T)) /\ Len(u) = n
    BY <2>2, <2>3
  <2> QED  BY <2>1, <2>3, <2>4, FlattenType
<1>3. <<>> \in P
  <2>1. <<>> \in Seq(T) /\ Us(<<>>) = <<>>
    OBVIOUS
  <2>2. FlattenSeq(Us(<<>>)) = <<>>
    BY <2>1, FlattenEmpty
  <2> HIDE DEF Us
  <2> QED  BY <2>1, <2>2
<1>4. ASSUME NEW s \in P, NEW c \in T PROVE Append(s, c) \in P
  <2>1. PICK a, n, u, v : a = Append(s, c) /\ n = Len(s) /\ u = Us(s) /\ v = Us(a)
    OBVIOUS
  <2>2. /\ s \in Seq(T) /\ a \in Seq(T) /\ n \in Nat /\ Len(a) = n + 1
        /\ a[n + 1] = c /\ \A i \in 1 .. n : a[i] = s[i]
    BY <2>1
  <2>3. n <= Len(FlattenSeq(u)) /\ (Narrow(s) => Len(FlattenSeq(u)) = n)
    BY <2>1 DEF P
  <2>4. u \in Seq(Seq(T)) /\ Len(u) = n /\ \A i \in 1 .. n : u[i] = U(s[i])
    BY <1>2, <2>1, <2>2
  <2>5. /\ v \in Seq(Seq(T)) /\ Len(v) = n + 1 /\ \A i \in 1 .. n + 1 : v[i] = U(a[i])
    BY <1>2, <2>1, <2>2
  <2> HIDE DEF P, Us, Narrow
  <2>6. v = Append(u, U(c))
    <3>1. n + 1 \in 1 .. n + 1 /\ \A i \in 1 .. n : i \in 1 .. n + 1
      BY <2>2
    <3>2. v[n + 1] = U(c) /\ \A i \in 1 .. n : v[i] = u[i]
      BY <2>2, <2>4, <2>5, <3>1
    <3>3. v \in [1 .. n + 1 -> Seq(T)]
      BY <2>2, <2>5
    <3> QED  BY <1>1, <2>2, <2>4, <3>2, <3>3, IsAppended, SMTT(30)
  <2>7. FlattenSeq(v) = FlattenSeq(u) \o U(c)
    BY <1>1, <2>4, <2>6, FlattenAppend
  <2>8. FlattenSeq(u) \in Seq(T)
    BY <2>4, FlattenType
  <2>9. Len(FlattenSeq(v)) = Len(FlattenSeq(u)) + Len(U(c))
    BY <1>1, <2>7, <2>8, ConcatProperties
  <2>10. PICK x, y, z : x = Len(FlattenSeq(u)) /\ y = Len(U(c)) /\ z = Len(FlattenSeq(v))
    OBVIOUS
  <2>11. x \in Nat /\ y \in Nat /\ y >= 1 /\ (c # "w" => y = 1)
    <3>1. U(c) \in Seq(T) /\ Len(U(c)) >= 1 /\ (c # "w" => Len(U(c)) = 1)
      BY <1>1
    <3> QED  BY <2>8, <2>10, <3>1
  <2>12. n \in Nat /\ n <= x /\ z = x + y /\ (Narrow(s) => x = n)
    BY <2>2, <2>3, <2>9, <2>10
  <2>13. n + 1 <= z
    BY <2>11, <2>12
  <2>14. ASSUME Narrow(a) PROVE z = n + 1
    <3>1. \A i \in 1 .. n + 1 : a[i] # "w"
      BY <2>2, <2>14 DEF Narrow
    <3>2. n + 1 \in 1 .. n + 1 /\ \A i \in 1 .. n : i \in 1 .. n + 1
      BY <2>2
    <3>3. c # "w" /\ \A i \in 1 .. n : s[i] # "w"
      BY <2>2, <3>1, <3>2
    <3>4. Narrow(s)
      BY <2>1, <3>3 DEF Narrow
    <3>5. y = 1 /\ x = n
      BY <2>11, <2>12, <3>3, <3>4
    <3> QED  BY <2>12, <3>5
  <2>15. v = Us(a) /\ z = Len(FlattenSeq(v)) /\ Len(a) = n + 1
    BY <2>1, <2>2, <2>10
  <2> QED  BY <2>1, <2>2, <2>13, <2>14, <2>15 DEF P
<1> HIDE DEF P
<1>5. P = Seq(T)
  BY <1>3, <1>4, AppendInduction DEF P
<1>6. chars \in P /\ chars \in Seq(T)
  <2>1. STRING \subseteq T
    BY <1>0
  <2> QED  BY <1>5, <2>1, SeqSubset
<1>7. Units(chars) = FlattenSeq(Us(chars))
  BY DEF Units, U
<1>8. "w" \notin ToSet(chars) => Narrow(chars)
  BY DEF ToSet
<1>9. /\ Us(chars) \in Seq(Seq(T)) /\ FlattenSeq(Us(chars)) \in Seq(T)
      /\ Len(chars) <= Len(FlattenSeq(Us(chars)))
      /\ Narrow(chars) => Len(FlattenSeq(Us(chars))) = Len(chars)
  BY <1>2, <1>6 DEF P
<1> HIDE DEF Us, Narrow
<1> QED  BY <1>7, <1>8, <1>9

LEMMA DataType ==
    ASSUME NEW p \in Values
    PROVE  Len(DataOf(p)) \in Nat
<1>1. p.data \in Seq(STRING)
  BY DEF Values
<1>2. Len(p.data) \in Nat
  BY <1>1
<1>3. CASE IsMade(p)
  <2>1. PICK u, n : u = Units(p.data) /\ n = Len(p.data)
    OBVIOUS
  <2>2. n \in Nat /\ \E T : u \in Seq(T) /\ n <= Len(u)
    BY <1>1, <1>2, <2>1, UnitsType
  <2>5. PICK T : u \in Seq(T) /\ n <= Len(u)
    BY <2>2
  <2>3. SubSeq(u, 1, n) \in Seq(T)
    BY <2>2, <2>5
  <2>4. Len(SubSeq(u, 1, n)) \in Nat
    BY <2>3
  <2> QED  BY <1>3, <2>1, <2>4 DEF DataOf
<1>4. CASE ~IsMade(p)
  BY <1>2, <1>4 DEF DataOf
<1> QED  BY <1>3, <1>4

(* A str without characters outside the BMP is bound whole.                *)
LEMMA BoundWhole ==
    ASSUME NEW p \in Values, ~IsWide(p)
    PROVE  DataOf(p) = Meant(p)
<1>1. p.data \in Seq(STRING)
  BY DEF Values
<1>2. CASE IsMade(p)
  <2>1. PICK u, n : u = Units(p.data) /\ n = Len(p.data)
    OBVIOUS
  <2>2. "w" \notin ToSet(p.data)
    BY <1>2 DEF IsWide
  <2>3. \E T : u \in Seq(T) /\ Len(u) = n
    BY <1>1, <2>1, <2>2, UnitsType
  <2>4. PICK T : u \in Seq(T) /\ Len(u) = n
    BY <2>3
  <2>5. SubSeq(u, 1, n) = u
    BY <2>4
  <2> QED  BY <1>2, <2>1, <2>5 DEF DataOf, Meant
<1>3. CASE ~IsMade(p)
  BY <1>3 DEF DataOf, Meant
<1> QED  BY <1>2, <1>3

(* What is written for a value is what is read for one of its type.        *)
LEMMA SerializedIs ==
    ASSUME NEW t \in Known \ {"VK_IMAGE"}, NEW d, Len(d) \in Nat
    PROVE  Serialized(t, d) = ValueFields(t, Written(t, Len(d)), d, d)
<1>1. PICK n : n = Len(d)
  OBVIOUS
<1>2. n \in Nat
  BY <1>1
<1> DEFINE sizes == Parts(t)
           len == Written(t, n)
           parts == [i \in 1 .. Len(sizes) |->
                        Field(sizes[i], IF t \in Varying /\ i = Len(sizes) THEN len ELSE d)]
           m == DataBytes(t, Written(t, len))
<1>3. ValueFields(t, len, d, d) =
         parts \o IF t \in Varying /\ m > 0 THEN <<Field(m, d)>> ELSE <<>>
  BY DEF ValueFields
<1>4. ASSUME NEW k, sizes = <<k>>, t \notin Varying
      PROVE  ValueFields(t, len, d, d) = <<Field(k, d)>>
  <2>1. Len(sizes) = 1 /\ sizes[1] = k
    BY <1>4
  <2>2. parts = <<Field(k, d)>>
    BY <1>4, <2>1
  <2> QED  BY <1>3, <1>4, <2>2
<1>5. CASE t \in Small
  <2>1. t \in {"VK_BOOLEAN", "VK_BYTE", "VK_WORD"}
    BY <1>5 DEF Small
  <2>2. sizes = <<2>> /\ StructSize(t) = 2
    BY <2>1 DEF Parts, StructSize, Small, Large, Binary
  <2>3. t \notin Varying
    BY <2>1 DEF Varying, Binary
  <2>4. Serialized(t, d) = <<Field(StructSize(t), d)>>
    BY <2>1 DEF Serialized
  <2> QED  BY <1>1, <1>4, <2>2, <2>3, <2>4
<1>6. CASE t \in Large
  <2>1. sizes = <<8>> /\ t \notin Varying /\ Serialized(t, d) = <<Field(8, d)>>
    BY <1>6 DEF Parts, Varying, Binary, Small, Large, Serialized, StructSize
  <2> QED  BY <1>1, <1>4, <2>1
<1>7. CASE t = "VK_LONG"
  <2>1. sizes = <<4>> /\ t \notin Varying /\ Serialized(t, d) = <<Field(4, d)>>
    BY <1>7 DEF Parts, Varying, Binary, Small, Large, Serialized, StructSize
  <2> QED  BY <1>1, <1>4, <2>1
<1>8. CASE t = "VK_TIMESTAMP"
  <2>1. sizes = <<2, 1, 1, 4>> /\ t \notin Varying
    BY <1>8 DEF Parts, Varying, Binary, Small, Large
  <2>2. Serialized(t, d) = [i \in 1 .. 4 |-> Field(<<2, 1, 1, 4>>[i], d)]
    BY <1>8 DEF Serialized, FieldsOf
  <2>3. parts = [i \in 1 .. 4 |-> Field(<<2, 1, 1, 4>>[i], d)]
    BY <2>1
  <2>4. parts \in Seq({Field(k, d) : k \in Nat})
    BY <2>3
  <2> QED  BY <1>1, <1>3, <2>1, <2>2, <2>3, <2>4, ConcatEmptySeq
<1>9. CASE t = "VK_FLOAT"
  <2>1. sizes = <<4, 1, 4>> /\ t \in Varying /\ len = n /\ m = n
    BY <1>9 DEF Parts, Varying, Binary, Small, Large, Written, DataBytes
  <2>2. Serialized(t, d) = FieldsOf(<<4, 1>>, d) \o <<Field(4, n)>> \o DataField(n, d)
    BY <1>1, <1>9 DEF Serialized
  <2>3. FieldsOf(<<4, 1>>, d) = <<Field(4, d), Field(1, d)>>
    BY DEF FieldsOf
  <2>4. parts = <<Field(4, d), Field(1, d), Field(4, n)>>
    BY <2>1
  <2>5. <<Field(4, d), Field(1, d)>> \o <<Field(4, n)>> = <<Field(4, d), Field(1, d), Field(4, n)>>
    BY ThreeFields
  <2>6. DataField(n, d) = IF m > 0 THEN <<Field(m, d)>> ELSE <<>>
    BY <1>2, <2>1 DEF DataField
  <2> QED  BY <1>1, <1>3, <2>1, <2>2, <2>3, <2>4, <2>5, <2>6
<1>10. CASE t = "VK_STRING"
  <2>1. sizes = <<4>> /\ t \in Varying /\ len = -n /\ m = 2 * n
    BY <1>2, <1>10 DEF Parts, Varying, Binary, Small, Large, Written, DataBytes
  <2>2. Serialized(t, d) = <<Field(4, -n)>> \o DataField(2 * n, d)
    BY <1>1, <1>10 DEF Serialized
  <2>3. parts = <<Field(4, -n)>>
    BY <2>1
  <2>4. DataField(2 * n, d) = IF m > 0 THEN <<Field(m, d)>> ELSE <<>>
    BY <1>2, <2>1 DEF DataField
  <2> QED  BY <1>1, <1>3, <2>1, <2>2, <2>3, <2>4
<1>11. CASE t = "VK_BLOB"
  <2>1. sizes = <<4>> /\ t \in Varying /\ len = n /\ m = n
    BY <1>11 DEF Parts, Varying, Binary, Small, Large, Written, DataBytes
  <2>2. Serialized(t, d) = <<Field(4, n)>> \o DataField(n, d)
    BY <1>1, <1>11 DEF Serialized
  <2>3. parts = <<Field(4, n)>>
    BY <2>1
  <2>4. DataField(n, d) = IF m > 0 THEN <<Field(m, d)>> ELSE <<>>
    BY <1>2, <2>1 DEF DataField
  <2> QED  BY <1>1, <1>3, <2>1, <2>2, <2>3, <2>4
<1>12. t \in Small \union Large
             \union {"VK_LONG", "VK_TIMESTAMP", "VK_FLOAT", "VK_STRING", "VK_BLOB"}
  BY DEF Known, Binary
<1> QED  BY <1>5, <1>6, <1>7, <1>8, <1>9, <1>10, <1>11, <1>12

LEMMA ElementIs ==
    ASSUME NEW p \in Values, NEW e, e.type = TypeOf(p), e.null = IsNull(p), e.data = DataOf(p),
           e.type # "VK_IMAGE", ~IsWide(p)
    PROVE  Element(e) = Expected(p)
<1>1. TypeOf(p) \in Known \ {"VK_IMAGE"}
  BY TypesAreKnown
<1>2. Serialized(TypeOf(p), DataOf(p)) =
         ValueFields(TypeOf(p), Written(TypeOf(p), Len(DataOf(p))), DataOf(p), DataOf(p))
  BY <1>1, DataType, SerializedIs
<1>3. DataOf(p) = Meant(p)
  BY BoundWhole
<1> QED  BY <1>2, <1>3 DEF Element, Expected

(* The tokens have bytes of their own, and base64_encode keeps them.       *)
LEMMA BytesType ==
    ASSUME NEW q \in Seq(Tok)
    PROVE  Bytes(q) \in Seq(Byte)
<1>1. PICK n, b : n = Len(q) /\ b = Bytes(q)
  OBVIOUS
<1>2. n \in Nat /\ DOMAIN q = 1 .. n /\ \A i \in 1 .. n : q[i] \in Tok
  BY <1>1
<1>3. DOMAIN Tokens = 1 .. 12
  BY DEF Tokens
<1>4. ASSUME NEW i \in 1 .. n PROVE b[i] \in Byte
  <2> DEFINE k == CHOOSE k \in DOMAIN Tokens : Tokens[k] = q[i]
  <2>1. \E j \in DOMAIN Tokens : Tokens[j] = q[i]
    BY <1>2 DEF Tok, ToSet
  <2>2. k \in 1 .. 12
    BY <1>3, <2>1
  <2>3. b[i] = 37 + 17 * k
    BY <1>1, <1>2 DEF Bytes
  <2> HIDE DEF k
  <2>4. 37 + 17 * k \in 0 .. 255
    BY <2>2
  <2> QED  BY <2>3, <2>4 DEF Byte
<1>5. DOMAIN b = 1 .. n
  BY <1>1, <1>2 DEF Bytes
<1>6. b = [i \in 1 .. n |-> b[i]]
  BY <1>1, <1>2 DEF Bytes
<1>7. b \in [1 .. n -> Byte]
  BY <1>4, <1>6
<1>8. b \in Seq(Byte)
  BY <1>2, <1>7
<1> QED  BY <1>1, <1>8

-----------------------------------------------------------------------------
(* The request arrives                                                     *)

IsOf(e, p) == e.type = TypeOf(p) /\ e.null = IsNull(p) /\ e.data = DataOf(p)

NoTuples(ps) == \A i \in DOMAIN ps : ~IsTuple(ps[i])

(* The text and the parameters still say what was asked for: put shapes in *)
(* the one, items in the other, and it is there.                           *)
TextInv ==
    /\ query \in Seq(Tok) /\ params \in Seq(Params)
    /\ pc # "idle" =>
          /\ Flat(params) = AskedParams
          /\ IsPlain(asked[1]) => WithShapes(query, params) = AskedText

(* What is bound is a beginning of the parameters.                         *)
BoundInv ==
    pc \in {"bind", "bound"} =>
        /\ NoTuples(params)
        /\ Len(statement.elmt) <= Len(params)
        /\ \A i \in DOMAIN statement.elmt : IsOf(statement.elmt[i], params[i])

SentInv ==
    /\ WasSent => pc = "returned"
    /\ RequestArrives

RInv == TextInv /\ BoundInv /\ SentInv

LEMMA ArrivalInit == Init => RInv
<1>1. <<>> \in Seq(Tok) /\ <<>> \in Seq(Params)
  OBVIOUS
<1> QED  BY <1>1 DEF Init, RInv, TextInv, BoundInv, SentInv, WasSent, RequestArrives

(* The parameters that a query is given are parameters.                    *)
LEMMA GivenType ==
    ASSUME NEW q \in Queries, NEW args \in Arguments,
           args.isDict => ToSet(Keys(q)) \subseteq DOMAIN args.of
    PROVE  q \in Seq(Tok) /\ args.isDict \in BOOLEAN /\ Given(q, args) \in Seq(Params)
<1>1. q \in Seq(Tok)
  BY QueriesAssumption DEF Tok
<1>2. args.isDict \in BOOLEAN
  BY ArgumentsAssumption
<1>3. CASE ~args.isDict
  BY <1>1, <1>2, <1>3, ArgumentsAssumption DEF Given
<1>4. CASE args.isDict
  <2>1. PICK style, n : style = Style(q) /\ n = Len(q)
    OBVIOUS
  <2>2. n \in Nat /\ DOMAIN q = 1 .. n /\ \A i \in 1 .. n : q[i] \in Tok
    BY <1>1, <2>1
  <2>3. PICK s : s = [i \in DOMAIN q |-> IF q[i] \in DOMAIN style THEN <<q[i]>> ELSE <<>>]
    OBVIOUS
  <2>4. \A i \in 1 .. n : <<q[i]>> \in Seq(Tok) /\ <<>> \in Seq(Tok)
    BY <2>2
  <2>5. s \in [1 .. n -> Seq(Tok)]
    BY <2>2, <2>3, <2>4
  <2>6. s \in Seq(Seq(Tok))
    BY <2>2, <2>5
  <2>7. PICK marks : marks = Marks(q, style)
    OBVIOUS
  <2>8. marks = FlattenSeq(s)
    BY <2>3, <2>7 DEF Marks
  <2>9. marks \in Seq(Tok)
    BY <2>6, <2>8, FlattenType
  <2>10. PICK m : m = Len(marks)
    OBVIOUS
  <2>11. m \in Nat /\ DOMAIN marks = 1 .. m
    BY <2>9, <2>10
  <2>12. DOMAIN Keys(q) = 1 .. m
    BY <2>1, <2>7, <2>11 DEF Keys
  <2>13. PICK given : given = Given(q, args)
    OBVIOUS
  <2>14. given = [i \in 1 .. m |-> args.of[Keys(q)[i]]]
    BY <1>4, <2>12, <2>13 DEF Given
  <2>15. \A i \in 1 .. m : args.of[Keys(q)[i]] \in Params
    <3>1. \A i \in 1 .. m : Keys(q)[i] \in DOMAIN args.of
      BY <1>4, <2>12 DEF ToSet
    <3> QED  BY <1>4, <3>1, ArgumentsAssumption
  <2>16. given \in [1 .. m -> Params]
    BY <2>14, <2>15
  <2>17. given \in Seq(Params)
    BY <2>11, <2>16
  <2> QED  BY <1>1, <1>2, <2>13, <2>17
<1> QED  BY <1>2, <1>3, <1>4

LEMMA ExecuteArrives ==
    ASSUME RInv, NEW q \in Queries, NEW args \in Arguments, Execute(q, args)
    PROVE  RInv'
<1>1. /\ pc = "idle" /\ (args.isDict => ToSet(Keys(q)) \subseteq DOMAIN args.of)
      /\ asked' = <<q, args>> /\ params' = Given(q, args) /\ pc' = "tuples"
      /\ query' = Unescaped(WithoutFormats(IF args.isDict THEN WithoutKeys(q) ELSE q))
      /\ request' = request /\ statement' = statement
  BY DEF Execute
<1>2. q \in Seq(Tok) /\ args.isDict \in BOOLEAN /\ params' \in Seq(Params)
  BY <1>1, GivenType
<1>3. PICK t : t = IF args.isDict THEN WithoutKeys(q) ELSE q
  OBVIOUS
<1>4. /\ Unescaped(WithoutFormats(t)) \in Seq(Tok)
      /\ IsPlain(q) => Unescaped(WithoutFormats(t)) = Meaning(t)
  BY <1>2, <1>3, ExecutedText
<1>5. query' = Unescaped(WithoutFormats(t))
  BY <1>1, <1>3
<1>6. asked'[1] = q /\ asked'[2] = args
  BY <1>1
<1>7. Flat(params') = AskedParams'
  BY <1>1, <1>6 DEF AskedParams
<1>8. AskedText' = WithShapes(Meaning(t), params')
  BY <1>1, <1>3, <1>6 DEF AskedText
<1>9. ASSUME IsPlain(asked'[1]) PROVE WithShapes(query', params') = AskedText'
  BY <1>4, <1>5, <1>6, <1>8, <1>9
<1>10. TextInv'
  BY <1>2, <1>4, <1>5, <1>7, <1>9 DEF TextInv
<1>11. BoundInv'
  BY <1>1 DEF BoundInv
<1>12. ~WasSent'
  BY <1>1 DEF RInv, SentInv, WasSent
<1>13. SentInv'
  BY <1>12 DEF SentInv, RequestArrives
<1> QED  BY <1>10, <1>11, <1>13 DEF RInv

LEMMA OpenTupleArrives ==
    ASSUME RInv, OpenTuple
    PROVE  RInv'
<1>1. params \in Seq(Params) /\ query \in Seq(Tok)
  BY DEF RInv, TextInv
<1> DEFINE i == Min(Tuples)
<1>2. i \in Tuples
  <2>1. Len(params) \in Nat /\ DOMAIN params = 1 .. Len(params)
    BY <1>1
  <2>2. Tuples \subseteq DOMAIN params
    BY DEF Tuples
  <2>3. Tuples \in SUBSET Nat
    BY <2>1, <2>2
  <2>4. Tuples # {}
    BY DEF OpenTuple
  <2>5. Tuples \in SUBSET Nat /\ Tuples # {}
    BY <2>3, <2>4
  <2>6. \E k \in Tuples : \A j \in Tuples : k <= j
    BY <2>5, Least
  <2> QED  BY <2>6 DEF Min
<1>3. /\ pc = "tuples" /\ pc' = pc /\ asked' = asked /\ statement' = statement
      /\ request' = request
      /\ query' = ReplaceNth(query, Group(Len(params[i].items)), i)
      /\ params' = Opened(params, i)
  BY DEF OpenTuple, Opened
<1> HIDE DEF i
<1>4. i \in DOMAIN params /\ IsTuple(params[i])
  BY <1>2 DEF Tuples
<1>5. /\ query' \in Seq(Tok) /\ params' \in Seq(Params)
      /\ WithShapes(query', params') = WithShapes(query, params)
  BY <1>1, <1>3, <1>4, OpenedShaped
<1>6. Flat(params') = Flat(params)
  BY <1>1, <1>3, <1>4, OpenedFlat
<1>7. AskedText' = AskedText /\ AskedParams' = AskedParams
  BY <1>3 DEF AskedText, AskedParams
<1>8. TextInv'
  BY <1>3, <1>5, <1>6, <1>7 DEF RInv, TextInv
<1>9. BoundInv'
  BY <1>3 DEF BoundInv
<1>10. ~WasSent'
  BY <1>3 DEF RInv, SentInv, WasSent
<1>11. SentInv'
  BY <1>10 DEF SentInv, RequestArrives
<1> QED  BY <1>8, <1>9, <1>11 DEF RInv

(* The steps that leave the text, the parameters and what was sent alone.  *)
LEMMA KeptArrives ==
    ASSUME RInv, UNCHANGED <<asked, query, params, request>>,
           pc # "idle", pc' # "idle", WasSent => pc' = "returned", BoundInv'
    PROVE  RInv'
<1>1. AskedText' = AskedText /\ AskedParams' = AskedParams
  BY DEF AskedText, AskedParams
<1>2. TextInv'
  BY <1>1 DEF RInv, TextInv
<1>3. WasSent' = WasSent /\ RequestArrives' = RequestArrives
  BY <1>1 DEF WasSent, RequestArrives, TextArrives, DataArrive
<1>4. SentInv'
  BY <1>3 DEF RInv, SentInv
<1> QED  BY <1>2, <1>4 DEF RInv

LEMMA NoneAreTuples ==
    ASSUME Tuples = {}
    PROVE  NoTuples(params)
  BY DEF Tuples, NoTuples

LEMMA PrepareArrives ==
    ASSUME RInv, Prepare
    PROVE  RInv'
<1>1. /\ pc = "tuples" /\ pc' = "bind" /\ Tuples = {} /\ statement' = NewStatement
      /\ UNCHANGED <<asked, query, params, request>>
  BY DEF Prepare
<1>2. statement'.elmt = <<>>
  BY <1>1 DEF NewStatement
<1>3. Len(params) \in Nat
  BY DEF RInv, TextInv
<1>4. Len(statement'.elmt) <= Len(params') /\ DOMAIN statement'.elmt = {}
  BY <1>1, <1>2, <1>3
<1>5. BoundInv'
  BY <1>1, <1>4, NoneAreTuples DEF BoundInv, NoTuples
<1>6. ~WasSent
  BY <1>1 DEF RInv, SentInv
<1> QED  BY <1>1, <1>5, <1>6, KeptArrives

LEMMA BindArrives ==
    ASSUME IInv, RInv, Bind
    PROVE  RInv'
<1> DEFINE p == params[Number]
           e == [type |-> TypeOf(p), null |-> IsNull(p),
                 pValue |-> IF IsNull(p) THEN {} ELSE Copied(TypeOf(p), Number),
                 data |-> DataOf(p)]
<1>1. /\ pc = "bind" /\ HasNext /\ pc' \in {"bind", "bound"}
      /\ statement'.elmt = Append(statement.elmt, e)
      /\ UNCHANGED <<asked, query, params, request>>
  BY DEF Bind
<1>2. PICK elmt, n, S : elmt = statement.elmt /\ n = Len(elmt) /\ S = ToSet(elmt) \union {e}
  OBVIOUS
<1>3. elmt \in Seq(S) /\ n \in Nat
  <2>1. elmt \in Seq(ToSet(elmt))
    BY <1>1, <1>2 DEF IInv, StatementInv, IsStatement
  <2>2. ToSet(elmt) \subseteq S
    BY <1>2
  <2>3. elmt \in Seq(S)
    BY <2>1, <2>2, SeqSubset
  <2> QED  BY <1>2, <2>3
<1>4. IsOf(e, p) /\ Number = n + 1 /\ n + 1 <= Len(params)
  BY <1>1, <1>2 DEF IsOf, Number, HasNext
<1>5. PICK a : a = Append(elmt, e)
  OBVIOUS
<1>6. e \in S
  BY <1>2
<1> HIDE DEF e
<1>7. Len(a) = n + 1 /\ DOMAIN a = 1 .. n + 1 /\ a[n + 1] = e /\ \A i \in 1 .. n : a[i] = elmt[i]
  BY <1>2, <1>3, <1>5, <1>6
<1>8. /\ NoTuples(params) /\ DOMAIN elmt = 1 .. n
      /\ \A i \in 1 .. n : IsOf(elmt[i], params[i])
  BY <1>1, <1>2, <1>3 DEF RInv, BoundInv
<1>9. ASSUME NEW i \in 1 .. n + 1 PROVE IsOf(a[i], params[i])
  <2>1. i \in 1 .. n \/ i = n + 1
    BY <1>3
  <2> QED  BY <1>4, <1>7, <1>8, <2>1
<1>10. BoundInv'
  <2>1. statement'.elmt = a /\ params' = params
    BY <1>1, <1>2, <1>5
  <2> QED  BY <1>4, <1>7, <1>8, <1>9, <2>1 DEF BoundInv, NoTuples
<1>11. ~WasSent
  BY <1>1 DEF RInv, SentInv
<1> QED  BY <1>1, <1>10, <1>11, KeptArrives

LEMMA SendArrives ==
    ASSUME IInv, RInv, Send
    PROVE  RInv'
<1>1. /\ pc = "bind" /\ ~HasNext /\ pc' = "returned"
      /\ UNCHANGED <<asked, query, params, statement>>
  BY DEF Send
<1>2. PICK elmt, n : elmt = statement.elmt /\ n = Len(params)
  OBVIOUS
<1>3. /\ params \in Seq(Params) /\ query \in Seq(Tok) /\ n \in Nat /\ DOMAIN params = 1 .. n
      /\ Flat(params) = AskedParams
      /\ IsPlain(asked[1]) => WithShapes(query, params) = AskedText
  BY <1>1, <1>2 DEF RInv, TextInv
<1>4. NoTuples(params) /\ DOMAIN elmt = 1 .. n /\ \A i \in 1 .. n : IsOf(elmt[i], params[i])
  <2>1. elmt \in Seq(ToSet(elmt))
    BY <1>1, <1>2 DEF IInv, StatementInv, IsStatement
  <2>2. Len(elmt) \in Nat /\ DOMAIN elmt = 1 .. Len(elmt)
    BY <2>1
  <2>3. Len(elmt) <= n /\ ~(Len(elmt) + 1 <= n)
    BY <1>1, <1>2 DEF RInv, BoundInv, HasNext, Number
  <2>4. PICK l : l = Len(elmt)
    OBVIOUS
  <2>5. l \in Nat /\ n \in Nat /\ l <= n /\ ~(l + 1 <= n)
    BY <1>3, <2>2, <2>3, <2>4
  <2>6. l = n
    BY <2>5
  <2>7. Len(elmt) = n
    BY <2>4, <2>6
  <2> QED  BY <1>1, <1>2, <2>2, <2>7 DEF RInv, BoundInv
<1>5. AskedParams = params /\ params \in Seq(Values)
  BY <1>3, <1>4, NoTuplesFlat DEF NoTuples
<1>6. \A i \in 1 .. n : params[i] \in Values
  BY <1>3, <1>5
<1>7. PICK types : types = [i \in DOMAIN elmt |-> elmt[i].type]
  OBVIOUS
<1>8. types = [i \in DOMAIN AskedParams |-> TypeOf(AskedParams[i])]
  BY <1>3, <1>4, <1>5, <1>7 DEF IsOf
<1>9. types \in Seq(Known)
  <2>1. types \in [1 .. n -> Known]
    BY <1>3, <1>5, <1>8, TypesAreKnown
  <2> QED  BY <1>3, <2>1
<1>10. PICK r : r = [statement |-> Encode(Bytes(query)), types |-> TypeList(types),
                     data |-> FlattenSeq([i \in DOMAIN elmt |-> Element(elmt[i])])]
  OBVIOUS
<1>11. request' = r
  BY <1>2, <1>7, <1>10 DEF Send
<1>12. r.types = types
  BY <1>9, <1>10, TypesFit
<1>13. AskedText' = AskedText /\ AskedParams' = AskedParams /\ asked' = asked
  BY <1>1 DEF AskedText, AskedParams
<1>14. ASSUME IsPlain(asked[1]) PROVE Decode(r.statement) = Bytes(AskedText)
  <2>1. Bytes(query) \in Seq(Byte)
    BY <1>3, BytesType
  <2>2. Decode(Encode(Bytes(query))) = Bytes(query)
    BY <2>1, RoundTrip
  <2>3. query = AskedText
    BY <1>3, <1>4, <1>14, NoTuplesShaped DEF NoTuples
  <2> QED  BY <1>10, <2>2, <2>3
<1>15. ASSUME \A i \in DOMAIN AskedParams :
                  TypeOf(AskedParams[i]) # "VK_IMAGE" /\ ~IsWide(AskedParams[i])
       PROVE  r.data = FlattenSeq([i \in DOMAIN AskedParams |-> Expected(AskedParams[i])])
  <2>1. ASSUME NEW i \in 1 .. n PROVE Element(elmt[i]) = Expected(params[i])
    <3>1. TypeOf(params[i]) # "VK_IMAGE" /\ ~IsWide(params[i])
      BY <1>3, <1>5, <1>15
    <3>2. elmt[i].type # "VK_IMAGE"
      BY <1>4, <3>1 DEF IsOf
    <3> QED  BY <1>4, <1>6, <3>1, <3>2, ElementIs DEF IsOf
  <2>2. [i \in DOMAIN elmt |-> Element(elmt[i])] =
           [i \in DOMAIN AskedParams |-> Expected(AskedParams[i])]
    BY <1>3, <1>4, <1>5, <2>1
  <2> QED  BY <1>10, <2>2
<1>16. RequestArrives'
  BY <1>8, <1>11, <1>12, <1>13, <1>14, <1>15
     DEF RequestArrives, TextArrives, DataArrive
<1>17. TextInv'
  BY <1>1, <1>3, <1>13 DEF TextInv
<1>18. BoundInv'
  BY <1>1 DEF BoundInv
<1> QED  BY <1>1, <1>16, <1>17, <1>18 DEF RInv, SentInv

LEMMA ArrivalNext == IInv /\ RInv /\ [Next]_vars => RInv'
<1> SUFFICES ASSUME IInv, RInv, [Next]_vars PROVE RInv'
  OBVIOUS
<1>1. ASSUME NEW q \in Queries, NEW args \in Arguments, Execute(q, args) PROVE RInv'
  BY <1>1, ExecuteArrives
<1>2. CASE OpenTuple
  BY <1>2, OpenTupleArrives
<1>3. CASE Prepare
  BY <1>3, PrepareArrives
<1>4. CASE PrepareFails
  <2>1. pc # "idle" /\ pc' = "returned" /\ UNCHANGED <<asked, query, params, request>>
    BY <1>4 DEF PrepareFails
  <2> QED  BY <2>1, KeptArrives DEF BoundInv
<1>5. CASE CreateString
  <2>1. /\ pc = "bind" /\ pc' = pc
        /\ UNCHANGED <<asked, query, params, request, statement>>
    BY <1>5 DEF CreateString
  <2>2. BoundInv' /\ ~WasSent
    BY <2>1 DEF RInv, BoundInv, SentInv, NoTuples
  <2> QED  BY <2>1, <2>2, KeptArrives
<1>6. CASE Bind
  BY <1>6, BindArrives
<1>7. CASE BindNoMemory
  <2>1. pc # "idle" /\ pc' = "returned" /\ UNCHANGED <<asked, query, params, request>>
    BY <1>7 DEF BindNoMemory
  <2> QED  BY <2>1, KeptArrives DEF BoundInv
<1>8. CASE BindRaises
  <2>1. pc # "idle" /\ pc' = "returned" /\ UNCHANGED <<asked, query, params, request>>
    BY <1>8 DEF BindRaises
  <2> QED  BY <2>1, KeptArrives DEF BoundInv
<1>9. CASE FreeString
  <2>1. /\ pc = "bound" /\ pc' = "bind"
        /\ UNCHANGED <<asked, query, params, request, statement>>
    BY <1>9 DEF FreeString
  <2>2. BoundInv' /\ ~WasSent
    BY <2>1 DEF RInv, BoundInv, SentInv, NoTuples
  <2> QED  BY <2>1, <2>2, KeptArrives
<1>10. CASE Send
  BY <1>10, SendArrives
<1>11. CASE Return
  <2>1. pc' = "idle" /\ query' = <<>> /\ params' = <<>> /\ request' = NoRequest
    BY <1>11 DEF Return
  <2>2. <<>> \in Seq(Tok) /\ <<>> \in Seq(Params)
    OBVIOUS
  <2> QED  BY <2>1, <2>2 DEF RInv, TextInv, BoundInv, SentInv, WasSent, RequestArrives
<1>12. CASE ForgetStatement
  <2>1. /\ pc = "idle" /\ pc' = pc /\ UNCHANGED <<asked, query, params, request>>
    BY <1>12 DEF ForgetStatement
  <2>2. ~WasSent'
    BY <2>1 DEF RInv, SentInv, WasSent
  <2> QED  BY <2>1, <2>2 DEF RInv, TextInv, BoundInv, SentInv, RequestArrives
<1>13. CASE UNCHANGED vars
  BY <1>13 DEF vars, RInv, TextInv, BoundInv, SentInv, RequestArrives, TextArrives, DataArrive,
               WasSent, AskedText, AskedParams, NoTuples
<1> QED
  BY <1>1, <1>2, <1>3, <1>4, <1>5, <1>6, <1>7, <1>8, <1>9, <1>10, <1>11, <1>12, <1>13 DEF Next

(* Whatever plain text execute() is called with, the request that is sent  *)
(* has the query that was meant, with the marks of the tuples in their     *)
(* places; whatever the text, its types are those of the parameters in     *)
(* their order, none of them cut off; and where no parameter is an image   *)
(* or a str with a character outside the BMP, its data are their whole     *)
(* values, each in the format that values of its type are read in.         *)
THEOREM RequestsArrive == Spec => []RequestArrives
<1>1. RInv => RequestArrives
  BY DEF RInv, SentInv
<1> QED  BY <1>1, ArrivalInit, ArrivalNext, InitInv, NextInv, PTL DEF Spec

=============================================================================

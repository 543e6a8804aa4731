--------------------------- MODULE RowData_proofs ---------------------------
(***************************************************************************)
(* For every schema, number of rows and length: the blocks that the arena  *)
(* gives out for the values of a page are sound, a page that failed has an *)
(* error code, the client reads just what the server writes, the table     *)
(* holds what was sent, and no value is written over.                      *)
(*                                                                         *)
(* BlocksAreSound alone is not inductive: that the next block begins at a  *)
(* multiple of 8 needs the chunks' used bytes to be one, and that it fits  *)
(* needs them to be within the capacity (IInv).  StaysInStep says nothing  *)
(* of what lies on the wire while the client has yet to read it: Position  *)
(* says it for every place of the client's loops, and so makes inductive   *)
(* what the reads ask for and what the table holds of a cell (StreamInv).  *)
(* ValuesSurvive is inductive only with the blocks that hold the values    *)
(* (MemoryInv): the next value is stored into a new one.                   *)
(***************************************************************************)
EXTENDS RowData, SequenceTheorems, TLAPS

ChunkType == [used : Nat, cap : Nat]
BlockType == [chunk : Nat, at : Nat, size : Nat]

ArenaInv ==
    /\ chunks \in Seq(ChunkType) /\ blocks \in Seq(BlockType)
    /\ \A c \in DOMAIN chunks : chunks[c].used % 8 = 0 /\ chunks[c].used <= chunks[c].cap
    /\ BlocksAreSound

-----------------------------------------------------------------------------
(* Rounding up to a multiple of 8.                                         *)
LEMMA RoundedUp ==
    ASSUME NEW n \in Nat
    PROVE  Rounded(n) \in Nat /\ Rounded(n) % 8 = 0 /\ n <= Rounded(n)
BY DEF Rounded

LEMMA Multiples ==
    ASSUME NEW x \in Nat, NEW y \in Nat, x % 8 = 0, y % 8 = 0
    PROVE  (x + y) % 8 = 0
OBVIOUS

(* A block from the newest chunk begins where the others of it end.        *)
LEMMA AllocInChunk ==
    ASSUME ArenaInv, NEW n \in Nat, Alloc(n), Fits(Rounded(n))
    PROVE  ArenaInv'
<1> DEFINE s == Rounded(n)
           N == Newest
           b == [chunk |-> N, at |-> chunks[N].used, size |-> n]
<1>1. s \in Nat /\ s % 8 = 0 /\ n <= s
  BY RoundedUp
<1>2. /\ N \in DOMAIN chunks /\ N \in Nat /\ N = Len(chunks)
      /\ chunks[N].cap - chunks[N].used >= s
  BY DEF Fits, Newest, ArenaInv
<1> HIDE DEF s, N
<1>3. /\ chunks' = [chunks EXCEPT ![N].used = @ + s]
      /\ blocks' = Append(blocks, b)
  BY DEF Alloc, Place, s, N
<1>4. /\ chunks[N] \in ChunkType /\ \A c \in DOMAIN chunks : chunks[c] \in ChunkType
      /\ chunks[N].used \in Nat /\ chunks[N].cap \in Nat
  <2>1. \A c \in DOMAIN chunks : chunks[c] \in ChunkType
    BY DEF ArenaInv
  <2>2. chunks[N] \in ChunkType
    BY <1>2, <2>1
  <2> QED
    BY <2>1, <2>2 DEF ChunkType
<1>5. b \in BlockType /\ b.chunk = N /\ b.at = chunks[N].used /\ b.size = n
  BY <1>2, <1>4 DEF BlockType
<1> HIDE DEF b
<1>6. /\ DOMAIN chunks' = DOMAIN chunks
      /\ chunks'[N].used = chunks[N].used + s
      /\ chunks'[N].cap = chunks[N].cap
      /\ chunks'[N] \in ChunkType
      /\ \A c \in DOMAIN chunks : c # N => chunks'[c] = chunks[c]
  BY <1>1, <1>2, <1>3, <1>4 DEF ArenaInv, ChunkType
<1>7. chunks' \in Seq(ChunkType)
  BY <1>1, <1>2, <1>3, <1>4 DEF ArenaInv, ChunkType
<1>8. /\ blocks' \in Seq(BlockType)
      /\ Len(blocks) \in Nat
      /\ DOMAIN blocks = 1 .. Len(blocks)
      /\ DOMAIN blocks' = 1 .. Len(blocks) + 1
      /\ \A i \in DOMAIN blocks : blocks'[i] = blocks[i] /\ blocks[i] \in BlockType
      /\ blocks'[Len(blocks) + 1] = b
  BY <1>3, <1>5 DEF ArenaInv
<1>9. \A c \in DOMAIN chunks' : chunks'[c].used % 8 = 0 /\ chunks'[c].used <= chunks'[c].cap
  <2>1. (chunks[N].used + s) % 8 = 0
    BY <1>1, <1>2, <1>4, Multiples DEF ArenaInv
  <2>2. chunks[N].used + s <= chunks[N].cap
    BY <1>1, <1>2, <1>4
  <2> QED
    BY <1>6, <2>1, <2>2 DEF ArenaInv
<1>10. BlocksFit'
  <2> SUFFICES ASSUME NEW i \in DOMAIN blocks'
               PROVE  /\ blocks'[i].chunk \in DOMAIN chunks'
                      /\ blocks'[i].at + blocks'[i].size <= chunks'[blocks'[i].chunk].used
                      /\ chunks'[blocks'[i].chunk].used <= chunks'[blocks'[i].chunk].cap
                      /\ blocks'[i].at % 8 = 0
    BY DEF BlocksFit
  <2>1. CASE i \in DOMAIN blocks
    <3>1. /\ blocks'[i] = blocks[i] /\ blocks[i].chunk \in DOMAIN chunks
          /\ blocks[i].at + blocks[i].size <= chunks[blocks[i].chunk].used
          /\ blocks[i].at % 8 = 0
          /\ blocks[i].at \in Nat /\ blocks[i].size \in Nat
      BY <2>1, <1>8 DEF ArenaInv, BlocksAreSound, BlocksFit, BlockType
    <3>2. chunks[blocks[i].chunk].used <= chunks'[blocks[i].chunk].used
      BY <3>1, <1>1, <1>4, <1>6 DEF ChunkType
    <3>3. chunks[blocks[i].chunk].used \in Nat /\ chunks'[blocks[i].chunk].used \in Nat
      BY <3>1, <1>1, <1>4, <1>6 DEF ChunkType
    <3> QED
      BY <3>1, <3>2, <3>3, <1>6, <1>9
  <2>2. CASE i = Len(blocks) + 1
    <3>1. blocks'[i] = b
      BY <2>2, <1>8
    <3>2. chunks[N].used % 8 = 0
      BY <1>2 DEF ArenaInv
    <3> QED
      BY <3>1, <3>2, <1>1, <1>2, <1>4, <1>5, <1>6, <1>9
  <2> QED
    BY <2>1, <2>2, <1>8
<1>11. ASSUME NEW i \in DOMAIN blocks, blocks[i].chunk = N
       PROVE  blocks[i].at + blocks[i].size <= b.at
  BY <1>5, <1>11 DEF ArenaInv, BlocksAreSound, BlocksFit
<1>12. BlocksAreDisjoint'
  <2> SUFFICES ASSUME NEW i \in DOMAIN blocks', NEW j \in DOMAIN blocks', i # j,
                      blocks'[i].chunk = blocks'[j].chunk
               PROVE  \/ blocks'[i].at + blocks'[i].size <= blocks'[j].at
                      \/ blocks'[j].at + blocks'[j].size <= blocks'[i].at
    BY DEF BlocksAreDisjoint
  <2>1. CASE i \in DOMAIN blocks /\ j \in DOMAIN blocks
    BY <2>1, <1>8 DEF ArenaInv, BlocksAreSound, BlocksAreDisjoint
  <2>2. CASE i = Len(blocks) + 1 /\ j \in DOMAIN blocks
    BY <2>2, <1>5, <1>8, <1>11
  <2>3. CASE j = Len(blocks) + 1 /\ i \in DOMAIN blocks
    BY <2>3, <1>5, <1>8, <1>11
  <2> QED
    BY <2>1, <2>2, <2>3, <1>8
<1> QED
  BY <1>7, <1>8, <1>9, <1>10, <1>12 DEF ArenaInv, BlocksAreSound

(* A block that does not fit is the first of a new chunk.                  *)
LEMMA AllocNewChunk ==
    ASSUME ArenaInv, NEW n \in Nat, Alloc(n), ~Fits(Rounded(n))
    PROVE  ArenaInv'
<1> DEFINE s == Rounded(n)
           N == Newest + 1
           b == [chunk |-> N, at |-> 0, size |-> n]
           c0 == [used |-> s, cap |-> IF s > ChunkSize THEN s ELSE ChunkSize]
<1>1. s \in Nat /\ s % 8 = 0 /\ n <= s
  BY RoundedUp
<1>2. N \in Nat /\ N = Len(chunks) + 1 /\ Len(chunks) \in Nat
  BY DEF Newest, ArenaInv
<1>3. c0 \in ChunkType /\ c0.used = s /\ s <= c0.cap
  BY <1>1, ArenaAssumption DEF ChunkType
<1>4. b \in BlockType /\ b.chunk = N /\ b.at = 0 /\ b.size = n
  BY <1>2 DEF BlockType
<1> HIDE DEF s, N
<1>5. chunks' = Append(chunks, c0) /\ blocks' = Append(blocks, b)
  BY DEF Alloc, Place, s, N
<1> HIDE DEF b, c0
<1>6. /\ chunks' \in Seq(ChunkType)
      /\ DOMAIN chunks' = 1 .. Len(chunks) + 1 /\ DOMAIN chunks = 1 .. Len(chunks)
      /\ \A c \in DOMAIN chunks : chunks'[c] = chunks[c]
      /\ chunks'[N] = c0
  BY <1>2, <1>3, <1>5 DEF ArenaInv
<1>7. /\ blocks' \in Seq(BlockType)
      /\ Len(blocks) \in Nat
      /\ DOMAIN blocks = 1 .. Len(blocks)
      /\ DOMAIN blocks' = 1 .. Len(blocks) + 1
      /\ \A i \in DOMAIN blocks : blocks'[i] = blocks[i] /\ blocks[i] \in BlockType
      /\ blocks'[Len(blocks) + 1] = b
  BY <1>4, <1>5 DEF ArenaInv
<1>8. \A c \in DOMAIN chunks' : chunks'[c].used % 8 = 0 /\ chunks'[c].used <= chunks'[c].cap
  <2> SUFFICES ASSUME NEW c \in DOMAIN chunks'
               PROVE  chunks'[c].used % 8 = 0 /\ chunks'[c].used <= chunks'[c].cap
    OBVIOUS
  <2>1. CASE c \in DOMAIN chunks
    BY <2>1, <1>6 DEF ArenaInv
  <2>2. CASE c = N
    BY <2>2, <1>1, <1>3, <1>6
  <2> QED
    BY <2>1, <2>2, <1>2, <1>6
<1>9. \A i \in DOMAIN blocks : blocks[i].chunk \in DOMAIN chunks /\ blocks[i].chunk # N
  BY <1>2, <1>6 DEF ArenaInv, BlocksAreSound, BlocksFit
<1>10. BlocksFit'
  <2> SUFFICES ASSUME NEW i \in DOMAIN blocks'
               PROVE  /\ blocks'[i].chunk \in DOMAIN chunks'
                      /\ blocks'[i].at + blocks'[i].size <= chunks'[blocks'[i].chunk].used
                      /\ chunks'[blocks'[i].chunk].used <= chunks'[blocks'[i].chunk].cap
                      /\ blocks'[i].at % 8 = 0
    BY DEF BlocksFit
  <2>1. CASE i \in DOMAIN blocks
    <3>1. /\ blocks[i].at + blocks[i].size <= chunks[blocks[i].chunk].used
          /\ blocks[i].at % 8 = 0
      BY <2>1 DEF ArenaInv, BlocksAreSound, BlocksFit
    <3> QED
      BY <2>1, <3>1, <1>2, <1>6, <1>7, <1>8, <1>9
  <2>2. CASE i = Len(blocks) + 1
    <3>1. blocks'[i] = b /\ N \in DOMAIN chunks'
      BY <2>2, <1>2, <1>6, <1>7
    <3>2. chunks'[N].used = s /\ chunks'[N].used <= chunks'[N].cap
      BY <3>1, <1>3, <1>6, <1>8
    <3>3. 0 + n <= s /\ 0 % 8 = 0
      BY <1>1
    <3> QED
      BY <3>1, <3>2, <3>3, <1>4
  <2> QED
    BY <2>1, <2>2, <1>7
<1>11. BlocksAreDisjoint'
  <2> SUFFICES ASSUME NEW i \in DOMAIN blocks', NEW j \in DOMAIN blocks', i # j,
                      blocks'[i].chunk = blocks'[j].chunk
               PROVE  \/ blocks'[i].at + blocks'[i].size <= blocks'[j].at
                      \/ blocks'[j].at + blocks'[j].size <= blocks'[i].at
    BY DEF BlocksAreDisjoint
  <2>1. i \in DOMAIN blocks /\ j \in DOMAIN blocks
    BY <1>4, <1>7, <1>9
  <2> QED
    BY <2>1, <1>7 DEF ArenaInv, BlocksAreSound, BlocksAreDisjoint
<1> QED
  BY <1>6, <1>7, <1>8, <1>10, <1>11 DEF ArenaInv, BlocksAreSound

LEMMA AllocKeepsSound ==
    ASSUME ArenaInv, NEW n \in Nat, Alloc(n)
    PROVE  ArenaInv'
BY AllocInChunk, AllocNewChunk

LEMMA NoAlloc ==
    ASSUME ArenaInv, UNCHANGED arenaVars
    PROVE  ArenaInv'
BY DEF ArenaInv, arenaVars, BlocksAreSound, BlocksFit, BlocksAreDisjoint

-----------------------------------------------------------------------------
(* The page                                                                *)

(* An error code is set as the page fails, and a page that has ended does  *)
(* not go on.                                                              *)
Ended ==
    /\ pc = "done" <=> ret # "none"
    /\ FailureHasCode

IInv == ArenaInv /\ len \in Nat /\ Ended

LEMMA SizesAreNat ==
    ASSUME NEW t, NEW n \in Nat
    PROVE  StructSize(t) \in Nat /\ DataSize(t, n) \in Nat
BY DEF StructSize, DataSize

LEMMA InitHolds ==
    ASSUME Init
    PROVE  IInv
<1>1. ArenaInv
  BY DEF Init, ArenaInit, ArenaInv, BlocksAreSound, BlocksFit, BlocksAreDisjoint
<1> QED
  BY <1>1 DEF Init, IInv, Ended, FailureHasCode

(* The loops go on with no error, or end with none.                        *)
LEMMA Looping ==
    ASSUME Ended, ret = "none", NEW k, LoopsTo(k), UNCHANGED error_code
    PROVE  Ended'
BY DEF Ended, LoopsTo, Return, FailureHasCode

LEMMA Failing ==
    ASSUME NEW r, r \notin {"none", "ok"}, Fails(r)
    PROVE  Ended' /\ len' = len
BY DEF Ended, Fails, Return, FailureHasCode

LEMMA GoingOn ==
    ASSUME Ended, ret = "none", pc' # "done", UNCHANGED <<error_code, ret>>
    PROVE  Ended'
BY DEF Ended, FailureHasCode

LEMMA StepHolds ==
    ASSUME IInv, [Next]_vars
    PROVE  IInv'
<1> USE DEF IInv
<1>1. CASE SendRowStatus
  BY <1>1, NoAlloc DEF SendRowStatus, Ended, FailureHasCode
<1>2. CASE SendCell
  BY <1>2, NoAlloc DEF SendCell, Ended, FailureHasCode
<1>n. ASSUME pc # "done"
      PROVE  ret = "none"
  BY <1>n DEF Ended
<1>3. CASE Begin
  BY <1>3, <1>n, NoAlloc, Looping DEF Begin
<1>4. CASE ReadRowStatus
  <2>1. ret = "none" /\ pc' # "done" /\ UNCHANGED <<len, error_code, ret, arenaVars>>
    BY <1>4, <1>n DEF ReadRowStatus, Reads
  <2> QED
    BY <2>1, NoAlloc, GoingOn
<1>5. CASE ReadRowId
  <2>1. ret = "none" /\ pc' # "done" /\ UNCHANGED <<len, error_code, ret, arenaVars>>
    BY <1>5, <1>n DEF ReadRowId, Reads
  <2> QED
    BY <2>1, NoAlloc, GoingOn
<1>6. CASE UnknownStatus
  BY <1>6, NoAlloc, Failing DEF UnknownStatus
<1>7. CASE ReadErrorCode
  <2> DEFINE code == wire[1].v
  <2>1. /\ Return("server error")
        /\ error_code' = -1 \/ error_code' = IF code = 0 THEN -1 ELSE code
        /\ UNCHANGED <<len, arenaVars>>
    BY <1>7 DEF ReadErrorCode
  <2> HIDE DEF code
  <2>0. -1 # 0
    OBVIOUS
  <2>2. error_code' # 0
    <3>1. CASE error_code' = -1
      BY <3>1, <2>0
    <3>2. CASE error_code' = (IF code = 0 THEN -1 ELSE code)
      BY <3>2, <2>0, Zenon
    <3> QED
      BY <2>1, <3>1, <3>2
  <2> QED
    BY <2>1, <2>2, NoAlloc DEF Return, Ended, FailureHasCode
<1>8. CASE ReadCellStatus
  <2>1. ret = "none" /\ UNCHANGED <<len, error_code, arenaVars>>
    BY <1>8, <1>n DEF ReadCellStatus, Reads, Fill
  <2>2. LoopsTo(Len(elmt) + 1) \/ (pc' # "done" /\ UNCHANGED ret)
    BY <1>8 DEF ReadCellStatus, Fill
  <2> QED
    BY <2>1, <2>2, NoAlloc, Looping, GoingOn
<1>9. CASE UnknownType
  BY <1>9, NoAlloc, Failing DEF UnknownType
<1>10. CASE ReadFixed
  <2>1. ret = "none" /\ LoopsTo(Len(elmt) + 1) /\ UNCHANGED <<len, error_code>>
    BY <1>10, <1>n DEF ReadFixed, Fill
  <2>2. Alloc(StructSize(Type))
    BY <1>10 DEF ReadFixed
  <2> QED
    BY <2>1, <2>2, SizesAreNat, AllocKeepsSound, Looping
<1>11. CASE ReadStruct
  <2> DEFINE n == Length(Type, LastPart)
  <2>1. ret = "none" /\ Alloc(StructSize(Type)) /\ n \in Nat
    BY <1>11, <1>n, LengthsAssumption DEF ReadStruct, Accepts
  <2>2. \/ LoopsTo(Len(elmt) + 1) /\ UNCHANGED <<len, error_code>>
        \/ len' = n /\ pc' # "done" /\ UNCHANGED <<error_code, ret>>
    BY <1>11 DEF ReadStruct, Fill
  <2> QED
    BY <2>1, <2>2, SizesAreNat, AllocKeepsSound, Looping, GoingOn
<1>12. CASE WrongLength
  <2>1. Alloc(StructSize(Type)) /\ Fails("malformed")
    BY <1>12 DEF WrongLength
  <2> QED
    BY <2>1, SizesAreNat, AllocKeepsSound, Failing
<1>13. CASE ReadData
  <2>1. ret = "none" /\ LoopsTo(Len(elmt) + 1) /\ UNCHANGED <<len, error_code>>
    BY <1>13, <1>n DEF ReadData, Fill, Reads
  <2>2. Alloc(DataSize(Type, len))
    BY <1>13 DEF ReadData
  <2> QED
    BY <2>1, <2>2, SizesAreNat, AllocKeepsSound, Looping
<1>14. CASE ReadFails
  <2>1. \E r \in {"garbled", "lost"} : Fails(r)
    BY <1>14 DEF ReadFails
  <2>2. Ended' /\ len' = len
    BY <2>1, Failing
  <2>3. Alloc(StructSize(Type)) \/ Alloc(DataSize(Type, len)) \/ UNCHANGED arenaVars
    BY <1>14 DEF ReadFails
  <2> QED
    BY <2>2, <2>3, SizesAreNat, AllocKeepsSound, NoAlloc
<1>15. CASE NoMemory
  BY <1>15, NoAlloc, Failing DEF NoMemory
<1>16. CASE UNCHANGED vars
  BY <1>16, NoAlloc DEF vars, Ended, FailureHasCode
<1> QED
  BY <1>1, <1>2, <1>3, <1>4, <1>5, <1>6, <1>7, <1>8, <1>9, <1>10, <1>11, <1>12, <1>13,
     <1>14, <1>15, <1>16 DEF Next

(* The inductive invariant: the chunks' bookkeeping, the lengths accepted, *)
(* and when the error code is set.                                         *)
THEOREM InvariantHolds == Spec => []IInv
BY InitHolds, StepHolds, PTL DEF Spec

(* Whatever sizes are asked for, _arena_alloc's blocks lie in the memory   *)
(* of their chunk, begin at a multiple of 8 and share no byte.             *)
THEOREM BlocksOfValuesAreSound == Spec => []BlocksAreSound
<1>1. IInv => BlocksAreSound
  BY DEF IInv, ArenaInv
<1> QED
  BY <1>1, InvariantHolds, PTL

(* A page that is not whole leaves an error code, and one that is, none:   *)
(* fetchone tells the end of the rows from a failure by nothing else.      *)
THEOREM FailuresHaveACode == Spec => []FailureHasCode
<1>1. IInv => FailureHasCode
  BY DEF IInv, Ended
<1> QED
  BY <1>1, InvariantHolds, PTL

-----------------------------------------------------------------------------
(* The stream of fields                                                    *)

(* The number of cells, the type of the k-th from 0, and how many are      *)
(* read.                                                                   *)
Total == nbRow * nbCol
TypeAt(k) == column[(k % nbCol) + 1]
Kept == Len(elmt)

(* What the fields say, and the cells that the server writes.              *)
Statuses == {"0", "1", "2", "bad"}
Said == Int \union Statuses \union {"row_id"}
FieldType == [n : Nat, v : Said]
CellType == [status : Statuses, len : Int]

(* n cells make a row: between two multiples of n there is none.           *)
LEMMA RowArithmetic ==
    ASSUME NEW n \in Nat \ {0}, NEW b \in Nat, NEW k \in Nat
    PROVE  /\ b * n \in Nat /\ (b + 1) * n = b * n + n
           /\ b * n = k \/ b * n = k + n => k % n = 0
           /\ k % n = 0 /\ k <= b * n /\ b * n < k + n => b * n = k
           /\ \A c \in Nat : (b < c => b * n + n <= c * n) /\ (b * n = c * n => b = c)
<1>1. b * n \in Nat /\ (b + 1) * n = b * n + n
  OBVIOUS
<1>2. (b * n) % n = 0
  OBVIOUS
<1> DEFINE q == k \div n
           r == k % n
<1>3. r \in 0 .. n - 1 /\ q \in Nat /\ k = q * n + r
  OBVIOUS
<1>4. ASSUME NEW c \in Nat
      PROVE  (b < c => b * n + n <= c * n) /\ (b * n = c * n => b = c)
  OBVIOUS
<1>5. ASSUME NEW p \in Nat, p * n <= b * n, b * n < p * n + n
      PROVE  b = p
  BY <1>5
<1>6. q * n \in Nat /\ (q + 1) * n = q * n + n /\ q + 1 \in Nat
  BY <1>3
<1> HIDE DEF q, r
<1>7. ASSUME k % n = 0, k <= b * n, b * n < k + n
      PROVE  b * n = k
  <2>1. r = 0
    BY <1>7 DEF r
  <2>2. b = q
    BY <2>1, <1>3, <1>5, <1>7
  <2> QED
    BY <2>1, <2>2, <1>3
<1>8. ASSUME b * n = k + n
      PROVE  k % n = 0
  <2>1. (q + 1) * n <= b * n /\ b * n < (q + 1) * n + n
    BY <1>1, <1>3, <1>6, <1>8
  <2>2. b = q + 1
    BY <2>1, <1>5, <1>6
  <2>3. r = 0
    BY <2>2, <1>3, <1>6, <1>8
  <2> QED
    BY <2>3 DEF r
<1>9. ASSUME b * n = k
      PROVE  k % n = 0
  BY <1>9, <1>2
<1> QED
  BY <1>1, <1>4, <1>7, <1>8, <1>9

LEMMA FieldTyped ==
    ASSUME NEW m \in Nat, NEW v \in Said
    PROVE  Field(m, v) \in FieldType /\ Field(m, v).n = m /\ Field(m, v).v = v
BY DEF Field, FieldType

(* Every value has at least one field.                                     *)
LEMMA PartsTyped ==
    ASSUME NEW t
    PROVE  /\ Parts(t) \in Seq(Nat) /\ Len(Parts(t)) \in Nat /\ Len(Parts(t)) >= 1
BY DEF Parts

(* What is left after the first fields have been taken.                    *)
LEMMA AfterTheFirst ==
    ASSUME NEW F, NEW s \in Seq(F), NEW r \in Seq(F), NEW w, w = s \o r
    PROVE  /\ w \in Seq(F) /\ Len(w) = Len(s) + Len(r) /\ Len(w) >= Len(s)
           /\ SubSeq(w, Len(s) + 1, Len(w)) = r
           /\ \A i \in 1 .. Len(s) : w[i] = s[i]
OBVIOUS

(* A row's fields are its status and, once that is read, its id or a code. *)
LEMMA RowSplit ==
    ASSUME NEW status \in Statuses, NEW code \in Codes, NEW w, w = RowFields(status, code)
    PROVE  /\ w \in Seq(FieldType) /\ w # <<>> /\ w[1] = Field(1, status)
           /\ status = "1" => SubSeq(w, 2, Len(w)) = <<Field(4, "row_id")>>
           /\ status = "2" => SubSeq(w, 2, Len(w)) = <<Field(8, code)>>
           /\ status \notin {"1", "2"} => SubSeq(w, 2, Len(w)) = <<>>
<1>1. /\ Field(1, status) \in FieldType /\ Field(8, code) \in FieldType
      /\ Field(4, "row_id") \in FieldType
  BY LengthsAssumption, FieldTyped DEF Said, Statuses
<1> DEFINE r == CASE status = "1" -> <<Field(4, "row_id")>>
                  [] status = "2" -> <<Field(8, code)>>
                  [] OTHER -> <<>>
           first == <<Field(1, status)>>
<1>2. w = first \o r
  BY DEF RowFields
<1>3. first \in Seq(FieldType) /\ r \in Seq(FieldType)
  BY <1>1
<1>4. /\ Len(first) = 1 /\ first[1] = Field(1, status)
      /\ status = "1" => r = <<Field(4, "row_id")>>
      /\ status = "2" => r = <<Field(8, code)>>
      /\ status \notin {"1", "2"} => r = <<>>
  BY <1>1
<1> HIDE DEF r, first
<1>5. /\ w \in Seq(FieldType) /\ Len(w) >= Len(first)
      /\ SubSeq(w, Len(first) + 1, Len(w)) = r
      /\ \A i \in 1 .. Len(first) : w[i] = first[i]
  BY <1>2, <1>3, AfterTheFirst
<1>6. /\ w \in Seq(FieldType) /\ w[1] = first[1] /\ SubSeq(w, 2, Len(w)) = r /\ w # <<>>
  BY <1>4, <1>5
<1> QED
  BY <1>4, <1>6

(* A value's fields are its parts, of the sizes the client asks for, and   *)
(* what is left when they are read is its data.                            *)
LEMMA ValueSplit ==
    ASSUME NEW t \in Known, NEW raw \in Int, NEW k \in Nat, NEW w, w = ValueFields(t, raw, k, k)
    PROVE  /\ w \in Seq(FieldType) /\ Len(w) >= Len(Parts(t))
           /\ \A i \in 1 .. Len(Parts(t)) : w[i].n = Parts(t)[i]
           /\ w[Len(Parts(t))].v = IF t \in Varying THEN raw ELSE k
           /\ SubSeq(w, Len(Parts(t)) + 1, Len(w)) =
                 IF t \in Varying /\ DataBytes(t, Written(t, raw)) > 0
                 THEN <<Field(DataBytes(t, Written(t, raw)), k)>> ELSE <<>>
<1> DEFINE sizes == Parts(t)
           parts == [i \in 1 .. Len(sizes) |->
                        Field(sizes[i], IF t \in Varying /\ i = Len(sizes) THEN raw ELSE k)]
           n == DataBytes(t, Written(t, raw))
           data == IF t \in Varying /\ n > 0 THEN <<Field(n, k)>> ELSE <<>>
<1>1. sizes \in Seq(Nat) /\ Len(sizes) \in Nat /\ Len(sizes) >= 1 /\ \A i \in 1 .. Len(sizes) : sizes[i] \in Nat
  BY PartsTyped
<1>2. n \in Int
  BY DEF DataBytes, Written
<1>3. w = parts \o data
  BY DEF ValueFields
<1> HIDE DEF sizes, n
<1>4. /\ parts \in Seq(FieldType) /\ Len(parts) = Len(sizes)
      /\ \A i \in 1 .. Len(sizes) : parts[i].n = sizes[i]
      /\ parts[Len(sizes)].v = IF t \in Varying THEN raw ELSE k
  <2>0. parts = [i \in 1 .. Len(sizes) |-> parts[i]]
    BY <1>1
  <2>1. \A i \in 1 .. Len(sizes) : /\ parts[i] \in FieldType /\ parts[i].n = sizes[i]
                                  /\ parts[i].v = IF t \in Varying /\ i = Len(sizes) THEN raw ELSE k
    BY <1>1, FieldTyped DEF Said
  <2> HIDE DEF parts
  <2>2. parts \in [1 .. Len(sizes) -> FieldType]
    BY <2>0, <2>1
  <2>3. parts \in Seq(FieldType) /\ Len(parts) = Len(sizes)
    BY <1>1, <2>2, IsASeq, LenProperties
  <2> QED
    BY <1>1, <2>1, <2>3
<1>5. data \in Seq(FieldType)
  BY <1>2, FieldTyped DEF Said
<1> HIDE DEF parts, data
<1>6. /\ w \in Seq(FieldType) /\ Len(w) >= Len(sizes)
      /\ SubSeq(w, Len(sizes) + 1, Len(w)) = data
      /\ \A i \in 1 .. Len(sizes) : w[i] = parts[i]
  BY <1>1, <1>3, <1>4, <1>5, AfterTheFirst
<1>7. \A i \in 1 .. Len(sizes) : w[i].n = sizes[i]
  BY <1>4, <1>6
<1>8. w[Len(sizes)].v = IF t \in Varying THEN raw ELSE k
  BY <1>1, <1>4, <1>6
<1>9. data = IF t \in Varying /\ DataBytes(t, Written(t, raw)) > 0
             THEN <<Field(DataBytes(t, Written(t, raw)), k)>> ELSE <<>>
  BY DEF data, n
<1> QED
  BY <1>6, <1>7, <1>8, <1>9 DEF sizes

LEMMA CellTypes ==
    ASSUME NEW t, NEW cell \in Cells(t)
    PROVE  /\ cell \in CellType
           /\ cell.status = "2" => cell.len \in Codes
           /\ cell.status = "1" /\ t \in Varying =>
                 cell.len \in {Written(t, n) : n \in Lengths} \union WrongLengths(t)
<1> DEFINE L == {Written(t, n) : n \in Lengths} \union WrongLengths(t)
<1>1. L \subseteq Int
  <2>1. \A n \in Lengths : Written(t, n) \in Int
    BY LengthsAssumption DEF Written
  <2>2. WrongLengths(t) \subseteq Int
    BY LengthsAssumption DEF WrongLengths
  <2> QED
    BY <2>1, <2>2
<1>2. cell \in [status : {"0", "bad"}, len : {0}] \union [status : {"2"}, len : Codes]
                \union [status : {"1"}, len : IF t \in Varying THEN L ELSE {0}]
  BY DEF Cells
<1> HIDE DEF L
<1>3. /\ cell \in CellType
      /\ cell.status = "2" => cell.len \in Codes
      /\ cell.status = "1" /\ t \in Varying => cell.len \in L
  <2>1. CASE cell \in [status : {"0", "bad"}, len : {0}]
    BY <2>1 DEF CellType, Statuses
  <2>2. CASE cell \in [status : {"2"}, len : Codes]
    BY <2>2, LengthsAssumption DEF CellType, Statuses
  <2>3. CASE cell \in [status : {"1"}, len : IF t \in Varying THEN L ELSE {0}]
    <3>1. cell.status = "1" /\ cell.len \in (IF t \in Varying THEN L ELSE {0})
          /\ cell = [status |-> cell.status, len |-> cell.len]
      BY <2>3
    <3>2. cell.len \in Int /\ (t \in Varying => cell.len \in L)
      BY <1>1, <3>1
    <3> QED
      BY <3>1, <3>2 DEF CellType, Statuses
  <2> QED
    BY <1>2, <2>1, <2>2, <2>3
<1> QED
  BY <1>3 DEF L

(* A length that is accepted is one the server meant.                      *)
LEMMA AcceptedLength ==
    ASSUME NEW t, NEW raw \in {Written(t, n) : n \in Lengths} \union WrongLengths(t),
           Accepts(t, raw)
    PROVE  /\ Length(t, raw) \in Lengths \union {0} /\ Length(t, raw) \in Nat
           /\ Written(t, Length(t, raw)) = raw
<1>1. raw \in {Written(t, n) : n \in Lengths}
  BY LengthsAssumption DEF Accepts, Length, WrongLengths
<1>2. PICK n \in Lengths : raw = Written(t, n)
  BY <1>1
<1>3. n \in Nat
  BY LengthsAssumption
<1> QED
  BY <1>2, <1>3 DEF Accepts, Length, Written

(* A cell's fields are its status and, once that is read, its value or a   *)
(* code.                                                                   *)
LEMMA CellSplit ==
    ASSUME NEW t, NEW cell \in Cells(t), NEW k \in Nat, NEW w, w = CellFields(t, cell, k)
    PROVE  /\ cell \in CellType
           /\ w \in Seq(FieldType) /\ w # <<>> /\ w[1] = Field(1, cell.status)
           /\ cell.status = "1" /\ t \in Known =>
                 SubSeq(w, 2, Len(w)) = ValueFields(t, cell.len, k, k)
           /\ cell.status = "2" => cell.len \in Codes /\ SubSeq(w, 2, Len(w)) = <<Field(8, cell.len)>>
           /\ cell.status \in {"0", "bad"} => SubSeq(w, 2, Len(w)) = <<>>
<1> DEFINE r == CASE cell.status = "1" /\ t \in Known -> ValueFields(t, cell.len, k, k)
                  [] cell.status = "2" -> <<Field(8, cell.len)>>
                  [] OTHER -> <<>>
           first == <<Field(1, cell.status)>>
<1>1. cell \in CellType /\ (cell.status = "2" => cell.len \in Codes)
  BY CellTypes
<1>2. w = first \o r
  BY DEF CellFields
<1>3. Field(1, cell.status) \in FieldType /\ Field(8, cell.len) \in FieldType
  BY <1>1, FieldTyped DEF Said, CellType
<1>4. cell.status = "1" /\ t \in Known => ValueFields(t, cell.len, k, k) \in Seq(FieldType)
  BY <1>1, ValueSplit DEF CellType
<1>5. first \in Seq(FieldType) /\ r \in Seq(FieldType)
  BY <1>3, <1>4
<1>6. /\ Len(first) = 1 /\ first[1] = Field(1, cell.status)
      /\ cell.status = "1" /\ t \in Known => r = ValueFields(t, cell.len, k, k)
      /\ cell.status = "2" => r = <<Field(8, cell.len)>>
      /\ cell.status \in {"0", "bad"} => r = <<>>
  OBVIOUS
<1> HIDE DEF r, first
<1>7. /\ w \in Seq(FieldType) /\ Len(w) >= Len(first)
      /\ SubSeq(w, Len(first) + 1, Len(w)) = r
      /\ \A i \in 1 .. Len(first) : w[i] = first[i]
  BY <1>2, <1>5, AfterTheFirst
<1>8. /\ w \in Seq(FieldType) /\ w[1] = first[1] /\ SubSeq(w, 2, Len(w)) = r /\ w # <<>>
  BY <1>6, <1>7
<1> QED
  BY <1>1, <1>6, <1>8

(* If rows have statuses, that of the row of cell k has been written.      *)
RowHasBegun(k) == updateability => k < begun * nbCol /\ begun * nbCol <= k + nbCol

(* The status of the row that cell k begins comes next, written or not.    *)
RowIsDue(k) ==
    /\ k < Total /\ updateability /\ k % nbCol = 0 /\ Len(sent) = k
    /\ \/ wire = <<>> /\ begun * nbCol = k
       \/ /\ begun * nbCol = k + nbCol
          /\ \E status \in Statuses, code \in Codes : wire = RowFields(status, code)

(* Cell k comes next, written or not.                                      *)
CellIsDue(k) ==
    /\ k < Total /\ RowHasBegun(k)
    /\ \/ wire = <<>> /\ Len(sent) = k
       \/ Len(sent) = k + 1 /\ wire = CellFields(TypeAt(k), sent[k + 1], k + 1)

(* The page ends here.                                                     *)
EndIsDue(k) ==
    /\ k = Total /\ wire = <<>> /\ Len(sent) = k
    /\ updateability /\ nbCol > 0 => begun = nbRow

(* What comes after k cells.                                               *)
Due(k) ==
    IF k = Total THEN EndIsDue(k)
    ELSE IF updateability /\ k % nbCol = 0 THEN RowIsDue(k) ELSE CellIsDue(k)

(* The status of cell k is read, its value comes next.                     *)
ValueIsDue(k) ==
    /\ k < Total /\ RowHasBegun(k) /\ Len(sent) = k + 1
    /\ sent[k + 1].status = "1" /\ TypeAt(k) \in Known
    /\ wire = ValueFields(TypeAt(k), sent[k + 1].len, k + 1, k + 1)

(* The structure of cell k is read, its data comes next, if it has any.    *)
DataIsDue(k) ==
    /\ k < Total /\ TypeAt(k) \in Varying
    /\ k + 1 <= Len(sent) /\ sent[k + 1].status = "1"
    /\ len \in Lengths \union {0} /\ sent[k + 1].len = Written(TypeAt(k), len)
    /\ TypeAt(k) # "VK_STRING" => len # 0
    /\ IF DataBytes(TypeAt(k), len) = 0 THEN Due(k + 1)
       ELSE /\ RowHasBegun(k) /\ Len(sent) = k + 1
            /\ wire = <<Field(DataBytes(TypeAt(k), len), k + 1)>>

(* Where the client is, and what lies on the wire there.                   *)
Position ==
    /\ pc = "start" => Kept = 0 /\ Due(0)
    /\ pc = "row" => RowIsDue(Kept)
    /\ pc = "row_id" => /\ wire = <<Field(4, "row_id")>>
                        /\ Kept < Total /\ RowHasBegun(Kept) /\ Len(sent) = Kept
    /\ pc = "error" => \E code \in Codes : wire = <<Field(8, code)>>
    /\ pc = "cell" => CellIsDue(Kept)
    /\ pc = "value" => ValueIsDue(Kept)
    /\ pc = "data" => DataIsDue(Kept)
    /\ ret = "ok" => EndIsDue(Kept)

(* The elements of the table, and the bookkeeping of the page.             *)
Element == [null : BOOLEAN, len : Nat,
            pValue : BlockType \union {0}, data : BlockType \union {0}]

PageType ==
    /\ column \in Schemas /\ nbRow \in RowNumbers /\ updateability \in BOOLEAN
    /\ sent \in Seq(CellType) /\ begun \in 0 .. nbRow
    /\ \A k \in DOMAIN sent : sent[k] \in Cells(TypeAt(k - 1))
    /\ elmt \in Seq(Element) /\ Kept <= Total /\ Len(sent) <= Total
    /\ pc = "data" => blocks # <<>>

(* The invariant that is inductive.                                        *)
StreamInv == TypeOK /\ PageType /\ Position /\ ret # "garbled" /\ CellsArriveAsSent

(* The numbers of a page.                                                  *)
LEMMA PageNumbers ==
    ASSUME PageType
    PROVE  /\ nbCol \in Nat /\ nbRow \in Nat /\ begun \in Nat /\ begun <= nbRow /\ Total \in Nat
           /\ Len(sent) \in Nat /\ Kept \in Nat /\ begun * nbCol \in Nat
           /\ Total > 0 => nbCol > 0
           /\ updateability \in BOOLEAN
           /\ \A k \in Nat : k < Total => k + 1 <= Total
<1>1. column \in Seq(STRING) /\ nbRow \in Nat
  BY PagesAssumption DEF PageType
<1>2. nbCol \in Nat
  BY <1>1 DEF nbCol
<1>3. begun \in Nat /\ begun <= nbRow /\ Len(sent) \in Nat /\ Kept \in Nat
  BY <1>1 DEF PageType, Kept
<1>4. Total \in Nat /\ begun * nbCol \in Nat /\ (Total > 0 => nbCol > 0)
  BY <1>1, <1>2, <1>3 DEF Total
<1> QED
  BY <1>1, <1>2, <1>3, <1>4 DEF PageType

(* A cell that is due has not been written if the wire is empty.           *)
LEMMA CellUnsent ==
    ASSUME PageType, NEW k \in Nat, CellIsDue(k), wire = <<>>
    PROVE  Len(sent) = k
<1> SUFFICES ASSUME Len(sent) = k + 1, wire = CellFields(TypeAt(k), sent[k + 1], k + 1)
             PROVE  FALSE
  BY DEF CellIsDue
<1>1. k + 1 \in DOMAIN sent /\ (k + 1) - 1 = k
  BY DEF PageType
<1>2. sent[k + 1] \in Cells(TypeAt(k))
  BY <1>1 DEF PageType
<1> QED
  BY <1>2, CellSplit

(* Whatever is due, the server writes just this, and it stays due.         *)
LEMMA ServerAtEnd ==
    ASSUME PageType, NEW k \in Nat, EndIsDue(k), SendRowStatus \/ SendCell
    PROVE  FALSE
<1>1. /\ nbCol \in Nat /\ nbRow \in Nat /\ begun \in Nat /\ k = Total /\ Len(sent) = k
      /\ begun * nbCol \in Nat
  BY PageNumbers DEF EndIsDue
<1>2. SendRowStatus
  BY <1>1 DEF SendCell, Total
<1>3. updateability /\ nbCol > 0 /\ begun < nbRow
  BY <1>1, <1>2 DEF SendRowStatus, OwesStatus
<1> QED
  BY <1>1, <1>3 DEF EndIsDue

(* The server leaves the page as it is.                                    *)
LEMMA ServerFrame ==
    ASSUME SendRowStatus \/ SendCell
    PROVE  /\ wire = <<>> /\ UNCHANGED <<nbCol, nbRow, updateability, Total, column>>
           /\ \A k : TypeAt(k)' = TypeAt(k)
BY DEF SendRowStatus, SendCell, page, nbCol, Total, TypeAt

LEMMA ServerAtCell ==
    ASSUME PageType, NEW k \in Nat, CellIsDue(k), SendRowStatus \/ SendCell
    PROVE  CellIsDue(k)'
<1>1. /\ nbCol \in Nat /\ nbRow \in Nat /\ begun \in Nat /\ Total \in Nat
      /\ begun * nbCol \in Nat /\ updateability \in BOOLEAN
  BY PageNumbers
<1>2. Len(sent) = k /\ k < Total /\ RowHasBegun(k)
  BY ServerFrame, CellUnsent DEF CellIsDue
<1>3. SendCell
  BY <1>1, <1>2 DEF SendRowStatus, OwesStatus, RowHasBegun
<1>4. PICK cell \in Cells(TypeAt(k)) :
         wire' = CellFields(TypeAt(k), cell, k + 1) /\ sent' = Append(sent, cell)
  BY <1>2, <1>3 DEF SendCell, TypeAt
<1>5. Len(sent') = k + 1 /\ sent'[k + 1] = cell
  BY <1>2, <1>4, CellTypes DEF PageType
<1>6. RowHasBegun(k)'
  BY <1>2, <1>3, ServerFrame DEF SendCell, RowHasBegun
<1> QED
  BY <1>2, <1>4, <1>5, <1>6, ServerFrame DEF CellIsDue

LEMMA ServerAtRow ==
    ASSUME PageType, NEW k \in Nat, RowIsDue(k), SendRowStatus \/ SendCell
    PROVE  RowIsDue(k)'
<1>1. /\ nbCol \in Nat /\ nbRow \in Nat /\ begun \in Nat /\ Total \in Nat
      /\ begun * nbCol \in Nat /\ updateability \in BOOLEAN /\ (Total > 0 => nbCol > 0)
  BY PageNumbers
<1>2. \A status \in Statuses, code \in Codes : RowFields(status, code) # <<>>
  BY RowSplit
<1>3. /\ Len(sent) = k /\ begun * nbCol = k /\ k < Total /\ updateability
      /\ k % nbCol = 0 /\ nbCol > 0
  <2>1. wire = <<>>
    BY ServerFrame
  <2>2. ~ \E status \in Statuses, code \in Codes : wire = RowFields(status, code)
    BY <1>2, <2>1
  <2>3. Len(sent) = k /\ begun * nbCol = k /\ k < Total /\ updateability /\ k % nbCol = 0
    BY <2>2, Zenon DEF RowIsDue
  <2> QED
    BY <1>1, <2>3
<1>4. SendRowStatus
  BY <1>3 DEF SendCell, OwesStatus
<1>5. sent' = sent /\ begun' = begun + 1
      /\ \E status \in Statuses, code \in Codes : wire' = RowFields(status, code)
  BY <1>4 DEF SendRowStatus, Statuses
<1>6. begun' * nbCol' = k + nbCol'
  <2>1. (begun + 1) * nbCol = begun * nbCol + nbCol
    BY <1>1, <1>3, RowArithmetic
  <2> QED
    BY <1>3, <1>5, <2>1, ServerFrame
<1> QED
  BY <1>3, <1>5, <1>6, ServerFrame DEF RowIsDue

LEMMA ServerSteps ==
    ASSUME PageType, NEW k \in Nat, Due(k), SendRowStatus \/ SendCell
    PROVE  Due(k)'
<1>1. k # Total
  BY ServerAtEnd DEF Due
<1>2. CASE updateability /\ k % nbCol = 0
  BY <1>1, <1>2, ServerAtRow, ServerFrame DEF Due
<1>3. CASE ~(updateability /\ k % nbCol = 0)
  BY <1>1, <1>3, ServerAtCell, ServerFrame DEF Due
<1> QED
  BY <1>2, <1>3

-----------------------------------------------------------------------------
(* The client                                                              *)

(* What does not change unless the page or the server does.                *)
LEMMA ClientFrame ==
    ASSUME UNCHANGED <<page, server>>
    PROVE  /\ UNCHANGED <<nbCol, nbRow, updateability, Total, column, sent, begun>>
           /\ \A k : TypeAt(k)' = TypeAt(k) /\ (RowHasBegun(k)' <=> RowHasBegun(k))
BY DEF page, server, nbCol, Total, TypeAt, RowHasBegun

(* After the last field of a cell comes the next cell, a row or the end.   *)
LEMMA CellEnds ==
    ASSUME PageType, NEW k \in Nat, k < Total, RowHasBegun(k), Len(sent) = k + 1,
           UNCHANGED <<page, server>>, wire' = <<>>
    PROVE  Due(k + 1)'
<1> DEFINE B == begun * nbCol
<1>1. /\ nbCol \in Nat \ {0} /\ nbRow \in Nat /\ begun \in Nat /\ begun <= nbRow
      /\ Total \in Nat /\ B \in Nat /\ updateability \in BOOLEAN /\ k + 1 <= Total
  BY PageNumbers
<1>2. updateability => k < B /\ B <= k + nbCol
  BY DEF RowHasBegun
<1>3. /\ B = k + 1 => (k + 1) % nbCol = 0
      /\ (k + 1) % nbCol = 0 /\ k + 1 <= B /\ B < k + 1 + nbCol => B = k + 1
      /\ begun < nbRow => B + nbCol <= Total
  <2>1. k + 1 \in Nat
    OBVIOUS
  <2>2. /\ B = k + 1 => (k + 1) % nbCol = 0
        /\ (k + 1) % nbCol = 0 /\ k + 1 <= B /\ B < k + 1 + nbCol => B = k + 1
    BY <1>1, <2>1, RowArithmetic
  <2>3. begun < nbRow => B + nbCol <= Total
    BY <1>1, RowArithmetic DEF Total
  <2> QED
    BY <2>2, <2>3
<1> HIDE DEF B
<1>4. CASE k + 1 = Total
  <2>1. updateability => begun = nbRow
    BY <1>1, <1>2, <1>3, <1>4
  <2> QED
    BY <1>4, <2>1, ClientFrame DEF Due, EndIsDue
<1>5. CASE k + 1 # Total /\ updateability /\ (k + 1) % nbCol = 0
  <2>1. B = k + 1
    BY <1>1, <1>2, <1>3, <1>5
  <2>2. RowIsDue(k + 1)'
    BY <1>1, <1>5, <2>1, ClientFrame DEF RowIsDue, B
  <2> QED
    BY <1>5, <2>2, ClientFrame DEF Due
<1>6. CASE k + 1 # Total /\ ~(updateability /\ (k + 1) % nbCol = 0)
  <2>1. updateability => k + 1 < B /\ B <= k + 1 + nbCol
    BY <1>1, <1>2, <1>3, <1>6
  <2>2. RowHasBegun(k + 1)'
    BY <2>1, ClientFrame DEF RowHasBegun, B
  <2>3. CellIsDue(k + 1)'
    BY <1>1, <1>6, <2>2, ClientFrame DEF CellIsDue
  <2> QED
    BY <1>6, <2>3, ClientFrame DEF Due
<1> QED
  BY <1>4, <1>5, <1>6

(* The loops go where what is due is read.                                 *)
LEMMA LoopsAreDue ==
    ASSUME NEW k \in Nat, Due(k)', UNCHANGED <<page, server>>, Kept' = k, LoopsTo(k),
           ret = "none"
    PROVE  Position' /\ ret' # "garbled"
<1>1. CASE k = Total
  BY <1>1, ClientFrame DEF LoopsTo, Return, Position, Due, Total
<1>2. CASE k # Total /\ updateability /\ k % nbCol = 0
  <2>1. pc' = "row" /\ ret' = "none"
    BY <1>2 DEF LoopsTo, Total
  <2> QED
    BY <1>2, <2>1, ClientFrame DEF Position, Due
<1>3. CASE k # Total /\ ~(updateability /\ k % nbCol = 0)
  <2>1. pc' = "cell" /\ ret' = "none"
    BY <1>3 DEF LoopsTo, Total
  <2> QED
    BY <1>3, <2>1, ClientFrame DEF Position, Due
<1> QED
  BY <1>1, <1>2, <1>3

(* The page is the same, and no field is written.                          *)
LEMMA SamePage ==
    ASSUME PageType, UNCHANGED <<page, server, elmt>>, pc' = "data" => blocks' # <<>>
    PROVE  PageType'
BY ClientFrame DEF PageType, Kept

(* A page that fails stays as it is.                                       *)
LEMMA FailKeeps ==
    ASSUME StreamInv, UNCHANGED <<page, server, elmt, len>>, error_code' \in {-1} \union Codes,
           NEW r \in {"malformed", "server error", "lost", "no memory"}, Return(r)
    PROVE  StreamInv'
<1>1. pc' = "done" /\ ret' = r
  BY DEF Return
<1>2. PageType'
  BY <1>1, SamePage DEF StreamInv
<1>3. CellsArriveAsSent'
  BY ClientFrame DEF StreamInv, CellsArriveAsSent
<1>4. TypeOK'
  BY <1>1, ClientFrame DEF StreamInv, TypeOK, Total
<1> QED
  BY <1>1, <1>2, <1>3, <1>4 DEF StreamInv, Position

(* The next part of the same cell or row is read.                          *)
LEMMA GoesOn ==
    ASSUME StreamInv, UNCHANGED <<page, server, elmt, error_code, ret>>, ret = "none",
           pc' \in {"row_id", "error", "cell", "value", "data"}, len' \in 0 .. MaxLength,
           pc' = "data" => blocks' # <<>>, Position'
    PROVE  StreamInv'
<1>1. PageType'
  BY SamePage DEF StreamInv
<1>2. CellsArriveAsSent'
  BY ClientFrame DEF StreamInv, CellsArriveAsSent
<1>3. TypeOK'
  BY ClientFrame DEF StreamInv, TypeOK, Total
<1> QED
  BY <1>1, <1>2, <1>3 DEF StreamInv

(* What CellsArriveAsSent says of the k-th cell from 0.                    *)
CellArrives(e, k) ==
    LET t == TypeAt(k)
    IN  /\ k + 1 <= Len(sent) /\ sent[k + 1].status \in {"0", "1"}
        /\ e.null <=> sent[k + 1].status = "0" \/ (t \in Binary /\ sent[k + 1].len = 0)
        /\ ~e.null => /\ t \in Known
                      /\ e.len \in Lengths \union {0}
                      /\ Written(t, e.len) = sent[k + 1].len

(* A cell is complete, and arrives as it was sent.                         *)
LEMMA FillKeeps ==
    ASSUME StreamInv, ret = "none", NEW e \in Element, Fill(e), NEW k \in Nat,
           k = Kept, k < Total, CellArrives(e, k), Due(k + 1)'
    PROVE  StreamInv'
<1>1. /\ elmt' = Append(elmt, e) /\ LoopsTo(Kept + 1)
      /\ UNCHANGED <<page, server, len, error_code>>
  BY DEF Fill, Kept
<1>2. elmt \in Seq(Element) /\ Kept \in Nat /\ Total \in Nat
  BY PageNumbers DEF StreamInv, PageType
<1>3. /\ elmt' \in Seq(Element) /\ Kept' = Kept + 1 /\ Kept' <= Total
      /\ elmt'[Kept + 1] = e /\ DOMAIN elmt' = 1 .. Kept + 1 /\ DOMAIN elmt = 1 .. Kept
      /\ \A i \in DOMAIN elmt : elmt'[i] = elmt[i]
  BY <1>1, <1>2 DEF Kept
<1>4. pc' \in {"row", "cell", "done"} /\ ret' \in {"none", "ok"}
      /\ (pc' = "done" <=> ret' # "none")
  BY <1>1 DEF LoopsTo, Return
<1>5. PageType'
  BY <1>1, <1>3, <1>4, ClientFrame DEF StreamInv, PageType
<1>6. TypeOK'
  BY <1>1, <1>3, <1>4, ClientFrame DEF StreamInv, TypeOK, Total, Kept
<1>7. Position' /\ ret' # "garbled"
  BY <1>1, <1>3, LoopsAreDue
<1>8. CellsArriveAsSent'
  <2>1. \A i \in 1 .. k : CellArrives(elmt[i], i - 1)
    BY <1>3 DEF StreamInv, CellsArriveAsSent, CellArrives, TypeAt
  <2>2. \A i \in 1 .. k + 1 : CellArrives(elmt'[i], i - 1)
    BY <1>3, <2>1
  <2> QED
    BY <1>1, <1>3, <2>2, ClientFrame DEF CellsArriveAsSent, CellArrives, TypeAt
<1> QED
  BY <1>5, <1>6, <1>7, <1>8 DEF StreamInv

LEMMA ServerKeeps ==
    ASSUME StreamInv, SendRowStatus \/ SendCell
    PROVE  StreamInv'
<1>1. /\ nbCol \in Nat /\ nbRow \in Nat /\ begun \in Nat /\ Total \in Nat /\ Kept \in Nat
      /\ Len(sent) \in Nat /\ begun * nbCol \in Nat
  BY PageNumbers DEF StreamInv
<1>2. UNCHANGED <<page, pc, elmt, len, error_code, ret, blocks, Kept>> /\ ret = "none"
  BY DEF SendRowStatus, SendCell, Kept, arenaVars
<1>3. /\ sent' \in Seq(CellType) /\ begun' \in 0 .. nbRow /\ Len(sent') <= Total
      /\ \A k \in DOMAIN sent' : sent'[k] \in Cells(TypeAt(k - 1))
      /\ Len(sent) <= Len(sent') /\ \A k \in DOMAIN sent : sent'[k] = sent[k]
  <2>1. CASE SendRowStatus
    BY <1>1, <2>1 DEF SendRowStatus, StreamInv, PageType
  <2>2. CASE SendCell
    <3>1. PICK cell \in Cells(TypeAt(Len(sent))) : sent' = Append(sent, cell)
      BY <2>2 DEF SendCell, TypeAt
    <3>2. cell \in CellType /\ sent \in Seq(CellType) /\ Len(sent) < Total
      BY <2>2, <3>1, CellTypes DEF SendCell, StreamInv, PageType, Total
    <3>3. /\ sent' \in Seq(CellType) /\ DOMAIN sent' = 1 .. Len(sent) + 1
          /\ DOMAIN sent = 1 .. Len(sent) /\ sent'[Len(sent) + 1] = cell
          /\ \A k \in DOMAIN sent : sent'[k] = sent[k]
          /\ Len(sent') = Len(sent) + 1 /\ (Len(sent) + 1) - 1 = Len(sent)
      BY <3>1, <3>2, <1>1
    <3>4. \A k \in DOMAIN sent' : sent'[k] \in Cells(TypeAt(k - 1))
      BY <1>1, <3>1, <3>3 DEF StreamInv, PageType
    <3> QED
      BY <1>1, <2>2, <3>2, <3>3, <3>4 DEF SendCell, StreamInv, PageType
  <2> QED
    BY <2>1, <2>2
<1>4. PageType'
  BY <1>2, <1>3, ServerFrame DEF StreamInv, PageType, Total, page
<1>5. TypeOK'
  BY <1>2, <1>3, ServerFrame DEF StreamInv, TypeOK, Total, page
<1>6. CellsArriveAsSent'
  <2>1. \A k \in DOMAIN elmt : k \in DOMAIN sent
    BY <1>1 DEF StreamInv, CellsArriveAsSent, PageType
  <2> QED
    BY <1>1, <1>2, <1>3, <2>1, ServerFrame DEF StreamInv, CellsArriveAsSent
<1>7. Position'
  <2> PICK k \in Nat : k = Kept
    BY <1>1
  <2>1. PageType /\ Position /\ wire = <<>> /\ Kept' = k /\ UNCHANGED <<pc, ret, len, Total>>
        /\ \A i : TypeAt(i)' = TypeAt(i)
    BY <1>2, ServerFrame DEF StreamInv
  <2>2. \A m, v : wire # <<Field(m, v)>>
    BY <2>1
  <2>3. pc \notin {"row_id", "error"}
    BY <2>1, <2>2 DEF Position
  <2>4. pc = "start" => Kept' = 0 /\ Due(0)'
    BY <2>1, ServerSteps DEF Position
  <2>5. pc = "row" => RowIsDue(k)'
    BY <2>1, ServerAtRow DEF Position
  <2>6. pc = "cell" => CellIsDue(k)'
    BY <2>1, ServerAtCell DEF Position
  <2>7. pc # "value"
    <3> SUFFICES ASSUME pc = "value"
                 PROVE  FALSE
      OBVIOUS
    <3> DEFINE raw == sent[k + 1].len
    <3>1. ValueIsDue(k)
      BY <2>1 DEF Position
    <3>2. wire = ValueFields(TypeAt(k), raw, k + 1, k + 1) /\ TypeAt(k) \in Known
      BY <3>1 DEF ValueIsDue
    <3>3. sent[k + 1] \in CellType
      BY <3>1 DEF ValueIsDue, StreamInv, PageType
    <3>4. raw \in Int /\ k + 1 \in Nat
      BY <3>3 DEF CellType
    <3> HIDE DEF raw
    <3>5. Len(wire) >= Len(Parts(TypeAt(k)))
      BY <3>2, <3>4, ValueSplit
    <3>6. Len(Parts(TypeAt(k))) >= 1 /\ Len(Parts(TypeAt(k))) \in Nat
      BY PartsTyped
    <3>7. Len(wire) = 0
      BY <2>1
    <3> QED
      BY <3>5, <3>6, <3>7
  <2>8. pc = "data" => DataIsDue(k)'
    <3> SUFFICES ASSUME pc = "data"
                 PROVE  DataIsDue(k)'
      OBVIOUS
    <3>1. DataIsDue(k)
      BY <2>1 DEF Position
    <3>2. DataBytes(TypeAt(k), len) = 0 /\ Due(k + 1)
      BY <2>1, <2>2, <3>1 DEF DataIsDue
    <3>3. Due(k + 1)'
      BY <2>1, <3>2, ServerSteps
    <3>4. k + 1 \in DOMAIN sent /\ k + 1 <= Len(sent') /\ sent'[k + 1] = sent[k + 1]
      BY <1>1, <1>3, <3>1 DEF DataIsDue, StreamInv, PageType
    <3> QED
      BY <2>1, <3>1, <3>2, <3>3, <3>4 DEF DataIsDue
  <2>9. ret # "ok"
    BY <1>2
  <2> QED
    BY <2>1, <2>3, <2>4, <2>5, <2>6, <2>7, <2>8, <2>9 DEF Position
<1> QED
  BY <1>2, <1>4, <1>5, <1>6, <1>7 DEF StreamInv

-----------------------------------------------------------------------------
(* The client's actions                                                    *)

(* A status, a row id or an error code is the one field that is taken.     *)
LEMMA FirstField ==
    ASSUME NEW what, Reads(what), what \in {"row", "row_id", "cell", "error"}
    PROVE  /\ pc = what /\ wire # <<>> /\ wire' = SubSeq(wire, 2, Len(wire))
<1>1. pc = what
  BY DEF Reads
<1>2. \E m \in Nat : Wants = <<m>>
  BY <1>1 DEF Wants
<1>3. Len(Wants) = 1
  BY <1>2
<1> QED
  BY <1>1, <1>3 DEF Reads

(* The fields of a cell are never without a first one.                     *)
LEMMA CellSent ==
    ASSUME PageType, NEW k \in Nat, CellIsDue(k), wire # <<>>
    PROVE  /\ k < Total /\ RowHasBegun(k) /\ Len(sent) = k + 1
           /\ sent[k + 1] \in Cells(TypeAt(k)) /\ sent[k + 1] \in CellType
           /\ wire = CellFields(TypeAt(k), sent[k + 1], k + 1)
           /\ wire[1].v = sent[k + 1].status /\ wire[1].n = 1
<1>1. /\ k < Total /\ RowHasBegun(k) /\ Len(sent) = k + 1
      /\ wire = CellFields(TypeAt(k), sent[k + 1], k + 1)
  BY DEF CellIsDue
<1>2. k + 1 \in DOMAIN sent /\ (k + 1) - 1 = k
  BY <1>1 DEF PageType
<1>3. sent[k + 1] \in Cells(TypeAt(k))
  BY <1>2 DEF PageType
<1>4. wire[1] = Field(1, sent[k + 1].status) /\ sent[k + 1] \in CellType
  BY <1>1, <1>3, CellSplit
<1> QED
  BY <1>1, <1>3, <1>4 DEF Field

(* The fields of a row are never without its status.                       *)
LEMMA RowSent ==
    ASSUME PageType, NEW k \in Nat, RowIsDue(k), wire # <<>>
    PROVE  \E status \in Statuses, code \in Codes :
              /\ wire = RowFields(status, code) /\ wire[1].v = status /\ wire[1].n = 1
              /\ k < Total /\ RowHasBegun(k) /\ Len(sent) = k
<1>1. /\ k < Total /\ Len(sent) = k /\ begun * nbCol = k + nbCol
  BY DEF RowIsDue
<1>2. PICK status \in Statuses, code \in Codes : wire = RowFields(status, code)
  BY DEF RowIsDue
<1>3. wire[1] = Field(1, status)
  BY <1>2, RowSplit
<1>4. RowHasBegun(k)
  <2>1. nbCol \in Nat /\ nbCol > 0
    BY <1>1, PageNumbers
  <2> QED
    BY <1>1, <2>1 DEF RowHasBegun
<1> QED
  BY <1>1, <1>2, <1>3, <1>4 DEF Field

LEMMA RowStatusKeeps ==
    ASSUME StreamInv, ReadRowStatus
    PROVE  StreamInv'
<1> PICK k \in Nat : k = Kept
  BY PageNumbers DEF StreamInv
<1>1. pc = "row" /\ wire # <<>> /\ wire' = SubSeq(wire, 2, Len(wire)) /\ RowIsDue(k)
  BY FirstField DEF ReadRowStatus, StreamInv, Position
<1>2. PICK status \in Statuses, code \in Codes :
              /\ wire = RowFields(status, code) /\ wire[1].v = status
              /\ k < Total /\ RowHasBegun(k) /\ Len(sent) = k
  BY <1>1, RowSent DEF StreamInv
<1>3. /\ status \in {"0", "1", "2"}
      /\ pc' = CASE status = "0" -> "cell" [] status = "1" -> "row_id" [] OTHER -> "error"
      /\ UNCHANGED <<page, server, elmt, len, memory, error_code, ret, arenaVars>>
  BY <1>2 DEF ReadRowStatus
<1>4. ret = "none"
  BY <1>1 DEF StreamInv, TypeOK
<1>5. Kept' = k /\ ret' = "none"
  BY <1>3, <1>4 DEF Kept
<1>6. /\ status = "0" => wire' = <<>> /\ pc' = "cell"
      /\ status = "1" => wire' = <<Field(4, "row_id")>> /\ pc' = "row_id"
      /\ status = "2" => wire' = <<Field(8, code)>> /\ pc' = "error"
  BY <1>1, <1>2, <1>3, RowSplit
<1>7. k < Total' /\ RowHasBegun(k)' /\ Len(sent') = k
  BY <1>2, <1>3, ClientFrame
<1>8. Position'
  BY <1>3, <1>5, <1>6, <1>7 DEF Position, CellIsDue
<1> QED
  BY <1>3, <1>4, <1>6, <1>8, GoesOn DEF StreamInv, TypeOK

LEMMA RowIdKeeps ==
    ASSUME StreamInv, ReadRowId
    PROVE  StreamInv'
<1> PICK k \in Nat : k = Kept
  BY PageNumbers DEF StreamInv
<1>1. /\ pc = "row_id" /\ wire' = SubSeq(wire, 2, Len(wire))
      /\ pc' = "cell" /\ UNCHANGED <<page, server, elmt, len, error_code, ret>>
  <2>1. Reads("row_id")
    BY DEF ReadRowId
  <2> QED
    BY <2>1, FirstField DEF ReadRowId
<1>0. /\ wire = <<Field(4, "row_id")>> /\ ret = "none"
      /\ k < Total /\ RowHasBegun(k) /\ Len(sent) = k
  BY <1>1 DEF StreamInv, Position, TypeOK
<1>2. Kept' = k /\ ret' = "none" /\ wire' = <<>>
  BY <1>0, <1>1 DEF Kept
<1>3. Position'
  BY <1>0, <1>1, <1>2, ClientFrame DEF Position, CellIsDue
<1> QED
  BY <1>0, <1>1, <1>3, GoesOn DEF StreamInv, TypeOK

LEMMA ErrorCodeKeeps ==
    ASSUME StreamInv, ReadErrorCode
    PROVE  StreamInv'
<1>1. PICK code \in Codes : wire = <<Field(8, code)>>
  BY DEF ReadErrorCode, StreamInv, Position
<1>2. wire[1].v \in Codes
  BY <1>1 DEF Field
<1>3. error_code' \in {-1} \union Codes
  BY <1>2 DEF ReadErrorCode
<1> QED
  BY <1>3, FailKeeps DEF ReadErrorCode

LEMMA FailsKeeps ==
    ASSUME StreamInv, UnknownStatus \/ UnknownType \/ WrongLength \/ NoMemory
    PROVE  StreamInv'
BY FailKeeps DEF UnknownStatus, UnknownType, WrongLength, NoMemory, Fails

LEMMA BeginKeeps ==
    ASSUME StreamInv, Begin
    PROVE  StreamInv'
<1>1. /\ pc = "start" /\ ret = "none" /\ Kept = 0 /\ Due(0) /\ LoopsTo(0)
      /\ UNCHANGED <<page, server, wire, elmt, len, error_code, blocks>>
  BY DEF Begin, StreamInv, Position, TypeOK, arenaVars
<1>2. Due(0)' /\ Kept' = 0
  BY <1>1, ClientFrame DEF Due, EndIsDue, RowIsDue, CellIsDue, Kept
<1>3. Position' /\ ret' # "garbled"
  BY <1>1, <1>2, LoopsAreDue
<1>4. pc' \in {"row", "cell", "done"} /\ ret' \in {"none", "ok"} /\ (pc' = "done" <=> ret' # "none")
  BY <1>1 DEF LoopsTo, Return
<1>5. PageType'
  BY <1>1, <1>4, SamePage DEF StreamInv
<1>6. TypeOK'
  BY <1>1, <1>4, ClientFrame DEF StreamInv, TypeOK, Total
<1>7. CellsArriveAsSent'
  BY <1>1, ClientFrame DEF StreamInv, CellsArriveAsSent
<1> QED
  BY <1>3, <1>5, <1>6, <1>7 DEF StreamInv

LEMMA NullTyped == Null \in Element
BY DEF Null, Element

LEMMA CellStatusKeeps ==
    ASSUME StreamInv, ReadCellStatus
    PROVE  StreamInv'
<1> PICK k \in Nat : k = Kept
  BY PageNumbers DEF StreamInv
<1> DEFINE cell == sent[k + 1]
           t == TypeAt(k)
<1>1. pc = "cell" /\ wire # <<>> /\ wire' = SubSeq(wire, 2, Len(wire)) /\ ret = "none"
  <2>1. Reads("cell")
    BY DEF ReadCellStatus
  <2>2. pc = "cell" /\ wire # <<>> /\ wire' = SubSeq(wire, 2, Len(wire))
    BY <2>1, FirstField
  <2> QED
    BY <2>2 DEF StreamInv, TypeOK
<1>2. CellIsDue(k) /\ PageType /\ t = Type
  BY <1>1 DEF StreamInv, Position, Type, TypeAt, Kept
<1>3. /\ k < Total /\ RowHasBegun(k) /\ Len(sent) = k + 1
      /\ cell \in Cells(t) /\ cell \in CellType /\ wire = CellFields(t, cell, k + 1)
      /\ wire[1].v = cell.status
  BY <1>1, <1>2, CellSent
<1> HIDE DEF cell, t
<1>4. /\ cell.status = "1" /\ t \in Known => wire' = ValueFields(t, cell.len, k + 1, k + 1)
      /\ cell.status = "2" => cell.len \in Codes /\ wire' = <<Field(8, cell.len)>>
      /\ cell.status = "0" => wire' = <<>>
  BY <1>1, <1>3, CellSplit
<1>5. UNCHANGED <<page, server, len, error_code>>
  BY DEF ReadCellStatus, Fill
<1>6. CASE cell.status = "0" /\ Fill(Null)
  <2>1. CellArrives(Null, k)
    BY <1>3, <1>6 DEF CellArrives, Null, cell
  <2>2. Due(k + 1)'
    BY <1>2, <1>3, <1>4, <1>5, <1>6, CellEnds
  <2> QED
    BY <1>1, <1>3, <1>6, <2>1, <2>2, NullTyped, FillKeeps
<1>7. CASE /\ cell.status = "2" /\ pc' = "error"
           /\ UNCHANGED <<page, server, elmt, len, error_code, ret>>
  <2>1. Position'
    BY <1>1, <1>4, <1>7 DEF Position
  <2> QED
    BY <1>1, <1>7, <2>1, GoesOn DEF StreamInv, TypeOK
<1>8. CASE /\ cell.status = "1" /\ t \in Known /\ pc' = "value"
           /\ UNCHANGED <<page, server, elmt, len, error_code, ret>>
  <2>1. ValueIsDue(k)'
    BY <1>3, <1>4, <1>8, ClientFrame DEF ValueIsDue, cell, t
  <2>2. Kept' = k /\ ret' = "none"
    BY <1>1, <1>8 DEF Kept
  <2>3. Position'
    BY <1>8, <2>1, <2>2 DEF Position
  <2> QED
    BY <1>1, <1>8, <2>3, GoesOn DEF StreamInv, TypeOK
<1> QED
  BY <1>2, <1>3, <1>6, <1>7, <1>8 DEF ReadCellStatus

(* The fields of a value that is due, up to its data.                      *)
LEMMA ValueSent ==
    ASSUME StreamInv, pc = "value", NEW k \in Nat, k = Kept, NEW t, t = Type, NEW raw,
           raw = sent[k + 1].len
    PROVE  /\ ret = "none" /\ t \in Known /\ t = TypeAt(k) /\ Wants = Parts(t)
           /\ k < Total /\ RowHasBegun(k) /\ Len(sent) = k + 1
           /\ sent[k + 1].status = "1"
           /\ sent[k + 1] \in Cells(t)
           /\ Len(wire) >= Len(Wants) /\ Len(Wants) >= 1
           /\ \A i \in 1 .. Len(Wants) : wire[i].n = Wants[i]
           /\ LastPart = IF t \in Varying THEN raw ELSE k + 1
           /\ SubSeq(wire, Len(Wants) + 1, Len(wire)) =
                 IF t \in Varying /\ DataBytes(t, Written(t, raw)) > 0
                 THEN <<Field(DataBytes(t, Written(t, raw)), k + 1)>> ELSE <<>>
<1>1. ret = "none" /\ ValueIsDue(k) /\ t = TypeAt(k)
  BY DEF StreamInv, TypeOK, Position, Type, TypeAt, Kept
<1>2. Wants = Parts(t)
  BY DEF Wants
<1>3. /\ k < Total /\ RowHasBegun(k) /\ Len(sent) = k + 1
      /\ sent[k + 1].status = "1" /\ t \in Known
      /\ wire = ValueFields(t, raw, k + 1, k + 1)
  BY <1>1 DEF ValueIsDue
<1>4. k + 1 \in DOMAIN sent /\ (k + 1) - 1 = k
  BY <1>3 DEF StreamInv, PageType
<1>5. sent[k + 1] \in Cells(t) /\ sent[k + 1] \in CellType
  BY <1>1, <1>4 DEF StreamInv, PageType
<1>6. raw \in Int /\ k + 1 \in Nat
  BY <1>5 DEF CellType
<1>7. Len(Parts(t)) >= 1
  BY PartsTyped
<1>8. /\ Len(wire) >= Len(Parts(t))
      /\ \A i \in 1 .. Len(Parts(t)) : wire[i].n = Parts(t)[i]
      /\ wire[Len(Parts(t))].v = IF t \in Varying THEN raw ELSE k + 1
      /\ SubSeq(wire, Len(Parts(t)) + 1, Len(wire)) =
            IF t \in Varying /\ DataBytes(t, Written(t, raw)) > 0
            THEN <<Field(DataBytes(t, Written(t, raw)), k + 1)>> ELSE <<>>
  BY <1>3, <1>6, ValueSplit
<1> QED
  BY <1>1, <1>2, <1>3, <1>5, <1>7, <1>8 DEF LastPart

(* The next block.                                                         *)
LEMMA PlaceTyped ==
    ASSUME ArenaInv, NEW n \in Nat
    PROVE  /\ Place(n) \in BlockType /\ Place(n).size = n
           /\ Alloc(n) => blocks' = Append(blocks, Place(n)) /\ blocks' # <<>>
                          /\ Len(blocks) \in Nat /\ blocks \in Seq(BlockType)
<1>1. Len(chunks) \in Nat /\ \A c \in DOMAIN chunks : chunks[c] \in ChunkType
  BY DEF ArenaInv
<1>2. ASSUME Fits(Rounded(n))
      PROVE  Place(n) \in BlockType
  <2>1. Newest \in DOMAIN chunks /\ Newest \in Nat
    BY <1>1, <1>2 DEF Fits, Newest, ArenaInv
  <2>2. chunks[Newest].used \in Nat
    BY <1>1, <2>1 DEF ChunkType
  <2>3. Place(n) = [chunk |-> Newest, at |-> chunks[Newest].used, size |-> n]
    BY <1>2 DEF Place
  <2> QED
    BY <2>1, <2>2, <2>3 DEF BlockType
<1>3. ASSUME ~Fits(Rounded(n))
      PROVE  Place(n) \in BlockType
  <2>1. Place(n) = [chunk |-> Newest + 1, at |-> 0, size |-> n] /\ Newest + 1 \in Nat
    BY <1>1, <1>3 DEF Place, Newest
  <2> QED
    BY <2>1 DEF BlockType
<1>4. Place(n) \in BlockType /\ Place(n).size = n
  <2>1. Place(n) \in BlockType
    BY <1>2, <1>3
  <2>2. Place(n).size = n
    BY <1>2, <1>3 DEF Place
  <2> QED
    BY <2>1, <2>2
<1>5. blocks \in Seq(BlockType) /\ Len(blocks) \in Nat
  BY DEF ArenaInv
<1>6. Alloc(n) => blocks' = Append(blocks, Place(n))
  BY DEF Alloc
<1> HIDE DEF Place
<1>7. Alloc(n) => blocks' # <<>>
  BY <1>4, <1>5, <1>6
<1> QED
  BY <1>4, <1>5, <1>6, <1>7

(* What is due stays due as long as nothing is read or written.            *)
LEMMA DueStays ==
    ASSUME NEW k \in Nat, Due(k), UNCHANGED <<page, server, wire>>
    PROVE  Due(k)'
BY ClientFrame DEF Due, EndIsDue, RowIsDue, CellIsDue

LEMMA DueTyped ==
    ASSUME PageType, NEW k \in Nat, Due(k)
    PROVE  wire \in Seq(FieldType)
<1>1. CASE EndIsDue(k)
  BY <1>1 DEF EndIsDue
<1>2. CASE RowIsDue(k)
  <2>1. \A status \in Statuses, code \in Codes : RowFields(status, code) \in Seq(FieldType)
    BY RowSplit
  <2>2. wire = <<>> \/ \E status \in Statuses, code \in Codes : wire = RowFields(status, code)
    BY <1>2 DEF RowIsDue
  <2>3. wire = <<>> => wire \in Seq(FieldType)
    OBVIOUS
  <2> QED
    BY <2>1, <2>2, <2>3, Zenon
<1>3. CASE CellIsDue(k)
  <2>1. wire = <<>> => wire \in Seq(FieldType)
    OBVIOUS
  <2>2. ASSUME wire # <<>>
        PROVE  wire \in Seq(FieldType)
    <3>1. sent[k + 1] \in Cells(TypeAt(k)) /\ wire = CellFields(TypeAt(k), sent[k + 1], k + 1)
      BY <1>3, <2>2, CellSent
    <3> QED
      BY <3>1, CellSplit
  <2> QED
    BY <2>1, <2>2
<1> QED
  BY <1>1, <1>2, <1>3 DEF Due

(* Of an empty wire nothing can be read that is of the wrong size.         *)
LEMMA NothingIsWrong ==
    ASSUME wire = <<>>
    PROVE  ~OutOfStep
<1>1. Len(wire) = 0
  OBVIOUS
<1>2. \A i \in 1 .. Len(Wants) : ~(i <= Len(wire))
  <2> SUFFICES ASSUME NEW i \in 1 .. Len(Wants)
               PROVE  ~(i <= 0)
    BY <1>1
  <2> QED
    OBVIOUS
<1> QED
  BY <1>2 DEF OutOfStep

(* A value of a fixed size is complete with its structure.                 *)
LEMMA FixedKeeps ==
    ASSUME StreamInv, ArenaInv, ReadFixed
    PROVE  StreamInv'
<1> PICK k \in Nat : k = Kept
  BY PageNumbers DEF StreamInv
<1> DEFINE t == Type
           raw == sent[k + 1].len
           b == Place(StructSize(t))
           e == [null |-> FALSE, len |-> 0, pValue |-> b, data |-> 0]
<1>1. /\ pc = "value" /\ t \notin Varying /\ wire' = SubSeq(wire, Len(Wants) + 1, Len(wire))
      /\ Fill(e)
  BY DEF ReadFixed, Reads
<1>2. b \in BlockType
  BY SizesAreNat, PlaceTyped
<1>3. e \in Element
  BY <1>2 DEF Element
<1> HIDE DEF t, b, raw
<1>4. /\ ret = "none" /\ t \in Known /\ t = TypeAt(k) /\ k < Total /\ RowHasBegun(k)
      /\ Len(sent) = k + 1 /\ sent[k + 1].status = "1" /\ sent[k + 1] \in Cells(t)
      /\ wire' = <<>>
  BY <1>1, ValueSent DEF t, raw
<1>5. CellArrives(e, k)
  <2>1. raw = 0
    BY <1>1, <1>4 DEF Cells, raw
  <2>2. t # "VK_STRING" /\ t \notin Binary
    BY <1>1 DEF Varying
  <2>3. Written(t, 0) = 0
    BY <2>2 DEF Written
  <2>4. e.null = FALSE /\ e.len = 0
    OBVIOUS
  <2> QED
    BY <1>4, <2>1, <2>2, <2>3, <2>4 DEF CellArrives, raw
<1>6. Due(k + 1)'
  <2>1. PageType /\ UNCHANGED <<page, server>>
    BY <1>1 DEF StreamInv, Fill
  <2> QED
    BY <1>4, <2>1, CellEnds
<1> HIDE DEF e
<1> QED
  BY <1>1, <1>3, <1>4, <1>5, <1>6, FillKeeps

(* A structure announces its data, or is the whole value.                  *)
LEMMA StructKeeps ==
    ASSUME StreamInv, ArenaInv, ReadStruct
    PROVE  StreamInv'
<1> PICK k \in Nat : k = Kept
  BY PageNumbers DEF StreamInv
<1> DEFINE t == Type
           raw == sent[k + 1].len
           n == Length(t, LastPart)
           b == Place(StructSize(t))
           e == [null |-> t \in Binary, len |-> n, pValue |-> b, data |-> 0]
<1>1. /\ pc = "value" /\ t \in Varying /\ wire' = SubSeq(wire, Len(Wants) + 1, Len(wire))
      /\ Accepts(t, LastPart) /\ Alloc(StructSize(t))
      /\ IF n = 0 /\ t # "VK_STRING" THEN Fill(e)
         ELSE /\ len' = n /\ pc' = "data"
              /\ UNCHANGED <<page, server, elmt, error_code, ret>>
  BY DEF ReadStruct, Reads
<1>2. b \in BlockType /\ blocks' # <<>>
  BY <1>1, SizesAreNat, PlaceTyped
<1> HIDE DEF t, raw
<1>3. /\ ret = "none" /\ t \in Known /\ t = TypeAt(k) /\ k < Total /\ RowHasBegun(k)
      /\ Len(sent) = k + 1 /\ sent[k + 1].status = "1" /\ sent[k + 1] \in Cells(t)
      /\ LastPart = raw
      /\ wire' = IF DataBytes(t, Written(t, raw)) > 0
                 THEN <<Field(DataBytes(t, Written(t, raw)), k + 1)>> ELSE <<>>
  BY <1>1, ValueSent DEF t, raw
<1>4. n \in Lengths \union {0} /\ n \in Nat /\ Written(t, n) = raw
  <2>1. raw \in {Written(t, m) : m \in Lengths} \union WrongLengths(t)
    BY <1>1, <1>3, CellTypes DEF raw
  <2> QED
    BY <1>1, <1>3, <2>1, AcceptedLength
<1> HIDE DEF n, b
<1>5. e \in Element
  BY <1>2, <1>4 DEF Element
<1>6. Written(t, raw) = n
  BY <1>4 DEF Written
<1>7. UNCHANGED <<page, server>> /\ PageType
  BY <1>1 DEF Fill, StreamInv
<1>8. CASE n = 0 /\ t # "VK_STRING"
  <2>1. wire' = <<>>
    BY <1>3, <1>6, <1>8 DEF DataBytes
  <2>2. raw = 0 /\ Written(t, n) = raw
    BY <1>4, <1>8 DEF Written
  <2>3. CellArrives(e, k)
    <3>1. (e.null <=> t \in Binary) /\ e.len = n
      OBVIOUS
    <3> HIDE DEF e
    <3>2. e.null <=> sent[k + 1].status = "0" \/ (t \in Binary /\ sent[k + 1].len = 0)
      BY <1>3, <2>2, <3>1 DEF raw
    <3> QED
      BY <1>3, <1>4, <3>1, <3>2 DEF CellArrives, raw
  <2>4. Due(k + 1)'
    BY <1>3, <1>7, <2>1, CellEnds
  <2> HIDE DEF e
  <2> QED
    BY <1>1, <1>3, <1>5, <1>8, <2>3, <2>4, FillKeeps
<1>9. CASE ~(n = 0 /\ t # "VK_STRING")
  <2>1. /\ len' = n /\ pc' = "data" /\ UNCHANGED <<page, server, elmt, error_code, ret>>
    BY <1>1, <1>9
  <2>2. DataBytes(t, n) \in Nat
    BY <1>4 DEF DataBytes
  <2>3. DataIsDue(k)'
    <3>1. /\ k < Total' /\ TypeAt(k)' = t /\ sent' = sent /\ (RowHasBegun(k)' <=> RowHasBegun(k))
      BY <1>3, <2>1, ClientFrame
    <3>2. DataBytes(t, n) = 0 => Due(k + 1)'
      BY <1>3, <1>6, <1>7, CellEnds
    <3>3. DataBytes(t, n) # 0 => wire' = <<Field(DataBytes(t, n), k + 1)>>
      BY <1>3, <1>6, <2>2
    <3> QED
      BY <1>1, <1>3, <1>4, <1>9, <2>1, <3>1, <3>2, <3>3 DEF DataIsDue, raw
  <2>4. Kept' = k /\ ret' = "none"
    BY <1>3, <2>1 DEF Kept
  <2>5. Position'
    BY <2>1, <2>3, <2>4 DEF Position
  <2>6. n \in 0 .. MaxLength
    BY <1>4, LengthsAssumption
  <2> QED
    BY <1>2, <1>3, <2>1, <2>5, <2>6, GoesOn
<1> QED
  BY <1>8, <1>9

(* The data completes the value, also if it is the NULs of an empty        *)
(* string.                                                                 *)
LEMMA DataKeeps ==
    ASSUME StreamInv, ArenaInv, ReadData
    PROVE  StreamInv'
<1> PICK k \in Nat : k = Kept
  BY PageNumbers DEF StreamInv
<1> DEFINE t == Type
           b == Place(DataSize(t, len))
           e == [null |-> FALSE, len |-> len, pValue |-> blocks[Len(blocks)], data |-> b]
<1>1. /\ pc = "data" /\ wire' = SubSeq(wire, Len(Wants) + 1, Len(wire))
      /\ Len(wire) >= Len(Wants) /\ Fill(e)
  BY DEF ReadData, Reads
<1>2. len \in Nat /\ len \in Lengths \union {0}
  <2>1. DataIsDue(k)
    BY <1>1 DEF StreamInv, Position
  <2> QED
    BY <2>1, LengthsAssumption DEF DataIsDue
<1>3. e \in Element
  <2>1. b \in BlockType
    BY <1>2, SizesAreNat, PlaceTyped
  <2>2. blocks[Len(blocks)] \in BlockType
    BY <1>1 DEF StreamInv, PageType, ArenaInv
  <2> QED
    BY <1>2, <2>1, <2>2 DEF Element
<1>4. ret = "none" /\ t = TypeAt(k) /\ DataIsDue(k) /\ PageType /\ UNCHANGED <<page, server>>
  BY <1>1 DEF StreamInv, TypeOK, Position, Type, TypeAt, Kept, Fill
<1>5. /\ e.null = FALSE /\ e.len = len
  OBVIOUS
<1>6. Wants = IF DataBytes(t, len) > 0 THEN <<DataBytes(t, len)>> ELSE <<>>
  BY <1>1 DEF Wants
<1> HIDE DEF t, e
<1>7. CellArrives(e, k)
  <2>1. /\ t \in Varying /\ k + 1 <= Len(sent) /\ sent[k + 1].status = "1"
        /\ sent[k + 1].len = Written(t, len) /\ (t # "VK_STRING" => len # 0)
    BY <1>4 DEF DataIsDue
  <2>2. t \in Binary => sent[k + 1].len # 0
    <3>1. t \in Binary => t # "VK_STRING"
      BY DEF Binary
    <3> QED
      BY <2>1, <3>1 DEF Written
  <2>3. t \in Known
    BY <2>1 DEF Varying, Known
  <2> QED
    BY <1>2, <1>4, <1>5, <2>1, <2>2, <2>3 DEF CellArrives
<1>8. Due(k + 1)'
  <2>1. CASE DataBytes(t, len) = 0
    <3>1. Due(k + 1)
      BY <1>4, <2>1 DEF DataIsDue
    <3>2. wire' = wire
      <4>1. wire \in Seq(FieldType)
        BY <1>4, <3>1, DueTyped
      <4>2. Len(Wants) = 0
        BY <1>6, <2>1
      <4> QED
        BY <1>1, <4>1, <4>2
    <3> QED
      BY <1>4, <3>1, <3>2, DueStays
  <2>2. CASE DataBytes(t, len) # 0
    <3>1. /\ RowHasBegun(k) /\ Len(sent) = k + 1 /\ k < Total
          /\ wire = <<Field(DataBytes(t, len), k + 1)>>
      BY <1>4, <2>2 DEF DataIsDue
    <3>2. Len(Wants) = 1
      BY <1>2, <1>6, <2>2 DEF DataBytes
    <3>3. wire' = <<>>
      BY <1>1, <3>1, <3>2
    <3> QED
      BY <1>4, <3>1, <3>3, CellEnds
  <2> QED
    BY <2>1, <2>2
<1>9. k < Total
  BY <1>4 DEF DataIsDue
<1> QED
  BY <1>1, <1>3, <1>4, <1>7, <1>8, <1>9, FillKeeps

(* The bytes that buf_recv is asked for are those of the next fields.      *)
LEMMA InStep ==
    ASSUME StreamInv, pc \in {"row", "row_id", "cell", "value", "data"}
    PROVE  ~OutOfStep
<1> PICK k \in Nat : k = Kept
  BY PageNumbers DEF StreamInv
<1>0. PageType /\ Position
  BY DEF StreamInv
<1>1. CASE pc \in {"row", "cell", "row_id"} /\ wire # <<>>
  <2>1. wire[1].n = IF pc = "row_id" THEN 4 ELSE 1
    <3>1. CASE pc = "row"
      BY <1>0, <1>1, <3>1, RowSent DEF Position
    <3>2. CASE pc = "cell"
      BY <1>0, <1>1, <3>2, CellSent DEF Position
    <3>3. CASE pc = "row_id"
      BY <1>0, <3>3 DEF Position, Field
    <3> QED
      BY <1>1, <3>1, <3>2, <3>3
  <2>2. Wants = <<IF pc = "row_id" THEN 4 ELSE 1>>
    BY <1>1 DEF Wants
  <2> QED
    BY <2>1, <2>2 DEF OutOfStep
<1>2. CASE wire = <<>>
  BY <1>2, NothingIsWrong DEF OutOfStep
<1>3. CASE pc = "value"
  <2>1. \A i \in 1 .. Len(Wants) : wire[i].n = Wants[i]
    BY <1>3, ValueSent
  <2> QED
    BY <2>1 DEF OutOfStep
<1>4. CASE pc = "data"
  <2>1. DataIsDue(k) /\ Type = TypeAt(k)
    BY <1>0, <1>4 DEF Position, Type, TypeAt, Kept
  <2>2. Wants = IF DataBytes(Type, len) > 0 THEN <<DataBytes(Type, len)>> ELSE <<>>
    BY <1>4 DEF Wants
  <2>3. CASE DataBytes(Type, len) > 0
    <3>1. wire = <<Field(DataBytes(Type, len), k + 1)>>
      BY <2>1, <2>3 DEF DataIsDue
    <3>2. wire[1].n = DataBytes(Type, len) /\ Wants = <<DataBytes(Type, len)>>
      BY <2>2, <2>3, <3>1 DEF Field
    <3> QED
      BY <3>2 DEF OutOfStep
  <2>4. CASE ~(DataBytes(Type, len) > 0)
    <3>1. Len(Wants) = 0
      BY <2>2, <2>4
    <3> QED
      BY <3>1 DEF OutOfStep
  <2> QED
    BY <2>3, <2>4
<1> QED
  BY <1>1, <1>2, <1>3, <1>4

(* A read fails because the connection does, never because it is out of    *)
(* step.                                                                   *)
LEMMA ReadFailsKeeps ==
    ASSUME StreamInv, ReadFails
    PROVE  StreamInv'
<1>1. ~OutOfStep
  BY InStep DEF ReadFails
<1>2. Fails("lost")
  BY <1>1 DEF ReadFails
<1> QED
  BY <1>2, FailKeeps DEF Fails

LEMMA StreamStarts ==
    ASSUME Init
    PROVE  StreamInv
<1>1. /\ column \in Seq(STRING) /\ nbRow \in Nat
      /\ sent = <<>> /\ begun = 0 /\ wire = <<>> /\ pc = "start" /\ elmt = <<>> /\ len = 0
      /\ error_code = 0 /\ ret = "none" /\ updateability \in BOOLEAN
      /\ column \in Schemas /\ nbRow \in RowNumbers
  BY PagesAssumption DEF Init
<1>2. nbCol \in Nat /\ Total \in Nat /\ Kept = 0 /\ Len(sent) = 0
  BY <1>1 DEF nbCol, Total, Kept
<1>3. PageType
  BY <1>1, <1>2 DEF PageType
<1>4. TypeOK
  BY <1>1, <1>2, LengthsAssumption DEF TypeOK, Total, Kept
<1>5. Due(0)
  <2>1. begun * nbCol = 0 /\ Total > 0 => nbCol > 0
    BY <1>1, <1>2 DEF Total
  <2>2. nbCol > 0 => 0 % nbCol = 0
    BY <1>2
  <2>3. CASE Total = 0
    <3>1. nbCol > 0 => nbRow = 0
      BY <1>1, <1>2, <2>3 DEF Total
    <3> QED
      BY <1>1, <1>2, <2>3, <3>1 DEF Due, EndIsDue
  <2>4. CASE Total # 0
    <3>1. 0 * nbCol = 0 /\ nbCol > 0 /\ Total > 0 /\ 0 % nbCol = 0
      BY <1>1, <1>2, <2>2, <2>4 DEF Total
    <3>2. updateability => RowIsDue(0)
      BY <1>1, <1>2, <3>1 DEF RowIsDue
    <3>3. ~updateability => CellIsDue(0)
      BY <1>1, <1>2, <3>1 DEF CellIsDue, RowHasBegun
    <3> QED
      BY <1>1, <2>4, <3>1, <3>2, <3>3 DEF Due
  <2> QED
    BY <2>3, <2>4
<1>6. Position
  BY <1>1, <1>2, <1>5 DEF Position
<1>7. CellsArriveAsSent
  BY <1>1 DEF CellsArriveAsSent
<1> QED
  BY <1>1, <1>3, <1>4, <1>6, <1>7 DEF StreamInv

LEMMA StreamStays ==
    ASSUME StreamInv, UNCHANGED vars
    PROVE  StreamInv'
<1> PICK k \in Nat : k = Kept
  BY PageNumbers DEF StreamInv
<1>1. UNCHANGED <<page, server, wire, pc, elmt, len, error_code, ret, blocks>>
  BY DEF vars, arenaVars
<1>2. PageType'
  BY <1>1, SamePage DEF StreamInv, PageType
<1>3. TypeOK'
  BY <1>1, ClientFrame DEF StreamInv, TypeOK, Total
<1>4. CellsArriveAsSent'
  BY <1>1, ClientFrame DEF StreamInv, CellsArriveAsSent
<1>5. Position'
  <2>1. Kept' = k /\ \A i \in Nat : Due(i) => Due(i)'
    BY <1>1, DueStays DEF Kept
  <2>2. DataIsDue(k) => DataIsDue(k)'
    BY <1>1, <2>1, ClientFrame DEF DataIsDue
  <2>3. RowIsDue(k) => RowIsDue(k)'
    BY <1>1, ClientFrame DEF RowIsDue
  <2>4. CellIsDue(k) => CellIsDue(k)'
    BY <1>1, ClientFrame DEF CellIsDue
  <2>5. ValueIsDue(k) => ValueIsDue(k)'
    BY <1>1, ClientFrame DEF ValueIsDue
  <2>6. EndIsDue(k) => EndIsDue(k)'
    BY <1>1, ClientFrame DEF EndIsDue
  <2>7. (pc = "start" => Kept = 0 /\ Due(0)) /\ (pc = "start" => Kept' = 0 /\ Due(0)')
    BY <2>1 DEF StreamInv, Position
  <2> QED
    BY <1>1, <2>1, <2>2, <2>3, <2>4, <2>5, <2>6, <2>7, ClientFrame DEF StreamInv, Position
<1> QED
  BY <1>1, <1>2, <1>3, <1>4, <1>5 DEF StreamInv

LEMMA StreamStep ==
    ASSUME IInv, StreamInv, [Next]_vars
    PROVE  StreamInv'
<1>1. ArenaInv
  BY DEF IInv
<1>2. CASE Next
  BY <1>1, <1>2, ServerKeeps, BeginKeeps, RowStatusKeeps, RowIdKeeps, ErrorCodeKeeps,
     CellStatusKeeps, FailsKeeps, FixedKeeps, StructKeeps, DataKeeps, ReadFailsKeeps
  DEF Next
<1> QED
  BY <1>2, StreamStays

(* The inductive invariant of the stream.                                  *)
THEOREM StreamInvariantHolds == Spec => []StreamInv
BY InvariantHolds, StreamStarts, StreamStep, PTL DEF Spec

(* Types, and at most as many cells as the page has.                       *)
THEOREM TypeCorrect == Spec => []TypeOK
<1>1. StreamInv => TypeOK
  BY DEF StreamInv
<1> QED
  BY <1>1, StreamInvariantHolds, PTL

(* With all cells read from the wire the client waits for no more bytes.   *)
LEMMA NothingIsWaitedFor ==
    ASSUME StreamInv, Len(sent) = Total, wire = <<>>
    PROVE  Wants = <<>>
<1> PICK k \in Nat : k = Kept
  BY PageNumbers DEF StreamInv
<1>1. pc \notin {"row", "row_id"}
  BY DEF StreamInv, Position, RowIsDue
<1>2. pc # "error"
  BY DEF StreamInv, Position
<1>3. pc # "cell"
  <2> SUFFICES ASSUME pc = "cell"
               PROVE  FALSE
    OBVIOUS
  <2>1. CellIsDue(k) /\ PageType
    BY DEF StreamInv, Position
  <2> QED
    BY <2>1, CellUnsent DEF CellIsDue
<1>4. pc # "value"
  <2> SUFFICES ASSUME pc = "value"
               PROVE  FALSE
    OBVIOUS
  <2>1. Len(wire) >= Len(Wants) /\ Len(Wants) >= 1
    BY ValueSent
  <2>2. Len(wire) = 0
    OBVIOUS
  <2>3. Len(Wants) \in Nat
    BY PartsTyped DEF Wants
  <2> QED
    BY <2>1, <2>2, <2>3
<1>5. pc = "data" => ~(DataBytes(Type, len) > 0)
  <2> SUFFICES ASSUME pc = "data", DataBytes(Type, len) > 0
               PROVE  FALSE
    OBVIOUS
  <2>1. DataIsDue(k) /\ Type = TypeAt(k)
    BY DEF StreamInv, Position, Type, TypeAt, Kept
  <2>2. wire = <<Field(DataBytes(Type, len), k + 1)>>
    BY <2>1 DEF DataIsDue
  <2> QED
    BY <2>2
<1> QED
  BY <1>1, <1>2, <1>3, <1>4, <1>5 DEF Wants

(* For every page, socket_receiv_data asks for just the bytes that come    *)
(* next, waits for none that do not come, and leaves none of the page      *)
(* behind for the next response.                                           *)
THEOREM ReadsStayInStep == Spec => []StaysInStep
<1>1. ASSUME StreamInv
      PROVE  StaysInStep
  <2>1. Len(sent) = nbRow * nbCol /\ wire = <<>> => Wants = <<>>
    BY <1>1, NothingIsWaitedFor DEF Total
  <2>2. ret = "ok" => /\ Len(elmt) = nbRow * nbCol /\ Len(sent) = Len(elmt)
                      /\ updateability /\ nbCol > 0 => begun = nbRow
                      /\ wire = <<>>
    BY <1>1 DEF StreamInv, Position, EndIsDue, Total, Kept
  <2> QED
    BY <1>1, <2>1, <2>2 DEF StaysInStep, StreamInv
<1> QED
  BY <1>1, StreamInvariantHolds, PTL

(* For every page, the table holds of each cell what the server sent: its  *)
(* NULL and its length, and a length out of bounds never gets into it.     *)
THEOREM CellsArrive == Spec => []CellsArriveAsSent
<1>1. StreamInv => CellsArriveAsSent
  BY DEF StreamInv
<1> QED
  BY <1>1, StreamInvariantHolds, PTL

-----------------------------------------------------------------------------
(* The memory of the values                                                *)

(* A block of n bytes that was given out, and its bytes.                   *)
IsBlock(b, n) == b.size = n /\ \E i \in DOMAIN blocks : blocks[i] = b

BytesOf(b) == {<<b.chunk, b.at + i>> : i \in 0 .. b.size - 1}

(* Memory that changes changes only in block b.                            *)
OnlyIn(m, m2, b) ==
    \A x \in DOMAIN m : x \in BytesOf(b) \/ (x \in DOMAIN m2 /\ m2[x] = m[x])

(* A value and its data, each in a block of its own: they hold what was    *)
(* read for the k-th cell.                                                 *)
ValueIsKept(e, t, k) ==
    /\ IsBlock(e.pValue, StructSize(t)) /\ Holds(e.pValue, 0, StructSize(t), k)
    /\ t \in Varying /\ (DataBytes(t, e.len) > 0 \/ t = "VK_STRING") =>
          IsBlock(e.data, DataSize(t, e.len))
    /\ t \in Varying /\ DataBytes(t, e.len) > 0 => Holds(e.data, 0, DataBytes(t, e.len), k)
    /\ t = "VK_STRING" => Holds(e.data, DataBytes(t, e.len), 2, NUL)

(* A value whose data comes next is in the newest block.                   *)
StructIsKept(k) ==
    LET b == blocks[Len(blocks)]
    IN  IsBlock(b, StructSize(Type)) /\ Holds(b, 0, StructSize(Type), k)

(* The invariant that is inductive.                                        *)
MemoryInv ==
    /\ \A k \in DOMAIN elmt : ~elmt[k].null => ValueIsKept(elmt[k], TypeAt(k - 1), k)
    /\ pc = "data" => StructIsKept(Kept + 1)

(* m2 is m but for n bytes of block b.                                     *)
IsStored(m, m2, b, from, n, v) ==
    /\ OnlyIn(m, m2, b)
    /\ \A i \in from .. from + n - 1 :
          <<b.chunk, b.at + i>> \in DOMAIN m2 /\ m2[<<b.chunk, b.at + i>>] = v
    /\ \A i \in Nat : i < from /\ <<b.chunk, b.at + i>> \in DOMAIN m =>
          /\ <<b.chunk, b.at + i>> \in DOMAIN m2
          /\ m2[<<b.chunk, b.at + i>>] = m[<<b.chunk, b.at + i>>]

(* Store writes the bytes it is to, within the block and behind what is    *)
(* before them.                                                            *)
LEMMA StoreIsExact ==
    ASSUME NEW m, NEW b \in BlockType, NEW from \in Nat, NEW n \in Nat, from + n <= b.size,
           NEW v, NEW m2, m2 = Store(m, b, from, n, v)
    PROVE  IsStored(m, m2, b, from, n, v)
<1> DEFINE bytes == {<<b.chunk, b.at + from + i>> : i \in 0 .. n - 1}
<1>1. m2 = [x \in DOMAIN m \union bytes |-> IF x \in bytes THEN v ELSE m[x]]
  BY DEF Store
<1>2. b.at \in Nat /\ b.size \in Nat /\ b.chunk \in Nat
  BY DEF BlockType
<1>3. bytes \subseteq BytesOf(b)
  <2> SUFFICES ASSUME NEW j \in 0 .. n - 1
               PROVE  <<b.chunk, b.at + from + j>> \in BytesOf(b)
    OBVIOUS
  <2>1. from + j \in 0 .. b.size - 1 /\ b.at + (from + j) = b.at + from + j
    BY <1>2
  <2>2. <<b.chunk, b.at + (from + j)>> \in BytesOf(b)
    BY <2>1 DEF BytesOf
  <2> QED
    BY <2>1, <2>2
<1>4. ASSUME NEW i \in from .. from + n - 1
      PROVE  <<b.chunk, b.at + i>> \in bytes
  <2>1. i - from \in 0 .. n - 1 /\ b.at + from + (i - from) = b.at + i
    BY <1>2
  <2>2. <<b.chunk, b.at + from + (i - from)>> \in bytes
    BY <2>1
  <2> QED
    BY <2>1, <2>2
<1>5. ASSUME NEW i \in Nat, i < from
      PROVE  <<b.chunk, b.at + i>> \notin bytes
  <2> SUFFICES ASSUME NEW j \in 0 .. n - 1, <<b.chunk, b.at + i>> = <<b.chunk, b.at + from + j>>
               PROVE  FALSE
    OBVIOUS
  <2>1. b.at + i = b.at + from + j
    OBVIOUS
  <2> QED
    BY <1>2, <1>5, <2>1
<1> HIDE DEF bytes
<1>6. OnlyIn(m, m2, b)
  BY <1>1, <1>3 DEF OnlyIn
<1> QED
  BY <1>1, <1>4, <1>5, <1>6 DEF IsStored

LEMMA StoreFills ==
    ASSUME NEW b \in BlockType, NEW n \in Nat, n <= b.size, NEW v,
           memory' = Store(memory, b, 0, n, v)
    PROVE  OnlyIn(memory, memory', b) /\ Holds(b, 0, n, v)'
<1> PICK m : m = memory
  OBVIOUS
<1> PICK m2 : m2 = Store(m, b, 0, n, v)
  OBVIOUS
<1> PICK from \in Nat : from = 0
  OBVIOUS
<1>1. from + n <= b.size /\ m2 = Store(m, b, from, n, v)
  BY DEF BlockType
<1>s. IsStored(m, m2, b, from, n, v)
  BY <1>1, StoreIsExact
<1>2. OnlyIn(m, m2, b)
  BY <1>s DEF IsStored
<1>3. \A i \in from .. from + n - 1 :
         <<b.chunk, b.at + i>> \in DOMAIN m2 /\ m2[<<b.chunk, b.at + i>>] = v
  BY <1>s DEF IsStored
<1> QED
  BY <1>2, <1>3 DEF Holds

(* The blocks that were given out stay, and share no byte with the next.   *)
LEMMA BlocksStay ==
    ASSUME ArenaInv, NEW n \in Nat, Alloc(n), NEW b, NEW s, IsBlock(b, s)
    PROVE  /\ IsBlock(b, s)'
           /\ b \in BlockType
           /\ \A x \in BytesOf(b) : x \notin BytesOf(Place(n))
<1> PICK p \in BlockType : p = Place(n)
  BY PlaceTyped
<1>1. /\ blocks' = Append(blocks, p) /\ blocks \in Seq(BlockType) /\ Len(blocks) \in Nat
      /\ p.size = n
  BY PlaceTyped
<1>2. PICK i \in DOMAIN blocks : blocks[i] = b
  BY DEF IsBlock
<1>3. /\ DOMAIN blocks' = 1 .. Len(blocks) + 1 /\ DOMAIN blocks = 1 .. Len(blocks)
      /\ blocks'[Len(blocks) + 1] = p /\ blocks'[i] = b
      /\ i \in DOMAIN blocks' /\ i # Len(blocks) + 1 /\ Len(blocks) + 1 \in DOMAIN blocks'
      /\ b \in BlockType
  BY <1>1, <1>2
<1>4. b.chunk = p.chunk => b.at + b.size <= p.at \/ p.at + p.size <= b.at
  <2>1. BlocksAreDisjoint'
    BY AllocKeepsSound DEF ArenaInv, BlocksAreSound
  <2> QED
    BY <1>3, <2>1 DEF BlocksAreDisjoint
<1>5. \A x \in BytesOf(b) : x \notin BytesOf(p)
  <2> SUFFICES ASSUME NEW j \in 0 .. b.size - 1, NEW l \in 0 .. p.size - 1,
                      <<b.chunk, b.at + j>> = <<p.chunk, p.at + l>>
               PROVE  FALSE
    BY DEF BytesOf
  <2>1. b.chunk = p.chunk /\ b.at + j = p.at + l
    OBVIOUS
  <2>2. b.at \in Nat /\ p.at \in Nat /\ b.size \in Nat /\ p.size \in Nat
    BY <1>3 DEF BlockType
  <2> QED
    BY <1>4, <2>1, <2>2
<1>6. b.size = s
  BY DEF IsBlock
<1>7. IsBlock(b, s)'
  BY <1>3, <1>6 DEF IsBlock
<1> QED
  BY <1>3, <1>5, <1>7

LEMMA NewBlock ==
    ASSUME ArenaInv, NEW n \in Nat, Alloc(n), NEW p, p = Place(n)
    PROVE  IsBlock(p, n)' /\ p \in BlockType /\ p.size = n /\ blocks'[Len(blocks')] = p
<1>1. /\ blocks' = Append(blocks, p) /\ blocks \in Seq(BlockType) /\ Len(blocks) \in Nat
      /\ p \in BlockType /\ p.size = n
  BY PlaceTyped
<1>2. /\ DOMAIN blocks' = 1 .. Len(blocks) + 1 /\ blocks'[Len(blocks) + 1] = p
      /\ Len(blocks') = Len(blocks) + 1
  BY <1>1
<1> QED
  BY <1>1, <1>2 DEF IsBlock

(* What a block holds stays when another is written to.                    *)
LEMMA BytesStay ==
    ASSUME NEW b \in BlockType, NEW p, \A x \in BytesOf(b) : x \notin BytesOf(p),
           OnlyIn(memory, memory', p),
           NEW from \in Nat, NEW n \in Nat, from + n <= b.size, NEW v, Holds(b, from, n, v)
    PROVE  Holds(b, from, n, v)'
<1> SUFFICES ASSUME NEW i \in from .. from + n - 1
             PROVE  <<b.chunk, b.at + i>> \in DOMAIN memory' /\ memory'[<<b.chunk, b.at + i>>] = v
  BY DEF Holds
<1>1. b.size \in Nat
  BY DEF BlockType
<1>2. i \in 0 .. b.size - 1
  BY <1>1
<1>3. <<b.chunk, b.at + i>> \in BytesOf(b)
  BY <1>2 DEF BytesOf
<1>4. <<b.chunk, b.at + i>> \in DOMAIN memory /\ memory[<<b.chunk, b.at + i>>] = v
  BY DEF Holds
<1> QED
  BY <1>3, <1>4 DEF OnlyIn

(* A string's block has room for two bytes behind its data.                *)
LEMMA DataSizes ==
    ASSUME NEW t, NEW n \in Nat
    PROVE  /\ StructSize(t) \in Nat /\ DataBytes(t, n) \in Nat /\ DataSize(t, n) \in Nat
           /\ t # "VK_STRING" => DataSize(t, n) = DataBytes(t, n)
           /\ t = "VK_STRING" => DataSize(t, n) = DataBytes(t, n) + 2 /\ t \in Varying
<1>1. StructSize(t) \in Nat
  BY SizesAreNat
<1>2. t = "VK_STRING" => t \in Varying
  BY DEF Varying
<1> QED
  BY <1>1, <1>2 DEF DataBytes, DataSize

LEMMA ValueStays ==
    ASSUME ArenaInv, NEW n \in Nat, Alloc(n), OnlyIn(memory, memory', Place(n)),
           NEW e \in Element, NEW t, NEW k, ValueIsKept(e, t, k)
    PROVE  ValueIsKept(e, t, k)'
<1>0. e.len \in Nat
  BY DEF Element
<1>1. /\ StructSize(t) \in Nat /\ DataBytes(t, e.len) \in Nat /\ DataSize(t, e.len) \in Nat
      /\ t # "VK_STRING" => DataSize(t, e.len) = DataBytes(t, e.len)
      /\ t = "VK_STRING" => DataSize(t, e.len) = DataBytes(t, e.len) + 2 /\ t \in Varying
  BY <1>0, DataSizes
<1>2. IsBlock(e.pValue, StructSize(t))' /\ Holds(e.pValue, 0, StructSize(t), k)'
  <2>1. IsBlock(e.pValue, StructSize(t)) /\ Holds(e.pValue, 0, StructSize(t), k)
    BY DEF ValueIsKept
  <2>2. /\ IsBlock(e.pValue, StructSize(t))' /\ e.pValue \in BlockType
        /\ \A x \in BytesOf(e.pValue) : x \notin BytesOf(Place(n))
    BY <2>1, BlocksStay
  <2>3. e.pValue.size = StructSize(t)
    BY <2>1 DEF IsBlock
  <2> QED
    BY <1>1, <2>1, <2>2, <2>3, BytesStay
<1>3. ASSUME t \in Varying, DataBytes(t, e.len) > 0 \/ t = "VK_STRING"
      PROVE  /\ IsBlock(e.data, DataSize(t, e.len))'
             /\ DataBytes(t, e.len) > 0 => Holds(e.data, 0, DataBytes(t, e.len), k)'
             /\ t = "VK_STRING" => Holds(e.data, DataBytes(t, e.len), 2, NUL)'
  <2>1. IsBlock(e.data, DataSize(t, e.len))
    BY <1>3 DEF ValueIsKept
  <2>2. /\ IsBlock(e.data, DataSize(t, e.len))' /\ e.data \in BlockType
        /\ \A x \in BytesOf(e.data) : x \notin BytesOf(Place(n))
    BY <1>1, <2>1, BlocksStay
  <2>3. e.data.size = DataSize(t, e.len)
    BY <2>1 DEF IsBlock
  <2>4. ASSUME DataBytes(t, e.len) > 0
        PROVE  Holds(e.data, 0, DataBytes(t, e.len), k)'
    <3>1. Holds(e.data, 0, DataBytes(t, e.len), k)
      BY <1>3, <2>4 DEF ValueIsKept
    <3>2. 0 + DataBytes(t, e.len) <= e.data.size
      BY <1>1, <2>3
    <3> QED
      BY <1>1, <2>2, <3>1, <3>2, BytesStay
  <2>5. ASSUME t = "VK_STRING"
        PROVE  Holds(e.data, DataBytes(t, e.len), 2, NUL)'
    <3>1. Holds(e.data, DataBytes(t, e.len), 2, NUL)
      BY <2>5 DEF ValueIsKept
    <3>2. DataBytes(t, e.len) + 2 <= e.data.size
      BY <1>1, <2>3, <2>5
    <3> QED
      BY <1>1, <2>2, <3>1, <3>2, BytesStay
  <2> QED
    BY <2>2, <2>4, <2>5
<1> QED
  BY <1>1, <1>2, <1>3 DEF ValueIsKept

(* Nothing is appended to the table, and what was in it stays.             *)
LEMMA TableStays ==
    ASSUME ArenaInv, elmt \in Seq(Element), MemoryInv, pc' # "data",
           UNCHANGED <<page, elmt, memory>>,
           UNCHANGED arenaVars \/ \E n \in Nat : Alloc(n)
    PROVE  MemoryInv'
<1>1. /\ elmt' = elmt /\ \A k : TypeAt(k)' = TypeAt(k)
  BY DEF page, TypeAt, nbCol
<1>2. ASSUME NEW k \in DOMAIN elmt, ~elmt[k].null, NEW e, e = elmt[k], NEW t, t = TypeAt(k - 1)
      PROVE  ValueIsKept(e, t, k)'
  <2>1. ValueIsKept(e, t, k) /\ e \in Element
    BY <1>2 DEF MemoryInv
  <2>2. CASE UNCHANGED arenaVars
    BY <2>1, <2>2 DEF ValueIsKept, IsBlock, Holds, arenaVars
  <2>3. CASE \E n \in Nat : Alloc(n)
    <3>1. PICK n \in Nat : Alloc(n)
      BY <2>3
    <3>2. OnlyIn(memory, memory', Place(n))
      BY DEF OnlyIn
    <3> QED
      BY <2>1, <3>1, <3>2, ValueStays
  <2> QED
    BY <2>2, <2>3
<1> QED
  BY <1>1, <1>2 DEF MemoryInv

(* A value is appended, in the newest block.                               *)
LEMMA TableGrows ==
    ASSUME ArenaInv, elmt \in Seq(Element), MemoryInv, pc' # "data", UNCHANGED page,
           NEW n \in Nat, Alloc(n), OnlyIn(memory, memory', Place(n)),
           NEW e \in Element, elmt' = Append(elmt, e), NEW k \in Nat, k = Kept,
           NEW t, t = TypeAt(k), ~e.null => ValueIsKept(e, t, k + 1)'
    PROVE  MemoryInv'
<1>1. \A i : TypeAt(i)' = TypeAt(i)
  BY DEF page, TypeAt, nbCol
<1>2. /\ DOMAIN elmt' = 1 .. k + 1 /\ DOMAIN elmt = 1 .. k /\ elmt'[k + 1] = e
      /\ \A i \in DOMAIN elmt : elmt'[i] = elmt[i]
  BY DEF Kept
<1>3. ASSUME NEW i \in 1 .. k + 1, ~elmt'[i].null,
             NEW f, f = elmt'[i], NEW u, u = TypeAt(i - 1)
      PROVE  ValueIsKept(f, u, i)'
  <2>1. CASE i \in 1 .. k
    <3>1. f = elmt[i] /\ f \in Element /\ ~f.null
      BY <1>2, <1>3, <2>1
    <3>2. ValueIsKept(f, u, i)
      BY <1>2, <1>3, <2>1, <3>1 DEF MemoryInv
    <3> QED
      BY <3>1, <3>2, ValueStays
  <2>2. CASE i = k + 1
    <3>1. f = e /\ ~e.null /\ u = t /\ i = k + 1
      <4>1. i - 1 = k
        BY <2>2
      <4> QED
        BY <1>2, <1>3, <2>2, <4>1
    <3> QED
      BY <3>1
  <2> QED
    BY <2>1, <2>2
<1>4. (\A i \in DOMAIN elmt : ~elmt[i].null => ValueIsKept(elmt[i], TypeAt(i - 1), i))'
  BY <1>1, <1>2, <1>3
<1> QED
  BY <1>4 DEF MemoryInv

LEMMA FixedIsStored ==
    ASSUME StreamInv, ArenaInv, MemoryInv, ReadFixed
    PROVE  MemoryInv'
<1> PICK k \in Nat : k = Kept
  BY PageNumbers DEF StreamInv
<1> PICK t : t = Type
  OBVIOUS
<1> PICK n \in Nat : n = StructSize(t)
  BY SizesAreNat
<1> PICK p \in BlockType : p = Place(n)
  BY PlaceTyped
<1> DEFINE e == [null |-> FALSE, len |-> 0, pValue |-> p, data |-> 0]
<1>1. /\ pc = "value" /\ t \notin Varying /\ Alloc(n) /\ Fill(e)
      /\ memory' = Store(memory, p, 0, n, LastPart)
  BY DEF ReadFixed
<1>2. LastPart = k + 1 /\ t = TypeAt(k) /\ elmt \in Seq(Element)
  <2>1. LastPart = (IF t \in Varying THEN sent[k + 1].len ELSE k + 1) /\ t = TypeAt(k)
    BY <1>1, ValueSent
  <2> QED
    BY <1>1, <2>1 DEF StreamInv, PageType
<1>3. e \in Element
  BY DEF Element
<1>4. IsBlock(p, n)' /\ p.size = n
  BY <1>1, NewBlock
<1>5. OnlyIn(memory, memory', p) /\ Holds(p, 0, n, k + 1)'
  <2>1. n <= p.size /\ memory' = Store(memory, p, 0, n, k + 1)
    BY <1>1, <1>2, <1>4
  <2> QED
    BY <2>1, StoreFills
<1>6. ValueIsKept(e, t, k + 1)'
  <2>1. t # "VK_STRING"
    BY <1>1 DEF Varying
  <2>2. e.pValue = p
    OBVIOUS
  <2> HIDE DEF e
  <2> QED
    BY <1>1, <1>4, <1>5, <2>1, <2>2 DEF ValueIsKept
<1>7. pc' # "data" /\ UNCHANGED page /\ elmt' = Append(elmt, e)
  BY <1>1 DEF Fill, LoopsTo, Return
<1> HIDE DEF e
<1> QED
  BY <1>1, <1>2, <1>3, <1>5, <1>6, <1>7, TableGrows

LEMMA StructIsStored ==
    ASSUME StreamInv, ArenaInv, MemoryInv, ReadStruct
    PROVE  MemoryInv'
<1> PICK k \in Nat : k = Kept
  BY PageNumbers DEF StreamInv
<1> PICK t : t = Type
  OBVIOUS
<1> PICK n \in Nat : n = StructSize(t)
  BY SizesAreNat
<1> PICK p \in BlockType : p = Place(n)
  BY PlaceTyped
<1> PICK l : l = Length(t, LastPart)
  OBVIOUS
<1> DEFINE e == [null |-> t \in Binary, len |-> l, pValue |-> p, data |-> 0]
<1>1. /\ pc = "value" /\ t \in Varying /\ Alloc(n) /\ Accepts(t, LastPart)
      /\ memory' = Store(memory, p, 0, n, k + 1)
      /\ IF l = 0 /\ t # "VK_STRING" THEN Fill(e)
         ELSE /\ pc' = "data" /\ UNCHANGED <<page, elmt>>
  BY DEF ReadStruct, Kept
<1>2. t = TypeAt(k) /\ elmt \in Seq(Element) /\ l \in Nat
  <2>1. t = TypeAt(k)
    BY DEF Type, TypeAt, Kept
  <2>2. l \in Nat
    BY <1>1, LengthsAssumption DEF Accepts
  <2> QED
    BY <2>1, <2>2 DEF StreamInv, PageType
<1>3. e \in Element
  BY <1>2 DEF Element
<1>4. IsBlock(p, n)' /\ p.size = n /\ blocks'[Len(blocks')] = p
  BY <1>1, NewBlock
<1>5. OnlyIn(memory, memory', p) /\ Holds(p, 0, n, k + 1)'
  <2>1. n <= p.size /\ memory' = Store(memory, p, 0, n, k + 1)
    BY <1>1, <1>4
  <2> QED
    BY <2>1, StoreFills
<1>6. CASE l = 0 /\ t # "VK_STRING"
  <2>1. e.pValue = p /\ e.len = l
    OBVIOUS
  <2>2. Fill(e)
    BY <1>1, <1>6
  <2> HIDE DEF e
  <2>3. DataBytes(t, l) = 0
    BY <1>6 DEF DataBytes
  <2>4. ValueIsKept(e, t, k + 1)'
    <3>1. ~(DataBytes(t, l) > 0)
      BY <2>3
    <3> QED
      BY <1>4, <1>5, <1>6, <2>1, <3>1 DEF ValueIsKept
  <2>5. pc' # "data" /\ UNCHANGED page /\ elmt' = Append(elmt, e)
    BY <2>2 DEF Fill, LoopsTo, Return
  <2> QED
    BY <1>1, <1>2, <1>3, <1>5, <2>4, <2>5, TableGrows
<1>7. CASE ~(l = 0 /\ t # "VK_STRING")
  <2>1. pc' = "data" /\ UNCHANGED <<page, elmt>>
    BY <1>1, <1>7
  <2>2. \A i : TypeAt(i)' = TypeAt(i)
    BY <2>1 DEF page, TypeAt, nbCol
  <2>3. Type' = t /\ Kept' = k
    BY <2>1 DEF page, Type, nbCol, Kept
  <2>4. ASSUME NEW i \in DOMAIN elmt, ~elmt[i].null, NEW f, f = elmt[i],
               NEW u, u = TypeAt(i - 1)
        PROVE  ValueIsKept(f, u, i)'
    <3>1. ValueIsKept(f, u, i) /\ f \in Element
      BY <1>2, <2>4 DEF MemoryInv
    <3> QED
      BY <1>1, <1>5, <3>1, ValueStays
  <2>5. StructIsKept(Kept + 1)'
    BY <1>4, <1>5, <2>3 DEF StructIsKept
  <2> QED
    BY <2>1, <2>2, <2>4, <2>5 DEF MemoryInv
<1> QED
  BY <1>6, <1>7

(* The data and, for a string, the NULs behind it are stored one after the *)
(* other into the same block.                                              *)
LEMMA DataIsStored ==
    ASSUME StreamInv, ArenaInv, MemoryInv, ReadData
    PROVE  MemoryInv'
<1> PICK k \in Nat : k = Kept
  BY PageNumbers DEF StreamInv
<1> PICK t : t = Type
  OBVIOUS
<1> PICK l : l = len
  OBVIOUS
<1> PICK q : q = blocks[Len(blocks)]
  OBVIOUS
<1>1. pc = "data" /\ DataIsDue(k) /\ t = TypeAt(k) /\ elmt \in Seq(Element) /\ blocks # <<>>
  BY DEF ReadData, Reads, StreamInv, PageType, Position, Type, TypeAt, Kept
<1>2. l \in Nat /\ t \in Varying /\ (t # "VK_STRING" => l # 0)
  BY <1>1, LengthsAssumption DEF DataIsDue
<1> PICK s \in Nat : s = DataSize(t, l)
  BY <1>2, DataSizes
<1> PICK n \in Nat : n = DataBytes(t, l)
  BY <1>2, DataSizes
<1> PICK p \in BlockType : p = Place(s)
  BY PlaceTyped
<1> DEFINE e == [null |-> FALSE, len |-> l, pValue |-> q, data |-> p]
<1>3. Alloc(s) /\ Fill(e)
  BY DEF ReadData
<1>4. IsBlock(p, s)' /\ p.size = s /\ p.size \in Nat
  BY <1>3, NewBlock
<1>5. /\ t # "VK_STRING" => s = n /\ n > 0
      /\ t = "VK_STRING" => s = n + 2
  BY <1>2, DataSizes DEF DataBytes
<1>6. q \in BlockType /\ IsBlock(q, StructSize(t)) /\ Holds(q, 0, StructSize(t), k + 1)
  <2>1. q \in BlockType
    BY <1>1 DEF ArenaInv
  <2> QED
    BY <1>1, <2>1 DEF MemoryInv, StructIsKept
<1>7. e \in Element
  BY <1>2, <1>6 DEF Element
<1> PICK data : data = IF n = 0 THEN memory ELSE Store(memory, p, 0, n, wire[1].v)
  OBVIOUS
<1>8. memory' = IF t = "VK_STRING" THEN Store(data, p, n, 2, NUL) ELSE data
  BY DEF ReadData
<1>9. n > 0 => wire[1].v = k + 1
  <2>1. n > 0 => wire = <<Field(n, k + 1)>>
    BY <1>1 DEF DataIsDue
  <2> QED
    BY <2>1 DEF Field
<1>10. /\ OnlyIn(memory, data, p)
       /\ \A i \in 0 .. n - 1 : <<p.chunk, p.at + i>> \in DOMAIN data
                                /\ data[<<p.chunk, p.at + i>>] = k + 1
  <2>1. CASE n = 0
    <3>1. data = memory
      BY <2>1
    <3>2. \A i \in 0 .. n - 1 : FALSE
      BY <2>1
    <3> QED
      BY <3>1, <3>2 DEF OnlyIn
  <2>2. CASE n > 0
    <3> PICK m : m = memory
      OBVIOUS
    <3> PICK from \in Nat : from = 0
      OBVIOUS
    <3>1. from + n <= p.size /\ data = Store(m, p, from, n, k + 1)
      BY <1>4, <1>5, <1>9, <2>2
    <3>s. IsStored(m, data, p, from, n, k + 1)
      BY <3>1, StoreIsExact
    <3>2. OnlyIn(m, data, p)
      BY <3>s DEF IsStored
    <3>3. \A i \in from .. from + n - 1 : <<p.chunk, p.at + i>> \in DOMAIN data
                                          /\ data[<<p.chunk, p.at + i>>] = k + 1
      BY <3>s DEF IsStored
    <3> QED
      BY <3>2, <3>3
  <2> QED
    BY <2>1, <2>2
<1>11. /\ OnlyIn(memory, memory', p) /\ Holds(p, 0, n, k + 1)'
       /\ t = "VK_STRING" => Holds(p, n, 2, NUL)'
  <2>1. CASE t # "VK_STRING"
    <3>1. memory' = data
      BY <1>8, <2>1
    <3>2. Holds(p, 0, n, k + 1)'
      BY <1>10, <3>1 DEF Holds
    <3> QED
      BY <1>10, <2>1, <3>1, <3>2
  <2>2. CASE t = "VK_STRING"
    <3> PICK m2 : m2 = Store(data, p, n, 2, NUL)
      OBVIOUS
    <3>1. m2 = memory' /\ n + 2 <= p.size
      BY <1>4, <1>5, <1>8, <2>2
    <3>s. IsStored(data, m2, p, n, 2, NUL)
      BY <3>1, StoreIsExact
    <3>2. OnlyIn(data, m2, p)
      BY <3>s DEF IsStored
    <3>3. \A i \in n .. n + 2 - 1 : <<p.chunk, p.at + i>> \in DOMAIN m2
                                    /\ m2[<<p.chunk, p.at + i>>] = NUL
      BY <3>s DEF IsStored
    <3>4. \A i \in Nat : i < n /\ <<p.chunk, p.at + i>> \in DOMAIN data =>
             /\ <<p.chunk, p.at + i>> \in DOMAIN m2
             /\ m2[<<p.chunk, p.at + i>>] = data[<<p.chunk, p.at + i>>]
      BY <3>s DEF IsStored
    <3>5. \A i \in 0 .. n - 1 : <<p.chunk, p.at + i>> \in DOMAIN m2
                                /\ m2[<<p.chunk, p.at + i>>] = k + 1
      BY <1>10, <3>4
    <3>6. OnlyIn(memory, m2, p)
      BY <1>10, <3>2 DEF OnlyIn
    <3> QED
      BY <3>1, <3>3, <3>5, <3>6 DEF Holds
  <2> QED
    BY <2>1, <2>2
<1>12. IsBlock(q, StructSize(t))' /\ Holds(q, 0, StructSize(t), k + 1)'
  <2> PICK z \in Nat : z = StructSize(t)
    BY SizesAreNat
  <2>1. IsBlock(q, z)' /\ \A x \in BytesOf(q) : x \notin BytesOf(p)
    BY <1>3, <1>6, BlocksStay
  <2>2. q.size = z /\ 0 + z <= q.size
    BY <1>6 DEF IsBlock
  <2>3. Holds(q, 0, z, k + 1)'
    BY <1>6, <1>11, <2>1, <2>2, BytesStay
  <2> QED
    BY <2>1, <2>3
<1>13. ValueIsKept(e, t, k + 1)'
  <2>1. e.len = l /\ e.pValue = q /\ e.data = p
    OBVIOUS
  <2> HIDE DEF e
  <2> QED
    BY <1>4, <1>11, <1>12, <2>1 DEF ValueIsKept
<1>14. pc' # "data" /\ UNCHANGED page /\ elmt' = Append(elmt, e)
  BY <1>3 DEF Fill, LoopsTo, Return
<1> HIDE DEF e
<1> QED
  BY <1>1, <1>3, <1>7, <1>11, <1>13, <1>14, TableGrows

LEMMA NullIsAppended ==
    ASSUME elmt \in Seq(Element), MemoryInv, Fill(Null), UNCHANGED <<memory, arenaVars>>
    PROVE  MemoryInv'
<1>1. \A i : TypeAt(i)' = TypeAt(i)
  BY DEF Fill, page, TypeAt, nbCol
<1>2. /\ pc' # "data" /\ DOMAIN elmt' = 1 .. Len(elmt) + 1 /\ DOMAIN elmt = 1 .. Len(elmt)
      /\ elmt'[Len(elmt) + 1].null /\ \A i \in DOMAIN elmt : elmt'[i] = elmt[i]
  <2>1. elmt' = Append(elmt, Null) /\ pc' # "data"
    BY DEF Fill, LoopsTo, Return
  <2>2. Null.null /\ Null \in Element /\ Len(elmt) \in Nat
    BY NullTyped DEF Null
  <2> QED
    BY <2>1, <2>2
<1>3. ASSUME NEW i \in DOMAIN elmt', ~elmt'[i].null,
             NEW f, f = elmt'[i], NEW u, u = TypeAt(i - 1)
      PROVE  ValueIsKept(f, u, i)'
  <2>1. i \in DOMAIN elmt /\ f = elmt[i] /\ ~elmt[i].null
    BY <1>2, <1>3
  <2>2. ValueIsKept(f, u, i)
    BY <1>3, <2>1 DEF MemoryInv
  <2> QED
    BY <2>2 DEF ValueIsKept, IsBlock, Holds, arenaVars
<1>4. (\A i \in DOMAIN elmt : ~elmt[i].null => ValueIsKept(elmt[i], TypeAt(i - 1), i))'
  BY <1>1, <1>3
<1> QED
  BY <1>2, <1>4 DEF MemoryInv

(* Neither the table nor the arena is touched.                             *)
LEMMA MemoryRests ==
    ASSUME MemoryInv, UNCHANGED <<page, pc, elmt, memory, arenaVars>>
    PROVE  MemoryInv'
<1>1. (\A i : TypeAt(i)' = TypeAt(i)) /\ Type' = Type /\ Kept' = Kept /\ blocks' = blocks
  BY DEF page, TypeAt, Type, nbCol, Kept, arenaVars
<1>2. ASSUME NEW f, NEW u, NEW i, ValueIsKept(f, u, i)
      PROVE  ValueIsKept(f, u, i)'
  BY <1>1, <1>2 DEF ValueIsKept, IsBlock, Holds
<1>3. StructIsKept(Kept + 1) => StructIsKept(Kept + 1)'
  BY <1>1 DEF StructIsKept, IsBlock, Holds
<1> QED
  BY <1>1, <1>2, <1>3 DEF MemoryInv

LEMMA MemoryStep ==
    ASSUME StreamInv, IInv, MemoryInv, [Next]_vars
    PROVE  MemoryInv'
<1>0. ArenaInv /\ elmt \in Seq(Element)
  BY DEF StreamInv, IInv, PageType
<1>1. CASE SendRowStatus \/ SendCell \/ UNCHANGED vars
  BY <1>1, MemoryRests DEF SendRowStatus, SendCell, vars
<1>2. CASE Begin \/ ReadRowStatus \/ ReadRowId \/ UnknownStatus \/ ReadErrorCode
           \/ UnknownType \/ NoMemory
  <2>1. UNCHANGED <<page, elmt, memory, arenaVars>> /\ pc' # "data"
    BY <1>2 DEF Begin, ReadRowStatus, ReadRowId, UnknownStatus, ReadErrorCode, UnknownType,
                NoMemory, Fails, Return, LoopsTo
  <2> QED
    BY <1>0, <2>1, TableStays
<1>3. CASE ReadCellStatus
  <2>1. CASE Fill(Null)
    BY <1>0, <1>3, <2>1, NullIsAppended DEF ReadCellStatus
  <2>2. CASE ~Fill(Null)
    <3>1. UNCHANGED <<page, elmt, memory, arenaVars>> /\ pc' # "data"
      BY <1>3, <2>2 DEF ReadCellStatus
    <3> QED
      BY <1>0, <3>1, TableStays
  <2> QED
    BY <2>1, <2>2
<1>4. CASE WrongLength \/ ReadFails
  <2>1. UNCHANGED <<page, elmt, memory>> /\ pc' # "data"
    BY <1>4 DEF WrongLength, ReadFails, Fails, Return
  <2>2. UNCHANGED arenaVars \/ Alloc(StructSize(Type)) \/ Alloc(DataSize(Type, len))
    BY <1>4 DEF WrongLength, ReadFails
  <2>3. StructSize(Type) \in Nat /\ DataSize(Type, len) \in Nat
    BY SizesAreNat DEF IInv
  <2>4. UNCHANGED arenaVars \/ \E n \in Nat : Alloc(n)
    BY <2>2, <2>3
  <2> QED
    BY <1>0, <2>1, <2>4, TableStays
<1> QED
  BY <1>0, <1>1, <1>2, <1>3, <1>4, FixedIsStored, StructIsStored, DataIsStored DEF Next

(* For every page, the bytes of a value, with the NULs that end a string,  *)
(* are never written over by a later one.                                  *)
THEOREM ValuesAreKept == Spec => []ValuesSurvive
<1>1. Init => MemoryInv
  BY DEF Init, MemoryInv
<1>2. MemoryInv => ValuesSurvive
  <2> SUFFICES ASSUME MemoryInv, NEW k \in DOMAIN elmt, ~elmt[k].null
               PROVE  LET t == column[((k - 1) % nbCol) + 1]
                          n == DataBytes(t, elmt[k].len)
                      IN  /\ Holds(elmt[k].pValue, 0, StructSize(t), k)
                          /\ t \in Varying /\ n > 0 => Holds(elmt[k].data, 0, n, k)
                          /\ t = "VK_STRING" => Holds(elmt[k].data, n, 2, NUL)
    BY DEF ValuesSurvive
  <2>1. ValueIsKept(elmt[k], column[((k - 1) % nbCol) + 1], k)
    BY DEF MemoryInv, TypeAt
  <2> QED
    BY <2>1 DEF ValueIsKept
<1> QED
  BY <1>1, <1>2, MemoryStep, InvariantHolds, StreamInvariantHolds, PTL DEF Spec

=============================================================================

------------------------------- MODULE RowData -------------------------------
(***************************************************************************)
(* socket_receiv_data (src/lib4d_sql/communication.c): the rows of a page, *)
(* read from the connection field by field.  An updateable row begins with *)
(* a status and perhaps a row id; a cell is a status and, if it is not     *)
(* NULL, a value in the format of its column's type.  Values are put into  *)
(* the result's arena.                                                     *)
(*                                                                         *)
(* The server writes fields, each of so many bytes; buf_recv, which        *)
(* BufferedReader shows to return just the bytes it is asked for, finds    *)
(* the next field whole if it asks for that many.  What the server writes  *)
(* follows the format, but a status or a length in it may be wrong.        *)
(***************************************************************************)
EXTENDS Arena, Formats, FiniteSets

CONSTANTS Schemas,        \* column types of the results
          RowNumbers,     \* how many rows a page may have
          Lengths,        \* lengths of variable data, in bytes or UTF-16 units
          MaxLength,      \* FOURD_MAX_STRING_CHARS, _BLOB_BYTES, _FLOAT_BYTES
          IntMin,         \* INT32_MIN
          Codes           \* the error codes a server may put into a row

ASSUME PagesAssumption == Schemas \subseteq Seq(STRING) /\ RowNumbers \subseteq Nat
ASSUME LengthsAssumption ==
    /\ Codes \subseteq Int /\ MaxLength \in Nat /\ IntMin \in Int /\ IntMin < -MaxLength
    /\ Lengths \subseteq 0 .. MaxLength

VARIABLES column,         \* state->row_type.Column: the columns' types
          nbRow,          \* state->row_count_sent
          updateability,  \* state->updateability
          sent,           \* history: the cells the server has written
          begun,          \* history: the rows whose status it has written
          wire,           \* the fields written and not yet read
          pc,             \* what is read next
          elmt,           \* state->elmt, as far as it is filled
          len,            \* data_length
          memory,         \* what each byte of the arena holds
          error_code,     \* state->error_code
          ret             \* how socket_receiv_data ended

page == <<column, nbRow, updateability>>
server == <<sent, begun>>
vars == <<page, server, wire, pc, elmt, len, memory, error_code, ret, arenaVars>>

nbCol == Len(column)

-----------------------------------------------------------------------------
(* The server                                                              *)

WrongLengths(t) ==
    IF t = "VK_STRING" THEN {1, -(MaxLength + 1), IntMin} ELSE {-1, MaxLength + 1}

(* A cell: its status and, for a varying type, the length it announces, or *)
(* the code of the server's error.                                         *)
Cells(t) ==
    [status : {"0", "bad"}, len : {0}] \union [status : {"2"}, len : Codes]
    \union [status : {"1"},
            len : IF t \in Varying
                  THEN {Written(t, n) : n \in Lengths} \union WrongLengths(t) ELSE {0}]

(* Cell k of the page on the wire.                                         *)
CellFields(t, cell, k) ==
    <<Field(1, cell.status)>> \o
        CASE cell.status = "1" /\ t \in Known -> ValueFields(t, cell.len, k, k)
          [] cell.status = "2" -> <<Field(8, cell.len)>>
          [] OTHER -> <<>>

RowFields(status, code) ==
    <<Field(1, status)>> \o
        CASE status = "1" -> <<Field(4, "row_id")>>
          [] status = "2" -> <<Field(8, code)>>
          [] OTHER -> <<>>

OwesStatus == updateability /\ nbCol > 0 /\ Len(sent) = begun * nbCol

(* The server writes on when the client has read what there was: reading   *)
(* less far behind changes nothing, since the stream keeps its order.      *)
SendRowStatus ==
    /\ wire = <<>> /\ ret = "none"
    /\ OwesStatus /\ begun < nbRow
    /\ \E status \in {"0", "1", "2", "bad"}, code \in Codes : wire' = RowFields(status, code)
    /\ begun' = begun + 1
    /\ UNCHANGED <<page, sent, pc, elmt, len, memory, error_code, ret, arenaVars>>

SendCell ==
    /\ wire = <<>> /\ ret = "none"
    /\ ~OwesStatus /\ Len(sent) < nbRow * nbCol
    /\ LET t == column[(Len(sent) % nbCol) + 1]
       IN  \E cell \in Cells(t) :
              /\ wire' = CellFields(t, cell, Len(sent) + 1)
              /\ sent' = Append(sent, cell)
    /\ UNCHANGED <<page, begun, pc, elmt, len, memory, error_code, ret, arenaVars>>

-----------------------------------------------------------------------------
(* The client                                                              *)

Init ==
    /\ column \in Schemas /\ nbRow \in RowNumbers /\ updateability \in BOOLEAN
    /\ sent = <<>> /\ begun = 0 /\ wire = <<>>
    /\ pc = "start" /\ elmt = <<>> /\ len = 0 /\ memory = <<>>
    /\ error_code = 0 /\ ret = "none"
    /\ ArenaInit

Type == column[(Len(elmt) % nbCol) + 1]

(* The sizes that buf_recv is asked for.                                   *)
Wants ==
    CASE pc \in {"row", "cell"} -> <<1>>
      [] pc = "row_id" -> <<4>>
      [] pc = "error" -> <<8>>
      [] pc = "value" -> Parts(Type)
      [] pc = "data" /\ DataBytes(Type, len) > 0 -> <<DataBytes(Type, len)>>
      [] OTHER -> <<>>

Reads(what) ==
    /\ pc = what
    /\ Len(wire) >= Len(Wants)
    /\ \A i \in 1 .. Len(Wants) : wire[i].n = Wants[i]
    /\ wire' = SubSeq(wire, Len(Wants) + 1, Len(wire))

Return(r) == pc' = "done" /\ ret' = r

(* Where the loops go after k cells: the end, a row or a cell.             *)
LoopsTo(k) ==
    IF k = nbRow * nbCol THEN Return("ok")
    ELSE /\ pc' = IF updateability /\ k % nbCol = 0 THEN "row" ELSE "cell"
         /\ UNCHANGED ret

Begin ==
    /\ pc = "start"
    /\ LoopsTo(0)
    /\ UNCHANGED <<page, server, wire, elmt, len, memory, error_code, arenaVars>>

(* proto_failed, read_failed and oom_failed.                               *)
Fails(r) ==
    /\ Return(r)
    /\ error_code' = -1
    /\ UNCHANGED <<page, server, elmt, len, memory>>

ReadRowStatusSkipsId ==                              \* mutant of ReadRowStatus
    /\ Reads("row")
    /\ wire[1].v \in {"0", "1"}
    /\ pc' = "cell"
    /\ UNCHANGED <<page, server, elmt, len, memory, error_code, ret, arenaVars>>
ReadRowStatus ==
    /\ Reads("row")
    /\ wire[1].v \in {"0", "1", "2"}
    /\ pc' = CASE wire[1].v = "0" -> "cell" [] wire[1].v = "1" -> "row_id"
               [] OTHER -> "error"
    /\ UNCHANGED <<page, server, elmt, len, memory, error_code, ret, arenaVars>>

ReadRowId ==
    /\ Reads("row_id")
    /\ pc' = "cell"
    /\ UNCHANGED <<page, server, elmt, len, memory, error_code, ret, arenaVars>>

UnknownStatus ==
    /\ Reads("row") \/ Reads("cell")
    /\ wire[1].v = "bad"
    /\ Fails("malformed")
    /\ UNCHANGED arenaVars

(* The server's error code is read, or not: buf_recv's answer is ignored.  *)
(* proto_failed makes -1 of a code of 0.                                   *)
ReadErrorCodeAsIs ==                                 \* mutant of ReadErrorCode
    /\ Reads("error")
    /\ Return("server error")
    /\ error_code' = wire[1].v
    /\ UNCHANGED <<page, server, elmt, len, memory, arenaVars>>
ReadErrorCode ==
    /\ pc = "error"
    /\ \/ /\ Reads("error")
          /\ error_code' = IF wire[1].v = 0 THEN -1 ELSE wire[1].v
       \/ /\ error_code' = -1
          /\ UNCHANGED wire
    /\ Return("server error")
    /\ UNCHANGED <<page, server, elmt, len, memory, arenaVars>>

(* The element that is complete is appended; the loop goes on.             *)
Fill(element) ==
    /\ elmt' = Append(elmt, element)
    /\ LoopsTo(Len(elmt) + 1)
    /\ UNCHANGED <<page, server, len, error_code>>

Null == [null |-> TRUE, len |-> 0, pValue |-> 0, data |-> 0]

ReadCellStatus ==
    /\ Reads("cell")
    /\ \/ wire[1].v = "0" /\ Fill(Null)
       \/ /\ wire[1].v = "2"
          /\ pc' = "error"
          /\ UNCHANGED <<page, server, elmt, len, error_code, ret>>
       \/ /\ wire[1].v = "1" /\ Type \in Known
          /\ pc' = "value"
          /\ UNCHANGED <<page, server, elmt, len, error_code, ret>>
    /\ UNCHANGED <<memory, arenaVars>>

UnknownType ==
    /\ Reads("cell")
    /\ wire[1].v = "1" /\ Type \notin Known
    /\ Fails("malformed")
    /\ UNCHANGED arenaVars

(* n bytes from offset `from` of block b come to hold v.                   *)
Store(m, b, from, n, v) ==
    LET bytes == {<<b.chunk, b.at + from + i>> : i \in 0 .. n - 1}
    IN  [x \in DOMAIN m \union bytes |-> IF x \in bytes THEN v ELSE m[x]]

(* What the code makes of a length, and the lengths it accepts.            *)
Length(t, raw) == IF t = "VK_STRING" /\ raw # IntMin THEN -raw ELSE raw
AcceptsNegated(t, raw) == Length(t, raw) <= MaxLength           \* mutant of Accepts
AcceptsAnyLength(t, raw) == Length(t, raw) >= 0                 \* mutant of Accepts
Accepts(t, raw) ==
    /\ t = "VK_STRING" => raw <= 0 /\ raw # IntMin
    /\ Length(t, raw) \in 0 .. MaxLength

LastPart == wire[Len(Wants)].v
NUL == 0

ReadFixed ==
    /\ pc = "value" /\ Type \notin Varying /\ Reads("value")
    /\ Alloc(StructSize(Type))
    /\ LET b == Place(StructSize(Type))
       IN  /\ Fill([null |-> FALSE, len |-> 0, pValue |-> b, data |-> 0])
           /\ memory' = Store(memory, b, 0, StructSize(Type), LastPart)

(* A varying value's structure: without data, the value is complete, and   *)
(* an empty BLOB is NULL.  A string has data even so, its final NULs.      *)
ReadStruct ==
    /\ pc = "value" /\ Type \in Varying /\ Reads("value")
    /\ Accepts(Type, LastPart)
    /\ Alloc(StructSize(Type))
    /\ LET b == Place(StructSize(Type))
           n == Length(Type, LastPart)
           value == [null |-> Type \in Binary, len |-> n, pValue |-> b, data |-> 0]
       IN  /\ memory' = Store(memory, b, 0, StructSize(Type), Len(elmt) + 1)
           /\ IF n = 0 /\ Type # "VK_STRING"
              THEN Fill(value)
              ELSE /\ len' = n
                   /\ pc' = "data"
                   /\ UNCHANGED <<page, server, elmt, error_code, ret>>

WrongLength ==
    /\ pc = "value" /\ Type \in Varying /\ Reads("value")
    /\ ~Accepts(Type, LastPart)
    /\ Alloc(StructSize(Type))
    /\ Fails("malformed")

(* The data of the value whose structure is the newest block.              *)
ReadData ==
    /\ Reads("data")
    /\ Alloc(DataSize(Type, len))
    /\ LET n == DataBytes(Type, len)
           b == Place(DataSize(Type, len))
           data == IF n = 0 THEN memory ELSE Store(memory, b, 0, n, wire[1].v)
       IN  /\ Fill([null |-> FALSE, len |-> len, pValue |-> blocks[Len(blocks)], data |-> b])
           /\ memory' = IF Type = "VK_STRING" THEN Store(data, b, n, 2, NUL) ELSE data

(* buf_recv asks for another number of bytes than the next field has.      *)
OutOfStep == \E i \in 1 .. Len(Wants) : i <= Len(wire) /\ wire[i].n # Wants[i]

(* The block that the bytes were to go into has been cut off by then.      *)
ReadFails ==
    /\ pc \in {"row", "row_id", "cell", "value", "data"} /\ Wants # <<>>
    /\ Fails(IF OutOfStep THEN "garbled" ELSE "lost")
    /\ CASE pc = "value" -> Alloc(StructSize(Type))
         [] pc = "data" -> Alloc(DataSize(Type, len))
         [] OTHER -> UNCHANGED arenaVars
    /\ UNCHANGED wire

NoMemory ==
    /\ pc \in {"start", "value", "data"} /\ nbRow * nbCol > 0
    /\ Fails("no memory")
    /\ UNCHANGED <<wire, arenaVars>>

Next ==
    \/ SendRowStatus \/ SendCell
    \/ Begin \/ ReadRowStatus \/ ReadRowId \/ UnknownStatus \/ ReadErrorCode
    \/ ReadCellStatus \/ UnknownType \/ ReadFixed \/ ReadStruct \/ WrongLength
    \/ ReadData \/ ReadFails \/ NoMemory

Spec == Init /\ [][Next]_vars

-----------------------------------------------------------------------------
TypeOK ==
    /\ Len(elmt) <= nbRow * nbCol /\ Len(sent) <= nbRow * nbCol /\ begun \in 0 .. nbRow
    /\ pc \in {"start", "row", "row_id", "cell", "error", "value", "data", "done"}
    /\ error_code \in {0, -1} \union Codes /\ len \in 0 .. MaxLength
    /\ ret \in {"none", "ok", "malformed", "server error", "lost", "garbled", "no memory"}
    /\ pc = "done" <=> ret # "none"

(* The client asks for just the bytes that come next, waits for none when  *)
(* the server has sent them all, and when it is done it has read all that  *)
(* was sent of this page: the next response begins where it stopped.       *)
StaysInStep ==
    /\ ret # "garbled"
    /\ Len(sent) = nbRow * nbCol /\ wire = <<>> => Wants = <<>>
    /\ ret = "ok" => /\ Len(elmt) = nbRow * nbCol /\ Len(sent) = Len(elmt)
                     /\ updateability /\ nbCol > 0 => begun = nbRow
                     /\ wire = <<>>

(* What the table holds of a cell is what the server sent: its NULL, its   *)
(* length, and nothing that breaks the format (README, "string/BLOB/FLOAT  *)
(* lengths are bounds-checked").  An empty BLOB is NULL.                   *)
CellsArriveAsSent ==
    \A k \in DOMAIN elmt :
        LET t == column[((k - 1) % nbCol) + 1]
        IN  /\ k <= Len(sent) /\ sent[k].status \in {"0", "1"}
            /\ elmt[k].null <=> sent[k].status = "0" \/ (t \in Binary /\ sent[k].len = 0)
            /\ ~elmt[k].null => /\ t \in Known
                                /\ elmt[k].len \in Lengths \union {0}
                                /\ Written(t, elmt[k].len) = sent[k].len

(* The bytes of a value, a string's final NULs included, are not written   *)
(* over by a later one.                                                    *)
Holds(b, from, n, v) ==
    \A i \in from .. from + n - 1 :
        <<b.chunk, b.at + i>> \in DOMAIN memory /\ memory[<<b.chunk, b.at + i>>] = v

ValuesSurvive ==
    \A k \in DOMAIN elmt : ~elmt[k].null =>
        LET t == column[((k - 1) % nbCol) + 1]
            n == DataBytes(t, elmt[k].len)
        IN  /\ Holds(elmt[k].pValue, 0, StructSize(t), k)
            /\ t \in Varying /\ n > 0 => Holds(elmt[k].data, 0, n, k)
            /\ t = "VK_STRING" => Holds(elmt[k].data, n, 2, NUL)

(* A page that is not whole is never taken for one, and its failure leaves *)
(* an error code, for fetchone asks for nothing else.                      *)
FailureHasCode == ret \notin {"none", "ok"} <=> error_code # 0

=============================================================================

----------------------------- MODULE ByteStream -----------------------------
(***************************************************************************)
(* What lib4d_sql's reader promises its callers: a connection is one       *)
(* stream of bytes, and each call takes the next stretch of it, either a   *)
(* fixed number of bytes (buf_recv) or a response header up to and         *)
(* including its blank line (socket_receiv_header), whatever sizes recv()  *)
(* hands the bytes over in.  A call that fails has used up no byte beyond  *)
(* those it was asked for.  BufferedReader is shown to implement this.     *)
(***************************************************************************)
EXTENDS Integers, Sequences

CONSTANTS CR, LF,         \* the two bytes of a line end
          Streams,        \* the byte sequences a server may send
          ReadLengths,    \* the lengths callers ask buf_recv for
          MaxHeader       \* FOURD_MAX_HEADER_SIZE

VARIABLES stream,         \* what the server sends on this connection
          pos,            \* bytes of it that calls have used up
          call,           \* the call in progress: "idle", "read" or "header"
          len,            \* the length asked for by a "read"
          answer,         \* what the last call that succeeded returned
          outcome         \* "none" while a call runs, then "ok" or "failed"

vars == <<stream, pos, call, len, answer, outcome>>

(* The header's blank line ends at byte i of the stream, and lies past     *)
(* byte `from`.                                                            *)
BlankLineEndsAt(from, i) ==
    /\ i \in from + 4 .. Len(stream)
    /\ stream[i - 3] = CR /\ stream[i - 2] = LF
    /\ stream[i - 1] = CR /\ stream[i] = LF

NoBlankLineThrough(from, i) == \A j \in from + 1 .. i : ~BlankLineEndsAt(from, j)

Init ==
    /\ stream \in Streams
    /\ pos = 0
    /\ call = "idle"
    /\ len = 0
    /\ answer = <<>>
    /\ outcome = "none"

Ask(c, n) ==
    /\ call = "idle"
    /\ call' = c
    /\ len' = n
    /\ answer' = <<>>
    /\ outcome' = "none"
    /\ UNCHANGED <<stream, pos>>

AskRead == \E n \in ReadLengths : Ask("read", n)
AskHeader == Ask("header", 0)

(* The call ends having used the stream up to byte i.                      *)
Use(i, how) ==
    /\ pos' = i
    /\ call' = "idle"
    /\ outcome' = how
    /\ UNCHANGED <<stream, len>>

AnswerRead ==
    /\ call = "read"
    /\ pos + len <= Len(stream)
    /\ answer' = SubSeq(stream, pos + 1, pos + len)
    /\ Use(pos + len, "ok")

AnswerHeader ==
    /\ call = "header"
    /\ \E i \in pos + 4 .. Len(stream) :
          /\ i - pos < MaxHeader
          /\ BlankLineEndsAt(pos, i)
          /\ NoBlankLineThrough(pos, i - 1)
          /\ answer' = SubSeq(stream, pos + 1, i)
          /\ Use(i, "ok")

FailRead ==
    /\ call = "read"
    /\ \E i \in pos .. Len(stream) :
          /\ i < pos + len
          /\ Use(i, "failed")
    /\ answer' = <<>>

FailHeader ==
    /\ call = "header"
    /\ \E i \in pos .. Len(stream) :
          /\ i - pos < MaxHeader
          /\ NoBlankLineThrough(pos, i)
          /\ Use(i, "failed")
    /\ answer' = <<>>

Next == AskRead \/ AskHeader \/ AnswerRead \/ AnswerHeader \/ FailRead \/ FailHeader

Spec == Init /\ [][Next]_vars

=============================================================================

--------------------------- MODULE BufferedReader ---------------------------
(***************************************************************************)
(* The read side of a connection, src/lib4d_sql/communication.c: recv()    *)
(* fills the connection's buffer rbuf; buf_recv copies from it exactly the *)
(* bytes it is asked for, and receives a long read straight into the       *)
(* caller's memory once the buffer is drained; socket_receiv_header takes  *)
(* one byte at a time up to the blank line that ends a response header and *)
(* leaves the body's first bytes in the buffer.                            *)
(*                                                                         *)
(* recv() returns any number of the bytes that are still to come, or fails *)
(* (the peer closed, a reset, a signal: the code treats r <= 0 alike and   *)
(* marks nothing, so that a later call may read on).                       *)
(***************************************************************************)
EXTENDS Integers, Sequences

CONSTANTS Byte, CR, LF,
          Streams,        \* the byte sequences a server may send
          ReadLengths,    \* the lengths callers ask buf_recv for
          RbufSize,       \* cnx->rbuf_size
          MaxChunk,       \* the longest single recv of a direct read
          HeaderSize,     \* the header's first allocation
          MaxHeader       \* FOURD_MAX_HEADER_SIZE

ASSUME BytesAssumption ==
    /\ CR \in Byte /\ LF \in Byte /\ CR # LF
    /\ Streams \subseteq Seq(Byte)
    /\ ReadLengths \subseteq Nat

ASSUME SizesAssumption ==
    /\ RbufSize \in Nat \ {0}
    /\ MaxChunk \in Nat \ {0}
    /\ HeaderSize \in Nat \ {0}
    /\ MaxHeader \in Nat

(* S holds the sizes that doubling HeaderSize goes through, up to MaxHeader. *)
IsDoublingTo(S) ==
    /\ HeaderSize \in S
    /\ \A s \in S : s <= MaxHeader /\ (s < MaxHeader => 2 * s \in S)

(* 4096 doubled eight times is FOURD_MAX_HEADER_SIZE, 1 << 20.               *)
ASSUME DoublingAssumption == \E S \in SUBSET (1 .. MaxHeader) : IsDoublingTo(S)

VARIABLES stream,         \* what the server sends on this connection
          taken,          \* bytes of it recv() has returned so far
          rbuf,           \* the valid bytes of cnx->rbuf (its Len is rbuf_len)
          rbuf_pos,       \* bytes of rbuf already handed out
          call,           \* "idle", "read" (buf_recv) or "header"
          len,            \* buf_recv's len
          out,            \* dst or hdr: the bytes the call has written
          size,           \* socket_receiv_header's allocation, 0 before it
          outcome,        \* "none" while a call runs, then "ok" or "failed"
          start           \* history: bytes used up when the call began

vars == <<stream, taken, rbuf, rbuf_pos, call, len, out, size, outcome, start>>

Avail == Len(rbuf) - rbuf_pos
Consumed == taken - Avail
ToCome == Len(stream) - taken

MinOf(a, b) == IF a < b THEN a ELSE b

EndsLine(s) ==                                           \* mutant of EndsHeader
    Len(s) >= 2 /\ s[Len(s) - 1] = CR /\ s[Len(s)] = LF
EndsHeader(s) ==
    /\ Len(s) >= 4
    /\ s[Len(s) - 3] = CR /\ s[Len(s) - 2] = LF
    /\ s[Len(s) - 1] = CR /\ s[Len(s)] = LF

Init ==
    /\ stream \in Streams
    /\ taken = 0
    /\ rbuf = <<>>
    /\ rbuf_pos = 0
    /\ call = "idle"
    /\ len = 0
    /\ out = <<>>
    /\ size = 0
    /\ outcome = "none"
    /\ start = 0

BeginOnEmptyBuffer(c, n) ==                                   \* mutant of Begin
    /\ call = "idle"
    /\ call' = c
    /\ len' = n
    /\ size' = 0
    /\ out' = <<>>
    /\ outcome' = "none"
    /\ rbuf' = <<>> /\ rbuf_pos' = 0
    /\ start' = taken
    /\ UNCHANGED <<stream, taken>>
Begin(c, n) ==
    /\ call = "idle"
    /\ call' = c
    /\ len' = n
    /\ size' = 0
    /\ out' = <<>>
    /\ outcome' = "none"
    /\ start' = Consumed
    /\ UNCHANGED <<stream, taken, rbuf, rbuf_pos>>

BeginRead == \E n \in ReadLengths : Begin("read", n)
BeginHeader == Begin("header", 0)

Return(how) ==
    /\ call' = "idle"
    /\ outcome' = how

(* rbuf_fill: recv() up to a buffer's worth.                               *)
FillKeepsPosition ==                                           \* mutant of Fill
    \E k \in 1 .. MinOf(RbufSize, ToCome) :
       /\ rbuf' = SubSeq(stream, taken + 1, taken + k)
       /\ taken' = taken + k
       /\ rbuf_pos' = rbuf_pos
FillWaitsForAll ==                                             \* mutant of Fill
    /\ ToCome >= RbufSize
    /\ rbuf' = SubSeq(stream, taken + 1, taken + RbufSize)
    /\ taken' = taken + RbufSize
    /\ rbuf_pos' = 0
Fill ==
    \E k \in 1 .. MinOf(RbufSize, ToCome) :
       /\ rbuf' = SubSeq(stream, taken + 1, taken + k)
       /\ taken' = taken + k
       /\ rbuf_pos' = 0

(* rbuf_fill on a recv() that fails empties the buffer.                    *)
FillFails ==
    /\ rbuf' = <<>>
    /\ rbuf_pos' = 0
    /\ Return("failed")
    /\ UNCHANGED <<stream, taken, len, out, size, start>>

NeedsMoreUndrained == call = "read" /\ Len(out) < len      \* mutant of NeedsMore
NeedsMore == call = "read" /\ Len(out) < len /\ Avail = 0

Copy ==
    /\ call = "read"
    /\ Len(out) < len
    /\ Avail > 0
    /\ LET take == MinOf(Avail, len - Len(out))
       IN  /\ out' = out \o SubSeq(rbuf, rbuf_pos + 1, rbuf_pos + take)
           /\ rbuf_pos' = rbuf_pos + take
    /\ UNCHANGED <<stream, taken, rbuf, call, len, size, outcome, start>>

ReadFill ==
    /\ NeedsMore
    /\ len - Len(out) < RbufSize
    /\ Fill
    /\ UNCHANGED <<stream, call, len, out, size, outcome, start>>

ReadDirect ==
    /\ NeedsMore
    /\ len - Len(out) >= RbufSize
    /\ \E k \in 1 .. MinOf(MinOf(len - Len(out), MaxChunk), ToCome) :
          /\ out' = out \o SubSeq(stream, taken + 1, taken + k)
          /\ taken' = taken + k
    /\ UNCHANGED <<stream, rbuf, rbuf_pos, call, len, size, outcome, start>>

ReadFillFails ==
    /\ NeedsMore
    /\ len - Len(out) < RbufSize
    /\ FillFails

ReadDirectFails ==
    /\ NeedsMore
    /\ len - Len(out) >= RbufSize
    /\ Return("failed")
    /\ UNCHANGED <<stream, taken, rbuf, rbuf_pos, len, out, size, start>>

ReadReturns ==
    /\ call = "read"
    /\ Len(out) = len
    /\ Return("ok")
    /\ UNCHANGED <<stream, taken, rbuf, rbuf_pos, len, out, size, start>>

HeaderMalloc ==
    /\ call = "header"
    /\ size = 0
    /\ size' = HeaderSize
    /\ UNCHANGED <<stream, taken, rbuf, rbuf_pos, call, len, out, outcome, start>>

HeaderFill ==
    /\ call = "header"
    /\ size > 0
    /\ Avail = 0
    /\ Fill
    /\ UNCHANGED <<stream, call, len, out, size, outcome, start>>

HeaderFillFails ==
    /\ call = "header"
    /\ size > 0
    /\ Avail = 0
    /\ FillFails

IsFullWithoutNul == Len(out) + 1 > size                      \* mutant of IsFull
IsFull == Len(out) + 2 > size

(* One turn of the loop with a byte at hand: grow the allocation when the  *)
(* byte and the final NUL no longer fit, store the byte, stop at the blank *)
(* line.                                                                   *)
HeaderByte ==
    /\ call = "header"
    /\ size > 0
    /\ Avail > 0
    /\ IsFull => size < MaxHeader
    /\ size' = IF IsFull THEN 2 * size ELSE size
    /\ out' = Append(out, rbuf[rbuf_pos + 1])
    /\ rbuf_pos' = rbuf_pos + 1
    /\ IF EndsHeader(out') THEN Return("ok") ELSE UNCHANGED <<call, outcome>>
    /\ UNCHANGED <<stream, taken, rbuf, len, start>>

(* The header outgrows FOURD_MAX_HEADER_SIZE.                              *)
HeaderTooLong ==
    /\ call = "header"
    /\ size = MaxHeader /\ Avail > 0 /\ IsFull
    /\ Return("failed")
    /\ UNCHANGED <<stream, taken, rbuf, rbuf_pos, len, out, size, start>>

(* malloc or realloc finds no memory.                                      *)
HeaderNoMemory ==
    /\ call = "header"
    /\ size = 0 \/ (size < MaxHeader /\ Avail > 0 /\ IsFull)
    /\ Return("failed")
    /\ UNCHANGED <<stream, taken, rbuf, rbuf_pos, len, out, size, start>>

ReaderStep == Copy \/ ReadFill \/ ReadDirect \/ ReadReturns
              \/ HeaderMalloc \/ HeaderFill \/ HeaderByte \/ HeaderTooLong
Failure == ReadFillFails \/ ReadDirectFails \/ HeaderFillFails \/ HeaderNoMemory

Next == BeginRead \/ BeginHeader \/ ReaderStep \/ Failure

Spec == Init /\ [][Next]_vars

(* The calling thread runs on, and recv() hands over the bytes that have   *)
(* arrived or reports that the peer is gone.                               *)
FairSpec == Spec /\ WF_vars(ReaderStep)

-----------------------------------------------------------------------------
TypeOK ==
    /\ stream \in Streams
    /\ taken \in 0 .. Len(stream)
    /\ rbuf \in Seq(Byte) /\ Len(rbuf) <= RbufSize
    /\ rbuf_pos \in 0 .. Len(rbuf)
    /\ call \in {"idle", "read", "header"}
    /\ len \in Nat
    /\ out \in Seq(Byte)
    /\ size \in 0 .. MaxHeader
    /\ outcome \in {"none", "ok", "failed"}
    /\ start \in 0 .. Len(stream)

(* s is what the stream carries right after byte `from`.                   *)
IsSegment(s, from) ==
    /\ from + Len(s) <= Len(stream)
    /\ \A i \in 1 .. Len(s) : s[i] = stream[from + i]

(* The bytes a call has written are the stream's next ones: none lost, none*)
(* repeated, none out of order, whether they came through rbuf or by a     *)
(* direct recv behind it (buf_recv's two paths).                           *)
ExactSegment ==
    IsSegment(out, start) /\ (call # "idle" => Consumed = start + Len(out))

(* A header is cut at the first blank line: no shorter prefix of what has  *)
(* been read ends in one, so that the body's first byte is left unread.    *)
BlankLineAt(s, k) ==
    /\ k \in 4 .. Len(s)
    /\ s[k - 3] = CR /\ s[k - 2] = LF /\ s[k - 1] = CR /\ s[k] = LF

FirstBlankLine ==
    call = "header" \/ (outcome = "ok" /\ size > 0) =>
        /\ \A k \in 1 .. Len(out) - 1 : ~BlankLineAt(out, k)
        /\ BlankLineAt(out, Len(out)) <=> call = "idle"

(* hdr[len] = 0 stays within the allocation, whatever the header's length. *)
TerminatingNulFits == size > 0 => Len(out) < size

(* A read or a header whose bytes the server sent returns: recv() is never *)
(* waited for once the call has what it needs (the hang that               *)
(* tests/test_integration.py guards against).                              *)
HeaderWithin(from) ==
    \E i \in from + 4 .. Len(stream) : BlankLineAt(stream, i)

Answerable ==
    \/ call = "read" /\ start + len <= Len(stream)
    \/ call = "header" /\ HeaderWithin(start)

SentBytesAreReturned == Answerable ~> call = "idle"

(* Every call takes the stream's next stretch, as ByteStream says.         *)
Service == INSTANCE ByteStream WITH
    pos <- IF call = "idle" THEN Consumed ELSE start,
    answer <- IF outcome = "ok" THEN out ELSE <<>>

ImplementsByteStream == Service!Spec

=============================================================================

------------------------ MODULE BufferedReader_proofs ------------------------
(***************************************************************************)
(* The reader is right for every stream, every buffer and header size and  *)
(* every way recv() cuts the bytes: the inductive invariant of             *)
(* BufferedReader, and its refinement of ByteStream.                       *)
(***************************************************************************)
EXTENDS BufferedReader, SequenceTheorems, TLAPS

(* The bytes of rbuf not yet handed out are the stream's next ones.        *)
Window ==
    /\ Avail <= taken
    /\ \A i \in rbuf_pos + 1 .. Len(rbuf) : rbuf[i] = stream[taken - Len(rbuf) + i]

(* The sizes socket_receiv_header's allocation goes through.               *)
AllocSizes == CHOOSE S \in SUBSET (1 .. MaxHeader) : IsDoublingTo(S)

SizeIsReachable == size = 0 \/ size \in AllocSizes

HeaderNotYetRead == call = "header" /\ size = 0 => out = <<>>

(* A read allocates nothing and has written no more than it was asked for. *)
WithinLen == call = "read" => size = 0 /\ Len(out) <= len

IInv ==
    /\ TypeOK /\ Window /\ ExactSegment
    /\ SizeIsReachable /\ HeaderNotYetRead /\ WithinLen
    /\ TerminatingNulFits

LEMMA AllocSizesType ==
    /\ AllocSizes \in SUBSET (1 .. MaxHeader)
    /\ IsDoublingTo(AllocSizes)
BY DoublingAssumption DEF AllocSizes

LEMMA StreamsAreSequences ==
    ASSUME TypeOK
    PROVE  stream \in Seq(Byte) /\ Len(stream) \in Nat /\ Len(rbuf) \in Nat /\ Len(out) \in Nat
BY BytesAssumption, LenProperties DEF TypeOK

(* A stretch of the stream, followed by the stretch after it.              *)
LEMMA SegmentsJoin ==
    ASSUME NEW s \in Seq(Byte), NEW t \in Seq(Byte), NEW from \in Nat,
           stream \in Seq(Byte),
           IsSegment(s, from), IsSegment(t, from + Len(s))
    PROVE  s \o t \in Seq(Byte) /\ Len(s \o t) = Len(s) + Len(t) /\ IsSegment(s \o t, from)
<1>1. s \o t \in Seq(Byte) /\ Len(s \o t) = Len(s) + Len(t)
  BY ConcatProperties
<1>2. ASSUME NEW i \in 1 .. Len(s) + Len(t) PROVE (s \o t)[i] = stream[from + i]
  <2>1. CASE i <= Len(s)
    BY <2>1, ConcatProperties, LenProperties DEF IsSegment
  <2>2. CASE i > Len(s)
    <3>1. i - Len(s) \in 1 .. Len(t)
      BY <2>2, LenProperties
    <3>2. (s \o t)[i] = t[i - Len(s)]
      BY <2>2, ConcatProperties, LenProperties
    <3> QED BY <3>1, <3>2, LenProperties DEF IsSegment
  <2> QED BY <2>1, <2>2, LenProperties
<1> QED BY <1>1, <1>2, LenProperties DEF IsSegment

(* What is cut out of the stream is a stretch of it.                       *)
LEMMA CutIsSegment ==
    ASSUME stream \in Seq(Byte), NEW from \in Nat, NEW k \in Nat, from + k <= Len(stream)
    PROVE  LET s == SubSeq(stream, from + 1, from + k)
           IN  s \in Seq(Byte) /\ Len(s) = k /\ IsSegment(s, from)
<1> DEFINE s == SubSeq(stream, from + 1, from + k)
<1>1. s \in Seq(Byte) /\ Len(s) = k
  BY LenProperties, SubSeqProperties
<1>2. \A i \in 1 .. k : s[i] = stream[from + i]
  BY SubSeqProperties, LenProperties
<1> QED BY <1>1, <1>2 DEF IsSegment

(* So is what is cut out of a buffer whose bytes past p are the stream's.  *)
LEMMA CutOfBufferIsSegment ==
    ASSUME NEW r \in Seq(Byte), NEW p \in Nat, NEW k \in Nat, p + k <= Len(r),
           NEW from \in Nat, from + k <= Len(stream),
           \A i \in 1 .. k : r[p + i] = stream[from + i]
    PROVE  LET s == SubSeq(r, p + 1, p + k)
           IN  s \in Seq(Byte) /\ Len(s) = k /\ IsSegment(s, from)
<1> DEFINE s == SubSeq(r, p + 1, p + k)
<1>1. s \in Seq(Byte) /\ Len(s) = k
  BY LenProperties, SubSeqProperties
<1>2. \A i \in 1 .. k : s[i] = r[p + i]
  BY SubSeqProperties, LenProperties
<1> QED BY <1>1, <1>2 DEF IsSegment

(* The initial states satisfy the invariant.                               *)
LEMMA InitHolds == Init => IInv
<1> SUFFICES ASSUME Init PROVE IInv
  OBVIOUS
<1>1. TypeOK
  BY BytesAssumption, SizesAssumption, LenProperties, EmptySeq DEF Init, TypeOK
<1>2. Window /\ ExactSegment
  BY <1>1, StreamsAreSequences, EmptySeq
     DEF Init, Window, ExactSegment, IsSegment, Consumed, Avail
<1> QED
  BY <1>1, <1>2 DEF Init, IInv, SizeIsReachable, HeaderNotYetRead, WithinLen, TerminatingNulFits

(* recv() into the empty buffer keeps the window on the stream.            *)
LEMMA FillHolds ==
    ASSUME IInv, Fill, Avail = 0, UNCHANGED stream
    PROVE  /\ taken' \in 0 .. Len(stream)
           /\ rbuf' \in Seq(Byte) /\ Len(rbuf') \in 1 .. RbufSize
           /\ rbuf_pos' = 0
           /\ Window'
           /\ Consumed' = Consumed
<1>1. PICK k \in 1 .. MinOf(RbufSize, ToCome) :
         /\ rbuf' = SubSeq(stream, taken + 1, taken + k)
         /\ taken' = taken + k
         /\ rbuf_pos' = 0
  BY DEF Fill
<1>2. stream \in Seq(Byte) /\ Len(stream) \in Nat /\ taken \in Nat
  BY StreamsAreSequences DEF IInv, TypeOK
<1>3. k \in Nat /\ k > 0 /\ taken + k <= Len(stream) /\ k <= RbufSize
  BY <1>2, SizesAssumption DEF MinOf, ToCome
<1>4. rbuf' \in Seq(Byte) /\ Len(rbuf') = k /\ IsSegment(rbuf', taken)
  BY <1>1, <1>2, <1>3, CutIsSegment
<1>5. Avail' = k /\ Consumed' = taken
  BY <1>1, <1>2, <1>3, <1>4 DEF Consumed, Avail
<1>6. Window'
  BY <1>1, <1>2, <1>3, <1>4, <1>5 DEF Window, IsSegment
<1>7. Consumed = taken /\ Len(rbuf) \in Nat
  BY <1>2, StreamsAreSequences DEF IInv, Consumed
<1> QED
  BY <1>1, <1>2, <1>3, <1>4, <1>5, <1>6, <1>7

(* Every step preserves the invariant: one step of the proof per action.   *)
LEMMA NextHolds == IInv /\ [Next]_vars => IInv'
<1> SUFFICES ASSUME IInv, [Next]_vars PROVE IInv'
  OBVIOUS
<1> USE DEF IInv
<1>t. /\ stream \in Seq(Byte) /\ Len(stream) \in Nat /\ Len(rbuf) \in Nat /\ Len(out) \in Nat
      /\ taken \in Nat /\ rbuf_pos \in Nat /\ start \in Nat /\ len \in Nat /\ size \in Nat
  BY StreamsAreSequences DEF TypeOK
<1>s. AllocSizes \in SUBSET (1 .. MaxHeader) /\ IsDoublingTo(AllocSizes)
  BY AllocSizesType
<1>1. ASSUME NEW c \in {"read", "header"}, NEW n \in Nat, Begin(c, n) PROVE IInv'
  <2>1. TypeOK'
    BY <1>1, <1>t, EmptySeq, SizesAssumption DEF Begin, TypeOK, Consumed, Avail, Window
  <2>2. Window' /\ ExactSegment'
    BY <1>1, <1>t, EmptySeq DEF Begin, TypeOK, Window, ExactSegment, IsSegment, Consumed, Avail
  <2> QED
    BY <1>1, <1>t, <2>1, <2>2, EmptySeq
       DEF Begin, SizeIsReachable, HeaderNotYetRead, WithinLen, TerminatingNulFits
<1>2. CASE Copy
  <2> DEFINE take == MinOf(Avail, len - Len(out))
             bit == SubSeq(rbuf, rbuf_pos + 1, rbuf_pos + take)
  <2>1. take \in Nat /\ take > 0 /\ rbuf_pos + take <= Len(rbuf) /\ Len(out) + take <= len
    BY <1>2, <1>t DEF Copy, MinOf, Avail, TypeOK
  <2>4. out' = out \o bit /\ rbuf_pos' = rbuf_pos + take
    BY <1>2 DEF Copy
  <2> HIDE DEF take
  <2>2. /\ bit \in Seq(Byte) /\ Len(bit) = take
        /\ IsSegment(bit, Consumed)
    <3>1. ASSUME NEW i \in 1 .. take PROVE rbuf[rbuf_pos + i] = stream[Consumed + i]
      <4>1. rbuf_pos + i \in rbuf_pos + 1 .. Len(rbuf)
        BY <1>t, <2>1
      <4>2. taken - Len(rbuf) + (rbuf_pos + i) = Consumed + i
        BY <1>t, <2>1 DEF Consumed, Avail
      <4> QED BY <4>1, <4>2 DEF Window
    <3>2. Consumed \in Nat /\ Consumed + take <= Len(stream) /\ rbuf \in Seq(Byte)
      BY <1>t, <2>1 DEF Window, TypeOK, Consumed, Avail
    <3> QED BY <1>t, <2>1, <3>1, <3>2, CutOfBufferIsSegment
  <2>3. Consumed = start + Len(out)
    BY <1>2, <1>t DEF Copy, ExactSegment, Consumed, Avail
  <2> HIDE DEF bit
  <2>5. /\ out' \in Seq(Byte) /\ Len(out') = Len(out) + take
        /\ IsSegment(out', start)
    BY <1>t, <2>2, <2>3, <2>4, SegmentsJoin DEF TypeOK, ExactSegment
  <2>c. UNCHANGED <<stream, taken, rbuf, call, len, size, outcome, start>>
    BY <1>2 DEF Copy
  <2>6. TypeOK'
    BY <2>c, <1>t, <2>1, <2>4, <2>5 DEF TypeOK
  <2>7. Avail' = Avail - take /\ Consumed' = Consumed + take
    BY <2>c, <1>t, <2>1, <2>4 DEF Consumed, Avail
  <2>8. Window'
    BY <2>c, <1>t, <2>1, <2>4, <2>7 DEF Window, Avail, Consumed
  <2>9. ExactSegment'
    BY <2>c, <1>t, <2>1, <2>3, <2>5, <2>7 DEF ExactSegment, IsSegment
  <2> QED
    BY <1>2, <2>c, <1>t, <2>1, <2>5, <2>6, <2>8, <2>9
       DEF Copy, SizeIsReachable, HeaderNotYetRead, WithinLen, TerminatingNulFits
<1>3. CASE ReadFill \/ HeaderFill
  <2>1. /\ Fill /\ Avail = 0
        /\ UNCHANGED <<stream, call, len, out, size, outcome, start>>
    BY <1>3 DEF ReadFill, HeaderFill, NeedsMore
  <2>2. /\ taken' \in 0 .. Len(stream)
        /\ rbuf' \in Seq(Byte) /\ Len(rbuf') \in 1 .. RbufSize
        /\ rbuf_pos' = 0
        /\ Window'
        /\ Consumed' = Consumed
    BY <2>1, FillHolds
  <2> QED
    BY <2>1, <2>2, <1>t, SizesAssumption
       DEF TypeOK, ExactSegment, IsSegment,
           SizeIsReachable, HeaderNotYetRead, WithinLen, TerminatingNulFits
<1>4. CASE ReadDirect
  <2>1. PICK k \in 1 .. MinOf(MinOf(len - Len(out), MaxChunk), ToCome) :
           /\ out' = out \o SubSeq(stream, taken + 1, taken + k)
           /\ taken' = taken + k
    BY <1>4 DEF ReadDirect
  <2>2. k \in Nat /\ k > 0 /\ taken + k <= Len(stream) /\ Len(out) + k <= len
    BY <1>t, SizesAssumption DEF MinOf, ToCome
  <2> DEFINE bit == SubSeq(stream, taken + 1, taken + k)
  <2>3. bit \in Seq(Byte) /\ Len(bit) = k /\ IsSegment(bit, taken)
    BY <1>t, <2>2, CutIsSegment
  <2>4. taken = start + Len(out)
    <3>1. call = "read" /\ Avail = 0
      BY <1>4 DEF ReadDirect, NeedsMore
    <3>2. Consumed = start + Len(out)
      BY <3>1 DEF ExactSegment
    <3> QED BY <3>1, <3>2, <1>t DEF Consumed
  <2>5. /\ out' \in Seq(Byte) /\ Len(out') = Len(out) + k
        /\ IsSegment(out', start)
    <3>1. out' = out \o bit /\ out \in Seq(Byte) /\ IsSegment(out, start)
      BY <2>1 DEF TypeOK, ExactSegment
    <3> HIDE DEF bit
    <3> QED BY <1>t, <2>3, <2>4, <3>1, SegmentsJoin
  <2>6. /\ UNCHANGED <<stream, rbuf, rbuf_pos, call, len, size, outcome, start>>
        /\ call = "read" /\ rbuf_pos = Len(rbuf)
    BY <1>4, <1>t DEF ReadDirect, NeedsMore, Avail
  <2> HIDE DEF bit
  <2>7. TypeOK'
    <3>1. taken' \in 0 .. Len(stream) /\ taken' = taken + k
      BY <1>t, <2>1, <2>2
    <3> QED BY <2>5, <2>6, <3>1 DEF TypeOK
  <2>8. Avail' = 0 /\ Avail = 0 /\ Consumed' = taken + k
    BY <1>t, <2>1, <2>2, <2>6 DEF Consumed, Avail
  <2>9. Window'
    BY <1>t, <2>1, <2>2, <2>6, <2>8 DEF Window
  <2>10. ExactSegment'
    BY <1>t, <2>2, <2>4, <2>5, <2>6, <2>8 DEF ExactSegment, IsSegment
  <2> QED
    BY <1>t, <2>2, <2>5, <2>6, <2>7, <2>9, <2>10
       DEF SizeIsReachable, HeaderNotYetRead, WithinLen, TerminatingNulFits
<1>5. CASE ReadFillFails \/ HeaderFillFails
  <2>1. /\ Avail = 0 /\ rbuf' = <<>> /\ rbuf_pos' = 0 /\ call' = "idle"
        /\ outcome' = "failed"
        /\ UNCHANGED <<stream, taken, len, out, size, start>>
    BY <1>5 DEF ReadFillFails, HeaderFillFails, FillFails, Return, NeedsMore
  <2>2. TypeOK' /\ Window'
    BY <2>1, <1>t, EmptySeq, SizesAssumption DEF TypeOK, Window, Avail
  <2> QED
    BY <2>1, <2>2, <1>t DEF ExactSegment, IsSegment, SizeIsReachable, HeaderNotYetRead,
                            WithinLen, TerminatingNulFits
<1>6. CASE ReadDirectFails \/ ReadReturns \/ HeaderTooLong \/ HeaderNoMemory
  <2>1. /\ call' = "idle" /\ outcome' \in {"ok", "failed"}
        /\ UNCHANGED <<stream, taken, rbuf, rbuf_pos, len, out, size, start>>
    BY <1>6 DEF ReadDirectFails, ReadReturns, HeaderTooLong, HeaderNoMemory, Return
  <2> QED
    BY <2>1, <1>t DEF TypeOK, Window, Avail, Consumed, ExactSegment, IsSegment,
                      SizeIsReachable, HeaderNotYetRead, WithinLen, TerminatingNulFits
<1>7. CASE HeaderMalloc
  <2>1. /\ call = "header" /\ size = 0 /\ size' = HeaderSize
        /\ UNCHANGED <<stream, taken, rbuf, rbuf_pos, call, len, out, outcome, start>>
    BY <1>7 DEF HeaderMalloc
  <2>2. out = <<>>
    BY <2>1 DEF HeaderNotYetRead
  <2>3. HeaderSize \in AllocSizes
    BY <1>s DEF IsDoublingTo
  <2> QED
    BY <2>1, <2>2, <2>3, <1>t, <1>s, SizesAssumption, EmptySeq
       DEF TypeOK, Window, Avail, Consumed, ExactSegment, IsSegment,
           SizeIsReachable, HeaderNotYetRead, WithinLen, TerminatingNulFits
<1>8. CASE HeaderByte
  <2>1. /\ call = "header" /\ size > 0 /\ Avail > 0
        /\ IsFull => size < MaxHeader
        /\ size' = IF IsFull THEN 2 * size ELSE size
        /\ out' = Append(out, rbuf[rbuf_pos + 1])
        /\ rbuf_pos' = rbuf_pos + 1
        /\ UNCHANGED <<stream, taken, rbuf, len, start>>
    BY <1>8 DEF HeaderByte
  <2>2. call' \in {"idle", "header"} /\ outcome' \in {"none", "ok", "failed"}
    BY <1>8 DEF HeaderByte, Return, TypeOK
  <2>3. /\ size \in AllocSizes /\ size' \in AllocSizes
        /\ size' \in Nat /\ size' > 0 /\ Len(out) + 1 < size'
    BY <2>1, <1>s, <1>t DEF SizeIsReachable, IsDoublingTo, TerminatingNulFits, IsFull
  <2>4. rbuf[rbuf_pos + 1] \in Byte /\ rbuf_pos + 1 <= Len(rbuf)
    BY <2>1, <1>t, ElementOfSeq DEF TypeOK, Avail
  <2>5. out' \in Seq(Byte) /\ Len(out') = Len(out) + 1
    BY <2>1, <2>4, AppendProperties DEF TypeOK
  <2>6. Consumed' = Consumed + 1 /\ Avail' = Avail - 1 /\ Consumed = start + Len(out)
    BY <2>1, <1>t DEF ExactSegment, Consumed, Avail
  <2>7. rbuf[rbuf_pos + 1] = stream[Consumed + 1]
    BY <2>1, <2>4, <1>t DEF Window, Consumed, Avail
  <2>8. IsSegment(out, start)' /\ Consumed + 1 <= Len(stream)
    <3>1. Consumed + 1 <= Len(stream)
      BY <2>1, <1>t DEF Consumed, Avail, TypeOK
    <3>2. ASSUME NEW i \in 1 .. Len(out) + 1 PROVE out'[i] = stream[start + i]
      <4>1. CASE i <= Len(out)
        <5>1. out'[i] = out[i]
          BY <4>1, <2>1, <2>4, <1>t, AppendProperties DEF TypeOK
        <5> QED BY <4>1, <5>1, <1>t DEF ExactSegment, IsSegment
      <4>2. CASE i = Len(out) + 1
        <5>1. out'[i] = rbuf[rbuf_pos + 1]
          BY <4>2, <2>1, <2>4, AppendProperties DEF TypeOK
        <5> QED BY <4>2, <5>1, <2>6, <2>7, <1>t
      <4> QED BY <4>1, <4>2, <1>t
    <3>3. start + Len(out') <= Len(stream)
      BY <3>1, <2>5, <2>6, <1>t
    <3>4. stream' = stream /\ start' = start
      BY <2>1
    <3>5. \A i \in 1 .. Len(out') : out'[i] = stream[start + i]
      BY <3>2, <2>5
    <3> QED BY <3>1, <3>3, <3>4, <3>5 DEF IsSegment
  <2>9. TypeOK'
    BY <2>1, <2>2, <2>3, <2>4, <2>5, <1>s, <1>t DEF TypeOK
  <2>10. Window'
    <3>1. Avail' <= taken'
      BY <2>1, <2>6, <1>t DEF Window, Avail
    <3>2. ASSUME NEW i \in rbuf_pos + 1 + 1 .. Len(rbuf)
          PROVE  rbuf[i] = stream[taken - Len(rbuf) + i]
      BY <1>t DEF Window
    <3> QED BY <2>1, <3>1, <3>2 DEF Window
  <2>11. ExactSegment'
    BY <2>1, <2>5, <2>6, <2>8, <1>t DEF ExactSegment
  <2>12. SizeIsReachable' /\ HeaderNotYetRead'
    BY <2>1, <2>3 DEF SizeIsReachable, HeaderNotYetRead
  <2>13. WithinLen' /\ TerminatingNulFits'
    BY <2>1, <2>2, <2>3, <2>5 DEF WithinLen, TerminatingNulFits
  <2> QED
    BY <2>9, <2>10, <2>11, <2>12, <2>13
<1>9. CASE UNCHANGED vars
  BY <1>9 DEF vars, TypeOK, Window, Avail, Consumed, ExactSegment, IsSegment,
              SizeIsReachable, HeaderNotYetRead, WithinLen, TerminatingNulFits
<1> QED
  BY <1>1, <1>2, <1>3, <1>4, <1>5, <1>6, <1>7, <1>8, <1>9, BytesAssumption
     DEF Next, BeginRead, BeginHeader, ReaderStep, Failure

(* Spec => []IInv.                                                         *)
THEOREM InvariantHolds == Spec => []IInv
BY InitHolds, NextHolds, PTL DEF Spec

(* The header loop has met no blank line yet; the header it returned ends  *)
(* at the first one.                                                       *)
HeaderInv ==
    /\ call # "idle" => outcome = "none"
    /\ call = "header" => Service!NoBlankLineThrough(start, start + Len(out))
    /\ call = "idle" /\ outcome = "ok" /\ size > 0 =>
          /\ Service!NoBlankLineThrough(start, start + Len(out) - 1)
          /\ Service!BlankLineEndsAt(start, start + Len(out))

(* The bytes written end in a blank line where the stream has one.         *)
LEMMA BlankLineInStream ==
    ASSUME NEW s \in Seq(Byte), NEW from \in Nat, stream \in Seq(Byte), IsSegment(s, from)
    PROVE  EndsHeader(s) <=> Service!BlankLineEndsAt(from, from + Len(s))
<1>1. Len(s) \in Nat /\ Len(stream) \in Nat
  BY LenProperties
<1>2. CASE Len(s) >= 4
  <2>1. /\ s[Len(s) - 3] = stream[from + Len(s) - 3]
        /\ s[Len(s) - 2] = stream[from + Len(s) - 2]
        /\ s[Len(s) - 1] = stream[from + Len(s) - 1]
        /\ s[Len(s)] = stream[from + Len(s)]
    BY <1>1, <1>2 DEF IsSegment
  <2>2. from + Len(s) \in from + 4 .. Len(stream)
    BY <1>1, <1>2 DEF IsSegment
  <2>3. EndsHeader(s) <=> /\ stream[from + Len(s) - 3] = CR
                          /\ stream[from + Len(s) - 2] = LF
                          /\ stream[from + Len(s) - 1] = CR
                          /\ stream[from + Len(s)] = LF
    BY <1>2, <2>1 DEF EndsHeader
  <2> QED BY <2>2, <2>3 DEF Service!BlankLineEndsAt
<1>3. CASE ~(Len(s) >= 4)
  BY <1>1, <1>3 DEF EndsHeader, Service!BlankLineEndsAt
<1> QED BY <1>2, <1>3

(* HeaderByte looks for the blank line after each byte it stores.          *)
LEMMA HeaderByteStep ==
    ASSUME IInv, IInv', HeaderInv, HeaderByte
    PROVE  /\ Len(out') = Len(out) + 1
           /\ Service!NoBlankLineThrough(start, start + Len(out))
           /\ EndsHeader(out') <=> Service!BlankLineEndsAt(start, start + Len(out'))
<1>1. /\ call = "header" /\ Avail > 0
      /\ out' = Append(out, rbuf[rbuf_pos + 1])
      /\ UNCHANGED <<stream, start>>
  BY DEF HeaderByte
<1>2. stream \in Seq(Byte) /\ start \in Nat /\ out' \in Seq(Byte) /\ IsSegment(out', start)
  <2>1. stream \in Seq(Byte) /\ start \in Nat
    BY StreamsAreSequences DEF IInv, TypeOK
  <2>2. out' \in Seq(Byte) /\ IsSegment(out, start)'
    BY DEF IInv, TypeOK, ExactSegment
  <2> QED BY <1>1, <2>1, <2>2 DEF IsSegment
<1>3. rbuf[rbuf_pos + 1] \in Byte
  BY <1>1, ElementOfSeq, LenProperties DEF IInv, TypeOK, Avail
<1>4. Len(out') = Len(out) + 1
  BY <1>1, <1>3, AppendProperties DEF IInv, TypeOK
<1> QED
  BY <1>1, <1>2, <1>4, BlankLineInStream DEF HeaderInv

LEMMA HeaderInvNext == IInv /\ IInv' /\ HeaderInv /\ [Next]_vars => HeaderInv'
<1> SUFFICES ASSUME IInv, IInv', HeaderInv, [Next]_vars PROVE HeaderInv'
  OBVIOUS
<1>t. /\ Len(out) \in Nat /\ Len(stream) \in Nat /\ start \in Nat /\ size \in Nat
      /\ start' \in Nat
  BY StreamsAreSequences DEF IInv, TypeOK
<1> USE DEF HeaderInv, Service!NoBlankLineThrough, Service!BlankLineEndsAt
<1>1. ASSUME NEW c \in {"read", "header"}, NEW n \in Nat, Begin(c, n) PROVE HeaderInv'
  BY <1>1, <1>t, EmptySeq DEF Begin
<1>2. CASE Copy \/ ReadFill \/ ReadDirect
  BY <1>2 DEF Copy, ReadFill, ReadDirect, NeedsMore
<1>3. CASE HeaderFill \/ HeaderMalloc
  BY <1>3 DEF HeaderFill, HeaderMalloc
<1>4. CASE Failure \/ HeaderTooLong
  BY <1>4 DEF Failure, ReadFillFails, ReadDirectFails, HeaderFillFails, HeaderNoMemory,
              HeaderTooLong, FillFails, Return
<1>5. CASE ReadReturns
  BY <1>5 DEF ReadReturns, Return, IInv, WithinLen
<1>6. CASE HeaderByte
  <2>1. /\ call = "header" /\ outcome = "none" /\ UNCHANGED <<stream, start>>
        /\ \/ ~EndsHeader(out') /\ UNCHANGED <<call, outcome>>
           \/ EndsHeader(out') /\ call' = "idle" /\ outcome' = "ok"
    BY <1>6 DEF HeaderByte, Return
  <2>2. /\ Len(out') = Len(out) + 1
        /\ Service!NoBlankLineThrough(start, start + Len(out))
        /\ EndsHeader(out') <=> Service!BlankLineEndsAt(start, start + Len(out'))
    BY <1>6, HeaderByteStep
  <2> HIDE DEF HeaderInv, Service!NoBlankLineThrough, Service!BlankLineEndsAt
  <2>3. ASSUME ~EndsHeader(out')
        PROVE  Service!NoBlankLineThrough(start, start + Len(out'))
    <3> SUFFICES ASSUME NEW j \in start + 1 .. start + Len(out')
                 PROVE  ~Service!BlankLineEndsAt(start, j)
      BY DEF Service!NoBlankLineThrough
    <3>1. CASE j = start + Len(out')
      BY <2>2, <2>3, <3>1
    <3>2. CASE j # start + Len(out')
      <4>1. j \in start + 1 .. start + Len(out)
        BY <1>t, <2>2, <3>2
      <4> QED BY <2>2, <4>1 DEF Service!NoBlankLineThrough
    <3> QED BY <3>1, <3>2
  <2>4. start + Len(out') - 1 = start + Len(out)
    BY <1>t, <2>2
  <2>5. /\ call' = "header" => Service!NoBlankLineThrough(start, start + Len(out'))
        /\ call' = "idle" => /\ Service!NoBlankLineThrough(start, start + Len(out') - 1)
                             /\ Service!BlankLineEndsAt(start, start + Len(out'))
    BY <2>1, <2>2, <2>3, <2>4
  <2>6. UNCHANGED <<stream, start>>
    BY <2>1
  <2> QED
    BY <2>1, <2>5, <2>6
       DEF HeaderInv, Service!NoBlankLineThrough, Service!BlankLineEndsAt
<1>7. CASE UNCHANGED vars
  BY <1>7 DEF vars
<1> QED
  BY <1>1, <1>2, <1>3, <1>4, <1>5, <1>6, <1>7, BytesAssumption
     DEF Next, BeginRead, BeginHeader, ReaderStep

LEMMA HeaderInvInit == Init => HeaderInv
BY DEF Init, HeaderInv

LEMMA HeaderInvHolds == Spec => []HeaderInv
BY InvariantHolds, HeaderInvInit, HeaderInvNext, PTL DEF Spec

(* The type invariant, for every stream, buffer and header size.           *)
THEOREM TypeCorrect == Spec => []TypeOK
BY InvariantHolds, PTL DEF IInv

(* Whatever way recv() cuts the stream, and whichever of buf_recv's paths  *)
(* the bytes take, a call has written exactly the stream's next bytes.     *)
THEOREM ReadsAreExact == Spec => []ExactSegment
BY InvariantHolds, PTL DEF IInv

(* The NUL socket_receiv_header ends the header with is inside its         *)
(* allocation.                                                             *)
THEOREM NulFits == Spec => []TerminatingNulFits
BY InvariantHolds, PTL DEF IInv

(* A header ends at the first blank line and nowhere else.                 *)
LEMMA FirstBlankLineFollows == IInv /\ HeaderInv => FirstBlankLine
<1> SUFFICES ASSUME IInv, HeaderInv, call = "header" \/ (outcome = "ok" /\ size > 0)
             PROVE  /\ \A k \in 1 .. Len(out) - 1 : ~BlankLineAt(out, k)
                    /\ BlankLineAt(out, Len(out)) <=> call = "idle"
  BY DEF FirstBlankLine
<1>t. /\ Len(stream) \in Nat /\ start \in Nat /\ Len(out) \in Nat /\ IsSegment(out, start)
      /\ call \in {"idle", "header"}
  BY StreamsAreSequences DEF IInv, TypeOK, ExactSegment, HeaderInv
<1>1. ASSUME NEW k \in 1 .. Len(out)
      PROVE  BlankLineAt(out, k) <=> Service!BlankLineEndsAt(start, start + k)
  <2>1. CASE k >= 4
    <3>1. /\ out[k - 3] = stream[start + k - 3] /\ out[k - 2] = stream[start + k - 2]
          /\ out[k - 1] = stream[start + k - 1] /\ out[k] = stream[start + k]
      BY <1>t, <2>1 DEF IsSegment
    <3>2. start + k \in start + 4 .. Len(stream) /\ k \in 4 .. Len(out)
      BY <1>t, <2>1 DEF IsSegment
    <3> QED BY <1>t, <3>1, <3>2 DEF BlankLineAt, Service!BlankLineEndsAt
  <2>2. CASE ~(k >= 4)
    BY <1>t, <2>2 DEF BlankLineAt, Service!BlankLineEndsAt
  <2> QED BY <2>1, <2>2
<1>2. ASSUME NEW k \in 1 .. Len(out) - 1 PROVE ~BlankLineAt(out, k)
  <2>1. start + k \in start + 1 .. start + Len(out) - 1 /\ k \in 1 .. Len(out)
    BY <1>t
  <2>2. ~Service!BlankLineEndsAt(start, start + k)
    BY <1>t, <2>1 DEF HeaderInv, Service!NoBlankLineThrough
  <2> QED BY <1>1, <2>1, <2>2
<1>3. BlankLineAt(out, Len(out)) <=> call = "idle"
  <2>1. CASE Len(out) = 0
    BY <1>t, <2>1 DEF BlankLineAt, HeaderInv, Service!BlankLineEndsAt
  <2>2. CASE Len(out) > 0
    <3>1. BlankLineAt(out, Len(out)) <=> Service!BlankLineEndsAt(start, start + Len(out))
      BY <1>1, <1>t, <2>2
    <3>2. call = "header" => ~Service!BlankLineEndsAt(start, start + Len(out))
      BY <1>t, <2>2 DEF HeaderInv, Service!NoBlankLineThrough
    <3> QED BY <1>t, <3>1, <3>2 DEF HeaderInv
  <2> QED BY <1>t, <2>1, <2>2
<1> QED
  BY <1>2, <1>3

THEOREM HeadersEndAtFirstBlankLine == Spec => []FirstBlankLine
BY InvariantHolds, HeaderInvHolds, FirstBlankLineFollows, PTL

-----------------------------------------------------------------------------
(* The refinement of ByteStream.                                           *)

LEMMA ServiceInit == Init => Service!Init
<1> SUFFICES ASSUME Init PROVE Service!Init
  OBVIOUS
<1>1. Len(rbuf) = 0 /\ rbuf_pos = 0 /\ taken = 0
  BY EmptySeq DEF Init
<1>2. Consumed = 0
  BY <1>1 DEF Consumed, Avail
<1> QED BY <1>2 DEF Init, Service!Init

LEMMA SegmentIsCut ==
    ASSUME stream \in Seq(Byte), NEW s \in Seq(Byte), NEW from \in Nat, IsSegment(s, from)
    PROVE  s = SubSeq(stream, from + 1, from + Len(s))
<1> DEFINE c == SubSeq(stream, from + 1, from + Len(s))
<1>1. Len(s) \in Nat /\ from + Len(s) <= Len(stream)
  BY LenProperties DEF IsSegment
<1>2. c \in Seq(Byte) /\ Len(c) = Len(s) /\ IsSegment(c, from)
  BY <1>1, CutIsSegment
<1> HIDE DEF c
<1>3. \A i \in 1 .. Len(s) : s[i] = c[i]
  BY <1>1, <1>2 DEF IsSegment
<1>4. s = c
  BY <1>2, <1>3, SeqEqual
<1> QED BY <1>4 DEF c

(* A call has used up start + Len(out) bytes of the stream.                *)
LEMMA CallUses ==
    ASSUME IInv, call # "idle"
    PROVE  /\ Consumed = start + Len(out) /\ start + Len(out) \in start .. Len(stream)
           /\ out = SubSeq(stream, start + 1, start + Len(out))
<1>t. /\ stream \in Seq(Byte) /\ Len(stream) \in Nat /\ start \in Nat
      /\ out \in Seq(Byte) /\ Len(out) \in Nat /\ IsSegment(out, start)
      /\ Consumed = start + Len(out)
  BY StreamsAreSequences DEF IInv, TypeOK, ExactSegment
<1>1. start + Len(out) <= Len(stream)
  BY <1>t DEF IsSegment
<1> QED BY <1>t, <1>1, SegmentIsCut

(* A call that fails before it has all it wants is ByteStream's failure.   *)
LEMMA FailureSimulates ==
    ASSUME IInv, IInv', HeaderInv,
           call # "idle", call' = "idle", outcome' = "failed",
           UNCHANGED <<stream, taken, len, out, size, start>>,
           Avail' = Avail,
           call = "read" => Len(out) < len
    PROVE  Service!FailRead \/ Service!FailHeader
<1>t. /\ Len(stream) \in Nat /\ start \in Nat /\ len \in Nat /\ Len(out) \in Nat
      /\ call \in {"read", "header"} /\ size \in 0 .. MaxHeader
  BY StreamsAreSequences DEF IInv, TypeOK
<1>1. /\ Consumed = start + Len(out) /\ start + Len(out) \in start .. Len(stream)
      /\ Consumed' = Consumed
  BY CallUses DEF Consumed
<1>2. CASE call = "read"
  BY <1>1, <1>2, <1>t DEF Service!FailRead, Service!Use
<1>3. CASE call = "header"
  <2>1. Len(out) < MaxHeader
    <3>1. CASE size = 0
      BY <3>1, <1>3, EmptySeq, AllocSizesType, SizesAssumption DEF IInv, HeaderNotYetRead, IsDoublingTo
    <3>2. CASE size > 0
      BY <3>2, <1>t, SizesAssumption DEF IInv, TerminatingNulFits
    <3> QED BY <3>1, <3>2, <1>t
  <2>2. Service!NoBlankLineThrough(start, start + Len(out))
    BY <1>3 DEF HeaderInv
  <2> QED BY <1>1, <1>3, <1>t, <2>1, <2>2 DEF Service!FailHeader, Service!Use
<1> QED BY <1>2, <1>3, <1>t

LEMMA HeaderByteSimulates ==
    ASSUME IInv, IInv', HeaderInv, HeaderInv', HeaderByte
    PROVE  Service!AnswerHeader \/ UNCHANGED Service!vars
<1>1. /\ call = "header" /\ outcome = "none" /\ UNCHANGED <<stream, taken, len, start>>
      /\ \/ ~EndsHeader(out') /\ UNCHANGED <<call, outcome>>
         \/ EndsHeader(out') /\ call' = "idle" /\ outcome' = "ok"
  BY DEF HeaderByte, Return, HeaderInv
<1>2. /\ Len(out') = Len(out) + 1
      /\ Service!NoBlankLineThrough(start, start + Len(out))
      /\ EndsHeader(out') <=> Service!BlankLineEndsAt(start, start + Len(out'))
  BY HeaderByteStep
<1>3. CASE ~EndsHeader(out')
  BY <1>1, <1>3 DEF Service!vars
<1>4. CASE EndsHeader(out')
  <2>1. /\ Len(stream) \in Nat /\ start \in Nat /\ Len(out) \in Nat
        /\ taken \in Nat /\ Len(rbuf) \in Nat /\ rbuf_pos \in Nat
    BY StreamsAreSequences DEF IInv, TypeOK
  <2>2. Service!BlankLineEndsAt(start, start + Len(out'))
    BY <1>2, <1>4
  <2>3. start + Len(out') \in start + 4 .. Len(stream)
    BY <2>2 DEF Service!BlankLineEndsAt
  <2>4. Len(out') < MaxHeader
    <3>1. size > 0 /\ size' \in 0 .. MaxHeader /\ size' > 0 /\ size \in Nat
      BY DEF HeaderByte, IInv, TypeOK
    <3> QED BY <3>1, <2>1, <1>2, SizesAssumption DEF IInv, TerminatingNulFits
  <2>5. Consumed' = start + Len(out')
    <3>1. rbuf_pos' = rbuf_pos + 1 /\ UNCHANGED <<taken, rbuf>> /\ Consumed = start + Len(out)
      BY <1>1 DEF HeaderByte, IInv, ExactSegment
    <3> QED BY <3>1, <2>1, <1>2 DEF Consumed, Avail
  <2>7. out' = SubSeq(stream, start + 1, start + Len(out'))
    <3>1. stream \in Seq(Byte)
      BY StreamsAreSequences DEF IInv
    <3>2. out' \in Seq(Byte) /\ IsSegment(out, start)'
      BY DEF IInv, TypeOK, ExactSegment
    <3>3. IsSegment(out', start)
      BY <3>2, <1>1 DEF IsSegment
    <3> QED BY <3>1, <3>2, <3>3, <2>1, SegmentIsCut
  <2>6. Service!NoBlankLineThrough(start, start + Len(out') - 1)
    BY <1>2, <2>1
  <2> QED
    BY <1>1, <1>4, <2>1, <2>2, <2>3, <2>4, <2>5, <2>6, <2>7
       DEF Service!AnswerHeader, Service!Use
<1> QED BY <1>3, <1>4

(* Every step of the reader is a step of ByteStream or leaves it alone.    *)
LEMMA NextSimulates ==
    IInv /\ IInv' /\ HeaderInv /\ HeaderInv' /\ [Next]_vars => [Service!Next]_(Service!vars)
<1> SUFFICES ASSUME IInv, IInv', HeaderInv, HeaderInv', [Next]_vars
             PROVE  [Service!Next]_(Service!vars)
  OBVIOUS
<1> USE DEF Service!Next
<1>1. ASSUME NEW c \in {"read", "header"}, NEW n \in Nat, Begin(c, n)
      PROVE  Service!Ask(c, n)
  BY <1>1 DEF Begin, Service!Ask
<1>2. CASE Copy \/ ReadFill \/ ReadDirect \/ HeaderFill \/ HeaderMalloc
  <2>1. /\ call # "idle" /\ outcome = "none"
        /\ UNCHANGED <<stream, call, len, outcome, start>>
    BY <1>2 DEF Copy, ReadFill, ReadDirect, NeedsMore, HeaderFill, HeaderMalloc, HeaderInv
  <2> QED BY <2>1 DEF Service!vars
<1>3. CASE ReadReturns
  <2>1. /\ call = "read" /\ Len(out) = len /\ call' = "idle" /\ outcome' = "ok"
        /\ UNCHANGED <<stream, taken, rbuf, rbuf_pos, len, out, start>>
    BY <1>3 DEF ReadReturns, Return
  <2>2. /\ Consumed = start + Len(out) /\ start + Len(out) \in start .. Len(stream)
        /\ out = SubSeq(stream, start + 1, start + Len(out))
    BY <2>1, CallUses
  <2>3. Consumed' = Consumed /\ Len(stream) \in Nat /\ start \in Nat /\ Len(out) \in Nat
    BY <2>1, StreamsAreSequences DEF Consumed, Avail, IInv, TypeOK
  <2>4. Service!AnswerRead
    BY <2>1, <2>2, <2>3 DEF Service!AnswerRead, Service!Use
  <2> QED BY <2>4
<1>4. CASE Failure \/ HeaderTooLong
  <2>1. /\ call # "idle" /\ call' = "idle" /\ outcome' = "failed"
        /\ UNCHANGED <<stream, taken, len, out, size, start>>
        /\ call = "read" => Len(out) < len
    BY <1>4 DEF Failure, ReadFillFails, ReadDirectFails, HeaderFillFails, HeaderNoMemory,
                HeaderTooLong, FillFails, NeedsMore, Return
  <2>2. Avail' = Avail
    <3>1. \/ UNCHANGED <<rbuf, rbuf_pos>>
          \/ Avail = 0 /\ rbuf' = <<>> /\ rbuf_pos' = 0
      BY <1>4 DEF Failure, ReadFillFails, ReadDirectFails, HeaderFillFails, HeaderNoMemory,
                  HeaderTooLong, FillFails, NeedsMore
    <3>2. rbuf' = <<>> => Len(rbuf') = 0
      BY EmptySeq
    <3> QED BY <3>1, <3>2 DEF Avail
  <2> QED BY <2>1, <2>2, FailureSimulates
<1>5. CASE HeaderByte
  BY <1>5, HeaderByteSimulates
<1>6. CASE UNCHANGED vars
  BY <1>6 DEF vars, Service!vars, Consumed, Avail
<1> QED
  BY <1>1, <1>2, <1>3, <1>4, <1>5, <1>6, BytesAssumption
     DEF Next, BeginRead, BeginHeader, ReaderStep, Service!AskRead, Service!AskHeader

(* communication.c's reader gives its callers the stream of bytes that     *)
(* ByteStream promises, failures included.                                 *)
THEOREM ReaderImplementsByteStream == Spec => ImplementsByteStream
BY ServiceInit, NextSimulates, InvariantHolds, HeaderInvHolds, PTL
   DEF Spec, ImplementsByteStream, Service!Spec

=============================================================================

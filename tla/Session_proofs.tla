---------------------------- MODULE Session_proofs ----------------------------
(***************************************************************************)
(* What a session promises holds for every number of cursors, every amount *)
(* of memory and every length of an executemany's list, through refusals,  *)
(* lost links and calls in any order.                                      *)
(***************************************************************************)
EXTENDS Session, SequenceTheorems, TLAPS

Control == {"START", "COMMIT", "ROLLBACK"}
Ending == {"commit", "rollback", "close"}
Running == {"clean", "prepare", "run"}

(* The stack of activations: below the top there are only executemany's    *)
(* own and the statement that waits for its START TRANSACTION; the private *)
(* cursor, which runs the commands that control transactions, is on top.   *)
StackShape ==
    /\ outcome # "none" => stack = <<>>
    /\ \A i \in 1 .. Len(stack) :
          /\ stack[i].c = Private <=> stack[i].q \in Control
          /\ stack[i].q \in Control => i = Len(stack)
          /\ stack[i].pc = "many" => i = 1 /\ stack[i].q \in Statements
          /\ i < Len(stack) => stack[i].pc = "many" \/
                               (stack[i].pc = "clean" /\ stack[i + 1].q = "START")
          /\ call \in Ending => i = 1 /\ stack[i].q \in {"COMMIT", "ROLLBACK"}
          /\ stack[i].q \in {"COMMIT", "ROLLBACK"} => call \in Ending

(* The flag is set before the server's transaction begins and cleared      *)
(* after it has ended.                                                     *)
FlagInv ==
    /\ srv_txn => in_transaction
    /\ \A i \in 1 .. Len(stack) : stack[i].q \in Control => in_transaction
    /\ call \in {"commit", "rollback"} /\ outcome = "none" /\ stack = <<>> => ~srv_txn

(* When the flag is set and the link is up, the server has a transaction,  *)
(* unless it is being started or ended, or its start has failed.           *)
Starting == stack # <<>> /\ Top.q = "START"
Ended == call \in Ending /\ outcome = "none" /\ stack = <<>>

WrapInv ==
    /\ in_transaction /\ up /\ connected /\ ~srv_txn => startFailed \/ Starting \/ Ended
    /\ stack # <<>> /\ Top.q \in Statements /\ Top.pc \in Running /\ up /\ ~read_only =>
          srv_txn \/ startFailed
    /\ WrappedOnceStarted

ReadOnlyInv ==
    read_only =>
        /\ ~in_transaction /\ ~wrote
        /\ \A i \in 1 .. Len(stack) : stack[i].pc \in Running => stack[i].q = "SELECT"

(* A statement is only prepared where the cursor holds none.               *)
OwnersInv ==
    /\ EachBlockHasOneOwner
    /\ At("prepare") => fourd_query[Top.c] \notin Blocks

IInv == TypeOK /\ StackShape /\ FlagInv /\ WrapInv /\ ReadOnlyInv /\ OwnersInv
        /\ FreedConnectionIsUnused

-----------------------------------------------------------------------------
(* The stack: what Goto, Pop and a push do to it.                          *)
PCs == {"enter", "clean", "prepare", "run", "many"}

LEMMA FrameType ==
    ASSUME NEW c \in Cursors, NEW q \in Commands, NEW x \in PCs
    PROVE  [Frame(c, q) EXCEPT !.pc = x] \in Frames /\ Frame(c, q) \in Frames
BY DEF Frame, Frames, PCs

LEMMA NonEmpty ==
    ASSUME NEW s \in Seq(Frames)
    PROVE  /\ Len(s) \in Nat /\ (s = <<>> <=> Len(s) = 0)
           /\ \A i \in 1 .. Len(s) : s[i] \in Frames
BY EmptySeq, LenProperties, ElementOfSeq

LEMMA GotoFacts ==
    ASSUME NEW s \in Seq(Frames), s # <<>>, NEW x \in PCs,
           NEW t, t = [s EXCEPT ![Len(s)].pc = x]
    PROVE  /\ t \in Seq(Frames) /\ Len(t) = Len(s) /\ t # <<>>
           /\ t[Len(s)].pc = x
           /\ \A i \in 1 .. Len(s) : t[i].c = s[i].c /\ t[i].q = s[i].q
           /\ \A i \in 1 .. Len(s) : i # Len(s) => t[i] = s[i]
<1>1. Len(s) \in 1 .. Len(s) /\ s[Len(s)] \in Frames /\ Len(s) \in Nat
  BY NonEmpty
<1> DEFINE f == [s[Len(s)] EXCEPT !.pc = x]
<1>2. f \in Frames /\ f.pc = x /\ f.c = s[Len(s)].c /\ f.q = s[Len(s)].q
  BY <1>1 DEF Frames, PCs
<1>3. t = [s EXCEPT ![Len(s)] = f]
  OBVIOUS
<1> HIDE DEF f
<1>4. /\ t \in Seq(Frames) /\ Len(t) = Len(s)
      /\ \A j \in 1 .. Len(s) : t[j] = IF j = Len(s) THEN f ELSE s[j]
  BY <1>1, <1>2, <1>3, ExceptSeq
<1> QED BY <1>1, <1>2, <1>4, NonEmpty

LEMMA PopFacts ==
    ASSUME NEW s \in Seq(Frames), s # <<>>, NEW t, t = SubSeq(s, 1, Len(s) - 1)
    PROVE  /\ t \in Seq(Frames) /\ Len(t) = Len(s) - 1
           /\ t = <<>> <=> Len(s) = 1
           /\ \A i \in 1 .. Len(t) : t[i] = s[i]
<1> DEFINE n == Len(s) - 1
<1>1. Len(s) \in Nat /\ n \in Nat /\ \A i \in 1 .. n : s[i] \in Frames
  BY NonEmpty
<1>2. t = SubSeq(s, 1, n)
  OBVIOUS
<1> HIDE DEF n
<1>3. /\ t \in Seq(Frames)
      /\ Len(t) = IF 1 <= n THEN n - 1 + 1 ELSE 0
      /\ \A i \in 1 .. n - 1 + 1 : t[i] = s[1 + i - 1]
  BY <1>1, <1>2, SubSeqProperties
<1>4. Len(t) = n /\ \A i \in 1 .. n : t[i] = s[i]
  BY <1>1, <1>3
<1>5. t = <<>> <=> n = 0
  BY <1>3, <1>4, NonEmpty
<1> QED BY <1>1, <1>3, <1>4, <1>5 DEF n

LEMMA PushFacts ==
    ASSUME NEW s \in Seq(Frames), NEW f \in Frames, NEW t, t = Append(s, f)
    PROVE  /\ t \in Seq(Frames) /\ t # <<>> /\ Len(t) = Len(s) + 1
           /\ t[Len(t)] = f
           /\ \A i \in 1 .. Len(s) : t[i] = s[i]
BY AppendProperties, LenProperties

(* The steps that keep the activations of the stack, but for the top's pc. *)
LEMMA GotoShape ==
    ASSUME TypeOK, StackShape, stack # <<>>, Top.pc # "many",
           NEW x \in PCs \ {"many"}, stack' = Goto(x), UNCHANGED <<call, outcome>>
    PROVE  StackShape'
<1>1. stack \in Seq(Frames) /\ Len(stack) \in Nat
  BY NonEmpty DEF TypeOK
<1>2. /\ Len(stack') = Len(stack) /\ stack'[Len(stack)].pc = x /\ stack' # <<>>
      /\ \A i \in 1 .. Len(stack) : stack'[i].c = stack[i].c /\ stack'[i].q = stack[i].q
      /\ \A i \in 1 .. Len(stack) : i # Len(stack) => stack'[i] = stack[i]
  BY <1>1, GotoFacts DEF Goto, PCs
<1> QED BY <1>1, <1>2 DEF StackShape

LEMMA EmptyShape ==
    ASSUME stack' = <<>> PROVE StackShape'
BY EmptySeq DEF StackShape

LEMMA SameShape ==
    ASSUME StackShape, UNCHANGED <<stack, call>>, outcome' = outcome \/ stack = <<>>
    PROVE  StackShape'
<1>1. CASE stack = <<>>
  BY <1>1, EmptyShape
<1>2. CASE outcome' = outcome
  BY <1>2 DEF StackShape
<1> QED BY <1>1, <1>2

LEMMA TopFacts ==
    ASSUME TypeOK, stack # <<>>
    PROVE  /\ stack \in Seq(Frames) /\ Len(stack) \in Nat /\ Len(stack) \in 1 .. Len(stack)
           /\ Top = stack[Len(stack)] /\ Top \in Frames
           /\ Top.c \in Cursors /\ Top.q \in Commands /\ Top.pc \in PCs
<1>1. stack \in Seq(Frames)
  BY DEF TypeOK
<1>2. Len(stack) \in Nat /\ Len(stack) \in 1 .. Len(stack) /\ stack[Len(stack)] \in Frames
  BY <1>1, NonEmpty
<1>3. Top = stack[Len(stack)]
  BY DEF Top
<1>4. \A f \in Frames : f.c \in Cursors /\ f.q \in Commands /\ f.pc \in PCs
  BY DEF Frames, PCs
<1> QED BY <1>1, <1>2, <1>3, <1>4

(* What MayExecute, NeedsTransaction and the flag say of an activation     *)
(* that starts a transaction: it is the application's, and no other one    *)
(* runs on the private cursor.                                             *)
LEMMA StarterIsUsers ==
    ASSUME TypeOK, StackShape, FlagInv, stack # <<>>, ~in_transaction
    PROVE  \A i \in 1 .. Len(stack) : stack[i].q \notin Control /\ stack[i].c # Private
BY DEF StackShape, FlagInv

LEMMA StartShape ==
    ASSUME TypeOK, StackShape, FlagInv, StartTransaction
    PROVE  /\ StackShape' /\ stack' \in Seq(Frames) /\ stack' # <<>>
           /\ Len(stack') = Len(stack) + 1
           /\ stack'[Len(stack')] = Frame(Private, "START")
           /\ stack'[Len(stack)].pc = "clean" /\ stack'[Len(stack)].q = Top.q
           /\ \A i \in 1 .. Len(stack) - 1 : stack'[i] = stack[i]
           /\ Top.q \in Statements
<1>1. /\ stack # <<>> /\ Top.pc = "enter" /\ ~in_transaction
      /\ stack' = Append(Goto("clean"), Frame(Private, "START"))
      /\ UNCHANGED <<call, outcome>>
  BY DEF StartTransaction, At, NeedsTransaction
<1> DEFINE g == Goto("clean")
           f == Frame(Private, "START")
<1>2. f \in Frames /\ f.c = Private /\ f.q = "START" /\ f.pc = "enter"
  BY DEF Frame, Frames, Cursors, Commands
<1>3. /\ g \in Seq(Frames) /\ Len(g) = Len(stack) /\ g[Len(stack)].pc = "clean"
      /\ \A i \in 1 .. Len(stack) : g[i].c = stack[i].c /\ g[i].q = stack[i].q
      /\ \A i \in 1 .. Len(stack) : i # Len(stack) => g[i] = stack[i]
  <2>1. stack \in Seq(Frames) /\ stack # <<>> /\ "clean" \in PCs
    BY <1>1, TopFacts DEF PCs
  <2>2. g = [stack EXCEPT ![Len(stack)].pc = "clean"]
    BY DEF Goto
  <2> HIDE DEF g
  <2> QED BY <2>1, <2>2, GotoFacts
<1>4. stack' = Append(g, f)
  BY <1>1
<1> HIDE DEF g, f
<1>5. /\ stack' \in Seq(Frames) /\ stack' # <<>> /\ Len(stack') = Len(stack) + 1
      /\ stack'[Len(stack')] = f
      /\ \A i \in 1 .. Len(stack) : stack'[i] = g[i]
  BY <1>2, <1>3, <1>4, PushFacts
<1>6. \A i \in 1 .. Len(stack) : stack[i].q \in Statements /\ stack[i].c # Private
  <2> TAKE i \in 1 .. Len(stack)
  <2>1. stack[i].q \notin Control /\ stack[i].c # Private
    BY <1>1, StarterIsUsers
  <2>2. stack[i] \in Frames
    BY NonEmpty DEF TypeOK
  <2> QED BY <2>1, <2>2 DEF Frames, Commands, Control
<1>7. call \notin Ending
  BY <1>1, <1>6, TopFacts DEF StackShape, Statements
<1>8. outcome = "none"
  BY <1>1 DEF StackShape
<1>9. Len(stack) \in Nat /\ Len(stack) > 0
  BY <1>1, TopFacts
<1>10. ASSUME NEW i \in 1 .. Len(stack')
       PROVE  /\ stack'[i].c = Private <=> stack'[i].q \in Control
              /\ stack'[i].q \in Control => i = Len(stack')
              /\ stack'[i].pc = "many" => i = 1 /\ stack'[i].q \in Statements
              /\ i < Len(stack') => stack'[i].pc = "many" \/
                                    (stack'[i].pc = "clean" /\ stack'[i + 1].q = "START")
              /\ stack'[i].q \in {"COMMIT", "ROLLBACK"} => call' \in Ending
  <2>1. CASE i = Len(stack')
    BY <1>2, <1>5, <2>1 DEF Control
  <2>2. CASE i = Len(stack)
    <3>1. stack'[i] = g[i] /\ stack'[i + 1] = f /\ i \in 1 .. Len(stack)
      BY <1>5, <1>9, <2>2
    <3>2. stack'[i].pc = "clean" /\ stack'[i].c = stack[i].c /\ stack'[i].q = stack[i].q
      BY <1>3, <2>2, <3>1
    <3> QED BY <1>2, <1>6, <3>1, <3>2 DEF Control, Statements
  <2>3. CASE i \in 1 .. Len(stack) - 1
    <3>1. stack'[i] = stack[i] /\ i \in 1 .. Len(stack)
      BY <1>3, <1>5, <1>9, <2>3
    <3>2. stack[i + 1].q # "START" /\ i < Len(stack)
      BY <1>6, <1>9, <2>3 DEF Statements
    <3> QED BY <1>6, <3>1, <3>2 DEF StackShape, Control, Statements
  <2> QED BY <1>5, <1>9, <2>1, <2>2, <2>3
<1>11. StackShape'
  BY <1>1, <1>5, <1>7, <1>8, <1>10 DEF StackShape
<1>12. Top = stack[Len(stack)] /\ Len(stack) \in 1 .. Len(stack)
  BY <1>1, TopFacts
<1>13. \A i \in 1 .. Len(stack) - 1 : stack'[i] = stack[i]
  BY <1>3, <1>5, <1>9
<1> QED BY <1>2, <1>3, <1>5, <1>6, <1>11, <1>12, <1>13 DEF f

(* An activation returns to what is below it.                              *)
LEMMA PopShape ==
    ASSUME TypeOK, StackShape, stack # <<>>, stack' = Pop, UNCHANGED <<call, outcome>>
    PROVE  StackShape'
<1>1. stack \in Seq(Frames) /\ Len(stack) \in Nat /\ Len(stack) > 0
  BY TopFacts
<1>2. /\ Len(stack') = Len(stack) - 1
      /\ \A i \in 1 .. Len(stack') : stack'[i] = stack[i]
  BY <1>1, PopFacts DEF Pop
<1>3. outcome = "none"
  BY DEF StackShape
<1>4. ASSUME NEW i \in 1 .. Len(stack')
      PROVE  /\ stack'[i] = stack[i] /\ stack[i].q \notin Control /\ stack[i].c # Private
             /\ stack[i].pc = "many" => i = 1 /\ stack[i].q \in Statements
             /\ i < Len(stack') => stack[i].pc = "many"
             /\ call \notin Ending
  <2>1. stack'[i] = stack[i] /\ i \in 1 .. Len(stack) /\ i # Len(stack)
    BY <1>1, <1>2
  <2>2. stack[i].q \notin Control
    BY <2>1 DEF StackShape
  <2>3. i < Len(stack') => stack[i + 1].q # "START"
    <3>1. i < Len(stack') => i + 1 \in 1 .. Len(stack) /\ i + 1 # Len(stack)
      BY <1>1, <1>2
    <3> QED BY <3>1 DEF StackShape, Control
  <2>4. i < Len(stack') => i < Len(stack)
    BY <1>1, <1>2
  <2> QED BY <2>1, <2>2, <2>3, <2>4 DEF StackShape, Control
<1> QED BY <1>3, <1>4 DEF StackShape, Control

(* executemany() enters execute() again, or is over.                       *)
LEMMA ManyIsAlone ==
    ASSUME TypeOK, StackShape, At("many")
    PROVE  /\ Len(stack) = 1 /\ Top = stack[1] /\ Top.q \in Statements /\ Top.c # Private
           /\ call \notin Ending /\ outcome = "none"
<1>1. stack # <<>> /\ Top.pc = "many"
  BY DEF At
<1>2. Top = stack[Len(stack)] /\ Len(stack) \in 1 .. Len(stack)
  BY <1>1, TopFacts
<1>3. Len(stack) = 1 /\ Top.q \in Statements
  BY <1>1, <1>2 DEF StackShape
<1> QED BY <1>1, <1>2, <1>3 DEF StackShape, Statements, Control

LEMMA BatchShape ==
    ASSUME TypeOK, StackShape, NextBatch
    PROVE  /\ StackShape' /\ stack' \in Seq(Frames)
           /\ stack' # <<>> => Len(stack') = 2 /\ stack'[1] = stack[1]
                               /\ stack'[2] = Frame(Top.c, Top.q)
<1>1. At("many") /\ stack # <<>> /\ UNCHANGED call
  BY DEF NextBatch, At
<1>2. /\ Len(stack) = 1 /\ Top = stack[1] /\ Top.q \in Statements /\ Top.c # Private
      /\ call \notin Ending /\ outcome = "none" /\ Top.pc = "many"
  BY <1>1, ManyIsAlone DEF At
<1>3. CASE stack' = Append(stack, Frame(Top.c, Top.q)) /\ UNCHANGED outcome
  <2> DEFINE f == Frame(Top.c, Top.q)
  <2>1. f \in Frames /\ f.c = Top.c /\ f.q = Top.q /\ f.pc = "enter"
    BY <1>1, TopFacts, FrameType DEF Frame, PCs
  <2>2. stack' = Append(stack, f)
    BY <1>3
  <2> HIDE DEF f
  <2>3. /\ stack' \in Seq(Frames) /\ stack' # <<>> /\ Len(stack') = 2
        /\ stack'[2] = f /\ stack'[1] = stack[1]
    BY <1>1, <1>2, <2>1, <2>2, TopFacts, PushFacts
  <2>4. StackShape'
    BY <1>1, <1>2, <1>3, <2>1, <2>3 DEF StackShape, Statements, Control
  <2> QED BY <2>3, <2>4 DEF f
<1>4. CASE stack' = Pop /\ outcome' = "ok"
  <2>1. stack' = <<>>
    BY <1>1, <1>2, <1>4, TopFacts, PopFacts DEF Pop
  <2> QED BY <2>1, EmptyShape, EmptySeq
<1> QED BY <1>3, <1>4 DEF NextBatch

(* The application's calls.                                                *)
CallStep == CallExecute \/ CallExecuteMany \/ CallCommit \/ CallRollback \/ CallClose

LEMMA OneFrame ==
    ASSUME NEW f \in Frames, NEW t, t = <<f>>
    PROVE  t \in Seq(Frames) /\ Len(t) = 1 /\ t[1] = f /\ t # <<>>
<1>1. Len(t) = 1 /\ t[1] = f /\ t # <<>>
  OBVIOUS
<1>2. t \in Seq(Frames)
  OBVIOUS
<1> QED BY <1>1, <1>2

LEMMA ExecuteCallShape ==
    ASSUME CallExecute
    PROVE  /\ StackShape' /\ call' = "execute" /\ stack' \in Seq(Frames) /\ Len(stack') = 1
           /\ stack'[1].pc = "enter" /\ stack'[1].q \in Statements
<1>1. PICK c \in Users, q \in Statements : Call("execute", <<Frame(c, q)>>, 0)
  BY DEF CallExecute
<1> DEFINE f == Frame(c, q)
<1>2. f \in Frames /\ f.c # Private /\ f.q \in Statements /\ f.pc = "enter"
  BY FrameType, CursorsAssumption DEF Frame, Frames, Cursors, Commands
<1>3. stack' = <<f>> /\ call' = "execute" /\ outcome' = "none"
  BY <1>1 DEF Call
<1> HIDE DEF f
<1>4. stack' \in Seq(Frames) /\ Len(stack') = 1 /\ stack'[1] = f /\ stack' # <<>>
  BY <1>2, <1>3, OneFrame
<1> QED BY <1>2, <1>3, <1>4 DEF StackShape, Statements, Control, Ending

LEMMA ManyCallShape ==
    ASSUME CallExecuteMany
    PROVE  /\ StackShape' /\ call' = "executemany" /\ stack' \in Seq(Frames)
           /\ Len(stack') = 2 /\ left' \in 0 .. MaxBatch - 1
           /\ stack'[1].pc = "many" /\ stack'[2].pc = "enter" /\ stack'[2].q \in Statements
<1>1. PICK c \in Users, q \in Statements, n \in 1 .. MaxBatch :
         Call("executemany", <<[Frame(c, q) EXCEPT !.pc = "many"], Frame(c, q)>>, n - 1)
  BY DEF CallExecuteMany
<1> DEFINE f == Frame(c, q)
           g == [Frame(c, q) EXCEPT !.pc = "many"]
<1>2. /\ f \in Frames /\ f.c # Private /\ f.q \in Statements /\ f.pc = "enter"
      /\ g \in Frames /\ g.c # Private /\ g.q \in Statements /\ g.pc = "many"
  BY FrameType, CursorsAssumption DEF Frame, Frames, Cursors, Commands
<1>3. stack' = <<g, f>> /\ call' = "executemany" /\ outcome' = "none" /\ left' = n - 1
  BY <1>1 DEF Call
<1> HIDE DEF f, g
<1>4. stack' \in Seq(Frames) /\ Len(stack') = 2 /\ stack'[1] = g /\ stack'[2] = f /\ stack' # <<>>
  BY <1>2, <1>3
<1>5. left' \in 0 .. MaxBatch - 1
  BY <1>3, BatchAssumption
<1> QED BY <1>2, <1>3, <1>4, <1>5 DEF StackShape, Statements, Control, Ending

LEMMA EndingCallShape ==
    ASSUME NEW name \in Ending, NEW q \in {"COMMIT", "ROLLBACK"}, EndTransactionBy(name, q)
    PROVE  /\ StackShape' /\ call' = name /\ outcome' = "none" /\ stack' \in Seq(Frames)
           /\ ~in_transaction => stack' = <<>>
           /\ in_transaction => Len(stack') = 1 /\ stack'[1] = Frame(Private, q)
<1>1. /\ call' = name /\ outcome' = "none"
      /\ stack' = IF in_transaction THEN <<Frame(Private, q)>> ELSE <<>>
  BY DEF EndTransactionBy, Call
<1>2. CASE ~in_transaction
  BY <1>1, <1>2, EmptyShape, EmptySeq
<1>3. CASE in_transaction
  <2> DEFINE f == Frame(Private, q)
  <2>1. f \in Frames /\ f.c = Private /\ f.q = q /\ f.pc = "enter"
    BY DEF Frame, Frames, Cursors, Commands
  <2>2. stack' = <<f>>
    BY <1>1, <1>3
  <2> HIDE DEF f
  <2>3. stack' \in Seq(Frames) /\ Len(stack') = 1 /\ stack'[1] = f /\ stack' # <<>>
    BY <2>1, <2>2, OneFrame
  <2> QED BY <1>1, <1>3, <2>1, <2>3 DEF StackShape, Statements, Control, f
<1> QED BY <1>2, <1>3

LEMMA EndingCalls ==
    ASSUME CallCommit \/ CallRollback \/ CallClose
    PROVE  \E name \in Ending, q \in {"COMMIT", "ROLLBACK"} : EndTransactionBy(name, q)
BY DEF CallCommit, CallRollback, CallClose, Ending

-----------------------------------------------------------------------------
(* The actions by what they do to the stack.                               *)
Raises == ExecuteRejected \/ PrepareNotConnected \/ BindRaises \/ RunFails \/ DisconnectFails
Continues == ExecuteInTransaction \/ CleanUp \/ Prepare
Returns == ExecuteReturns \/ EndTransaction \/ Disconnect \/ CloseAgain
Others == LinkDrops \/ Fetch \/ CloseCursor \/ ExitCursor \/ UNCHANGED vars

LEMMA RaisesFacts ==
    ASSUME Raises
    PROVE  /\ stack' = <<>> /\ outcome' = "raised" /\ UNCHANGED <<call, in_transaction, read_only>>
           /\ srv_txn' = srv_txn \/ (~srv_txn' /\ ~up')
           /\ UNCHANGED <<outside, wrote, leaked, cnx_freed>>
           /\ left' = 0
           /\ startFailed' = (startFailed \/ \E i \in 1 .. Len(stack) : stack[i].q = "START")
BY DEF Raises, ExecuteRejected, PrepareNotConnected, BindRaises, RunFails, DisconnectFails,
       Raise, Unwind, Trip, Answered, Lost, link

LEMMA ContinuesFacts ==
    ASSUME TypeOK, StackShape, Continues
    PROVE  /\ stack # <<>> /\ Top.pc # "many" /\ UNCHANGED <<call, outcome, left, connection>>
           /\ stack' \in Seq(Frames) /\ stack' # <<>> /\ Len(stack') = Len(stack)
           /\ \E x \in Running : stack' = Goto(x) /\ Top'.pc = x
           /\ Top'.c = Top.c /\ Top'.q = Top.q
           /\ \A i \in 1 .. Len(stack) : stack'[i].c = stack[i].c /\ stack'[i].q = stack[i].q
           /\ \A i \in 1 .. Len(stack) : i # Len(stack) => stack'[i] = stack[i]
           /\ srv_txn' = srv_txn \/ (~srv_txn' /\ ~up')
<1>1. PICK x \in Running : stack' = Goto(x)
  BY DEF Continues, ExecuteInTransaction, CleanUp, Prepare, Running
<1>2. stack # <<>> /\ Top.pc # "many"
  BY DEF Continues, ExecuteInTransaction, CleanUp, Prepare, At
<1>3. UNCHANGED <<call, outcome, left, connection>>
  BY DEF Continues, ExecuteInTransaction, CleanUp, Prepare
<1>4. srv_txn' = srv_txn \/ (~srv_txn' /\ ~up')
  BY DEF Continues, ExecuteInTransaction, CleanUp, Prepare, Trip, NoTrip, Answered, Lost
<1>5. stack \in Seq(Frames) /\ Top = stack[Len(stack)] /\ Len(stack) \in 1 .. Len(stack)
  BY <1>2, TopFacts
<1>6. /\ stack' \in Seq(Frames) /\ stack' # <<>> /\ Len(stack') = Len(stack)
      /\ stack'[Len(stack)].pc = x
      /\ \A i \in 1 .. Len(stack) : stack'[i].c = stack[i].c /\ stack'[i].q = stack[i].q
      /\ \A i \in 1 .. Len(stack) : i # Len(stack) => stack'[i] = stack[i]
  BY <1>1, <1>2, <1>5, GotoFacts DEF Goto, PCs, Running
<1>7. Top' = stack'[Len(stack)]
  BY <1>6 DEF Top
<1> QED BY <1>1, <1>2, <1>3, <1>4, <1>5, <1>6, <1>7

LEMMA RunOkFacts ==
    ASSUME TypeOK, StackShape, RunOk
    PROVE  /\ stack # <<>> /\ Top.pc = "run" /\ stack' = Pop
           /\ UNCHANGED <<call, outcome, left, connection, up, startFailed>>
           /\ stack' \in Seq(Frames) /\ Len(stack') = Len(stack) - 1
           /\ \A i \in 1 .. Len(stack') : stack'[i] = stack[i]
           /\ call \in Ending => Top.q \in {"COMMIT", "ROLLBACK"} /\ stack' = <<>>
           /\ stack' # <<>> => Top' = stack[Len(stack) - 1]
<1>1. /\ stack # <<>> /\ Top.pc = "run" /\ stack' = Pop
      /\ UNCHANGED <<call, outcome, left, connection, up, startFailed>>
  BY DEF RunOk, At, link
<1>2. stack \in Seq(Frames) /\ Top = stack[Len(stack)] /\ Len(stack) \in 1 .. Len(stack)
  BY <1>1, TopFacts
<1>3. /\ stack' \in Seq(Frames) /\ Len(stack') = Len(stack) - 1
      /\ stack' = <<>> <=> Len(stack) = 1
      /\ \A i \in 1 .. Len(stack') : stack'[i] = stack[i]
  BY <1>1, <1>2, PopFacts DEF Pop
<1>4. call \in Ending => Top.q \in {"COMMIT", "ROLLBACK"} /\ Len(stack) = 1
  BY <1>2 DEF StackShape
<1>5. stack' # <<>> => Top' = stack[Len(stack) - 1]
  <2>1. stack' # <<>> => Len(stack') \in 1 .. Len(stack')
    BY <1>3, NonEmpty
  <2> QED BY <1>3, <2>1 DEF Top
<1> QED BY <1>1, <1>3, <1>4, <1>5

LEMMA ReturnsFacts ==
    ASSUME Returns
    PROVE  /\ stack = <<>> /\ outcome = "none" /\ outcome' = "ok"
           /\ UNCHANGED <<stack, call, left, read_only, histories>>
           /\ EndTransaction \/ UNCHANGED in_transaction
           /\ srv_txn' = srv_txn \/ (~srv_txn' /\ ~up')
BY DEF Returns, ExecuteReturns, EndTransaction, Disconnect, CloseAgain, Between, Done,
       connection, link, histories, ClearFlag

LEMMA OthersFacts ==
    ASSUME Others
    PROVE  /\ UNCHANGED <<connection, stack, call, outcome, left, histories>>
           /\ srv_txn' = srv_txn \/ (~srv_txn' /\ ~up')
BY DEF Others, LinkDrops, Fetch, CloseCursor, ExitCursor, vars, control, link,
       Trip, NoTrip, Answered, Lost

LEMMA ActionGroups ==
    ASSUME [Next]_vars
    PROVE  Raises \/ Continues \/ Returns \/ Others \/ CallStep
           \/ StartTransaction \/ RunOk \/ NextBatch
BY DEF Next, Raises, Continues, Returns, Others, CallStep

(* What no step undoes: a link that is down, a closed connection.          *)
LEMMA Monotone ==
    ASSUME [Next]_vars
    PROVE  (up' => up) /\ (connected' => connected) /\ UNCHANGED read_only
<1> DEFINE M == up' => up
           N == (connected' => connected) /\ UNCHANGED read_only
<1>0. (Trip => M) /\ (NoTrip => M) /\ (UNCHANGED link => M)
  BY DEF Trip, NoTrip, Answered, Lost, link
<1>c. UNCHANGED connection => N
  BY DEF connection
<1>d. connected' = FALSE /\ UNCHANGED read_only => N
  OBVIOUS
<1>e. UNCHANGED <<connected, read_only>> => N
  OBVIOUS
<1>f. up' = FALSE => M
  OBVIOUS
<1> SUFFICES M /\ N
  OBVIOUS
<1> HIDE DEF M, N
<1>1. CASE Raises
  BY <1>0, <1>d, <1>e, <1>1 DEF Raises, ExecuteRejected, PrepareNotConnected, BindRaises,
              RunFails, DisconnectFails
<1>2. CASE Continues
  BY <1>0, <1>c, <1>2 DEF Continues, ExecuteInTransaction, CleanUp, Prepare
<1>3. CASE Returns
  <2>1. M
    BY <1>0, <1>f, <1>3 DEF Returns, ExecuteReturns, EndTransaction, Disconnect, CloseAgain
  <2>2. N
    BY <1>c, <1>d, <1>e, <1>3 DEF Returns, ExecuteReturns, EndTransaction, Disconnect,
                                  CloseAgain, Disconnected
  <2> QED BY <2>1, <2>2
<1>4. CASE Others
  BY <1>0, <1>c, <1>f, <1>4 DEF Others, LinkDrops, Fetch, CloseCursor, ExitCursor, vars
<1>5. CASE CallStep
  BY <1>0, <1>c, <1>5 DEF CallStep, CallExecute, CallExecuteMany, CallCommit, CallRollback,
                          CallClose, EndTransactionBy, Call
<1>6. CASE StartTransaction \/ RunOk
  BY <1>0, <1>c, <1>e, <1>6 DEF StartTransaction, RunOk
<1>7. CASE NextBatch
  BY <1>0, <1>c, <1>7 DEF NextBatch
<1> QED BY <1>1, <1>2, <1>3, <1>4, <1>5, <1>6, <1>7, ActionGroups DEF M, N

LEMMA ShapeNext ==
    ASSUME TypeOK, StackShape, FlagInv, [Next]_vars
    PROVE  StackShape' /\ stack' \in Seq(Frames)
<1>t. stack \in Seq(Frames)
  BY DEF TypeOK
<1>1. CASE Raises
  BY <1>1, RaisesFacts, EmptyShape, EmptySeq
<1>2. CASE Continues
  <2>1. /\ stack # <<>> /\ Top.pc # "many" /\ UNCHANGED <<call, outcome>>
        /\ \E x \in Running : stack' = Goto(x)
        /\ stack' \in Seq(Frames)
    BY <1>2, ContinuesFacts
  <2>2. Running \subseteq PCs \ {"many"}
    BY DEF Running, PCs
  <2> QED BY <2>1, <2>2, GotoShape
<1>3. CASE Returns
  BY <1>t, <1>3, ReturnsFacts, SameShape
<1>4. CASE Others
  BY <1>t, <1>4, OthersFacts, SameShape
<1>5. CASE CallStep
  BY <1>5, ExecuteCallShape, ManyCallShape, EndingCalls, EndingCallShape DEF CallStep
<1>6. CASE StartTransaction
  BY <1>6, StartShape
<1>7. CASE RunOk
  BY <1>7, RunOkFacts, PopShape
<1>8. CASE NextBatch
  BY <1>8, BatchShape
<1> QED BY <1>1, <1>2, <1>3, <1>4, <1>5, <1>6, <1>7, <1>8, ActionGroups

-----------------------------------------------------------------------------
(* The transaction flag.                                                   *)
LEMMA FlagNext ==
    ASSUME TypeOK, StackShape, FlagInv, [Next]_vars
    PROVE  FlagInv'
<1>1. CASE Raises
  <2>1. /\ stack' = <<>> /\ outcome' = "raised" /\ UNCHANGED in_transaction
        /\ srv_txn' => srv_txn
    BY <1>1, RaisesFacts
  <2> QED BY <2>1, EmptySeq DEF FlagInv
<1>2. CASE Continues
  <2>1. /\ stack' # <<>> /\ Len(stack') = Len(stack) /\ UNCHANGED in_transaction
        /\ \A i \in 1 .. Len(stack) : stack'[i].q = stack[i].q
        /\ srv_txn' => srv_txn
    BY <1>2, ContinuesFacts DEF connection
  <2> QED BY <2>1 DEF FlagInv
<1>3. CASE Returns
  <2>1. /\ stack = <<>> /\ UNCHANGED <<stack, call>> /\ outcome = "none" /\ outcome' = "ok"
        /\ EndTransaction \/ UNCHANGED in_transaction
        /\ srv_txn' => srv_txn
    BY <1>3, ReturnsFacts
  <2>2. EndTransaction => ~srv_txn
    BY <2>1 DEF EndTransaction, Between, FlagInv
  <2> QED BY <2>1, <2>2, EmptySeq DEF FlagInv
<1>4. CASE Others
  <2>1. UNCHANGED <<in_transaction, stack, call, outcome>> /\ (srv_txn' => srv_txn)
    BY <1>4, OthersFacts DEF connection
  <2> QED BY <2>1 DEF FlagInv
<1>5. CASE CallStep
  <2>1. UNCHANGED <<in_transaction, srv_txn>>
    BY <1>5 DEF CallStep, CallExecute, CallExecuteMany, CallCommit, CallRollback, CallClose,
                EndTransactionBy, Call, connection
  <2>2. CASE CallExecute \/ CallExecuteMany
    <3>1. /\ StackShape' /\ call' \notin Ending /\ stack' \in Seq(Frames)
          /\ stack'[Len(stack')].q \notin Control
      BY <2>2, ExecuteCallShape, ManyCallShape DEF Ending, Statements, Control
    <3>2. \A i \in 1 .. Len(stack') : stack'[i].q \notin Control
      BY <3>1 DEF StackShape
    <3> QED BY <2>1, <3>1, <3>2 DEF FlagInv, Ending
  <2>3. CASE CallCommit \/ CallRollback \/ CallClose
    <3>1. /\ ~in_transaction => stack' = <<>>
          /\ in_transaction => Len(stack') = 1
      BY <2>3, EndingCalls, EndingCallShape
    <3>2. CASE in_transaction
      <4>1. stack' # <<>>
        BY <3>1, <3>2, EmptySeq
      <4> QED BY <2>1, <3>2, <4>1 DEF FlagInv
    <3>3. CASE ~in_transaction
      BY <2>1, <3>1, <3>3, EmptySeq DEF FlagInv
    <3> QED BY <3>2, <3>3
  <2> QED BY <1>5, <2>2, <2>3 DEF CallStep
<1>6. CASE StartTransaction
  <2>1. in_transaction' /\ stack' # <<>>
    BY <1>6, StartShape DEF StartTransaction, SetFlag
  <2> QED BY <2>1 DEF FlagInv
<1>7. CASE RunOk
  <2>1. /\ stack # <<>> /\ UNCHANGED <<call, outcome, in_transaction>>
        /\ Len(stack') = Len(stack) - 1
        /\ \A i \in 1 .. Len(stack') : stack'[i] = stack[i]
        /\ call \in Ending => Top.q \in {"COMMIT", "ROLLBACK"}
    BY <1>7, RunOkFacts DEF connection
  <2>2. srv_txn' = TxnAfter(Top.q)
    BY <1>7 DEF RunOk
  <2>3. Top = stack[Len(stack)] /\ Len(stack) \in 1 .. Len(stack) /\ Len(stack) \in Nat
    BY <2>1, TopFacts
  <2>4. Top.q = "START" => in_transaction
    BY <2>3 DEF FlagInv, Control
  <2>5. srv_txn' => in_transaction'
    BY <2>1, <2>2, <2>4 DEF TxnAfter, FlagInv
  <2>6. call \in Ending => ~srv_txn'
    BY <2>1, <2>2 DEF TxnAfter
  <2>7. \A i \in 1 .. Len(stack') : i \in 1 .. Len(stack)
    BY <2>1, <2>3
  <2> QED BY <2>1, <2>5, <2>6, <2>7 DEF FlagInv, Ending
<1>8. CASE NextBatch
  <2>1. /\ Top = stack[1] /\ Top.q \in Statements /\ call \notin Ending
        /\ UNCHANGED <<call, in_transaction>> /\ (srv_txn' => srv_txn)
    BY <1>8, ManyIsAlone DEF NextBatch, connection, Trip, NoTrip, Answered, Lost
  <2>2. \A i \in 1 .. Len(stack') : stack'[i].q \notin Control
    <3>1. /\ stack' = <<>> => Len(stack') = 0
          /\ stack' # <<>> => Len(stack') = 2 /\ stack'[1] = stack[1]
                              /\ stack'[2] = Frame(Top.c, Top.q)
      BY <1>8, BatchShape, EmptySeq
    <3>2. Frame(Top.c, Top.q).q = Top.q
      BY DEF Frame
    <3> QED BY <2>1, <3>1, <3>2 DEF Statements, Control
  <2> QED BY <2>1, <2>2 DEF FlagInv, Ending
<1> QED BY <1>1, <1>2, <1>3, <1>4, <1>5, <1>6, <1>7, <1>8, ActionGroups

(* Statements run in a transaction, unless its start failed.               *)
LEMMA WrapNext ==
    ASSUME TypeOK, StackShape, FlagInv, FlagInv', WrapInv, [Next]_vars
    PROVE  WrapInv'
<1>u. (up' => up) /\ (connected' => connected) /\ UNCHANGED read_only
  BY Monotone
<1>1. CASE Raises
  <2>1. /\ stack' = <<>> /\ UNCHANGED <<in_transaction, outside>>
        /\ srv_txn' = srv_txn \/ ~up'
        /\ startFailed' = (startFailed \/ \E i \in 1 .. Len(stack) : stack[i].q = "START")
    BY <1>1, RaisesFacts
  <2>2. Starting => startFailed'
    BY <2>1, TopFacts DEF Starting
  <2>3. Ended => ~connected'
    <3>1. Ended => DisconnectFails
      BY <1>1 DEF Ended, Raises, ExecuteRejected, PrepareNotConnected, BindRaises, RunFails, At
    <3> QED BY <3>1 DEF DisconnectFails
  <2> QED BY <1>u, <2>1, <2>2, <2>3 DEF WrapInv, WrappedOnceStarted
<1>2. CASE Continues
  <2>1. /\ stack # <<>> /\ stack' # <<>> /\ Top'.q = Top.q /\ UNCHANGED in_transaction
        /\ srv_txn' = srv_txn \/ ~up'
    BY <1>2, ContinuesFacts DEF connection
  <2>2. UNCHANGED <<startFailed, outside>>
    BY <1>2 DEF Continues, ExecuteInTransaction, CleanUp, Prepare, histories
  <2>3. Starting' <=> Starting
    BY <2>1 DEF Starting
  <2>4. Top.pc \in Running \/ (ExecuteInTransaction /\ Top.pc = "enter")
    BY <1>2 DEF Continues, ExecuteInTransaction, CleanUp, Prepare, At, Running
  <2>5. ASSUME Top.q \in Statements, up', ~read_only, ExecuteInTransaction
        PROVE  srv_txn \/ startFailed
    <3>1. in_transaction /\ connected /\ up
      BY <1>u, <2>5 DEF ExecuteInTransaction, MayExecute, NeedsTransaction
    <3>2. ~Starting /\ ~Ended
      BY <2>1, <2>5 DEF Starting, Ended, Statements
    <3> QED BY <3>1, <3>2 DEF WrapInv
  <2>6. stack' # <<>> /\ Top'.q \in Statements /\ up' /\ ~read_only' => srv_txn' \/ startFailed'
    BY <1>u, <2>1, <2>2, <2>4, <2>5 DEF WrapInv
  <2>7. in_transaction' /\ up' /\ connected' /\ ~srv_txn' => startFailed' \/ Starting' \/ Ended'
    BY <1>u, <2>1, <2>2, <2>3 DEF WrapInv, Ended
  <2> QED BY <2>2, <2>6, <2>7 DEF WrapInv, WrappedOnceStarted
<1>3. CASE Returns
  <2>1. /\ stack = <<>> /\ stack' = <<>> /\ UNCHANGED <<call, startFailed, outside>>
        /\ srv_txn' = srv_txn \/ ~up'
        /\ EndTransaction \/ UNCHANGED in_transaction
        /\ outcome = "none"
    BY <1>3, ReturnsFacts DEF histories
  <2>2. in_transaction' /\ up' /\ connected' => ~Ended
    BY <1>3, <2>1 DEF Returns, ExecuteReturns, EndTransaction, Disconnect, CloseAgain, Between,
               ClearFlag, Ended, Ending, Disconnected, connection
  <2>3. ~Starting
    BY <2>1 DEF Starting
  <2>4. EndTransaction => ~in_transaction'
    BY DEF EndTransaction, ClearFlag
  <2>5. in_transaction' /\ up' /\ connected' /\ ~srv_txn' => startFailed'
    <3>1. in_transaction' /\ up' /\ connected' => in_transaction /\ up /\ connected
                                                  /\ UNCHANGED <<srv_txn, startFailed>>
      BY <1>u, <2>1, <2>4
    <3> QED BY <2>2, <2>3, <3>1 DEF WrapInv
  <2>6. outside' => startFailed'
    BY <2>1 DEF WrapInv, WrappedOnceStarted
  <2> QED BY <2>1, <2>5, <2>6 DEF WrapInv, WrappedOnceStarted
<1>4. CASE Others
  <2>1. /\ UNCHANGED <<in_transaction, stack, call, outcome, startFailed, outside>>
        /\ srv_txn' = srv_txn \/ ~up'
    BY <1>4, OthersFacts DEF connection, histories
  <2>2. Top' = Top /\ Starting' = Starting /\ Ended' = Ended
    BY <2>1 DEF Top, Starting, Ended
  <2> QED BY <1>u, <2>1, <2>2 DEF WrapInv, WrappedOnceStarted
<1>5. CASE CallStep
  <2>1. /\ UNCHANGED <<in_transaction, srv_txn, startFailed, outside, up, connected>>
        /\ outcome # "none"
    BY <1>5 DEF CallStep, CallExecute, CallExecuteMany, CallCommit, CallRollback, CallClose,
                EndTransactionBy, Call, Idle, connection, link, histories
  <2>2. ~Starting /\ ~Ended
    BY <2>1 DEF Starting, Ended, StackShape
  <2>3. stack' # <<>> => Top'.pc = "enter"
    <3>1. CASE CallExecute \/ CallExecuteMany
      BY <3>1, ExecuteCallShape, ManyCallShape DEF Top
    <3>2. CASE CallCommit \/ CallRollback \/ CallClose
      <4>1. PICK q \in {"COMMIT", "ROLLBACK"} :
               stack' # <<>> => Len(stack') = 1 /\ stack'[1] = Frame(Private, q)
        BY <3>2, EndingCalls, EndingCallShape
      <4>2. Frame(Private, q).pc = "enter" /\ Top' = stack'[Len(stack')]
        BY DEF Frame, Top
      <4> QED BY <4>1, <4>2
    <3> QED BY <1>5, <3>1, <3>2 DEF CallStep
  <2> QED BY <2>1, <2>2, <2>3 DEF WrapInv, WrappedOnceStarted, Running
<1>6. CASE StartTransaction
  <2>1. /\ stack' # <<>> /\ Top' = Frame(Private, "START")
        /\ UNCHANGED <<outside, startFailed>>
    BY <1>6, StartShape DEF Top, StartTransaction, histories
  <2>2. Top'.q = "START"
    BY <2>1 DEF Frame
  <2> QED BY <2>1, <2>2 DEF WrapInv, WrappedOnceStarted, Starting, Statements
<1>7. CASE RunOk
  <2>1. /\ stack # <<>> /\ Top.pc = "run" /\ UNCHANGED <<call, outcome, in_transaction, startFailed>>
        /\ stack \in Seq(Frames) /\ Len(stack') = Len(stack) - 1
        /\ call \in Ending => stack' = <<>>
        /\ stack' # <<>> => Top' = stack[Len(stack) - 1]
        /\ outcome = "none"
    BY <1>7, RunOkFacts DEF connection, StackShape, TypeOK
  <2>2. /\ srv_txn' = TxnAfter(Top.q) /\ up
        /\ outside' = (outside \/ (Top.q \in Statements /\ ~read_only /\ ~srv_txn))
    BY <1>7 DEF RunOk
  <2>3. /\ Top = stack[Len(stack)] /\ Len(stack) \in 1 .. Len(stack) /\ Len(stack) \in Nat
        /\ Top.q \in Commands
    BY <2>1, TopFacts
  <2>4. CASE Top.q = "START"
    <3>1. srv_txn' /\ (outside' => outside)
      BY <2>2, <2>4 DEF TxnAfter, Statements
    <3> QED BY <2>1, <3>1 DEF WrapInv, WrappedOnceStarted
  <2>5. CASE Top.q \in {"COMMIT", "ROLLBACK"}
    <3>1. Top.q \notin Statements
      BY <2>5 DEF Statements
    <3>3. outside' => outside
      BY <2>2, <3>1
    <3>4. call \in Ending /\ stack' = <<>>
      BY <2>1, <2>3, <2>5 DEF StackShape
    <3>2. Ended'
      BY <2>1, <3>4 DEF Ended
    <3> QED BY <2>1, <3>2, <3>3, <3>4 DEF WrapInv, WrappedOnceStarted
  <2>6. CASE Top.q \in Statements
    <3>1. srv_txn' = srv_txn /\ ~Starting /\ ~Ended
      BY <2>1, <2>2, <2>6 DEF TxnAfter, Statements, Starting, Ended
    <3>2. ~read_only => srv_txn \/ startFailed
      BY <2>1, <2>2, <2>6 DEF WrapInv, Running
    <3>3. stack' # <<>> => Top'.pc = "many"
      <4>1. stack' # <<>> => Len(stack) - 1 \in 1 .. Len(stack) /\ Len(stack) - 1 < Len(stack)
                            /\ stack[Len(stack) - 1 + 1] = Top
        <5>1. stack' # <<>> => Len(stack) - 1 > 0
          BY <1>7, <2>1, RunOkFacts, NonEmpty
        <5> QED BY <2>3, <5>1
      <4> QED BY <2>1, <2>6, <4>1 DEF StackShape, Statements
    <3>4. outside' => startFailed
      BY <2>2, <3>2 DEF WrapInv, WrappedOnceStarted
    <3> QED BY <1>u, <2>1, <2>2, <3>1, <3>3, <3>4 DEF WrapInv, WrappedOnceStarted, Running
  <2> QED BY <2>3, <2>4, <2>5, <2>6 DEF Commands
<1>8. CASE NextBatch
  <2>1. /\ UNCHANGED <<call, in_transaction, startFailed, outside>>
        /\ srv_txn' = srv_txn \/ ~up'
        /\ stack # <<>> /\ Top.q \in Statements /\ call \notin Ending
    BY <1>8, ManyIsAlone DEF NextBatch, connection, histories, Trip, NoTrip, Answered, Lost, At
  <2>2. ~Starting /\ ~Ended
    BY <2>1 DEF Starting, Ended, Statements
  <2>3. stack' # <<>> => Top'.pc = "enter"
    <3>1. Frame(Top.c, Top.q).pc = "enter" /\ Top' = stack'[Len(stack')]
      BY DEF Frame, Top
    <3> QED BY <1>8, <3>1, BatchShape
  <2> QED BY <1>u, <2>1, <2>2, <2>3 DEF WrapInv, WrappedOnceStarted, Running
<1> QED BY <1>1, <1>2, <1>3, <1>4, <1>5, <1>6, <1>7, <1>8, ActionGroups

(* On a read-only connection only a SELECT gets past execute()'s guards.    *)
LEMMA ReadOnlyNext ==
    ASSUME TypeOK, StackShape, FlagInv, ReadOnlyInv, [Next]_vars
    PROVE  ReadOnlyInv'
<1> SUFFICES ASSUME read_only'
             PROVE  /\ ~in_transaction' /\ ~wrote'
                    /\ \A i \in 1 .. Len(stack') :
                          stack'[i].pc \in Running => stack'[i].q = "SELECT"
  BY DEF ReadOnlyInv
<1>r. /\ read_only /\ ~in_transaction /\ ~wrote
      /\ \A i \in 1 .. Len(stack) : stack[i].pc \in Running => stack[i].q = "SELECT"
  BY Monotone DEF ReadOnlyInv
<1>1. CASE Raises
  BY <1>r, <1>1, RaisesFacts, EmptySeq
<1>2. CASE Continues
  <2>1. /\ stack # <<>> /\ Len(stack') = Len(stack) /\ UNCHANGED in_transaction
        /\ \A i \in 1 .. Len(stack) : stack'[i].q = stack[i].q
        /\ \A i \in 1 .. Len(stack) : i # Len(stack) => stack'[i] = stack[i]
    BY <1>2, ContinuesFacts DEF connection
  <2>2. Top = stack[Len(stack)] /\ Len(stack) \in 1 .. Len(stack)
    BY <2>1, TopFacts
  <2>3. Top.pc \in Running \/ ExecuteInTransaction
    BY <1>2 DEF Continues, CleanUp, Prepare, At, Running
  <2>4. ExecuteInTransaction => Top.q = "SELECT"
    BY <1>r DEF ExecuteInTransaction, MayExecute
  <2>5. Top.q = "SELECT"
    BY <1>r, <2>2, <2>3, <2>4
  <2>6. ~wrote'
    <3>1. wrote' => wrote \/ Top.q # "SELECT"
      BY <1>2 DEF Continues, ExecuteInTransaction, CleanUp, Prepare, histories
    <3> QED BY <1>r, <2>5, <3>1
  <2>7. \A i \in 1 .. Len(stack') : stack'[i].pc \in Running => stack'[i].q = "SELECT"
    BY <1>r, <2>1, <2>2, <2>5
  <2> QED BY <1>r, <2>1, <2>6, <2>7
<1>3. CASE Returns
  <2>1. UNCHANGED <<stack, wrote>> /\ (EndTransaction \/ UNCHANGED in_transaction)
    BY <1>3, ReturnsFacts DEF histories
  <2>2. EndTransaction => ~in_transaction'
    BY DEF EndTransaction, ClearFlag
  <2> QED BY <1>r, <2>1, <2>2
<1>4. CASE Others
  <2>1. UNCHANGED <<stack, wrote, in_transaction>>
    BY <1>4, OthersFacts DEF histories, connection
  <2> QED BY <1>r, <2>1
<1>5. CASE CallStep
  <2>1. UNCHANGED <<in_transaction, wrote>>
    BY <1>5 DEF CallStep, CallExecute, CallExecuteMany, CallCommit, CallRollback, CallClose,
                EndTransactionBy, Call, connection, histories
  <2>2. CASE CallExecute \/ CallExecuteMany
    BY <1>r, <2>1, <2>2, ExecuteCallShape, ManyCallShape DEF Running
  <2>3. CASE CallCommit \/ CallRollback \/ CallClose
    BY <1>r, <2>1, <2>3, EndingCalls, EndingCallShape, EmptySeq
  <2> QED BY <1>5, <2>2, <2>3 DEF CallStep
<1>6. CASE StartTransaction
  BY <1>r, <1>6 DEF StartTransaction, NeedsTransaction
<1>7. CASE RunOk
  <2>1. /\ UNCHANGED <<in_transaction, wrote>>
        /\ \A i \in 1 .. Len(stack') : stack'[i] = stack[i] /\ i \in 1 .. Len(stack)
    <3>1. /\ stack # <<>> /\ UNCHANGED in_transaction /\ Len(stack') = Len(stack) - 1
          /\ \A i \in 1 .. Len(stack') : stack'[i] = stack[i]
      BY <1>7, RunOkFacts DEF connection
    <3> QED BY <1>7, <3>1, TopFacts DEF RunOk
  <2> QED BY <1>r, <2>1
<1>8. CASE NextBatch
  <2>1. UNCHANGED <<in_transaction, wrote>> /\ Len(stack) = 1
    BY <1>8, ManyIsAlone DEF NextBatch, connection, histories
  <2>2. \A i \in 1 .. Len(stack') : stack'[i] = stack[1] \/ stack'[i].pc \notin Running
    <3>1. /\ stack' = <<>> => Len(stack') = 0
          /\ stack' # <<>> => Len(stack') = 2 /\ stack'[1] = stack[1]
                              /\ stack'[2] = Frame(Top.c, Top.q)
      BY <1>8, BatchShape, EmptySeq
    <3>2. Frame(Top.c, Top.q).pc \notin Running
      BY DEF Frame, Running
    <3> QED BY <3>1, <3>2
  <2> QED BY <1>r, <2>1, <2>2
<1> QED BY <1>1, <1>2, <1>3, <1>4, <1>5, <1>6, <1>7, <1>8, ActionGroups

-----------------------------------------------------------------------------
(* The types.                                                              *)
LEMMA NewIsFree ==
    ASSUME TypeOK, HasMemory
    PROVE  New \in Blocks /\ New \notin live
BY DEF New, HasMemory, TypeOK

LEMMA CursorTypeNext ==
    ASSUME TypeOK, [Next]_vars
    PROVE  /\ closed' \in [Cursors -> BOOLEAN]
           /\ resulttype' \in [Cursors -> {"none", "rows", "empty"}]
           /\ result' \in [Cursors -> Pointers]
           /\ fourd_query' \in [Cursors -> Pointers]
           /\ live' \subseteq Blocks
<1> DEFINE T == /\ closed' \in [Cursors -> BOOLEAN]
                /\ resulttype' \in [Cursors -> {"none", "rows", "empty"}]
                /\ result' \in [Cursors -> Pointers]
                /\ fourd_query' \in [Cursors -> Pointers]
                /\ live' \subseteq Blocks
<1> SUFFICES T
  OBVIOUS
<1>t. /\ closed \in [Cursors -> BOOLEAN]
      /\ resulttype \in [Cursors -> {"none", "rows", "empty"}]
      /\ result \in [Cursors -> Pointers]
      /\ fourd_query \in [Cursors -> Pointers]
      /\ live \subseteq Blocks
  BY DEF TypeOK
<1>n. None \in Pointers /\ NULL \in Pointers /\ Blocks \subseteq Pointers
  BY DEF Pointers
<1>u. UNCHANGED cursor => T
  BY <1>t DEF cursor
<1>f. FreeResults => T
  BY <1>t, <1>n DEF FreeResults
<1> HIDE DEF T
<1>1. CASE CleanUp
  BY <1>t, <1>n, <1>1 DEF CleanUp, T
<1>2. CASE Prepare
  BY <1>t, <1>n, <1>2, NewIsFree DEF Prepare, T
<1>3. CASE PrepareNotConnected
  BY <1>t, <1>n, <1>3 DEF PrepareNotConnected, T
<1>4. CASE RunOk
  <2>1. PICK y \in {"rows", "empty"} : resulttype' = [resulttype EXCEPT ![Top.c] = y]
    BY <1>4 DEF RunOk
  <2> QED BY <1>t, <1>n, <1>4, <2>1, NewIsFree DEF RunOk, T
<1>5. CASE RunFails
  BY <1>t, <1>n, <1>5 DEF RunFails, T
<1>6. CASE NextBatch
  BY <1>t, <1>n, <1>6 DEF NextBatch, T
<1>7. CASE Disconnect \/ DisconnectFails \/ CloseAgain
  BY <1>f, <1>7 DEF Disconnect, DisconnectFails, CloseAgain
<1>8. CASE CloseCursor
  BY <1>t, <1>n, <1>8 DEF CloseCursor, T
<1>9. CASE ExitCursor
  BY <1>t, <1>n, <1>9 DEF ExitCursor, ForgetStatement, T
<1>10. CASE CallStep
  BY <1>u, <1>10 DEF CallStep, CallExecute, CallExecuteMany, CallCommit, CallRollback,
                     CallClose, EndTransactionBy, Call
<1>11. CASE LinkDrops \/ ExecuteRejected \/ ExecuteInTransaction \/ StartTransaction
            \/ BindRaises \/ ExecuteReturns \/ EndTransaction \/ Fetch \/ UNCHANGED vars
  BY <1>u, <1>11 DEF LinkDrops, ExecuteRejected, ExecuteInTransaction, StartTransaction,
                     BindRaises, ExecuteReturns, EndTransaction, Fetch, vars
<1> QED BY <1>1, <1>2, <1>3, <1>4, <1>5, <1>6, <1>7, <1>8, <1>9, <1>10, <1>11
        DEF Next, CallStep

LEMMA ConnectionTypeNext ==
    ASSUME TypeOK, [Next]_vars
    PROVE  /\ connected' \in BOOLEAN /\ in_transaction' \in BOOLEAN /\ read_only' \in BOOLEAN
           /\ cnx_freed' \in BOOLEAN
<1> DEFINE T == /\ connected' \in BOOLEAN /\ in_transaction' \in BOOLEAN
                /\ read_only' \in BOOLEAN
           U == cnx_freed' \in BOOLEAN
<1> SUFFICES T /\ U
  OBVIOUS
<1>t. /\ connected \in BOOLEAN /\ in_transaction \in BOOLEAN /\ read_only \in BOOLEAN
      /\ cnx_freed \in BOOLEAN
  BY DEF TypeOK
<1>u. UNCHANGED connection => T
  BY <1>t DEF connection
<1>v. connected' \in {connected, FALSE} /\ in_transaction' \in {in_transaction, TRUE, FALSE}
      /\ UNCHANGED read_only => T
  BY <1>t
<1>w. UNCHANGED cnx_freed => U
  BY <1>t
<1>x. cnx_freed' = TRUE => U
  OBVIOUS
<1> HIDE DEF T, U
<1>1. CASE Raises
  BY <1>v, <1>w, <1>1 DEF Raises, Raise, ExecuteRejected, PrepareNotConnected, BindRaises,
                          RunFails, DisconnectFails
<1>2. CASE Continues
  BY <1>u, <1>w, <1>2 DEF Continues, ExecuteInTransaction, CleanUp, Prepare
<1>3. CASE Returns
  <2>1. T
    BY <1>u, <1>v, <1>3 DEF Returns, ExecuteReturns, EndTransaction, Disconnect, CloseAgain,
                            Disconnected, ClearFlag
  <2>2. U
    BY <1>w, <1>x, <1>3 DEF Returns, ExecuteReturns, EndTransaction, Disconnect, CloseAgain
  <2> QED BY <2>1, <2>2
<1>4. CASE Others
  BY <1>u, <1>w, <1>4 DEF Others, LinkDrops, Fetch, CloseCursor, ExitCursor, vars
<1>5. CASE CallStep
  BY <1>u, <1>w, <1>5 DEF CallStep, CallExecute, CallExecuteMany, CallCommit, CallRollback,
                          CallClose, EndTransactionBy, Call
<1>6. CASE StartTransaction
  BY <1>v, <1>w, <1>6 DEF StartTransaction, SetFlag
<1>7. CASE RunOk \/ NextBatch
  BY <1>u, <1>w, <1>7 DEF RunOk, NextBatch
<1> QED BY <1>1, <1>2, <1>3, <1>4, <1>5, <1>6, <1>7, ActionGroups

LEMMA LinkTypeNext ==
    ASSUME TypeOK, [Next]_vars
    PROVE  cnx_connected' \in BOOLEAN /\ up' \in BOOLEAN /\ srv_txn' \in BOOLEAN
<1> DEFINE T == cnx_connected' \in BOOLEAN /\ up' \in BOOLEAN /\ srv_txn' \in BOOLEAN
<1> SUFFICES T
  OBVIOUS
<1>t. cnx_connected \in BOOLEAN /\ up \in BOOLEAN /\ srv_txn \in BOOLEAN
  BY DEF TypeOK
<1>u. UNCHANGED <<link, srv_txn>> => T
  BY <1>t DEF link
<1>v. Trip => T
  BY <1>t DEF Trip, Answered, Lost, link
<1>w. NoTrip => T
  BY <1>t DEF NoTrip, link
<1>x. up' = FALSE /\ srv_txn' = FALSE /\ cnx_connected' \in {cnx_connected, FALSE} => T
  BY <1>t
<1>y. UNCHANGED link /\ srv_txn' = TxnAfter(Top.q) => T
  BY <1>t DEF link, TxnAfter
<1> HIDE DEF T
<1>1. CASE Raises
  BY <1>u, <1>v, <1>1 DEF Raises, ExecuteRejected, PrepareNotConnected, BindRaises, RunFails,
                          DisconnectFails
<1>2. CASE Continues
  BY <1>u, <1>v, <1>w, <1>2 DEF Continues, ExecuteInTransaction, CleanUp, Prepare
<1>3. CASE Returns
  BY <1>u, <1>x, <1>3 DEF Returns, ExecuteReturns, EndTransaction, Disconnect, CloseAgain
<1>4. CASE Others
  BY <1>u, <1>v, <1>w, <1>x, <1>4 DEF Others, LinkDrops, Fetch, CloseCursor, ExitCursor, vars
<1>5. CASE CallStep
  BY <1>u, <1>5 DEF CallStep, CallExecute, CallExecuteMany, CallCommit, CallRollback,
                    CallClose, EndTransactionBy, Call
<1>6. CASE StartTransaction \/ RunOk
  BY <1>u, <1>y, <1>6 DEF StartTransaction, RunOk
<1>7. CASE NextBatch
  BY <1>v, <1>w, <1>7 DEF NextBatch
<1> QED BY <1>1, <1>2, <1>3, <1>4, <1>5, <1>6, <1>7, ActionGroups

CallNames == {"connect", "execute", "executemany", "commit", "rollback", "close"}

LEMMA ControlTypeNext ==
    ASSUME TypeOK, StackShape, [Next]_vars
    PROVE  /\ call' \in CallNames
           /\ left' \in 0 .. MaxBatch - 1
           /\ outcome' \in {"none", "ok", "raised"}
<1> DEFINE T == /\ call' \in CallNames
                /\ left' \in 0 .. MaxBatch - 1
                /\ outcome' \in {"none", "ok", "raised"}
<1> SUFFICES T
  OBVIOUS
<1>t. /\ call \in CallNames /\ left \in 0 .. MaxBatch - 1
      /\ outcome \in {"none", "ok", "raised"}
      /\ 0 \in 0 .. MaxBatch - 1
  BY BatchAssumption DEF TypeOK, CallNames
<1>u. UNCHANGED call /\ left' \in {0, left} /\ outcome' \in {outcome, "ok", "raised"} => T
  BY <1>t
<1> HIDE DEF T
<1>1. CASE Raises
  BY <1>u, <1>1, RaisesFacts
<1>2. CASE Continues
  BY <1>u, <1>2, ContinuesFacts
<1>3. CASE Returns
  BY <1>u, <1>3, ReturnsFacts
<1>4. CASE Others
  BY <1>u, <1>4, OthersFacts
<1>5. CASE CallStep
  <2>1. outcome' = "none"
    BY <1>5 DEF CallStep, CallExecute, CallExecuteMany, CallCommit, CallRollback, CallClose,
                EndTransactionBy, Call
  <2>2. CASE CallExecute
    BY <1>t, <2>1, <2>2 DEF CallExecute, Call, T, CallNames
  <2>3. CASE CallExecuteMany
    BY <1>t, <2>1, <2>3, ManyCallShape DEF T, CallNames
  <2>4. CASE CallCommit \/ CallRollback \/ CallClose
    <3>1. call' \in CallNames /\ left' = 0
      BY <2>4 DEF CallCommit, CallRollback, CallClose, EndTransactionBy, Call, CallNames
    <3> QED BY <1>t, <2>1, <3>1 DEF T
  <2> QED BY <1>5, <2>2, <2>3, <2>4 DEF CallStep
<1>6. CASE StartTransaction
  BY <1>u, <1>6 DEF StartTransaction
<1>7. CASE RunOk
  BY <1>u, <1>7 DEF RunOk
<1>8. CASE NextBatch
  <2>1. left' \in 0 .. MaxBatch - 1
    <3>1. CASE left > 0 /\ left' = left - 1
      BY <1>t, <3>1, BatchAssumption
    <3>2. CASE left' = left
      BY <1>t, <3>2
    <3> QED BY <1>8, <3>1, <3>2 DEF NextBatch, MoreBatches
  <2>2. UNCHANGED call /\ outcome' \in {outcome, "ok"}
    BY <1>8 DEF NextBatch
  <2> QED BY <1>t, <2>1, <2>2 DEF T
<1> QED BY <1>1, <1>2, <1>3, <1>4, <1>5, <1>6, <1>7, <1>8, ActionGroups

LEMMA HistoryTypeNext ==
    ASSUME TypeOK, [Next]_vars
    PROVE  {leaked', outside', wrote', startFailed'} \subseteq BOOLEAN
<1> DEFINE T == {leaked', outside', wrote', startFailed'} \subseteq BOOLEAN
<1> SUFFICES T
  OBVIOUS
<1>t. {leaked, outside, wrote, startFailed} \subseteq BOOLEAN
  BY DEF TypeOK
<1>u. UNCHANGED histories => T
  BY <1>t DEF histories
<1>1. CASE Raises
  <2>1. UNCHANGED <<leaked, outside, wrote>> /\ startFailed' \in BOOLEAN
    BY <1>1, RaisesFacts
  <2> QED BY <1>t, <2>1
<1>2. CASE CleanUp
  <2>1. leaked' \in BOOLEAN /\ UNCHANGED <<outside, wrote, startFailed>>
    BY <1>2 DEF CleanUp
  <2> QED BY <1>t, <2>1
<1>3. CASE Prepare
  <2>1. wrote' \in BOOLEAN /\ UNCHANGED <<leaked, outside, startFailed>>
    BY <1>3 DEF Prepare
  <2> QED BY <1>t, <2>1
<1>4. CASE RunOk
  <2>1. outside' \in BOOLEAN /\ UNCHANGED <<leaked, wrote, startFailed>>
    BY <1>4 DEF RunOk
  <2> QED BY <1>t, <2>1
<1> HIDE DEF T
<1>5. CASE ExecuteInTransaction \/ StartTransaction \/ NextBatch
  BY <1>u, <1>5 DEF ExecuteInTransaction, StartTransaction, NextBatch
<1>6. CASE Returns
  BY <1>u, <1>6, ReturnsFacts
<1>7. CASE Others
  BY <1>u, <1>7, OthersFacts
<1>8. CASE CallStep
  BY <1>u, <1>8 DEF CallStep, CallExecute, CallExecuteMany, CallCommit, CallRollback,
                    CallClose, EndTransactionBy, Call
<1> QED BY <1>1, <1>2, <1>3, <1>4, <1>5, <1>6, <1>7, <1>8, ActionGroups DEF Continues

LEMMA TypeNext ==
    ASSUME TypeOK, StackShape, FlagInv, [Next]_vars
    PROVE  TypeOK'
BY CursorTypeNext, ConnectionTypeNext, LinkTypeNext, ControlTypeNext, HistoryTypeNext,
   ShapeNext DEF TypeOK, CallNames

-----------------------------------------------------------------------------
(* Who owns the blocks, as a relation between results r, statements f and  *)
(* allocated blocks l.                                                     *)
Owned(r, f, l) ==
    /\ ({r[c] : c \in Cursors} \union {f[c] : c \in Cursors}) \intersect Blocks = l
    /\ \A c, d \in Cursors : r[c] \in Blocks => r[c] # f[d] /\ (r[c] = r[d] => c = d)
    /\ \A c, d \in Cursors : f[c] \in Blocks => (f[c] = f[d] => c = d)

LEMMA OwnersAreOwned == EachBlockHasOneOwner <=> Owned(result, fourd_query, live)
BY DEF EachBlockHasOneOwner, Owned, Held

LEMMA OwnersAreOwnedNext == EachBlockHasOneOwner' <=> Owned(result', fourd_query', live')
BY DEF EachBlockHasOneOwner, Owned, Held

(* A pointer is replaced: what it pointed to is freed, what it points to   *)
(* now is new.                                                             *)
LEMMA ReplaceResult ==
    ASSUME NEW r \in [Cursors -> Pointers], NEW f \in [Cursors -> Pointers],
           NEW l \in SUBSET Blocks, Owned(r, f, l),
           NEW c \in Cursors, NEW v \in Pointers, v \notin l
    PROVE  Owned([r EXCEPT ![c] = v], f, (l \ {r[c]}) \union ({v} \intersect Blocks))
<1> DEFINE s == [r EXCEPT ![c] = v]
           m == (l \ {r[c]}) \union ({v} \intersect Blocks)
<1>1. s[c] = v /\ \A d \in Cursors : d # c => s[d] = r[d]
  OBVIOUS
<1>2. \A d \in Cursors : (r[d] \in Blocks => r[d] \in l) /\ (f[d] \in Blocks => f[d] \in l)
  BY DEF Owned
<1> HIDE DEF s
<1>3. \A d, e \in Cursors : s[d] \in Blocks => s[d] # f[e] /\ (s[d] = s[e] => d = e)
  BY <1>1, <1>2 DEF Owned
<1>4. ({s[d] : d \in Cursors} \union {f[d] : d \in Cursors}) \intersect Blocks = m
  <2>1. ASSUME NEW b \in Blocks
        PROVE  b \in m <=> (\E d \in Cursors : s[d] = b) \/ (\E d \in Cursors : f[d] = b)
    <3>1. b \in l <=> (\E d \in Cursors : r[d] = b) \/ (\E d \in Cursors : f[d] = b)
      BY DEF Owned
    <3>2. CASE b = v
      BY <1>1, <3>2
    <3>3. CASE b # v /\ b = r[c]
      <4>1. \A d \in Cursors : f[d] # b /\ (r[d] = b => d = c)
        BY <3>3 DEF Owned
      <4> QED BY <1>1, <3>3, <4>1
    <3>4. CASE b # v /\ b # r[c]
      BY <1>1, <3>1, <3>4
    <3> QED BY <3>2, <3>3, <3>4
  <2>2. m \subseteq Blocks
    OBVIOUS
  <2> HIDE DEF m
  <2> QED BY <2>1, <2>2
<1> QED BY <1>3, <1>4 DEF Owned, s

LEMMA ReplaceStatement ==
    ASSUME NEW r \in [Cursors -> Pointers], NEW f \in [Cursors -> Pointers],
           NEW l \in SUBSET Blocks, Owned(r, f, l),
           NEW c \in Cursors, NEW v \in Pointers, v \notin l
    PROVE  Owned(r, [f EXCEPT ![c] = v], (l \ {f[c]}) \union ({v} \intersect Blocks))
<1> DEFINE s == [f EXCEPT ![c] = v]
           m == (l \ {f[c]}) \union ({v} \intersect Blocks)
<1>1. s[c] = v /\ \A d \in Cursors : d # c => s[d] = f[d]
  OBVIOUS
<1>2. \A d \in Cursors : (r[d] \in Blocks => r[d] \in l) /\ (f[d] \in Blocks => f[d] \in l)
  BY DEF Owned
<1> HIDE DEF s
<1>3. /\ \A d, e \in Cursors : s[d] \in Blocks => (s[d] = s[e] => d = e)
      /\ \A d, e \in Cursors : r[d] \in Blocks => r[d] # s[e] /\ (r[d] = r[e] => d = e)
  BY <1>1, <1>2 DEF Owned
<1>4. ({r[d] : d \in Cursors} \union {s[d] : d \in Cursors}) \intersect Blocks = m
  <2>1. ASSUME NEW b \in Blocks
        PROVE  b \in m <=> (\E d \in Cursors : r[d] = b) \/ (\E d \in Cursors : s[d] = b)
    <3>1. b \in l <=> (\E d \in Cursors : r[d] = b) \/ (\E d \in Cursors : f[d] = b)
      BY DEF Owned
    <3>2. CASE b = v
      BY <1>1, <3>2
    <3>3. CASE b # v /\ b = f[c]
      <4>1. \A d \in Cursors : r[d] # b /\ (f[d] = b => d = c)
        BY <3>3 DEF Owned
      <4> QED BY <1>1, <3>3, <4>1
    <3>4. CASE b # v /\ b # f[c]
      BY <1>1, <3>1, <3>4
    <3> QED BY <3>2, <3>3, <3>4
  <2>2. m \subseteq Blocks
    OBVIOUS
  <2> HIDE DEF m
  <2> QED BY <2>1, <2>2
<1> QED BY <1>3, <1>4 DEF Owned, s

(* Every result is freed.                                                  *)
LEMMA FreeResultsOwners ==
    ASSUME TypeOK, EachBlockHasOneOwner, FreeResults
    PROVE  EachBlockHasOneOwner' /\ \A c \in Cursors : result'[c] \notin Blocks
<1>1. /\ \A c \in Cursors : result'[c] = IF result[c] \in Blocks THEN None ELSE result[c]
      /\ UNCHANGED fourd_query
      /\ live' = live \ {result[c] : c \in Cursors}
  BY DEF FreeResults
<1>2. \A c \in Cursors : result'[c] \notin Blocks
  BY <1>1, PointersAssumption
<1>3. Owned(result, fourd_query, live)
  BY OwnersAreOwned
<1>4. ({result'[c] : c \in Cursors} \union {fourd_query'[c] : c \in Cursors})
         \intersect Blocks = live'
  <2>1. ASSUME NEW b \in Blocks
        PROVE  b \in live' <=> \E c \in Cursors : fourd_query[c] = b
    <3>1. b \in live <=> (\E d \in Cursors : result[d] = b)
                         \/ (\E d \in Cursors : fourd_query[d] = b)
      BY <1>3 DEF Owned
    <3>2. \A c, d \in Cursors : result[c] = b => fourd_query[d] # b
      BY <1>3 DEF Owned
    <3> QED BY <1>1, <3>1, <3>2
  <2>2. live' \subseteq Blocks
    BY <1>1 DEF TypeOK
  <2> QED BY <1>1, <1>2, <2>1, <2>2
<1>5. Owned(result', fourd_query', live')
  BY <1>1, <1>2, <1>3, <1>4 DEF Owned
<1> QED BY <1>2, <1>5, OwnersAreOwnedNext

LEMMA CleanUpOwners ==
    ASSUME TypeOK, EachBlockHasOneOwner, CleanUp
    PROVE  EachBlockHasOneOwner' /\ fourd_query'[Top.c] \notin Blocks
<1> DEFINE c == Top.c
           v == IF result[c] \in Blocks THEN None ELSE result[c]
           w == IF {fourd_query[c]} \intersect Blocks # {} THEN None ELSE fourd_query[c]
<1>1. c \in Cursors
  BY TopFacts DEF CleanUp, At
<1>2. /\ result \in [Cursors -> Pointers] /\ fourd_query \in [Cursors -> Pointers]
      /\ live \in SUBSET Blocks
  BY DEF TypeOK
<1>3. /\ result' = [result EXCEPT ![c] = v] /\ fourd_query' = [fourd_query EXCEPT ![c] = w]
      /\ live' = live \ (({fourd_query[c]} \intersect Blocks) \union {result[c]})
  BY DEF CleanUp
<1>4. v \in Pointers /\ v \notin Blocks /\ w \in Pointers /\ w \notin Blocks
  BY <1>1, <1>2, PointersAssumption DEF Pointers
<1> HIDE DEF c, v, w
<1>5. Owned(result', fourd_query, (live \ {result[c]}) \union ({v} \intersect Blocks))
  BY <1>1, <1>2, <1>3, <1>4, OwnersAreOwned, ReplaceResult
<1> DEFINE m == (live \ {result[c]}) \union ({v} \intersect Blocks)
<1>6. m \in SUBSET Blocks /\ result' \in [Cursors -> Pointers] /\ w \notin m
  BY <1>1, <1>2, <1>3, <1>4
<1>7. live' = (m \ {fourd_query[c]}) \union ({w} \intersect Blocks)
  BY <1>2, <1>3, <1>4
<1> HIDE DEF m
<1>8. Owned(result', fourd_query', (m \ {fourd_query[c]}) \union ({w} \intersect Blocks))
  BY <1>1, <1>2, <1>3, <1>4, <1>5, <1>6, ReplaceStatement DEF m
<1>9. fourd_query'[c] = w
  BY <1>1, <1>2, <1>3
<1> QED BY <1>4, <1>7, <1>8, <1>9, OwnersAreOwnedNext DEF c

LEMMA ResultOwners ==
    ASSUME TypeOK, EachBlockHasOneOwner, NEW c \in Cursors, NEW v \in Pointers, v \notin live,
           result' = [result EXCEPT ![c] = v], UNCHANGED fourd_query,
           live' = (live \ {result[c]}) \union ({v} \intersect Blocks)
    PROVE  EachBlockHasOneOwner'
<1>1. /\ result \in [Cursors -> Pointers] /\ fourd_query \in [Cursors -> Pointers]
      /\ live \in SUBSET Blocks
  BY DEF TypeOK
<1>2. Owned(result, fourd_query, live)
  BY OwnersAreOwned
<1> QED BY <1>1, <1>2, ReplaceResult, OwnersAreOwnedNext

LEMMA StatementOwners ==
    ASSUME TypeOK, EachBlockHasOneOwner, NEW c \in Cursors, NEW v \in Pointers, v \notin live,
           fourd_query' = [fourd_query EXCEPT ![c] = v], UNCHANGED result,
           live' = (live \ {fourd_query[c]}) \union ({v} \intersect Blocks)
    PROVE  EachBlockHasOneOwner'
<1>1. /\ result \in [Cursors -> Pointers] /\ fourd_query \in [Cursors -> Pointers]
      /\ live \in SUBSET Blocks
  BY DEF TypeOK
<1>2. Owned(result, fourd_query, live)
  BY OwnersAreOwned
<1> QED BY <1>1, <1>2, ReplaceStatement, OwnersAreOwnedNext

(* The steps that leave pointers and blocks alone.                         *)
LEMMA SameOwners ==
    ASSUME EachBlockHasOneOwner, UNCHANGED <<result, fourd_query, live>>
    PROVE  EachBlockHasOneOwner'
BY OwnersAreOwned, OwnersAreOwnedNext

LEMMA OneOwnerNext ==
    ASSUME TypeOK, StackShape, OwnersInv, [Next]_vars
    PROVE  EachBlockHasOneOwner'
<1> DEFINE P == EachBlockHasOneOwner'
<1> SUFFICES P
  OBVIOUS
<1>o. EachBlockHasOneOwner
  BY DEF OwnersInv
<1>u. UNCHANGED cursor => P
  BY <1>o, SameOwners DEF cursor
<1>f. FreeResults => P
  BY <1>o, FreeResultsOwners
<1>n. /\ None \in Pointers /\ NULL \in Pointers /\ None \notin Blocks /\ NULL \notin Blocks
      /\ Blocks \subseteq Pointers
  BY PointersAssumption DEF Pointers
<1>b. live \subseteq Blocks
  BY DEF TypeOK
<1> HIDE DEF P
<1>1. CASE CleanUp
  BY <1>o, <1>1, CleanUpOwners DEF P
<1>2. CASE Prepare
  <2>1. Top.c \in Cursors /\ fourd_query[Top.c] \notin Blocks /\ New \in Blocks /\ New \notin live
    BY <1>2, TopFacts, NewIsFree DEF Prepare, At, OwnersInv
  <2>2. /\ fourd_query' = [fourd_query EXCEPT ![Top.c] = New] /\ UNCHANGED result
        /\ live' = live \union {New}
    BY <1>2 DEF Prepare
  <2>3. live' = (live \ {fourd_query[Top.c]}) \union ({New} \intersect Blocks)
    BY <1>b, <2>1, <2>2
  <2> QED BY <1>o, <1>n, <2>1, <2>2, <2>3, StatementOwners DEF P
<1>3. CASE PrepareNotConnected
  <2>1. Top.c \in Cursors /\ fourd_query[Top.c] \notin Blocks
    BY <1>3, TopFacts DEF PrepareNotConnected, At, OwnersInv
  <2>2. /\ fourd_query' = [fourd_query EXCEPT ![Top.c] = NULL]
        /\ UNCHANGED <<result, live>>
    BY <1>3 DEF PrepareNotConnected
  <2>3. live' = (live \ {fourd_query[Top.c]}) \union ({NULL} \intersect Blocks)
    BY <1>b, <1>n, <2>1, <2>2
  <2>4. NULL \notin live
    BY <1>b, <1>n
  <2> QED BY <1>o, <1>n, <2>1, <2>2, <2>3, <2>4, StatementOwners DEF P
<1>4. CASE RunOk
  <2>1. Top.c \in Cursors /\ New \in Blocks /\ New \notin live
    BY <1>4, TopFacts, NewIsFree DEF RunOk, At
  <2>2. /\ result' = [result EXCEPT ![Top.c] = New] /\ UNCHANGED fourd_query
        /\ live' = (live \ {result[Top.c]}) \union {New}
    BY <1>4 DEF RunOk
  <2>3. live' = (live \ {result[Top.c]}) \union ({New} \intersect Blocks)
    BY <2>1, <2>2
  <2> QED BY <1>o, <1>n, <2>1, <2>2, <2>3, ResultOwners DEF P
<1>d. ASSUME NEW c \in Cursors, NEW v \in {None, NULL},
             result' = [result EXCEPT ![c] = v], UNCHANGED fourd_query,
             live' = live \ {result[c]}
      PROVE  P
  <2>1. v \notin live /\ v \in Pointers
    BY <1>b, <1>n
  <2>2. live' = (live \ {result[c]}) \union ({v} \intersect Blocks)
    BY <1>d, <1>n
  <2> QED BY <1>o, <1>d, <2>1, <2>2, ResultOwners DEF P
<1>5. CASE RunFails
  <2>1. Top.c \in Cursors
    BY <1>5, TopFacts DEF RunFails, At
  <2> QED BY <1>d, <1>5, <2>1 DEF RunFails
<1>6. CASE NextBatch
  <2>1. Top.c \in Cursors /\ UNCHANGED fourd_query
    BY <1>6, TopFacts DEF NextBatch, At
  <2>2. CASE result[Top.c] \in Blocks
    BY <1>d, <1>6, <2>1, <2>2 DEF NextBatch
  <2>3. CASE result[Top.c] \notin Blocks
    BY <1>o, <1>6, <2>1, <2>3, SameOwners DEF NextBatch, P
  <2> QED BY <2>2, <2>3
<1>7. CASE Disconnect \/ DisconnectFails \/ CloseAgain
  BY <1>f, <1>7 DEF Disconnect, DisconnectFails, CloseAgain
<1>8. CASE CloseCursor
  <2>1. PICK c \in Users : /\ live' = live \ {result[c]}
                           /\ result' = [result EXCEPT ![c] = None]
    BY <1>8 DEF CloseCursor
  <2>2. c \in Cursors /\ UNCHANGED fourd_query
    BY <1>8 DEF CloseCursor, Cursors
  <2> QED BY <1>d, <2>1, <2>2
<1>9. CASE ExitCursor
  <2>1. PICK c \in Users : /\ live' = live \ {fourd_query[c]}
                           /\ fourd_query' = [fourd_query EXCEPT ![c] = None]
    BY <1>9 DEF ExitCursor, ForgetStatement
  <2>2. c \in Cursors /\ UNCHANGED result /\ None \notin live
    BY <1>9, <1>b, <1>n DEF ExitCursor, Cursors
  <2>3. live' = (live \ {fourd_query[c]}) \union ({None} \intersect Blocks)
    BY <1>n, <2>1
  <2> QED BY <1>o, <1>n, <2>1, <2>2, <2>3, StatementOwners DEF P
<1>10. CASE CallStep
  BY <1>u, <1>10 DEF CallStep, CallExecute, CallExecuteMany, CallCommit, CallRollback,
                     CallClose, EndTransactionBy, Call
<1>11. CASE LinkDrops \/ ExecuteRejected \/ ExecuteInTransaction \/ StartTransaction
            \/ BindRaises \/ ExecuteReturns \/ EndTransaction \/ Fetch \/ UNCHANGED vars
  BY <1>u, <1>11 DEF LinkDrops, ExecuteRejected, ExecuteInTransaction, StartTransaction,
                     BindRaises, ExecuteReturns, EndTransaction, Fetch, vars
<1> QED BY <1>1, <1>2, <1>3, <1>4, <1>5, <1>6, <1>7, <1>8, <1>9, <1>10, <1>11
        DEF Next, CallStep

(* Below the top nothing is about to prepare a statement.                  *)
LEMMA PoppedTop ==
    ASSUME TypeOK, StackShape, RunOk, stack' # <<>>
    PROVE  Top'.pc \in {"many", "clean"}
<1>1. /\ stack # <<>> /\ Len(stack') = Len(stack) - 1
      /\ Top' = stack[Len(stack) - 1]
  BY RunOkFacts
<1>2. Len(stack') \in Nat /\ Len(stack') # 0 /\ Len(stack) \in Nat
  BY <1>1, RunOkFacts, TopFacts, NonEmpty
<1>3. Len(stack) - 1 \in 1 .. Len(stack) /\ Len(stack) - 1 < Len(stack)
  BY <1>1, <1>2
<1> QED BY <1>1, <1>3 DEF StackShape

LEMMA OwnersNext ==
    ASSUME TypeOK, StackShape, FlagInv, OwnersInv, [Next]_vars
    PROVE  OwnersInv'
<1> DEFINE Q == At("prepare")' => fourd_query'[Top'.c] \notin Blocks
<1> SUFFICES Q
  BY OneOwnerNext DEF OwnersInv, At
<1>o. /\ EachBlockHasOneOwner
      /\ At("prepare") => fourd_query[Top.c] \notin Blocks
  BY DEF OwnersInv
<1>n. ~At("prepare")' => Q
  OBVIOUS
<1>e. stack' = <<>> => Q
  BY DEF At
<1>p. ASSUME NEW x, Top'.pc = x, x # "prepare" PROVE Q
  BY <1>p DEF At
<1>s. UNCHANGED <<stack, fourd_query>> => Q
  <2>1. UNCHANGED stack => Top' = Top /\ (At("prepare")' <=> At("prepare"))
    BY DEF Top, At
  <2> QED BY <1>o, <2>1
<1>1. CASE Raises
  BY <1>e, <1>1, RaisesFacts
<1>2. CASE ExecuteInTransaction \/ Prepare
  <2>1. stack' = Goto("clean") \/ stack' = Goto("run")
    BY <1>2 DEF ExecuteInTransaction, Prepare
  <2>2. stack # <<>> /\ "clean" \in PCs /\ "run" \in PCs
    BY <1>2 DEF ExecuteInTransaction, Prepare, At, PCs
  <2>3. stack \in Seq(Frames)
    BY <2>2, TopFacts
  <2>4. Len(stack') = Len(stack) /\ stack'[Len(stack)].pc \in {"clean", "run"}
    BY <2>1, <2>2, <2>3, GotoFacts DEF Goto
  <2>5. Top'.pc \in {"clean", "run"}
    BY <2>4 DEF Top
  <2> QED BY <1>p, <2>5
<1>3. CASE CleanUp
  <2>1. Top'.c = Top.c
    BY <1>3, ContinuesFacts DEF Continues
  <2> QED BY <1>o, <1>3, <2>1, CleanUpOwners
<1>4. CASE Returns
  BY <1>e, <1>4, ReturnsFacts
<1>5. CASE CloseCursor \/ ExitCursor
  <2>1. stack = <<>>
    BY <1>5 DEF CloseCursor, ExitCursor, Idle, StackShape
  <2>2. UNCHANGED stack
    BY <1>5 DEF CloseCursor, ExitCursor, control
  <2> QED BY <1>e, <2>1, <2>2
<1>6. CASE LinkDrops \/ Fetch \/ UNCHANGED vars
  <2>1. UNCHANGED <<stack, fourd_query>>
    BY <1>6 DEF LinkDrops, Fetch, vars, control, cursor
  <2> QED BY <1>s, <2>1
<1>7. CASE CallExecute \/ CallExecuteMany
  <2>1. /\ Len(stack') = 1 => stack'[1].pc = "enter"
        /\ Len(stack') = 2 => stack'[2].pc = "enter"
        /\ Len(stack') \in {1, 2}
    BY <1>7, ExecuteCallShape, ManyCallShape
  <2>2. Top'.pc = "enter"
    BY <2>1 DEF Top
  <2> QED BY <1>p, <2>2
<1>8. CASE CallCommit \/ CallRollback \/ CallClose
  <2>1. PICK q \in {"COMMIT", "ROLLBACK"} :
           stack' = <<>> \/ (Len(stack') = 1 /\ stack'[1] = Frame(Private, q))
    BY <1>8, EndingCalls, EndingCallShape
  <2>2. Frame(Private, q).pc = "enter" /\ Top' = stack'[Len(stack')]
    BY DEF Frame, Top
  <2> QED BY <1>e, <1>p, <2>1, <2>2
<1>9. CASE StartTransaction
  <2>1. Top' = Frame(Private, "START")
    BY <1>9, StartShape DEF Top
  <2>2. Top'.pc = "enter"
    BY <2>1 DEF Frame
  <2> QED BY <1>p, <2>2
<1>10. CASE RunOk
  BY <1>e, <1>p, <1>10, PoppedTop
<1>11. CASE NextBatch
  <2>1. Frame(Top.c, Top.q).pc = "enter" /\ Top' = stack'[Len(stack')]
    BY DEF Frame, Top
  <2> QED BY <1>e, <1>p, <1>11, <2>1, BatchShape
<1> HIDE DEF Q
<1> QED BY <1>1, <1>2, <1>3, <1>4, <1>5, <1>6, <1>7, <1>8, <1>9, <1>10, <1>11,
           ActionGroups DEF Continues, Others, CallStep

-----------------------------------------------------------------------------
(* The freed connection.                                                   *)
LEMMA FreedNext ==
    ASSUME TypeOK, StackShape, FlagInv, OwnersInv, FreedConnectionIsUnused, [Next]_vars
    PROVE  FreedConnectionIsUnused'
<1> SUFFICES ASSUME cnx_freed'
             PROVE  /\ ~connected'
                    /\ \A c \in Cursors : result'[c] \notin Blocks
                    /\ \A i \in 1 .. Len(stack') : stack'[i].pc \in {"enter", "many"}
  BY DEF FreedConnectionIsUnused
<1>1. CASE Disconnect
  <2>1. /\ ~connected' /\ FreeResults /\ stack' = <<>>
    BY <1>1 DEF Disconnect, Disconnected, Between, Done
  <2> QED BY <2>1, FreeResultsOwners, EmptySeq DEF OwnersInv
<1>2. CASE ~Disconnect
  <2>1. cnx_freed
    <3>1. Raises \/ Continues \/ Others \/ CallStep \/ StartTransaction \/ RunOk \/ NextBatch
             => UNCHANGED cnx_freed
      <4>1. Raises => UNCHANGED cnx_freed
        BY RaisesFacts
      <4>2. Continues => UNCHANGED cnx_freed
        BY DEF Continues, ExecuteInTransaction, CleanUp, Prepare
      <4>3. Others => UNCHANGED cnx_freed
        BY DEF Others, LinkDrops, Fetch, CloseCursor, ExitCursor, vars
      <4>4. CallStep => UNCHANGED cnx_freed
        BY DEF CallStep, CallExecute, CallExecuteMany, CallCommit, CallRollback, CallClose,
               EndTransactionBy, Call
      <4>5. StartTransaction \/ RunOk \/ NextBatch => UNCHANGED cnx_freed
        BY DEF StartTransaction, RunOk, NextBatch
      <4> QED BY <4>1, <4>2, <4>3, <4>4, <4>5
    <3>2. Returns => UNCHANGED cnx_freed
      BY <1>2 DEF Returns, ExecuteReturns, EndTransaction, CloseAgain
    <3> QED BY <3>1, <3>2, ActionGroups
  <2>2. /\ ~connected
        /\ \A c \in Cursors : result[c] \notin Blocks
        /\ \A i \in 1 .. Len(stack) : stack[i].pc \in {"enter", "many"}
    BY <2>1 DEF FreedConnectionIsUnused
  <2>3. stack # <<>> => Top.pc \in {"enter", "many"}
    BY <2>2, TopFacts
  <2>4. ~CleanUp /\ ~Prepare /\ ~PrepareNotConnected /\ ~BindRaises /\ ~RunOk /\ ~RunFails
    BY <2>3 DEF CleanUp, Prepare, PrepareNotConnected, BindRaises, RunOk, RunFails, At
  <2>5. ~ExecuteInTransaction /\ ~StartTransaction
    BY <2>2 DEF ExecuteInTransaction, StartTransaction, MayExecute
  <2>6. ~connected'
    BY <2>2, Monotone
  <2>7. \A c \in Cursors : result'[c] \notin Blocks
    <3>1. CASE UNCHANGED cursor
      BY <2>2, <3>1 DEF cursor
    <3>2. CASE DisconnectFails \/ CloseAgain
      BY <3>2, FreeResultsOwners DEF DisconnectFails, CloseAgain, OwnersInv
    <3>3. CASE NextBatch
      <4>1. Top.c \in Cursors
        BY <3>3, TopFacts DEF NextBatch, At
      <4> QED BY <2>2, <3>3, <4>1 DEF NextBatch
    <3>4. CASE CloseCursor
      <4>1. PICK c \in Users : result' = [result EXCEPT ![c] = None]
        BY <3>4 DEF CloseCursor
      <4> QED BY <2>2, <4>1, PointersAssumption DEF Cursors, TypeOK
    <3>5. CASE ExitCursor
      BY <2>2, <3>5 DEF ExitCursor
    <3>6. UNCHANGED cursor \/ DisconnectFails \/ CloseAgain \/ NextBatch \/ CloseCursor \/ ExitCursor
      <4>1. CASE CallStep
        BY <4>1 DEF CallStep, CallExecute, CallExecuteMany, CallCommit, CallRollback,
                    CallClose, EndTransactionBy, Call
      <4>2. CASE LinkDrops \/ ExecuteRejected \/ ExecuteReturns \/ EndTransaction \/ Fetch
                 \/ UNCHANGED vars
        BY <4>2 DEF LinkDrops, ExecuteRejected, ExecuteReturns, EndTransaction, Fetch, vars
      <4> QED BY <1>2, <2>4, <2>5, <4>1, <4>2, ActionGroups
              DEF Raises, Continues, Returns, Others
    <3> QED BY <3>1, <3>2, <3>3, <3>4, <3>5, <3>6
  <2>8. \A i \in 1 .. Len(stack') : stack'[i].pc \in {"enter", "many"}
    <3>1. CASE Raises
      BY <3>1, RaisesFacts, EmptySeq
    <3>2. CASE Returns
      BY <2>2, <3>2, ReturnsFacts
    <3>3. CASE Others
      BY <2>2, <3>3, OthersFacts
    <3>4. CASE CallExecute \/ CallExecuteMany
      BY <3>4, ExecuteCallShape, ManyCallShape
    <3>5. CASE CallCommit \/ CallRollback \/ CallClose
      <4>1. PICK q \in {"COMMIT", "ROLLBACK"} :
               stack' = <<>> \/ (Len(stack') = 1 /\ stack'[1] = Frame(Private, q))
        BY <3>5, EndingCalls, EndingCallShape
      <4>2. Frame(Private, q).pc = "enter"
        BY DEF Frame
      <4> QED BY <4>1, <4>2, EmptySeq
    <3>6. CASE NextBatch
      <4>1. Frame(Top.c, Top.q).pc = "enter" /\ Len(stack) = 1
        BY <3>6, ManyIsAlone DEF Frame, NextBatch
      <4>2. /\ stack' = <<>> => Len(stack') = 0
            /\ stack' # <<>> => Len(stack') = 2 /\ stack'[1] = stack[1]
                                /\ stack'[2] = Frame(Top.c, Top.q)
        BY <3>6, BatchShape, EmptySeq
      <4> QED BY <2>2, <4>1, <4>2
    <3> QED BY <2>4, <2>5, <3>1, <3>2, <3>3, <3>4, <3>5, <3>6, ActionGroups
            DEF Continues, CallStep
  <2> QED BY <2>6, <2>7, <2>8
<1> QED BY <1>1, <1>2

-----------------------------------------------------------------------------
LEMMA InitHolds == Init => IInv
<1> SUFFICES ASSUME Init PROVE IInv
  OBVIOUS
<1>1. stack = <<>> /\ Len(stack) = 0 /\ stack \in Seq(Frames)
  BY EmptySeq DEF Init
<1>2. \A c \in Cursors : result[c] = None /\ fourd_query[c] = None
  BY DEF Init
<1>3. TypeOK
  <2>1. /\ closed \in [Cursors -> BOOLEAN]
        /\ resulttype \in [Cursors -> {"none", "rows", "empty"}]
        /\ result \in [Cursors -> Pointers] /\ fourd_query \in [Cursors -> Pointers]
        /\ live \subseteq Blocks
    BY DEF Init, Pointers
  <2>2. left \in 0 .. MaxBatch - 1
    BY BatchAssumption DEF Init
  <2>3. {leaked, outside, wrote, startFailed} \subseteq BOOLEAN
    BY DEF Init
  <2>4. /\ connected \in BOOLEAN /\ in_transaction \in BOOLEAN /\ read_only \in BOOLEAN
        /\ cnx_connected \in BOOLEAN /\ cnx_freed \in BOOLEAN
        /\ up \in BOOLEAN /\ srv_txn \in BOOLEAN
    BY DEF Init
  <2>5. call = "connect" /\ outcome = "ok"
    BY DEF Init
  <2> QED BY <1>1, <2>1, <2>2, <2>3, <2>4, <2>5 DEF TypeOK
<1>4. StackShape
  BY <1>1 DEF StackShape
<1>5. FlagInv
  BY <1>1 DEF Init, FlagInv
<1>6. WrapInv
  BY <1>1 DEF Init, WrapInv, WrappedOnceStarted
<1>7. ReadOnlyInv
  BY <1>1 DEF Init, ReadOnlyInv
<1>8. EachBlockHasOneOwner
  <2>1. live = {} /\ None \notin Blocks
    BY PointersAssumption DEF Init
  <2> QED BY <1>2, <2>1 DEF EachBlockHasOneOwner, Held
<1>9. OwnersInv
  BY <1>1, <1>8 DEF OwnersInv, At
<1>10. FreedConnectionIsUnused
  BY DEF Init, FreedConnectionIsUnused
<1> QED BY <1>3, <1>4, <1>5, <1>6, <1>7, <1>9, <1>10 DEF IInv

LEMMA NextHolds == IInv /\ [Next]_vars => IInv'
<1> SUFFICES ASSUME IInv, [Next]_vars PROVE IInv'
  OBVIOUS
<1>1. /\ TypeOK /\ StackShape /\ FlagInv /\ WrapInv /\ ReadOnlyInv /\ OwnersInv
      /\ FreedConnectionIsUnused
  BY DEF IInv
<1>2. TypeOK' /\ StackShape'
  BY <1>1, TypeNext, ShapeNext
<1>3. FlagInv'
  BY <1>1, FlagNext
<1>4. WrapInv'
  BY <1>1, <1>3, WrapNext
<1>5. ReadOnlyInv'
  BY <1>1, ReadOnlyNext
<1>6. OwnersInv'
  BY <1>1, OwnersNext
<1>7. FreedConnectionIsUnused'
  BY <1>1, FreedNext
<1> QED BY <1>2, <1>3, <1>4, <1>5, <1>6, <1>7 DEF IInv

(* The inductive invariant: the shape of the stack of activations, where   *)
(* the flag and the server's transaction may differ, and who owns the      *)
(* blocks, in every state.                                                 *)
THEOREM Inductive == Spec => []IInv
BY InitHolds, NextHolds, PTL DEF Spec

(* Every attribute of the connection and of the cursors stays in its type. *)
THEOREM TypeCorrect == Spec => []TypeOK
<1>1. IInv => TypeOK
  BY DEF IInv
<1> QED BY <1>1, Inductive, PTL

(* __start_transaction__, commit and rollback: a transaction that is open  *)
(* on the server is one the connection will end.                           *)
THEOREM TransactionsAreKnown == Spec => []OpenTransactionIsKnown
<1>1. IInv => OpenTransactionIsKnown
  BY DEF IInv, FlagInv, OpenTransactionIsKnown
<1> QED BY <1>1, Inductive, PTL

(* execute(): a statement runs outside a transaction only on a read-only   *)
(* connection, or after a START TRANSACTION has failed.                    *)
THEOREM StatementsAreWrapped == Spec => []WrappedOnceStarted
<1>1. IInv => WrappedOnceStarted
  BY DEF IInv, WrapInv
<1> QED BY <1>1, Inductive, PTL

(* execute() on a read-only connection: no transaction is begun, and no    *)
(* other statement than a SELECT reaches the server.                       *)
THEOREM ReadOnlyReads == Spec => []ReadOnlyOnlyReads
<1>1. IInv => ReadOnlyOnlyReads
  BY DEF IInv, FlagInv, ReadOnlyInv, ReadOnlyOnlyReads
<1> QED BY <1>1, Inductive, PTL

(* execute(), executemany(), close() and the cursors' own close: each C    *)
(* block is freed once, through the one pointer to it.                     *)
THEOREM BlocksHaveOneOwner == Spec => []EachBlockHasOneOwner
<1>1. IInv => EachBlockHasOneOwner
  BY DEF IInv, OwnersInv
<1> QED BY <1>1, Inductive, PTL

(* close(): once fourd_free() has freed the connection, no result points   *)
(* to it and no call is about to use it.                                   *)
THEOREM FreedIsUnused == Spec => []FreedConnectionIsUnused
<1>1. IInv => FreedConnectionIsUnused
  BY DEF IInv
<1> QED BY <1>1, Inductive, PTL

(* __start_transaction__ executes on the private cursor, whose execute()   *)
(* is never entered while it is already running.                           *)
THEOREM NoReentrance == Spec => []ExecuteIsNotReentered
<1>1. ASSUME IInv PROVE ExecuteIsNotReentered
  <2>1. StackShape /\ Len(stack) \in Nat
    BY <1>1, NonEmpty DEF IInv, TypeOK
  <2>2. ASSUME NEW i \in 1 .. Len(stack), NEW j \in 1 .. Len(stack), i < j,
               stack[i].c = stack[j].c, stack[i].pc # "many"
        PROVE  FALSE
    <3>1. i < Len(stack) /\ i + 1 \in 1 .. Len(stack)
      BY <2>1, <2>2
    <3>2. stack[i + 1].q \in Control
      BY <2>1, <2>2, <3>1 DEF StackShape, Control
    <3>3. i + 1 = Len(stack)
      BY <2>1, <3>1, <3>2 DEF StackShape
    <3>4. j = i + 1
      BY <2>1, <2>2, <3>3
    <3>5. stack[i].c = Private
      BY <2>1, <2>2, <3>1, <3>2, <3>4 DEF StackShape
    <3>6. i = Len(stack)
      BY <2>1, <3>5 DEF StackShape
    <3> QED BY <2>1, <3>1, <3>6
  <2>3. \A i, j \in 1 .. Len(stack) : i = j \/ i < j \/ j < i
    BY <2>1
  <2> QED BY <2>2, <2>3 DEF ExecuteIsNotReentered
<1> QED BY <1>1, Inductive, PTL

=============================================================================

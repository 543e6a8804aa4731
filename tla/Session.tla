------------------------------- MODULE Session -------------------------------
(***************************************************************************)
(* A connection and its cursors (src/p4d/p4d.py) on top of lib4d_sql       *)
(* (src/lib4d_sql/fourd.c): which C results and statements each cursor     *)
(* holds, the implicit transaction, and what is left of them when the      *)
(* server refuses a command, when the link drops, and when the             *)
(* application closes cursors and connection in whatever order it likes.   *)
(*                                                                         *)
(* An execute() is a frame of the call stack, on top of executemany()'s    *)
(* own: the first of a transaction calls execute("START TRANSACTION") on   *)
(* the private cursor.                                                     *)
(* Every command's round trip is one step, and the link may drop between   *)
(* any two.  The server is external: it keeps the transaction it was told  *)
(* to start until COMMIT, ROLLBACK or the end of the connection, and       *)
(* answers in the wire format.                                             *)
(***************************************************************************)
EXTENDS Integers, Sequences

CONSTANTS Users,          \* the application's cursors
          Private,        \* connection.__private_cursor__
          Blocks,         \* what malloc may return
          None, NULL,     \* Python's None and C's NULL
          MaxBatch        \* bound: parameter lists of an executemany

Cursors == Users \union {Private}

ASSUME CursorsAssumption == Private \notin Users
ASSUME PointersAssumption == None \notin Blocks /\ NULL \notin Blocks /\ None # NULL
ASSUME BatchAssumption == MaxBatch \in Nat \ {0}

VARIABLES connected, in_transaction, read_only,   \* py4d_connection's attributes
          cnx_connected,  \* cnx->connected
          cnx_freed,      \* fourd_free(connptr) was called
          up,             \* the link carries bytes both ways
          srv_txn,        \* the server has a transaction open
          closed,         \* cursor.__closed
          resulttype,     \* cursor.__resulttype: None, RESULT_SET with rows, or
                          \* one fetchone answers None to without a call
          result,         \* cursor.result
          fourd_query,    \* cursor.fourd_query
          live,           \* the C blocks allocated
          call,           \* the application's call
          stack,          \* the execute() activations inside it
          left,           \* parameter lists executemany has still to run
          outcome,        \* "none" while the call runs, then "ok" or "raised"
          leaked,         \* history: a result's last pointer was dropped
          outside,        \* history: a statement ran outside a transaction
          wrote,          \* history: the server was sent other than a SELECT
          startFailed     \* history: a START TRANSACTION has failed

connection == <<connected, in_transaction, read_only>>
link == <<cnx_connected, up>>
cursor == <<closed, resulttype, result, fourd_query, live>>
control == <<call, stack, left, outcome>>
histories == <<leaked, outside, wrote, startFailed>>
vars == <<connection, link, cnx_freed, srv_txn, cursor, control, histories>>

Statements == {"SELECT", "WRITE"}
Commands == Statements \union {"START", "COMMIT", "ROLLBACK"}

Frame(c, q) == [c |-> c, q |-> q, pc |-> "enter"]
Top == stack[Len(stack)]
At(pc) == stack # <<>> /\ Top.pc = pc
Goto(pc) == [stack EXCEPT ![Len(stack)].pc = pc]
Pop == SubSeq(stack, 1, Len(stack) - 1)

Idle == outcome # "none"
Between(c) == outcome = "none" /\ call = c /\ stack = <<>>

(* calloc, whose answer the code does not test: there is memory.           *)
HasMemory == live # Blocks
New == CHOOSE b \in Blocks : b \notin live

Init ==
    /\ connected = TRUE /\ in_transaction = FALSE /\ read_only \in BOOLEAN
    /\ cnx_connected = TRUE /\ up = TRUE /\ cnx_freed = FALSE
    /\ srv_txn = FALSE
    /\ closed = [c \in Cursors |-> FALSE]
    /\ resulttype = [c \in Cursors |-> "none"]
    /\ result = [c \in Cursors |-> None]
    /\ fourd_query = [c \in Cursors |-> None]
    /\ live = {}
    /\ call = "connect" /\ stack = <<>> /\ left = 0 /\ outcome = "ok"
    /\ leaked = FALSE /\ outside = FALSE
    /\ wrote = FALSE /\ startFailed = FALSE

-----------------------------------------------------------------------------
(* The end of a connection ends its transaction on the server.             *)
Answered == up /\ UNCHANGED <<link, srv_txn>>

(* The answer does not come: send() fails and closes the socket, or recv() *)
(* fails and the socket stays as it is.                                    *)
Lost ==
    /\ up' = FALSE
    /\ cnx_connected' \in {cnx_connected, FALSE}
    /\ srv_txn' = FALSE

(* A round trip whose outcome the caller does not look at.                 *)
Trip == Answered \/ Lost
NoTrip == UNCHANGED <<link, srv_txn>>

(* The link goes down by itself.                                           *)
LinkDrops ==
    /\ up
    /\ up' = FALSE
    /\ srv_txn' = FALSE
    /\ UNCHANGED <<connection, cnx_connected, cnx_freed, cursor, control, histories>>

Call(name, frames, n) ==
    /\ Idle
    /\ call' = name
    /\ stack' = frames
    /\ left' = n
    /\ outcome' = "none"
    /\ UNCHANGED <<connection, link, cnx_freed, srv_txn, cursor, histories>>

Done ==
    /\ outcome' = "ok"
    /\ UNCHANGED <<call, stack, left>>

(* An exception leaves every activation.                                   *)
Unwind ==
    /\ stack' = <<>>
    /\ left' = 0
    /\ outcome' = "raised"
    /\ call' = call
    /\ startFailed' = (startFailed \/ \E i \in 1 .. Len(stack) : stack[i].q = "START")
RaiseEndsTransaction == Unwind /\ in_transaction' = FALSE     \* mutant of Raise
Raise == Unwind /\ UNCHANGED in_transaction

CallExecute == \E c \in Users, q \in Statements : Call("execute", <<Frame(c, q)>>, 0)

CallExecuteMany ==
    \E c \in Users, q \in Statements, n \in 1 .. MaxBatch :
        Call("executemany", <<[Frame(c, q) EXCEPT !.pc = "many"], Frame(c, q)>>, n - 1)

EndTransactionBy(name, q) ==
    Call(name, IF in_transaction THEN <<Frame(Private, q)>> ELSE <<>>, 0)
CallCommit == EndTransactionBy("commit", "COMMIT")
CallRollback == EndTransactionBy("rollback", "ROLLBACK")
CallClose == EndTransactionBy("close", "ROLLBACK")

-----------------------------------------------------------------------------
(* execute()                                                               *)

MayExecute(f) == connected /\ ~closed[f.c] /\ (read_only => f.q = "SELECT")

ExecuteRejected ==
    /\ At("enter")
    /\ ~MayExecute(Top)
    /\ Raise
    /\ UNCHANGED <<connected, read_only, link, cnx_freed, srv_txn, cursor,
                   leaked, outside, wrote>>

NeedsTransactionAlways == ~in_transaction           \* mutant of NeedsTransaction
NeedsTransaction == ~in_transaction /\ ~read_only

ExecuteInTransaction ==
    /\ At("enter")
    /\ MayExecute(Top)
    /\ ~NeedsTransaction
    /\ stack' = Goto("clean")
    /\ UNCHANGED <<connection, link, cnx_freed, srv_txn, cursor, call, left,
                   outcome, histories>>

(* __start_transaction__ sets the flag, then executes on the private       *)
(* cursor.                                                                 *)
SetFlagLate == UNCHANGED in_transaction                      \* mutant of SetFlag
SetFlag == in_transaction' = TRUE

StartTransaction ==
    /\ At("enter")
    /\ MayExecute(Top)
    /\ NeedsTransaction
    /\ SetFlag
    /\ stack' = Append(Goto("clean"), Frame(Private, "START"))
    /\ UNCHANGED <<connected, read_only, link, cnx_freed, srv_txn, cursor,
                   call, left, outcome, histories>>

(* The previous result is closed on the server and forgotten; the previous *)
(* statement is freed.  Nothing points to the result's block any more:     *)
(* `leaked` records that, and the block no longer counts as live.          *)
CleanUp ==
    /\ At("clean")
    /\ LET c == Top.c
           had == result[c] \in Blocks
           freed == {fourd_query[c]} \intersect Blocks
       IN  /\ IF had THEN Trip ELSE NoTrip
           /\ result' = [result EXCEPT ![c] = IF had THEN None ELSE @]
           /\ leaked' = (leaked \/ had)
           /\ fourd_query' = [fourd_query EXCEPT ![c] = IF freed # {} THEN None ELSE @]
           /\ live' = live \ (freed \union {result[c]})
    /\ stack' = Goto("prepare")
    /\ UNCHANGED <<connection, cnx_freed, closed, resulttype, call, left, outcome,
                   outside, wrote, startFailed>>

(* Whether the server can prepare the statement makes no difference.       *)
Prepare ==
    /\ At("prepare")
    /\ cnx_connected
    /\ HasMemory
    /\ Trip
    /\ fourd_query' = [fourd_query EXCEPT ![Top.c] = New]
    /\ live' = live \union {New}
    /\ wrote' = (wrote \/ Top.q # "SELECT")
    /\ stack' = Goto("run")
    /\ UNCHANGED <<connection, cnx_freed, closed, resulttype, result, call, left,
                   outcome, leaked, outside, startFailed>>

PrepareNotConnected ==
    /\ At("prepare")
    /\ ~cnx_connected
    /\ fourd_query' = [fourd_query EXCEPT ![Top.c] = NULL]
    /\ Raise
    /\ UNCHANGED <<connected, read_only, link, cnx_freed, srv_txn, closed,
                   resulttype, result, live, leaked, outside, wrote>>

(* A parameter does not convert (ffi.new, strftime, fourd_bind_param).     *)
BindRaises ==
    /\ At("run")
    /\ Top.q \in Statements
    /\ Raise
    /\ UNCHANGED <<connected, read_only, link, cnx_freed, srv_txn, cursor,
                   leaked, outside, wrote>>

TxnAfter(q) ==
    CASE q = "START" -> TRUE
      [] q \in {"COMMIT", "ROLLBACK"} -> FALSE
      [] OTHER -> srv_txn

RunOk ==
    /\ At("run")
    /\ up
    /\ HasMemory
    /\ result' = [result EXCEPT ![Top.c] = New]
    /\ live' = (live \ {result[Top.c]}) \union {New}
    /\ \E t \in IF Top.q = "SELECT" THEN {"rows", "empty"} ELSE {"empty"} :
          resulttype' = [resulttype EXCEPT ![Top.c] = t]
    /\ srv_txn' = TxnAfter(Top.q)
    /\ outside' = (outside \/ (Top.q \in Statements /\ ~read_only /\ ~srv_txn))
    /\ stack' = Pop
    /\ UNCHANGED <<connection, link, cnx_freed, closed, fourd_query, call, left,
                   outcome, leaked, wrote, startFailed>>

(* The server refuses, or the answer is lost: the new result is freed.     *)
RunFails ==
    /\ At("run")
    /\ Trip
    /\ result' = [result EXCEPT ![Top.c] = NULL]
    /\ live' = live \ {result[Top.c]}
    /\ Raise
    /\ UNCHANGED <<connected, read_only, cnx_freed, closed, resulttype,
                   fourd_query, leaked, outside, wrote>>

ExecuteReturns ==
    /\ Between("execute")
    /\ Done
    /\ UNCHANGED <<connection, link, cnx_freed, srv_txn, cursor, histories>>

-----------------------------------------------------------------------------
(* executemany() closes and frees each result, then runs the next list.    *)
MoreBatchesLate == left >= 0                             \* mutant of MoreBatches
MoreBatches == left > 0

NextBatch ==
    /\ At("many")
    /\ IF result[Top.c] \in Blocks
       THEN /\ Trip
            /\ result' = [result EXCEPT ![Top.c] = None]
            /\ live' = live \ {result[Top.c]}
       ELSE NoTrip /\ UNCHANGED <<result, live>>
    /\ IF MoreBatches
       THEN /\ stack' = Append(stack, Frame(Top.c, Top.q))
            /\ left' = left - 1
            /\ UNCHANGED outcome
       ELSE /\ stack' = Pop
            /\ outcome' = "ok"
            /\ UNCHANGED left
    /\ UNCHANGED <<connection, cnx_freed, closed, resulttype, fourd_query, call, histories>>

(* commit() and rollback() clear the flag once the server has answered.    *)
ClearFlagLate == UNCHANGED in_transaction                  \* mutant of ClearFlag
ClearFlag == in_transaction' = FALSE

EndTransaction ==
    /\ Between("commit") \/ Between("rollback")
    /\ ClearFlag
    /\ Done
    /\ UNCHANGED <<connected, read_only, link, cnx_freed, srv_txn, cursor, histories>>

(* close() frees the results of every cursor, then logs out.               *)
FreeResults ==
    /\ result' = [c \in Cursors |-> IF result[c] \in Blocks THEN None ELSE result[c]]
    /\ live' = live \ {result[c] : c \in Cursors}
    /\ UNCHANGED <<closed, resulttype, fourd_query>>

DisconnectedStaysConnected == UNCHANGED connected       \* mutant of Disconnected
Disconnected == connected' = FALSE

Disconnect ==
    /\ Between("close")
    /\ connected /\ up
    /\ FreeResults
    /\ Disconnected
    /\ up' = FALSE /\ cnx_connected' = FALSE /\ srv_txn' = FALSE
    /\ cnx_freed' = TRUE
    /\ Done
    /\ UNCHANGED <<in_transaction, read_only, histories>>

(* LOGOUT or QUIT is refused or its answer lost: the socket is not closed. *)
DisconnectFails ==
    /\ Between("close")
    /\ connected
    /\ FreeResults
    /\ Trip
    /\ connected' = FALSE
    /\ Raise
    /\ UNCHANGED <<read_only, cnx_freed, leaked, outside, wrote>>

CloseAgain ==
    /\ Between("close")
    /\ ~connected
    /\ FreeResults
    /\ Done
    /\ UNCHANGED <<connection, link, cnx_freed, srv_txn, histories>>

-----------------------------------------------------------------------------
(* fetchone() calls fourd_next_row: the row may be in the next page.        *)
Fetches(c) == Idle /\ connected /\ ~closed[c] /\ resulttype[c] = "rows"

Fetch ==
    /\ \E c \in Users :
          /\ Fetches(c)
          /\ IF result[c] \in Blocks THEN Trip ELSE NoTrip
    /\ UNCHANGED <<connection, cnx_freed, cursor, control, histories>>

CloseCursor ==
    /\ Idle
    /\ \E c \in Users :
          /\ live' = live \ {result[c]}
          /\ result' = [result EXCEPT ![c] = None]
          /\ resulttype' = [resulttype EXCEPT ![c] = "none"]
          /\ closed' = [closed EXCEPT ![c] = TRUE]
    /\ UNCHANGED <<connection, link, cnx_freed, srv_txn, fourd_query, control, histories>>

(* The cursor's with block ends.                                           *)
ForgetStatementNot(c) == UNCHANGED fourd_query        \* mutant of ForgetStatement
ForgetStatement(c) == fourd_query' = [fourd_query EXCEPT ![c] = None]

ExitCursor ==
    /\ Idle
    /\ \E c \in Users :
          /\ fourd_query[c] \in Blocks
          /\ live' = live \ {fourd_query[c]}
          /\ ForgetStatement(c)
    /\ UNCHANGED <<connection, link, cnx_freed, srv_txn, closed, resulttype, result,
                   control, histories>>

Next ==
    \/ LinkDrops
    \/ CallExecute \/ CallExecuteMany \/ CallCommit \/ CallRollback \/ CallClose
    \/ ExecuteRejected \/ ExecuteInTransaction \/ StartTransaction \/ CleanUp
    \/ Prepare \/ PrepareNotConnected \/ BindRaises \/ RunOk \/ RunFails
    \/ ExecuteReturns \/ NextBatch \/ EndTransaction
    \/ Disconnect \/ DisconnectFails \/ CloseAgain
    \/ Fetch \/ CloseCursor \/ ExitCursor

Spec == Init /\ [][Next]_vars

-----------------------------------------------------------------------------
Pointers == Blocks \union {None, NULL}
Frames == [c : Cursors, q : Commands, pc : {"enter", "clean", "prepare", "run", "many"}]

TypeOK ==
    /\ connected \in BOOLEAN /\ in_transaction \in BOOLEAN /\ read_only \in BOOLEAN
    /\ cnx_connected \in BOOLEAN /\ cnx_freed \in BOOLEAN
    /\ up \in BOOLEAN /\ srv_txn \in BOOLEAN
    /\ closed \in [Cursors -> BOOLEAN]
    /\ resulttype \in [Cursors -> {"none", "rows", "empty"}]
    /\ result \in [Cursors -> Pointers]
    /\ fourd_query \in [Cursors -> Pointers]
    /\ live \subseteq Blocks
    /\ call \in {"connect", "execute", "executemany", "commit", "rollback", "close"}
    /\ stack \in Seq(Frames)
    /\ left \in 0 .. MaxBatch - 1
    /\ outcome \in {"none", "ok", "raised"}
    /\ {leaked, outside, wrote, startFailed} \subseteq BOOLEAN

(* What a cursor points to is allocated, and nothing is freed twice: each  *)
(* block has one pointer, and no block has been left behind but the        *)
(* results that execute() drops (OldResultsAreFreed).                      *)
Held == {result[c] : c \in Cursors} \union {fourd_query[c] : c \in Cursors}

EachBlockHasOneOwner ==
    /\ Held \intersect Blocks = live
    /\ \A c, d \in Cursors : result[c] \in Blocks =>
          result[c] # fourd_query[d] /\ (result[c] = result[d] => c = d)
    /\ \A c, d \in Cursors : fourd_query[c] \in Blocks =>
          (fourd_query[c] = fourd_query[d] => c = d)

(* The connection knows of every transaction the server has open: commit,  *)
(* rollback and close will end it.                                         *)
OpenTransactionIsKnown == srv_txn => in_transaction

(* No statement runs outside a transaction unless a START TRANSACTION      *)
(* failed before (README, "Wrap all queries in a transaction block").      *)
WrappedOnceStarted == outside => startFailed

(* A read-only connection opens no transaction and sends no other          *)
(* statement than a SELECT, on the private cursor either.                  *)
ReadOnlyOnlyReads == read_only => ~srv_txn /\ ~in_transaction /\ ~wrote

(* The C connection is freed last: nothing that uses it is left to run,    *)
(* and no result, which points to it, is held.                             *)
FreedConnectionIsUnused ==
    cnx_freed => /\ ~connected
                 /\ \A c \in Cursors : result[c] \notin Blocks
                 /\ \A i \in 1 .. Len(stack) : stack[i].pc \in {"enter", "many"}

(* __start_transaction__ executes on a cursor whose execute() asks for a   *)
(* transaction too: no cursor's execute() is entered twice.                *)
ExecuteIsNotReentered ==
    \A i, j \in 1 .. Len(stack) :
        stack[i].c = stack[j].c /\ "many" \notin {stack[i].pc, stack[j].pc} => i = j

(* p4d.py, "Properly clean up any old results."                            *)
OldResultsAreFreed == ~leaked

(* fetchone() refuses when there is nothing to fetch from ("No rows to     *)
(* fetch"): it calls fourd_next_row on a result only.                      *)
FetchHasResult ==
    \A c \in Users : Fetches(c) => result[c] \in Blocks

=============================================================================

------------------------------ MODULE Commands ------------------------------
(***************************************************************************)
(* Connections of one process and their commands: fourd_connect and        *)
(* fourd_close (src/lib4d_sql/fourd.c), the commands of fourd_interne.c,   *)
(* each a request sent and a response read, and the sockets that           *)
(* communication.c opens, loses and closes.                                *)
(*                                                                         *)
(* A response on the wire is a header, and then the update count or the    *)
(* rows; BufferedReader and RowData look closer at how they are read.  A   *)
(* descriptor is a small number that the process uses again as soon as it  *)
(* is closed, for another connection or for a file.                        *)
(***************************************************************************)
EXTENDS Header, FiniteSets, SequencesExt

CONSTANTS Conns,          \* the FOURD objects
          Descriptors,    \* the numbers of descriptors
          ErrorCodes,     \* the codes of a failed connect or an error header
          ColumnCounts,   \* of the result sets: Column-Count,
          RowCounts,      \* Row-Count
          FirstPages      \* and Row-Count-Sent

INVALID_SOCKET == -1

ASSUME CommandsAssumption ==
    /\ Descriptors \subseteq Nat /\ ErrorCodes \subseteq Int \ {0}
    /\ ColumnCounts \subseteq Int /\ RowCounts \subseteq Int /\ FirstPages \subseteq Nat
    /\ Conns \cap {"free", "orphan", "other", "none"} = {}

VARIABLES socket,         \* cnx->socket
          connected,      \* cnx->connected
          error_code,     \* cnx->error_code
          rbuf,           \* what recv() has given and no call has taken
          open,           \* whether the application takes it for connected
          owner,          \* who has opened each descriptor
          wire,           \* what the server has written to it and recv() has not given
          alive,          \* whether the link is up
          call,           \* the command being run
          told,           \* what the last one returned, and from which response
          outOfStep,      \* history: a response was left before its end, or a
                          \* refusal taken for a success
          lost,           \* history: a send has failed
          strayed         \* history: a descriptor was used that was not the connection's

cnx == <<socket, connected, error_code, rbuf, open>>
net == <<owner, wire, alive>>
history == <<outOfStep, lost, strayed>>
vars == <<cnx, net, call, told, history>>

-----------------------------------------------------------------------------
(* The server's responses: their items, and what is left of one when the   *)
(* next command begins, which is but bytes.                                *)

NoHeader == [status |-> "none", lines |-> <<>>]
OK == [status |-> "OK", lines |-> <<>>]
Item(kind, header) == [kind |-> kind, header |-> header]
Leftover == Item("leftover", NoHeader)
Aged(items) == IF items = <<>> THEN <<>> ELSE <<Leftover>>
Headed(status, lines, body) ==
    <<Item("header", [status |-> status, lines |-> lines])>>
        \o [i \in DOMAIN body |-> Item(body[i], NoHeader)]

Refusals ==
    {Headed("ERROR", <<Line("Error-Code", e)>>, <<>>) : e \in ErrorCodes}
    \union {Headed("ERROR", <<>>, <<>>), Headed("none", <<>>, <<>>)}

Acknowledged == {Headed(OK.status, OK.lines, <<>>)}

ResultType(words) == Line("Result-Type", words)
Counted ==
    {Headed("OK", <<Line("Statement-ID", 1), ResultType(<<"Update-Count">>)>>, <<"count">>)}
Several ==
    {Headed("OK", <<ResultType(<<"Update-Count", "Update-Count">>)>>, <<"count", "count">>)}

(* k rows, of which one may be malformed.                                  *)
Bodies(k) ==
    {[i \in 1 .. k |-> IF i = bad THEN "bad" ELSE "row"] : bad \in 0 .. k}

Miscounted == {Headed("OK", <<Line("Column-Count", -1)>>, <<"row">>)}

(* Rows without columns are no bytes.                                      *)
Selected ==
    UNION {{Headed("OK", <<Line("Statement-ID", 1), Line("Column-Count", m),
                           Line("Column-Types", <<"VK_LONG">>), Line("Row-Count", n),
                           Line("Row-Count-Sent", k), Line("Column-Updateability", FALSE),
                           ResultType(<<"Result-Set">>)>>, body)
            : body \in Bodies(IF m = 0 THEN 0 ELSE k)}
           : m \in ColumnCounts, n \in RowCounts, k \in FirstPages}

(* A page of the two rows asked for, or of one.                            *)
Asked == 2
Page ==
    {Headed("OK", <<ResultType(<<"Result-Set">>)>>, body) : body \in Bodies(Asked)}
    \union {Headed("OK", <<Line("Row-Count-Sent", 1), ResultType(<<"Result-Set">>)>>, body)
            : body \in Bodies(1)}

Prepared == {Headed("OK", <<ResultType(<<"Update-Count">>)>>, <<>>)}

Responses(op) ==
    Refusals \union
        CASE op = "query" -> Acknowledged \union Counted \union Several \union Miscounted \union Selected
          [] op = "prepare" -> Acknowledged \union Prepared
          [] op = "fetch" -> Page \union Several
          [] OTHER -> Acknowledged

-----------------------------------------------------------------------------
(* Once a call has used a descriptor that is not its connection's, nothing *)
(* is promised any more: the model follows the process up to that call.    *)
NoCall == [op |-> "none"]
Idle == call = NoCall /\ ~strayed
Nothing == [c |-> "none", op |-> "none", ret |-> 0, code |-> 0, own |-> TRUE,
            header |-> NoHeader, state |-> NewResult]

Init ==
    /\ socket = [c \in Conns |-> INVALID_SOCKET]
    /\ connected = [c \in Conns |-> FALSE]
    /\ error_code = [c \in Conns |-> 0]
    /\ rbuf = [c \in Conns |-> <<>>]
    /\ open = [c \in Conns |-> FALSE]
    /\ owner = [d \in Descriptors |-> "free"]
    /\ wire = [d \in Descriptors |-> <<>>]
    /\ alive = [d \in Descriptors |-> FALSE]
    /\ call = NoCall /\ told = Nothing
    /\ outOfStep = [c \in Conns |-> FALSE]
    /\ lost = FALSE /\ strayed = FALSE

OwnerOf(d) == IF d \in Descriptors THEN owner[d] ELSE "free"
IsUp(d) == OwnerOf(d) \in Conns /\ alive[d]
Owns(c) == OwnerOf(socket[c]) = c

Free == {d \in Descriptors : owner[d] = "free"}
Lowest == Min(Free)

Uses(c) == strayed' = (strayed \/ ~Owns(c))

(* socket_disconnect: whatever has that number is closed.                  *)
CloseDescriptor(d) ==
    IF OwnerOf(d) = "free" THEN UNCHANGED net
    ELSE /\ owner' = [owner EXCEPT ![d] = "free"]
         /\ wire' = [wire EXCEPT ![d] = <<>>]
         /\ alive' = [alive EXCEPT ![d] = FALSE]

(* _clear_atrr_cnx, which _prepare_statement does not call.                *)
Cleared(c, op) ==
    error_code' = IF op = "prepare" THEN error_code ELSE [error_code EXCEPT ![c] = 0]

Calls(c, op, state) ==
    call' = [op |-> op, c |-> c, step |-> "send", left |-> 0, own |-> TRUE,
             header |-> NoHeader, state |-> state]

Begin(c, op, state) ==
    /\ Idle
    /\ Cleared(c, op)
    /\ Calls(c, op, state)
    /\ rbuf' = [d \in Conns |-> Aged(rbuf[d])]
    /\ wire' = [d \in Descriptors |-> Aged(wire[d])]
    /\ told' = Nothing
    /\ UNCHANGED <<socket, connected, open, owner, alive, history>>

Returns(done, ret, code) ==
    /\ call' = NoCall
    /\ told' = [c |-> done.c, op |-> done.op, ret |-> ret, code |-> code,
                own |-> done.own, header |-> done.header, state |-> done.state]

(* A call that returns before it has sent anything.                        *)
Tells(c, op, code) ==
    /\ error_code' = [error_code EXCEPT ![c] = code]
    /\ told' = [Nothing EXCEPT !.c = c, !.op = op, !.ret = 1, !.code = code]
    /\ UNCHANGED call

-----------------------------------------------------------------------------
(* fourd_connect                                                           *)

AlreadyConnected(c) ==
    /\ Idle /\ ~open[c] /\ connected[c]
    /\ Tells(c, "login", -1)
    /\ UNCHANGED <<socket, connected, rbuf, open, net, history>>

(* No address; or no socket, no server or no answer in time, and then what *)
(* was opened is closed.                                                   *)
ConnectFails(c) ==
    /\ Idle /\ ~open[c] /\ ~connected[c]
    /\ \E e \in ErrorCodes : Tells(c, "login", e)
    /\ \/ UNCHANGED socket
       \/ socket' = [socket EXCEPT ![c] = INVALID_SOCKET]
    /\ UNCHANGED <<connected, rbuf, open, net, history>>

(* "discard any stale buffered bytes from a previous connection"           *)
KeepBuffer(c) == UNCHANGED rbuf                           \* mutant of EmptyBuffer
EmptyBuffer(c) == rbuf' = [rbuf EXCEPT ![c] = <<>>]

Connect(c) ==
    /\ Idle /\ ~open[c] /\ ~connected[c] /\ Free # {}
    /\ socket' = [socket EXCEPT ![c] = Lowest]
    /\ LET orphans == {d \in Descriptors : owner[d] = c}
       IN  /\ owner' = [d \in Descriptors |-> IF d \in orphans THEN "orphan" ELSE
                                                IF d = Lowest THEN c ELSE owner[d]]
           /\ wire' = [d \in Descriptors |-> IF d \in orphans THEN <<>> ELSE wire[d]]
           /\ alive' = [d \in Descriptors |-> d \notin orphans /\ (d = Lowest \/ alive[d])]
    /\ outOfStep' = [outOfStep EXCEPT ![c] = FALSE]
    /\ EmptyBuffer(c)
    /\ Cleared(c, "login")
    /\ Calls(c, "login", NewResult)
    /\ told' = Nothing
    /\ UNCHANGED <<connected, open, lost, strayed>>

(* The commands of an open connection.                                     *)
Query(c) == open[c] /\ Begin(c, "query", NewResult)
Prepare(c) == open[c] /\ connected[c] /\ Begin(c, "prepare", NewResult)
Fetch(c) ==
    /\ open[c]
    /\ Begin(c, "fetch", PageResult(<<"VK_LONG">>, Asked, FALSE))
CloseStatement(c) == open[c] /\ Begin(c, "close_statement", NewResult)
Logout(c) == open[c] /\ Begin(c, "logout", NewResult)

(* _valid_query finds several statements.                                  *)
RefuseQuery(c) ==
    /\ Idle /\ open[c]
    /\ Tells(c, "query", -5001)
    /\ UNCHANGED <<socket, connected, rbuf, open, net, history>>

-----------------------------------------------------------------------------
(* socket_send                                                             *)

At(step) == call # NoCall /\ call.step = step

SendOk ==
    /\ At("send") /\ IsUp(socket[call.c])
    /\ LET d == socket[call.c]
       IN  \E r \in Responses(call.op) : wire' = [wire EXCEPT ![d] = @ \o r]
    /\ call' = [call EXCEPT !.step = "header"]
    /\ Uses(call.c)
    /\ UNCHANGED <<cnx, owner, alive, told, outOfStep, lost>>

(* The link may be down for a while before a send finds out.               *)
SendIntoTheVoid ==
    /\ At("send") /\ OwnerOf(socket[call.c]) \in Conns /\ ~alive[socket[call.c]]
    /\ call' = [call EXCEPT !.step = "header"]
    /\ Uses(call.c)
    /\ UNCHANGED <<cnx, net, told, outOfStep, lost>>

(* The commands that look at what socket_send returns; the others go on to *)
(* read the response (though "every socket read/write is now checked").    *)
Checked(op) == op \in {"query", "prepare", "fetch"}

SendFails ==
    /\ At("send") /\ ~IsUp(socket[call.c])
    /\ CloseDescriptor(socket[call.c])
    /\ connected' = [connected EXCEPT ![call.c] = FALSE]
    /\ error_code' = [error_code EXCEPT ![call.c] = -1]
    /\ lost' = TRUE
    /\ Uses(call.c)
    /\ IF Checked(call.op) THEN Returns(call, 1, -1)
       ELSE call' = [call EXCEPT !.step = "header"] /\ UNCHANGED told
    /\ UNCHANGED <<socket, rbuf, open, outOfStep>>

-----------------------------------------------------------------------------
(* receiv_check and what follows the header                                *)

Pending(c) ==
    rbuf[c] \o IF OwnerOf(socket[c]) \in Conns THEN wire[socket[c]] ELSE <<>>

(* The first n items are taken, and of the others recv() has given some.   *)
Takes(c, n) ==
    \E k \in {n, Len(Pending(c))} :
        /\ k >= Len(rbuf[c])
        /\ rbuf' = [rbuf EXCEPT ![c] = SubSeq(Pending(c), n + 1, k)]
        /\ wire' = IF OwnerOf(socket[c]) \in Conns
                   THEN [wire EXCEPT ![socket[c]] = SubSeq(Pending(c), k + 1, Len(Pending(c)))]
                   ELSE wire

(* How a call ends for the connection and the application.                 *)
Ends(done, ret, code) ==
    LET c == done.c
        isLogin == done.op = "login"
        e == IF isLogin /\ ret = 1 /\ code = 0 THEN -1 ELSE code
    IN  /\ Returns(done, ret, e)
        /\ error_code' = [error_code EXCEPT ![c] = e]
        /\ connected' = IF isLogin THEN [connected EXCEPT ![c] = ret = 0] ELSE connected
        /\ open' = CASE isLogin -> [open EXCEPT ![c] = ret = 0]
                     [] done.op \in {"logout", "quit"} -> [open EXCEPT ![c] = FALSE]
                     [] OTHER -> open
        /\ UNCHANGED socket

FallsOutOfStep(c, b) == outOfStep' = [outOfStep EXCEPT ![c] = @ \/ b]

(* The header's text goes up to the next blank line: bytes left by another *)
(* response are at its head, or pass for a header themselves.              *)
HeaderRead(n, h) ==
    \/ /\ Pending(call.c)[n].kind = "header"
       /\ \A i \in 1 .. n - 1 : Pending(call.c)[i].kind # "header"
       /\ n = 1 => h = Pending(call.c)[1].header
       /\ n > 1 => h \in {NoHeader, Pending(call.c)[n].header}
    \/ /\ \A i \in 1 .. n : Pending(call.c)[i].kind # "header"
       /\ h \in {NoHeader, OK}

(* What a header that is accepted leads to.                                *)
RowsFollow(state) ==
    /\ \/ call.op = "fetch"
       \/ call.op \in {"query", "prepare"} /\ state.resultType = "RESULT_SET"
    /\ state.columns # <<>> /\ state.row_count_sent > 0

CountFollowsAny(state) ==                                  \* mutant of CountFollows
    call.op \in {"query", "prepare"} /\ state.resultType = "UPDATE_COUNT"
CountFollows(state) == call.op = "query" /\ state.resultType = "UPDATE_COUNT"

Goes(done, step) ==
    /\ call' = [done EXCEPT !.step = step, !.left = done.state.row_count_sent]
    /\ error_code' = [error_code EXCEPT ![done.c] = done.state.error_code]
    /\ UNCHANGED <<socket, connected, open, told>>

(* After LOGOUT, fourd_close sends QUIT, and after QUIT it disconnects.    *)
Accepted(done) ==
    CASE RowsFollow(done.state) -> Goes(done, "rows")
      [] CountFollows(done.state) -> Goes(done, "count")
      [] done.op = "logout" ->
            /\ Cleared(done.c, "quit")
            /\ Calls(done.c, "quit", NewResult)
            /\ UNCHANGED <<socket, connected, open, told>>
      [] done.op = "quit" -> Goes(done, "close")
      [] OTHER -> Ends(done, 0, IF done.op = "login" THEN 0 ELSE done.state.error_code)

ReadHeader ==
    /\ At("header")
    /\ LET c == call.c
           read == {NoHeader, OK} \union {Pending(c)[i].header : i \in DOMAIN Pending(c)}
       IN  \E n \in DOMAIN Pending(c), h \in read, junk \in ErrorCodes \union {0} :
             /\ HeaderRead(n, h)
             /\ Takes(c, n)
             /\ LET s == Treated(h, call.state, junk)
                    done == [call EXCEPT !.own = n = 1 /\ Pending(c)[1] # Leftover /\ Owns(c),
                                         !.header = h, !.state = s]
                IN  /\ IF s.ret = 0 THEN Accepted(done) ELSE Ends(done, 1, s.error_code)
                    /\ FallsOutOfStep(c, ~done.own \/ (s.ret = 0) # (h.status = "OK"))
    /\ Uses(call.c)
    /\ UNCHANGED <<owner, alive, lost>>

-----------------------------------------------------------------------------
(* socket_receiv_update_count, socket_receiv_data, socket_disconnect       *)

ReadCount ==
    /\ At("count") /\ Pending(call.c) # <<>>
    /\ Takes(call.c, 1)
    /\ Ends(call, 0, call.state.error_code)
    /\ Uses(call.c)
    /\ UNCHANGED <<owner, alive, outOfStep, lost>>

(* Bytes that are not of a row may pass for one, or not.                   *)
ReadRow ==
    /\ At("rows") /\ Pending(call.c) # <<>> /\ Pending(call.c)[1].kind # "bad"
    /\ Takes(call.c, 1)
    /\ IF call.left = 1 THEN Ends(call, 0, call.state.error_code)
       ELSE /\ call' = [call EXCEPT !.left = @ - 1]
            /\ UNCHANGED <<socket, connected, error_code, open, told>>
    /\ Uses(call.c)
    /\ UNCHANGED <<owner, alive, outOfStep, lost>>

MalformedRow ==
    /\ At("rows") /\ Pending(call.c) # <<>> /\ Pending(call.c)[1].kind # "row"
    /\ Takes(call.c, 1)
    /\ Ends(call, 1, -1)
    /\ FallsOutOfStep(call.c, TRUE)
    /\ Uses(call.c)
    /\ UNCHANGED <<owner, alive, lost>>

(* recv() fails once what has arrived is used up.  The socket stays open.  *)
ReadFailsAsIs ==                                            \* mutant of ReadFails
    /\ At("header") \/ At("count") \/ At("rows")
    /\ ~IsUp(socket[call.c])
    /\ \A i \in DOMAIN Pending(call.c) : At("header") /\ Pending(call.c)[i].kind # "header"
    /\ Ends(call, 1, error_code[call.c])
    /\ rbuf' = [rbuf EXCEPT ![call.c] = <<>>]
    /\ Uses(call.c)
    /\ UNCHANGED <<net, outOfStep, lost>>
ReadFails ==
    /\ At("header") \/ At("count") \/ At("rows")
    /\ ~IsUp(socket[call.c])
    /\ \A i \in DOMAIN Pending(call.c) : At("header") /\ Pending(call.c)[i].kind # "header"
    /\ Ends(call, 1, IF error_code[call.c] = 0 THEN -1 ELSE error_code[call.c])
    /\ rbuf' = [rbuf EXCEPT ![call.c] = <<>>]
    /\ Uses(call.c)
    /\ UNCHANGED <<net, outOfStep, lost>>

(* No memory for the header or for the rows.                               *)
NoMemory ==
    /\ At("header") \/ At("rows")
    /\ Ends(call, 1, -1)
    /\ FallsOutOfStep(call.c, TRUE)
    /\ UNCHANGED <<rbuf, net, lost, strayed>>

DisconnectHalf ==                                          \* mutant of Disconnect
    /\ At("close")
    /\ CloseDescriptor(socket[call.c])
    /\ open' = [open EXCEPT ![call.c] = FALSE]
    /\ Returns(call, 0, error_code[call.c])
    /\ Uses(call.c)
    /\ UNCHANGED <<connected, socket, error_code, rbuf, outOfStep, lost>>
Disconnect ==
    /\ At("close")
    /\ CloseDescriptor(socket[call.c])
    /\ connected' = [connected EXCEPT ![call.c] = FALSE]
    /\ open' = [open EXCEPT ![call.c] = FALSE]
    /\ Returns(call, 0, error_code[call.c])
    /\ Uses(call.c)
    /\ UNCHANGED <<socket, error_code, rbuf, outOfStep, lost>>

-----------------------------------------------------------------------------
(* The network, and the rest of the process                                *)

LinkDrops(d) ==
    /\ owner[d] \in Conns /\ alive[d]
    /\ alive' = [alive EXCEPT ![d] = FALSE]
    /\ told' = Nothing
    /\ \E k \in 0 .. Len(wire[d]) : wire' = [wire EXCEPT ![d] = SubSeq(@, 1, k)]
    /\ UNCHANGED <<cnx, owner, call, history>>

OtherOpens ==
    /\ Free # {}
    /\ owner' = [owner EXCEPT ![Lowest] = "other"] /\ told' = Nothing
    /\ UNCHANGED <<cnx, wire, alive, call, history>>

OtherCloses(d) ==
    /\ owner[d] = "other"
    /\ owner' = [owner EXCEPT ![d] = "free"] /\ told' = Nothing
    /\ UNCHANGED <<cnx, wire, alive, call, history>>

ClientStep ==
    \/ SendOk \/ SendIntoTheVoid \/ SendFails \/ ReadHeader \/ ReadCount \/ ReadRow
    \/ MalformedRow \/ ReadFails \/ NoMemory \/ Disconnect

Next ==
    \/ ClientStep \/ OtherOpens
    \/ \E d \in Descriptors : LinkDrops(d) \/ OtherCloses(d)
    \/ \E c \in Conns :
          \/ AlreadyConnected(c) \/ ConnectFails(c) \/ Connect(c) \/ RefuseQuery(c)
          \/ Query(c) \/ Prepare(c) \/ Fetch(c) \/ CloseStatement(c) \/ Logout(c)

(* A call goes on as long as there is something to send or to read, and    *)
(* SendOk has the server answer it.                                        *)
Spec == Init /\ [][Next]_vars /\ WF_vars(ClientStep)

-----------------------------------------------------------------------------
TypeOK ==
    /\ socket \in [Conns -> Descriptors \union {INVALID_SOCKET}]
    /\ connected \in [Conns -> BOOLEAN] /\ open \in [Conns -> BOOLEAN] /\ error_code \in [Conns -> Int]
    /\ owner \in [Descriptors -> Conns \union {"free", "orphan", "other"}]
    /\ alive \in [Descriptors -> BOOLEAN]
    /\ outOfStep \in [Conns -> BOOLEAN] /\ lost \in BOOLEAN /\ strayed \in BOOLEAN
    /\ call # NoCall =>
          /\ call.c \in Conns /\ Len(call.state.columns) <= MaxColumns
          /\ call.step \in {"send", "header", "count", "rows", "close"}

(* Between two calls nothing of a response is left unread, unless one was  *)
(* given up half-way: the next command reads its own.                      *)
InStep ==
    \A c \in Conns :
        call = NoCall /\ connected[c] /\ ~outOfStep[c] /\ ~strayed => Pending(c) = <<>>

(* What a section says, if its line is looked for by its whole name.       *)
Said(h, section, default) ==
    LET lines == {i \in DOMAIN h.lines : h.lines[i].name = section}
    IN  IF lines = {} THEN default ELSE h.lines[Min(lines)].value

(* A call that succeeds has read the response to its own request, which    *)
(* said OK, and its counts of rows are those of that header, none for a    *)
(* negative one.  (Of a page, Row-Count is not used: where only            *)
(* Row-Count-Sent is there, get takes it for the other.)                   *)
OwnAnswer ==
    told.c \in Conns /\ told.ret = 0 /\ ~outOfStep[told.c] /\ ~strayed =>
        /\ told.own /\ told.header.status = "OK"
        /\ told.op # "fetch" => told.state.row_count = Clamped(Said(told.header, "Row-Count", 0))
        /\ told.state.row_count_sent =
              Said(told.header, "Row-Count-Sent", IF told.op = "fetch" THEN Asked ELSE 0)

(* Until a send fails, every call uses a descriptor that its connection    *)
(* opened, and one that is connected has it open.                          *)
OwnDescriptor ==
    ~lost => ~strayed /\ \A c \in Conns : connected[c] => Owns(c)

(* A call that fails leaves the reason in error_code, which p4d.py raises  *)
(* from, unless the header was refused for having no status or several     *)
(* Result-Types.                                                           *)
FailureHasReason ==
    told.ret = 1 /\ told.code = 0 =>
        \/ told.header.status = "none"
        \/ Len(Said(told.header, "Result-Type", <<>>)) > 1

(* recv() has no timeout once connected: a call returns all the same, for  *)
(* it never waits for bytes that the server does not owe it.               *)
CallsReturn ==
    \A c \in Conns :
        (call # NoCall /\ call.c = c) ~> (call = NoCall \/ outOfStep[c] \/ strayed)

=============================================================================

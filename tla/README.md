# Verification of p4d

p4d is a Python DB-API driver for the 4D database: a C library, `lib4d_sql`,
speaks 4D's text-and-binary protocol over one TCP socket, and `p4d/p4d.py`
wraps it through cffi.  This directory holds TLA+ modules translated from that
code, the TLC configurations that check them on small instances, and proofs
that TLAPS checks for every value of the constants.

Contents: [1 the system](#1-the-system), [2 the modules](#2-the-modules),
[3 the runs](#3-the-runs), [4 fairness](#4-fairness), [5 the proofs](#5-the-proofs),
[6 where the code falls short of its documents](#6-where-the-code-falls-short-of-its-documents),
[7 what is assumed or left out](#7-what-is-assumed-or-left-out),
[8 the plan](#8-the-plan).

## 1 The system

One thread runs one call at a time on a connection (the driver declares
`threadsafety = 0`).  What makes the driver hard is therefore not parallelism
but what stays behind between calls: bytes in a buffer, a page of rows, an error
code that several cursors share, pointers in Python objects to C memory, a flag
that mirrors the server's transaction, and what each of them is when a step in
the middle of a call fails.

| Component | State | Operations | Talks to |
|---|---|---|---|
| Read side (`communication.c`) | `rbuf`, `rbuf_len`, `rbuf_pos` in `FOURD` | `rbuf_fill`, `buf_recv`, `socket_receiv_header` | `recv()` below, row decoding and header parsing above |
| Write side and connect (`communication.c`) | `socket`, `connected` | `socket_connect`, `socket_connect_timeout`, `send_all`, `socket_send`, `socket_disconnect` | the network |
| Row decoding (`communication.c`) | `elmt`, `row_count_sent`, the arena | `socket_receiv_data`, `_arena_alloc`, `_free_data_result` | read side; result |
| Header parsing (`fourd_interne.c`) | the fields of a `FOURD_RESULT`, the connection's `error_code` | `get`, `_get_status`, `traite_header_response`, `receiv_check` | the text of a header |
| Commands (`fourd.c`, `fourd_interne.c`) | `FOURD_STATEMENT`, `FOURD_RESULT`, `id_cnx` | login, prepare, bind, execute, close a statement, logout, quit | one round trip each |
| Result paging (`fourd.c`, `fourd_interne.c`) | `numRow`, `first_row`, `row_count_sent`, `row_count`, `page_size` | `fourd_next_row`, `_fetch_result` | `FETCH-RESULT` round trips |
| Cursor (`p4d.py`) | `result`, `fourd_query`, `__resulttype`, `__closed` | `execute`, `executemany`, `fetchone`, `close`, `__exit__`, `__del__` | C API; connection |
| Connection (`p4d.py`) | `connected`, `in_transaction`, `read_only`, `cursors` | `__start_transaction__`, `commit`, `rollback`, `close`, `__exit__` | every cursor; the private cursor's `execute` |
| Query text (`p4d.py`, `_is_multi_query`) | none | marker rewriting, list expansion, the statement scanner | commands |
| Values (`fourd_type.c`, `fourd_result.c`, `base64.c`, `p4d.py`) | none | encoding of parameters, decoding of cells | commands, result |

How they interact.  `cursor.execute` may call `connection.__start_transaction__`,
which calls `execute` of the connection's private cursor: the call is
re-entrant, on another cursor.  Every command of every cursor shares the
connection's socket, buffer and `error_code`.  A Python cursor owns a C result
and a C statement; `connection.close` frees the results of all cursors and then
the C connection that they point to, while the cursors live on.

What is hard, and what must hold:

- *Read side.*  `recv()` cuts the stream anywhere; a long read goes round the
  buffer; a header is read a byte at a time and must leave the body's bytes.
  Every call must take exactly its stretch, and return once its bytes are there.
- *Paging.*  Unsigned arithmetic with a row number that starts at -1; a server
  that chooses how many rows a page holds; a page load that fails after the row
  number moved.  Rows must come in order, each once, and from the page in
  memory, and the end must not be confused with a failure.
- *Memory of a page.*  A second result is built, half shared with the first,
  swapped with it and freed; any step of receiving it may fail.  Nothing may
  leak or be freed twice, and values must be freed with the table that points
  to them.
- *Session.*  A refused command, a lost link or a parameter that does not
  convert leaves the call at any point, in any cursor; `close` may come at any
  time, twice, or before the cursors' own.  The flag must not miss an open
  transaction, a read-only connection must never write, no block may be freed
  twice, and nothing may use the C connection after it is freed.
- *Row data.*  A row is a string of fields whose sizes follow from the fields
  before; one length misread, and everything behind it is.  What is kept must be
  what was sent, in memory that no other value shares.
- *Commands.*  The stream has no framing but the responses themselves: each
  command must read its own response to the end, or say that it did not, on the
  descriptor that its connection opened.
- *Requests.*  The text is rewritten five times before it is sent, tuples are
  opened in place, and every parameter is copied, typed and serialised; the
  server must be told what the application meant, and every copy have an owner.
- *Query text.*  A semicolon ends a statement unless it is part of a name or a
  string, both of which write their own closing mark twice.  A request must be
  refused as several statements exactly when text follows such a semicolon.

`PROJECT.json` lists every component with its status, and every hazard at its
line with the properties that would catch it going wrong.

## 2 The modules

Each property and each mutant's definition is commented in its module.  A
definition marked `mutant of X` is X with a plausible mistake (a dropped test, a
late assignment, an off-by-one); no specification uses it, and it serves to
show that the property named with it in `PROJECT.json` would notice.

### `ByteStream`, `BufferedReader`: the read side

`BufferedReader` has `stream`, all that the server sends, and `taken`, how much
of it `recv()` has handed over; `rbuf` and `rbuf_pos` are the buffer; `call`,
`len`, `out`, `size` are the arguments and locals of the call in progress.
`BeginRead` and `BeginHeader` are calls of `buf_recv` and
`socket_receiv_header`.  A turn of `buf_recv`'s loop is `Copy` (from the
buffer), `ReadFill` (`rbuf_fill`) or `ReadDirect` (a `recv` into the caller's
memory, when the buffer is drained and at least a buffer's worth is missing); a
turn of the header's loop is `HeaderFill` or `HeaderByte`, which grows the
allocation, stores the byte and stops at the blank line.  Each way out is an
action: `ReadFillFails` (empties the buffer), `ReadDirectFails`,
`HeaderFillFails`, `HeaderNoMemory`, `HeaderTooLong`.  `recv()` may return any
number of bytes, and fail at any time; since the code marks nothing on a failed
`recv`, a later call may read on, and the model lets it.

`ByteStream` is what callers are promised, without buffer or `recv`: one stream,
and each call takes its next stretch, or fails having used no byte that was not
its own.  `ImplementsByteStream` is the refinement; the abstract position is the
number of bytes consumed when the call began.

### `RowStream`, `ResultPaging`: rows across pages

One record of counters per result, with C's unsigned arithmetic modulo `Wrap`
(`Plus`, `Minus`).  `Execute` is `fourd_exec_statement`'s fresh result with its
first page.  `fetchone` is split by the way it goes: `FetchNothing`,
`FetchPastEnd`, `FetchFromPage`, `FetchLoadsPage`, `FetchFails`,
`FetchFailsWithoutCode` (`_fetch_result` gives up before it has cleared or set
an error code, its `calloc` having failed, or the page's header is refused for
several `Result-Type`s or for having no status).  A page load and its answer are one action, since nothing else
runs on the connection in between.  `error_code` is one variable for all
results, cleared by a successful command and set by a failed one;
`OtherCommandFails` is any other command that fails on the same connection.
A page may hold any number of the rows asked for, none too.  `told` is what the
last `fetchone` said; the others are history: `given` (rows), `failed` (page
loads), `empty` (pages without a row), `codeless` (a load failed without a code)
and `void` (a fetch has raised).

`RowStream` is what the application is promised: the rows one by one, then the
end; after a fetch that raised, or a load that failed without a code (which
`fetchone` reports as the end), nothing is promised for that result.

### `PageMemory`: who owns what a page consists of

`at` holds the pointers of the two `FOURD_RESULT`s that may exist at a time, the
cursor's `res` and `_fetch_result`'s `nRes`; `values` says which arena the
values of a table of elements lie in; `live` is the set of allocated blocks, and
`New` reuses one that was freed.  A command begins (`Begin` for execute and
prepare, `BeginFetch` for a page load, whose result borrows the columns), its
response is received (`ReceiveHeader`, `ParseColumns` or `ParseNoColumns`,
`ReceiveNoData` or `ReceiveData`, `ReceiveValues`, `ReceiveLast`, and `Fail` at
any point), and one of `ExecuteReturns`, `ExecuteFails`, `PrepareReturns`,
`FetchReturns`, `FetchFails`, `FreeResult` settles what becomes of it, with the
frees each of these paths makes.

### `Formats`, `Arena`, `RowData`: the rows of a page

`Formats` is what both directions share: the sizes of a value's fields on the
wire by its type, of its structure and its data in memory, and how a length is
written (negated, for a string).  `Arena` is `_arena_alloc`: `chunks` with the
bytes used and the capacity of each, `Place(n)` where a block of n bytes comes
to lie, `Alloc(n)` the step; `blocks` records what was given out.

`RowData` puts the server on one side of `wire` and `socket_receiv_data` on the
other.  The server writes a row's status (`SendRowStatus`) or a cell
(`SendCell`) when the client has read all there was: since a stream keeps its
order, a server that runs ahead adds no behaviour.  Its fields follow the format
in shape, but any status and any length in them may be wrong.  `pc` is what the
client reads next and `Wants` the sizes of the `buf_recv` calls it makes for it;
the call succeeds if the next fields have these sizes (`Reads`), and
`OutOfStep` is the opposite.  The actions are the cases of the code's switch:
`ReadRowStatus`, `ReadRowId`, `ReadCellStatus`, `ReadFixed`, `ReadStruct` and
`ReadData` (the two halves of a varying value), and its ways out:
`UnknownStatus`, `ReadErrorCode`, `UnknownType`, `WrongLength`, `ReadFails`,
`NoMemory`.  `memory` says which value each byte of the arena holds.

### `Header`, `Commands`: requests and responses

`Header` is `get`, `_get_status` and `traite_header_response` as functions of a
header and of the result it is read into.  A header is its status and a sequence
of lines; what makes `get` hard, that it looks for a substring and takes the
first, is kept (`IsFoundIn`).  An error header without an `Error-Code` leaves
the code to what was in the buffer, the parameter `junk`.

`Commands` runs connections of one process over numbered descriptors.  `call` is
the command in progress, `step` the point it is at: `SendOk`, `SendIntoTheVoid`
(the link is down and the kernel has not noticed) or `SendFails`, then
`ReadHeader`, then `ReadCount` or `ReadRow` as often as the header said, with
`MalformedRow`, `ReadFails` and `NoMemory` as the ways out, and `Disconnect` at
the end of `fourd_close`.  `Query`, `Prepare`, `Fetch`, `CloseStatement`,
`Logout` and `Connect` (with the login behind it) begin one.  `rbuf` is what
`recv()` has given and no call has taken, `wire` what it has not; `Aged` turns
what is left of an older response into bytes that may pass for anything.
`OtherOpens` and `OtherCloses` are the rest of the process, which may be given
the number of a descriptor that was closed.  `told` is what the last command
returned, with the header and the result behind it; `outOfStep`, `lost` and
`strayed` are history.

### `QueryText`, `Base64`, `Requests`: from `execute()` to the request

`QueryText` is the rewriting of a query as functions of sequences of tokens:
`Keys` and `WithoutKeys` for a dict, `WithoutFormats`, `Unescaped`,
`ReplaceNth`, `Group`; `Read` and `Meaning` are the reference it is measured by,
one reading from left to right that takes `%%` and `%a` as they come, where the
code replaces all of the one and then all of the other. `Base64` is the codec,
on bytes. `Requests` follows one statement of a cursor: `Execute` rewrites the
text, `OpenTuple` opens one tuple a pass, `Prepare` frees the last statement and
makes another, `CreateString`, `Bind` and `FreeString` go round once for each
parameter (`BindNoMemory` and `BindRaises` when that fails), `Send` builds the
statement, the list of types and the data of the request; `Return` and
`ForgetStatement` end a call and the cursor. `live` is the set of blocks
allocated, each named by what it is for.

### `Session`: connection, cursors, transaction

The attributes of the connection and of each cursor, the C connection's
`connected`, the blocks their pointers own, the link and the server's
transaction.  An application call is a stack of `execute` activations, so that
the private cursor's `execute` inside another's is what it is in the code; an
exception (`Raise`) unwinds all of them.  An activation runs
`ExecuteRejected` | `ExecuteInTransaction` | `StartTransaction`, then `CleanUp`,
then `Prepare` | `PrepareNotConnected`, then `BindRaises` | `RunOk` | `RunFails`.
`CallCommit`, `CallRollback`, `CallClose` begin with an activation of the
private cursor if the flag is set, and end in `EndTransaction`, `Disconnect`,
`DisconnectFails` or `CloseAgain`.  `Fetch`, `CloseCursor` and `ExitCursor` are
the cursor's other operations.  A round trip is one step; `LinkDrops` may come
between any two, and a round trip may lose the link itself (`Lost`): a failed
`send` also clears `cnx->connected`, a failed `recv` does not.

`leaked`, `outside`, `wrote` and `startFailed` are history.

### `StatementLexer`, `MultiQuery`: is the request one statement?

`_is_multi_query` reads a request one character at a time with three flags,
`inCol` (in a name in brackets), `inStr` (in a string) and `finFirst` (a
semicolon has ended the first statement).  Each case of its `switch` is an
action: `OpenName`, `CloseName`, `Quote`, `Semicolon`, and the default case as
`Space` and `Other`; `LoopEnds` is the return after the loop and `Refuse` what
`_valid_query` makes of the answer 1.  The characters that the code does not
name are all one character, `"x"`; a line end is one of them.  The answer for
`NULL` is that for an empty request.

`StatementLexer` is the definition that the scan is measured by, a lexer with
one mode in the place of the flags and of the look at the previous character:
text, name, string, and `"closed"`, after a bracket that may be the first of a
doubled pair.  It promises nothing about a request with a closing bracket
outside every name, which is what `legal` records.

## 3 The runs

| Run | Instance | Shows |
|---|---|---|
| `BufferedReader` | six streams of 4 to 11 bytes; reads of 0, 1, 2, 4; buffer 3; header allocation 4, maximum 8 | `ExactSegment`, `FirstBlankLine`, `TerminatingNulFits`, `SentBytesAreReturned`, `ImplementsByteStream` |
| `ResultPaging` | two results of 0 or 4 rows; page size 1 or the default 3; pages full, short and empty; counters of 16 values | `RowNearPage`, `RowsInOrder`, `EndMeansAllRows`, `LoadFailureRaises`, `ImplementsRowStream` |
| `PageMemory` | ten blocks | `NoLeakNoDangling`, `OneOwner`, `ValuesAreInTheirArena` |
| `Session` | two cursors and the private one, six blocks, batches of up to 2 | `EachBlockHasOneOwner`, `OpenTransactionIsKnown`, `WrappedOnceStarted`, `ReadOnlyOnlyReads`, `FreedConnectionIsUnused`, `ExecuteIsNotReentered` |
| `MultiQuery` | every request of up to five characters over `[`, `]`, `'`, `;`, space and `x` | `ImplementsLexer` |
| `RowData` | six kinds of result of one or two columns, of every type between them, and one without columns; up to 2 rows; lengths 0, 3, 4 of at most 6; chunks of 32 bytes | `StaysInStep`, `CellsArriveAsSent`, `ValuesSurvive`, `FailureHasCode`, `BlocksAreSound` |
| `Commands` | one connection, two descriptors; results of 0, 1 or 3 columns, of which two are the most; a row count of 3 or a negative one; pages of two rows | `InStep`, `OwnAnswer`, `OwnDescriptor`, `FailureHasReason`, `CallsReturn` |
| `Requests` | every text of up to four tokens of the format style and eight of the others; eleven lists of parameters and two dicts | `RequestArrives`, `EveryBlockIsOwned` |

The other four runs each check one statement of a document or comment that the
code does not keep; section 6 lists them.

Why the bounds are enough:

- `BufferedReader`.  A read of 4 is longer than the buffer of 3 and takes the
  direct path; 1 and 2 do not; 0 is the empty read.  The streams hold two headers
  back to back, a header and a body, a blank line that starts inside a false
  start (`CR CR LF CR LF`), a header just at and one past the maximum, and one
  whose blank line never comes.  The allocation doubles once and then meets the
  maximum.
- `ResultPaging`.  Four rows in pages of three give a full page, a short last one
  and the boundary between them; pages of one make every row a boundary; the
  server may send fewer rows than asked for, and none, and a load may fail at
  every boundary and be tried again by the next fetch.  `MaxPastEnd` bounds the calls after
  the end.  `Wrap` is small enough for a wrong subtraction to show and large
  enough that the right ones stay clear of it, as with 2^32.  Two results are
  what it takes to share an error code.
- `PageMemory`.  Two results of five fields hold at most ten blocks.  The module
  has no counter: the run is exhaustive for one result and the page that
  replaces its own.
- `Session`.  Each cursor holds at most a result and a statement: six blocks
  for three cursors.  Two application cursors are what `close` must release
  together and what may be left over after it; the two are interchangeable
  (symmetry).  `MaxBatch` = 2 gives `executemany` a first and a last list.
- `RowData`.  Two rows of two columns have a boundary between cells, between
  rows, and an end; each format is followed by another of a different size, so
  that a field read too short or too long meets a field it does not fit.  Four
  units of a string fill the arena's rounding, so that its NULs need bytes of
  their own, and three do not; a chunk of 32 bytes holds a few values and less
  than the longest.  `Codes` has 0, the code that must not be left as it is.
- `Commands`.  One connection is what shares nothing but descriptors with the
  rest of the process; two descriptors are what it takes for a number to come
  back as another's.  The responses are every kind there is: refusals with a
  code, without one and without a status; counts, rows whole and malformed,
  several result types, column counts of none and out of range, a row count below
  zero, pages short by one row and with or without their own `Row-Count-Sent`.
- `Requests`.  Every order of `%`, a letter and `?` up to four tokens; tuples
  empty, nested and side by side; every type of parameter.  `Reserve` = 1 in
  place of five makes the second parameter grow the table.  `MaxStranded` = 1
  bounds how many binds run out of memory; a second one strands the next string
  just as the first.  `Depth` = 3: the code opens a tuple found in a tuple
  as any other, in a later pass, and the proof holds for every `Depth`.
- `MultiQuery`.  Five characters hold a name with a doubled bracket (`[x]]`), a
  semicolon inside or after it, and text behind; the loop's memory is its three
  flags and one character, and the proof has no bound.

## 4 Fairness

`BufferedReader` and `Commands` state fairness.

`BufferedReader`: weak fairness of `ReaderStep`, one turn of the loop in the
calling thread.  The thread is not blocked by anything but `recv()`, and
`recv()` returns when bytes have arrived; the actions that fill are enabled only
while bytes are to come, so that the assumption says nothing about a server that
goes silent.  `SentBytesAreReturned` accordingly speaks of calls whose bytes the
server does send, the case whose failure hung the client
(`tests/test_integration.py`).

`Commands`: weak fairness of `ClientStep`, a step of the command in progress.
A step that reads is enabled only while there is something to read, or the link
is down; `SendOk` writes the server's response at once, so that the assumption
is that a request which arrives is answered.  `CallsReturn` then says that no
command waits for more than its response: `recv()` has no timeout, and a client
that waited for a count that does not come would wait for good.

No fairness is assumed for failures.  The other modules state safety only: an
application need not make any call.

## 5 The proofs

Everything here is for all values of the constants, under the modules' named
assumptions.  `tlapm` checks every step.

`BufferedReader_proofs` (`BytesAssumption`, `SizesAssumption`,
`DoublingAssumption`).  The inductive invariant `IInv` adds to the properties
that `rbuf` is the stretch of the stream that ends at `taken` (`Window`), that
the header's allocation is one of the sizes doubling goes through and so meets
the maximum exactly (`SizeIsReachable`; without it the test
`size >= FOURD_MAX_HEADER_SIZE` would not bound anything), that the allocation
precedes the first byte, and that a read never exceeds its length.
`FirstBlankLine` is then proved on top of `IInv`.  Results: `TypeCorrect`,
`ReadsAreExact`, `NulFits`, `HeadersEndAtFirstBlankLine`, and
`ReaderImplementsByteStream`, the refinement, for every stream, every buffer
size and every way `recv()` cuts the stream.

`ResultPaging_proofs` (`CountsAssumption`, `ServerAssumption`).  `IInv` says
that the page lies within the result, so that no counter wraps, and that a
result stands in one of three places: before the first row, on a row, after the
last.  On a row it says what `RowNearPage` and `RowsInOrder` say: how far behind
the page's end the row may be, and that the rows given and the loads failed are
together the rows passed.  `RowNearPage` and `EndMeansAllRows` alone are not
inductive: they speak of the moment after a fetch that gave a row or the end,
and a fetch that raised moves the row number too.  The arithmetic of
`fourd_next_row` and `_fetch_result` is in the lemmas `NextRowArithmetic` and
`AskedRowsExist`.  Results, for servers that send pages short or empty and
whichever loads fail: `TypeCorrect`, `RowsAreNearTheirPage`, `RowsComeInOrder`,
`NoneMeansAllRows`, `FailedLoadsRaise`, `PagingImplementsRowStream`.
`CountsAssumption` keeps row counts and page sizes below half the counters'
range, which the code guarantees: page sizes are `int` arguments, and counts
come from `atoi`.

`Session_proofs` (`CursorsAssumption`, `PointersAssumption`, `BatchAssumption`).
None of the properties is inductive, since none says which activations may lie
on which.  `IInv` adds four things.  `StackShape`: the commands that control
transactions run on the private cursor, which is on top of the stack; below the
top there are only `executemany`'s own activation and the statement that waits
for its `START TRANSACTION`; while `commit`, `rollback` or `close` runs, nothing
else does.  `FlagInv`: `in_transaction` is set while such a command runs, and
when the flag is about to be cleared the server's transaction has ended.
`WrapInv`: where the flag is set on a live link and the server has no
transaction, it is being started or ended, or its start has failed, and a
statement past its guards has a transaction.  `OwnersInv`: `execute` prepares
only where the cursor holds no statement.  The actions are proved in groups by
what they do to the stack (`Raises`, `Continues`, `Returns`, `Others`, the
calls, `StartTransaction`, `RunOk`, `NextBatch`).  Results, for any number of
cursors, any amount of memory and any length of an `executemany`: `TypeCorrect`,
`TransactionsAreKnown`, `StatementsAreWrapped`, `ReadOnlyReads`,
`BlocksHaveOneOwner`, `FreedIsUnused`, `NoReentrance` (from `StackShape` alone).

`MultiQuery_proofs` (`RequestsAssumption`, `NulAssumption`).  `IInv` adds that a
name has an opening bracket before it, and so that a doubled bracket of a legal
request is never at its start: this is why the loop's test `i > 1`, where
`i > 0` would be expected, refuses no doubled bracket that counts.  The lemmas
`Read...Mapped` state each step of the lexer in terms of the mapping, and
`LexerNext` shows that each action of the loop is one of them.  Results, for
requests of any length: `TypeCorrect` and `ScannerImplementsLexer`.

`PageMemory_proofs`.  `IInv` ties each point of a response (`pc`) to the
pointers that are set by then, and says that these are distinct blocks: that
what a step allocates is new, and what it frees is no one else's, follows.
Results, for any number of blocks: `TypeCorrect`, `NothingLeaksOrDangles`,
`BlocksHaveOneOwner`, `ValuesLiveWithTheirPage`.

`RowData_proofs` (`ArenaAssumption`, `LengthsAssumption`, `PagesAssumption`).
Three invariants.  `IInv` adds to `BlocksAreSound` that the bytes used of every
chunk are a multiple of 8 and within its capacity (without the first the next
block need not be aligned, without the second it need not fit), that the lengths
read are natural numbers, and at which points of a response the error code is
set.  `AllocInChunk` and `AllocNewChunk` are the two cases of
`fourd_arena_alloc`.  `StreamInv` is about the wire: its part `Position` says,
for each point of the loops, which fields of which cell, row or page the server
has yet to send, so that a read in step is a read of the field the code is at;
`StaysInStep` alone says nothing of what comes next, and
`CellsArriveAsSent` only speaks of the cells already read.  `MemoryInv`
says that every value has a block of its own, and that the newest block is the
struct whose data comes next: a later value then never overwrites an earlier one.
Results, for every schema, number of rows and length: `TypeCorrect`,
`ReadsStayInStep`, `CellsArrive`, `ValuesAreKept`, `BlocksOfValuesAreSound`,
`FailuresHaveACode`: every property of `RowData`.

`Commands_proofs` (`CommandsAssumption`, `MaxColumnsAssumption`).  `TypeInv` gives
headers, items, results and calls their types, and says that a call whose
response has not been read still has the result it began with.
`DescriptorInv` says whose descriptor is whose: `OwnDescriptor` alone does not,
for it is silent about a call in progress, whose connection may not be connected
yet (the login) or no longer.  `StreamInv` says what is unread on each
connection at each step of its call: nothing before the request is sent, then a
beginning of one response to it, then no more than the count or the rows that
the call goes on to read.  Neither `InStep` nor `OwnAnswer` is inductive without it, since
both speak of the moments after a call, and `StreamInv` in turn needs that the
two kinds of bytes, what `recv()` has given and what it has not, are of the same
connection (`FreeInv`: the number that is given out next has nothing on it).
The link is `ResponseSuits`: of every response, the header as
`traite_header_response` reads it leaves just as much to be read as the response
still has, and the counts that are in its lines.  It is proved response by
response from what `get` finds first in a header (`GetIs`, with `FirstHit`: the
first line that contains the word exists, since the natural numbers are well
ordered) and from what each section does to the result (`TreatedIs`).  Results,
for every set of connections and descriptors, every code of an error, every
number of columns and rows, and every response of section 2: `TypeCorrect`,
`OwnDescriptorsOnly`, `FailuresHaveAReason`, `CommandsStayInStep`,
`AnswersAreOwn`: every invariant of `Commands`.  `CallSteps` reduces each step of a call to what it does
to the call's own connection and to its leaving the others alone (`Kept`).

`Requests_proofs` (`RequestsAssumption`: the table has at first at least one
element; `QueriesAssumption`: a text is a sequence of the tokens;
`ArgumentsAssumption`: a parameter is a value, with any data, or a tuple of
parameters, `Depth` deep at most, where `Depth` is any natural number). There
are two inductive invariants. `IInv` says of each element of the statement that
it owns just the blocks that `_copy` allocates for its type, so that
`fourd_free_statement`, which decides by the type and the pointer again, frees
the same (`FreedIsOwned`); that while parameters are bound `nbAllocElement` is
the table's length, which after a bind that ran out of memory it is not; and
that the string at hand is that of the parameter bound next, so that no path but
that failure drops it. Results, for every text, every list of parameters and
every size of the table: `BlocksAreOwned`. `RoundTrip`, about `Base64`: decoding
an encoded text gives the text, for every sequence of bytes. It goes by the
group of three bytes that a place lies in and its place there; `EncodeShape`,
`Groups` and `Bits` are the arithmetic, `PadsAreLast` and `SymbolsAreCounted`
find the end of the text.

`RInv` is the second, for `RequestsArrive`: for every text, every list or dict
of parameters, every depth of tuples and every size of the table, a request that
is sent carries the types of the caller's parameters; their whole values unless
one is an image or a `str` with a character outside the BMP; and, for a text that
`IsPlain` holds of, the text that is meant.
`RequestArrives` says nothing until there is a request, so `RInv` has to say of
each earlier point what will be sent. `TextInv`: while tuples are opened one a
pass, the parameters flattened are the caller's flattened, and the text with the
shapes of the *remaining* tuples put at their marks is the text with the
caller's shapes at its own (that `idx+1` counts the right mark, although each
pass adds marks and parameters before the next tuple). `BoundInv`: what is bound
is a beginning of the parameters, each element with its type, its nullness and
its data. `SentInv`: a request exists only once `Send` has made it.

These results are about what recursive definitions and folds compute, for
sequences of any length. The induction theorems of the library take an operator
as a parameter, which the provers cannot instantiate; an induction here is over
a *set* of naturals instead, the numbers for which the claim holds. `Least`
(every non-empty set of naturals has a least element, from the well-foundedness
of `<`), `Induction`, `Recursion` (a function defined by its previous value
exists when its step is given as a function), `AppendInduction` (over sequences,
by their last element) are the tools. From them come the laws that the proof
rests on: `FlattenConcat`, `PairsAppend` (the replacement of pairs, one token at
a time), `UnescapedIsRead` (in a text that `IsPlain` holds of, replacing formats
and then escapes gives what one reading gives; section 6 names a text
where it does not), `MarkSplits` and `MarkIsCounted` (`replace_nth` finds the
mark it is asked for), `ShapedConcat` and `GroupShaped` (opening a tuple puts
its shape where its mark was), `FoldIs` (a fold over tuples in tuples gives the
same however deep it began, so that a tuple's is made of its items'),
`FlatItems`, `TypesFit` (`paramlen` is enough for the list of types) and
`ElementIs` (`_serialize` writes what `Formats` says is read).

TLC has checked each of `TextInv`, `BoundInv` and `SentInv` on the run `Requests`.

Only model-checked: `SentBytesAreReturned` and `CallsReturn`, since liveness
under fairness is beyond the prover.  Every invariant and every action property
of the passing runs is a theorem.

## 6 Where the code falls short of its documents

Each is a run that TLC ends with a counterexample, and a finding in
`PROJECT.json` with the line it quotes.

| Run | Property | What happens |
|---|---|---|
| `ResultPagingSharedErrno` | `OnlyOwnFailureRaises` | `fetchone` reads the connection's `error_code` also at the plain end of the rows, and raises what another cursor's command left there |
| `SessionLeak` | `OldResultsAreFreed` | `execute` closes the previous result on the server and drops the pointer, so that "Properly clean up any old results" below never finds it |
| `SessionStaleFetch` | `FetchHasResult` | `__resulttype` survives a failed `execute` and an `executemany`; `fetchone` then calls `fourd_next_row` without a result |
| `ResultPagingFailedLoad` | `EveryRowInPage` | a failed page load leaves the row number moved; the next fetch loads the page of the row that was skipped, and with pages of one row answers 1 for a row that is not in it: `fourd_field`, which checks the row against the row count only, then reads past `elmt` |

Others were seen while modelling and have no run of their own.
In `%%a` the second percent sign and the letter become a parameter marker before
the pair is unescaped (`p4d.py:213`), although the change log says "Fix `%%`
escape in format-style queries": `execute('%%a', ...)` sends `%?`.  `IsPlain`
leaves such texts out of `RequestArrives`, which TLC finds violated without it.
The length given for a `str` parameter is its number of characters, and as many
UTF-16 units are sent (`p4d.py:277`), although `fourd.c:479` takes a character
for two bytes: a text with a character outside the BMP loses its end.
`RequestArrives` leaves such requests' data out by `IsWide`, and is violated
without it.
A page load that leaves no error code (no memory for a result,
`fourd_interne.c:407`; a header refused for several `Result-Type`s, line 810, or
for having no status) is told as the end of the rows, although `fetchone` means
to "Distinguish "end of rows" from a connection/protocol failure"
(`p4d.py:426`): the second case of `EndMeansAllRows`, which is violated without
it.
`close` rolls back and leaves `in_transaction` set (`p4d.py:618`): a second
`close`, or the `commit` of the `with` block that the connection was closed in,
executes on a closed connection and raises.
A comment says that the connection must not be reused after a protocol error
(`communication.c:311`); nothing marks it, and the driver goes on using it.
A page without any row is accepted, and `fourd_next_row` answers 1 for a row that
is not in memory (`fourd.c:197`): `EveryRowInPage` leaves such results out, since
no document says what the server may send, and `RowNearPage` says how far off the
row is.  Where it is a statement's first page, the page's end wraps and no other
page is ever asked for: that case alone `RowNearPage` leaves out.
The flag `in_transaction` stays set when `START TRANSACTION` fails
(`p4d.py:610`); later statements run outside any transaction.
With the link lost inside a transaction, `close` raises from its `ROLLBACK`
before it releases anything, every time (`p4d.py:618`).
`dblogin`, `close_statement`, `dblogout` and `quit` do not look at what
`socket_send` returns (`fourd_interne.c:85`, `474`, `489`, `503`), although
"every socket read/write is now checked" (README): after a send that failed they
read from a descriptor that is closed, and by then perhaps another's.
A refusal with an error code of 0, or without a code where the buffer happens to
start with a 0, passes for a success (`fourd_interne.c:589`).
A bind that fails strands the string made for it (`p4d.py:308`).
An IMAGE parameter is sent as present, without a value (`fourd_interne.c:1081`).
`rollback`'s docstring says it starts a new transaction; the next `execute`
does.

Passing properties that have such a neighbour say what is left of the
statement: `WrappedOnceStarted` (no statement outside a transaction unless a
`START TRANSACTION` failed before), `EachBlockHasOneOwner` (apart from those
dropped results, no leak and no double free), `LoadFailureRaises` (apart from
loads without a code), `RowNearPage` and `RowsInOrder` (one place off, and one
row left out, for each failed load), `EndMeansAllRows` (no early end but after a
load that failed without a code), `OwnDescriptor` (up
to the first send that fails), `OwnAnswer` and `InStep` (until a response was
left half-way), `FailureHasReason` (apart from the two refusals without a code),
`RequestArrives` (texts that `IsPlain` holds of; values of requests without an
image and without characters outside the BMP).

## 7 What is assumed or left out

- The server answers in the wire format in `Session` and `ResultPaging`; what
  wrong statuses and lengths do is `RowData`'s, and what they leave behind
  `Commands`' concern.
- In `RowData` a page's columns and row count are those of the header; a
  `FETCH-RESULT` header that changes `Column-Count` (`fourd_interne.c:660`) is
  not modelled.  Bytes of one value are one datum.  The test for columns without
  metadata (`communication.c:351`) is left out: `nbColumn` is set together with
  `Column`, and a header whose `Column` cannot be allocated is refused before any
  row is read, so that no state of the model, or of the code, passes it.
- In `Commands` the texts of requests and of errors, aliases and the values of
  rows are left out.  Once a command has used a descriptor that is not its
  connection's, the model stops following it: nothing is promised any more.
  `fourd_free` and `_query`'s result are in `Session` and `PageMemory`.
- In `Requests` what is turned into text before it is bound is a `str`, and a
  request is not split or refused by `_valid_query` (`MultiQuery`).  A text has
  no `%(key)s` whose key is not a letter.  A lone surrogate makes `encode` raise
  for a `str` parameter (`IsRefused`); in the text itself, whose `encode('utf-8')`
  (`p4d.py:251`) raises before the statement is made, it is not modelled.
  The types that `Formats.Known` lists are those that `socket_receiv_data` has a
  case for.  `execute` binds four of them; a program in C that bound `VK_TIME` or
  `VK_TEXT`, which are not listed, would have nothing copied and a present marker
  sent without data, as `VK_IMAGE` has.
- `Session` keeps the server's transaction as the driver's own commands make it:
  an application that sends `COMMIT` or `START TRANSACTION` through its cursor
  is not modelled.
- `calloc` and `malloc` of the small structures (`FOURD_STATEMENT`,
  `FOURD_RESULT` in `fourd_exec_statement`) are unchecked in the code and
  succeed in the models (`HasMemory`); the checked ones fail where the code
  provides for it.
- In `ResultPaging` a server sends at most the rows a `FETCH-RESULT` asked for.
- `execute`'s `__describe`, which may raise for an unknown type after the
  result is in place, and `__prepared`, which is always false, are left out.
- A cursor's `close` and `with` block are operations of their own; `__del__`
  frees what `__exit__` does, at a time Python chooses, after which the cursor is
  gone: `ExitCursor` stands for both.
- Not modelled: `connect()` and its DSN, the constructor that fails, Windows
  branches, logging, the conversion of cells to Python values and `description`,
  the setters of `fourd.c` and `fourd_result.c`, the SQLSTATE table, `setup.py`,
  the cffi build, tests and benchmark.  The components in `PROJECT.json` say why
  for each.

## 8 The plan

Done: `ByteStream`, `BufferedReader`; `RowStream`, `ResultPaging`; `Session`;
`MultiQuery`; `PageMemory`; `Formats`, `Arena`, `RowData`; `Header`, `Commands`;
`QueryText`, `Base64`, `Requests`.  All have proofs; those about `QueryText` and
`Base64` are in `Requests_proofs`.

Left to model: the conversion of cells to Python values and `__describe`;
`connect()` with its DSN and the constructor that fails; a `FETCH-RESULT` header
that changes `Column-Count`; aliases of columns, which `Header` skips.

Left to prove: of the properties the runs check only the liveness of
`BufferedReader` and `Commands`, which the prover cannot reach.

------------------------------ MODULE Requests ------------------------------
(***************************************************************************)
(* A statement with parameters, from execute() (src/p4d/p4d.py) to the     *)
(* request on the wire: the rewriting of its text, fourd_prepare_statement,*)
(* fourd_create_string, fourd_bind_param and fourd_free_statement          *)
(* (src/lib4d_sql/fourd.c), _copy, _serialize and _query_param             *)
(* (fourd_interne.c), and the blocks of memory that these hold.            *)
(*                                                                         *)
(* A parameter is of a Python class, or of one of the FOURD types, as a    *)
(* program in C would bind it; a tuple has items.  Whatever is turned into *)
(* text before it is bound is a str here.  The data are characters, bytes  *)
(* or digits; "w" is a character that UTF-16 gives two units to, "lone" a  *)
(* surrogate that stands alone and that it has no encoding for.            *)
(***************************************************************************)
EXTENDS QueryText, Formats, Base64

CONSTANTS Queries,        \* the texts that execute() is called with
          Arguments,      \* and the sequences or dicts of parameters
          Depth,          \* how deep tuples lie in one another
          Reserve,        \* how many elements the table has at first: five
          MaxStranded     \* bound: how many binds may run out of memory

ASSUME RequestsAssumption ==
    Depth \in Nat /\ Reserve \in Nat \ {0} /\ MaxStranded \in Nat

(* The tokens of a text.                                                   *)
Tokens == <<"%", "?", "a", "x", "'", "(", ",", ")", "%(a)s", "%(b)s", ":a", ":b">>

(* A parameter: a value, or a tuple of parameters.                         *)
Classes == {"None", "str", "bool", "int", "long int", "float"} \union Known
Values == [class : Classes, data : Seq(STRING), items : {<<>>}]
TuplesOf(S) == [class : {"tuple"}, data : {<<>>}, items : Seq(S)]
Nested[d \in 0 .. Depth] == IF d = 0 THEN Values ELSE Values \union TuplesOf(Nested[d - 1])
Params == Nested[Depth]

ASSUME QueriesAssumption == Queries \subseteq Seq(ToSet(Tokens))
ASSUME ArgumentsAssumption ==
    \A args \in Arguments :
        /\ args.isDict \in BOOLEAN
        /\ IF args.isDict THEN \A k \in DOMAIN args.of : args.of[k] \in Params
                          ELSE args.list \in Seq(Params)

VARIABLES pc,             \* where execute() is
          asked,          \* history: the query and the arguments it was called with
          query,          \* the text as rewritten so far
          params,         \* the parameters, with some of the tuples opened
          statement,      \* fourd_query
          string,         \* whether param is what fourd_create_string has made
          request,        \* history: what was sent
          live,           \* the blocks allocated
          stranded        \* history: the strings of binds that failed

vars == <<pc, asked, query, params, statement, string, request, live, stranded>>

Value(class, data) == [class |-> class, data |-> data, items |-> <<>>]
Tuple(items) == [class |-> "tuple", data |-> <<>>, items |-> items]
IsTuple(p) == p.class = "tuple"
Positional(ps) == [isDict |-> FALSE, list |-> ps, of |-> <<>>]
Dict(f) == [isDict |-> TRUE, list |-> <<>>, of |-> f]

None == [elmt |-> <<>>, nbAllocElement |-> 0, table |-> 0]     \* no statement
NoRequest == [statement |-> <<>>, types |-> <<>>, data |-> <<>>]

NothingAsked == <<<<>>, Positional(<<>>)>>

Init ==
    /\ pc = "idle" /\ asked = NothingAsked /\ query = <<>> /\ params = <<>>
    /\ statement = None /\ string = FALSE /\ request = NoRequest
    /\ live = {} /\ stranded = {}

-----------------------------------------------------------------------------
(* The text                                                                *)

Given(q, args) ==
    IF args.isDict THEN [i \in DOMAIN Keys(q) |-> args.of[Keys(q)[i]]] ELSE args.list

Execute(q, args) ==
    /\ pc = "idle"
    /\ args.isDict => ToSet(Keys(q)) \subseteq DOMAIN args.of
    /\ asked' = <<q, args>>
    /\ query' = Unescaped(WithoutFormats(IF args.isDict THEN WithoutKeys(q) ELSE q))
    /\ params' = Given(q, args)
    /\ pc' = "tuples"
    /\ UNCHANGED <<statement, string, request, live, stranded>>

Tuples == {i \in DOMAIN params : IsTuple(params[i])}

(* One tuple, the first, is opened in each pass.                           *)
OpenTuple ==
    /\ pc = "tuples" /\ Tuples # {}
    /\ LET i == Min(Tuples)
           items == params[i].items
       IN  /\ query' = ReplaceNth(query, Group(Len(items)), i)
           /\ params' = SubSeq(params, 1, i - 1) \o items \o SubSeq(params, i + 1, Len(params))
    /\ UNCHANGED <<pc, asked, statement, string, request, live, stranded>>

-----------------------------------------------------------------------------
(* The statement's memory                                                  *)

(* The type that a parameter is bound with.                                *)
TypeOf(p) ==
    CASE p.class = "bool" -> "VK_BOOLEAN" [] p.class \in {"int", "long int"} -> "VK_LONG"
      [] p.class = "float" -> "VK_REAL" [] p.class \in Known -> p.class
      [] OTHER -> "VK_STRING"

IsNull(p) == p.class = "None"
IsMade(p) == p.class = "str"

String == {<<"string", 0>>, <<"string data", 0>>}

(* What _copy allocates.  It copies no image.                              *)
Copied(t, i) ==
    IF t = "VK_IMAGE" THEN {}
    ELSE {<<"value", i>>} \union IF t \in Varying THEN {<<"data", i>>} ELSE {}

(* What fourd_free_statement frees of an element's value.                  *)
FreedShallowly(e, i) == {<<"value", i>>}                     \* mutant of FreedOf
FreedOf(e, i) ==
    IF e.null \/ e.pValue = {} THEN {}
    ELSE {<<"value", i>>} \union
             IF e.type \in {"VK_STRING", "VK_FLOAT"} \union Binary THEN {<<"data", i>>} ELSE {}

Table(n) == <<"table", n>>
StatementBlocks(s) == {<<"statement", 0>>, <<"query", 0>>, <<"image types", 0>>, Table(s.table)}

FreeStatement(s) ==
    IF s = None THEN {}
    ELSE StatementBlocks(s) \union UNION {FreedOf(s.elmt[i], i) : i \in DOMAIN s.elmt}

NewStatement == [elmt |-> <<>>, nbAllocElement |-> Reserve, table |-> Reserve]

(* The statement of the last execute() is freed, another is prepared.      *)
Prepare ==
    /\ pc = "tuples" /\ Tuples = {}
    /\ statement' = NewStatement
    /\ live' = (live \ FreeStatement(statement)) \union StatementBlocks(NewStatement)
    /\ pc' = "bind"
    /\ UNCHANGED <<asked, query, params, string, request, stranded>>

PrepareFails ==
    /\ pc = "tuples" /\ Tuples = {}
    /\ statement' = None
    /\ live' = live \ FreeStatement(statement)
    /\ pc' = "returned"
    /\ UNCHANGED <<asked, query, params, string, request, stranded>>

(* The number of the parameter to be bound, from 1.                        *)
Number == Len(statement.elmt) + 1
HasNext == Number <= Len(params)

(* UTF-16, which encode() writes.                                          *)
Units(chars) ==
    FlattenSeq([i \in DOMAIN chars |-> IF chars[i] = "w" THEN <<"high", "low">>
                                                         ELSE <<chars[i]>>])

(* A Python value that has no place in the C type, or no UTF-16.           *)
IsRefused(p) == p.class = "long int" \/ (IsMade(p) /\ "lone" \in ToSet(p.data))

CreateString ==
    /\ pc = "bind" /\ HasNext /\ ~string
    /\ IsMade(params[Number]) /\ ~IsRefused(params[Number])
    /\ string' = TRUE
    /\ live' = live \union String
    /\ UNCHANGED <<pc, asked, query, params, statement, request, stranded>>

(* fourd_create_string takes as many units of a str as it has characters.  *)
DataOf(p) == IF IsMade(p) THEN SubSeq(Units(p.data), 1, Len(p.data)) ELSE p.data

IsFull == Number > statement.nbAllocElement
Grown == Number - 1 + 5
Bind ==
    /\ pc = "bind" /\ HasNext
    /\ LET p == params[Number]
           s == statement
           t == TypeOf(p)
           copies == IF IsNull(p) THEN {} ELSE Copied(t, Number)
           table == IF IsFull THEN Grown ELSE s.table
       IN  /\ IsMade(p) => string
           /\ ~IsRefused(p)
           /\ statement' = [elmt |-> Append(s.elmt, [type |-> t, null |-> IsNull(p),
                                                     pValue |-> copies, data |-> DataOf(p)]),
                            nbAllocElement |-> IF IsFull THEN Grown ELSE s.nbAllocElement,
                            table |-> table]
           /\ live' = (live \ {Table(s.table)}) \union {Table(table)} \union copies
    /\ pc' = IF string THEN "bound" ELSE "bind"
    /\ UNCHANGED <<asked, query, params, string, request, stranded>>

(* execute() raises; the string it has made is no one's any more.          *)
BindNoMemory ==
    /\ pc = "bind" /\ HasNext /\ IsFull /\ ~IsRefused(params[Number])
    /\ IsMade(params[Number]) => string
    /\ Cardinality(stranded) < 2 * MaxStranded
    /\ statement' = [statement EXCEPT !.nbAllocElement = Grown]
    /\ stranded' = stranded \union IF string THEN {<<b[1], 1>> : b \in String} ELSE {}
    /\ live' = IF string THEN (live \ String) \union stranded' ELSE live
    /\ string' = FALSE
    /\ pc' = "returned"
    /\ UNCHANGED <<asked, query, params, request>>

BindRaises ==
    /\ pc = "bind" /\ HasNext /\ IsRefused(params[Number])
    /\ pc' = "returned"
    /\ UNCHANGED <<asked, query, params, statement, string, request, live, stranded>>

FreeString ==
    /\ pc = "bound"
    /\ string' = FALSE
    /\ live' = live \ String
    /\ pc' = "bind"
    /\ UNCHANGED <<asked, query, params, statement, request, stranded>>

-----------------------------------------------------------------------------
(* The request                                                             *)

(* The characters of the type names, and of the list that they go into.    *)
ListSizeOfNames(n) == n * 12                                \* mutant of ListSize
ListSize(n) == (n + 1) * 13

NameLength ==
    [VK_BOOLEAN |-> 10, VK_BYTE |-> 7, VK_WORD |-> 7, VK_LONG |-> 7, VK_LONG8 |-> 8,
     VK_REAL |-> 7, VK_FLOAT |-> 8, VK_TIMESTAMP |-> 12, VK_DURATION |-> 11,
     VK_STRING |-> 9, VK_BLOB |-> 7, VK_IMAGE |-> 8]

(* " %s" for each name, as long as there is room for it and a NUL.         *)
TypeList(types) ==
    LET end[k \in 0 .. Len(types)] ==
            IF k = 0 THEN 0 ELSE end[k - 1] + 1 + NameLength[types[k]]
    IN  [k \in DOMAIN types |->
            IF end[k] <= ListSize(Len(types)) - 2 THEN types[k] ELSE "cut"]

(* _serialize: the fields it writes, by their sizes.                       *)
FieldsOf(sizes, v) == [i \in DOMAIN sizes |-> Field(sizes[i], v)]
DataField(n, v) == IF n = 0 THEN <<>> ELSE <<Field(n, v)>>
Serialized(t, v) ==
    CASE t = "VK_TIMESTAMP" -> FieldsOf(<<2, 1, 1, 4>>, v)
      [] t = "VK_FLOAT" -> FieldsOf(<<4, 1>>, v) \o <<Field(4, Len(v))>> \o DataField(Len(v), v)
      [] t = "VK_STRING" -> <<Field(4, -Len(v))>> \o DataField(2 * Len(v), v)
      [] t = "VK_BLOB" -> <<Field(4, Len(v))>> \o DataField(Len(v), v)
      [] t = "VK_IMAGE" -> <<>>
      [] OTHER -> <<Field(StructSize(t), v)>>

Element(e) ==
    IF e.null THEN <<Field(1, "0")>> ELSE <<Field(1, "1")>> \o Serialized(e.type, e.data)

(* The bytes of the tokens: any that tell them apart.                      *)
Bytes(q) == [i \in DOMAIN q |-> 37 + 17 * (CHOOSE k \in DOMAIN Tokens : Tokens[k] = q[i])]

(* _query_param, or _query when there are no parameters.                   *)
Send ==
    /\ pc = "bind" /\ ~HasNext
    /\ LET elmt == statement.elmt
       IN  request' = [statement |-> Encode(Bytes(query)),
                       types |-> TypeList([i \in DOMAIN elmt |-> elmt[i].type]),
                       data |-> FlattenSeq([i \in DOMAIN elmt |-> Element(elmt[i])])]
    /\ pc' = "returned"
    /\ UNCHANGED <<asked, query, params, statement, string, live, stranded>>

(* execute() returns or raises: but for the statement, all it made is gone.*)
Return ==
    /\ pc = "returned"
    /\ pc' = "idle"
    /\ asked' = NothingAsked /\ query' = <<>> /\ params' = <<>>
    /\ request' = NoRequest
    /\ UNCHANGED <<statement, string, live, stranded>>

(* __exit__ and __del__ of the cursor.                                     *)
ForgetStatement ==
    /\ pc = "idle" /\ statement # None
    /\ live' = live \ FreeStatement(statement)
    /\ statement' = None
    /\ UNCHANGED <<pc, asked, query, params, string, request, stranded>>

Next ==
    \/ \E q \in Queries, args \in Arguments : Execute(q, args)
    \/ OpenTuple \/ Prepare \/ PrepareFails \/ CreateString \/ Bind \/ BindNoMemory
    \/ BindRaises \/ FreeString \/ Send \/ Return \/ ForgetStatement

Spec == Init /\ [][Next]_vars

-----------------------------------------------------------------------------
(* What execute() is asked to send: tuples stand where their marker was.   *)

(* val of a value, and of a tuple comb of what its items give.             *)
FoldTuples(p, val, comb) ==
    LET fold[d \in 0 .. Depth] ==
            [x \in Nested[d] |->
                IF IsTuple(x) THEN comb[[i \in DOMAIN x.items |-> fold[d - 1][x.items[i]]]]
                ELSE val[x]]
    IN  fold[Depth][p]

Shape(p) ==
    FoldTuples(p, [v \in Values |-> <<"?">>],
               [parts \in Seq(Seq(ToSet(Tokens))) |-> InParentheses(parts)])
Leaves(p) ==
    FoldTuples(p, [v \in Values |-> <<v>>], [parts \in Seq(Seq(Values)) |-> FlattenSeq(parts)])
Flat(ps) == FlattenSeq([i \in DOMAIN ps |-> Leaves(ps[i])])
WithShapes(q, ps) ==
    FlattenSeq([i \in DOMAIN q |->
        IF q[i] = "?" /\ MarksUpTo(q, i) <= Len(ps) THEN Shape(ps[MarksUpTo(q, i)])
        ELSE <<q[i]>>])

AskedText ==
    LET q == asked[1]
    IN  WithShapes(Meaning(IF asked[2].isDict THEN WithoutKeys(q) ELSE q), Given(q, asked[2]))
AskedParams == Flat(Given(asked[1], asked[2]))

(* The value that a parameter has: of a str, all of its text.              *)
Meant(p) == IF IsMade(p) THEN Units(p.data) ELSE p.data
IsWide(p) == IsMade(p) /\ "w" \in ToSet(p.data)

(* It is sent in the format that socket_receiv_data reads values in.       *)
Expected(p) ==
    IF IsNull(p) THEN <<Field(1, "0")>>
    ELSE <<Field(1, "1")>> \o
            ValueFields(TypeOf(p), Written(TypeOf(p), Len(Meant(p))), Meant(p), Meant(p))

WasSent == request # NoRequest
TextArrives == Decode(request.statement) = Bytes(AskedText)
DataArrive ==
    request.data = FlattenSeq([i \in DOMAIN AskedParams |-> Expected(AskedParams[i])])

(* The server receives, for each parameter that execute() was called with, *)
(* its type; the query that was meant, if it is plain (no quote, no escaped*)
(* percent sign before a letter, none single before a key's marker); and,  *)
(* if no parameter is an image or a str with a character outside the BMP,  *)
(* each one's NULL or its whole value, in the format of values read.       *)
RequestArrives ==
    WasSent =>
        /\ IsPlain(asked[1]) => TextArrives
        /\ request.types = [i \in DOMAIN AskedParams |-> TypeOf(AskedParams[i])]
        /\ (\A i \in DOMAIN AskedParams :
                TypeOf(AskedParams[i]) # "VK_IMAGE" /\ ~IsWide(AskedParams[i])) => DataArrive

(* Every block allocated has an owner: the statement, one of its copies,   *)
(* the string that is being bound, or a bind that failed; no string        *)
(* outlives its bind; and an element is never written past the table's end.*)
Owned ==
    IF statement = None THEN {}
    ELSE StatementBlocks(statement) \union UNION {statement.elmt[i].pValue : i \in DOMAIN statement.elmt}

EveryBlockIsOwned ==
    /\ live = Owned \union stranded \union (IF string THEN String ELSE {})
    /\ string => pc \in {"bind", "bound"}
    /\ Len(statement.elmt) <= statement.table

=============================================================================

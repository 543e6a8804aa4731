----------------------------- MODULE MCRequests -----------------------------
(* All texts of up to four tokens of the format style, and some of the     *)
(* others; every type of parameter; tuples empty, nested and side by side. *)
EXTENDS Requests

FormatTexts == UNION {[1 .. n -> {"%", "a", "?"}] : n \in 0 .. 4}
KeyTexts == {<<"%(a)s">>, <<"%(a)s", "x", "%(b)s">>, <<"%(b)s", "%", "%", "x", "%(a)s", "?">>,
             <<"%", "%", "%(a)s", ":a">>, <<"%", "%(a)s">>, <<":b", "x", ":a">>,
             <<":a", "%", "a", ":a">>, <<"?", "'", "?", "'", "?">>}
MCQueries == FormatTexts \union KeyTexts

ab == Value("str", <<"a", "b">>)
MCArguments ==
    {Positional(ps) : ps \in {
        <<>>,
        <<Value("None", <<>>), ab>>,
        <<Value("str", <<"w", "a">>), Value("str", <<>>), Value("bool", <<"1">>)>>,
        <<Value("int", <<"7">>), Value("long int", <<"1">>), ab>>,
        <<Tuple(<<Value("float", <<"1">>), ab>>), Tuple(<<>>), Tuple(<<ab>>)>>,
        <<Tuple(<<ab, Tuple(<<Tuple(<<Value("int", <<"7">>)>>), ab>>)>>), Value("None", <<>>)>>,
        <<Value("VK_TIMESTAMP", <<"1">>), Value("VK_BOOLEAN", <<"1">>)>>,
        <<Value("VK_FLOAT", <<"1", "2", "3">>), Value("VK_BLOB", <<"1">>),
          Value("VK_LONG8", <<"1">>)>>,
        <<Value("VK_BLOB", <<>>), Value("VK_FLOAT", <<>>), Value("VK_DURATION", <<"1">>)>>,
        <<Value("VK_IMAGE", <<"1">>), ab>>,
        <<ab, Value("str", <<"a", "lone">>)>>}}
    \union {Dict([a |-> ab, b |-> Tuple(<<Value("int", <<"7">>), ab>>)]), Dict([a |-> ab])}
=============================================================================

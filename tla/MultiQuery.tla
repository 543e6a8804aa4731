----------------------------- MODULE MultiQuery -----------------------------
(***************************************************************************)
(* _is_multi_query and _valid_query (src/lib4d_sql/fourd_interne.c): the   *)
(* loop that looks for a second statement in a request, one character to a *)
(* step.  "x" stands for every character the loop does not name; a line    *)
(* end is one of them.  The answer for NULL is that for an empty request.  *)
(***************************************************************************)
EXTENDS Integers, Sequences

CONSTANTS Requests, NUL

Marks == {"[", "]", "'", ";", " "}

ASSUME RequestsAssumption == Requests \subseteq Seq(Marks \union {"x"})
ASSUME NulAssumption == NUL \notin Marks

VARIABLES request, i,
          inCol,         \* in a name in brackets
          inStr,         \* in a string
          finFirst,      \* the first statement has ended
          answer,        \* -1 in the loop, then what _is_multi_query returns
          error_code,    \* cnx->error_code
          legal          \* history: no ']' was met outside a name

vars == <<request, i, inCol, inStr, finFirst, answer, error_code, legal>>

Init ==
    /\ request \in Requests
    /\ i = 0
    /\ inCol = FALSE /\ inStr = FALSE /\ finFirst = FALSE
    /\ answer = -1
    /\ error_code = 0
    /\ legal = TRUE

MoreCharsAndNul == i <= Len(request)                   \* mutant of MoreChars
MoreChars == i < Len(request)

(* request[i], in C: the terminating NUL follows the last character.       *)
CharAt(n) == IF n < Len(request) THEN request[n + 1] ELSE NUL

Reads(cars) ==
    /\ answer = -1
    /\ MoreChars
    /\ CharAt(i) \in cars
    /\ i' = i + 1
    /\ UNCHANGED <<request, error_code>>

OpenName ==
    /\ Reads({"["})
    /\ inCol' = (inCol \/ ~inStr)
    /\ UNCHANGED <<inStr, finFirst, answer, legal>>

(* The bracket before this one was the first of two: the name goes on.     *)
ReopensNever == FALSE                                     \* mutant of Reopens
Reopens == i > 1 /\ CharAt(i - 1) = "]"

CloseName ==
    /\ Reads({"]"})
    /\ inCol' = (~inStr /\ ~inCol /\ Reopens)
    /\ legal' = (legal /\ (inStr \/ inCol \/ (i > 0 /\ CharAt(i - 1) = "]")))
    /\ UNCHANGED <<inStr, finFirst, answer>>

TogglesInNames == TRUE                                    \* mutant of Toggles
Toggles == ~inCol

Quote ==
    /\ Reads({"'"})
    /\ inStr' = IF Toggles THEN ~inStr ELSE inStr
    /\ UNCHANGED <<inCol, finFirst, answer, legal>>

Semicolon ==
    /\ Reads({";"})
    /\ finFirst' = (finFirst \/ (~inCol /\ ~inStr))
    /\ UNCHANGED <<inCol, inStr, answer, legal>>

Space ==
    /\ Reads({" "})
    /\ UNCHANGED <<inCol, inStr, finFirst, answer, legal>>

Other ==
    /\ Reads({"x", NUL})
    /\ answer' = IF ~inCol /\ ~inStr /\ finFirst THEN 1 ELSE -1
    /\ UNCHANGED <<inCol, inStr, finFirst, legal>>

LoopEnds ==
    /\ answer = -1
    /\ ~MoreChars
    /\ answer' = 0
    /\ UNCHANGED <<request, i, inCol, inStr, finFirst, error_code, legal>>

(* _valid_query                                                            *)
Refuse ==
    /\ answer = 1
    /\ error_code = 0
    /\ error_code' = -5001
    /\ UNCHANGED <<request, i, inCol, inStr, finFirst, answer, legal>>

Next ==
    \/ OpenName \/ CloseName \/ Quote \/ Semicolon \/ Space \/ Other
    \/ LoopEnds \/ Refuse

Spec == Init /\ [][Next]_vars

-----------------------------------------------------------------------------
(* A name and a string do not overlap, and the loop stays in the request.  *)
TypeOK ==
    /\ i \in 0 .. Len(request)
    /\ inCol \in BOOLEAN /\ inStr \in BOOLEAN /\ finFirst \in BOOLEAN
    /\ ~(inCol /\ inStr)
    /\ answer \in {-1, 0, 1}
    /\ error_code \in {0, -5001}
    /\ legal \in BOOLEAN

(* The two flags and the look at the previous character tell names,        *)
(* strings and text apart as a lexer does, doubled brackets and quotes     *)
(* included.                                                               *)
Lexer == INSTANCE StatementLexer WITH
    pos <- i,
    mode <- IF inStr THEN "string"
            ELSE IF inCol THEN "name"
            ELSE IF i > 0 /\ CharAt(i - 1) = "]" THEN "closed"
            ELSE "text",
    ended <- finFirst,
    answer <- CASE answer = -1 -> "none" [] answer = 0 -> "one" [] answer = 1 -> "several"

ImplementsLexer == Lexer!Spec

=============================================================================

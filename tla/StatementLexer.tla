--------------------------- MODULE StatementLexer ---------------------------
(***************************************************************************)
(* What lib4d_sql promises of a request before it sends it: text after a   *)
(* semicolon is a second statement, unless the semicolon is part of a      *)
(* string or of a name in brackets.  Inside a name a closing bracket is    *)
(* written twice, inside a string a quote.  MultiQuery is shown to         *)
(* implement this.                                                         *)
(***************************************************************************)
EXTENDS Integers, Sequences

CONSTANTS Requests       \* the requests an application may make

VARIABLES request,
          pos,           \* characters read
          mode,          \* what the next character is part of
          ended,         \* a semicolon has ended the first statement
          legal,         \* no closing bracket was read outside a name
          answer         \* "one" or "several" statements, "none" while reading

vars == <<request, pos, mode, ended, legal, answer>>

(* "closed": in the text, just after a bracket that may be the first of    *)
(* two.                                                                    *)
Modes == {"text", "closed", "name", "string"}
InText == mode \in {"text", "closed"}

Init ==
    /\ request \in Requests
    /\ pos = 0
    /\ mode = "text"
    /\ ended = FALSE
    /\ legal = TRUE
    /\ answer = "none"

Read(c) ==
    /\ answer = "none"
    /\ pos < Len(request)
    /\ request[pos + 1] = c
    /\ pos' = pos + 1
    /\ UNCHANGED request

ReadOpen ==
    /\ Read("[")
    /\ mode' = IF InText THEN "name" ELSE mode
    /\ UNCHANGED <<ended, legal, answer>>

ReadClose ==
    /\ Read("]")
    /\ mode # "text"
    /\ mode' = CASE mode = "name" -> "closed"
                 [] mode = "closed" -> "name"
                 [] mode = "string" -> "string"
    /\ UNCHANGED <<ended, legal, answer>>

ReadStrayClose ==
    /\ Read("]")
    /\ mode = "text"
    /\ legal' = FALSE
    /\ mode' \in Modes
    /\ UNCHANGED <<ended, answer>>

ReadQuote ==
    /\ Read("'")
    /\ mode' = CASE InText -> "string"
                 [] mode = "string" -> "text"
                 [] mode = "name" -> "name"
    /\ UNCHANGED <<ended, legal, answer>>

ReadSemicolon ==
    /\ Read(";")
    /\ ended' = (ended \/ InText)
    /\ mode' = IF InText THEN "text" ELSE mode
    /\ UNCHANGED <<legal, answer>>

ReadSpace ==
    /\ Read(" ")
    /\ mode' = IF InText THEN "text" ELSE mode
    /\ UNCHANGED <<ended, legal, answer>>

ReadOther ==
    /\ \E c \in {request[i] : i \in 1 .. Len(request)} \ {"[", "]", "'", ";", " "} : Read(c)
    /\ mode' = IF InText THEN "text" ELSE mode
    /\ answer' = IF InText /\ ended THEN "several" ELSE "none"
    /\ UNCHANGED <<ended, legal>>

ReadEnd ==
    /\ answer = "none"
    /\ pos = Len(request)
    /\ answer' = "one"
    /\ UNCHANGED <<request, pos, mode, ended, legal>>

(* After a stray bracket nothing is promised.                              *)
Illegal == ~legal /\ ~legal' /\ UNCHANGED request

Next ==
    \/ ReadOpen \/ ReadClose \/ ReadStrayClose \/ ReadQuote \/ ReadSemicolon
    \/ ReadSpace \/ ReadOther \/ ReadEnd \/ Illegal

Spec == Init /\ [][Next]_vars

=============================================================================

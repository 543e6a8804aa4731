----------------------------- MODULE QueryText ------------------------------
(***************************************************************************)
(* How execute() rewrites the text of a query (src/p4d/p4d.py), so that    *)
(* all its parameter markers are question marks.                           *)
(*                                                                         *)
(* A text is a sequence of tokens: "%", "?", a quote, a letter "a", a      *)
(* parenthesis, a comma, the markers of a dict's keys, and "x" for         *)
(* whatever else there may be.                                             *)
(***************************************************************************)
EXTENDS Integers, FiniteSets, SequencesExt

(* The markers of the pyformat and of the named style, by their keys.      *)
PyformatKey == [t \in {"%(a)s", "%(b)s"} |-> IF t = "%(a)s" THEN "a" ELSE "b"]
NamedKey == [t \in {":a", ":b"} |-> IF t = ":a" THEN "a" ELSE "b"]

Marks(q, key) ==
    FlattenSeq([i \in DOMAIN q |-> IF q[i] \in DOMAIN key THEN <<q[i]>> ELSE <<>>])

(* The style that a dict is read with, the keys it is asked for, and the   *)
(* text with a "?" for each of them.                                       *)
Style(q) == IF Marks(q, PyformatKey) # <<>> THEN PyformatKey ELSE NamedKey
Keys(q) == LET marks == Marks(q, Style(q)) IN [i \in DOMAIN marks |-> Style(q)[marks[i]]]
WithoutKeys(q) == [i \in DOMAIN q |-> IF q[i] \in DOMAIN Style(q) THEN "?" ELSE q[i]]

(* From the left, each percent sign and a token of becomes are one token.  *)
Joined(done, token, becomes) ==
    IF token \in DOMAIN becomes /\ done # <<>> /\ Last(done) = "%"
    THEN Append(Front(done), becomes[token]) ELSE Append(done, token)
PairsReplaced(q, becomes) ==
    LET done[n \in 0 .. Len(q)] ==
            IF n = 0 THEN <<>> ELSE Joined(done[n - 1], q[n], becomes)
    IN  done[Len(q)]

Format == [a |-> "?"]
Escape == [t \in {"%"} |-> "%%"]

Renamed(q, s, t) == [i \in DOMAIN q |-> IF q[i] = s THEN t ELSE q[i]]

WithoutFormats(q) == PairsReplaced(q, Format)
Unescaped(q) == Renamed(PairsReplaced(q, Escape), "%%", "%")

(* replace_nth, for question marks.                                        *)
MarksUpTo(q, i) == Cardinality({j \in 1 .. i : q[j] = "?"})
ReplaceNth(q, by, n) ==
    IF MarksUpTo(q, Len(q)) < n THEN q
    ELSE LET i == CHOOSE i \in DOMAIN q : q[i] = "?" /\ MarksUpTo(q, i) = n
         IN  SubSeq(q, 1, i - 1) \o by \o SubSeq(q, i + 1, Len(q))

(* "(?,?)", with as many marks as the tuple has elements.                  *)
InParentheses(parts) ==
    <<"(">> \o FlattenSeq([i \in DOMAIN parts |->
                              IF i = 1 THEN parts[i] ELSE <<",">> \o parts[i]]) \o <<")">>
Group(n) == InParentheses([i \in 1 .. n |-> <<"?">>])

-----------------------------------------------------------------------------
(* What the text means, read once from left to right: a pair of percent    *)
(* signs is one, a percent sign with a letter is a marker.                 *)
Pair == [t \in {"%", "a"} |-> IF t = "a" THEN "?" ELSE "%%"]
Read(q) == PairsReplaced(q, Pair)
Meaning(q) == Renamed(Read(q), "%%", "%")

(* Where an escaped percent sign stands before a letter, a percent sign    *)
(* before a key's marker or a "?" between quotes, the rewriting goes wrong.*)
IsPlain(q) ==
    /\ "'" \notin ToSet(q)
    /\ \A i \in 1 .. Len(Read(q)) - 1 :
          /\ Read(q)[i] = "%%" => Read(q)[i + 1] # "a"
          /\ Read(q)[i] = "%" => Read(q)[i + 1] \notin DOMAIN PyformatKey

=============================================================================

-------------------------- MODULE MultiQuery_proofs --------------------------
(***************************************************************************)
(* The loop of _is_multi_query reads every request as the lexer does, for  *)
(* requests of any length.                                                 *)
(***************************************************************************)
EXTENDS MultiQuery, TLAPS

(* A name has an opening bracket, so that its closing bracket is never the *)
(* first character: the loop's test i > 1 turns no doubled bracket away.   *)
IInv ==
    /\ TypeOK
    /\ request \in Requests
    /\ inCol => i > 0
    /\ legal /\ ~inCol /\ ~inStr /\ i > 0 /\ CharAt(i - 1) = "]" => i > 1

Mode == IF inStr THEN "string"
        ELSE IF inCol THEN "name"
        ELSE IF i > 0 /\ CharAt(i - 1) = "]" THEN "closed"
        ELSE "text"
Answer == CASE answer = -1 -> "none" [] answer = 0 -> "one" [] answer = 1 -> "several"

LEMMA LengthIsNat ==
    ASSUME IInv
    PROVE  /\ request \in Seq(Marks \union {"x"}) /\ Len(request) \in Nat
           /\ i \in Nat /\ i <= Len(request)
<1>1. request \in Seq(Marks \union {"x"})
  BY RequestsAssumption DEF IInv
<1> QED BY <1>1 DEF IInv, TypeOK

(* What a turn of the loop reads.                                          *)
LEMMA ReadsFacts ==
    ASSUME IInv, NEW cars, Reads(cars)
    PROVE  /\ i' = i + 1 /\ i' > 0 /\ i' \in 0 .. Len(request') /\ UNCHANGED request
           /\ i < Len(request) /\ answer = -1
           /\ request[i + 1] \in cars /\ CharAt(i) = request[i + 1]
           /\ (CharAt(i - 1))' = CharAt(i)
           /\ i > 0 => CharAt(i - 1) = request[i]
           /\ request[i + 1] \in Marks \union {"x"}
<1>1. /\ i' = i + 1 /\ UNCHANGED request /\ i < Len(request) /\ CharAt(i) \in cars
      /\ answer = -1
  BY DEF Reads, MoreChars
<1>2. i \in Nat /\ Len(request) \in Nat /\ request \in Seq(Marks \union {"x"})
  BY LengthIsNat
<1>3. CharAt(i) = request[i + 1]
  BY <1>1 DEF CharAt
<1>4. (CharAt(i - 1))' = CharAt(i)
  <2>1. i' - 1 = i /\ request' = request
    BY <1>1, <1>2
  <2> QED BY <2>1 DEF CharAt
<1>5. i > 0 => CharAt(i - 1) = request[i]
  BY <1>1, <1>2 DEF CharAt
<1>6. request[i + 1] \in Marks \union {"x"}
  BY <1>1, <1>2
<1> QED BY <1>1, <1>2, <1>3, <1>4, <1>5, <1>6

LEMMA InitHolds == Init => IInv
<1> SUFFICES ASSUME Init PROVE IInv
  OBVIOUS
<1>1. Len(request) \in Nat
  BY RequestsAssumption DEF Init
<1>2. /\ i = 0 /\ ~inCol /\ ~inStr /\ inCol \in BOOLEAN /\ inStr \in BOOLEAN
      /\ finFirst \in BOOLEAN /\ legal \in BOOLEAN /\ answer = -1 /\ error_code = 0
      /\ request \in Requests
  BY DEF Init
<1>3. TypeOK
  BY <1>1, <1>2 DEF TypeOK
<1> QED BY <1>2, <1>3 DEF IInv

LEMMA NextHolds == IInv /\ [Next]_vars => IInv'
<1> SUFFICES ASSUME IInv, [Next]_vars PROVE IInv'
  OBVIOUS
<1>t. /\ inCol \in BOOLEAN /\ inStr \in BOOLEAN /\ finFirst \in BOOLEAN /\ ~(inCol /\ inStr)
      /\ answer \in {-1, 0, 1} /\ error_code \in {0, -5001} /\ legal \in BOOLEAN
      /\ request \in Requests /\ (inCol => i > 0)
  BY DEF IInv, TypeOK
<1>l. i \in Nat /\ Len(request) \in Nat
  BY LengthIsNat
(* In a turn the flags change as the character says.                       *)
<1>r. ASSUME NEW cars, Reads(cars),
             inCol' \in BOOLEAN, inStr' \in BOOLEAN, finFirst' \in BOOLEAN, ~(inCol' /\ inStr'),
             answer' \in {-1, 0, 1}, legal' \in BOOLEAN,
             legal' /\ ~inCol' /\ ~inStr' /\ CharAt(i) = "]" => i' > 1
      PROVE  IInv'
  <2>1. /\ i' > 0 /\ i' \in 0 .. Len(request') /\ UNCHANGED request
        /\ (CharAt(i - 1))' = CharAt(i)
    BY <1>r, ReadsFacts
  <2>2. UNCHANGED error_code
    BY <1>r DEF Reads
  <2>3. TypeOK'
    BY <1>t, <1>r, <2>1, <2>2 DEF TypeOK
  <2> QED BY <1>t, <1>r, <2>1, <2>3 DEF IInv
<1>1. CASE OpenName
  <2>1. Reads({"["}) /\ CharAt(i) # "]"
    BY <1>1 DEF OpenName, Reads
  <2> QED BY <1>t, <1>r, <1>1, <2>1 DEF OpenName
<1>2. CASE CloseName
  <2>1. Reads({"]"}) /\ i' = i + 1
    BY <1>2 DEF CloseName, Reads
  <2>2. inCol' = (~inStr /\ ~inCol /\ Reopens) /\ UNCHANGED <<inStr, finFirst, answer>>
        /\ legal' = (legal /\ (inStr \/ inCol \/ (i > 0 /\ CharAt(i - 1) = "]")))
    BY <1>2 DEF CloseName
  <2>3. legal' /\ ~inCol' /\ ~inStr' => i > 0
    BY <1>t, <2>2
  <2>4. legal' /\ ~inCol' /\ ~inStr' => i' > 1
    BY <1>l, <2>1, <2>3
  <2>5. inCol' \in BOOLEAN /\ legal' \in BOOLEAN /\ ~(inCol' /\ inStr')
    BY <1>t, <2>2
  <2> QED BY <1>t, <1>r, <2>1, <2>2, <2>4, <2>5
<1>3. CASE Quote
  <2>1. Reads({"'"}) /\ CharAt(i) # "]"
    BY <1>3 DEF Quote, Reads
  <2>2. inStr' \in BOOLEAN /\ ~(inCol /\ inStr')
    <3>1. CASE inCol
      BY <1>t, <1>3, <3>1 DEF Quote, Toggles
    <3>2. CASE ~inCol
      BY <1>t, <1>3, <3>2 DEF Quote, Toggles
    <3> QED BY <3>1, <3>2
  <2> QED BY <1>t, <1>r, <1>3, <2>1, <2>2 DEF Quote
<1>4. CASE Semicolon
  <2>1. Reads({";"}) /\ CharAt(i) # "]"
    BY <1>4 DEF Semicolon, Reads
  <2>2. UNCHANGED <<inCol, inStr, answer, legal>>
    BY <1>4 DEF Semicolon
  <2>3. finFirst' \in BOOLEAN
    <3>1. finFirst' = (finFirst \/ (~inCol /\ ~inStr))
      BY <1>4 DEF Semicolon
    <3> QED BY <3>1
  <2>4. /\ inCol' \in BOOLEAN /\ inStr' \in BOOLEAN /\ ~(inCol' /\ inStr')
        /\ answer' \in {-1, 0, 1} /\ legal' \in BOOLEAN
    BY <1>t, <2>2
  <2> QED BY <1>r, <2>1, <2>3, <2>4
<1>5. CASE Space
  <2>1. Reads({" "}) /\ CharAt(i) # "]"
    BY <1>5 DEF Space, Reads
  <2>2. UNCHANGED <<inCol, inStr, finFirst, answer, legal>>
    BY <1>5 DEF Space
  <2>3. /\ inCol' \in BOOLEAN /\ inStr' \in BOOLEAN /\ ~(inCol' /\ inStr')
        /\ finFirst' \in BOOLEAN /\ answer' \in {-1, 0, 1} /\ legal' \in BOOLEAN
    BY <1>t, <2>2
  <2> QED BY <1>r, <2>1, <2>3
<1>6. CASE Other
  <2>1. Reads({"x", NUL}) /\ CharAt(i) # "]"
    BY <1>6, NulAssumption DEF Other, Reads, Marks
  <2> QED BY <1>t, <1>r, <1>6, <2>1 DEF Other
<1>7. CASE LoopEnds
  BY <1>7 DEF IInv, TypeOK, LoopEnds, CharAt
<1>8. CASE Refuse
  BY <1>8 DEF IInv, TypeOK, Refuse, CharAt
<1>9. CASE UNCHANGED vars
  BY <1>9 DEF IInv, TypeOK, vars, CharAt
<1> QED BY <1>1, <1>2, <1>3, <1>4, <1>5, <1>6, <1>7, <1>8, <1>9 DEF Next

LEMMA InvariantHolds == Spec => []IInv
BY InitHolds, NextHolds, PTL DEF Spec

(* _is_multi_query: the loop stays within the request, and is never in a   *)
(* name and in a string at once.                                           *)
THEOREM TypeCorrect == Spec => []TypeOK
<1>1. IInv => TypeOK
  BY DEF IInv
<1> QED BY <1>1, InvariantHolds, PTL

-----------------------------------------------------------------------------
LEMMA LexerInit == Init => Lexer!Init
BY DEF Init, Lexer!Init

(* The mapping, named: what the flags and the previous character say of    *)
(* the next one.                                                           *)
LEMMA MappedVars ==
    /\ Lexer!vars = <<request, i, Mode, finFirst, legal, Answer>>
    /\ Lexer!vars' = <<request', i', Mode', finFirst', legal', Answer'>>
    /\ Lexer!InText <=> Mode \in {"text", "closed"}
BY DEF Lexer!vars, Lexer!InText, Mode, Answer, CharAt

LEMMA ModeFacts ==
    ASSUME IInv
    PROVE  /\ inStr => Mode = "string"
           /\ inCol => Mode = "name"
           /\ ~inStr /\ ~inCol => Mode = IF i > 0 /\ CharAt(i - 1) = "]" THEN "closed" ELSE "text"
           /\ Lexer!InText <=> ~inStr /\ ~inCol
BY DEF IInv, TypeOK, Mode, Lexer!InText

LEMMA ModeFactsNext ==
    ASSUME IInv, NEW cars, Reads(cars), ~(inCol' /\ inStr')
    PROVE  /\ inStr' => Mode' = "string"
           /\ inCol' => Mode' = "name"
           /\ ~inStr' /\ ~inCol' => Mode' = IF CharAt(i) = "]" THEN "closed" ELSE "text"
<1>1. i' > 0 /\ (CharAt(i - 1))' = CharAt(i)
  BY ReadsFacts
<1> QED BY <1>1 DEF Mode

LEMMA AnswerFacts ==
    /\ answer = -1 => Answer = "none"
    /\ answer = 0 => Answer = "one"
    /\ answer = 1 => Answer = "several"
    /\ answer' = -1 => Answer' = "none"
    /\ answer' = 0 => Answer' = "one"
    /\ answer' = 1 => Answer' = "several"
BY DEF Answer

(* The steps of the lexer under the mapping.                               *)
LexerReads(c) ==
    /\ Answer = "none" /\ i < Len(request) /\ request[i + 1] = c
    /\ i' = i + 1 /\ UNCHANGED request

LEMMA ReadMapped == ASSUME NEW c PROVE Lexer!Read(c) <=> LexerReads(c)
BY DEF Lexer!Read, LexerReads, Answer

LEMMA ReadOpenMapped ==
    ASSUME LexerReads("["), UNCHANGED <<finFirst, legal, Answer>>,
           Mode' = IF Mode \in {"text", "closed"} THEN "name" ELSE Mode
    PROVE  Lexer!ReadOpen
BY ReadMapped DEF Lexer!ReadOpen, Lexer!InText, Mode, Answer, CharAt

LEMMA ReadCloseMapped ==
    ASSUME LexerReads("]"), UNCHANGED <<finFirst, legal, Answer>>,
           \/ Mode = "name" /\ Mode' = "closed"
           \/ Mode = "closed" /\ Mode' = "name"
           \/ Mode = "string" /\ Mode' = "string"
    PROVE  Lexer!ReadClose
BY ReadMapped DEF Lexer!ReadClose, Mode, Answer, CharAt

LEMMA ReadStrayCloseMapped ==
    ASSUME LexerReads("]"), UNCHANGED <<finFirst, Answer>>, legal' = FALSE, Mode = "text"
    PROVE  Lexer!ReadStrayClose
BY ReadMapped DEF Lexer!ReadStrayClose, Lexer!Modes, Mode, Answer, CharAt

LEMMA ReadQuoteMapped ==
    ASSUME LexerReads("'"), UNCHANGED <<finFirst, legal, Answer>>,
           \/ Mode \in {"text", "closed"} /\ Mode' = "string"
           \/ Mode = "string" /\ Mode' = "text"
           \/ Mode = "name" /\ Mode' = "name"
    PROVE  Lexer!ReadQuote
BY ReadMapped DEF Lexer!ReadQuote, Lexer!InText, Mode, Answer, CharAt

LEMMA ReadSemicolonMapped ==
    ASSUME LexerReads(";"), UNCHANGED <<legal, Answer>>,
           finFirst' = (finFirst \/ Mode \in {"text", "closed"}),
           Mode' = IF Mode \in {"text", "closed"} THEN "text" ELSE Mode
    PROVE  Lexer!ReadSemicolon
BY ReadMapped DEF Lexer!ReadSemicolon, Lexer!InText, Mode, Answer, CharAt

LEMMA ReadSpaceMapped ==
    ASSUME LexerReads(" "), UNCHANGED <<finFirst, legal, Answer>>,
           Mode' = IF Mode \in {"text", "closed"} THEN "text" ELSE Mode
    PROVE  Lexer!ReadSpace
BY ReadMapped DEF Lexer!ReadSpace, Lexer!InText, Mode, Answer, CharAt

LEMMA ReadOtherMapped ==
    ASSUME NEW c \in {request[k] : k \in 1 .. Len(request)} \ {"[", "]", "'", ";", " "},
           LexerReads(c), UNCHANGED <<finFirst, legal>>,
           Answer' = IF Mode \in {"text", "closed"} /\ finFirst THEN "several" ELSE "none",
           Mode' = IF Mode \in {"text", "closed"} THEN "text" ELSE Mode
    PROVE  Lexer!ReadOther
BY ReadMapped DEF Lexer!ReadOther, Lexer!InText, Mode, Answer, CharAt

LEMMA LexerNext == IInv /\ [Next]_vars => [Lexer!Next]_Lexer!vars
<1> SUFFICES ASSUME IInv, [Next]_vars PROVE [Lexer!Next]_Lexer!vars
  OBVIOUS
<1>1. CASE UNCHANGED vars \/ Refuse
  <2>1. UNCHANGED <<request, i, inCol, inStr, finFirst, answer, legal>>
    BY <1>1 DEF vars, Refuse
  <2>2. Mode' = Mode /\ Answer' = Answer
    BY <2>1 DEF Mode, Answer, CharAt
  <2> QED BY <2>1, <2>2, MappedVars
<1>2. CASE LoopEnds
  <2>1. /\ answer = -1 /\ answer' = 0 /\ i = Len(request)
        /\ UNCHANGED <<request, i, inCol, inStr, finFirst, legal>>
    BY <1>2, LengthIsNat DEF LoopEnds, MoreChars
  <2>2. Mode' = Mode /\ Answer = "none" /\ Answer' = "one"
    BY <2>1, AnswerFacts DEF Mode, CharAt
  <2>3. Lexer!ReadEnd
    BY <2>1, <2>2 DEF Lexer!ReadEnd, Mode, Answer
  <2> QED BY <2>3 DEF Lexer!Next
<1>t. IInv /\ IInv'
  BY NextHolds
<1>f. /\ inCol \in BOOLEAN /\ inStr \in BOOLEAN /\ ~(inCol /\ inStr) /\ ~(inCol' /\ inStr')
  BY <1>t DEF IInv, TypeOK
<1>r. ASSUME NEW c, Reads({c}) PROVE /\ Answer = "none" /\ CharAt(i) = c
                                     /\ answer' = answer => LexerReads(c) /\ UNCHANGED Answer
  <2>1. answer = -1 /\ i < Len(request) /\ request[i + 1] = c /\ i' = i + 1 /\ CharAt(i) = c
        /\ UNCHANGED request
    BY <1>r, ReadsFacts
  <2> QED BY <2>1, AnswerFacts DEF LexerReads
<1>m. ASSUME NEW cars, Reads(cars)
      PROVE  /\ inStr' => Mode' = "string"
             /\ inCol' => Mode' = "name"
             /\ ~inStr' /\ ~inCol' => Mode' = IF CharAt(i) = "]" THEN "closed" ELSE "text"
  BY <1>f, <1>m, ModeFactsNext
<1>3. CASE OpenName
  <2>1. /\ Reads({"["}) /\ inCol' = (inCol \/ ~inStr)
        /\ UNCHANGED <<inStr, finFirst, answer, legal>>
    BY <1>3 DEF OpenName
  <2>2. LexerReads("[") /\ UNCHANGED Answer
    BY <1>r, <2>1
  <2>3. Mode' = IF Mode \in {"text", "closed"} THEN "name" ELSE Mode
    BY <1>f, <1>m, <2>1, ModeFacts
  <2>4. Lexer!ReadOpen
    BY <2>1, <2>2, <2>3, ReadOpenMapped
  <2> QED BY <2>4 DEF Lexer!Next
<1>4. CASE CloseName
  <2>1. /\ Reads({"]"}) /\ inCol' = (~inStr /\ ~inCol /\ Reopens)
        /\ legal' = (legal /\ (inStr \/ inCol \/ (i > 0 /\ CharAt(i - 1) = "]")))
        /\ UNCHANGED <<inStr, finFirst, answer>>
    BY <1>4 DEF CloseName
  <2>2. LexerReads("]") /\ UNCHANGED Answer /\ CharAt(i) = "]"
    BY <1>r, <2>1
  <2>3. CASE inStr \/ inCol
    <3>1. legal' = legal
      BY <2>1, <2>3, <1>t DEF IInv, TypeOK
    <3>2. \/ Mode = "name" /\ Mode' = "closed"
          \/ Mode = "string" /\ Mode' = "string"
      BY <1>f, <1>m, <2>1, <2>2, <2>3, ModeFacts
    <3>3. Lexer!ReadClose
      BY <2>1, <2>2, <3>1, <3>2, ReadCloseMapped
    <3> QED BY <3>3 DEF Lexer!Next
  <2>4. CASE ~inStr /\ ~inCol /\ i > 0 /\ CharAt(i - 1) = "]" /\ legal
    (* The bracket read before is not the first character: IInv.           *)
    <3>0. legal \in BOOLEAN /\ legal' \in BOOLEAN /\ legal'
      <4>1. legal \in BOOLEAN /\ legal' \in BOOLEAN
        BY <1>t DEF IInv, TypeOK
      <4>2. legal'
        BY <2>1, <2>4, Zenon
      <4> QED BY <4>1, <4>2
    <3>1. legal' = legal /\ Mode = "closed"
      <4>1. legal' = legal
        BY <2>4, <3>0
      <4>2. Mode = "closed"
        BY <2>4, ModeFacts
      <4> QED BY <4>1, <4>2
    <3>2. Reopens
      BY <2>4 DEF IInv, Reopens
    <3>3. Mode' = "name"
      BY <1>m, <2>1, <2>4, <3>2
    <3>4. Lexer!ReadClose
      BY <2>1, <2>2, <3>1, <3>3, ReadCloseMapped
    <3> QED BY <3>4 DEF Lexer!Next
  <2>5. CASE ~inStr /\ ~inCol /\ ~(i > 0 /\ CharAt(i - 1) = "]")
    <3>1. legal' = FALSE /\ Mode = "text"
      BY <2>1, <2>5, ModeFacts
    <3>2. Lexer!ReadStrayClose
      BY <2>1, <2>2, <3>1, ReadStrayCloseMapped
    <3> QED BY <3>2 DEF Lexer!Next
  <2>6. CASE ~legal
    <3>1. ~legal' /\ UNCHANGED request
      BY <2>1, <2>6 DEF Reads
    <3>2. Lexer!Illegal
      BY <2>6, <3>1 DEF Lexer!Illegal
    <3> QED BY <3>2 DEF Lexer!Next
  <2> QED BY <2>3, <2>4, <2>5, <2>6
<1>5. CASE Quote
  <2>1. /\ Reads({"'"}) /\ inStr' = IF ~inCol THEN ~inStr ELSE inStr
        /\ UNCHANGED <<inCol, finFirst, answer, legal>>
    BY <1>5 DEF Quote, Toggles
  <2>2. LexerReads("'") /\ UNCHANGED Answer /\ CharAt(i) = "'"
    BY <1>r, <2>1
  <2>3. \/ Mode \in {"text", "closed"} /\ Mode' = "string"
        \/ Mode = "string" /\ Mode' = "text"
        \/ Mode = "name" /\ Mode' = "name"
    <3>1. CASE inCol
      BY <1>f, <1>m, <2>1, <2>2, <3>1, ModeFacts
    <3>2. CASE inStr
      BY <1>f, <1>m, <2>1, <2>2, <3>2, ModeFacts
    <3>3. CASE ~inCol /\ ~inStr
      <4>1. Mode \in {"text", "closed"}
        BY <3>3, ModeFacts
      <4>2. inStr'
        BY <2>1, <3>3
      <4>3. Mode' = "string"
        BY <4>2, <2>1, <1>m
      <4> QED BY <4>1, <4>3
    <3> QED BY <3>1, <3>2, <3>3
  <2>4. Lexer!ReadQuote
    BY <2>1, <2>2, <2>3, ReadQuoteMapped
  <2> QED BY <2>4 DEF Lexer!Next
<1>6. CASE Semicolon
  <2>1. /\ Reads({";"}) /\ finFirst' = (finFirst \/ (~inCol /\ ~inStr))
        /\ UNCHANGED <<inCol, inStr, answer, legal>>
    BY <1>6 DEF Semicolon
  <2>2. LexerReads(";") /\ UNCHANGED Answer /\ CharAt(i) = ";"
    BY <1>r, <2>1
  <2>3. Mode \in {"text", "closed"} <=> ~inCol /\ ~inStr
    BY <1>f, ModeFacts
  <2>4. Mode' = IF Mode \in {"text", "closed"} THEN "text" ELSE Mode
    BY <1>f, <1>m, <2>1, <2>2, ModeFacts
  <2>5. finFirst' = (finFirst \/ Mode \in {"text", "closed"})
    BY <2>1, <2>3
  <2>6. Lexer!ReadSemicolon
    BY <2>1, <2>2, <2>4, <2>5, ReadSemicolonMapped
  <2> QED BY <2>6 DEF Lexer!Next
<1>7. CASE Space
  <2>1. Reads({" "}) /\ UNCHANGED <<inCol, inStr, finFirst, answer, legal>>
    BY <1>7 DEF Space
  <2>2. LexerReads(" ") /\ UNCHANGED Answer /\ CharAt(i) = " "
    BY <1>r, <2>1
  <2>3. Mode' = IF Mode \in {"text", "closed"} THEN "text" ELSE Mode
    BY <1>f, <1>m, <2>1, <2>2, ModeFacts
  <2>4. Lexer!ReadSpace
    BY <2>1, <2>2, <2>3, ReadSpaceMapped
  <2> QED BY <2>4 DEF Lexer!Next
<1>8. CASE Other
  <2>1. /\ Reads({"x", NUL}) /\ UNCHANGED <<inCol, inStr, finFirst, legal>>
        /\ answer' = IF ~inCol /\ ~inStr /\ finFirst THEN 1 ELSE -1
    BY <1>8 DEF Other
  <2> DEFINE c == request[i + 1]
  <2>2. /\ i < Len(request) /\ i' = i + 1 /\ UNCHANGED request /\ answer = -1
        /\ c \in {"x", NUL} /\ CharAt(i) = c
    BY <2>1, ReadsFacts
  <2>3. c \notin Marks
    BY <2>2, NulAssumption DEF Marks
  <2>4. c \in {request[k] : k \in 1 .. Len(request)} \ {"[", "]", "'", ";", " "}
    <3>1. i + 1 \in 1 .. Len(request)
      BY <2>2, LengthIsNat
    <3>2. c \in {request[k] : k \in 1 .. Len(request)}
      BY <3>1
    <3> QED BY <2>3, <3>2 DEF Marks
  <2>5. LexerReads(c)
    BY <2>2, AnswerFacts DEF LexerReads
  <2>6. Mode \in {"text", "closed"} <=> ~inCol /\ ~inStr
    BY <1>f, ModeFacts
  <2>7. Answer' = IF Mode \in {"text", "closed"} /\ finFirst THEN "several" ELSE "none"
    BY <2>1, <2>6, AnswerFacts
  <2>8. Mode' = IF Mode \in {"text", "closed"} THEN "text" ELSE Mode
    BY <1>f, <1>m, <2>1, <2>2, <2>3, ModeFacts DEF Marks
  <2> HIDE DEF c
  <2>9. Lexer!ReadOther
    BY <2>1, <2>4, <2>5, <2>7, <2>8, ReadOtherMapped
  <2> QED BY <2>9 DEF Lexer!Next
<1> QED BY <1>1, <1>2, <1>3, <1>4, <1>5, <1>6, <1>7, <1>8 DEF Next

(* _is_multi_query tells names, strings and text apart as a lexer does,    *)
(* doubled brackets and quotes included, in a request of any length: what  *)
(* it answers is whether text follows a semicolon that stands in the text. *)
THEOREM ScannerImplementsLexer == Spec => ImplementsLexer
BY LexerInit, LexerNext, InvariantHolds, PTL DEF Spec, Lexer!Spec, ImplementsLexer

=============================================================================

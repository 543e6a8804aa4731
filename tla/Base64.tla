------------------------------- MODULE Base64 -------------------------------
(***************************************************************************)
(* base64_encode and base64_decode (src/lib4d_sql/base64.c), on bytes and  *)
(* on the symbols' places in base64_table.  A request's statement is sent  *)
(* encoded; aliases of columns are received so.                            *)
(***************************************************************************)
EXTENDS Integers, Sequences

Byte == 0 .. 255
Pad == 64                                  \* base64_pad
NULL == <<-1>>                             \* no text

(* Byte i of a text, with zeros behind its end.                            *)
At(s, i) == IF i <= Len(s) THEN s[i] ELSE 0

(* Three bytes make four symbols; of the last group, those without a bit   *)
(* of the text are pads.                                                   *)
Encode(s) ==
    [k \in 1 .. ((Len(s) + 2) \div 3) * 4 |->
        LET g == 3 * ((k - 1) \div 4)
        IN  CASE k % 4 = 1 -> At(s, g + 1) \div 4
              [] k % 4 = 2 -> (At(s, g + 1) % 4) * 16 + At(s, g + 2) \div 16
              [] k % 4 = 3 -> IF g + 2 <= Len(s)
                              THEN (At(s, g + 2) % 16) * 4 + At(s, g + 3) \div 64 ELSE Pad
              [] OTHER -> IF g + 3 <= Len(s) THEN At(s, g + 3) % 64 ELSE Pad]

(* The symbols before the first pad, of a text without separators.         *)
Symbols(t) ==
    IF \E i \in DOMAIN t : t[i] = Pad
    THEN (CHOOSE i \in DOMAIN t : t[i] = Pad /\ \A j \in 1 .. i - 1 : t[j] # Pad) - 1
    ELSE Len(t)

(* A byte is whole when the second of its symbols has been read.  One      *)
(* symbol alone before a pad is refused.                                   *)
Decode(t) ==
    LET n == Symbols(t)
    IN  IF n < Len(t) /\ n % 4 = 1 THEN NULL
        ELSE [j \in 1 .. (3 * n) \div 4 |->
                 LET i == 4 * ((j - 1) \div 3)
                 IN  CASE j % 3 = 1 -> t[i + 1] * 4 + t[i + 2] \div 16
                       [] j % 3 = 2 -> (t[i + 2] % 16) * 16 + t[i + 3] \div 4
                       [] OTHER -> (t[i + 3] % 4) * 64 + t[i + 4]]

=============================================================================

----------------------------- MODULE UrlDecode -----------------------------
(***************************************************************************)
(* urldecode of hw10_logs_stats/main.c on character codes.  It accepts     *)
(* whatever strtol(hex, &endptr, 16) reads to its end, which includes a    *)
(* blank or a sign in front of one digit.                                  *)
(***************************************************************************)
EXTENDS Integers, Sequences

NUL == 0
Blank == 32
Percent == 37
Plus == 43
Minus == 45

\* The digits of base 16 by their codes.
HexDigit == [c \in (48..57) \cup (65..70) \cup (97..102) |->
               IF c <= 57 THEN c - 48 ELSE (c % 32) + 9]

Spaces == {9, 10, 11, 12, 13, Blank}

\* What strtol makes of two characters: the code they stand for, or -1.
strtol(a, b) ==
    IF a \in DOMAIN HexDigit /\ b \in DOMAIN HexDigit
    THEN 16 * HexDigit[a] + HexDigit[b]
    ELSE IF a \in Spaces \cup {Plus, Minus} /\ b \in DOMAIN HexDigit
    THEN (IF a = Minus THEN 256 - HexDigit[b] ELSE HexDigit[b]) % 256
    ELSE -1

\* The code an escape at i stands for, or -1.
Escape(src, i) ==
    IF src[i] = Percent /\ i + 2 <= Len(src) THEN strtol(src[i + 1], src[i + 2])
    ELSE -1

\* All characters the loop writes, a decoded NUL included.
Decoded(src) ==
    LET from[i \in 1..Len(src) + 1] ==
          IF i > Len(src) THEN <<>>
          ELSE IF Escape(src, i) >= 0
               THEN <<Escape(src, i)>> \o from[i + 3]
          ELSE <<IF src[i] = Plus THEN Blank ELSE src[i]>> \o from[i + 1]
    IN from[1]

\* The C string that is left.
urldecode(src) ==
    LET nuls == {i \in DOMAIN Decoded(src) : Decoded(src)[i] = NUL} IN
    IF nuls = {} THEN Decoded(src)
    ELSE SubSeq(Decoded(src), 1, (CHOOSE i \in nuls : \A j \in nuls : i <= j) - 1)
=============================================================================

-------------------------------- MODULE CString --------------------------------
(***************************************************************************)
(* Strings as the library's scanners see them: sequences of character      *)
(* codes.  A word that is only ever compared as a whole, such as the name  *)
(* of a header, is one symbol above 127.                                   *)
(***************************************************************************)
EXTENDS Integers, Sequences, SequencesExt

NUL == 0
TAB == 9
LF == 10
CR == 13
SP == 32
QUOTE == 34
Percent == 37
Amp == 38
Plus == 43
Comma == 44
Minus == 45
Dot == 46
Slash == 47
Colon == 58
Semicolon == 59
Equals == 61
Question == 63
At == 64
Backslash == 92
Underscore == 95

IsSpace(c) == c = SP \/ c \in TAB..CR
IsDigit(c) == c \in 48..57
IsUpper(c) == c \in 65..90
IsLower(c) == c \in 97..122
IsAlnum(c) == IsDigit(c) \/ IsUpper(c) \/ IsLower(c)
IsHex(c) == IsDigit(c) \/ c \in 65..70 \/ c \in 97..102

HexValue(c) == IF IsDigit(c) THEN c - 48 ELSE IF IsUpper(c) THEN c - 55 ELSE c - 87
HexUpper(n) == IF n < 10 THEN 48 + n ELSE 55 + n
ToLower(c) == IF IsUpper(c) THEN c + 32 ELSE c
ToUpper(c) == IF IsLower(c) THEN c - 32 ELSE c

\* The first place at or after i whose character is one that is looked for;
\* the place after the last if there is none (strcspn, strchr).
Scan(s, i, Stop(_)) ==
  LET k == SelectInSubSeq(s, i, Len(s), Stop) IN IF k = 0 THEN Len(s) + 1 ELSE k

\* The first place at or after i where t begins in s[1..n], or 0 (memmem).
Find(t, s, i, n) ==
  SelectInSeq([k \in 1..n |-> k],
              LAMBDA k : k >= i /\ k + Len(t) - 1 <= n /\ SubSeq(s, k, k + Len(t) - 1) = t)

Skip(s, i) == Scan(s, i, LAMBDA c : c # SP)
From(s, i) == SubSeq(s, i, Len(s))
Cut(s, i, j) == SubSeq(s, i, j - 1)

AllDigits(s) == \A i \in 1..Len(s) : IsDigit(s[i])
\* The number a string of digits stands for; of others nothing is asked.
Decimal(s) == IF AllDigits(s) THEN FoldLeft(LAMBDA m, c : 10 * m + c - 48, 0, s) ELSE 0

\* strtonum(3): an optional sign and digits after white space, in a range.
InRange(digits, value, low, high) ==
  IF digits # <<>> /\ AllDigits(digits) /\ value \in low..high THEN [ok |-> TRUE, value |-> value]
  ELSE [ok |-> FALSE, value |-> 0]

Signed(s, low, high) ==
  IF s # <<>> /\ s[1] = Minus THEN InRange(Tail(s), -Decimal(Tail(s)), low, high)
  ELSE IF s # <<>> /\ s[1] = Plus THEN InRange(Tail(s), Decimal(Tail(s)), low, high)
  ELSE InRange(s, Decimal(s), low, high)

strtonum(s, low, high) == Signed(From(s, Scan(s, 1, LAMBDA c : ~IsSpace(c))), low, high)

\* A decimal number without leading zeros.
Digits[n \in Nat] ==
  IF n < 10 THEN <<48 + n>> ELSE Append(Digits[n \div 10], 48 + (n % 10))

=============================================================================

------------------------------ MODULE HarnessProofs ------------------------------
(***************************************************************************)
(* Proofs about Harness.  First what Response makes of an output, for      *)
(* outputs of any length: where its headers end, what their lines are, and *)
(* that it Translates the output (ResponseTranslates).  Then the invariant *)
(* of test, broker and script, and from both ResponseKept.                 *)
(***************************************************************************)
EXTENDS Harness, SequenceTheorems, WellFoundedInduction, TLAPS

\* What is said and answered: words.
Token == STRING \cup {"HTTP/1.1", "200", "NL"}

\* Numbers have a least one.
LEMMA LeastPlace ==
  ASSUME NEW S \in SUBSET Nat, S # {}
  PROVE  \E m \in S : \A n \in S : m <= n
<1> DEFINE R == OpToRel(<, Nat)
<1>1. IsWellFoundedOn(R, Nat)
  BY NatLessThanWellFounded
<1>2. \A x, y \in Nat : <<y, x>> \in R <=> y < x
  BY DEF OpToRel
<1> HIDE DEF R
<1>3. PICK x \in S : \A y \in S : ~ (<<y, x>> \in R)
  BY <1>1, WFMin
<1>4. \A y \in S : x \in Nat /\ y \in Nat /\ ~(y < x)
  BY <1>2, <1>3
<1>5. \A y \in S : x <= y
  BY <1>4
<1> QED
  BY <1>5

\* What Min chooses.
LEMMA MinIs ==
  ASSUME NEW S \in SUBSET Nat, S # {}
  PROVE  Min(S) \in S /\ \A n \in S : Min(S) <= n
<1>1. \E m \in S : \A n \in S : m <= n
  BY LeastPlace
<1> QED
  BY <1>1 DEF Min

\* An empty line ends the headers at e, and none does before.
IsHeadEnd(s, e) ==
  /\ e \in 1..(Len(s) - 1) /\ s[e] = "NL" /\ s[e + 1] = "NL"
  /\ \A k \in 1..(e - 1) : ~ (s[k] = "NL" /\ s[k + 1] = "NL")

NoHeadEnd(s) == \A k \in 1..(Len(s) - 1) : ~ (s[k] = "NL" /\ s[k + 1] = "NL")

\* What a part of an output is.
LEMMA Cut ==
  ASSUME NEW s \in Seq(Token), NEW m \in 1..(Len(s) + 1), NEW n \in 0..Len(s)
  PROVE  /\ SubSeq(s, m, n) \in Seq(Token)
         /\ Len(SubSeq(s, m, n)) = IF m <= n THEN n - m + 1 ELSE 0
         /\ \A i \in 1..(n - m + 1) : SubSeq(s, m, n)[i] = s[m + i - 1]
<1>1. \A i \in m..n : s[i] \in Token
  OBVIOUS
<1> QED
  BY <1>1, SubSeqProperties

LEMMA Regrouped ==
  ASSUME NEW r \in Seq(Token), NEW s \in Seq(Token), NEW t \in Seq(Token)
  PROVE  (r \o s) \o t = r \o (s \o t)
BY ConcatAssociative

\* The words of the status line.
LEMMA StatusWords ==
  /\ <<"HTTP/1.1">> \in Seq(Token) /\ Len(<<"HTTP/1.1">>) = 1
  /\ <<"HTTP/1.1", "200", "NL">> \in Seq(Token) /\ Len(<<"HTTP/1.1", "200", "NL">>) = 3
<1>1. "HTTP/1.1" \in Token /\ "200" \in Token /\ "NL" \in Token
  BY DEF Token
<1>2. <<"HTTP/1.1">> \in Seq(Token)
  BY <1>1, SMT
<1>3. <<"HTTP/1.1", "200", "NL">> \in Seq(Token)
  BY <1>1, SMT
<1> QED
  BY <1>2, <1>3

LEMMA TwoTokens ==
  ASSUME NEW s \in Seq(Token), NEW k \in 1..(Len(s) - 1)
  PROVE  SubSeq(s, k, k + 1) = <<"NL", "NL">> <=> s[k] = "NL" /\ s[k + 1] = "NL"
<1> DEFINE p == SubSeq(s, k, k + 1)
<1>1. /\ p \in Seq(Token) /\ Len(p) = 2
      /\ \A i \in 1..2 : p[i] = s[k + i - 1]
  BY Cut
<1>2. p[1] = s[k] /\ p[2] = s[k + 1]
  BY <1>1
<1> HIDE DEF p
<1>3. p = <<"NL", "NL">> <=> p[1] = "NL" /\ p[2] = "NL"
  BY <1>1, SMT
<1> QED
  BY <1>2, <1>3 DEF p

LEMMA HeadEndIs ==
  ASSUME NEW s \in Seq(Token)
  PROVE  \/ HeadEnd(s) = 0 /\ NoHeadEnd(s)
         \/ HeadEnd(s) # 0 /\ IsHeadEnd(s, HeadEnd(s))
<1> DEFINE pairs == [k \in 1..(Len(s) - 1) |-> SubSeq(s, k, k + 1)]
           I == {i \in 1..Len(pairs) : pairs[i] = <<"NL", "NL">>}
<1>1. HeadEnd(s) = IF I # {} THEN Min(I) ELSE 0
  BY DEF HeadEnd, SelectInSeq
<1>2. 1..Len(pairs) = 1..(Len(s) - 1)
  <2>1. CASE Len(s) = 0
    <3>1. pairs = <<>>
      BY <2>1
    <3> QED
      BY <2>1, <3>1
  <2>2. CASE Len(s) # 0
    <3> DEFINE n == Len(s) - 1
    <3>1. n \in Nat /\ DOMAIN pairs = 1..n
      BY <2>2
    <3>2. pairs \in Seq(Seq(Token))
      BY <3>1, Cut, SeqDef
    <3> QED
      BY <3>1, <3>2, LenProperties
  <2> QED
    BY <2>1, <2>2
<1>3. \A i : i \in I <=> i \in 1..(Len(s) - 1) /\ s[i] = "NL" /\ s[i + 1] = "NL"
  BY <1>2, TwoTokens
<1>4. I \in SUBSET Nat
  BY <1>3
<1> HIDE DEF I
<1>5. CASE I = {}
  BY <1>1, <1>3, <1>5 DEF NoHeadEnd
<1>6. CASE I # {}
  <2>1. HeadEnd(s) \in I /\ \A n \in I : HeadEnd(s) <= n
    BY <1>1, <1>4, <1>6, MinIs
  <2>2. HeadEnd(s) # 0
    BY <1>3, <2>1
  <2>3. \A k \in 1..(HeadEnd(s) - 1) : k \notin I
    BY <1>3, <2>1
  <2> QED
    BY SMTT(30), <1>3, <2>1, <2>2, <2>3 DEF IsHeadEnd
<1> QED
  BY <1>5, <1>6

\* There is one place at most.
LEMMA HeadEndAt ==
  ASSUME NEW s \in Seq(Token), NEW e, IsHeadEnd(s, e)
  PROVE  HeadEnd(s) = e
<1>1. IsHeadEnd(s, HeadEnd(s))
  BY HeadEndIs DEF IsHeadEnd, NoHeadEnd
<1>2. ~ (HeadEnd(s) < e) /\ ~ (e < HeadEnd(s))
  BY <1>1 DEF IsHeadEnd
<1> QED
  BY <1>1, <1>2 DEF IsHeadEnd

\* More output does not move it.
LEMMA HeadEndKept ==
  ASSUME NEW s \in Seq(Token), NEW t \in Seq(Token), HeadEnd(s) # 0
  PROVE  HeadEnd(s \o t) = HeadEnd(s)
<1>1. IsHeadEnd(s, HeadEnd(s))
  BY HeadEndIs
<1>2. \A i \in 1..Len(s) : (s \o t)[i] = s[i]
  OBVIOUS
<1>3. Len(s \o t) = Len(s) + Len(t) /\ s \o t \in Seq(Token)
  OBVIOUS
<1>4. IsHeadEnd(s \o t, HeadEnd(s))
  BY <1>1, <1>2, <1>3 DEF IsHeadEnd
<1> QED
  BY <1>3, <1>4, HeadEndAt

-----------------------------------------------------------------------------
(* What Response looks for.                                                *)

IsStatus(s, e, j) ==
  /\ j \in 1..(e - 1) /\ s[j] = "Status:"
  /\ \A i \in 1..(j - 1) : s[i] # "Status:"

NoStatus(s, e) == \A j \in 1..(e - 1) : s[j] # "Status:"

StatusAt(s, e) == SelectInSubSeq(s, 1, e - 1, LAMBDA t : t = "Status:")

LEMMA StatusIs ==
  ASSUME NEW s \in Seq(Token), NEW e \in Nat
  PROVE  \/ StatusAt(s, e) = 0 /\ NoStatus(s, e)
         \/ StatusAt(s, e) # 0 /\ IsStatus(s, e, StatusAt(s, e))
<1> DEFINE I == {i \in 1..(e - 1) : s[i] = "Status:"}
<1>1. StatusAt(s, e) = IF I # {} THEN Min(I) ELSE 0
  BY DEF StatusAt, SelectInSubSeq
<1>2. \A i : i \in I <=> i \in 1..(e - 1) /\ s[i] = "Status:"
  OBVIOUS
<1>3. I \in SUBSET Nat
  BY <1>2
<1> HIDE DEF I
<1>4. CASE I = {}
  BY <1>1, <1>2, <1>4 DEF NoStatus
<1>5. CASE I # {}
  <2>1. StatusAt(s, e) \in I /\ \A n \in I : StatusAt(s, e) <= n
    BY <1>1, <1>3, <1>5, MinIs
  <2> QED
    BY <1>2, <2>1 DEF IsStatus
<1> QED
  BY <1>4, <1>5

IsLineEnd(s, j, e, n) ==
  /\ n \in j..(e - 1) /\ s[n] = "NL"
  /\ \A i \in j..(n - 1) : s[i] # "NL"

NoLineEnd(s, j, e) == \A i \in j..(e - 1) : s[i] # "NL"

LineEndAt(s, j, e) == SelectInSubSeq(s, j, e - 1, LAMBDA t : t = "NL")

LEMMA LineEndIs ==
  ASSUME NEW s \in Seq(Token), NEW j \in Nat \ {0}, NEW e \in Nat
  PROVE  \/ LineEndAt(s, j, e) = 0 /\ NoLineEnd(s, j, e)
         \/ LineEndAt(s, j, e) # 0 /\ IsLineEnd(s, j, e, LineEndAt(s, j, e))
<1> DEFINE I == {i \in j..(e - 1) : s[i] = "NL"}
<1>1. LineEndAt(s, j, e) = IF I # {} THEN Min(I) ELSE 0
  BY DEF LineEndAt, SelectInSubSeq
<1>2. \A i : i \in I <=> i \in j..(e - 1) /\ s[i] = "NL"
  OBVIOUS
<1>3. I \in SUBSET Nat
  BY <1>2
<1> HIDE DEF I
<1>4. CASE I = {}
  BY <1>1, <1>2, <1>4 DEF NoLineEnd
<1>5. CASE I # {}
  <2>1. LineEndAt(s, j, e) \in I /\ \A n \in I : LineEndAt(s, j, e) <= n
    BY <1>1, <1>3, <1>5, MinIs
  <2> QED
    BY <1>2, <2>1 DEF IsLineEnd
<1> QED
  BY <1>4, <1>5

\* Where the rest begins.
RestAt(s, j, e) == IF LineEndAt(s, j, e) = 0 THEN e ELSE LineEndAt(s, j, e) + 1

LEMMA RestIs ==
  ASSUME NEW s \in Seq(Token), NEW e \in Nat, NEW j \in 1..(e - 1)
  PROVE  RestAt(s, j, e) \in (j + 1)..e
BY LineEndIs DEF RestAt, IsLineEnd

LEMMA ResponseOf ==
  ASSUME NEW s, NEW e, NEW j, j = StatusAt(s, e)
  PROVE  Response(s, e) =
           IF j = 0 THEN <<"HTTP/1.1", "200", "NL">> \o s
           ELSE <<"HTTP/1.1">> \o SubSeq(s, j + 1, RestAt(s, j, e) - 1) \o SubSeq(s, 1, j - 1)
                \o SubSeq(s, RestAt(s, j, e), Len(s))
BY DEF Response, StatusAt, RestAt, LineEndAt

\* More output changes nothing in front of it.
LEMMA SameFound ==
  ASSUME NEW s \in Seq(Token), NEW t \in Seq(Token), NEW e \in 1..Len(s)
  PROVE  /\ StatusAt(s \o t, e) = StatusAt(s, e)
         /\ \A j \in 1..(e - 1) : RestAt(s \o t, j, e) = RestAt(s, j, e)
<1>1. \A i \in 1..(e - 1) : (s \o t)[i] = s[i]
  OBVIOUS
<1>2. {i \in 1..(e - 1) : (s \o t)[i] = "Status:"} = {i \in 1..(e - 1) : s[i] = "Status:"}
  BY <1>1
<1>3. StatusAt(s \o t, e) = StatusAt(s, e)
  BY <1>2 DEF StatusAt, SelectInSubSeq
<1>4. ASSUME NEW j \in 1..(e - 1)
      PROVE  RestAt(s \o t, j, e) = RestAt(s, j, e)
  <2>1. {i \in j..(e - 1) : (s \o t)[i] = "NL"} = {i \in j..(e - 1) : s[i] = "NL"}
    BY <1>1
  <2>2. LineEndAt(s \o t, j, e) = LineEndAt(s, j, e)
    BY <2>1 DEF LineEndAt, SelectInSubSeq
  <2> QED
    BY <2>2 DEF RestAt
<1> QED
  BY <1>3, <1>4

LEMMA CutOfMore ==
  ASSUME NEW s \in Seq(Token), NEW t \in Seq(Token), NEW m \in 1..(Len(s) + 1),
         NEW n \in 0..Len(s)
  PROVE  SubSeq(s \o t, m, n) = SubSeq(s, m, n)
<1>1. s \o t \in Seq(Token) /\ Len(s \o t) = Len(s) + Len(t)
  BY ConcatProperties
<1>2. \A i \in 1..Len(s) : (s \o t)[i] = s[i]
  BY ConcatProperties
<1>3. /\ SubSeq(s \o t, m, n) \in Seq(Token)
      /\ Len(SubSeq(s \o t, m, n)) = IF m <= n THEN n - m + 1 ELSE 0
      /\ \A i \in 1..(n - m + 1) : SubSeq(s \o t, m, n)[i] = (s \o t)[m + i - 1]
  BY <1>1, Cut
<1>4. /\ SubSeq(s, m, n) \in Seq(Token)
      /\ Len(SubSeq(s, m, n)) = IF m <= n THEN n - m + 1 ELSE 0
      /\ \A i \in 1..(n - m + 1) : SubSeq(s, m, n)[i] = s[m + i - 1]
  BY Cut
<1> DEFINE a == SubSeq(s \o t, m, n)
           b == SubSeq(s, m, n)
<1>5. Len(a) = Len(b)
  BY <1>3, <1>4
<1>6. \A i \in 1..Len(a) : a[i] = b[i]
  BY <1>2, <1>3, <1>4
<1> QED
  BY <1>3, <1>4, <1>5, <1>6, SeqEqual

LEMMA RestOfMore ==
  ASSUME NEW s \in Seq(Token), NEW t \in Seq(Token), NEW m \in 1..(Len(s) + 1)
  PROVE  SubSeq(s \o t, m, Len(s \o t)) = SubSeq(s, m, Len(s)) \o t
<1> DEFINE a == SubSeq(s \o t, m, Len(s \o t))
           c == SubSeq(s, m, Len(s))
           b == c \o t
<1>1. /\ s \o t \in Seq(Token) /\ Len(s \o t) = Len(s) + Len(t)
      /\ \A i \in 1..(Len(s) + Len(t)) : (s \o t)[i] = IF i <= Len(s) THEN s[i] ELSE t[i - Len(s)]
  BY ConcatProperties
<1>2. Len(s) \in Nat /\ Len(t) \in Nat
  OBVIOUS
<1>3. /\ a \in Seq(Token) /\ Len(a) = Len(s) + Len(t) - m + 1
      /\ \A i \in 1..(Len(s) + Len(t) - m + 1) : a[i] = (s \o t)[m + i - 1]
  BY <1>1, <1>2, Cut
<1>4. /\ c \in Seq(Token) /\ Len(c) = Len(s) - m + 1
      /\ \A i \in 1..(Len(s) - m + 1) : c[i] = s[m + i - 1]
  BY <1>2, Cut
<1> HIDE DEF a, c
<1>5. /\ b \in Seq(Token) /\ Len(b) = Len(c) + Len(t)
      /\ \A i \in 1..(Len(c) + Len(t)) : b[i] = IF i <= Len(c) THEN c[i] ELSE t[i - Len(c)]
  BY <1>4, ConcatProperties
<1> HIDE DEF b
<1>6. \A i \in 1..Len(a) : a[i] = b[i]
  BY <1>1, <1>2, <1>3, <1>4, <1>5
<1>7. a = b
  BY <1>2, <1>3, <1>4, <1>5, <1>6, SeqEqual
<1> QED
  BY <1>7 DEF a, b, c

LEMMA ResponseOfMore ==
  ASSUME NEW s \in Seq(Token), NEW t \in Seq(Token), NEW e \in 1..Len(s)
  PROVE  Response(s \o t, e) = Response(s, e) \o t
<1> DEFINE j == StatusAt(s, e)
           cp == RestAt(s, j, e)
<1>1. j = StatusAt(s \o t, e)
  BY SameFound
<1>2. CASE j = 0
  <2>1. Response(s, e) = <<"HTTP/1.1", "200", "NL">> \o s
    BY <1>2, ResponseOf
  <2>2. Response(s \o t, e) = <<"HTTP/1.1", "200", "NL">> \o (s \o t)
    BY <1>1, <1>2, ResponseOf
  <2> QED
    BY SMTT(30), <2>1, <2>2, StatusWords, Regrouped
<1>3. CASE j # 0
  <2>1. j \in 1..(e - 1)
    BY <1>3, StatusIs DEF IsStatus
  <2>2. cp \in (j + 1)..e /\ cp = RestAt(s \o t, j, e)
    BY <2>1, RestIs, SameFound
  <2> DEFINE h == <<"HTTP/1.1">>
             x == SubSeq(s, j + 1, cp - 1)
             y == SubSeq(s, 1, j - 1)
             z == SubSeq(s, cp, Len(s))
  <2>3. Response(s, e) = h \o x \o y \o z
    BY <1>3, ResponseOf
  <2>4. Response(s \o t, e) = h \o SubSeq(s \o t, j + 1, cp - 1) \o SubSeq(s \o t, 1, j - 1)
                              \o SubSeq(s \o t, cp, Len(s \o t))
    BY <1>1, <1>3, <2>2, ResponseOf
  <2> HIDE DEF j, cp
  <2>5. j + 1 \in 1..(Len(s) + 1) /\ cp - 1 \in 0..Len(s) /\ j - 1 \in 0..Len(s)
        /\ cp \in 1..(Len(s) + 1) /\ 1 \in 1..(Len(s) + 1) /\ Len(s) \in 0..Len(s)
    BY <2>1, <2>2
  <2>6. /\ SubSeq(s \o t, j + 1, cp - 1) = x /\ SubSeq(s \o t, 1, j - 1) = y
        /\ SubSeq(s \o t, cp, Len(s \o t)) = z \o t
    BY <2>5, CutOfMore, RestOfMore
  <2>7. x \in Seq(Token) /\ y \in Seq(Token) /\ z \in Seq(Token) /\ h \in Seq(Token)
    BY <2>5, Cut, StatusWords
  <2> HIDE DEF x, y, z, h
  <2>8. h \o x \o y \in Seq(Token)
    BY <2>7, ConcatProperties
  <2>9. (h \o x \o y) \o (z \o t) = ((h \o x \o y) \o z) \o t
    BY <2>7, <2>8, Regrouped
  <2> QED
    BY <2>3, <2>4, <2>6, <2>9
<1> QED
  BY <1>2, <1>3

-----------------------------------------------------------------------------
(* What Response makes of a head.                                          *)

\* The status line, from j to the end of the line at n: the first, or before the last.
StatusLine(s, e, j, n) ==
  /\ j \in 1..(e - 1) /\ n \in (j + 1)..e
  /\ s[j] = "Status:" /\ s[n] = "NL"
  /\ \A i \in j..(n - 1) : s[i] # "NL"
  /\ \A i \in 1..(e - 1) : s[i] = "Status:" => i = j
  /\ \/ j = 1
     \/ s[j - 1] = "NL" /\ n < e

\* It comes first, and what was before it behind it.
Turned(s, a, j, n) ==
  /\ a \in Seq(Token) /\ Len(a) = Len(s)
  /\ a[1] = "HTTP/1.1"
  /\ \A i \in 2..(n - j + 1) : a[i] = s[j + i - 1]
  /\ \A i \in (n - j + 2)..n : a[i] = s[i - (n - j + 1)]
  /\ \A i \in (n + 1)..Len(s) : a[i] = s[i]

\* Two parts, the first of n tokens.
InTwo(a, s, t, n) ==
  /\ a \in Seq(Token) /\ Len(a) = n + Len(t)
  /\ \A i \in 1..n : a[i] = s[i]
  /\ \A i \in (n + 1)..(n + Len(t)) : a[i] = t[i - n]

LEMMA TwoParts ==
  ASSUME NEW s \in Seq(Token), NEW t \in Seq(Token)
  PROVE  InTwo(s \o t, s, t, Len(s))
<1>1. /\ s \o t \in Seq(Token) /\ Len(s \o t) = Len(s) + Len(t)
      /\ \A i \in 1..Len(s) + Len(t) :
           (s \o t)[i] = IF i <= Len(s) THEN s[i] ELSE t[i - Len(s)]
  BY ConcatProperties
<1>2. Len(t) \in Nat /\ Len(s) \in Nat
  OBVIOUS
<1> QED
  BY <1>1, <1>2 DEF InTwo

\* Four parts, when the first is a single token.
InFour(a, x, y, z, p, q) ==
  /\ a \in Seq(Token) /\ Len(a) = q + Len(z) /\ a[1] = "HTTP/1.1"
  /\ \A i \in 2..p : a[i] = x[i - 1]
  /\ \A i \in (p + 1)..q : a[i] = y[i - p]
  /\ \A i \in (q + 1)..(q + Len(z)) : a[i] = z[i - q]

LEMMA FourParts ==
  ASSUME NEW x \in Seq(Token), NEW y \in Seq(Token), NEW z \in Seq(Token),
         NEW p \in Nat, NEW q \in Nat, p = 1 + Len(x), q = p + Len(y)
  PROVE  InFour(<<"HTTP/1.1">> \o x \o y \o z, x, y, z, p, q)
<1> DEFINE h == <<"HTTP/1.1">>
           b == h \o x
           c == b \o y
           a == c \o z
<1>1. h \in Seq(Token) /\ Len(h) = 1 /\ h[1] = "HTTP/1.1"
  BY StatusWords
<1> HIDE DEF h
<1>2. /\ b \in Seq(Token) /\ Len(b) = 1 + Len(x)
      /\ \A i \in 1..1 : b[i] = h[i]
      /\ \A i \in (1 + 1)..(1 + Len(x)) : b[i] = x[i - 1]
  <2>1. InTwo(b, h, x, 1)
    BY <1>1, TwoParts
  <2> QED
    BY <2>1 DEF InTwo
<1> HIDE DEF b
<1>3. /\ c \in Seq(Token) /\ Len(c) = p + Len(y)
      /\ \A i \in 1..p : c[i] = b[i]
      /\ \A i \in (p + 1)..(p + Len(y)) : c[i] = y[i - p]
  <2>1. InTwo(c, b, y, p)
    BY <1>2, TwoParts
  <2> QED
    BY <2>1 DEF InTwo
<1> HIDE DEF c
<1>4. /\ a \in Seq(Token) /\ Len(a) = q + Len(z)
      /\ \A i \in 1..q : a[i] = c[i]
      /\ \A i \in (q + 1)..(q + Len(z)) : a[i] = z[i - q]
  <2>1. InTwo(a, c, z, q)
    BY <1>3, TwoParts
  <2> QED
    BY <2>1 DEF InTwo
<1> HIDE DEF a
<1>5. Len(x) \in Nat /\ Len(y) \in Nat
  OBVIOUS
<1>6. a[1] = "HTTP/1.1"
  BY <1>1, <1>2, <1>3, <1>4, <1>5
<1>7. \A i \in 2..p : a[i] = x[i - 1]
  BY <1>2, <1>3, <1>4, <1>5
<1>8. \A i \in (p + 1)..q : a[i] = y[i - p]
  BY <1>3, <1>4, <1>5
<1> QED
  BY <1>4, <1>6, <1>7, <1>8 DEF a, b, c, h, InFour

Answered(s, e, a) == \E j, n : StatusLine(s, e, j, n) /\ Turned(s, a, j, n)

LEMMA ResponseTurns ==
  ASSUME NEW s \in Seq(Token), NEW e, IsHeadEnd(s, e), HeadEnd(s) = e, StatusApart(s)
  PROVE  \/ NoStatus(s, e) /\ Response(s, e) = <<"HTTP/1.1", "200", "NL">> \o s
         \/ Answered(s, e, Response(s, e))
<1> DEFINE j == StatusAt(s, e)
           nl == LineEndAt(s, j, e)
           cp == RestAt(s, j, e)
<1>1. e \in Nat /\ e \in 1..(Len(s) - 1) /\ s[e] = "NL" /\ Len(s) \in Nat
  BY DEF IsHeadEnd
<1>2. CASE j = 0
  BY <1>1, <1>2, StatusIs, ResponseOf DEF IsStatus
<1>3. CASE j # 0
  <2>1. IsStatus(s, e, j)
    BY <1>1, <1>3, StatusIs
  <2>2. j \in 1..(e - 1) /\ s[j] = "Status:"
    BY <2>1 DEF IsStatus
  <2> DEFINE x == SubSeq(s, j + 1, cp - 1)
             y == SubSeq(s, 1, j - 1)
             z == SubSeq(s, cp, Len(s))
             a == <<"HTTP/1.1">> \o x \o y \o z
  <2>4. Response(s, e) = a
    BY <1>3, ResponseOf
  <2>5. cp \in (j + 1)..e
    BY <1>1, <2>2, RestIs
  <2>6. \/ nl = 0 /\ NoLineEnd(s, j, e) /\ cp = e
        \/ nl # 0 /\ IsLineEnd(s, j, e, nl) /\ cp = nl + 1
    BY <1>1, <2>2, LineEndIs DEF RestAt
  <2> HIDE DEF j, nl, cp
  <2>3. /\ \/ j = 1
           \/ s[j - 1] = "NL" /\ \E k \in j..(e - 1) : s[k] = "NL"
        /\ \A i \in 1..(e - 1) : s[i] = "Status:" => i = j
    <3>1. j \in 1..(HeadEnd(s) - 1)
      BY <2>2
    <3> QED
      BY <2>2, <3>1 DEF StatusApart
  <2>7. j + 1 \in 1..(Len(s) + 1) /\ cp - 1 \in 0..Len(s) /\ j - 1 \in 0..Len(s)
        /\ cp \in 1..(Len(s) + 1) /\ 1 \in 1..(Len(s) + 1) /\ Len(s) \in 0..Len(s)
    BY <1>1, <2>2, <2>5
  <2>8. /\ x \in Seq(Token) /\ Len(x) = IF j + 1 <= cp - 1 THEN (cp - 1) - (j + 1) + 1 ELSE 0
        /\ \A i \in 1..((cp - 1) - (j + 1) + 1) : x[i] = s[(j + 1) + i - 1]
    BY <2>7, Cut
  <2>9. /\ y \in Seq(Token) /\ Len(y) = IF 1 <= j - 1 THEN (j - 1) - 1 + 1 ELSE 0
        /\ \A i \in 1..((j - 1) - 1 + 1) : y[i] = s[1 + i - 1]
    BY <2>7, Cut
  <2>10. /\ z \in Seq(Token) /\ Len(z) = IF cp <= Len(s) THEN Len(s) - cp + 1 ELSE 0
         /\ \A i \in 1..(Len(s) - cp + 1) : z[i] = s[cp + i - 1]
    BY <2>7, Cut
  <2> HIDE DEF x, y, z
  <2>11. Len(x) = cp - j - 1 /\ Len(y) = j - 1 /\ Len(z) = Len(s) - cp + 1
    <3>1. Len(x) = cp - j - 1
      BY <2>2, <2>5, <2>8
    <3>2. Len(y) = j - 1
      BY <2>2, <2>5, <2>9
    <3>3. Len(z) = Len(s) - cp + 1
      BY <1>1, <2>2, <2>5, <2>10
    <3> QED
      BY <3>1, <3>2, <3>3
  <2>12. /\ a \in Seq(Token) /\ Len(a) = Len(s) /\ a[1] = "HTTP/1.1"
         /\ \A i \in 2..(cp - j) : a[i] = x[i - 1]
         /\ \A i \in (cp - j + 1)..(cp - 1) : a[i] = y[i - (cp - j)]
         /\ \A i \in cp..Len(s) : a[i] = z[i - (cp - 1)]
    <3>1. cp - j \in Nat /\ cp - 1 \in Nat /\ cp - j = 1 + Len(x) /\ cp - 1 = cp - j + Len(y)
          /\ cp - 1 + Len(z) = Len(s) /\ cp - 1 + 1 = cp
      BY <1>1, <2>2, <2>5, <2>11
    <3>2. /\ a \in Seq(Token) /\ Len(a) = cp - 1 + Len(z) /\ a[1] = "HTTP/1.1"
          /\ \A i \in 2..(cp - j) : a[i] = x[i - 1]
          /\ \A i \in (cp - j + 1)..(cp - 1) : a[i] = y[i - (cp - j)]
          /\ \A i \in (cp - 1 + 1)..(cp - 1 + Len(z)) : a[i] = z[i - (cp - 1)]
      <4>1. InFour(a, x, y, z, cp - j, cp - 1)
        BY <2>8, <2>9, <2>10, <3>1, FourParts
      <4> QED
        BY <4>1 DEF InFour
    <3> QED
      BY <3>1, <3>2
  <2> HIDE DEF a
  <2>13. /\ \A i \in 2..(cp - j) : a[i] = s[j + i - 1]
         /\ \A i \in (cp - j + 1)..(cp - 1) : a[i] = s[i - (cp - j)]
         /\ \A i \in cp..Len(s) : a[i] = s[i]
    <3>1. ASSUME NEW i \in 2..(cp - j) PROVE a[i] = s[j + i - 1]
      <4>1. a[i] = x[i - 1] /\ i - 1 \in 1..((cp - 1) - (j + 1) + 1)
        BY <2>2, <2>5, <2>12
      <4> QED
        BY <2>2, <2>5, <2>8, <4>1
    <3>2. ASSUME NEW i \in (cp - j + 1)..(cp - 1) PROVE a[i] = s[i - (cp - j)]
      <4>1. a[i] = y[i - (cp - j)] /\ i - (cp - j) \in 1..((j - 1) - 1 + 1)
        BY <2>2, <2>5, <2>12
      <4> QED
        BY <2>2, <2>5, <2>9, <4>1
    <3>3. ASSUME NEW i \in cp..Len(s) PROVE a[i] = s[i]
      <4>1. a[i] = z[i - (cp - 1)] /\ i - (cp - 1) \in 1..(Len(s) - cp + 1)
        BY <1>1, <2>2, <2>5, <2>12
      <4> QED
        BY <1>1, <2>2, <2>5, <2>10, <4>1
    <3> QED
      BY <3>1, <3>2, <3>3
  <2>14. CASE nl # 0
    <3>1. nl \in j..(e - 1) /\ s[nl] = "NL" /\ cp = nl + 1 /\ \A i \in j..(nl - 1) : s[i] # "NL"
      BY <2>6, <2>14 DEF IsLineEnd
    <3>2. nl # j
      BY <2>2, <3>1
    <3>3. StatusLine(s, e, j, nl)
      BY <1>1, <2>2, <2>3, <3>1, <3>2 DEF StatusLine
    <3>4. Turned(s, a, j, nl)
      BY <1>1, <2>2, <2>12, <2>13, <3>1 DEF Turned
    <3> QED
      BY <2>4, <3>3, <3>4 DEF Answered
  <2>15. CASE nl = 0
    <3>1. cp = e /\ \A i \in j..(e - 1) : s[i] # "NL"
      BY <2>6, <2>15 DEF NoLineEnd
    <3>2. j = 1
      BY <2>3, <3>1
    <3>3. StatusLine(s, e, j, e)
      BY <1>1, <2>2, <2>3, <3>1, <3>2 DEF StatusLine
    <3>4. Turned(s, a, j, e)
      <4>1. \A i \in 2..e : a[i] = s[i]
        BY <1>1, <2>13, <3>1, <3>2
      <4>2. \A i \in e..Len(s) : a[i] = s[i]
        BY <2>13, <3>1
      <4>3. a \in Seq(Token) /\ Len(a) = Len(s) /\ a[1] = "HTTP/1.1"
        BY <2>12
      <4> QED
        BY <1>1, <3>2, <4>1, <4>2, <4>3 DEF Turned
    <3> QED
      BY <2>4, <3>3, <3>4 DEF Answered
  <2> QED
    BY <2>14, <2>15
<1> QED
  BY <1>2, <1>3

-----------------------------------------------------------------------------
(* Lines.                                                                  *)

\* The line that ends at k begins at f.
Line(s, f, k) ==
  /\ f \in 1..k /\ s[k] = "NL"
  /\ f = 1 \/ s[f - 1] = "NL"
  /\ \A i \in f..(k - 1) : s[i] # "NL"

LEMMA LineBegins ==
  ASSUME NEW s \in Seq(Token), NEW k \in 1..Len(s), s[k] = "NL"
  PROVE  \E f \in 1..k : Line(s, f, k)
<1> DEFINE D == {d \in 0..(k - 1) : k - d = 1 \/ s[k - d - 1] = "NL"}
<1>1. k - 1 \in D /\ D \in SUBSET Nat
  OBVIOUS
<1>2. PICK d \in D : \A n \in D : d <= n
  BY <1>1, LeastPlace
<1>3. d \in 0..(k - 1) /\ (k - d = 1 \/ s[k - d - 1] = "NL")
  BY <1>2
<1>4. ASSUME NEW i \in (k - d)..(k - 1), s[i] = "NL"
      PROVE  FALSE
  <2>1. k - i - 1 \in 0..(k - 1) /\ k - (k - i - 1) - 1 = i /\ k - i - 1 < d
    BY <1>3
  <2>2. k - i - 1 \in D
    BY <1>4, <2>1
  <2> HIDE DEF D
  <2>3. d <= k - i - 1
    BY <1>2, <2>2
  <2> QED
    BY <1>3, <2>1, <2>3
<1>5. Line(s, k - d, k) /\ k - d \in 1..k
  BY <1>3, <1>4 DEF Line
<1> QED
  BY <1>5

LEMMA OneBeginning ==
  ASSUME NEW s \in Seq(Token), NEW f, NEW g, NEW k \in Nat, Line(s, f, k), Line(s, g, k)
  PROVE  f = g
<1>1. ~ (f < g) /\ ~ (g < f)
  BY DEF Line
<1> QED
  BY <1>1 DEF Line

LineIn(s, n, l) == \E f, k \in 1..n : Line(s, f, k) /\ l = SubSeq(s, f, k)

LEMMA LinesAre ==
  ASSUME NEW s \in Seq(Token), NEW l
  PROVE  l \in LinesOf(s) <=> LineIn(s, Len(s), l)
<1> DEFINE ends == {k \in 1..Len(s) : s[k] = "NL"}
           first(k) == CHOOSE j \in 1..k : j - 1 \in ends \cup {0} /\ \A i \in j..(k - 1) : i \notin ends
<1>1. LinesOf(s) = {SubSeq(s, first(k), k) : k \in ends}
  BY DEF LinesOf
<1>2. ASSUME NEW k \in ends, NEW j \in 1..k
      PROVE  Line(s, j, k) <=> j - 1 \in ends \cup {0} /\ \A i \in j..(k - 1) : i \notin ends
  BY <1>2 DEF Line
<1>3. ASSUME NEW k \in ends
      PROVE  Line(s, first(k), k)
  <2>1. PICK f \in 1..k : Line(s, f, k)
    BY <1>3, LineBegins
  <2>2. f - 1 \in ends \cup {0} /\ \A i \in f..(k - 1) : i \notin ends
    BY <1>2, <2>1
  <2>3. /\ first(k) \in 1..k
        /\ first(k) - 1 \in ends \cup {0} /\ \A i \in first(k)..(k - 1) : i \notin ends
    BY <2>2
  <2> QED
    BY <1>2, <2>3
<1> HIDE DEF first
<1>4. ASSUME l \in LinesOf(s)
      PROVE  LineIn(s, Len(s), l)
  <2>1. PICK k \in ends : l = SubSeq(s, first(k), k)
    BY <1>1, <1>4
  <2>2. Line(s, first(k), k)
    BY <1>3
  <2>3. first(k) \in 1..Len(s) /\ k \in 1..Len(s)
    BY <2>2 DEF Line
  <2> QED
    BY <2>1, <2>2, <2>3 DEF LineIn
<1>5. ASSUME LineIn(s, Len(s), l)
      PROVE  l \in LinesOf(s)
  <2>1. PICK f \in 1..Len(s), k \in 1..Len(s) : Line(s, f, k) /\ l = SubSeq(s, f, k)
    BY <1>5 DEF LineIn
  <2>2. k \in ends
    BY <2>1 DEF Line
  <2>3. first(k) = f
    BY <1>3, <2>1, <2>2, OneBeginning
  <2> QED
    BY <1>1, <2>1, <2>2, <2>3
<1> QED
  BY <1>4, <1>5

\* Equal tokens, equal parts.
LEMMA SameCut ==
  ASSUME NEW s \in Seq(Token), NEW a \in Seq(Token),
         NEW f \in 1..(Len(s) + 1), NEW k \in (f - 1)..Len(s),
         NEW g \in 1..(Len(a) + 1), NEW m \in (g - 1)..Len(a), m - g = k - f,
         \A i \in 0..(k - f) : a[g + i] = s[f + i]
  PROVE  SubSeq(a, g, m) = SubSeq(s, f, k)
<1> DEFINE b == SubSeq(a, g, m)
           c == SubSeq(s, f, k)
<1>1. /\ b \in Seq(Token) /\ Len(b) = m - g + 1
      /\ \A i \in 1..(m - g + 1) : b[i] = a[g + i - 1]
  BY Cut
<1>2. /\ c \in Seq(Token) /\ Len(c) = k - f + 1
      /\ \A i \in 1..(k - f + 1) : c[i] = s[f + i - 1]
  BY Cut
<1> HIDE DEF b, c
<1>3. Len(s) \in Nat /\ Len(a) \in Nat
  OBVIOUS
<1>4. \A i \in 1..Len(b) : b[i] = c[i]
  <2>1. SUFFICES ASSUME NEW i \in 1..Len(b) PROVE b[i] = c[i]
    OBVIOUS
  <2>2. i - 1 \in 0..(k - f) /\ g + (i - 1) = g + i - 1 /\ f + (i - 1) = f + i - 1
    BY <1>1, <1>3
  <2>3. a[g + (i - 1)] = s[f + (i - 1)]
    BY <2>2
  <2> QED
    BY <1>1, <1>2, <1>3, <2>2, <2>3
<1>5. b = c
  BY <1>1, <1>2, <1>4, SeqEqual
<1> QED
  BY <1>5 DEF b, c

LEMMA LinesInFront ==
  ASSUME NEW s \in Seq(Token), NEW n \in 0..Len(s), NEW l
  PROVE  l \in LinesOf(SubSeq(s, 1, n)) <=> LineIn(s, n, l)
<1> DEFINE h == SubSeq(s, 1, n)
<1>1. h \in Seq(Token) /\ Len(h) = n /\ \A i \in 1..n : h[i] = s[i]
  <2>1. /\ h \in Seq(Token) /\ Len(h) = (IF 1 <= n THEN n - 1 + 1 ELSE 0)
        /\ \A i \in 1..(n - 1 + 1) : h[i] = s[1 + i - 1]
    BY Cut
  <2> QED
    BY <2>1
<1> HIDE DEF h
<1>2. ASSUME NEW f \in 1..n, NEW k \in 1..n
      PROVE  Line(h, f, k) <=> Line(s, f, k)
  BY <1>1 DEF Line
<1>3. ASSUME NEW f \in 1..n, NEW k \in 1..n, Line(s, f, k)
      PROVE  SubSeq(h, f, k) = SubSeq(s, f, k)
  <2>1. f <= k
    BY <1>3 DEF Line
  <2>2. \A i \in 0..(k - f) : h[f + i] = s[f + i]
    BY <1>1, <2>1
  <2> QED
    BY <1>1, <2>1, <2>2, SameCut
<1>4. LineIn(h, n, l) <=> LineIn(s, n, l)
  BY <1>2, <1>3 DEF LineIn
<1> QED
  BY <1>1, <1>4, LinesAre DEF h

-----------------------------------------------------------------------------
(* A response that had no status.                                          *)

Plain == <<"HTTP/1.1", "200", "NL">>

InFront(a, s) ==
  /\ a \in Seq(Token) /\ Len(a) = Len(s) + 3
  /\ SubSeq(a, 1, 3) = Plain
  /\ a[1] # "NL" /\ a[2] # "NL" /\ a[3] = "NL"
  /\ \A i \in 1..Len(s) : a[3 + i] = s[i]

LEMMA PlainIsInFront ==
  ASSUME NEW s \in Seq(Token)
  PROVE  InFront(Plain \o s, s)
<1> DEFINE a == Plain \o s
<1>1. Plain \in Seq(Token) /\ Len(Plain) = 3 /\ Len(s) \in Nat
  BY StatusWords DEF Plain
<1>2. Plain[1] = "HTTP/1.1" /\ Plain[2] = "200" /\ Plain[3] = "NL"
  BY DEF Plain
<1>3. InTwo(a, Plain, s, 3)
  BY <1>1, TwoParts
<1> HIDE DEF a
<1>4. /\ a \in Seq(Token) /\ Len(a) = 3 + Len(s)
      /\ \A i \in 1..3 : a[i] = Plain[i]
      /\ \A i \in (3 + 1)..(3 + Len(s)) : a[i] = s[i - 3]
  BY <1>3 DEF InTwo
<1>5. SubSeq(a, 1, 3) = Plain
  <2>1. SubSeq(a, 1, 3) = SubSeq(Plain, 1, 3)
    <3>1. 3 \in (1 - 1)..Len(Plain) /\ 3 \in (1 - 1)..Len(a) /\ 1 \in 1..(Len(a) + 1) /\ 1 \in 1..(Len(Plain) + 1)
      BY <1>1, <1>4
    <3>2. \A i \in 0..(3 - 1) : a[1 + i] = Plain[1 + i]
      BY <1>4
    <3> QED
      BY <1>1, <1>4, <3>1, <3>2, SameCut
  <2>2. SubSeq(Plain, 1, 3) = Plain
    BY <1>1, SubSeqFull
  <2> QED
    BY <2>1, <2>2
<1>6. \A i \in 1..Len(s) : a[3 + i] = s[i]
  BY <1>1, <1>4
<1>7. InFront(a, s)
  BY <1>1, <1>2, <1>4, <1>5, <1>6 DEF InFront
<1> QED
  BY <1>7 DEF a

LEMMA PlainHead ==
  ASSUME NEW s \in Seq(Token), NEW a, InFront(a, s), NEW e, IsHeadEnd(s, e), s[1] # "NL"
  PROVE  IsHeadEnd(a, e + 3)
<1>1. e \in 1..(Len(s) - 1) /\ s[e] = "NL" /\ s[e + 1] = "NL" /\ Len(s) \in Nat
  BY DEF IsHeadEnd
<1>2. a[e + 3] = "NL" /\ a[e + 3 + 1] = "NL" /\ e + 3 \in 1..(Len(a) - 1)
  BY <1>1 DEF InFront
<1>3. ASSUME NEW k \in 1..(e + 3 - 1), a[k] = "NL", a[k + 1] = "NL"
      PROVE  FALSE
  <2>1. k >= 3
    BY <1>3 DEF InFront
  <2>2. CASE k = 3
    <3>1. a[4] = s[1]
      BY <1>1 DEF InFront
    <3> QED
      BY <1>3, <2>2, <3>1
  <2>3. CASE k > 3
    <3>1. k - 3 \in 1..(e - 1) /\ 3 + (k - 3) = k /\ 3 + (k - 3 + 1) = k + 1
      BY <1>1, <2>3
    <3>2. k - 3 \in 1..Len(s) /\ k - 3 + 1 \in 1..Len(s)
      BY <1>1, <3>1
    <3>3. a[k] = s[k - 3] /\ a[k + 1] = s[k - 3 + 1]
      BY <3>1, <3>2 DEF InFront
    <3> QED
      BY <1>3, <3>1, <3>3 DEF IsHeadEnd
  <2> QED
    BY <2>1, <2>2, <2>3
<1> QED
  BY <1>1, <1>2, <1>3 DEF IsHeadEnd

LEMMA PlainLines ==
  ASSUME NEW s \in Seq(Token), NEW a, InFront(a, s), NEW e \in 1..Len(s), NEW l
  PROVE  LineIn(a, e + 3, l) <=> l = Plain \/ LineIn(s, e, l)
<1>1. a \in Seq(Token) /\ Len(a) = Len(s) + 3 /\ Len(s) \in Nat
      /\ \A i \in 1..Len(s) : a[3 + i] = s[i]
  BY DEF InFront
<1>2. ASSUME NEW f \in 1..e, NEW k \in 1..e
      PROVE  Line(s, f, k) <=> Line(a, 3 + f, 3 + k)
  <2>1. s[k] = "NL" <=> a[3 + k] = "NL"
    BY <1>1
  <2>2. f = 1 \/ s[f - 1] = "NL" <=> a[3 + f - 1] = "NL"
    <3>1. CASE f = 1
      BY <3>1 DEF InFront
    <3>2. CASE f # 1
      <4>1. f - 1 \in 1..Len(s) /\ 3 + (f - 1) = 3 + f - 1
        BY <1>1, <3>2
      <4> QED
        BY <1>1, <3>2, <4>1
    <3> QED
      BY <3>1, <3>2
  <2>3. (\A i \in f..(k - 1) : s[i] # "NL") <=> \A i \in (3 + f)..(3 + k - 1) : a[i] # "NL"
    <3>1. \A i \in f..(k - 1) : 3 + i \in (3 + f)..(3 + k - 1) /\ a[3 + i] = s[i]
      BY <1>1
    <3>2. \A i \in (3 + f)..(3 + k - 1) : i - 3 \in f..(k - 1) /\ a[i] = s[i - 3]
      <4> SUFFICES ASSUME NEW i \in (3 + f)..(3 + k - 1)
                   PROVE  i - 3 \in f..(k - 1) /\ a[i] = s[i - 3]
        OBVIOUS
      <4>1. i - 3 \in f..(k - 1) /\ i - 3 \in 1..Len(s) /\ 3 + (i - 3) = i
        BY <1>1
      <4>2. a[3 + (i - 3)] = s[i - 3]
        BY <1>1, <4>1
      <4> QED
        BY <4>1, <4>2
    <3> QED
      BY <3>1, <3>2
  <2>4. f \in 1..k <=> 3 + f \in 1..(3 + k)
    OBVIOUS
  <2>5. 3 + f # 1
    OBVIOUS
  <2> QED
    BY <2>1, <2>2, <2>3, <2>4, <2>5 DEF Line
<1>3. ASSUME NEW f \in 1..e, NEW k \in f..e
      PROVE  SubSeq(a, 3 + f, 3 + k) = SubSeq(s, f, k)
  <2>1. \A i \in 0..(k - f) : a[3 + f + i] = s[f + i]
    <3> SUFFICES ASSUME NEW i \in 0..(k - f) PROVE a[3 + f + i] = s[f + i]
      OBVIOUS
    <3>1. f + i \in 1..Len(s) /\ 3 + (f + i) = 3 + f + i
      BY <1>1
    <3> QED
      BY <1>1, <3>1
  <2>2. f \in 1..(Len(s) + 1) /\ k \in (f - 1)..Len(s) /\ 3 + f \in 1..(Len(a) + 1)
        /\ 3 + k \in (3 + f - 1)..Len(a) /\ (3 + k) - (3 + f) = k - f
    BY <1>1
  <2> QED
    BY <1>1, <2>1, <2>2, SameCut
<1>4. Line(a, 1, 3)
  <2>1. a[1] # "NL" /\ a[2] # "NL" /\ a[3] = "NL"
    BY DEF InFront
  <2>2. \A i \in 1..(3 - 1) : i = 1 \/ i = 2
    OBVIOUS
  <2> QED
    BY <2>1, <2>2 DEF Line
<1>5. ASSUME LineIn(s, e, l)
      PROVE  LineIn(a, e + 3, l)
  <2>1. PICK f \in 1..e, k \in 1..e : Line(s, f, k) /\ l = SubSeq(s, f, k)
    BY <1>5 DEF LineIn
  <2>2. Line(a, 3 + f, 3 + k) /\ k \in f..e
    BY <1>2, <2>1 DEF Line
  <2>3. l = SubSeq(a, 3 + f, 3 + k)
    BY <1>3, <2>1, <2>2
  <2>4. 3 + f \in 1..(e + 3) /\ 3 + k \in 1..(e + 3)
    OBVIOUS
  <2> QED
    BY <2>2, <2>3, <2>4 DEF LineIn
<1>6. LineIn(a, e + 3, Plain)
  <2>1. Plain = SubSeq(a, 1, 3) /\ 1 \in 1..(e + 3) /\ 3 \in 1..(e + 3)
    BY DEF InFront
  <2> QED
    BY <1>4, <2>1 DEF LineIn
<1>7. ASSUME LineIn(a, e + 3, l)
      PROVE  l = Plain \/ LineIn(s, e, l)
  <2>1. PICK f \in 1..(e + 3), k \in 1..(e + 3) : Line(a, f, k) /\ l = SubSeq(a, f, k)
    BY <1>7 DEF LineIn
  <2>2. k >= 3
    <3>1. a[k] = "NL"
      BY <2>1 DEF Line
    <3> QED
      BY <3>1 DEF InFront
  <2>3. CASE k = 3
    <3>1. f = 1
      BY <1>1, <1>4, <2>1, <2>3, OneBeginning
    <3> QED
      BY <2>1, <2>3, <3>1 DEF InFront
  <2>4. CASE k > 3
    <3>1. f > 3
      <4>1. f \in 1..k /\ \A i \in f..(k - 1) : a[i] # "NL"
        BY <2>1 DEF Line
      <4>2. a[3] = "NL"
        BY DEF InFront
      <4> QED
        BY <2>4, <4>1, <4>2
    <3>2. f - 3 \in 1..e /\ k - 3 \in 1..e /\ 3 + (f - 3) = f /\ 3 + (k - 3) = k
      BY <2>4, <3>1
    <3>3. Line(s, f - 3, k - 3)
      BY <1>2, <2>1, <3>2
    <3>4. k - 3 \in (f - 3)..e
      BY <3>2, <3>3 DEF Line
    <3>5. l = SubSeq(s, f - 3, k - 3)
      BY <1>3, <2>1, <3>2, <3>4
    <3> QED
      BY <3>2, <3>3, <3>5 DEF LineIn
  <2> QED
    BY <2>2, <2>3, <2>4
<1> QED
  BY <1>5, <1>6, <1>7

-----------------------------------------------------------------------------
(* A response that had one.                                                *)

LEMMA TurnedHead ==
  ASSUME NEW s \in Seq(Token), NEW a, NEW e, NEW j, NEW n,
         IsHeadEnd(s, e), s[1] # "NL", StatusLine(s, e, j, n), Turned(s, a, j, n)
  PROVE  IsHeadEnd(a, e)
<1>1. e \in 1..(Len(s) - 1) /\ s[e] = "NL" /\ s[e + 1] = "NL" /\ Len(s) \in Nat
  BY DEF IsHeadEnd
<1>2. /\ j \in 1..(e - 1) /\ n \in (j + 1)..e /\ s[n] = "NL"
      /\ \A i \in j..(n - 1) : s[i] # "NL"
      /\ \/ j = 1
         \/ s[j - 1] = "NL" /\ n < e
  BY DEF StatusLine
<1>3. Len(a) = Len(s) /\ a[1] = "HTTP/1.1"
  BY DEF Turned
<1>4. \A i \in 2..(n - j + 1) : a[i] = s[j + i - 1] /\ j + i - 1 \in (j + 1)..n
  BY <1>1, <1>2 DEF Turned
<1>5. \A i \in (n - j + 2)..n : a[i] = s[i - (n - j + 1)] /\ i - (n - j + 1) \in 1..(j - 1)
  BY <1>1, <1>2 DEF Turned
<1>6. \A i \in (n + 1)..Len(s) : a[i] = s[i]
  BY DEF Turned
<1>7. \A k \in 1..(e - 1) : ~ (s[k] = "NL" /\ s[k + 1] = "NL")
  BY DEF IsHeadEnd
<1>8. a[n] = "NL"
  <2>1. CASE j = 1
    <3>1. n \in 2..(n - j + 1) /\ j + n - 1 = n
      BY <1>1, <1>2, <2>1
    <3> QED
      BY <1>2, <1>4, <3>1
  <2>2. CASE j # 1
    <3>1. n \in (n - j + 2)..n /\ n - (n - j + 1) = j - 1
      BY <1>1, <1>2, <2>2
    <3> QED
      BY <1>2, <1>5, <2>2, <3>1
  <2> QED
    BY <2>1, <2>2
<1>9. a[e] = "NL" /\ a[e + 1] = "NL"
  <2>1. a[e + 1] = "NL"
    BY <1>1, <1>2, <1>6
  <2>2. CASE n = e
    BY <1>8, <2>1, <2>2
  <2>3. CASE n # e
    BY <1>1, <1>2, <1>6, <2>1, <2>3
  <2> QED
    BY <2>2, <2>3
<1>10. ASSUME NEW k \in 1..(e - 1), a[k] = "NL", a[k + 1] = "NL"
       PROVE  FALSE
  <2>1. k # 1
    BY <1>3, <1>10
  <2>2. CASE k < n - j + 1
    <3>1. k \in 2..(n - j + 1) /\ k + 1 \in 2..(n - j + 1)
      BY <1>1, <1>2, <2>1, <2>2
    <3>2. a[k] = s[j + k - 1] /\ j + k - 1 \in j..(n - 1)
      BY <1>1, <1>2, <1>4, <2>2, <3>1
    <3> QED
      BY <1>2, <1>10, <3>2
  <2>3. CASE k = n - j + 1 /\ j # 1
    <3>1. PICK m \in Int : m = k + 1
      OBVIOUS
    <3>2. m \in (n - j + 2)..n /\ m - (n - j + 1) = 1
      BY <1>1, <1>2, <2>3, <3>1
    <3>3. a[m] = s[m - (n - j + 1)]
      BY <1>5, <3>2
    <3> QED
      BY <1>10, <3>1, <3>2, <3>3
  <2>4. CASE k > n - j + 1 /\ k < n
    <3>1. k \in (n - j + 2)..n /\ k + 1 \in (n - j + 2)..n
      BY <1>1, <1>2, <2>4
    <3>2. PICK m \in Int, i \in Int : m = k + 1 /\ i = k - (n - j + 1)
      BY <1>1, <1>2
    <3>3. i \in 1..(e - 1) /\ m - (n - j + 1) = i + 1
      BY <1>1, <1>2, <2>4, <3>2
    <3>4. a[k] = s[k - (n - j + 1)] /\ a[m] = s[m - (n - j + 1)]
      BY <1>5, <3>1, <3>2
    <3> QED
      BY <1>7, <1>10, <3>2, <3>3, <3>4
  <2>5. CASE k = n
    <3>1. a[k + 1] = s[n + 1]
      BY <1>1, <1>2, <1>6, <2>5
    <3>2. n \in 1..(e - 1)
      BY <1>1, <1>2, <2>5
    <3> QED
      BY <1>2, <1>7, <1>10, <3>1, <3>2
  <2>6. CASE k > n
    <3>1. a[k] = s[k] /\ a[k + 1] = s[k + 1]
      BY <1>1, <1>2, <1>6, <2>6
    <3> QED
      BY <1>7, <1>10, <3>1
  <2>7. k = n - j + 1 /\ j = 1 => k = n
    BY <1>1, <1>2
  <2> QED
    BY <1>1, <1>2, <2>2, <2>3, <2>4, <2>5, <2>6, <2>7
<1> QED
  BY <1>1, <1>3, <1>9, <1>10 DEF IsHeadEnd

\* The lines that stay as they are.
OtherLine(s, e, j, l) ==
  \E f, k \in 1..e : Line(s, f, k) /\ f # j /\ l = SubSeq(s, f, k)

\* Before the status line, or behind it.
LEMMA OtherLineAt ==
  ASSUME NEW s \in Seq(Token), NEW e \in 1..Len(s), NEW j, NEW n,
         StatusLine(s, e, j, n), NEW f \in 1..e, NEW k \in 1..e, Line(s, f, k)
  PROVE  \/ f = j /\ k = n
         \/ f # j /\ k < j
         \/ f > n
<1>1. /\ j \in 1..(e - 1) /\ n \in (j + 1)..e /\ s[n] = "NL"
      /\ \A i \in j..(n - 1) : s[i] # "NL"
      /\ j = 1 \/ s[j - 1] = "NL"
  BY DEF StatusLine
<1>2. /\ f <= k /\ s[k] = "NL"
      /\ f = 1 \/ s[f - 1] = "NL"
      /\ \A i \in f..(k - 1) : s[i] # "NL"
  BY DEF Line
<1>3. CASE k < j
  BY <1>1, <1>2, <1>3
<1>4. CASE k >= j
  <2>1. k >= n
    BY <1>1, <1>2, <1>4
  <2>2. CASE f > n
    BY <2>2
  <2>3. CASE f <= n
    <3>1. k = n
      BY <1>1, <1>2, <2>1, <2>3
    <3>2. f >= j
      BY <1>1, <1>2, <3>1
    <3>3. f = j
      BY <1>1, <1>2, <2>3, <3>2
    <3> QED
      BY <3>1, <3>3
  <2> QED
    BY <1>1, <2>2, <2>3
<1> QED
  BY <1>1, <1>3, <1>4

LEMMA StatusIsLine ==
  ASSUME NEW s \in Seq(Token), NEW e \in 1..Len(s), NEW j, NEW n, StatusLine(s, e, j, n)
  PROVE  Line(s, j, n) /\ j \in 1..e /\ n \in 1..e
BY DEF StatusLine, Line

\* Tokens of the answer, from the output's.
LEMMA TurnedTokens ==
  ASSUME NEW s \in Seq(Token), NEW a, NEW e \in 1..Len(s), NEW j, NEW n,
         StatusLine(s, e, j, n), Turned(s, a, j, n)
  PROVE  /\ \A i \in (j + 1)..n : a[i - j + 1] = s[i]
         /\ \A i \in 1..(j - 1) : a[n - j + 1 + i] = s[i]
         /\ \A i \in (n + 1)..Len(s) : a[i] = s[i]
         /\ a[n] = "NL"
<1>1. /\ j \in 1..(e - 1) /\ n \in (j + 1)..e /\ s[n] = "NL" /\ Len(s) \in Nat
      /\ j = 1 \/ s[j - 1] = "NL"
  BY DEF StatusLine
<1>2. ASSUME NEW i \in (j + 1)..n PROVE a[i - j + 1] = s[i]
  <2>1. i - j + 1 \in 2..(n - j + 1) /\ j + (i - j + 1) - 1 = i
    BY <1>1
  <2> QED
    BY <2>1 DEF Turned
<1>3. ASSUME NEW i \in 1..(j - 1) PROVE a[n - j + 1 + i] = s[i]
  <2>1. PICK k \in Int : k = n - j + 1 + i
    BY <1>1
  <2>2. k \in (n - j + 2)..n /\ k - (n - j + 1) = i
    BY <1>1, <2>1
  <2>3. a[k] = s[k - (n - j + 1)]
    BY <2>2 DEF Turned
  <2> QED
    BY <2>1, <2>2, <2>3
<1>4. a[n] = "NL"
  <2>1. CASE j = 1
    <3>1. n \in (j + 1)..n /\ n - j + 1 = n
      BY <1>1, <2>1
    <3> QED
      BY <1>1, <1>2, <3>1
  <2>2. CASE j # 1
    <3>1. j - 1 \in 1..(j - 1) /\ n - j + 1 + (j - 1) = n
      BY <1>1, <2>2
    <3> QED
      BY <1>1, <1>3, <2>2, <3>1
  <2> QED
    BY <2>1, <2>2
<1> QED
  BY <1>2, <1>3, <1>4 DEF Turned

\* The status line is m long.
IsLong(m, j, n) == m = n - j + 1

\* Two parts are equal.
Same(a, g, m, s, f, k) == SubSeq(a, g, m) = SubSeq(s, f, k)

IsNew(a, m, s, j, n) == SubSeq(a, 1, m) = <<"HTTP/1.1">> \o Tail(SubSeq(s, j, n))

\* The answer's lines: the new status line,
LEMMA NewStatusLine ==
  ASSUME NEW s \in Seq(Token), NEW a, NEW e \in 1..Len(s), NEW j, NEW n, NEW m,
         StatusLine(s, e, j, n), Turned(s, a, j, n), IsLong(m, j, n)
  PROVE  Line(a, 1, m) /\ IsNew(a, m, s, j, n)
<1> DEFINE h == <<"HTTP/1.1">>
           t == SubSeq(s, j + 1, n)
           b == SubSeq(a, 1, m)
           c == h \o t
<1>1. /\ j \in 1..(e - 1) /\ n \in (j + 1)..e /\ s[n] = "NL" /\ Len(s) \in Nat
      /\ \A i \in j..(n - 1) : s[i] # "NL"
  BY DEF StatusLine
<1>2. a \in Seq(Token) /\ Len(a) = Len(s) /\ a[1] = "HTTP/1.1"
      /\ \A i \in 2..m : a[i] = s[j + i - 1]
  BY DEF Turned, IsLong
<1>3. m \in 2..n /\ m \in Nat /\ m = n - j + 1
  BY <1>1 DEF IsLong
<1>4. Line(a, 1, m)
  <2>1. a[m] = "NL"
    BY <1>1, <1>2, <1>3
  <2>2. ASSUME NEW i \in 1..(m - 1) PROVE a[i] # "NL"
    <3>1. CASE i = 1
      BY <1>2, <3>1
    <3>2. CASE i # 1
      <4>1. i \in 2..m /\ j + i - 1 \in j..(n - 1)
        BY <1>1, <1>3, <3>2
      <4> QED
        BY <1>1, <1>2, <4>1
    <3> QED
      BY <3>1, <3>2
  <2> QED
    BY <1>3, <2>1, <2>2 DEF Line
<1>5. /\ b \in Seq(Token) /\ Len(b) = m
      /\ \A i \in 1..m : b[i] = a[i]
  <2>1. /\ b \in Seq(Token) /\ Len(b) = (IF 1 <= m THEN m - 1 + 1 ELSE 0)
        /\ \A i \in 1..(m - 1 + 1) : b[i] = a[1 + i - 1]
    <3>1. 1 \in 1..(Len(a) + 1) /\ m \in 0..Len(a)
      BY <1>1, <1>2, <1>3
    <3> QED
      BY <1>2, <3>1, Cut
  <2> HIDE DEF b
  <2> QED
    BY <1>3, <2>1
<1>6. /\ t \in Seq(Token) /\ Len(t) = m - 1
      /\ \A i \in 1..(m - 1) : t[i] = s[j + i]
  <2>1. /\ t \in Seq(Token) /\ Len(t) = (IF j + 1 <= n THEN n - (j + 1) + 1 ELSE 0)
        /\ \A i \in 1..(n - (j + 1) + 1) : t[i] = s[(j + 1) + i - 1]
    <3>1. j + 1 \in 1..(Len(s) + 1) /\ n \in 0..Len(s)
      BY <1>1
    <3> QED
      BY <3>1, Cut
  <2> HIDE DEF t
  <2> QED
    BY <1>1, <1>3, <2>1
<1>7. h \in Seq(Token) /\ Len(h) = 1 /\ h[1] = "HTTP/1.1"
  BY StatusWords
<1> HIDE DEF h
<1>8. InTwo(c, h, t, 1)
  BY <1>6, <1>7, TwoParts
<1> HIDE DEF b, c, t
<1>9. /\ c \in Seq(Token) /\ Len(c) = 1 + Len(t)
      /\ \A i \in 1..1 : c[i] = h[i]
      /\ \A i \in (1 + 1)..(1 + Len(t)) : c[i] = t[i - 1]
  BY <1>8 DEF InTwo
<1>10. ASSUME NEW i \in 1..m PROVE b[i] = c[i]
  <2>1. CASE i = 1
    BY <1>2, <1>3, <1>5, <1>7, <1>9, <2>1
  <2>2. CASE i # 1
    <3>1. i \in 2..m /\ i - 1 \in 1..(m - 1) /\ j + (i - 1) = j + i - 1 /\ i \in (1 + 1)..(1 + Len(t))
      BY <1>1, <1>3, <1>6, <2>2
    <3>2. c[i] = t[i - 1] /\ t[i - 1] = s[j + (i - 1)]
      BY <1>6, <1>9, <3>1
    <3>3. b[i] = s[j + i - 1]
      BY <1>2, <1>5, <3>1
    <3> QED
      BY <3>1, <3>2, <3>3
  <2> QED
    BY <2>1, <2>2
<1>11. b = c
  BY <1>3, <1>5, <1>6, <1>9, <1>10, SeqEqual
<1>12. Tail(SubSeq(s, j, n)) = t
  BY <1>1, HeadTailOfSubSeq DEF t
<1> QED
  BY <1>4, <1>11, <1>12 DEF b, c, h, IsNew

\* those that were before it,
LEMMA LinesBefore ==
  ASSUME NEW s \in Seq(Token), NEW a, NEW e \in 1..Len(s), NEW j, NEW n,
         StatusLine(s, e, j, n), Turned(s, a, j, n),
         NEW f \in 1..(j - 1), NEW k \in 1..(j - 1), NEW m, IsLong(m, j, n)
  PROVE  /\ Line(s, f, k) <=> Line(a, m + f, m + k)
         /\ Line(s, f, k) => Same(a, m + f, m + k, s, f, k)
<1>1. j \in 1..(e - 1) /\ n \in (j + 1)..e /\ s[n] = "NL" /\ Len(s) \in Nat
  BY DEF StatusLine
<1>2. a \in Seq(Token) /\ Len(a) = Len(s)
  BY DEF Turned
<1>3. \A i \in 1..(j - 1) : a[m + i] = s[i]
  BY TurnedTokens DEF IsLong
<1>4. a[m] = "NL" /\ m \in 2..n
  <2>1. m \in 2..n /\ m = n - j + 1 /\ n \in (j + 1)..n
    BY <1>1 DEF IsLong
  <2>2. a[n - j + 1] = s[n]
    BY <2>1, TurnedTokens
  <2> QED
    BY <1>1, <2>1, <2>2
<1>5. s[k] = "NL" <=> a[m + k] = "NL"
  BY <1>3
<1>6. (f = 1 \/ s[f - 1] = "NL") <=> (m + f = 1 \/ a[m + f - 1] = "NL")
  <2>1. CASE f = 1
    BY <1>4, <2>1
  <2>2. CASE f # 1
    <3>1. f - 1 \in 1..(j - 1) /\ m + (f - 1) = m + f - 1 /\ m + f # 1
      BY <1>1, <1>4, <2>2
    <3> QED
      BY <1>3, <2>2, <3>1
  <2> QED
    BY <2>1, <2>2
<1>7. (\A i \in f..(k - 1) : s[i] # "NL") <=> \A i \in (m + f)..(m + k - 1) : a[i] # "NL"
  <2>1. \A i \in f..(k - 1) : m + i \in (m + f)..(m + k - 1) /\ a[m + i] = s[i]
    BY <1>1, <1>3, <1>4
  <2>2. ASSUME NEW i \in (m + f)..(m + k - 1)
        PROVE  \E o \in f..(k - 1) : a[i] = s[o]
    <3>1. PICK o \in Int : o = i - m
      BY <1>4
    <3>2. o \in f..(k - 1) /\ o \in 1..(j - 1) /\ m + o = i
      BY <1>1, <1>4, <3>1
    <3> QED
      BY <1>3, <3>2
  <2>3. ASSUME \A i \in f..(k - 1) : s[i] # "NL", NEW i \in (m + f)..(m + k - 1)
        PROVE  a[i] # "NL"
    BY <2>2, <2>3
  <2>4. ASSUME \A i \in (m + f)..(m + k - 1) : a[i] # "NL", NEW i \in f..(k - 1)
        PROVE  s[i] # "NL"
    BY <2>1, <2>4
  <2> QED
    BY <2>3, <2>4
<1>8. f \in 1..k <=> m + f \in 1..(m + k)
  BY <1>4
<1>9. Line(s, f, k) <=> Line(a, m + f, m + k)
  BY <1>4, <1>5, <1>6, <1>7, <1>8 DEF Line
<1>10. ASSUME Line(s, f, k)
       PROVE  SubSeq(a, m + f, m + k) = SubSeq(s, f, k)
  <2>1. f <= k
    BY <1>10 DEF Line
  <2>2. ASSUME NEW i \in 0..(k - f) PROVE a[m + f + i] = s[f + i]
    <3>1. f + i \in 1..(j - 1) /\ m + (f + i) = m + f + i
      BY <1>1, <1>4, <2>1
    <3> QED
      BY <1>3, <3>1
  <2>3. PICK g \in Int, l \in Int : g = m + f /\ l = m + k
    BY <1>4
  <2>4. f \in 1..(Len(s) + 1) /\ k \in (f - 1)..Len(s) /\ g \in 1..(Len(a) + 1)
        /\ l \in (g - 1)..Len(a) /\ l - g = k - f
    BY <1>1, <1>2, <1>4, <2>1, <2>3 DEF IsLong
  <2>5. \A i \in 0..(k - f) : a[g + i] = s[f + i]
    BY <2>2, <2>3
  <2>6. SubSeq(a, g, l) = SubSeq(s, f, k)
    BY <1>2, <2>4, <2>5, SameCut
  <2> QED
    BY <2>3, <2>6
<1> QED
  BY <1>9, <1>10 DEF Same

\* and those that were behind it.
LEMMA LinesBehind ==
  ASSUME NEW s \in Seq(Token), NEW a, NEW e \in 1..Len(s), NEW j, NEW n,
         StatusLine(s, e, j, n), Turned(s, a, j, n),
         NEW f \in (n + 1)..e, NEW k \in 1..e
  PROVE  /\ Line(s, f, k) <=> Line(a, f, k)
         /\ Line(s, f, k) => Same(a, f, k, s, f, k)
<1>1. j \in 1..(e - 1) /\ n \in (j + 1)..e /\ s[n] = "NL" /\ Len(s) \in Nat
  BY DEF StatusLine
<1>2. a \in Seq(Token) /\ Len(a) = Len(s)
  BY DEF Turned
<1>3. a[n] = "NL" /\ \A i \in (n + 1)..Len(s) : a[i] = s[i]
  BY TurnedTokens
<1>4. \A i \in n..Len(s) : a[i] = "NL" <=> s[i] = "NL"
  <2> SUFFICES ASSUME NEW i \in n..Len(s) PROVE a[i] = "NL" <=> s[i] = "NL"
    OBVIOUS
  <2>1. CASE i = n
    BY <1>1, <1>3, <2>1
  <2>2. CASE i # n
    BY <1>1, <1>3, <2>2
  <2> QED
    BY <2>1, <2>2
<1>5. f - 1 \in n..Len(s) /\ f # 1
  BY <1>1
<1>6. f <= k => k \in n..Len(s) /\ \A i \in f..(k - 1) : i \in n..Len(s)
  BY <1>1
<1>7. CASE f <= k
  <2>1. Line(s, f, k) <=> Line(a, f, k)
    BY <1>4, <1>5, <1>6, <1>7 DEF Line
  <2>2. ASSUME NEW i \in 0..(k - f) PROVE a[f + i] = s[f + i]
    <3>1. f + i \in (n + 1)..Len(s)
      BY <1>1, <1>7
    <3> QED
      BY <1>3, <3>1
  <2>3. f \in 1..(Len(s) + 1) /\ k \in (f - 1)..Len(s) /\ f \in 1..(Len(a) + 1)
        /\ k \in (f - 1)..Len(a)
    BY <1>1, <1>2, <1>7
  <2>4. SubSeq(a, f, k) = SubSeq(s, f, k)
    BY <1>2, <2>2, <2>3, SameCut
  <2> QED
    BY <2>1, <2>4 DEF Same
<1>8. CASE ~ (f <= k)
  BY <1>1, <1>8 DEF Line
<1> QED
  BY <1>7, <1>8

LEMMA TurnedLines ==
  ASSUME NEW s \in Seq(Token), NEW a, NEW e \in 1..Len(s), NEW j, NEW n,
         StatusLine(s, e, j, n), Turned(s, a, j, n), NEW l
  PROVE  LineIn(a, e, l) <=> \/ l = <<"HTTP/1.1">> \o Tail(SubSeq(s, j, n))
                             \/ OtherLine(s, e, j, l)
<1> DEFINE new == <<"HTTP/1.1">> \o Tail(SubSeq(s, j, n))
<1>1. /\ j \in 1..(e - 1) /\ n \in (j + 1)..e /\ Len(s) \in Nat
  BY DEF StatusLine
<1>2. PICK m : IsLong(m, j, n)
  BY <1>1 DEF IsLong
<1>3. m \in 2..n /\ m + j - 1 = n
  BY <1>1, <1>2 DEF IsLong
<1>4. Line(a, 1, m) /\ SubSeq(a, 1, m) = new
  <2>1. Line(a, 1, m) /\ IsNew(a, m, s, j, n)
    BY <1>2, NewStatusLine
  <2> QED
    BY <2>1 DEF IsNew
<1> HIDE DEF new
<1>5. a[n] = "NL" /\ a[m] = "NL" /\ \A i \in 1..(m - 1) : a[i] # "NL"
  BY <1>4, TurnedTokens DEF Line
<1>6. a \in Seq(Token)
  BY DEF Turned
<1>7. ASSUME l = new PROVE LineIn(a, e, l)
  <2>1. 1 \in 1..e /\ m \in 1..e
    BY <1>1, <1>3
  <2> QED
    BY <1>4, <1>7, <2>1 DEF LineIn
<1>8. ASSUME OtherLine(s, e, j, l) PROVE LineIn(a, e, l)
  <2>1. PICK f \in 1..e, k \in 1..e : Line(s, f, k) /\ f # j /\ l = SubSeq(s, f, k)
    BY <1>8 DEF OtherLine
  <2>2. f <= k
    BY <2>1 DEF Line
  <2>3. CASE k < j
    <3>1. f \in 1..(j - 1) /\ k \in 1..(j - 1)
      BY <1>1, <2>2, <2>3
    <3>2. /\ Line(s, f, k) <=> Line(a, m + f, m + k)
          /\ Line(s, f, k) => Same(a, m + f, m + k, s, f, k)
      BY <1>2, <3>1, LinesBefore
    <3>3. m + f \in 1..e /\ m + k \in 1..e
      BY <1>1, <1>3, <3>1
    <3> QED
      BY <2>1, <3>2, <3>3 DEF LineIn, Same
  <2>4. CASE f > n
    <3>1. f \in (n + 1)..e
      BY <1>1, <2>4
    <3>2. Line(a, f, k) /\ SubSeq(a, f, k) = l
      BY <2>1, <3>1, LinesBehind DEF Same
    <3> QED
      BY <3>2 DEF LineIn
  <2> QED
    BY <2>1, <2>3, <2>4, OtherLineAt
<1>9. ASSUME LineIn(a, e, l), l # new PROVE OtherLine(s, e, j, l)
  <2>1. PICK f \in 1..e, k \in 1..e : Line(a, f, k) /\ l = SubSeq(a, f, k)
    BY <1>9 DEF LineIn
  <2>2. f <= k /\ a[k] = "NL" /\ \A i \in f..(k - 1) : a[i] # "NL"
    BY <2>1 DEF Line
  <2>3. k # m
    <3>1. k = m => f = 1
      BY <1>3, <1>4, <1>6, <2>1, OneBeginning
    <3> QED
      BY <1>4, <1>9, <2>1, <3>1
  <2>4. k > m /\ f > m
    BY <1>3, <1>5, <2>2, <2>3
  <2>5. CASE k <= n
    <3>1. PICK g \in Int, o \in Int : g = f - m /\ o = k - m
      BY <1>3
    <3>2. g \in 1..(j - 1) /\ o \in 1..(j - 1) /\ m + g = f /\ m + o = k
      BY <1>1, <1>3, <2>2, <2>4, <2>5, <3>1
    <3>3. Line(s, g, o) /\ l = SubSeq(s, g, o)
      <4>1. /\ Line(s, g, o) <=> Line(a, m + g, m + o)
            /\ Line(s, g, o) => Same(a, m + g, m + o, s, g, o)
        BY <1>2, <3>2, LinesBefore
      <4> QED
        BY <2>1, <3>2, <4>1 DEF Same
    <3>4. g \in 1..e /\ o \in 1..e /\ g # j
      BY <1>1, <3>2
    <3> QED
      BY <3>3, <3>4 DEF OtherLine
  <2>6. CASE k > n
    <3>1. f \in (n + 1)..e
      BY <1>1, <1>5, <2>2, <2>6
    <3>2. Line(s, f, k) /\ l = SubSeq(s, f, k)
      BY <2>1, <3>1, LinesBehind DEF Same
    <3> QED
      BY <1>1, <3>1, <3>2 DEF OtherLine
  <2> QED
    BY <1>1, <2>5, <2>6
<1> QED
  BY <1>7, <1>8, <1>9 DEF new

-----------------------------------------------------------------------------
(* What Response returns is the response.                                  *)

LEMMA FirstOfLine ==
  ASSUME NEW s \in Seq(Token), NEW e \in 1..Len(s), NEW f \in 1..e, NEW k \in 1..e, Line(s, f, k)
  PROVE  SubSeq(s, f, k)[1] = s[f]
<1>1. f <= k
  BY DEF Line
<1>2. \A i \in 1..(k - f + 1) : SubSeq(s, f, k)[i] = s[f + i - 1]
  BY Cut
<1>3. 1 \in 1..(k - f + 1) /\ f + 1 - 1 = f
  BY <1>1
<1> QED
  BY <1>2, <1>3

LEMMA PlainTranslates ==
  ASSUME NEW s \in Seq(Token), NEW e, IsHeadEnd(s, e), HeadEnd(s) = e, s[1] # "NL",
         NoStatus(s, e)
  PROVE  Translates(s, Plain \o s)
<1> DEFINE a == Plain \o s
           lines == LinesOf(SubSeq(s, 1, e))
           status == {l \in lines : l[1] = "Status:"}
<1>1. InFront(a, s)
  BY PlainIsInFront
<1> HIDE DEF a
<1>2. a \in Seq(Token) /\ Len(a) = Len(s) + 3 /\ \A i \in 1..Len(s) : a[3 + i] = s[i]
  BY <1>1 DEF InFront
<1>3. e \in 1..(Len(s) - 1) /\ s[e] = "NL" /\ Len(s) \in Nat /\ e \in 1..Len(s)
  BY DEF IsHeadEnd
<1>4. HeadEnd(a) = e + 3
  BY <1>1, <1>2, PlainHead, HeadEndAt
<1>5. \A l : l \in lines <=> LineIn(s, e, l)
  BY <1>3, LinesInFront
<1>6. \A l : l \in LinesOf(SubSeq(a, 1, e + 3)) <=> LineIn(a, e + 3, l)
  <2>1. e + 3 \in 0..Len(a)
    BY <1>2, <1>3
  <2> QED
    BY <1>2, <2>1, LinesInFront
<1>7. \A l : LineIn(a, e + 3, l) <=> l = Plain \/ LineIn(s, e, l)
  BY <1>1, <1>3, PlainLines
<1>8. status = {}
  <2> SUFFICES ASSUME NEW l \in lines, l[1] = "Status:" PROVE FALSE
    OBVIOUS
  <2>1. PICK f \in 1..e, k \in 1..e : Line(s, f, k) /\ l = SubSeq(s, f, k)
    BY <1>5 DEF LineIn
  <2>2. s[f] = "Status:"
    BY <1>3, <2>1, FirstOfLine
  <2>3. f # e
    BY <1>3, <2>2
  <2> QED
    BY <1>3, <2>2, <2>3 DEF NoStatus
<1>9. LinesOf(SubSeq(a, 1, e + 3)) = lines \cup {Plain}
  BY <1>5, <1>6, <1>7
<1>10. SubSeq(a, e + 3 + 2, Len(a)) = SubSeq(s, e + 2, Len(s))
  <2>1. PICK g \in Int : g = e + 3 + 2
    BY <1>3
  <2>2. e + 2 \in 1..(Len(s) + 1) /\ Len(s) \in (e + 2 - 1)..Len(s) /\ g \in 1..(Len(a) + 1)
        /\ Len(a) \in (g - 1)..Len(a) /\ Len(a) - g = Len(s) - (e + 2)
    BY <1>2, <1>3, <2>1
  <2>3. ASSUME NEW i \in 0..(Len(s) - (e + 2)) PROVE a[g + i] = s[e + 2 + i]
    <3>1. e + 2 + i \in 1..Len(s) /\ 3 + (e + 2 + i) = g + i
      BY <1>3, <2>1
    <3> QED
      BY <1>2, <3>1
  <2>4. SubSeq(a, g, Len(a)) = SubSeq(s, e + 2, Len(s))
    BY SMTT(30), <1>2, <2>2, <2>3, SameCut
  <2> QED
    BY <2>1, <2>4
<1> HIDE DEF lines, status
<1>11. /\ HeadEnd(a) # 0 /\ Len(a) = Len(s) + (IF status = {} THEN 3 ELSE 0)
       /\ SubSeq(a, HeadEnd(a) + 2, Len(a)) = SubSeq(s, HeadEnd(s) + 2, Len(s))
       /\ LinesOf(SubSeq(a, 1, HeadEnd(a)))
            = (lines \ status)
              \cup {IF status = {} THEN <<"HTTP/1.1", "200", "NL">>
                    ELSE <<"HTTP/1.1">> \o Tail(CHOOSE l \in status : TRUE)}
  BY <1>2, <1>3, <1>4, <1>8, <1>9, <1>10 DEF Plain
<1> QED
  BY <1>11 DEF Translates, a, lines, status

LEMMA TurnedTranslates ==
  ASSUME NEW s \in Seq(Token), NEW e, IsHeadEnd(s, e), HeadEnd(s) = e, s[1] # "NL",
         NEW a, Answered(s, e, a)
  PROVE  Translates(s, a)
<1> DEFINE lines == LinesOf(SubSeq(s, 1, e))
           status == {l \in lines : l[1] = "Status:"}
<1>1. PICK j, n : StatusLine(s, e, j, n) /\ Turned(s, a, j, n)
  BY DEF Answered
<1>2. a \in Seq(Token) /\ Len(a) = Len(s) /\ \A i \in (n + 1)..Len(s) : a[i] = s[i]
  BY <1>1 DEF Turned
<1>3. e \in 1..(Len(s) - 1) /\ s[e] = "NL" /\ Len(s) \in Nat /\ e \in 1..Len(s)
  BY DEF IsHeadEnd
<1>4. HeadEnd(a) = e
  BY <1>1, <1>2, TurnedHead, HeadEndAt
<1>5. \A l : l \in lines <=> LineIn(s, e, l)
  BY <1>3, LinesInFront
<1>6. \A l : l \in LinesOf(SubSeq(a, 1, e)) <=> LineIn(a, e, l)
  <2>1. e \in 0..Len(a)
    BY <1>2, <1>3
  <2> QED
    BY <1>2, <2>1, LinesInFront
<1> DEFINE old == SubSeq(s, j, n)
           new == <<"HTTP/1.1">> \o Tail(old)
<1>7. \A l : LineIn(a, e, l) <=> l = new \/ OtherLine(s, e, j, l)
  BY <1>1, <1>3, TurnedLines
<1>8. /\ j \in 1..(e - 1) /\ n \in (j + 1)..e /\ s[j] = "Status:"
      /\ \A i \in 1..(e - 1) : s[i] = "Status:" => i = j
  BY <1>1 DEF StatusLine
<1>9. Line(s, j, n) /\ j \in 1..e /\ n \in 1..e
  BY <1>1, <1>3, StatusIsLine
<1>10. old \in lines /\ old[1] = "Status:"
  BY <1>3, <1>5, <1>8, <1>9, FirstOfLine DEF LineIn
<1>11. ASSUME NEW f \in 1..e, NEW k \in 1..e, Line(s, f, k)
       PROVE  SubSeq(s, f, k)[1] = "Status:" <=> f = j
  <2>1. SubSeq(s, f, k)[1] = s[f]
    BY <1>3, <1>11, FirstOfLine
  <2>2. s[f] = "Status:" => f \in 1..(e - 1)
    BY <1>3
  <2> QED
    BY <1>8, <2>1, <2>2
<1> HIDE DEF lines, new
<1>12. ASSUME NEW l \in lines, l[1] = "Status:" PROVE l = old
  <2>1. PICK f \in 1..e, k \in 1..e : Line(s, f, k) /\ l = SubSeq(s, f, k)
    BY <1>5, <1>12 DEF LineIn
  <2>2. f = j
    BY <1>11, <1>12, <2>1
  <2>3. k = n
    <3>1. \/ f = j /\ k = n
          \/ f # j /\ k < j
          \/ f > n
      BY <1>1, <1>3, <2>1, OtherLineAt
    <3> QED
      BY <1>8, <2>2, <3>1
  <2> QED
    BY <2>1, <2>2, <2>3
<1>13. \A l : OtherLine(s, e, j, l) <=> LineIn(s, e, l) /\ l[1] # "Status:"
  <2>1. ASSUME NEW l, OtherLine(s, e, j, l) PROVE LineIn(s, e, l) /\ l[1] # "Status:"
    BY <1>11, <2>1 DEF OtherLine, LineIn
  <2>2. ASSUME NEW l, LineIn(s, e, l), l[1] # "Status:" PROVE OtherLine(s, e, j, l)
    BY ZenonT(30), <1>11, <2>2 DEF OtherLine, LineIn
  <2> QED
    BY <2>1, <2>2
<1>14. status = {old}
  BY <1>10, <1>12
<1>15. lines \ status = {l \in lines : l[1] # "Status:"}
  OBVIOUS
<1>16. LinesOf(SubSeq(a, 1, e)) = (lines \ status) \cup {new}
  BY <1>5, <1>6, <1>7, <1>13, <1>15
<1>17. SubSeq(a, e + 2, Len(a)) = SubSeq(s, e + 2, Len(s))
  <2>1. PICK g \in Int : g = e + 2
    BY <1>3
  <2>2. g \in 1..(Len(s) + 1) /\ Len(s) \in (g - 1)..Len(s) /\ g \in 1..(Len(a) + 1)
        /\ Len(s) \in (g - 1)..Len(a) /\ Len(s) - g = Len(s) - g
    BY <1>2, <1>3, <2>1
  <2>3. ASSUME NEW i \in 0..(Len(s) - g) PROVE a[g + i] = s[g + i]
    <3>1. g + i \in (n + 1)..Len(s)
      BY <1>3, <1>8, <2>1
    <3> QED
      BY <1>2, <3>1
  <2>4. SubSeq(a, g, Len(s)) = SubSeq(s, g, Len(s))
    BY <1>2, <2>2, <2>3, SameCut
  <2> QED
    BY <1>2, <2>1, <2>4
<1> HIDE DEF status, old
<1>18. (CHOOSE l \in status : TRUE) = old
  BY <1>14
<1>19. status # {}
  BY <1>14
<1>20. /\ HeadEnd(a) # 0 /\ Len(a) = Len(s) + (IF status = {} THEN 3 ELSE 0)
       /\ SubSeq(a, HeadEnd(a) + 2, Len(a)) = SubSeq(s, HeadEnd(s) + 2, Len(s))
       /\ LinesOf(SubSeq(a, 1, HeadEnd(a)))
            = (lines \ status)
              \cup {IF status = {} THEN <<"HTTP/1.1", "200", "NL">>
                    ELSE <<"HTTP/1.1">> \o Tail(CHOOSE l \in status : TRUE)}
  <2> DEFINE c == CHOOSE l \in status : TRUE
  <2>1. c = old
    BY <1>18
  <2> HIDE DEF c
  <2>2. /\ HeadEnd(a) # 0 /\ Len(a) = Len(s) + (IF status = {} THEN 3 ELSE 0)
    BY <1>2, <1>3, <1>4, <1>19
  <2>3. SubSeq(a, HeadEnd(a) + 2, Len(a)) = SubSeq(s, HeadEnd(s) + 2, Len(s))
    BY <1>4, <1>17
  <2>4. LinesOf(SubSeq(a, 1, HeadEnd(a)))
          = (lines \ status)
            \cup {IF status = {} THEN <<"HTTP/1.1", "200", "NL">> ELSE <<"HTTP/1.1">> \o Tail(c)}
    BY <1>4, <1>16, <1>19, <2>1 DEF new
  <2> QED
    BY <2>2, <2>3, <2>4 DEF c
<1> QED
  BY <1>20 DEF Translates, lines, status

LEMMA ResponseTranslates ==
  ASSUME NEW s \in Seq(Token), HeadEnd(s) # 0, StatusApart(s)
  PROVE  Translates(s, Response(s, HeadEnd(s)))
<1>1. IsHeadEnd(s, HeadEnd(s))
  BY HeadEndIs
<1>2. s[1] # "NL"
  BY DEF StatusApart
<1>3. \/ NoStatus(s, HeadEnd(s)) /\ Response(s, HeadEnd(s)) = Plain \o s
      \/ Answered(s, HeadEnd(s), Response(s, HeadEnd(s)))
  BY <1>1, ResponseTurns DEF Plain
<1> QED
  BY <1>1, <1>2, <1>3, PlainTranslates, TurnedTranslates

-----------------------------------------------------------------------------
(* The invariant.                                                          *)

\* What the script has written.
Written == SubSeq(output, 1, said)

HTypes ==
  /\ server \in Servers /\ output \in Outputs /\ said \in 0..Len(output)
  /\ pipe \in Seq(Token) /\ vec \in Seq(Token) /\ answer \in Seq(Token) /\ rc \in BOOLEAN

\* Before the script runs nothing has been said,
Quiet ==
  broker \in {"starting", "bound", "stopped", "accepting", "accepted"} =>
    said = 0 /\ pipe = <<>> /\ vec = <<>> /\ answer = <<>> /\ rc = FALSE

\* while it does somebody may be there who listens, and it ends at the end;
Listening ==
  /\ client \in {"none", "asking", "closed", "gone"}
  /\ broker \in {"accepted", "reading", "relaying"} => client \in {"asking", "gone"}
  /\ client = "closed" => BrokerGone
  /\ broker \in {"reading", "relaying"} =>
       /\ program \in {"running", "idle", "exited"}
       /\ program # "running" => said = Len(output)

\* the broker has what the pipe does not have any more,
Reading ==
  broker = "reading" => vec \o pipe = Written /\ answer = <<>> /\ rc = FALSE

\* then the client has the response to that, if it has stayed,
Relaying ==
  broker = "relaying" =>
    /\ rc = FALSE
    /\ client = "gone" \/ (HeadEnd(Written) # 0 /\ answer \o pipe = Response(Written, HeadEnd(Written)))

\* and at the end to all of it.
Returned ==
  /\ rc = TRUE =>
       /\ broker \in {"leaving", "reaping", "succeeded", "killed"}
       /\ client = "gone" \/ HeadEnd(output) = 0 \/ answer = Response(output, HeadEnd(output))
  /\ broker = "succeeded" => rc = TRUE
  /\ test = "done" => broker = "succeeded"

HInv == HTypes /\ Quiet /\ Listening /\ Reading /\ Relaying /\ Returned

LEMMA StringsAreTokens ==
  ASSUME NEW s \in Seq(STRING)
  PROVE  s \in Seq(Token) /\ Len(s) \in Nat
<1>1. STRING \subseteq Token
  BY DEF Token
<1> HIDE DEF Token
<1>2. s \in Seq(Token)
  BY <1>1, SeqMonotonic
<1> QED
  BY <1>2, LenProperties

LEMMA OutputTyped ==
  ASSUME HarnessAssumption, HTypes
  PROVE  /\ output \in Seq(Token) /\ Len(output) \in Nat
         /\ Written \in Seq(Token) /\ Len(Written) = said
         /\ said = Len(output) => Written = output
<1>1. output \in Seq(STRING)
  BY DEF HarnessAssumption, HTypes
<1>3. output \in Seq(Token) /\ Len(output) \in Nat
  BY <1>1, StringsAreTokens
<1>4. said \in 0..Len(output)
  BY DEF HTypes
<1>5. /\ Written \in Seq(Token)
      /\ Len(Written) = (IF 1 <= said THEN said - 1 + 1 ELSE 0)
  BY <1>3, <1>4, Cut DEF Written
<1>6. said = Len(output) => Written = output
  BY <1>3, SubSeqFull DEF Written
<1> QED
  BY <1>3, <1>4, <1>5, <1>6

LEMMA OneMore ==
  ASSUME NEW s \in Seq(Token), NEW n \in 0..(Len(s) - 1)
  PROVE  SubSeq(s, 1, n + 1) = Append(SubSeq(s, 1, n), s[n + 1])
<1> DEFINE a == SubSeq(s, 1, n)
           b == SubSeq(s, 1, n + 1)
           c == Append(a, s[n + 1])
<1>1. n \in Nat /\ n + 1 \in 1..Len(s) /\ Len(s) \in Nat
  OBVIOUS
<1>2. a \in Seq(Token) /\ Len(a) = n /\ \A i \in 1..n : a[i] = s[i]
  <2>1. /\ a \in Seq(Token) /\ Len(a) = (IF 1 <= n THEN n - 1 + 1 ELSE 0)
        /\ \A i \in 1..(n - 1 + 1) : a[i] = s[1 + i - 1]
    BY <1>1, Cut
  <2> QED
    BY <1>1, <2>1
<1>3. b \in Seq(Token) /\ Len(b) = n + 1 /\ \A i \in 1..(n + 1) : b[i] = s[i]
  <2>1. PICK m \in Int : m = n + 1
    BY <1>1
  <2>2. /\ SubSeq(s, 1, m) \in Seq(Token) /\ Len(SubSeq(s, 1, m)) = (IF 1 <= m THEN m - 1 + 1 ELSE 0)
        /\ \A i \in 1..(m - 1 + 1) : SubSeq(s, 1, m)[i] = s[1 + i - 1]
    BY <1>1, <2>1, Cut
  <2>3. b = SubSeq(s, 1, m)
    BY <2>1
  <2> HIDE DEF b
  <2> QED
    BY <1>1, <2>1, <2>2, <2>3
<1>4. s[n + 1] \in Token
  BY <1>1
<1> HIDE DEF a, b
<1>5. c \in Seq(Token) /\ Len(c) = n + 1 /\ \A i \in 1..(n + 1) : c[i] = IF i <= n THEN a[i] ELSE s[n + 1]
  BY <1>1, <1>2, <1>4, AppendProperties
<1> HIDE DEF c
<1>6. \A i \in 1..(n + 1) : b[i] = c[i]
  BY <1>1, <1>2, <1>3, <1>5
<1>7. b = c
  BY <1>3, <1>5, <1>6, SeqEqual
<1> QED
  BY <1>7 DEF a, b, c

LEMMA AppendIs ==
  ASSUME NEW s \in Seq(Token), NEW t \in Token
  PROVE  Append(s, t) = s \o <<t>> /\ <<t>> \in Seq(Token) /\ Append(s, t) \in Seq(Token)
BY AppendIsConcat, AppendProperties

LEMMA InitHInv ==
  ASSUME HarnessAssumption, HInit
  PROVE  HInv
<1>1. output \in Seq(STRING)
  BY DEF HarnessAssumption, HInit
<1>2. HTypes
  <2>1. Len(output) \in Nat
    BY <1>1, StringsAreTokens
  <2>2. <<>> \in Seq(Token)
    BY EmptySeq
  <2>3. server \in Servers /\ output \in Outputs /\ said = 0 /\ pipe = <<>> /\ vec = <<>>
        /\ answer = <<>>
    BY DEF HInit
  <2>4. rc \in BOOLEAN
    BY DEF HInit
  <2>5. said \in 0..Len(output)
    BY <2>1, <2>3
  <2> QED
    BY <2>2, <2>3, <2>4, <2>5 DEF HTypes
<1> QED
  BY <1>2 DEF HInit, HInv, Quiet, Listening, Reading, Relaying, Returned, BrokerGone

\* What most of the steps leave alone.
LEMMA DataKept ==
  ASSUME HTypes, UNCHANGED <<server, output>>, UNCHANGED Data, rc' \in BOOLEAN
  PROVE  /\ HTypes' /\ Written' = Written /\ output' = output
         /\ said' = said /\ pipe' = pipe /\ vec' = vec /\ answer' = answer
BY DEF HTypes, Data, Written

LEMMA TestHInv ==
  ASSUME HInv, Test
  PROVE  HInv'
<1>1. UNCHANGED <<server, output, program, rc>> /\ UNCHANGED Data
  BY DEF Test, TestWakes, ClientAsks, ClientCloses, TestReaps
<1>2. HTypes /\ rc' \in BOOLEAN
  BY <1>1 DEF HInv, HTypes
<1>3. /\ HTypes' /\ Written' = Written /\ output' = output
      /\ said' = said /\ pipe' = pipe /\ vec' = vec /\ answer' = answer
  BY <1>1, <1>2, DataKept
<1>4. rc' = rc /\ program' = program
  BY <1>1
<1>5. CASE TestWakes
  BY <1>3, <1>4, <1>5
  DEF HInv, TestWakes, Quiet, Listening, Reading, Relaying, Returned, BrokerGone
<1>6. CASE ClientAsks
  BY <1>3, <1>4, <1>6
  DEF HInv, ClientAsks, Quiet, Listening, Reading, Relaying, Returned, BrokerGone
<1>7. CASE ClientCloses
  BY <1>3, <1>4, <1>7
  DEF HInv, ClientCloses, ClientThere, Quiet, Listening, Reading, Relaying, Returned, BrokerGone
<1>8. CASE TestReaps
  BY <1>3, <1>4, <1>8
  DEF HInv, TestReaps, Quiet, Listening, Reading, Relaying, Returned, BrokerGone
<1> QED
  BY <1>5, <1>6, <1>7, <1>8 DEF Test

\* The script.
LEMMA ScriptSaysHInv ==
  ASSUME HarnessAssumption, HInv, ScriptSays
  PROVE  HInv'
<1> DEFINE t == output[said + 1]
<1>1. /\ said < Len(output) /\ said' = said + 1 /\ pipe' = Append(pipe, t)
      /\ program = "running" /\ Heard
      /\ UNCHANGED <<server, output, test, broker, client, program, vec, answer, rc>>
  BY DEF ScriptSays
<1>2. /\ output \in Seq(Token) /\ Len(output) \in Nat /\ said \in 0..Len(output)
      /\ Written \in Seq(Token) /\ Len(Written) = said
      /\ pipe \in Seq(Token) /\ vec \in Seq(Token) /\ answer \in Seq(Token)
  BY OutputTyped DEF HInv, HTypes
<1>3. t \in Token /\ said \in 0..(Len(output) - 1)
  BY <1>1, <1>2
<1>4. Written' = Append(Written, t)
  <2>1. SubSeq(output, 1, said + 1) = Append(SubSeq(output, 1, said), t)
    BY <1>2, <1>3, OneMore
  <2> QED
    BY <1>1, <2>1 DEF Written
<1> HIDE DEF t
<1>5. /\ Written' = Written \o <<t>> /\ pipe' = pipe \o <<t>> /\ <<t>> \in Seq(Token)
      /\ pipe' \in Seq(Token)
  BY <1>1, <1>2, <1>3, <1>4, AppendIs
<1>6. HTypes'
  BY <1>1, <1>2, <1>3, <1>5 DEF HInv, HTypes
<1>7. Quiet' /\ Listening' /\ Returned'
  BY <1>1 DEF HInv, Heard, Quiet, Listening, Returned, BrokerGone
<1>8. Reading'
  <2> SUFFICES ASSUME broker = "reading" PROVE (vec \o pipe')  = Written' /\ answer = <<>> /\ rc = FALSE
    BY <1>1 DEF Reading
  <2>1. vec \o pipe = Written /\ answer = <<>> /\ rc = FALSE
    BY DEF HInv, Reading
  <2>2. vec \o (pipe \o <<t>>) = (vec \o pipe) \o <<t>>
    BY SMTT(30), <1>2, <1>5, Regrouped
  <2> QED
    BY <1>5, <2>1, <2>2
<1>9. Relaying'
  <2> SUFFICES ASSUME broker = "relaying", client # "gone"
               PROVE  HeadEnd(Written') # 0 /\ answer \o pipe' = Response(Written', HeadEnd(Written'))
    BY <1>1 DEF HInv, Relaying
  <2>1. HeadEnd(Written) # 0 /\ answer \o pipe = Response(Written, HeadEnd(Written))
    BY DEF HInv, Relaying
  <2>2. HeadEnd(Written') = HeadEnd(Written)
    BY <1>2, <1>5, <2>1, HeadEndKept
  <2>3. HeadEnd(Written) \in 1..Len(Written)
    BY <1>2, <2>1, HeadEndIs DEF IsHeadEnd
  <2>4. Response(Written \o <<t>>, HeadEnd(Written)) = Response(Written, HeadEnd(Written)) \o <<t>>
    BY <1>2, <1>5, <2>3, ResponseOfMore
  <2>5. answer \o (pipe \o <<t>>) = (answer \o pipe) \o <<t>>
    BY SMTT(30), <1>2, <1>5, Regrouped
  <2> QED
    BY <1>5, <2>1, <2>2, <2>4, <2>5
<1> QED
  BY <1>6, <1>7, <1>8, <1>9 DEF HInv

LEMMA ScriptEndsHInv ==
  ASSUME HInv, ScriptEnds
  PROVE  HInv'
<1>1. /\ UNCHANGED <<server, output, test, broker, client, rc>> /\ UNCHANGED Data
      /\ program' \in {"idle", "exited"}
      /\ said = Len(output) \/ ~Heard \/ Closing
  BY DEF ScriptEnds
<1>2. HTypes /\ rc' \in BOOLEAN
  BY <1>1 DEF HInv, HTypes
<1>3. /\ HTypes' /\ Written' = Written /\ output' = output
      /\ said' = said /\ pipe' = pipe /\ vec' = vec /\ answer' = answer
  BY <1>1, <1>2, DataKept
<1>4. broker' = broker /\ rc' = rc /\ client' = client /\ test' = test
  BY <1>1
<1>5. broker \in {"reading", "relaying"} => said = Len(output)
  BY <1>1 DEF Heard, Closing
<1>6. Listening'
  BY <1>1, <1>3, <1>4, <1>5 DEF HInv, Listening, BrokerGone
<1>7. Quiet' /\ Reading' /\ Relaying' /\ Returned'
  BY <1>3, <1>4 DEF HInv, Quiet, Reading, Relaying, Returned
<1> QED
  BY <1>3, <1>6, <1>7 DEF HInv

LEMMA ScriptTerminatesHInv ==
  ASSUME HInv, ScriptTerminates
  PROVE  HInv'
<1>1. /\ UNCHANGED <<server, output, test, broker, client, rc>> /\ UNCHANGED Data
      /\ program = "terminated"
  BY DEF ScriptTerminates
<1>2. HTypes /\ rc' \in BOOLEAN
  BY <1>1 DEF HInv, HTypes
<1>3. /\ HTypes' /\ Written' = Written /\ output' = output
      /\ said' = said /\ pipe' = pipe /\ vec' = vec /\ answer' = answer
  BY <1>1, <1>2, DataKept
<1>4. broker' = broker /\ rc' = rc /\ client' = client /\ test' = test
  BY <1>1
<1>5. ~ (broker \in {"reading", "relaying"})
  BY <1>1 DEF HInv, Listening
<1>6. Listening'
  BY <1>3, <1>4, <1>5 DEF HInv, Listening, BrokerGone
<1>7. Quiet' /\ Reading' /\ Relaying' /\ Returned'
  BY <1>3, <1>4 DEF HInv, Quiet, Reading, Relaying, Returned
<1> QED
  BY <1>3, <1>6, <1>7 DEF HInv

\* The broker, where it does not read or write.
Still == StartControl \/ Prepare \/ Accept \/ Launch \/ Connect

LEMMA StillHInv ==
  ASSUME HInv, Still
  PROVE  HInv'
<1>1. UNCHANGED <<server, output, test, client, rc>> /\ UNCHANGED Data
  BY DEF Still, StartControl, Prepare, Accept, Launch, Connect
<1>2. HTypes /\ rc' \in BOOLEAN
  BY <1>1 DEF HInv, HTypes
<1>3. /\ HTypes' /\ Written' = Written /\ output' = output
      /\ said' = said /\ pipe' = pipe /\ vec' = vec /\ answer' = answer
  BY <1>1, <1>2, DataKept
<1>4. test' = test /\ client' = client /\ rc' = rc
  BY <1>1
<1>5. said = 0 /\ pipe = <<>> /\ vec = <<>> /\ answer = <<>> /\ rc = FALSE
      /\ broker \in {"starting", "bound", "stopped", "accepting", "accepted"}
  BY DEF HInv, Quiet, Still, StartControl, Prepare, Accept, Launch, Connect
<1>6. \/ broker' \in {"bound", "stopped", "failed", "leaving"}
      \/ broker' = "accepted" /\ client # "none"
      \/ broker' = "reading" /\ broker = "accepted" /\ program' = "running"
  BY DEF Still, StartControl, Prepare, Accept, Launch, Connect, GivesUp
<1>7. client # "closed"
  BY <1>5 DEF HInv, Listening, BrokerGone
<1>8. Quiet'
  BY <1>3, <1>4, <1>5 DEF Quiet
<1>9. Listening'
  BY <1>3, <1>4, <1>5, <1>6, <1>7 DEF HInv, Listening, BrokerGone
<1>10. Reading'
  <2> SUFFICES ASSUME broker' = "reading" PROVE vec \o pipe = Written /\ answer = <<>> /\ rc = FALSE
    BY <1>3, <1>4 DEF Reading
  <2>1. Written = <<>>
    BY <1>5 DEF Written
  <2>2. <<>> \o <<>> = <<>>
    OBVIOUS
  <2> QED
    BY <1>5, <2>1, <2>2
<1>11. Relaying'
  BY <1>6 DEF Relaying
<1>12. Returned'
  BY <1>4, <1>5, <1>6 DEF HInv, Returned
<1> QED
  BY <1>3, <1>8, <1>9, <1>10, <1>11, <1>12 DEF HInv

LEMMA ResponseTyped ==
  ASSUME NEW s \in Seq(Token), NEW e \in 1..Len(s)
  PROVE  Response(s, e) \in Seq(Token)
<1> DEFINE j == StatusAt(s, e)
           cp == RestAt(s, j, e)
<1>1. CASE j = 0
  <2>1. Response(s, e) = <<"HTTP/1.1", "200", "NL">> \o s
    BY <1>1, ResponseOf
  <2> QED
    BY <2>1, StatusWords, ConcatProperties
<1>2. CASE j # 0
  <2>1. j \in 1..(e - 1)
    BY <1>2, StatusIs DEF IsStatus
  <2>2. cp \in (j + 1)..e
    BY <2>1, RestIs
  <2> DEFINE h == <<"HTTP/1.1">>
             x == SubSeq(s, j + 1, cp - 1)
             y == SubSeq(s, 1, j - 1)
             z == SubSeq(s, cp, Len(s))
  <2>3. Response(s, e) = h \o x \o y \o z
    BY <1>2, ResponseOf
  <2> HIDE DEF j, cp
  <2>4. j + 1 \in 1..(Len(s) + 1) /\ cp - 1 \in 0..Len(s) /\ j - 1 \in 0..Len(s)
        /\ cp \in 1..(Len(s) + 1) /\ 1 \in 1..(Len(s) + 1) /\ Len(s) \in 0..Len(s)
    BY <2>1, <2>2
  <2>5. x \in Seq(Token) /\ y \in Seq(Token) /\ z \in Seq(Token) /\ h \in Seq(Token)
    BY <2>4, Cut, StatusWords
  <2> HIDE DEF x, y, z, h
  <2>6. h \o x \o y \in Seq(Token)
    BY <2>5, ConcatProperties
  <2> QED
    BY <2>3, <2>5, <2>6, ConcatProperties
<1> QED
  BY <1>1, <1>2

\* Where it reads.
LEMMA TakenRest ==
  ASSUME HInv, NEW n \in 1..Len(pipe)
  PROVE  /\ Taken(n) \in Seq(Token) /\ SubSeq(pipe, n + 1, Len(pipe)) \in Seq(Token)
         /\ pipe = Taken(n) \o SubSeq(pipe, n + 1, Len(pipe))
<1>1. pipe \in Seq(Token)
  BY DEF HInv, HTypes
<1>2. PICK m \in Int : m = n + 1
  OBVIOUS
<1>3. m \in 1..(Len(pipe) + 1) /\ Len(pipe) \in 0..Len(pipe) /\ Len(pipe) \in Nat
  BY <1>1, <1>2
<1>4. Taken(n) \in Seq(Token) /\ SubSeq(pipe, m, Len(pipe)) \in Seq(Token)
  BY <1>1, <1>3, Cut DEF Taken
<1>5. n \in 0..Len(pipe)
  BY <1>3
<1>6. SubSeq(pipe, 1, n) \o SubSeq(pipe, n + 1, Len(pipe)) = pipe
  <2>1. 1 \in 1..Len(pipe) + 1 /\ n \in 1 - 1..Len(pipe) /\ Len(pipe) \in n..Len(pipe)
    BY <1>3
  <2>2. SubSeq(pipe, 1, n) \o SubSeq(pipe, n + 1, Len(pipe)) = SubSeq(pipe, 1, Len(pipe))
    BY <1>1, <2>1, ConcatAdjacentSubSeq
  <2> QED
    BY <1>1, <2>2, SubSeqFull
<1> QED
  BY <1>2, <1>4, <1>6 DEF Taken

LEMMA ReadHeadHInv ==
  ASSUME HarnessAssumption, HInv, ReadHead
  PROVE  HInv'
<1>1. /\ UNCHANGED <<server, output, test, client, program, said, answer, rc>>
      /\ broker = "reading"
  BY DEF ReadHead
<1>2. /\ pipe \in Seq(Token) /\ vec \in Seq(Token)
      /\ vec \o pipe = Written /\ answer = <<>> /\ rc = FALSE
  BY <1>1 DEF HInv, HTypes, Reading
<1>3. CASE broker' = "leaving" /\ UNCHANGED <<vec, pipe>>
  <2>1. HTypes'
    BY <1>1, <1>3 DEF HInv, HTypes
  <2>2. Quiet' /\ Reading' /\ Relaying'
    BY <1>3 DEF Quiet, Reading, Relaying
  <2>3. Listening' /\ Returned'
    BY <1>1, <1>2, <1>3 DEF HInv, Listening, Returned, BrokerGone
  <2> QED
    BY <2>1, <2>2, <2>3 DEF HInv
<1>4. ASSUME NEW n \in 1..Len(pipe), vec' = vec \o Taken(n), Takes(n), UNCHANGED broker
      PROVE  HInv'
  <2>1. /\ Taken(n) \in Seq(Token) /\ pipe' \in Seq(Token) /\ pipe = Taken(n) \o pipe'
    BY <1>4, TakenRest DEF Takes
  <2>2. vec' \in Seq(Token) /\ vec' \o pipe' = vec \o (Taken(n) \o pipe')
    BY <1>2, <1>4, <2>1, Regrouped, ConcatProperties
  <2>3. vec' \o pipe' = Written
    BY <1>2, <2>1, <2>2
  <2>4. HTypes'
    BY <1>1, <2>1, <2>2 DEF HInv, HTypes
  <2>5. Reading'
    BY <1>1, <1>2, <2>3 DEF Reading, Written
  <2>6. Quiet' /\ Relaying' /\ Listening' /\ Returned'
    BY <1>1, <1>2, <1>4 DEF HInv, Quiet, Relaying, Listening, Returned, BrokerGone
  <2> QED
    BY <2>4, <2>5, <2>6 DEF HInv
<1> QED
  BY <1>3, <1>4 DEF ReadHead

\* What a client that has stayed gets, it gets.
LEMMA SendDoes ==
  ASSUME HInv, NEW tokens \in Seq(Token), NEW goto, Send(tokens, goto)
  PROVE  /\ answer' \in Seq(Token)
         /\ broker' \in {goto, "leaving", "killed"}
         /\ client = "asking" => broker' = goto /\ answer' = answer \o tokens
<1>1. answer \in Seq(Token)
  BY DEF HInv, HTypes
<1>2. CASE ClientThere
  BY <1>1, <1>2, ConcatProperties DEF Send
<1>3. CASE ~ClientThere
  BY <1>1, <1>3 DEF Send, ClientThere
<1> QED
  BY <1>2, <1>3

LEMMA AnswerHInv ==
  ASSUME HarnessAssumption, HInv, Answer
  PROVE  HInv'
<1> DEFINE r == Response(vec, HeadEnd(vec))
<1>1. /\ UNCHANGED <<server, output, test, client, program, said, pipe, vec, rc>>
      /\ broker = "reading" /\ HeadEnd(vec) # 0 /\ Send(r, "relaying")
  BY DEF Answer
<1>2. /\ pipe \in Seq(Token) /\ vec \in Seq(Token)
      /\ vec \o pipe = Written /\ answer = <<>> /\ rc = FALSE
      /\ client \in {"asking", "gone"}
  BY <1>1 DEF HInv, HTypes, Reading, Listening
<1>3. HeadEnd(Written) = HeadEnd(vec)
  BY <1>1, <1>2, HeadEndKept
<1>4. HeadEnd(vec) \in 1..Len(vec)
  BY <1>1, <1>2, HeadEndIs DEF IsHeadEnd
<1>5. Response(Written, HeadEnd(Written)) = r \o pipe
  BY <1>2, <1>3, <1>4, ResponseOfMore
<1>6. r \in Seq(Token)
  BY <1>2, <1>4, ResponseTyped
<1> HIDE DEF r
<1>7. /\ answer' \in Seq(Token)
      /\ broker' \in {"relaying", "leaving", "killed"}
      /\ client = "asking" => broker' = "relaying" /\ answer' = answer \o r
  BY <1>1, <1>6, SendDoes
<1>8. HTypes'
  BY <1>1, <1>7 DEF HInv, HTypes
<1>9. Relaying'
  <2>1. CASE client = "gone"
    BY <1>1, <1>2, <2>1 DEF Relaying
  <2>2. CASE client = "asking"
    <3>1. answer' = r
      BY <1>2, <1>6, <1>7, <2>2, ConcatEmptySeq
    <3>2. Written' = Written /\ pipe' = pipe /\ rc' = rc
      BY <1>1 DEF Written
    <3> QED
      BY <1>1, <1>2, <1>3, <1>5, <3>1, <3>2 DEF Relaying
  <2> QED
    BY <1>2, <2>1, <2>2
<1>10. Quiet' /\ Reading'
  BY <1>7 DEF Quiet, Reading
<1>11. Listening' /\ Returned'
  BY <1>1, <1>2, <1>7 DEF HInv, Listening, Returned, BrokerGone
<1> QED
  BY <1>8, <1>9, <1>10, <1>11 DEF HInv

LEMMA NoHeadHInv ==
  ASSUME HarnessAssumption, HInv, NoHead
  PROVE  HInv'
<1>1. /\ UNCHANGED <<server, output, test, client, program, said, pipe, vec>>
      /\ broker = "reading" /\ HeadEnd(vec) = 0 /\ pipe = <<>> /\ program # "running"
  BY DEF NoHead, EndOfOutput
<1>2. /\ vec \in Seq(Token) /\ vec \o pipe = Written
      /\ client \in {"asking", "gone"} /\ said = Len(output)
  BY <1>1 DEF HInv, HTypes, Reading, Listening
<1>3. HeadEnd(output) = 0
  <2>1. Written = output
    BY <1>2, OutputTyped DEF HInv
  <2>2. vec \o <<>> = vec
    BY <1>2, ConcatEmptySeq
  <2> QED
    BY <1>1, <1>2, <2>1, <2>2
<1>4. /\ answer' \in Seq(Token)
      /\ broker' \in {"leaving", "killed"} /\ rc' \in BOOLEAN
  <2>1. CASE server = "cgi"
    <3>1. Send(vec, "leaving") /\ rc' \in {ClientThere, TRUE}
      BY <2>1 DEF NoHead
    <3> QED
      BY <1>2, <3>1, SendDoes DEF ClientThere
  <2>2. CASE server # "cgi"
    BY <2>2 DEF NoHead, HInv, HTypes
  <2> QED
    BY <2>1, <2>2
<1>5. HTypes'
  BY <1>1, <1>4 DEF HInv, HTypes
<1>6. Quiet' /\ Reading' /\ Relaying'
  BY <1>4 DEF Quiet, Reading, Relaying
<1>7. Listening'
  BY <1>1, <1>2, <1>4 DEF HInv, Listening, BrokerGone
<1>8. Returned'
  BY <1>1, <1>3, <1>4 DEF HInv, Returned
<1> QED
  BY <1>5, <1>6, <1>7, <1>8 DEF HInv

LEMMA RelayHInv ==
  ASSUME HarnessAssumption, HInv, Relay
  PROVE  HInv'
<1>1. /\ UNCHANGED <<server, output, test, client, program, said, vec, rc>>
      /\ broker = "relaying"
  BY DEF Relay
<1>2. PICK n \in 1..Len(pipe) : Send(Taken(n), "relaying") /\ Takes(n)
  BY DEF Relay
<1>3. /\ Taken(n) \in Seq(Token) /\ pipe' \in Seq(Token) /\ pipe = Taken(n) \o pipe'
  BY <1>2, TakenRest DEF Takes
<1>4. /\ answer' \in Seq(Token)
      /\ broker' \in {"relaying", "leaving", "killed"}
      /\ client = "asking" => broker' = "relaying" /\ answer' = answer \o Taken(n)
  BY <1>2, <1>3, SendDoes
<1>5. answer \in Seq(Token) /\ rc = FALSE /\ client \in {"asking", "gone"}
  BY <1>1 DEF HInv, HTypes, Relaying, Listening
<1>6. HTypes'
  BY <1>1, <1>3, <1>4 DEF HInv, HTypes
<1>7. Relaying'
  <2>1. CASE client = "gone"
    BY <1>1, <1>5, <2>1 DEF Relaying
  <2>2. CASE client = "asking"
    <3>1. HeadEnd(Written) # 0 /\ answer \o pipe = Response(Written, HeadEnd(Written))
      BY <1>1, <2>2 DEF HInv, Relaying
    <3>2. (answer \o Taken(n)) \o pipe' = answer \o (Taken(n) \o pipe')
      BY <1>3, <1>5, Regrouped
    <3>3. Written' = Written /\ rc' = rc
      BY <1>1 DEF Written
    <3> QED
      BY <1>3, <1>4, <1>5, <2>2, <3>1, <3>2, <3>3 DEF Relaying
  <2> QED
    BY <1>5, <2>1, <2>2
<1>8. Quiet' /\ Reading'
  BY <1>4 DEF Quiet, Reading
<1>9. Listening' /\ Returned'
  BY <1>1, <1>4, <1>5 DEF HInv, Listening, Returned, BrokerGone
<1> QED
  BY <1>6, <1>7, <1>8, <1>9 DEF HInv

LEMMA RelayEndHInv ==
  ASSUME HarnessAssumption, HInv, RelayEnd
  PROVE  HInv'
<1>1. /\ UNCHANGED <<server, output, test, client, program>> /\ UNCHANGED Data
      /\ broker = "relaying" /\ pipe = <<>> /\ program # "running"
      /\ broker' = "leaving" /\ rc' = TRUE
  BY DEF RelayEnd, EndOfOutput
<1>2. HTypes /\ rc' \in BOOLEAN
  BY <1>1 DEF HInv
<1>3. /\ HTypes' /\ Written' = Written /\ output' = output
      /\ said' = said /\ pipe' = pipe /\ vec' = vec /\ answer' = answer
  BY <1>1, <1>2, DataKept
<1>4. said = Len(output) /\ answer \in Seq(Token) /\ client \in {"asking", "gone"}
  BY <1>1 DEF HInv, HTypes, Listening
<1>5. Written = output
  BY <1>2, <1>4, OutputTyped
<1>6. answer \o pipe = answer
  BY <1>1, <1>4, ConcatEmptySeq
<1>7. client = "gone" \/ answer = Response(output, HeadEnd(output))
  BY <1>1, <1>5, <1>6 DEF HInv, Relaying
<1>8. Quiet' /\ Reading' /\ Relaying'
  BY <1>1 DEF Quiet, Reading, Relaying
<1>9. Listening'
  BY <1>1, <1>3, <1>4 DEF HInv, Listening, BrokerGone
<1>10. Returned'
  BY <1>1, <1>3, <1>7 DEF HInv, Returned
<1> QED
  BY <1>3, <1>8, <1>9, <1>10 DEF HInv

\* The end of it.
LEMMA EndHInv ==
  ASSUME HInv, GoOut \/ Reap
  PROVE  HInv'
<1>1. UNCHANGED <<server, output, test, client, rc>> /\ UNCHANGED Data
  BY DEF GoOut, Reap
<1>2. HTypes /\ rc' \in BOOLEAN
  BY <1>1 DEF HInv, HTypes
<1>3. /\ HTypes' /\ Written' = Written /\ output' = output
      /\ said' = said /\ pipe' = pipe /\ vec' = vec /\ answer' = answer
  BY <1>1, <1>2, DataKept
<1>4. test' = test /\ client' = client /\ rc' = rc
  BY <1>1
<1>5. broker \in {"leaving", "reaping"} /\ broker' \in {"reaping", "succeeded", "failed"}
      /\ (broker' = "reaping" => broker = "leaving")
      /\ (broker' = "succeeded" => rc = TRUE) /\ (broker' = "failed" => ~ rc)
  BY DEF GoOut, Reap
<1>6. Quiet' /\ Reading' /\ Relaying'
  BY <1>5 DEF Quiet, Reading, Relaying
<1>7. Listening' /\ Returned'
  BY <1>3, <1>4, <1>5 DEF HInv, Listening, Returned, BrokerGone
<1> QED
  BY <1>3, <1>6, <1>7 DEF HInv

LEMMA NextHInv ==
  ASSUME HarnessAssumption, HInv, [HNext]_hvars
  PROVE  HInv'
<1>1. CASE Test
  BY <1>1, TestHInv
<1>2. CASE Script
  BY <1>2, ScriptSaysHInv, ScriptEndsHInv, ScriptTerminatesHInv DEF Script
<1>3. CASE Broker
  BY <1>3, StillHInv, ReadHeadHInv, AnswerHInv, NoHeadHInv, RelayHInv, RelayEndHInv, EndHInv
  DEF Broker, Still
<1>4. CASE UNCHANGED hvars
  <2>1. /\ UNCHANGED <<server, output, test, broker, client, program, rc>>
        /\ said' = said /\ pipe' = pipe /\ vec' = vec /\ answer' = answer
    BY <1>4 DEF hvars
  <2>2. HTypes'
    BY <2>1 DEF HInv, HTypes
  <2> QED
    BY <2>1, <2>2
    DEF HInv, Quiet, Listening, Reading, Relaying, Returned, BrokerGone, Written
<1> QED
  BY <1>1, <1>2, <1>3, <1>4 DEF HNext

\* The harness: whoever goes away and however the reads cut what the script
\* writes, the broker has what the script said and the pipe does not hold any more,
\* and one that succeeds has passed on the response to all of it
\* (kcgiregress.c:747-880, 1003-1086).
THEOREM HarnessInvariance ==
  ASSUME HarnessAssumption
  PROVE  HSpec => []HInv
<1>1. HInit => HInv
  BY InitHInv
<1>2. HInv /\ [HNext]_hvars => HInv'
  BY NextHInv
<1> QED
  BY <1>1, <1>2, PTL DEF HSpec

\* A test that succeeds has seen the script's response, every header line once and
\* the body byte for byte (kcgiregress.c:747-880, 1003-1086).
THEOREM ResponseKeptHolds ==
  ASSUME HarnessAssumption
  PROVE  HSpec => []ResponseKept
<1>1. ASSUME HInv
      PROVE  ResponseKept
  <2> SUFFICES ASSUME test = "done", client = "closed", HeadEnd(output) # 0, StatusApart(output)
               PROVE  Translates(output, answer)
    BY DEF ResponseKept
  <2>1. answer = Response(output, HeadEnd(output))
    BY <1>1 DEF HInv, Returned
  <2>2. output \in Seq(Token)
    BY <1>1, OutputTyped DEF HInv
  <2> QED
    BY <2>1, <2>2, ResponseTranslates
<1> QED
  BY <1>1, HarnessInvariance, PTL

=============================================================================

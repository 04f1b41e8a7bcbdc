---------------------------------- MODULE Valid ----------------------------------
(***************************************************************************)
(* The validators of src/kcgi.c, which the worker runs on the pairs of a   *)
(* request.  A pair is its bytes and, after a validation, its parsed       *)
(* value; bytes has valsz of them, and a NUL may be among them.  IntMax    *)
(* stands for INT64_MAX.                                                   *)
(***************************************************************************)
EXTENDS Datetime

CONSTANTS IntMax, EmailMax

CStrOf(val) == SubSeq(val, 1, Scan(val, 1, LAMBDA c : c = NUL) - 1)

\* trim: the string, and the bytes it leaves, in which white space at the end
\* has become NULs.
Trimmed(val, s, first, end) ==
  [word |-> Cut(s, first, end + 1),
   val |-> [i \in 1..Len(val) |-> IF i \in (end + 1)..Len(s) THEN NUL ELSE val[i]]]

TrimString(val, s) ==
  LET last == SelectLastInSeq(s, LAMBDA c : ~IsSpace(c))
  IN Trimmed(val, s, Scan(s, 1, LAMBDA c : ~IsSpace(c)), IF last = 0 THEN Len(s) ELSE last)

trim(val) == TrimString(val, CStrOf(val))

No(val) == [ok |-> FALSE, val |-> val, type |-> "none", parsed |-> <<>>]
Yes(val, type, parsed) == [ok |-> TRUE, val |-> val, type |-> type, parsed |-> parsed]

kvalid_string(val) ==
  IF CStrOf(val) # val THEN No(val) ELSE Yes(val, "string", val)

kvalid_stringne(val) ==
  IF CStrOf(val) # val \/ val = <<>> THEN No(val) ELSE Yes(val, "string", val)

\* valid_email also puts the address in lower case, in place.
Lower(s) == [i \in 1..Len(s) |-> ToLower(s[i])]

LowerIn(val, word, at) ==
  Yes([i \in 1..Len(val) |-> IF i \in (at + 1)..(at + Len(word)) THEN ToLower(val[i]) ELSE val[i]],
      "string", Lower(word))

valid_email(val, word) ==
  IF Len(word) < 3 \/ Len(word) > EmailMax \/ word[1] = At \/ Last(word) = At
     \/ ~Contains(word, At)
  THEN [No(val) EXCEPT !.type = "string"]
  ELSE LowerIn(val, word, Len(CStrOf(val)) - Len(word))

\* What a validator does with the trimmed bytes, unless they are no string.
NonEmpty(val, Then(_)) == IF kvalid_stringne(val).ok THEN Then(trim(val)) ELSE No(val)

kvalid_email(val) == NonEmpty(val, LAMBDA t : valid_email(t.val, t.word))

\* The type is set before the number is known to be one.
Integer(val, n) == [ok |-> n.ok, val |-> val, type |-> "integer", parsed |-> <<n.value>>]

kvalid_int(val) ==
  NonEmpty(val, LAMBDA t : Integer(t.val, strtonum(t.word, -IntMax - 1, IntMax)))

\* Unlike kvalid_int this does not look for a NUL in the value.
Unsigned(t) == Integer(t.val, strtonum(t.word, 0, IntMax))
kvalid_uint(val) == Unsigned(trim(val))

kvalid_bit(val) ==
  LET r == kvalid_uint(val) IN [r EXCEPT !.ok = @ /\ r.parsed[1] <= 64]

\* strtod(3) on the decimal notation: an optional sign, digits with at most one
\* point among them; the number in thousandths.
Thousandths(factor, whole, part) ==
  [ok |-> whole \o part # <<>> /\ AllDigits(whole \o part),
   value |-> factor * Decimal(whole \o SubSeq(part \o <<48, 48, 48>>, 1, 3))]

Unpointed(factor, s, point) == Thousandths(factor, SubSeq(s, 1, point - 1), From(s, point + 1))

strtod(s) ==
  LET body == IF s # <<>> /\ s[1] \in {Minus, Plus} THEN Tail(s) ELSE s
  IN Unpointed(IF s # <<>> /\ s[1] = Minus THEN -1 ELSE 1, body,
               Scan(body, 1, LAMBDA c : c = Dot))

Double(val, n) ==
  IF n.ok THEN Yes(val, "double", <<n.value>>) ELSE [No(val) EXCEPT !.type = "string"]

kvalid_double(val) == NonEmpty(val, LAMBDA t : Double(t.val, strtod(t.word)))

kvalid_udouble(val) ==
  LET r == kvalid_double(val) IN [r EXCEPT !.ok = @ /\ r.parsed[1] > 0]

\* The ten characters of YYYY-MM-DD.
Day(val, r) == IF r.ok THEN Yes(val, "integer", <<r.day>>) ELSE No(val)

kvalid_date(val) ==
  LET n(i, j) == Decimal(SubSeq(val, i, j))
  IN IF /\ Len(val) = 10
        /\ \A i \in {1, 2, 3, 4, 6, 7, 9, 10} : IsDigit(val[i])
        /\ val[5] = Minus /\ val[8] = Minus
     THEN Day(val, khttp_date2epoch(n(9, 10), n(6, 7), n(1, 4))) ELSE No(val)

=============================================================================

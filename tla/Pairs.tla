---------------------------------- MODULE Pairs ----------------------------------
(***************************************************************************)
(* One pair of a request: the worker runs the validator of its key and     *)
(* sends it (output in src/child.c) to the parent (input in src/parent.c), *)
(* where the application may run other validators.  Each trims the pair's  *)
(* own bytes, so that the next sees what it left.                          *)
(***************************************************************************)
EXTENDS Valid, Wire

CONSTANTS
  Values,          \* the bytes of pairs
  Mimes,           \* file name, type with its place, and encoding, or Nulls
  keysz, mimesz,   \* keys that have validators, known types
  MaxChecks        \* bound: validators that run, the worker's included

VARIABLES given,   \* what came with the request
          at,      \* "worker", "wire", "parent" or "refused"
          pair,    \* the pair in the worker, and then in the parent
          wire,    \* what is written and not read
          kind,    \* the validator that ran last
          checks   \* how many have run

vars == <<given, at, pair, wire, kind, checks>>

kpairtype == <<"integer", "string", "double", "none">>
kpairstate == <<"unchecked", "valid", "invalid">>
Number(enum, name) == Num((CHOOSE i \in DOMAIN enum : enum[i] = name) - 1)

Init ==
  /\ \E val \in Values, mime \in Mimes, keypos \in 0..keysz :
       given = [val |-> val, mime |-> mime, keypos |-> keypos]
  /\ at = "worker"
  /\ pair = No(given.val) @@ given.mime @@ [state |-> "unchecked", keypos |-> given.keypos]
  /\ wire = <<>>
  /\ kind = "none" /\ checks = 0

\* A validator sets the type if it comes so far.  The worker runs that of the
\* key, if it has one, and clears what a validator that fails has set.
Run(name, result) ==
  /\ \/ at = "worker" /\ checks = 0 /\ pair.keypos < keysz
     \/ at = "parent" /\ checks < MaxChecks
  /\ kind' = name
  /\ checks' = checks + 1
  /\ LET clear == at = "worker" /\ ~result.ok
     IN pair' = [pair EXCEPT !.ok = result.ok, !.val = result.val,
          !.type = IF clear THEN "none" ELSE IF result.type = "none" THEN @ ELSE result.type,
          !.parsed = IF clear THEN <<>> ELSE result.parsed,
          !.state = IF at = "parent" THEN @ ELSE IF result.ok THEN "valid" ELSE "invalid"]
  /\ UNCHANGED <<given, at, wire>>

Validate ==
  \/ Run("string", kvalid_string(pair.val))
  \/ Run("stringne", kvalid_stringne(pair.val))
  \/ Run("email", kvalid_email(pair.val))
  \/ Run("int", kvalid_int(pair.val))
  \/ Run("uint", kvalid_uint(pair.val))
  \/ Run("bit", kvalid_bit(pair.val))
  \/ Run("double", kvalid_double(pair.val))
  \/ Run("udouble", kvalid_udouble(pair.val))
  \/ Run("date", kvalid_date(pair.val))

\* The parsed string ends where the bytes do, at their first NUL: it begins so
\* many bytes after them, and that is sent as a difference.
Diff(p) == Len(p.parsed) - Len(CStrOf(p.val))
Parsed(p) ==
  IF p.state # "valid" \/ p.type = "none" THEN <<>>
  ELSE IF p.type = "string" THEN <<Num(Diff(p))>> ELSE <<Num(p.parsed[1])>>

\* The type of the input, fields or cookies, comes before every pair.
output ==
  /\ at = "worker" /\ (pair.keypos < keysz => checks = 1)
  /\ at' = "wire"
  /\ wire' = <<Num(0), Word(<<>>), Word(pair.val), Number(kpairstate, pair.state),
               Number(kpairtype, pair.type), Num(pair.keypos)>>
               \o Parsed(pair)
               \o <<Word(pair.file), Word(pair.ctype), Num(pair.ctypepos), Word(pair.xcode)>>
  /\ UNCHANGED <<given, pair, kind, checks>>

\* What is before the bytes of a value in memory.
Stray == <<-2>>

\* The parent's parsed string begins "diff" bytes after its copy of the value,
\* which is refused only if that is beyond its end.
ParsedAt(val, diff) == IF diff < 0 THEN Stray ELSE CStrOf(From(val, diff + 1))

Read(w) ==
  LET val == w[3].word
      state == kpairstate[w[4].number + 1]
      type == kpairtype[w[5].number + 1]
      has == state = "valid" /\ type # "none"
      rest == From(w, IF has THEN 8 ELSE 7)
  IN [ok |-> state = "valid", val |-> val, type |-> type, state |-> state,
      parsed |-> IF ~has THEN <<>>
                 ELSE IF type = "string" THEN ParsedAt(val, w[7].number) ELSE <<w[7].number>>,
      keypos |-> w[6].number,
      file |-> rest[1].word, ctype |-> rest[2].word,
      ctypepos |-> rest[3].number, xcode |-> rest[4].word]

Unreadable(w) ==
  \/ ~InStep(w, <<"number", "word", "word", "number", "number", "number">>)
  \/ w[4].number >= Len(kpairstate) \/ w[5].number >= Len(kpairtype)
Rejected(w, p) ==
  \/ p.keypos > keysz \/ p.ctypepos > mimesz
  \/ p.ok /\ p.type = "string" /\ w[7].number > Len(p.val)

Take(p) ==
  IF Rejected(wire, p) THEN at' = "refused" /\ UNCHANGED pair
                       ELSE at' = "parent" /\ pair' = p

input ==
  /\ at = "wire"
  /\ IF Unreadable(wire) THEN at' = "refused" /\ UNCHANGED pair ELSE Take(Read(wire))
  /\ wire' = <<>>
  /\ UNCHANGED <<given, kind, checks>>

Next == Validate \/ output \/ input
Spec == Init /\ [][Next]_vars

-----------------------------------------------------------------------------
IsText(s) == \A i \in 1..Len(s) : s[i] # NUL
\* The text without the white space around it, and in lower case.
Bare(s) ==
  LET inner == {i \in 1..Len(s) : ~IsSpace(s[i])}
  IN IF inner = {} THEN <<>>
     ELSE SubSeq(s, CHOOSE i \in inner : \A j \in inner : i <= j,
                    CHOOSE i \in inner : \A j \in inner : i >= j)
Meant == Bare(CStrOf(given.val))

\* YYYY-MM-DD, a day there is.
IsDate(m) ==
  /\ Len(m) = 10 /\ m[5] = Minus /\ m[8] = Minus
  /\ \A i \in 1..10 \ {5, 8} : IsDigit(m[i])
  /\ LET year == Decimal(SubSeq(m, 1, 4))
         month == Decimal(SubSeq(m, 6, 7))
         day == Decimal(SubSeq(m, 9, 10))
         leap == (year % 4 = 0 /\ year % 100 # 0) \/ year % 400 = 0
     IN month \in 1..12 /\ day \in 1..(IF month = 2 /\ leap THEN 29 ELSE DAYS_IN_MONTH[month])

\* The text m is one for the validator, as kvalid_string's manual describes it
\* (man/kvalid_string.3:74-134).
IntIn(m) == strtonum(m, -IntMax - 1, IntMax)
Takes(m) ==
  CASE kind = "email" ->
         /\ Len(m) \in 3..EmailMax
         /\ m[1] # At /\ Last(m) # At /\ Contains(m, At)
    [] kind = "int" -> IntIn(m).ok
    [] kind = "uint" -> IntIn(m).ok /\ IntIn(m).value >= 0
    [] kind = "bit" -> IntIn(m).ok /\ IntIn(m).value \in 0..64
    [] kind = "double" -> strtod(m).ok
    [] kind = "udouble" -> strtod(m).ok /\ strtod(m).value > 0
    [] kind = "date" -> IsDate(m)
    [] OTHER -> TRUE

\* The parsed value p is what it means.
Means(p, m) ==
  CASE kind \in {"string", "stringne"} -> Lower(Bare(p)) = Lower(m)
    [] kind = "email" -> p = Lower(m)
    [] kind \in {"double", "udouble"} -> p = <<strtod(m).value>>
    [] kind = "date" -> SubSeq(khttp_epoch2ustr([day |-> p[1], sec |-> 0], 64), 1, 10) = m
    [] OTHER -> p = <<IntIn(m).value>>

TypeOf(validator) ==
  CASE validator \in {"string", "stringne", "email"} -> "string"
    [] validator \in {"double", "udouble"} -> "double"
    [] OTHER -> "integer"

\* What an accepted pair was parsed to is what its bytes meant when they came,
\* whichever validators trimmed them before, and no number is accepted outside
\* the range of its kind (kcgi.c:1194-1385); whether in the worker or, after the
\* way through the socket, in the parent (child.c:282-309, parent.c:48-179).
\* An address is the exception: if the worker has trimmed white space before it, the
\* difference that crosses the socket is negative (child.c:299), and the parent's
\* string begins before the value, in spite of the assertions of child.c:297-298.
GoesAstray ==
  at = "parent" /\ kind = "email" /\ pair.keypos < keysz /\ checks = 1 /\ IsSpace(given.val[1])
ParsedIsMeant ==
  pair.ok =>
    IF GoesAstray THEN pair.parsed = Stray
    ELSE pair.type = TypeOf(kind) /\ Takes(Meant) /\ Means(pair.parsed, Meant)

\* By the manual a value is a string, not empty for kvalid_stringne, and "dates
\* before 1582 are not accepted" (man/kvalid_string.3:85).
Documented(v) ==
  /\ IsText(v) /\ Takes(Bare(v))
  /\ kind = "stringne" => v # <<>>
  /\ kind = "date" => v = Bare(v) /\ Decimal(SubSeq(v, 1, 4)) >= 1582

\* What the code accepts beyond it: dates of every year from 0 on, and a number
\* from 0 on, up to a NUL that is among the bytes, where the manual has kvalid_uint
\* "the same as kvalid_int except that validation fails if the number is
\* negative" (127-130), and kvalid_int fails for such bytes.
EarlyDate(v) == kind = "date" /\ IsDate(v) /\ Decimal(SubSeq(v, 1, 4)) < 1582
EndsAtNul(v) == kind \in {"uint", "bit"} /\ ~IsText(v) /\ Takes(Bare(CStrOf(v)))

\* A validator accepts what its manual says and nothing else, but for these two,
\* where manual and code disagree (kcgi.c:1242-1385): in particular no validator
\* refuses a value for the white space around it, or for where in the pair it is.
AcceptsAsDocumented ==
  checks = 1 => (pair.ok <=>
    Documented(given.val) \/ EarlyDate(given.val) \/ EndsAtNul(given.val))

\* The parent takes every pair, and knows of it what the worker knew; but what
\* is not there has become an empty word (child.c:282-309, parent.c:48-179), where
\* kcgi.h:378-381 has NULL for the file, its type and its encoding.
TakenAsSent ==
  /\ at # "refused"
  /\ at = "parent" =>
       /\ pair.keypos = given.keypos /\ pair.ctypepos = given.mime.ctypepos
       /\ \A f \in {"file", "ctype", "xcode"} :
            pair[f] = IF given.mime[f] = Null THEN <<>> ELSE given.mime[f]
       /\ given.keypos = keysz <=> pair.state = "unchecked"

=============================================================================

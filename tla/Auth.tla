---------------------------------- MODULE Auth ----------------------------------
(***************************************************************************)
(* HTTP authorisation: the parser of the Authorization header in the       *)
(* worker and its reader in the parent (src/httpauth.c), and the           *)
(* validation of basic and digest credentials (src/auth.c).                *)
(***************************************************************************)
EXTENDS Wire

CONSTANT MD5(_)    \* of a string, as the hexadecimal string

httpalgs == <<<<MD5Word>>, <<MD5Sess>>>>
httpqops == <<Null, <<AuthWord>>, <<AuthInt>>>>

KAUTH == [none |-> 0, basic |-> 1, digest |-> 2, bearer |-> 3, unknown |-> 4]

SkipSpace(s, i) == Scan(s, i, LAMBDA c : ~IsSpace(c))

-----------------------------------------------------------------------------
(* The worker *)

\* The token at i and the place of the next one; delim NUL is none.
kauth_nexttok(s, i, delim) ==
  LET start == SkipSpace(s, i)
      end == Scan(s, start, LAMBDA c : IsSpace(c) \/ (delim # NUL /\ c = delim))
      after == IF end <= Len(s) /\ delim # NUL /\ s[end] = delim THEN end + 1 ELSE end
  IN [tok |-> Cut(s, start, end), at |-> SkipSpace(s, after)]

\* A quote ends the value unless the character before it is a backslash.
ClosingQuote(s, i) ==
  SelectInSeq([k \in 1..Len(s) |-> k],
              LAMBDA k : k >= i /\ s[k] = QUOTE /\ s[k - 1] # Backslash)

\* The value at i, quoted or not, and the place after it and its comma; Null
\* at the end of the string.
kauth_nextvalue(s, i) ==
  LET quot == s[i] = QUOTE
      start == IF quot THEN i + 1 ELSE i
      close == ClosingQuote(s, start)
      end == IF ~quot THEN Scan(s, i, LAMBDA c : IsSpace(c) \/ c = Comma)
             ELSE IF close = 0 THEN Len(s) + 1 ELSE close
      next == SkipSpace(s, IF quot THEN end + 1 ELSE end)
      comma == IF next <= Len(s) /\ s[next] = Comma THEN next + 1 ELSE next
  IN IF i > Len(s) THEN [val |-> Null, at |-> i]
     ELSE [val |-> Cut(s, start, end), at |-> SkipSpace(s, comma)]

\* The index of the token, or the number of tokens.
kauth_nexttoken(val, vals) ==
  LET i == SelectInSeq(vals, LAMBDA v : v # Null /\ v = val)
  IN IF i = 0 THEN Len(vals) ELSE i - 1

\* strtoull(3) of eight characters, base 16; 0 for what is no number.
kauth_count(val) ==
  LET sign == SkipSpace(val, 1)
      digits == IF sign <= Len(val) /\ val[sign] = Plus THEN sign + 1 ELSE sign
      prefix == SubSeq(val, digits, digits + 1) \in {<<48, 120>>, <<48, 88>>}
      rest == From(val, IF prefix THEN digits + 2 ELSE digits)
  IN IF Len(val) # 8 \/ val = Null \/ \E i \in 1..Len(rest) : ~IsHex(rest[i]) THEN 0
     ELSE FoldLeft(LAMBDA n, c : 16 * n + HexValue(c), 0, rest)

NoDigest == [alg |-> 0, qop |-> 0, user |-> <<>>, uri |-> <<>>, realm |-> <<>>,
             nonce |-> <<>>, cnonce |-> <<>>, response |-> <<>>, count |-> 0,
             opaque |-> <<>>]

\* One "key=value": a value that is missing leaves the field as it is, a key
\* that comes again overwrites.
SetField(d, pair) ==
  LET val(old) == IF pair.val = Null THEN old ELSE pair.val
  IN CASE pair.key = <<Username>> -> [d EXCEPT !.user = val(@)]
       [] pair.key = <<Realm>> -> [d EXCEPT !.realm = val(@)]
       [] pair.key = <<NonceKey>> -> [d EXCEPT !.nonce = val(@)]
       [] pair.key = <<Cnonce>> -> [d EXCEPT !.cnonce = val(@)]
       [] pair.key = <<Response>> -> [d EXCEPT !.response = val(@)]
       [] pair.key = <<UriKey>> -> [d EXCEPT !.uri = val(@)]
       [] pair.key = <<Algorithm>> -> [d EXCEPT !.alg = kauth_nexttoken(pair.val, httpalgs)]
       [] pair.key = <<Qop>> -> [d EXCEPT !.qop = kauth_nexttoken(pair.val, httpqops)]
       [] pair.key = <<Nc>> -> [d EXCEPT !.count = kauth_count(pair.val)]
       [] pair.key = <<Opaque>> -> [d EXCEPT !.opaque = val(@)]
       [] OTHER -> d

DigestPairs(s, at) ==
  LET p[i \in 1..(Len(s) + 1)] ==
        LET key == kauth_nexttok(s, i, Equals)
            val == kauth_nextvalue(s, key.at)
        IN IF i > Len(s) THEN <<>>
           ELSE <<[key |-> key.tok, val |-> val.val]>> \o p[val.at]
  IN p[at]

\* A mutant: the count and the client's nonce are not asked for.
Complete_NoQop(d) == \A f \in {d.user, d.realm, d.nonce, d.response, d.uri} : f # <<>>

\* The fields that this digest cannot do without.
Complete(d) ==
  /\ \A f \in {d.user, d.realm, d.nonce, d.response, d.uri} : f # <<>>
  /\ d.alg = 1 => d.cnonce # <<>>
  /\ d.qop \in {1, 2} => d.count # 0 /\ d.cnonce # <<>>

\* khttpdigest_input: what is written, and whether the body is to be hashed.
DigestWire(d) ==
  IF ~Complete(d)
  THEN [wire |-> <<Num(KAUTH.digest), Num(0)>>, md5 |-> FALSE]
  ELSE [wire |-> <<Num(KAUTH.digest), Num(1), Num(d.alg), Num(d.qop), Word(d.user),
                   Word(d.uri), Word(d.realm), Word(d.nonce), Word(d.cnonce),
                   Word(d.response), Num(d.count), Word(d.opaque)>>,
        md5 |-> d.qop = 2]

khttpdigest_input(s, at) == DigestWire(FoldLeft(SetField, NoDigest, DigestPairs(s, at)))

khttpbasic_input(s, at, auth) ==
  LET text == From(s, SkipSpace(s, at))
  IN [wire |-> <<Num(auth)>> \o (IF text = <<>> THEN <<Num(0)>> ELSE <<Num(1), Word(text)>>),
      md5 |-> FALSE]

SchemeInput(s, scheme) ==
  CASE scheme.tok = <<Bearer>> -> khttpbasic_input(s, scheme.at, KAUTH.bearer)
    [] scheme.tok = <<Basic>> -> khttpbasic_input(s, scheme.at, KAUTH.basic)
    [] scheme.tok = <<Digest>> -> khttpdigest_input(s, scheme.at)
    [] OTHER -> [wire |-> <<Num(KAUTH.unknown)>>, md5 |-> FALSE]

kworker_auth_child(s) ==
  IF s \in {Null, <<>>} THEN [wire |-> <<Num(KAUTH.none)>>, md5 |-> FALSE]
  ELSE SchemeInput(s, kauth_nexttok(s, 1, NUL))

-----------------------------------------------------------------------------
(* The parent *)

NoAuth == [type |-> 0, authorised |-> 0, response |-> <<>>, digest |-> NoDigest]

DigestKinds == <<"number", "number", "word", "word", "word", "word", "word", "word",
                 "number", "word">>

DigestOf(w) ==
  [alg |-> w[1].number, qop |-> w[2].number, user |-> w[3].word, uri |-> w[4].word,
   realm |-> w[5].word, nonce |-> w[6].word, cnonce |-> w[7].word,
   response |-> w[8].word, count |-> w[9].number, opaque |-> w[10].word]

\* The type says what follows: nothing, or whether the client is authorised
\* and then its credentials.  "n" is how much has been read.
kworker_auth_parent(wire) ==
  LET type == wire[1].number
      hasFlag == type \in {KAUTH.basic, KAUTH.bearer, KAUTH.digest}
      authorised == IF hasFlag /\ InStep(wire, <<"number", "number">>) THEN wire[2].number ELSE 0
      rest == IF authorised = 0 THEN <<>>
              ELSE IF type = KAUTH.digest THEN DigestKinds ELSE <<"word">>
      kinds == <<"number">> \o (IF hasFlag THEN <<"number">> ELSE <<>>) \o rest
      auth == [NoAuth EXCEPT !.type = type, !.authorised = authorised]
  IN IF ~InStep(wire, <<"number">>) \/ ~InStep(wire, kinds)
     THEN [ok |-> FALSE, auth |-> NoAuth, n |-> 0]
     ELSE [ok |-> TRUE, n |-> Len(kinds),
           auth |-> IF authorised = 0 THEN auth
                    ELSE IF type = KAUTH.digest
                         THEN [auth EXCEPT !.digest = DigestOf(From(wire, 3))]
                         ELSE [auth EXCEPT !.response = wire[3].word]]

-----------------------------------------------------------------------------
(* Validation: 1 for valid, 0 for not valid, -1 for nothing to validate *)

Join(list) == FlattenSeq([i \in 1..(2 * Len(list) - 1) |->
                            IF i % 2 = 1 THEN list[(i + 1) \div 2] ELSE <<Colon>>])

\* base64buf: the characters that stand for six bits, and padding.
b64(n) == CASE n < 26 -> 65 + n
            [] n \in 26..51 -> 71 + n
            [] n \in 52..61 -> n - 4
            [] n = 62 -> Plus
            [] OTHER -> Slash

Group(s, i) ==
  LET byte(k) == IF k <= Len(s) THEN s[k] ELSE 0
      code == <<b64(byte(i) \div 4),
                b64((byte(i) % 4) * 16 + byte(i + 1) \div 16),
                b64((byte(i + 1) % 16) * 4 + byte(i + 2) \div 64),
                b64(byte(i + 2) % 64)>>
  IN [k \in 1..4 |-> IF k > 2 /\ i + k - 2 > Len(s) THEN Equals ELSE code[k]]

\* Asked for user, colon and password, which must be two characters at least: the
\* code computes len - 2.
base64buf(s) == FlattenSeq([g \in 1..((Len(s) + 2) \div 3) |-> Group(s, 3 * g - 2)])

khttpbasic_validate(req, user, pass) ==
  IF \/ req.rawauth.type \notin {KAUTH.basic, KAUTH.bearer}
     \/ req.method = Null \/ req.rawauth.authorised = 0
  THEN -1
  ELSE IF base64buf(Join(<<user, pass>>)) = req.rawauth.response THEN 1 ELSE 0

\* "%08x"
Hex8(n) ==
  LET d[k \in 0..8] == IF k = 0 THEN [rest |-> n, text |-> <<>>]
                       ELSE LET v == d[k - 1].rest % 16
                            IN [rest |-> d[k - 1].rest \div 16,
                                text |-> <<IF v < 10 THEN 48 + v ELSE 87 + v>> \o d[k - 1].text]
  IN d[8].text

khttpdigest_validatehash(req, skey4) ==
  LET auth == req.rawauth.digest
      skey1 == IF auth.alg = 1 THEN MD5(Join(<<skey4, auth.nonce, auth.cnonce>>)) ELSE skey4
      body == IF auth.qop = 2 THEN <<req.rawdigest>> ELSE <<>>
      skey2 == MD5(Join(<<req.method, auth.uri>> \o body))
      qop == IF auth.qop = 2 THEN <<AuthInt>> ELSE <<AuthWord>>
      skey3 == IF auth.qop \in {1, 2}
               THEN MD5(Join(<<skey1, auth.nonce, Hex8(auth.count), auth.cnonce, qop, skey2>>))
               ELSE MD5(Join(<<skey1, auth.nonce, skey2>>))
  IN IF \/ req.rawauth.type # KAUTH.digest
        \/ req.method = Null \/ req.rawauth.authorised = 0
        \/ (auth.qop = 2 /\ req.rawdigest = Null)
     THEN -1
     ELSE IF auth.response = skey3 THEN 1 ELSE 0

khttpdigest_validate(req, pass) ==
  LET auth == req.rawauth.digest
  IN IF \/ req.rawauth.type # KAUTH.digest
        \/ req.method = Null \/ req.rawauth.authorised = 0
     THEN -1
     ELSE khttpdigest_validatehash(req, MD5(Join(<<auth.user, auth.realm, pass>>)))

=============================================================================

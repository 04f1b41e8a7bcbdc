---------------------------------- MODULE Url ----------------------------------
(***************************************************************************)
(* URLs (src/kcgi.c): percent-encoding and its inverse, and the functions  *)
(* that put a URL together from its parts and a list of pairs.             *)
(***************************************************************************)
EXTENDS Wire

\* khttp_urlencode: NULL is the empty string.
Unreserved(c) == IsAlnum(c) \/ c \in {Minus, Underscore, Dot, 126}

EncodeChar(c) ==
  IF Unreserved(c) THEN <<c>>
  ELSE IF c = SP THEN <<Plus>>
  ELSE <<Percent, HexUpper(c \div 16), HexUpper(c % 16)>>

khttp_urlencode(s) ==
  IF s = Null THEN <<>> ELSE FlattenSeq([i \in 1..Len(s) |-> EncodeChar(s[i])])

\* What sscanf("%1hhx%1hhx") reads at s[i]: each conversion skips white space
\* first.  "at" is the place of the second digit, 0 if there are not two.
HexPair(s, i) ==
  LET j == Scan(s, i, LAMBDA c : ~IsSpace(c))
      k == Scan(s, j + 1, LAMBDA c : ~IsSpace(c))
  IN IF k <= Len(s) /\ IsHex(s[j]) /\ IsHex(s[k])
     THEN [at |-> k, value |-> 16 * HexValue(s[j]) + HexValue(s[k])]
     ELSE [at |-> 0, value |-> 0]

Malformed == <<-2>>     \* KCGI_FORM

\* khttp_urldecode_inplace: the result is never ahead of what is read, so it
\* is written over it.  "%00" is malformed.
DecodedEnd(i) == i + 3

khttp_urldecode(s) ==
  LET d[i \in 1..(Len(s) + 1)] ==
        IF i > Len(s) THEN <<>>
        ELSE IF s[i] # Percent
             THEN LET rest == d[i + 1]
                  IN IF rest = Malformed THEN rest
                     ELSE <<IF s[i] = Plus THEN SP ELSE s[i]>> \o rest
        ELSE LET pair == HexPair(s, i + 1)
             IN IF pair.value = 0 THEN Malformed
                ELSE LET rest == d[DecodedEnd(i)]
                     IN IF rest = Malformed THEN rest ELSE <<pair.value>> \o rest
  IN d[1]

\* strlcat: what does not fit into "size" bytes with the terminator is cut off.
strlcat(p, t, size) ==
  IF Len(p) + Len(t) < size THEN p \o t ELSE SubSeq(p \o t, 1, size - 1)

\* One more pair at the end of the URL, in a buffer enlarged for it.
AddPair(url, pair) ==
  LET key == khttp_urlencode(pair.key)
      val == khttp_urlencode(pair.val)
      total == url.total + Len(key) + Len(val) + 2
      sep == IF url.count > 0 THEN Amp ELSE Question
      s == strlcat(strlcat(strlcat(strlcat(url.s, <<sep>>, total), key, total),
                           <<Equals>>, total), val, total)
  IN [s |-> s, total |-> total, count |-> url.count + 1]

\* khttp_url_query_string and khttp_url_query_stringx: the numbers of the
\* latter print to characters that need no encoding.
QueryString(p, pairs) ==
  FoldLeft(AddPair, [s |-> p, total |-> Len(p) + 1, count |-> 0], pairs).s

\* khttp_vurlabs.  Port 0 is none.
khttp_urlabs(scheme, host, port, path, pairs) ==
  LET pathOrNot == IF path = Null THEN <<>> ELSE path
      slash == IF pathOrNot # <<>> /\ pathOrNot[1] # Slash THEN <<Slash>> ELSE <<>>
      base ==
        IF host = Null \/ host = <<>> THEN scheme \o <<Colon>> \o pathOrNot
        ELSE scheme \o <<Colon, Slash, Slash>> \o host
               \o (IF port = 0 THEN <<>> ELSE <<Colon>> \o Digits[port])
               \o slash \o pathOrNot
  IN QueryString(base, pairs)

\* khttp_vurlpart and khttp_vurlpartx: the suffix only with a page.
khttp_urlpart(path, mime, page, pairs) ==
  LET suffixed == mime \notin {Null, <<>>} /\ page \notin {Null, <<>>}
      base == (IF path = Null THEN <<>> ELSE path \o <<Slash>>)
                \o khttp_urlencode(page)
                \o (IF suffixed THEN <<Dot>> \o mime ELSE <<>>)
  IN QueryString(base, pairs)

=============================================================================

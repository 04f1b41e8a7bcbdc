------------------------------- MODULE HeadCases -------------------------------
(***************************************************************************)
(* What clients send as the head of a request, and what the application is *)
(* to be told of it: "told" is NotTold for heads that are to be refused.   *)
(* Not code of the library; the response of digest credentials is that of  *)
(* RFC 2617, 3.2.2.                                                        *)
(***************************************************************************)
EXTENDS Wire

X == 120
A == 97
CapA == 65
CapB == 66
CRLF == <<CR, LF>>
UpTo(S, n) == UNION {[1..k -> S] : k \in 0..n}

\* For the instance, a digest is a number, as one symbol.
Md5(s) == <<1000 + FoldLeft(LAMBDA h, c : (h * 257 + c) % 1000003, 7, s)>>

NotTold == [ok |-> FALSE]

\* Another server puts all parameters into one record and writes every length
\* in four bytes; a broken one loses bytes at the end of it.
FourBytes(n) == <<128, 0, 0, n>>
WebRecord(params) ==
  FlattenSeq([i \in 1..Len(params) |->
                FourBytes(Len(params[i].key)) \o FourBytes(Len(params[i].val))
                  \o params[i].key \o params[i].val])
WebRecords(params, lost) ==
  LET record == WebRecord(params) IN <<SubSeq(record, 1, Len(record) - lost)>>

\* A request: the words of the request line, the header lines, the body, the
\* headers as they are told, and the kind of parser for the body.  A broken server
\* loses the last byte of it, and then nothing of it is to be told.
RequestFor(method, path, query, lines, body, told, auth, kind) ==
  [head |-> <<method, SP>> \o path
              \o (IF query = Null THEN <<>> ELSE <<Question>> \o query)
              \o <<SP, 72>> \o CRLF
              \o FlattenSeq([i \in 1..Len(lines) |-> lines[i] \o CRLF]) \o CRLF,
   body |-> body, servers |-> {"cgi", "fcgi", "web", "broken"}, lost |-> 1, cut |-> NotTold,
   told |-> [ok |-> TRUE, method |-> <<method>>, path |-> path, query |-> query,
             headers |-> told, body |-> body, auth |-> auth, kind |-> kind]]

Request(method, path, query, lines, body, told, auth) ==
  RequestFor(method, path, query, lines, body, told, auth, "body")

Get(path, query) == Request(GET, path, query, <<>>, <<>>, <<>>, <<>>)

Paths == {<<Slash>> \o p : p \in UpTo({A, Dot, Slash}, 4)} \cup {<<>>, <<A>>, <<A, Dot>>}
PathClients == {Get(p, q) : p \in Paths, q \in {Null, <<>>, <<A, Equals, Question>>}}

\* Headers, some of them without a colon or with a name that is no variable's.
Named == [key : {<<CapA>>, <<CapB, A, Minus, CapA, A>>, <<HostName>>, <<Cookie>>},
          val : {<<>>, <<X, SP, Colon>>, <<Equals, 195>>}]
HeaderLine(h, sep) == h.key \o <<Colon>> \o sep \o h.val

HeaderClients ==
  {Request(OPTIONS, <<Slash>>, Null, [i \in 1..Len(l) |-> HeaderLine(l[i], sep)], <<>>, l, <<>>)
     : l \in UpTo(Named, 2), sep \in {<<>>, <<SP, TAB>>}}
  \cup {Request(GET, <<Slash>>, Null,
                <<HeaderLine(h, <<>>), noise, HeaderLine([h EXCEPT !.val = <<X>>], <<>>)>>,
                <<>>, <<h, [h EXCEPT !.val = <<X>>]>>, <<>>)
          : h \in Named, noise \in {<<X>>, <<X, SP, Colon, X>>, <<195, Colon>>}}

\* The parameters break off before the o-th byte, from 0, of the header n: what is
\* before it is to be told if nothing of the header came, or nothing but a part of
\* the length of its name; otherwise the record is out of order.
VarSize(h) == 8 + 1 + Len(h.key) + Len(h.val)
CutClients ==
  UNION {LET l == <<[key |-> <<CapA>>, val |-> <<X, X>>], last>>
             c == Request(GET, <<Slash>>, <<A>>,
                          [i \in 1..2 |-> HeaderLine(l[i], <<>>)], <<>>, l, <<>>)
         IN {[c EXCEPT !.servers = {"broken"},
                       !.lost = VarSize(l[n]) - o + (IF n = 1 THEN VarSize(last) ELSE 0),
                       !.cut = IF o < 4 THEN [c.told EXCEPT !.headers = SubSeq(l, 1, n - 1)]
                               ELSE NotTold]
               : n \in 1..2, o \in 0..(VarSize(last) - 1)}
           : last \in {[key |-> <<Cookie>>, val |-> <<X, X>>], [key |-> <<HostName>>, val |-> <<>>]}}

\* Bodies, with their length and type, and the parsers that GET and POST are
\* to have.
Types == {<<<<>>, "body", "body">>, <<<<Urlencoded>>, "urlenc", "urlenc">>,
          <<<<Urlencoded, Semicolon, X>>, "urlenc", "urlenc">>,
          <<<<MultipartFormData, Semicolon, X>>, "multi", "multi">>,
          <<<<Plain>>, "body", "text">>, <<<<Html>>, "body", "body">>,
          <<<<Urlencoded, X>>, "body", "body">>}
BodyClients ==
  {RequestFor(m, <<Slash>>, q,
              (IF t[1] = <<>> THEN <<>> ELSE <<<<ContentType, Colon, SP>> \o t[1]>>)
                 \o <<<<ContentLength, Colon>> \o Digits[Len(b)]>>,
              b, <<>>, <<>>, IF m = GET THEN t[2] ELSE t[3])
     : m \in {GET, POST}, q \in {Null, <<A>>}, t \in Types, b \in {<<>>, <<A>>, <<A, Equals, NUL>>}}

\* Heads that are no heads.
BrokenClients ==
  {[head |-> h, body |-> <<>>, servers |-> {"cgi"}, lost |-> 0, told |-> NotTold, cut |-> NotTold]
     : h \in {<<>>, <<LF>>, <<CR>>, <<X, LF>>, <<GET, SP, Slash>>, <<GET, SP, Slash, LF>> \o CRLF,
              <<X, SP, Slash>> \o CRLF \o CRLF, <<GET>> \o CRLF \o CRLF,
              <<GET, SP, Slash>> \o CRLF, <<POST, SP>> \o [i \in 1..140 |-> X] \o CRLF \o CRLF}}

\* A value that takes a length of four bytes.
LongClients(servers) ==
  {[Request(GET, <<Slash>>, Null, <<HeaderLine(h, <<>>)>>, <<>>, <<h>>, <<>>) EXCEPT !.servers = servers]
     : h \in {[key |-> <<CapA>>, val |-> [i \in 1..128 |-> X]]}}

-----------------------------------------------------------------------------
(* Credentials *)

Join2(a, b) == a \o <<Colon>> \o b

Credentials ==
  [alg : {0, 1}, qop : {0, 1, 2}, count : {1, 266}, opaque : {<<>>, <<X>>},
   nonce : {<<X, 49>>}, pass : {<<A>>, <<A, Comma, Colon>>}, user : {<<X>>, <<X, SP, Equals>>}]

Hex(n) == <<48, 48, 48, 48, 48>> \o (IF n = 1 THEN <<48, 48, 49>> ELSE <<49, 48, A>>)

RFC2617(c, method, uri, body) ==
  LET secret == Md5(Join2(Join2(c.user, <<Realm>>), c.pass))
      a1 == IF c.alg = 0 THEN secret ELSE Md5(Join2(Join2(secret, c.nonce), <<X>>))
      a2 == Md5(Join2(<<method>>, IF c.qop = 2 THEN Join2(uri, Md5(body)) ELSE uri))
      with == IF c.qop = 0 THEN c.nonce
              ELSE Join2(Join2(Join2(c.nonce, Hex(c.count)), <<X>>),
                         IF c.qop = 1 THEN <<AuthWord>> ELSE <<AuthInt>>)
  IN Md5(Join2(Join2(a1, with), a2))

Quoted(s) == <<QUOTE>> \o s \o <<QUOTE>>

\* The pairs of a digest, in an order of the client's choice.
DigestItems(c, method, uri, body) ==
  <<<<Username, Equals>> \o Quoted(c.user), <<Realm, Equals>> \o Quoted(<<Realm>>),
    <<NonceKey, Equals>> \o Quoted(c.nonce), <<UriKey, Equals>> \o Quoted(uri),
    <<Response, Equals>> \o Quoted(RFC2617(c, method, uri, body))>>
  \o (IF c.alg = 1 \/ c.qop # 0 THEN <<<<Cnonce, Equals>> \o Quoted(<<X>>)>> ELSE <<>>)
  \o (IF c.alg = 1 THEN <<<<Algorithm, Equals, MD5Sess>>>> ELSE <<>>)
  \o (CASE c.qop = 0 -> <<>>
        [] c.qop = 1 -> <<<<Nc, Equals>> \o Hex(c.count), <<Qop, Equals, AuthWord>>>>
        [] OTHER -> <<<<Qop, Equals>> \o Quoted(<<AuthInt>>), <<Nc, Equals>> \o Hex(c.count)>>)
  \o (IF c.opaque = <<>> THEN <<>> ELSE <<<<Opaque, Equals>> \o Quoted(c.opaque)>>)

Listed(items, sep) ==
  FlattenSeq([i \in 1..Len(items) |-> IF i = 1 THEN items[i] ELSE sep \o items[i]])

\* What is told of a digest: whether it is complete, its user, and the
\* password it was made with.
ToldDigest(complete, c) ==
  <<[type |-> 2, authorised |-> IF complete THEN 1 ELSE 0, user |-> c.user, pass |-> c.pass]>>

DigestClients ==
  {LET items == DigestItems(c, POST, <<Slash>>, <<A>>)
       order == IF reversed THEN Reverse(items) ELSE items
   IN Request(POST, <<Slash>>, Null,
              <<<<ContentLength, Colon, 49>>,
                <<Authorization, Colon, Digest, SP>> \o Listed(order, sep)>>,
              <<A>>, <<[key |-> <<Authorization>>, val |-> <<Digest, SP>> \o Listed(order, sep)]>>,
              ToldDigest(TRUE, c))
     : c \in Credentials, reversed \in BOOLEAN, sep \in {<<Comma>>, <<Comma, SP>>}}

\* One pair is missing.
PartialClients ==
  UNION {LET items == DigestItems(c, GET, <<Slash>>, <<>>)
         IN {LET text == <<Digest, SP>> \o Listed(RemoveAt(items, i), <<Comma>>)
             IN Request(GET, <<Slash>>, Null, <<<<Authorization, Colon>> \o text>>, <<>>,
                        <<[key |-> <<Authorization>>, val |-> text]>>,
                        ToldDigest(items[i][1] = Opaque, c))
               : i \in {j \in 1..Len(items) : items[j][1] \notin {Algorithm, Qop}}}
           : c \in {d \in Credentials : d.count = 1}}

\* Basic credentials: the user, the password, and their base64 text.
BasicTexts == {<<<<X>>, <<>>, <<101, 68, 111, Equals>>>>,
               <<<<X>>, <<A>>, <<101, 68, 112, 104>>>>,
               <<<<X>>, <<A, 98>>, <<101, 68, 112, 104, 89, 103, Equals, Equals>>>>,
               <<<<195, X>>, <<62, 127>>, <<119, 51, 103, 54, 80, 110, 56, Equals>>>>}

BasicClients ==
  {LET text == <<w, SP, SP>> \o t[3]
   IN Request(GET, <<Slash>>, Null, <<<<Authorization, Colon>> \o text>>, <<>>,
              <<[key |-> <<Authorization>>, val |-> text]>>,
              <<[type |-> IF w = Basic THEN 1 ELSE 3, authorised |-> 1, user |-> t[1],
                 pass |-> t[2]]>>)
     : w \in {Basic, Bearer}, t \in BasicTexts}
  \cup {Request(GET, <<Slash>>, Null, <<<<Authorization, Colon>> \o text>>, <<>>,
                <<[key |-> <<Authorization>>, val |-> text]>>,
                <<[type |-> CASE text = <<Basic>> -> 1 [] text = <<Bearer>> -> 3 [] OTHER -> 4,
                   authorised |-> 0, user |-> <<>>, pass |-> <<>>]>>)
           : text \in {<<Basic>>, <<Bearer>>, <<X>>, <<X, SP, X>>}}

HeadClients ==
  LongClients({"cgi", "web"}) \cup PathClients \cup HeaderClients \cup CutClients \cup BodyClients
    \cup BrokenClients \cup DigestClients \cup PartialClients \cup BasicClients

=============================================================================

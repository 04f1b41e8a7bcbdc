------------------------------- MODULE FormCases -------------------------------
(***************************************************************************)
(* What clients send to the form parsers: lists of pairs encoded by the    *)
(* rules of each type, multipart forms with one byte missing, and all      *)
(* short texts over the delimiters.  Not code of the library, except that  *)
(* queries are encoded by its own URL functions.                           *)
(***************************************************************************)
EXTENDS Url

CONSTANT MaxForm    \* the longest text of delimiters

X == 120
Boundary == 300
Inner == 301

CRLF == <<CR, LF>>

Got(key, val, file, ctype) == [key |-> key, val |-> val, file |-> file, ctype |-> ctype]
Call(kind, text, type, expected) ==
  [kind |-> kind, text |-> text, type |-> type, expected |-> <<expected>>]
Unknown(kind, text, type) ==
  [kind |-> kind, text |-> text, type |-> type, expected |-> <<>>]

UpTo(S, n) == UNION {[1..k -> S] : k \in 0..n}

\* Queries.
Pairs == [key : {<<X>>, <<SP, Amp>>, <<Percent>>},
          val : {Null, <<>>, <<Plus, Equals>>, <<195, SP>>}]

Query(url) == From(url, Scan(url, 1, LAMBDA c : c = Question) + 1)

QueryCalls ==
  UNION {{Call("urlenc", Query(url), Null,
               [i \in 1..Len(l) |-> Got(l[i].key, IF l[i].val = Null THEN <<>> ELSE l[i].val,
                                        Null, Null)])
            : url \in {khttp_urlabs(<<Scheme>>, <<Host>>, 80, <<X>>, l),
                       khttp_urlpart(<<Slash>>, <<Html>>, <<X, SP>>, l)}}
           : l \in UpTo(Pairs, 2)}

\* Cookies and text/plain bodies.
Plainly == [key : {<<X>>, <<SP>> \o <<X, Amp>>}, val : {<<>>, <<X, Equals, CR>>}]
Strip(key) == From(key, Skip(key, 1))
Written(l, sep) ==
  FlattenSeq([i \in 1..Len(l) |-> l[i].key \o <<Equals>> \o l[i].val
                                     \o (IF i < Len(l) THEN sep ELSE <<>>)])
PlainCalls ==
  {Call(k[1], Written(l, k[2]), Null,
        [i \in 1..Len(l) |-> Got(Strip(l[i].key), l[i].val, Null, Null)])
     : k \in {<<"cookie", <<Semicolon, SP>>>>, <<"text", CRLF>>}, l \in UpTo(Plainly, 2)}

BodyCalls ==
  {Call("body", t, type, <<Got(<<>>, t, Null, type)>>)
     : t \in {<<>>, <<NUL, X>>}, type \in {Null, <<Html>>, <<Base64>>}}

\* Parts of multipart forms: with the name alone, with all attributes, and
\* with several values under one name.
Contents == {<<>>, <<X>>, CRLF, CRLF \o <<Minus, Minus>>, <<NUL, SP>>}

Simple(val) ==
  [text |-> <<Disposition, Colon, SP, FormData, Semicolon, SP, NameWord, Equals, X>>
              \o CRLF \o CRLF \o val,
   got |-> <<Got(<<X>>, val, Null, <<Plain>>)>>]

Full(val) ==
  [text |-> <<ContentType, Colon, Html>> \o CRLF
              \o <<Disposition, Colon, SP, FormData, Semicolon, Filename, Equals, QUOTE, X,
                   Semicolon, QUOTE, Semicolon, NameWord, Equals, QUOTE, QUOTE>> \o CRLF
              \o <<TransferEncoding, Colon, Base64>> \o CRLF \o CRLF \o val,
   got |-> <<Got(<<>>, val, <<X, Semicolon>>, <<Html>>)>>]

Multipart(parts, boundary) ==
  FlattenSeq([i \in 1..Len(parts) |->
                <<Minus, Minus, boundary>> \o CRLF \o parts[i].text \o CRLF])
    \o <<Minus, Minus, boundary, Minus, Minus>>

Nested(vals) ==
  LET file(v) == <<Disposition, Colon, FormData>> \o CRLF \o CRLF \o v
  IN [text |-> <<Disposition, Colon, FormData, Semicolon, NameWord, Equals, X>> \o CRLF
                 \o <<ContentType, Colon, Mixed, Semicolon, BoundaryWord, Equals, Inner>>
                 \o CRLF \o CRLF
                 \o Multipart([i \in 1..Len(vals) |-> [text |-> file(vals[i])]], Inner),
      got |-> [i \in 1..Len(vals) |-> Got(<<X>>, vals[i], Null, <<Plain>>)]]

Parts == {Simple(v) : v \in Contents} \cup {Full(v) : v \in Contents}
           \cup {Nested(l) : l \in UpTo({<<X>>, CRLF}, 2)}

MultipartType == <<Semicolon, SP, BoundaryWord, Equals, QUOTE, Boundary, QUOTE>>

WholeForms ==
  {Call("multi", Multipart(l, Boundary) \o tail, MultipartType,
        FlattenSeq([i \in 1..Len(l) |-> l[i].got]))
     : l \in UpTo(Parts, 2), tail \in {<<>>, CRLF}}

BrokenForms ==
  UNION {{Unknown("multi", RemoveAt(t, i), MultipartType) : i \in 1..Len(t)}
           : t \in {Multipart(<<Simple(<<X>>), p>>, Boundary) : p \in Parts}
                     \cup {Multipart(<<Nested(<<<<X>>>>), Nested(<<<<X>>>>)>>, Boundary)}}

BrokenTypes ==
  {Unknown("multi", Multipart(<<Simple(<<X>>)>>, Boundary), RemoveAt(MultipartType, i))
     : i \in 1..Len(MultipartType)}

\* All texts over the characters that mean something.
ShortTexts ==
  {Unknown("urlenc", t, Null)
     : t \in UpTo({X, 49, SP, Percent, Semicolon, Amp, Equals}, MaxForm)}
  \cup {Unknown("cookie", t, Null) : t \in UpTo({X, SP, Semicolon, Equals}, MaxForm)}
  \cup {Unknown("text", t, Null) : t \in UpTo({X, SP, CR, LF, Equals}, MaxForm)}

FormCalls ==
  QueryCalls \cup PlainCalls \cup BodyCalls \cup WholeForms \cup BrokenForms
    \cup BrokenTypes \cup ShortTexts

FormTypes == <<<<Html>>, <<Plain>>>>

=============================================================================

--------------------------------- MODULE Forms ---------------------------------
(***************************************************************************)
(* The parsers of the untrusted worker (src/child.c) for queries and       *)
(* URL-encoded bodies, cookies, text/plain bodies, opaque bodies and       *)
(* multipart forms.  One step is one pass of a parser's loop.              *)
(*                                                                         *)
(* A parser cuts the text into pairs in place and sends each with output() *)
(* to the trusted process; "sent" has them with the piece of the text the  *)
(* value was.                                                              *)
(***************************************************************************)
EXTENDS Url

CONSTANTS
  Calls,    \* what is parsed: records [kind, text, type, expected]
  MimeTypes \* the content types the application knows: pp->mimes

VARIABLES
  call,     \* the call: never changes
  pos,      \* p, or *pos: where the parser reads next
  frames,   \* parse_multiform and the calls of it that are not finished
  sent,     \* what output() was given
  done      \* the parser returned

vars == <<call, pos, frames, sent, done>>

\* Up to the first NUL.
CStr(s) == Cut(s, 1, Scan(s, 1, LAMBDA c : c = NUL))

text == call.text
More == pos <= Len(text)

str2ctype(ctype) ==
  LET t == Cut(ctype, 1, Scan(ctype, 1, LAMBDA c : c = Semicolon))
      i == SelectInSeq(MimeTypes, LAMBDA m : m = t)
  IN IF ctype = Null \/ i = 0 THEN Len(MimeTypes) ELSE i - 1

NoMime == [disp |-> Null, name |-> Null, file |-> Null, ctype |-> Null,
           xcode |-> Null, bound |-> Null]

Pair(key, val, from, mime) ==
  [key |-> key, val |-> val, from |-> from, file |-> mime.file,
   ctype |-> mime.ctype, ctypepos |-> str2ctype(mime.ctype), xcode |-> mime.xcode]

Send(pair) == sent' = Append(sent, pair)
Finish == done' = TRUE /\ UNCHANGED <<call, pos, sent, frames>>

-----------------------------------------------------------------------------
(* Pairs with separators *)

\* parse_pairs_urlenc: an item ends at a separator; what cannot be decoded is
\* left out.
ValueEnd(val) == Scan(text, val, LAMBDA c : c \in {Semicolon, Amp})

SendDecoded(key, val, from) ==
  IF key \in {<<>>, Malformed} \/ val = Malformed
  THEN UNCHANGED sent
  ELSE Send(Pair(key, val, from, NoMime))

UrlencItem(key, e, val, end) ==
  /\ pos' = end + 1
  /\ SendDecoded(khttp_urldecode(Cut(text, key, e)), khttp_urldecode(Cut(text, val, end)), val)
  /\ UNCHANGED <<call, frames, done>>

UrlencPair ==
  /\ call.kind = "urlenc" /\ More
  /\ LET key == Skip(text, pos)
         e == Scan(text, key, LAMBDA c : c \in {Equals, Semicolon, Amp})
         val == IF e <= Len(text) /\ text[e] = Equals THEN e + 1 ELSE e
     IN UrlencItem(key, e, val, ValueEnd(val))

\* parse_pairs: the key reaches to the next "=", wherever that is.
CookieKeyEnd(key) == Scan(text, key, LAMBDA c : c = Equals)

CookiePair ==
  LET key == Skip(text, pos)
      e == CookieKeyEnd(key)
      end == Scan(text, IF e <= Len(text) THEN e + 1 ELSE key,
                  LAMBDA c : c = Semicolon)
  IN /\ call.kind = "cookie" /\ More
     /\ pos' = end + 1
     /\ IF e > Len(text) \/ e = key
        THEN UNCHANGED sent
        ELSE Send(Pair(Cut(text, key, e), Cut(text, e + 1, end), e + 1, NoMime))
     /\ UNCHANGED <<call, frames, done>>

\* parse_pairs_text
LineEnd(i) ==
  LET k == Find(<<CR, LF>>, text, i, Len(text))
  IN IF k = 0 THEN Len(text) + 1 ELSE k

TextPair ==
  LET key == Skip(text, pos)
      e == Scan(text, key, LAMBDA c : c = Equals)
      end == LineEnd(IF e <= Len(text) THEN e + 1 ELSE key)
  IN /\ call.kind = "text" /\ More
     /\ pos' = end + 2
     /\ IF e > Len(text) \/ e = key
        THEN UNCHANGED sent
        ELSE Send(Pair(Cut(text, key, e), Cut(text, e + 1, end), e + 1, NoMime))
     /\ UNCHANGED <<call, frames, done>>

\* parse_body: the key is empty, the type is that of the body.
Body ==
  /\ call.kind = "body" /\ ~done
  /\ Send(Pair(<<>>, text, 1, [NoMime EXCEPT !.ctype = call.type]))
  /\ done' = TRUE
  /\ UNCHANGED <<call, pos, frames>>

\* The end of the string.
Return == call.kind \in {"urlenc", "cookie", "text"} /\ ~More /\ ~done /\ Finish

-----------------------------------------------------------------------------
(* Headers of a part: mime_parse *)

TrimEnd(s) == SubSeq(s, 1, SelectLastInSeq(s, LAMBDA c : c # SP))

Bad == [key |-> <<>>, val |-> Malformed]

\* The sub-parts of a header, "key=value" or "key="value"" with semicolons
\* between them; Bad at the end if there is one without "=" or closing quote.
SubParts(s) ==
  LET p[i \in 1..(Len(s) + 1)] ==
        LET key == Skip(s, i)
            e == Scan(s, key, LAMBDA c : c = Equals)
            quoted == e < Len(s) /\ s[e + 1] = QUOTE
            val == IF quoted THEN e + 2 ELSE e + 1
            end == Scan(s, val, LAMBDA c : c = IF quoted THEN QUOTE ELSE Semicolon)
            after == Skip(s, end + 1)
            next == IF ~quoted THEN end + 1
                    ELSE IF after <= Len(s) /\ s[after] = Semicolon THEN after + 1
                    ELSE after
        IN IF key > Len(s) THEN <<>>
           ELSE IF e > Len(s) \/ (quoted /\ end > Len(s)) THEN <<Bad>>
           ELSE <<[key |-> TrimEnd(Cut(s, key, e)), val |-> Cut(s, val, end)]>>
                  \o (IF next > Len(s) THEN <<>> ELSE p[next])
  IN p[1]

\* The attribute that a sub-part sets, if any.
SetSub(key, mime, sub) ==
  CASE key = <<Disposition>> /\ sub.key = <<Filename>> -> [mime EXCEPT !.file = sub.val]
    [] key = <<Disposition>> /\ sub.key = <<NameWord>> -> [mime EXCEPT !.name = sub.val]
    [] key = <<ContentType>> /\ sub.key = <<BoundaryWord>> -> [mime EXCEPT !.bound = sub.val]
    [] OTHER -> mime

\* The attribute that a line sets, and those that its sub-parts set.
SetLine(mime, key, val) ==
  CASE key = <<TransferEncoding>> -> [mime EXCEPT !.xcode = val]
    [] key = <<Disposition>> -> [mime EXCEPT !.disp = val]
    [] key = <<ContentType>> -> [mime EXCEPT !.ctype = val]
    [] OTHER -> mime

SetAll(ok, mime, key, subs) ==
  [ok |-> ok /\ ~Contains(subs, Bad),
   mime |-> FoldLeft(LAMBDA m, sub : SetSub(key, m, sub), mime, subs)]

\* The value of a line ends at a semicolon; some types have sub-parts then.
SetValue(ok, mime, key, val, semi) ==
  SetAll(ok, SetLine(mime, key, Cut(val, 1, semi)), key,
         IF key \in {<<Disposition>>, <<ContentType>>} THEN SubParts(From(val, semi + 1)) ELSE <<>>)

SetHeader(ok, mime, key, val) ==
  SetValue(ok, mime, key, val, Scan(val, 1, LAMBDA c : c = Semicolon))

\* One line: key, colon and value.  "ok" is no longer true once a line is not
\* of this form.
HeaderLine(h, line) ==
  LET colon == Scan(line, 1, LAMBDA c : c = Colon)
  IN SetHeader(h.ok /\ colon <= Len(line), h.mime,
               TrimEnd(Cut(line, 1, colon)), From(line, Skip(line, colon + 1)))

\* The lines from i, each with its CRLF, up to the empty one or to n.
HeaderLines(i, n) ==
  LET l[k \in 1..(n + 2)] ==
        LET end == Find(<<CR, LF>>, text, k, n)
            line == CStr(Cut(text, k, end))
        IN IF end = 0 THEN [complete |-> FALSE, at |-> k, lines |-> <<>>]
           ELSE IF line = <<>> THEN [complete |-> TRUE, at |-> end + 2, lines |-> <<>>]
           ELSE [l[end + 2] EXCEPT !.lines = <<line>> \o @]
  IN l[i]

MimeOf(all, h) == [ok |-> all.complete /\ h.ok, at |-> all.at, mime |-> h.mime]
ParseLines(all) ==
  MimeOf(all, FoldLeft(HeaderLine, [ok |-> TRUE, mime |-> NoMime], all.lines))
mime_parse(i, n) == ParseLines(HeaderLines(i, n))

-----------------------------------------------------------------------------
(* Multipart forms: parse_multi and parse_multiform *)

\* A call of parse_multiform: the name that nested parts inherit, the
\* boundary, the end of what it reads, and where its caller goes on.
Frame(name, bound, len, next) ==
  [name |-> name, bound |-> bound, len |-> len, next |-> next, first |-> TRUE]

\* The boundary in the request's type: after ";" and "boundary" and "=", quoted
\* or up to a space; Null if it is not so.
Boundary(type) ==
  LET s == Skip(type, 1)
      b == Skip(type, s + 1)
      e == Skip(type, b + 1)
      v == Skip(type, e + 1)
      quoted == v <= Len(type) /\ type[v] = QUOTE
      val == IF quoted THEN v + 1 ELSE v
      end == Scan(type, val, LAMBDA c : c = IF quoted THEN QUOTE ELSE SP)
  IN IF /\ e <= Len(type)
        /\ type[s] = Semicolon /\ type[b] = BoundaryWord /\ type[e] = Equals
        /\ quoted => end <= Len(type)
     THEN Cut(type, val, end) ELSE Null

Top == Last(frames)
Goes(frame, i) ==
  /\ pos' = i
  /\ frames' = Append(Front(frames), [frame EXCEPT !.first = FALSE])
  /\ UNCHANGED <<call, done>>

\* All calls return false: nothing more is parsed.
Fail == Finish

\* The boundary, without its CRLF for the first.
Marker == From(<<CR, LF, Minus, Minus>> \o Top.bound, IF Top.first THEN 3 ELSE 1)

\* The line with it: where it begins, 0 if there is none, and what follows it.
Line == Find(Marker, text, pos, Top.len)

\* Less than two bytes are left at i.
NoRoom(i) == i > Top.len - 1

Closing(end) == SubSeq(text, end, end + 1) = <<Minus, Minus>>
AfterSpaces(end) == Scan(SubSeq(text, 1, Top.len), end, LAMBDA c : c # SP)
NextPart(end) == IF Closing(end) THEN Top.len + 1 ELSE AfterSpaces(end) + 2

NoNewline(i) == NoRoom(i) \/ SubSeq(text, i, i + 1) # <<CR, LF>>
BadBoundary(line, end) ==
  line = 0 \/ NoRoom(end) \/ (~Closing(end) /\ NoNewline(AfterSpaces(end)))

\* What a part with these headers is: nothing, nested parts or a value.
Kind(mime) ==
  IF (mime.name = Null /\ Top.name = Null) \/ mime.disp = Null THEN "nothing"
  ELSE IF mime.ctype = <<Mixed>> THEN "mixed" ELSE "value"

NameOf_NotInherited(mime) == mime.name   \* a mutant
NameOf(mime) == IF Top.name # Null THEN Top.name ELSE mime.name
TypeOf(mime) == IF mime.ctype = Null THEN <<Plain>> ELSE mime.ctype

\* The first pass of parse_multi.
MultiBegin ==
  /\ call.kind = "multi" /\ frames = <<>> /\ ~done
  /\ \E bound \in {Boundary(call.type)} :
       IF bound = Null
       THEN Finish
       ELSE /\ frames' = <<Frame(Null, bound, Len(text), 0)>>
            /\ UNCHANGED <<call, pos, sent, done>>

MultiFirst(next) == Top.first /\ Goes(Top, next) /\ UNCHANGED sent

MultiEmpty(line, next) == ~Top.first /\ line = pos /\ Goes(Top, next) /\ UNCHANGED sent

\* Its headers have been parsed: it ends at the line, and the next begins at next.
Part(h, kind, line, next) ==
  IF ~h.ok \/ (kind = "mixed" /\ h.mime.bound = Null)
  THEN Fail
  ELSE CASE kind = "nothing" -> Goes(Top, next) /\ UNCHANGED sent
         [] kind = "mixed" ->
              /\ pos' = h.at
              /\ frames' = Append(Append(Front(frames), [Top EXCEPT !.first = FALSE]),
                                  Frame(NameOf(h.mime), h.mime.bound, line - 1, next))
              /\ UNCHANGED <<call, sent, done>>
         [] kind = "value" ->
              /\ Send(Pair(NameOf(h.mime), Cut(text, h.at, line), h.at,
                           [h.mime EXCEPT !.ctype = TypeOf(h.mime)]))
              /\ Goes(Top, next)

MultiPart(line, next) ==
  /\ ~Top.first /\ line # pos
  /\ \E h \in {mime_parse(pos, line - 1)} : Part(h, Kind(h.mime), line, next)

MultiLine(line, end) ==
  IF BadBoundary(line, end) THEN Fail
  ELSE \E next \in {NextPart(end)} :
         MultiFirst(next) \/ MultiEmpty(line, next) \/ MultiPart(line, next)

\* One pass of the loop: the next line with the boundary.
MultiNext ==
  /\ frames # <<>> /\ ~done /\ pos <= Top.len
  /\ \E line \in {Line} : MultiLine(line, line + Len(Marker))

\* A call returns true, to its caller's "continue" or to parse_multi.
MultiReturn ==
  /\ frames # <<>> /\ ~done /\ pos > Top.len
  /\ frames' = Front(frames)
  /\ pos' = Top.next
  /\ done' = (Len(frames) = 1)
  /\ UNCHANGED <<call, sent>>

-----------------------------------------------------------------------------

\* All but bodies and multipart forms are read as C strings.
Init ==
  /\ \E c \in Calls :
       call = IF c.kind \in {"urlenc", "cookie", "text"} THEN [c EXCEPT !.text = CStr(@)] ELSE c
  /\ pos = 1 /\ frames = <<>> /\ sent = <<>> /\ done = FALSE

Multi == MultiBegin \/ MultiNext \/ MultiReturn

Parse == UrlencPair \/ CookiePair \/ TextPair \/ Body \/ Return \/ Multi

Next == Parse \/ (done /\ UNCHANGED vars)

Spec == Init /\ [][Next]_vars

-----------------------------------------------------------------------------
(* Properties *)

Got == [i \in 1..Len(sent) |->
          [key |-> sent[i].key, val |-> sent[i].val, file |-> sent[i].file,
           ctype |-> sent[i].ctype]]

\* What a client encodes by the rules of the form's type is what is sent on:
\* every pair, in order, with its value whatever bytes it has, the name that
\* nested parts inherit, file name and content type.
SentAsEncoded == done /\ call.expected # <<>> => call.expected = <<Got>>

\* Of a text that is no form, or a broken one, only pieces are sent: each
\* value lies in the text after the value before it, so that no byte is sent
\* twice or comes from elsewhere (child.c:813-828, 862, 919-944: the ends of
\* nested parts).
PiecesInOrder ==
  \A i \in 1..Len(sent) :
    /\ sent[i].from + Len(sent[i].val) <= Len(text) + 1
    /\ i > 1 => sent[i].from >= sent[i - 1].from + Len(sent[i - 1].val)
    /\ call.kind # "urlenc" =>
         sent[i].val = SubSeq(text, sent[i].from, sent[i].from + Len(sent[i].val) - 1)

\* The items between separators.
Items(s, Separator(_)) ==
  LET p[i \in 1..(Len(s) + 1)] ==
        LET e == Scan(s, i, Separator)
        IN <<From(Cut(s, i, e), Skip(Cut(s, i, e), 1))>>
             \o (IF e > Len(s) THEN <<>> ELSE p[e + 1])
  IN p[1]

KeyOf(item) == Cut(item, 1, Scan(item, 1, LAMBDA c : c = Equals))
ValOf(item) == From(item, Len(KeyOf(item)) + 2)

SentPairs == [i \in 1..Len(sent) |-> <<sent[i].key, sent[i].val>>]
Decoded(items) ==
  [i \in 1..Len(items) |->
     <<khttp_urldecode(KeyOf(items[i])), khttp_urldecode(ValOf(items[i]))>>]
IsGood(pair) == pair[1] \notin {<<>>, Malformed} /\ pair[2] # Malformed

\* Each item of a query is decoded for itself: one that is empty or malformed
\* costs no other (child.c:726-771).
ItemByItem ==
  done /\ call.kind = "urlenc" =>
    SentPairs = SelectSeq(Decoded(Items(text, LAMBDA c : c \in {Amp, Semicolon})), IsGood)

=============================================================================

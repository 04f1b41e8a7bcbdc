---------------------------------- MODULE Head ----------------------------------
(***************************************************************************)
(* How a request reaches the application.  The regression harness          *)
(* (src/kcgiregress.c), acting as the web server, makes CGI variables or   *)
(* FastCGI records of what the client sent; the worker (src/child.c) makes *)
(* an environment of these, and of the environment the parts of the        *)
(* request, which it writes to the parent; and the parent (src/parent.c,   *)
(* src/kcgi.c) reads them in the same order.                               *)
(*                                                                         *)
(* The fields of the forms are those of Forms: "calls" has what the worker *)
(* parses.                                                                 *)
(***************************************************************************)
EXTENDS Auth, FiniteSets

CONSTANTS
  Clients,    \* what clients send: records [head, body, servers, told, lost, cut]
  WebRecords(_, _),     \* the records of parameters of another server, and what it loses
  BUFSIZ,     \* the harness' buffer, the longest line of a head
  kmethods, krequs,     \* the known methods and environment names of headers
  Pages, DefPage,       \* the application's pages
  SuffixMap, DefMime,    \* its suffixes: pairs of a name and a type
  MimesCount

VARIABLES
  client,     \* what the client sends: never changes
  server,     \* "cgi" or "fcgi" for the harness, "web" for another FastCGI server, or
              \* "broken" for one that loses the last bytes
  envs,       \* the worker's environment: a sequence of [key, val]
  wire,       \* what the worker has written for the parent
  calls,      \* what it gives to the form parsers
  req,        \* the application's request
  at          \* how far things are

vars == <<client, server, envs, wire, calls, req, at>>

AsciiGraph(c) == c \in 33..126 \/ c >= 200     \* a word is made of such characters
Space(s) == Scan(s, 1, IsSpace)

-----------------------------------------------------------------------------
(* The harness: dochild_params *)

\* The lines of a head up to the empty one, without CRLF; Malformed at the end
\* if one is too long or ends otherwise.
Malformed == <<-2>>

Lines(s) ==
  LET l[i \in 1..(Len(s) + 1)] ==
        LET lf == Scan(s, i, LAMBDA c : c = LF)
            end == IF lf > Len(s) THEN Len(s) ELSE lf
            sz == end - i + 1
        IN IF sz < 2 \/ sz >= BUFSIZ THEN <<Malformed>>
           ELSE IF s[end - 1] # CR THEN <<Malformed>>
           ELSE IF sz = 2 THEN <<>>
           ELSE <<Cut(s, i, end - 1)>> \o l[end + 1]
  IN l[1]

Env(key, val) == [key |-> key, val |-> val]

NoEnv == Env(Malformed, Malformed)

\* The request line; no environment at all for other methods.
FirstLine(line) ==
  LET path == Cut(From(line, 3), 1, Space(From(line, 3)))
      query == Scan(path, 1, LAMBDA c : c = Question)
  IN IF Len(line) < 2 \/ line[1] \notin {GET, POST, OPTIONS} \/ line[2] # SP THEN <<NoEnv>>
     ELSE <<Env(<<REQUEST_METHOD>>, <<line[1]>>), Env(<<PATH_INFO>>, Cut(path, 1, query))>>
            \o (IF query > Len(path) THEN <<>>
                ELSE <<Env(<<QUERY_STRING>>, From(path, query + 1))>>)

\* The name of a header as a variable.
Underscored(c) == IF c = Minus THEN Underscore ELSE ToUpper(c)
HeaderName(key) == <<HTTP_>> \o [i \in 1..Len(key) |-> Underscored(key[i])]

HeaderEnv(line) ==
  LET colon == Scan(line, 1, LAMBDA c : c = Colon)
      key == Cut(line, 1, colon)
      val == From(line, SkipSpace(line, colon + 1))
  IN IF colon > Len(line) THEN <<>>
     ELSE CASE key = <<ContentLength>> -> <<Env(<<CONTENT_LENGTH>>, val)>>
            [] key = <<ContentType>> -> <<Env(<<CONTENT_TYPE>>, val)>>
            [] OTHER -> <<Env(HeaderName(key), val)>>

\* The variables in the order they are given to fp, and whether the head was
\* complete.
HeadParams(first, rest) ==
  IF Contains(first, NoEnv) THEN [ok |-> FALSE, params |-> <<>>]
  ELSE [ok |-> TRUE,
        params |-> <<Env(<<SCRIPT_NAME>>, <<Progname>>)>> \o first
                     \o FlattenSeq([i \in 1..Len(rest) |-> HeaderEnv(rest[i])])]

LinesParams(lines) ==
  IF Contains(lines, Malformed) THEN [ok |-> FALSE, params |-> <<>>]
  ELSE IF lines = <<>> THEN HeadParams(<<>>, <<>>)
  ELSE HeadParams(FirstLine(lines[1]), Tail(lines))

dochild_params(head) == LinesParams(Lines(head))

\* dochild_params_cgi: setenv(3), which refuses a name with "=", and whose
\* environment the application inherits.
SetEnv(list, e) ==
  LET i == SelectInSeq(list, LAMBDA o : o.key = e.key)
  IN IF Contains(e.key, Equals) \/ e.key = <<>> THEN list
     ELSE IF i = 0 THEN Append(list, e) ELSE [list EXCEPT ![i] = e]

\* dochild_params_fcgi: a record's content.  A length above 127 is written in
\* four bytes.
LengthBytes(n) ==
  IF n > 127 THEN <<n \div 16777216, (n \div 65536) % 256, (n \div 256) % 256, n % 256>>
  ELSE <<n>>

ParamRecord(e) == LengthBytes(Len(e.key)) \o LengthBytes(Len(e.val)) \o e.key \o e.val

\* The body: as many bytes as the head says, or as there are.
DeclaredLength(list) ==
  LET i == SelectLastInSeq(list, LAMBDA e : e.key = <<CONTENT_LENGTH>>)
  IN IF i = 0 THEN 0 ELSE strtonum(list[i].val, 0, 2147483647).value

Available(body, n) == SubSeq(body, 1, n)

-----------------------------------------------------------------------------
(* The worker's environment *)

\* kworker_child: names have visible ASCII characters only.
ValidName(key) == key # <<>> /\ \A i \in 1..Len(key) : AsciiGraph(key[i])
CgiEnvs(list) == SelectSeq(list, LAMBDA e : ValidName(e.key))

\* A length in one byte or, with the top bit, in four.
ParamLength(b, pos) ==
  IF b[pos] < 128 THEN [n |-> b[pos], at |-> pos + 1]
  ELSE [n |-> (b[pos] % 128) * 16777216 + b[pos + 1] * 65536 + b[pos + 2] * 256 + b[pos + 3],
        at |-> pos + 4]

\* Room for a length at pos in what remains of the record.
HasLength(b, pos) == pos <= Len(b) /\ (b[pos] >= 128 => pos + 3 <= Len(b))

\* A mutant: a name that comes again is added once more.
SetParam_Appends(list, e) == IF ValidName(e.key) THEN Append(list, e) ELSE list

\* A name that comes again overwrites the value.
SetParam(list, e) ==
  LET i == SelectInSeq(list, LAMBDA o : o.key = e.key)
  IN IF ~ValidName(e.key) THEN list
     ELSE IF i = 0 THEN Append(list, e) ELSE [list EXCEPT ![i] = e]

\* kworker_fcgi_params: the pairs of a record, and whether it was in order.
\* One that ends within the four bytes of a name's length is a warning only: the
\* pairs before it stand, and "return 0" is KCGI_OK (child.c:1888).
ParamPairs(b) ==
  LET p[pos \in 1..(Len(b) + 1)] ==
        LET key == ParamLength(b, pos)
            val == ParamLength(b, key.at)
            end == val.at + key.n + val.n
        IN IF pos > Len(b) \/ ~HasLength(b, pos) THEN [ok |-> TRUE, pairs |-> <<>>]
           ELSE IF ~HasLength(b, key.at) \/ end > Len(b) + 1 THEN [ok |-> FALSE, pairs |-> <<>>]
           ELSE [p[end] EXCEPT !.pairs =
                   <<Env(Cut(b, val.at, val.at + key.n), Cut(b, val.at + key.n, end))>> \o @]
  IN p[1]

kworker_fcgi_params(list, b) == FoldLeft(SetParam, list, ParamPairs(b).pairs)

FcgiEnvs(records) == FoldLeft(kworker_fcgi_params, <<>>, records)
InOrder(records) == \A i \in 1..Len(records) : ParamPairs(records[i]).ok

-----------------------------------------------------------------------------
(* What the worker writes *)

kworker_env(list, key) ==
  LET i == SelectInSeq(list, LAMBDA e : e.key = <<key>>)
  IN IF i = 0 THEN Null ELSE list[i].val

HeaderOr(list, name, default) ==
  LET i == SelectInSeq(list, LAMBDA e : e.key = <<HTTP_, name>>)
  IN IF i = 0 THEN default ELSE list[i].val

EnvOr(list, key, default) ==
  IF kworker_env(list, key) = Null THEN default ELSE kworker_env(list, key)

IndexOr(list, s) == LET i == SelectInSeq(list, LAMBDA t : t = s)
                    IN IF i = 0 THEN Len(list) ELSE i - 1

\* The name of a header in its usual form: the first letter of each part is
\* left as it is.
Title(name) ==
  [j \in 1..Len(name) |->
     IF name[j] = Underscore THEN Minus
     ELSE IF j = 1 \/ name[j - 1] = Underscore THEN name[j] ELSE ToLower(name[j])]

IsHeader(e) == Len(e.key) > 1 /\ e.key[1] = HTTP_

kworker_child_env(list) ==
  LET heads == SelectSeq(list, IsHeader)
  IN <<Num(Len(list))>>
       \o FlattenSeq([i \in 1..Len(list) |-> <<Word(list[i].key), Word(list[i].val)>>])
       \o <<Num(Len(heads))>>
       \o FlattenSeq([i \in 1..Len(heads) |->
                        <<Num(IndexOr(krequs, heads[i].key)), Word(Title(From(heads[i].key, 2))),
                          Word(heads[i].val)>>])

kworker_child_method(list) == IndexOr(kmethods, EnvOr(list, REQUEST_METHOD, <<GET>>))

kauths == <<Null, <<Basic>>, <<Digest>>, <<Bearer>>>>
kworker_child_auth(list) ==
  IF kworker_env(list, AUTH_TYPE) = Null THEN 0 ELSE IndexOr(kauths, kworker_env(list, AUTH_TYPE))

kworker_child_scheme(list) == IF kworker_env(list, HTTPS) = <<On>> THEN 1 ELSE 0

kworker_child_port(list) ==
  LET n == strtonum(EnvOr(list, SERVER_PORT, <<>>), 0, 65535) IN IF n.ok THEN n.value ELSE 80

\* kworker_child_path: the whole path, the suffix after the last dot if no
\* slash follows it, the first part, and the parts after it.
PathParts(full, suffix, rest, sub) ==
  <<Word(full), Word(suffix), Word(Cut(rest, 1, sub)), Word(From(rest, sub + 1))>>

FirstPart(full, suffix, rest) ==
  PathParts(full, suffix, rest, Scan(rest, 1, LAMBDA c : c = Slash))

SplitSuffix(full, cp, ep) ==
  IF ep # 0 /\ cp[ep] = Dot THEN FirstPart(full, From(cp, ep + 1), Cut(cp, 1, ep))
  ELSE FirstPart(full, Null, cp)

SplitPath(full, cp) == SplitSuffix(full, cp, SelectLastInSeq(cp, LAMBDA c : c \in {Slash, Dot}))

PathOf(full) ==
  SplitPath(full, IF full # <<>> /\ full[1] = Slash THEN Tail(full) ELSE full)

kworker_child_path(list) == PathOf(EnvOr(list, PATH_INFO, <<>>))

\* kworker_child_bodymd5: no digest is the empty word.
kworker_child_bodymd5(b, md5) == Word(IF md5 THEN MD5(b) ELSE Null)

ParserCall(kind, text, type) == [kind |-> kind, text |-> text, type |-> type]

\* The parser that the content type asks for.
BodyCall(list, b) ==
  LET type == kworker_env(list, CONTENT_TYPE)
      post == EnvOr(list, REQUEST_METHOD, <<GET>>) = <<POST>>
  IN IF type \in {Null, <<>>}
     THEN ParserCall("body", b, IF type = Null THEN <<OctetStream>> ELSE type)
     ELSE CASE type[1] = Urlencoded /\ (Len(type) = 1 \/ type[2] = Semicolon) ->
                 ParserCall("urlenc", b, Null)
            [] type[1] = MultipartFormData -> ParserCall("multi", b, Tail(type))
            [] type = <<Plain>> /\ post -> ParserCall("text", b, Null)
            [] OTHER -> ParserCall("body", b, type)

\* kworker_child_body, kworker_child_query, kworker_child_cookies.
ParserCalls(list, b) ==
  (IF DeclaredLength(list) = 0 THEN <<>> ELSE <<BodyCall(list, b)>>)
    \o (IF kworker_env(list, QUERY_STRING) = Null THEN <<>>
        ELSE <<ParserCall("urlenc", kworker_env(list, QUERY_STRING), Null)>>)
    \o (IF SelectInSeq(list, LAMBDA e : e.key = <<HTTP_, Cookie>>) = 0 THEN <<>>
        ELSE <<ParserCall("cookie", HeaderOr(list, Cookie, Null), Null)>>)

\* All that is written before the fields, in this order.
HeadWire(list, b, auth) ==
  kworker_child_env(list)
    \o <<Num(kworker_child_method(list)), Num(kworker_child_auth(list))>>
    \o auth.wire
    \o <<Num(kworker_child_scheme(list)), Word(EnvOr(list, REMOTE_ADDR, <<Loopback>>))>>
    \o kworker_child_path(list)
    \o <<Word(EnvOr(list, SCRIPT_NAME, <<>>)), Word(HeaderOr(list, HostName, <<Localhost>>)),
         Num(kworker_child_port(list)),
         kworker_child_bodymd5(IF DeclaredLength(list) = 0 THEN <<>> ELSE b, auth.md5)>>

kworker_child(list, b) ==
  HeadWire(list, b, kworker_auth_child(HeaderOr(list, Authorization, Null)))

-----------------------------------------------------------------------------
(* The parent *)

\* kworker_parent reads lists with their length before them, and then the
\* rest in the worker's order; "ok" is false if the two are not in step.
WordKinds(n) == [i \in 1..n |-> "word"]
HeadKinds(n) == [i \in 1..(3 * n) |-> IF i % 3 = 1 THEN "number" ELSE "word"]

Headers(w, n) ==
  [i \in 1..n |-> [requ |-> w[3 * i - 2].number, key |-> w[3 * i - 1].word, val |-> w[3 * i].word]]

RestKinds == <<"number", "word", "word", "word", "word", "word", "word", "word",
               "number", "word">>

\* khttp_parsex: the page and the type that the names stand for.
PageOf(name) == IF name = <<>> THEN DefPage ELSE IndexOr(Pages, name)
MimeOf(suffix) ==
  LET i == SelectInSeq(SuffixMap, LAMBDA m : m.name = suffix)
  IN IF suffix = <<>> THEN DefMime ELSE IF i = 0 THEN MimesCount ELSE SuffixMap[i].mime

NoRequest == [ok |-> FALSE]

RequestOf(es, reqs, method, type, auth, rest) ==
  [ok |-> TRUE, envs |-> es, reqs |-> reqs,
   method |-> IF method = Len(kmethods) THEN Null ELSE kmethods[method + 1],
   auth |-> type, rawauth |-> auth,
   scheme |-> rest[1].number, remote |-> rest[2].word, fullpath |-> rest[3].word,
   suffix |-> rest[4].word, pagename |-> rest[5].word, path |-> rest[6].word,
   pname |-> rest[7].word, host |-> rest[8].word, port |-> rest[9].number,
   rawdigest |-> IF rest[10].word = <<>> THEN Null ELSE rest[10].word,
   page |-> PageOf(rest[5].word), mime |-> MimeOf(rest[4].word)]

\* After the lists: method, type of authorisation, its credentials, the rest.
ReadRest(e, h, w, auth, rest) ==
  IF ~auth.ok \/ ~InStep(rest, RestKinds) THEN NoRequest
  ELSE RequestOf(e, h, w[1].number, w[2].number, auth.auth, rest)

ReadAuth(e, h, w, auth) == ReadRest(e, h, w, auth, From(w, 3 + auth.n))

ReadHeads(e, w, n) ==
  IF ~InStep(w, <<"number">> \o HeadKinds(n) \o <<"number", "number">>) THEN NoRequest
  ELSE ReadAuth(e, Headers(Tail(w), n), From(w, 3 * n + 2),
                kworker_auth_parent(From(w, 3 * n + 4)))

ReadEnvs(w, n) ==
  IF ~InStep(w, <<"number">> \o WordKinds(2 * n) \o <<"number">>) THEN NoRequest
  ELSE ReadHeads([i \in 1..n |-> Env(w[2 * i].word, w[2 * i + 1].word)],
                 From(w, 2 * n + 2), w[2 * n + 2].number)

kworker_parent(w) == ReadEnvs(w, w[1].number)

\* The map of headers: the last of a name wins.
reqmap(r, requ) ==
  LET i == SelectLastInSeq(r.reqs, LAMBDA h : h.requ = requ) IN IF i = 0 THEN Null ELSE r.reqs[i].val

-----------------------------------------------------------------------------
(* The specification *)

Init ==
  /\ client \in Clients /\ server \in client.servers
  /\ envs = <<>> /\ wire = <<>> /\ calls = <<>> /\ req = NoRequest /\ at = "server"

\* A head that the harness does not accept is not handed on.
Refuse(head) ==
  /\ ~head.ok
  /\ at' = "refused"
  /\ UNCHANGED envs

ServeCgi(head) ==
  /\ head.ok /\ server = "cgi"
  /\ envs' = CgiEnvs(FoldLeft(SetEnv, <<>>, head.params))
  /\ at' = "worker"

Records(params) ==
  IF server # "fcgi" THEN WebRecords(params, IF server = "web" THEN 0 ELSE client.lost)
  ELSE [i \in 1..Len(params) |-> ParamRecord(params[i])]

\* A record out of order ends the worker.
ServeFcgi(head) ==
  /\ head.ok /\ server # "cgi"
  /\ \E records \in {Records(head.params)} :
       /\ envs' = FcgiEnvs(records)
       /\ at' = IF InOrder(records) THEN "worker" ELSE "refused"

Serve ==
  /\ at = "server"
  /\ \E head \in {dochild_params(client.head)} : Refuse(head) \/ ServeCgi(head) \/ ServeFcgi(head)
  /\ UNCHANGED <<client, server, wire, calls, req>>

Work ==
  /\ at = "worker"
  /\ \E b \in {Available(client.body, DeclaredLength(envs))} :
       /\ wire' = kworker_child(envs, b)
       /\ calls' = ParserCalls(envs, b)
  /\ at' = "parent"
  /\ UNCHANGED <<client, server, envs, req>>

Receive ==
  /\ at = "parent"
  /\ req' = kworker_parent(wire)
  /\ at' = "application"
  /\ UNCHANGED <<client, server, envs, wire, calls>>

Next ==
  \/ Serve \/ Work \/ Receive
  \/ at \in {"refused", "application"} /\ UNCHANGED vars

Spec == Init /\ [][Next]_vars

-----------------------------------------------------------------------------
(* Properties *)

\* What the client told, as far as the server hands it on.
Told == IF server = "broken" THEN client.cut ELSE client.told

\* The parts of the path, put together; a slash or a dot that nothing follows
\* within its part may be lost.
Joined(slash, dot) ==
  <<Slash>> \o req.pagename
    \o (IF req.path = <<>> THEN <<>> ELSE <<Slash>> \o req.path)
    \o slash \o (IF req.suffix = <<>> THEN dot ELSE <<Dot>> \o req.suffix)
Rooted(path) == IF path # <<>> /\ path[1] = Slash THEN path ELSE <<Slash>> \o path

LastValue(headers, key) ==
  headers[SelectLastInSeq(headers, LAMBDA h : h.key = key)].val

\* The application gets the request that the client sent, and the same by CGI
\* as by FastCGI: the method, the path and its parts, each header by the name
\* it has in HTTP with the value that came last, the query, the cookies and the
\* body, each for the right parser (child.c:1056-1535, parent.c:216-330: the
\* two sides of the wire in step); and nothing, if the parameters broke off.
\* Here the code is not what the repository says of it, and the property is what
\* it does.  A header without a value arrives like any other, where the comment
\* of kworker_child_env has "Disallow zero-length values as per RFC 3875, 4.1.18"
\* (child.c:1053).  Names arrive in title case, as that comment has it, and not
\* "with all lowercase", as khttp_parse's manual has it (man/khttp_parse.3:480-485).
\* And parameters that break off within the length of a name, which the code
\* warns of as "bad parameter data", make a request of those before (child.c:1884-1889).
RequestAsSent ==
  at \in {"refused", "application"} =>
    /\ req.ok = Told.ok
    /\ req.ok =>
         /\ req.method = Told.method /\ req.fullpath = Told.path
         /\ \E slash \in {<<>>, <<Slash>>}, dot \in {<<>>, <<Dot>>} :
              Rooted(Told.path) = Joined(slash, dot)
         /\ \A i \in 1..Len(Told.headers) :
              LET key == Told.headers[i].key
                  val == LastValue(Told.headers, key)
              IN /\ \E j \in 1..Len(req.reqs) : req.reqs[j].key = key /\ req.reqs[j].val = val
                 /\ \A n \in 1..Len(krequs) :
                      krequs[n] = <<HTTP_>> \o key => reqmap(req, n - 1) = val
         /\ Len(req.reqs) = Cardinality({Told.headers[i].key : i \in 1..Len(Told.headers)})
         /\ [i \in 1..Len(calls) |-> <<calls[i].kind, calls[i].text>>]
              = (IF Told.body = <<>> THEN <<>> ELSE <<<<Told.kind, Told.body>>>>)
                  \o (IF Told.query = Null THEN <<>> ELSE <<<<"urlenc", Told.query>>>>)
                  \o (IF \A i \in 1..Len(Told.headers) : Told.headers[i].key # <<Cookie>> THEN <<>>
                      ELSE <<<<"cookie", LastValue(Told.headers, <<Cookie>>)>>>>)

\* Credentials are read as the client wrote them, in whatever order, and only
\* the password they were made with is valid; credentials that lack something
\* validate nothing (httpauth.c:253-330, auth.c:73-290).
PasswordTells ==
  at = "application" =>
    \A i \in 1..Len(Told.auth) :
      LET told == Told.auth[i]
          right == khttpdigest_validate(req, told.pass)
          wrong == khttpdigest_validate(req, told.pass \o <<Colon>>)
          basic == khttpbasic_validate(req, told.user, told.pass)
          other == khttpbasic_validate(req, told.user, told.pass \o <<NUL>>)
      IN /\ req.rawauth.type = told.type /\ req.rawauth.authorised = told.authorised
         /\ IF told.authorised = 0 THEN {right, wrong, basic, other} = {-1}
            ELSE IF told.type = 2
                 THEN /\ req.rawauth.digest.user = told.user
                      /\ right = 1 /\ wrong = 0 /\ {basic, other} = {-1}
                 ELSE basic = 1 /\ other = 0 /\ {right, wrong} = {-1}

=============================================================================

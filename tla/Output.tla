-------------------------------- MODULE Output --------------------------------
(***************************************************************************)
(* The response of one request (src/output.c): headers and body written by *)
(* the application pass through an optional buffer and, in the body, an    *)
(* optional compressor, to standard output (CGI) or, cut into records, to  *)
(* the FastCGI connection.                                                 *)
(*                                                                         *)
(* Bytes are numbered in the order in which the application gives them to  *)
(* kdata_write: what has to be told apart is which of them arrived, in     *)
(* what order, and in what kind of frame.  A frame is what one call of     *)
(* fullwritenoerr's callers puts on the wire; it may be cut short.         *)
(*                                                                         *)
(* A function that can fail is an operator from a state of the response to *)
(* the set of states it may leave, of which "er" is the returned code.     *)
(***************************************************************************)
EXTENDS Integers, Sequences, Functions

CONSTANTS
  BufSizes,     \* values of sndbufsz
  MaxRecord,    \* largest content of a FastCGI record (UINT16_MAX)
  Align,        \* records are padded to this many bytes (8)
  MaxWrite,     \* bound: bytes of a write, and of a header's key and value
  MaxGiven,     \* bound: bytes written by the application
  MaxSystem,    \* bound: writes that fail although the peer is there
  MaxNoMem      \* bound: allocations that fail

OutputAssumption ==
  /\ BufSizes \subseteq Nat
  /\ MaxRecord \in Nat \ {0}
  /\ Align \in Nat \ {0}
  /\ {MaxWrite, MaxGiven, MaxSystem, MaxNoMem} \subseteq Nat

VARIABLES
  fcgi,       \* whether there is a FastCGI connection: p->fcgi # -1
  outbufsz,   \* size of the buffer, zero if there is none
  state,      \* "head" (KSTATE_HEAD), "body" (KSTATE_BODY), or "freed"
  begun,      \* whether khttp_body or khttp_body_compress was called
  encoding,   \* what was said of compression: "none", "ours" or "caller's"
  s           \* the rest of struct kdata, and the world:
              \*   gz      whether there is a compressor
              \*   zbuf    bytes in the compressor
              \*   buf     bytes in the buffer
              \*   wire    frames on the wire
              \*   peer    whether the peer is there
              \*   given   for each byte given, whether it is of the head
              \*   system, nomem   how much of each bound is used
              \*   er      what the last function returned
              \*   told    whether some call returned an error

ovars == <<fcgi, outbufsz, state, begun, encoding, s>>

Errors == {"OK", "HUP", "SYSTEM", "ENOMEM", "FORM"}

Frame == [type: {"plain", "gzip", "stdout", "end"}, data: Seq(Nat), pad: Nat,
          cut: BOOLEAN]

Response ==
  [gz: BOOLEAN, zbuf: Seq(Nat), buf: Seq(Nat), wire: Seq(Frame), peer: BOOLEAN,
   given: Seq({"head", "body"}), system: 0..MaxSystem, nomem: 0..MaxNoMem,
   er: Errors, told: BOOLEAN]

OTypeOK ==
  /\ fcgi \in BOOLEAN
  /\ outbufsz \in BufSizes
  /\ state \in {"head", "body", "freed"}
  /\ begun \in BOOLEAN
  /\ encoding \in {"none", "ours", "caller's"}
  /\ s \in Response
  /\ Len(s.buf) <= outbufsz

OInit ==
  /\ fcgi \in BOOLEAN
  /\ outbufsz \in BufSizes
  /\ state = "head"
  /\ begun = FALSE
  /\ encoding = "none"
  /\ s = [gz |-> FALSE, zbuf |-> <<>>, buf |-> <<>>, wire |-> <<>>,
          peer |-> TRUE, given |-> <<>>, system |-> 0, nomem |-> 0,
          er |-> "OK", told |-> FALSE]

-----------------------------------------------------------------------------
(* Putting frames on the wire *)

Return(t, er) == [t EXCEPT !.er = er]

\* One function after the other, until one fails.
Then(S, F(_)) == UNION {IF t.er = "OK" THEN F(t) ELSE {t} : t \in S}

AsFrame(type, data, pad, cut) ==
  [type |-> type, data |-> data, pad |-> pad, cut |-> cut]

\* A frame cut short somewhere: in the header, the content or the padding.
CutFrames(type, data) ==
  {AsFrame(type, SubSeq(data, 1, n), 0, TRUE) : n \in 0..Len(data)}

\* fullwritenoerr: everything is written, or the peer hangs up, for good, or
\* there is an error.
Put(t, type, data, pad) ==
  IF ~t.peer THEN {Return(t, "HUP")} ELSE
  {Return([t EXCEPT !.wire = Append(@, AsFrame(type, data, pad, FALSE))], "OK")}
    \cup {Return([t EXCEPT !.wire = Append(@, f), !.peer = FALSE], "HUP") :
            f \in CutFrames(type, data)}
    \cup {Return([t EXCEPT !.wire = Append(@, f), !.system = @ + 1], "SYSTEM") :
            f \in {g \in CutFrames(type, data) : t.system < MaxSystem}}

\* How many records "sz" bytes take: one at least.
Records_oneMore(sz) == (sz \div MaxRecord) + 1
Records(sz) == IF sz = 0 THEN 1 ELSE (sz + MaxRecord - 1) \div MaxRecord

\* -rsz % 8
PadLen(rsz) == (-rsz) % Align

Chunk(data, i) ==
  SubSeq(data, (i - 1) * MaxRecord + 1,
         IF i * MaxRecord < Len(data) THEN i * MaxRecord ELSE Len(data))

Record(type, data, i) ==
  AsFrame(type, Chunk(data, i), PadLen(Len(Chunk(data, i))), FALSE)

\* fcgi_write: the records of "data" up to the k-th, which is the first that
\* fails, or the last.  Without a peer the first one fails.
fcgi_write(t, type, data) ==
  LET n == Records(Len(data))
      after(k) == [t EXCEPT !.wire = @ \o [i \in 1..k |-> Record(type, data, i)]]
  IN  UNION {{u \in Put(after(k - 1), type, Chunk(data, k), PadLen(Len(Chunk(data, k)))) :
                u.er = "OK" => k = n} : k \in IF t.peer THEN 1..n ELSE {1}}

\* gzwrite keeps some of what it is given to itself.
gzwrite(t, data) ==
  {Return([t EXCEPT !.zbuf = @ \o data], "OK")}
    \cup {Return([u EXCEPT !.zbuf = <<>>], IF u.er = "OK" THEN "OK" ELSE "SYSTEM") :
            u \in Put(t, "gzip", t.zbuf \o data, 0)}

\* What is compressed: everything but the head.
Compressing(t) == t.gz /\ state # "head"

kdata_flush(t, data) ==
  CASE data = <<>>                         -> {Return(t, "OK")}
    [] data # <<>> /\ Compressing(t)       -> gzwrite(t, data)
    [] data # <<>> /\ ~Compressing(t) /\ fcgi  -> fcgi_write(t, "stdout", data)
    [] data # <<>> /\ ~Compressing(t) /\ ~fcgi -> Put(t, "plain", data, 0)

\* The buffer is empty afterwards even if that failed.
kdata_drain(t) == {[u EXCEPT !.buf = <<>>] : u \in kdata_flush(t, t.buf)}

Fits(t, data) == Len(t.buf) + Len(data) <= outbufsz

PushBuffer(t, data) ==
  IF Len(data) > outbufsz THEN kdata_flush(t, data)
                          ELSE {[t EXCEPT !.buf = data]}

\* A write that does not fit goes out after what is in the buffer.
MakeRoom_notChecked(t, data) == UNION {PushBuffer(u, data) : u \in kdata_drain(t)}
MakeRoom_largeFirst(t, data) ==
  IF Len(data) > outbufsz THEN kdata_flush(t, data)
                          ELSE Then(kdata_drain(t), LAMBDA u : PushBuffer(u, data))
MakeRoom(t, data) == Then(kdata_drain(t), LAMBDA u : PushBuffer(u, data))

\* kdata_write of "sz" more bytes.
kdata_write(t, sz) ==
  LET n == Len(t.given)
      data == [i \in 1..sz |-> n + i]
      part == IF state = "head" THEN "head" ELSE "body"
      g == Return([t EXCEPT !.given = @ \o [i \in 1..sz |-> part]], "OK")
  IN  CASE sz = 0                                  -> {Return(t, "OK")}
        [] sz # 0 /\ outbufsz = 0                  -> kdata_flush(g, data)
        [] sz # 0 /\ outbufsz # 0 /\ ~Fits(t, data) -> MakeRoom(g, data)
        [] sz # 0 /\ outbufsz # 0 /\ Fits(t, data)
             -> {[g EXCEPT !.buf = @ \o data]}

-----------------------------------------------------------------------------
(* What the application calls *)

\* Where a call begins, and where it ends: in one of the states "S".
Begin == [s EXCEPT !.er = "OK"]
End(S) ==
  \E t \in S :
    /\ Len(t.given) <= MaxGiven
    /\ s' = [t EXCEPT !.told = @ \/ t.er # "OK"]

\* An allocation fails.
NoMemory(t) ==
  IF t.nomem < MaxNoMem THEN {Return([t EXCEPT !.nomem = @ + 1], "ENOMEM")}
                        ELSE {}

\* khttp_head: the key, ": ", the value, and the end of the line.
Header(t, key, value) ==
  NoMemory(t)
    \cup Then(Then(Then(kdata_write(t, key), LAMBDA u : kdata_write(u, 2)),
                   LAMBDA u : kdata_write(u, value)),
              LAMBDA u : kdata_write(u, 2))

khttp_head ==
  /\ state = "head"
  /\ ~begun
  /\ \E key \in 1..MaxWrite, value \in 0..MaxWrite : End(Header(Begin, key, value))
  /\ UNCHANGED <<fcgi, outbufsz, state, begun, encoding>>

\* kdata_body: the empty line, and everything out, before the body begins.
HeadDone_notDrained(t) == kdata_write(t, 2)
HeadDone(t) == Then(kdata_write(t, 2), kdata_drain)

kdata_body(S) ==
  /\ End(Then(S, HeadDone))
  /\ state' = IF s'.er = "OK" THEN "body" ELSE state

\* kdata_compress: there is no compression on a FastCGI connection.
kdata_compress(t) == [t EXCEPT !.gz = ~fcgi]

\* What Accept-Encoding says: no "gzip", or "gzip" with some quality.
Accepted == {"no", "gzip", "gzip;q=0", "gzip;q=0.5"}
Wants(accept) == accept \in {"gzip", "gzip;q=0.5"}

\* Whether khttp_body says that the body is compressed: if
\* kdata_compress did something.
Announces(t) == t.gz

\* (The size of "Content-Encoding: gzip" is immaterial: one byte each.)
khttp_body ==
  /\ state = "head"
  /\ ~begun
  /\ begun' = TRUE
  /\ \E accept \in Accepted :
       LET t == IF Wants(accept) THEN kdata_compress(Begin) ELSE Begin
       IN  \/ /\ Wants(accept) => ~Announces(t)
              /\ kdata_body({t})
              /\ encoding' = encoding
           \/ /\ Wants(accept) /\ Announces(t)
              /\ kdata_body(Header(t, 1, 1))
              /\ encoding' = "ours"
           \/ /\ Wants(accept) /\ ~fcgi
              /\ End(NoMemory(Begin))
              /\ UNCHANGED <<state, encoding>>
  /\ UNCHANGED <<fcgi, outbufsz>>

\* Headers about the encoding are the caller's.
khttp_body_compress ==
  /\ state = "head"
  /\ ~begun
  /\ begun' = TRUE
  /\ \/ kdata_body({Begin}) /\ encoding' = encoding
     \/ /\ ~fcgi
        /\ kdata_body({kdata_compress(Begin)})
        /\ encoding' = "caller's"
     \/ /\ ~fcgi
        /\ End(NoMemory(Begin))
        /\ UNCHANGED <<state, encoding>>
     \/ /\ fcgi
        /\ End({Return(s, "FORM")})
        /\ UNCHANGED <<state, encoding>>
  /\ UNCHANGED <<fcgi, outbufsz>>

\* khttp_write, khttp_puts, khttp_putc and kcgi_writer_write; khttp_printf first
\* needs memory.
khttp_write ==
  /\ state # "freed"
  /\ \/ IF state = "body"
        THEN \E sz \in 0..MaxWrite : End(kdata_write(Begin, sz))
        ELSE End({Return(s, "FORM")})
     \/ End(NoMemory(Begin))
  /\ UNCHANGED <<fcgi, outbufsz, state, begun, encoding>>

\* gzclose writes what the compressor has kept.
gzclose(t) ==
  IF t.gz THEN {[u EXCEPT !.zbuf = <<>>] : u \in Put(t, "gzip", t.zbuf, 0)}
          ELSE {t}

\* The empty record that ends the stream, then the end of the request, whose
\* eight bytes are not numbered.
EndRecords(t) ==
  IF fcgi THEN UNION {Put(u, "end", <<>>, 0) : u \in fcgi_write(t, "stdout", <<>>)}
          ELSE {t}

\* What is done with the buffer at the end.
LastDrain(t) == kdata_drain(t)

\* kdata_free with "flush": every step is taken, whatever becomes of the
\* others.
khttp_free ==
  /\ state # "freed"
  /\ state' = "freed"
  /\ \E t \in UNION {UNION {EndRecords(v) : v \in gzclose(u)} :
                       u \in LastDrain(Begin)} :
       s' = Return(t, "OK")
  /\ UNCHANGED <<fcgi, outbufsz, begun, encoding>>

\* The descriptors that kdata_free closes before gzclose, if it does not flush.
ClosedFirst == ~fcgi

\* A process forked by the application lets go of its copy of the request.
\* Nothing may come out of that copy.
khttp_child_free ==
  /\ state # "freed"
  /\ s' = IF s.gz /\ ~ClosedFirst
          THEN [s EXCEPT !.wire = Append(@, AsFrame("gzip", s.zbuf, 0, FALSE))]
          ELSE s
  /\ UNCHANGED <<fcgi, outbufsz, state, begun, encoding>>

ResponseOver == state = "freed" /\ UNCHANGED ovars

ONext ==
  \/ khttp_head \/ khttp_body \/ khttp_body_compress \/ khttp_write
  \/ khttp_free \/ khttp_child_free \/ ResponseOver

OSpec == OInit /\ [][ONext]_ovars

-----------------------------------------------------------------------------
(* Properties *)

Failed(t) == ~t.peer \/ t.system > 0

Increasing(d) == \A i, j \in DOMAIN d : i < j => d[i] < d[j]
Below(A, B) == \A a \in A, b \in B : a < b

\* The bytes on the wire, and those that are still to be had.
Sent(wire) == UNION {Range(wire[i].data) : i \in DOMAIN wire}
Kept(t) == Sent(t.wire) \cup Range(t.zbuf) \cup Range(t.buf)

\* Bytes leave in the order in which they were given and no byte leaves
\* twice, whether it went through the buffer, past it, or through the
\* compressor, after failures as well, and when a child frees its copy
\* (output.c:251-267, 430-437).
WireInOrder(wire) ==
  \A i \in DOMAIN wire :
    /\ Increasing(wire[i].data)
    /\ \A j \in DOMAIN wire : i < j => Below(Range(wire[i].data), Range(wire[j].data))
Ordered ==
  /\ WireInOrder(s.wire) /\ Increasing(s.zbuf) /\ Increasing(s.buf)
  /\ Below(Sent(s.wire), Range(s.zbuf))
  /\ Below(Sent(s.wire) \cup Range(s.zbuf), Range(s.buf))

\* Without failures nothing is lost, and nothing is left when the response is
\* freed (output.c:413-424).  With one, the application is told of the loss as
\* long as there is a call that can tell (output.c:256-259).
NoSilentLoss ==
  /\ Kept(s) # DOMAIN s.given => Failed(s) /\ (s.told \/ state = "freed")
  /\ state = "freed" /\ ~Failed(s) => Sent(s.wire) = DOMAIN s.given

\* The bytes of the head, or of the body.
Part(t, part) == {n \in DOMAIN t.given : t.given[n] = part}

\* No frame has bytes of both; only the body is compressed, and if it is, then all
\* of it.
FrameOfPart(t, f) ==
  /\ \E part \in {"head", "body"} : Range(f.data) \subseteq Part(t, part)
  /\ f.type = "gzip" => Range(f.data) \subseteq Part(t, "body")
  /\ t.gz /\ f.type = "plain" => Range(f.data) \subseteq Part(t, "head")

\* The head is on its way, as it is, before the body begins, and no frame has
\* bytes of both (output.c:503-526).  The body is compressed if and only if
\* khttp_body said so in a header, or the caller asked for it
\* (output.c:563-578).
HeadThenBody ==
  /\ \A i \in DOMAIN s.wire : FrameOfPart(s, s.wire[i])
  /\ state = "body" => Range(s.zbuf) \cup Range(s.buf) \subseteq Part(s, "body")
  /\ state = "body" => (s.gz <=> encoding # "none")

\* The length of a FastCGI record fits into its header, and its padding is the
\* least that makes a multiple of eight (output.c:117-120).  An empty record
\* ends the stream: it is there once, at the end, followed by the end of the
\* request (output.c:447-463).
Sized(f) ==
  /\ Len(f.data) <= MaxRecord
  /\ f.pad < Align
  /\ (Len(f.data) + f.pad) % Align = 0
EndsStream(f) == f.type = "stdout" /\ f.data = <<>> /\ ~f.cut

Framed ==
  fcgi =>
    /\ \A i \in DOMAIN s.wire :
         /\ s.wire[i].type = "stdout" /\ ~s.wire[i].cut => Sized(s.wire[i])
         /\ EndsStream(s.wire[i]) => state = "freed" /\ i >= Len(s.wire) - 1
    /\ state = "freed" /\ ~Failed(s) =>
         /\ Len(s.wire) >= 2
         /\ s.wire[Len(s.wire)].type = "end"
         /\ EndsStream(s.wire[Len(s.wire) - 1])

=============================================================================

----------------------------- MODULE OutputProofs -----------------------------
(***************************************************************************)
(* Proofs about Output, for buffers, records and writes of any size.       *)
(***************************************************************************)
EXTENDS Output, TLAPS

-----------------------------------------------------------------------------
(* The invariant *)

\* What has left the buffer.
Out(t) == Sent(t.wire) \cup Range(t.zbuf)

\* A record as fcgi_write makes it from data there are, or one that was cut short.
Whole(f) == f.type = "stdout" /\ (~f.cut => Sized(f) /\ f.data # <<>>)

\* What has left the buffer is in order, of one part of the response by the frame, and
\* in records that do not end the stream.
Queue(t) ==
  /\ t \in Response
  /\ WireInOrder(t.wire) /\ Increasing(t.zbuf) /\ Below(Sent(t.wire), Range(t.zbuf))
  /\ \A i \in DOMAIN t.wire : FrameOfPart(t, t.wire[i])
  /\ Range(t.zbuf) \subseteq Part(t, "body")
  /\ ~Compressing(t) => t.zbuf = <<>>
  /\ fcgi => ~t.gz /\ \A i \in DOMAIN t.wire : Whole(t.wire[i])

\* What is in the buffer comes after that, and is of the part that is being written.
Buffer(t) ==
  /\ Len(t.buf) <= outbufsz
  /\ Increasing(t.buf) /\ Below(Out(t), Range(t.buf))
  /\ Range(t.buf) \subseteq Part(t, state)

\* If bytes are lost, something failed, and a call has said so.
Loss(t) ==
  /\ Kept(t) \subseteq DOMAIN t.given
  /\ Kept(t) # DOMAIN t.given => Failed(t) /\ (t.told \/ t.er # "OK")

\* A response as each function of the application leaves it.
Sound(t) ==
  /\ Queue(t) /\ Buffer(t) /\ Loss(t)
  /\ state = "head" => Part(t, "head") = DOMAIN t.given

\* The response has been freed.
Freed(t) ==
  /\ t \in Response /\ WireInOrder(t.wire) /\ t.zbuf = <<>> /\ t.buf = <<>>
  /\ Sent(t.wire) \subseteq DOMAIN t.given
  /\ Failed(t) \/ Sent(t.wire) = DOMAIN t.given
  /\ \A i \in DOMAIN t.wire : FrameOfPart(t, t.wire[i])

\* Compression begins with khttp_body, and is said of the body if it takes place.
Modes ==
  /\ ~begun => state # "body" /\ ~s.gz /\ encoding = "none"
  /\ state = "body" => (s.gz <=> encoding # "none")

IInv ==
  /\ OTypeOK /\ Modes
  /\ state # "freed" => Sound(s) /\ (s.er # "OK" => s.told)
  /\ state = "freed" => Freed(s) /\ Framed

-----------------------------------------------------------------------------
(* One frame *)

Types == {"plain", "gzip", "stdout", "end"}

\* What writing a frame leaves alone.
SameRest(t, u) ==
  /\ u.gz = t.gz /\ u.zbuf = t.zbuf /\ u.buf = t.buf /\ u.given = t.given
  /\ u.nomem = t.nomem /\ u.told = t.told

LEMMA FrameTyped ==
  ASSUME NEW type \in Types, NEW data \in Seq(Nat), NEW pad \in Nat, NEW cut \in BOOLEAN
  PROVE  /\ AsFrame(type, data, pad, cut) \in Frame
         /\ AsFrame(type, data, pad, cut).data = data
         /\ AsFrame(type, data, pad, cut).type = type
         /\ AsFrame(type, data, pad, cut).pad = pad
         /\ AsFrame(type, data, pad, cut).cut = cut
BY DEF AsFrame, Frame, Types

\* A frame that is cut has a beginning of the data.
LEMMA CutFramesTyped ==
  ASSUME NEW type \in Types, NEW data \in Seq(Nat), NEW f \in CutFrames(type, data)
  PROVE  /\ f \in Frame /\ f.type = type /\ f.cut /\ Len(f.data) <= Len(data)
         /\ \A k \in DOMAIN f.data : k \in DOMAIN data /\ f.data[k] = data[k]
<1>1. PICK n \in 0..Len(data) : f = AsFrame(type, SubSeq(data, 1, n), 0, TRUE)
  BY DEF CutFrames
<1>2. /\ SubSeq(data, 1, n) \in Seq(Nat) /\ Len(SubSeq(data, 1, n)) = n /\ n <= Len(data)
      /\ \A k \in 1..n : SubSeq(data, 1, n)[k] = data[k]
  OBVIOUS
<1>3. /\ f \in Frame /\ f.data = SubSeq(data, 1, n) /\ f.type = type /\ f.cut
  BY <1>1, <1>2 DEF AsFrame, Frame, Types
<1> QED
  BY <1>2, <1>3

\* What a call that puts one frame may have done.
PutEffect(t, u, type, data, pad) ==
  /\ u \in Response /\ SameRest(t, u)
  /\ Failed(t) => Failed(u)
  /\ \/ /\ u.er = "OK" /\ t.peer /\ u.peer /\ u.system = t.system
        /\ u.wire = Append(t.wire, AsFrame(type, data, pad, FALSE))
     \/ /\ u.er # "OK" /\ Failed(u) /\ ~t.peer /\ u.wire = t.wire
     \/ /\ u.er # "OK" /\ Failed(u) /\ t.peer
        /\ \E f \in CutFrames(type, data) : u.wire = Append(t.wire, f)

LEMMA PutDoes ==
  ASSUME OutputAssumption, NEW t \in Response, NEW type \in Types, NEW data \in Seq(Nat),
         NEW pad \in Nat, NEW u \in Put(t, type, data, pad)
  PROVE  PutEffect(t, u, type, data, pad)
<1> DEFINE f == AsFrame(type, data, pad, FALSE)
<1>0. t.peer \in BOOLEAN /\ t.system \in 0..MaxSystem /\ t.er \in Errors
  BY DEF Response
<1>1. CASE ~t.peer
  <2>1. u = [t EXCEPT !.er = "HUP"]
    BY <1>1 DEF Put, Return
  <2> QED
    BY <1>1, <2>1 DEF Response, SameRest, Failed, Errors, PutEffect
<1>2. CASE t.peer /\ u = Return([t EXCEPT !.wire = Append(@, f)], "OK")
  <2>1. f \in Frame /\ "OK" \in Errors
    BY FrameTyped DEF Errors
  <2>2. PICK w \in Seq(Frame) : w = Append(t.wire, f)
    <3> HIDE DEF f
    <3>1. Append(t.wire, f) \in Seq(Frame)
      BY <2>1 DEF Response
    <3> QED
      BY <3>1
  <2>3. u = [t EXCEPT !.wire = w, !.peer = t.peer, !.system = t.system, !.er = "OK"]
    BY <1>2, <2>2 DEF Return, Response
  <2>4. /\ u \in Response /\ SameRest(t, u) /\ u.wire = w
        /\ u.peer = t.peer /\ u.system = t.system /\ u.er = "OK"
    <3>1. u \in Response
      BY <2>1, <2>3, <1>0 DEF Response
    <3> QED
      BY <2>3, <3>1 DEF Response, SameRest
  <2> QED
    BY <2>2, <2>4, <1>2 DEF Failed, PutEffect
<1>3. ASSUME t.peer, NEW g \in CutFrames(type, data),
             u = Return([t EXCEPT !.wire = Append(@, g), !.peer = FALSE], "HUP")
      PROVE  /\ u \in Response /\ SameRest(t, u) /\ u.er # "OK" /\ Failed(u)
             /\ u.wire = Append(t.wire, g)
  <2>1. g \in Frame /\ "HUP" \in Errors
    BY CutFramesTyped DEF Errors
  <2>2. PICK w \in Seq(Frame) : w = Append(t.wire, g)
    <3>1. Append(t.wire, g) \in Seq(Frame)
      BY <2>1 DEF Response
    <3> QED
      BY <3>1
  <2>3. u = [t EXCEPT !.wire = w, !.peer = FALSE, !.system = t.system, !.er = "HUP"]
    BY <1>3, <2>2 DEF Return, Response
  <2>4. /\ u \in Response /\ SameRest(t, u) /\ u.wire = w
        /\ u.peer = FALSE /\ u.er = "HUP"
    <3>1. u \in Response
      BY <2>1, <2>3, <1>0 DEF Response
    <3> QED
      BY <2>3, <3>1 DEF Response, SameRest
  <2> QED
    BY <2>2, <2>4 DEF Failed
<1>4. ASSUME t.peer, NEW g \in CutFrames(type, data), t.system < MaxSystem,
             u = Return([t EXCEPT !.wire = Append(@, g), !.system = @ + 1], "SYSTEM")
      PROVE  /\ u \in Response /\ SameRest(t, u) /\ u.er # "OK" /\ Failed(u)
             /\ u.wire = Append(t.wire, g)
  <2>1. g \in Frame /\ "SYSTEM" \in Errors /\ t.system + 1 \in 0..MaxSystem
    BY CutFramesTyped, <1>0, <1>4, OutputAssumption DEF Errors, OutputAssumption
  <2>2. PICK w \in Seq(Frame) : w = Append(t.wire, g)
    <3>1. Append(t.wire, g) \in Seq(Frame)
      BY <2>1 DEF Response
    <3> QED
      BY <3>1
  <2>3. u = [t EXCEPT !.wire = w, !.peer = t.peer, !.system = t.system + 1, !.er = "SYSTEM"]
    BY <1>4, <2>2 DEF Return, Response
  <2>4. /\ u \in Response /\ SameRest(t, u) /\ u.wire = w
        /\ u.system = t.system + 1 /\ u.er = "SYSTEM"
    <3>1. u \in Response
      BY <2>1, <2>3, <1>0 DEF Response
    <3> QED
      BY <2>3, <3>1 DEF Response, SameRest
  <2> QED
    BY <2>2, <2>4, <1>0 DEF Failed
<1>5. CASE t.peer /\ u # Return([t EXCEPT !.wire = Append(@, f)], "OK")
  <2>1. \E g \in CutFrames(type, data) :
          \/ u = Return([t EXCEPT !.wire = Append(@, g), !.peer = FALSE], "HUP")
          \/ t.system < MaxSystem
             /\ u = Return([t EXCEPT !.wire = Append(@, g), !.system = @ + 1], "SYSTEM")
    BY <1>5 DEF Put
  <2> QED
    BY <2>1, <1>3, <1>4, <1>5 DEF PutEffect
<1> QED
  BY <1>1, <1>2, <1>5 DEF PutEffect
-----------------------------------------------------------------------------
(* Records *)

\* Multiples of the record's size, in the linear facts that the records need.
LEMMA Multiples ==
  ASSUME NEW m \in Nat \ {0}, NEW i \in Nat, NEW j \in Nat, i < j
  PROVE  i * m + m <= j * m
<1>1. PICK d \in Nat : j = i + 1 + d
  <2>1. j - i - 1 \in Nat /\ j = i + 1 + (j - i - 1)
    OBVIOUS
  <2> QED
    BY <2>1
<1>2. j * m = i * m + m + d * m
  BY <1>1
<1>3. d * m >= 0
  OBVIOUS
<1> QED
  BY <1>2, <1>3

LEMMA Division ==
  ASSUME NEW m \in Nat \ {0}, NEW l \in Nat
  PROVE  /\ l \div m \in Nat /\ (l \div m) * m <= l /\ l < (l \div m) * m + m
OBVIOUS

\* All of the data are in the records, and no record but the only one is empty.
LEMMA RecordsCount ==
  ASSUME OutputAssumption, NEW l \in Nat
  PROVE  /\ Records(l) \in Nat \ {0}
         /\ l <= Records(l) * MaxRecord
         /\ l = 0 => Records(l) = 1
         /\ \A i \in 1..Records(l) : l # 0 => (i - 1) * MaxRecord < l
<1> DEFINE m == MaxRecord
<1>0. m \in Nat \ {0}
  BY DEF OutputAssumption
<1> HIDE DEF m
<1>1. CASE l = 0
  <2>1. Records(l) = 1
    BY <1>1 DEF Records
  <2> QED
    BY <1>0, <1>1, <2>1 DEF m
<1>2. CASE l # 0
  <2> DEFINE q == (l + m - 1) \div m
  <2>1. q \in Nat /\ q * m <= l + m - 1 /\ l + m - 1 < q * m + m
    <3>1. l + m - 1 \in Nat
      BY <1>0
    <3> QED
      BY <1>0, <3>1, Division
  <2>2. Records(l) = q
    BY <1>2 DEF Records, m
  <2> HIDE DEF q
  <2>3. q # 0
    <3> SUFFICES ASSUME q = 0 PROVE FALSE
      OBVIOUS
    <3>1. q * m = 0
      BY <1>0
    <3> QED
      BY <3>1, <2>1, <1>0, <1>2
  <2>4. ASSUME NEW i \in 1..q PROVE (i - 1) * m < l
    <3>1. i - 1 \in Nat /\ i - 1 < q
      BY <2>1
    <3>2. (i - 1) * m + m <= q * m
      BY <1>0, <2>1, <3>1, Multiples
    <3>3. (i - 1) * m \in Nat /\ q * m \in Nat
      BY <1>0, <2>1, <3>1
    <3> QED
      BY <3>2, <3>3, <2>1, <1>0
  <2>5. q * m \in Nat
    BY <1>0, <2>1
  <2> QED
    BY <2>1, <2>2, <2>3, <2>4, <2>5, <1>0, <1>2 DEF m
<1> QED
  BY <1>1, <1>2

LEMMA EmptySeq ==
  ASSUME NEW d \in Seq(Nat)
  PROVE  d = <<>> <=> Len(d) = 0
OBVIOUS

\* What is in a record.
LEMMA ChunkIs ==
  ASSUME OutputAssumption, NEW data \in Seq(Nat), NEW i \in 1..Records(Len(data))
  PROVE  /\ Chunk(data, i) \in Seq(Nat)
         /\ Len(Chunk(data, i)) <= MaxRecord
         /\ data # <<>> => Chunk(data, i) # <<>>
         /\ data = <<>> => Chunk(data, i) = <<>>
         /\ i * MaxRecord <= Len(data) => Len(Chunk(data, i)) = MaxRecord
         /\ i * MaxRecord > Len(data) => Len(Chunk(data, i)) = Len(data) - (i - 1) * MaxRecord
         /\ \A k \in 1..Len(Chunk(data, i)) :
              /\ (i - 1) * MaxRecord + k \in 1..Len(data)
              /\ Chunk(data, i)[k] = data[(i - 1) * MaxRecord + k]
<1> DEFINE m == MaxRecord
           l == Len(data)
<1>0. m \in Nat \ {0} /\ l \in Nat
  BY DEF OutputAssumption
<1>1. Records(l) \in Nat \ {0} /\ (l = 0 => i = 1) /\ i \in Nat
  <2>1. /\ Records(l) \in Nat \ {0} /\ (l = 0 => Records(l) = 1)
    BY <1>0, RecordsCount
  <2> QED
    BY <2>1
<1>2. PICK a \in Nat : a = (i - 1) * m
  <2>1. i - 1 \in Nat
    BY <1>1
  <2> QED
    BY <2>1, <1>0
<1>3. i * m = a + m
  BY <1>0, <1>1, <1>2
<1>4. l # 0 => a < l
  <2>1. \A j \in 1..Records(l) : l # 0 => (j - 1) * m < l
    BY <1>0, RecordsCount
  <2> QED
    BY <2>1, <1>2
<1>5. l = 0 => a = 0
  BY <1>1, <1>2, <1>0
<1>6. PICK e \in Nat : e = IF a + m < l THEN a + m ELSE l
  BY <1>0
<1>7. Chunk(data, i) = SubSeq(data, a + 1, e)
  BY <1>2, <1>3, <1>6 DEF Chunk
<1>8. a <= e /\ e <= l /\ e - a <= m
  BY <1>0, <1>4, <1>5, <1>6
<1> HIDE DEF m
<1>9. /\ SubSeq(data, a + 1, e) \in Seq(Nat) /\ Len(SubSeq(data, a + 1, e)) = e - a
      /\ \A k \in 1..(e - a) : /\ a + k \in 1..l
                               /\ SubSeq(data, a + 1, e)[k] = data[a + k]
  <2>1. a + 1 \in 1..(l + 1) /\ e \in 0..l
    BY <1>8, <1>0
  <2>2. \A k \in 1..(e - a) : a + k \in 1..l
    BY <1>8, <1>0
  <2>3. /\ SubSeq(data, a + 1, e) \in Seq(Nat) /\ Len(SubSeq(data, a + 1, e)) = e - a
        /\ \A k \in 1..(e - a) : SubSeq(data, a + 1, e)[k] = data[a + 1 + k - 1]
    BY <1>8, <1>0, <2>1
  <2> QED
    BY <2>2, <2>3
<1>10. (data = <<>> <=> l = 0) /\ (SubSeq(data, a + 1, e) = <<>> <=> e - a = 0)
  BY <1>9, EmptySeq
<1>11. /\ i * m <= l => e - a = m
       /\ i * m > l => e - a = l - a
       /\ l # 0 => e - a # 0
       /\ l = 0 => e - a = 0
  BY <1>0, <1>3, <1>4, <1>5, <1>6, <1>8
<1>12. PICK c \in Seq(Nat) : c = Chunk(data, i)
  BY <1>7, <1>9
<1>13. /\ Len(c) = e - a /\ (c = <<>> <=> e - a = 0)
       /\ \A k \in 1..(e - a) : a + k \in 1..l /\ c[k] = data[a + k]
  BY <1>7, <1>9, <1>10, <1>12
<1>14. /\ Len(c) <= m
       /\ data # <<>> => c # <<>>
       /\ data = <<>> => c = <<>>
       /\ i * m <= l => Len(c) = m
       /\ i * m > l => Len(c) = l - a
       /\ \A k \in 1..Len(c) : a + k \in 1..l /\ c[k] = data[a + k]
  BY <1>0, <1>8, <1>10, <1>11, <1>13
<1> QED
  BY <1>2, <1>12, <1>14 DEF m

\* The padding is the least that makes a multiple of the alignment.
LEMMA PadLenIs ==
  ASSUME OutputAssumption, NEW l \in Nat
  PROVE  PadLen(l) \in Nat /\ PadLen(l) < Align /\ (l + PadLen(l)) % Align = 0
<1> DEFINE m == Align
<1>0. m \in Nat \ {0}
  BY DEF OutputAssumption
<1> HIDE DEF m
<1>1. (-l) % m \in Nat /\ (-l) % m < m
  BY <1>0
<1>2. (l + ((-l) % m)) % m = 0
  <2>1. PICK q \in Int : q = (-l) \div m
    BY <1>0
  <2>2. (-l) % m = -l - q * m
    BY <1>0, <2>1
  <2>3. PICK x \in Int : x = (-q) * m
    BY <1>0
  <2>4. l + ((-l) % m) = x
    BY <1>0, <2>2, <2>3
  <2>5. PICK r \in Int : r = x \div m
    BY <1>0
  <2>6. x % m = x - r * m /\ x % m \in 0..(m - 1)
    BY <1>0, <2>5
  <2>7. PICK d \in Int : d = -q - r
    BY <2>1, <2>5
  <2>8. x % m = d * m
    BY <1>0, <2>3, <2>6, <2>7
  <2>9. d > 0 => d * m >= m
    BY <1>0
  <2>10. d < 0 => d * m < 0
    BY <1>0
  <2>11. d = 0 => d * m = 0
    BY <1>0
  <2> QED
    BY <1>0, <2>4, <2>6, <2>8, <2>9, <2>10, <2>11
<1> QED
  BY <1>1, <1>2 DEF PadLen, m

LEMMA RecordIs ==
  ASSUME OutputAssumption, NEW type \in Types, NEW data \in Seq(Nat),
         NEW i \in 1..Records(Len(data))
  PROVE  /\ Record(type, data, i) \in Frame
         /\ Record(type, data, i).data = Chunk(data, i)
         /\ Record(type, data, i).type = type
         /\ Record(type, data, i).pad = PadLen(Len(Chunk(data, i)))
         /\ ~Record(type, data, i).cut
<1>1. PICK c \in Seq(Nat) : c = Chunk(data, i)
  BY ChunkIs
<1>2. PICK p \in Nat : p = PadLen(Len(c))
  BY <1>1, PadLenIs
<1>3. Record(type, data, i) = AsFrame(type, c, p, FALSE)
  BY <1>1, <1>2 DEF Record
<1> QED
  BY <1>1, <1>2, <1>3 DEF AsFrame, Frame, Types

\* What fcgi_write leaves: the records of the data, the last of them cut short if
\* it failed.
RecordsSent(t, u, type, data) ==
  LET n == Len(t.wire)
      k == Len(u.wire) - n
  IN  /\ k \in 0..Records(Len(data))
      /\ \A i \in 1..n : u.wire[i] = t.wire[i]
      /\ \A i \in 1..k : \/ u.wire[n + i] = Record(type, data, i)
                         \/ u.wire[n + i] \in CutFrames(type, Chunk(data, i))
      /\ u.er = "OK" => /\ k = Records(Len(data))
                        /\ \A i \in 1..k : u.wire[n + i] = Record(type, data, i)

\* What a function that fails has left.
Fares(t, u) ==
  /\ u \in Response /\ SameRest(t, u)
  /\ Failed(t) \/ u.er # "OK" => Failed(u)

LEMMA LongerWire ==
  ASSUME NEW w \in Seq(Frame), NEW v \in Seq(Frame)
  PROVE  /\ w \o v \in Seq(Frame) /\ Len(w \o v) = Len(w) + Len(v)
         /\ \A i \in 1..Len(w) : (w \o v)[i] = w[i]
         /\ \A i \in 1..Len(v) : (w \o v)[Len(w) + i] = v[i]
OBVIOUS

LEMMA AppendedWire ==
  ASSUME NEW w \in Seq(Frame), NEW f \in Frame
  PROVE  /\ Append(w, f) \in Seq(Frame) /\ Len(Append(w, f)) = Len(w) + 1
         /\ \A i \in 1..Len(w) : Append(w, f)[i] = w[i]
         /\ Append(w, f)[Len(w) + 1] = f
OBVIOUS

LEMMA fcgi_writeSends ==
  ASSUME OutputAssumption, NEW t \in Response, NEW type \in Types, NEW data \in Seq(Nat),
         NEW u \in fcgi_write(t, type, data)
  PROVE  Fares(t, u) /\ RecordsSent(t, u, type, data)
<1> DEFINE n == Records(Len(data))
           after(k) == [t EXCEPT !.wire = @ \o [i \in 1..k |-> Record(type, data, i)]]
<1>1. n \in Nat \ {0} /\ t.wire \in Seq(Frame)
  BY RecordsCount DEF Response
<1>2. PICK k \in 1..n : /\ t.peer \/ k = 1
                        /\ u \in Put(after(k - 1), type, Chunk(data, k), PadLen(Len(Chunk(data, k))))
                        /\ u.er = "OK" => k = n
  <2>1. PICK k \in IF t.peer THEN 1..n ELSE {1} :
          u \in {x \in Put(after(k - 1), type, Chunk(data, k), PadLen(Len(Chunk(data, k)))) :
                   x.er = "OK" => k = n}
    BY DEF fcgi_write
  <2> HIDE DEF after, n
  <2>2. k \in 1..n /\ (t.peer \/ k = 1)
    BY <1>1, <2>1
  <2>3. /\ u \in Put(after(k - 1), type, Chunk(data, k), PadLen(Len(Chunk(data, k))))
        /\ u.er = "OK" => k = n
    BY <2>1
  <2> QED
    BY <2>2, <2>3
<1>3. PICK c \in Seq(Nat) : c = Chunk(data, k)
  BY <1>1, <1>2, ChunkIs
<1>4. PICK p \in Nat : p = PadLen(Len(c))
  BY PadLenIs, <1>3
<1>5. PICK v \in Seq(Frame) : v = [i \in 1..(k - 1) |-> Record(type, data, i)]
  <2>1. \A i \in 1..(k - 1) : Record(type, data, i) \in Frame
    <3> SUFFICES ASSUME NEW i \in 1..(k - 1) PROVE Record(type, data, i) \in Frame
      OBVIOUS
    <3>1. i \in 1..n
      BY <1>1, <1>2
    <3> QED
      BY <3>1, RecordIs
  <2>2. PICK l \in Nat : l = k - 1
    BY <1>1, <1>2
  <2>3. [i \in 1..l |-> Record(type, data, i)] \in [1..l -> Frame]
    BY <2>1, <2>2
  <2>4. [1..l -> Frame] \subseteq Seq(Frame)
    OBVIOUS
  <2> QED
    BY <2>2, <2>3, <2>4
<1>6. Len(v) = k - 1 /\ \A i \in 1..(k - 1) : v[i] = Record(type, data, i)
  BY <1>1, <1>2, <1>5
<1>7. PICK w \in Seq(Frame) : w = t.wire \o v
  BY <1>1, LongerWire
<1>8. /\ Len(w) = Len(t.wire) + (k - 1)
      /\ \A i \in 1..Len(t.wire) : w[i] = t.wire[i]
      /\ \A i \in 1..(k - 1) : w[Len(t.wire) + i] = Record(type, data, i)
  <2>1. /\ Len(t.wire \o v) = Len(t.wire) + Len(v)
        /\ \A i \in 1..Len(t.wire) : (t.wire \o v)[i] = t.wire[i]
        /\ \A i \in 1..Len(v) : (t.wire \o v)[Len(t.wire) + i] = v[i]
    BY <1>1, LongerWire
  <2> QED
    BY <2>1, <1>6, <1>7
<1>9. PICK b : b = after(k - 1)
  OBVIOUS
<1>10. b \in Response /\ SameRest(t, b) /\ b.wire = w /\ b.peer = t.peer /\ b.system = t.system
  <2>1. b = [t EXCEPT !.wire = w]
    BY <1>5, <1>7, <1>9
  <2>2. b \in Response
    BY <2>1 DEF Response
  <2> QED
    BY <2>1, <2>2 DEF Response, SameRest
<1>11. u \in Put(b, type, c, p)
  BY <1>2, <1>3, <1>4, <1>9
<1> HIDE DEF after
<1>12. /\ u \in Response /\ SameRest(b, u)
       /\ Failed(b) => Failed(u)
       /\ \/ /\ u.er = "OK" /\ u.wire = Append(w, AsFrame(type, c, p, FALSE))
          \/ /\ u.er # "OK" /\ Failed(u) /\ ~t.peer /\ u.wire = w
          \/ /\ u.er # "OK" /\ Failed(u)
             /\ \E f \in CutFrames(type, c) : u.wire = Append(w, f)
  <2>1. PutEffect(b, u, type, c, p)
    BY <1>3, <1>4, <1>10, <1>11, PutDoes
  <2> QED
    BY <2>1, <1>10 DEF PutEffect
<1>13. Fares(t, u)
  BY <1>10, <1>12 DEF Fares, SameRest, Failed
<1>14. CASE u.wire = w /\ u.er # "OK" /\ k = 1
  <2>1. Len(u.wire) = Len(t.wire)
    BY <1>14, <1>8, <1>1
  <2> QED
    BY <1>1, <1>13, <1>14, <1>8, <2>1 DEF RecordsSent
<1>15. ASSUME NEW f \in Frame, u.wire = Append(w, f),
              \/ f = Record(type, data, k)
              \/ f \in CutFrames(type, Chunk(data, k)) /\ u.er # "OK"
       PROVE  RecordsSent(t, u, type, data)
  <2>1. /\ Len(u.wire) = Len(w) + 1
        /\ \A i \in 1..Len(w) : u.wire[i] = w[i]
        /\ u.wire[Len(w) + 1] = f
    BY <1>15, AppendedWire
  <2>2. Len(u.wire) - Len(t.wire) = k /\ Len(w) + 1 = Len(t.wire) + k /\ k \in 1..n
    BY <1>1, <1>2, <1>8, <2>1
  <2>3. \A i \in 1..Len(t.wire) : u.wire[i] = t.wire[i]
    BY <1>1, <1>2, <1>8, <2>1
  <2>4. \A i \in 1..(k - 1) : u.wire[Len(t.wire) + i] = Record(type, data, i)
    <3> SUFFICES ASSUME NEW i \in 1..(k - 1)
                 PROVE  u.wire[Len(t.wire) + i] = Record(type, data, i)
      OBVIOUS
    <3>1. Len(t.wire) + i \in 1..Len(w)
      BY <1>1, <1>2, <1>8
    <3>2. u.wire[Len(t.wire) + i] = w[Len(t.wire) + i]
      BY <3>1, <2>1
    <3> QED
      BY <3>2, <1>8
  <2>5. u.wire[Len(t.wire) + k] = f
    BY <2>1, <2>2
  <2>6. \A i \in 1..k : i \in 1..(k - 1) \/ i = k
    BY <1>2
  <2>7. \A i \in 1..k : \/ u.wire[Len(t.wire) + i] = Record(type, data, i)
                        \/ u.wire[Len(t.wire) + i] \in CutFrames(type, Chunk(data, i))
    BY <1>15, <2>4, <2>5, <2>6
  <2>8. ASSUME u.er = "OK"
        PROVE  k = n /\ \A i \in 1..k : u.wire[Len(t.wire) + i] = Record(type, data, i)
    BY <2>8, <1>2, <1>15, <2>4, <2>5, <2>6
  <2>9. k \in 0..n
    BY <2>2, <1>1
  <2> QED
    BY <2>2, <2>3, <2>7, <2>8, <2>9 DEF RecordsSent
<1>16. AsFrame(type, c, p, FALSE) = Record(type, data, k)
  BY <1>3, <1>4 DEF Record
<1>17. Record(type, data, k) \in Frame /\ \A f \in CutFrames(type, c) : f \in Frame
  BY <1>1, <1>2, <1>3, RecordIs, CutFramesTyped
<1> QED
  BY <1>2, <1>3, <1>12, <1>13, <1>14, <1>15, <1>16, <1>17

-----------------------------------------------------------------------------
(* Data on the wire *)

\* The frames that "u" has on the wire and "t" has not.
Newer(t, u) == (Len(t.wire) + 1)..Len(u.wire)

\* The data went out: a beginning of them, in frames of this type and in order, and
\* without a failure all of them.
Sends(t, u, type, data) ==
  /\ Len(t.wire) <= Len(u.wire)
  /\ \A i \in 1..Len(t.wire) : u.wire[i] = t.wire[i]
  /\ \A i \in Newer(t, u) :
       /\ u.wire[i].type = type
       /\ Increasing(u.wire[i].data)
       /\ Range(u.wire[i].data) \subseteq Range(data)
       /\ \A j \in Newer(t, u) : i < j => Below(Range(u.wire[i].data), Range(u.wire[j].data))
  /\ u.er = "OK" => Range(data) \subseteq UNION {Range(u.wire[i].data) : i \in Newer(t, u)}

\* "d" is found in "data" from a place on.
PartAt(d, data, a) ==
  \A k \in DOMAIN d : a + k \in DOMAIN data /\ d[k] = data[a + k]

LEMMA PartIs ==
  ASSUME NEW data \in Seq(Nat), NEW d \in Seq(Nat), NEW a \in Nat, PartAt(d, data, a)
  PROVE  /\ Range(d) \subseteq Range(data)
         /\ Increasing(data) => Increasing(d)
<1>1. Range(d) \subseteq Range(data)
  BY DEF PartAt, Range
<1>2. ASSUME Increasing(data), NEW i \in DOMAIN d, NEW j \in DOMAIN d, i < j
      PROVE  d[i] < d[j]
  <2>1. /\ a + i \in DOMAIN data /\ d[i] = data[a + i]
        /\ a + j \in DOMAIN data /\ d[j] = data[a + j]
    BY DEF PartAt
  <2>2. a + i < a + j
    BY <1>2
  <2> QED
    BY <2>1, <2>2, <1>2 DEF Increasing
<1> QED
  BY <1>1, <1>2 DEF Increasing

LEMMA PartsInOrder ==
  ASSUME NEW data \in Seq(Nat), Increasing(data),
         NEW d \in Seq(Nat), NEW a \in Nat, PartAt(d, data, a),
         NEW e \in Seq(Nat), NEW b \in Nat, PartAt(e, data, b),
         a + Len(d) <= b
  PROVE  Below(Range(d), Range(e))
<1> SUFFICES ASSUME NEW i \in DOMAIN d, NEW j \in DOMAIN e PROVE d[i] < e[j]
  BY DEF Below, Range
<1>1. /\ a + i \in DOMAIN data /\ d[i] = data[a + i]
      /\ b + j \in DOMAIN data /\ e[j] = data[b + j]
  BY DEF PartAt
<1>2. a + i < b + j
  OBVIOUS
<1> QED
  BY <1>1, <1>2 DEF Increasing

\* A frame that is put whole or cut.
LEMMA PutSends ==
  ASSUME NEW t \in Response, NEW u, NEW type \in Types, NEW data \in Seq(Nat), NEW pad \in Nat,
         Increasing(data), PutEffect(t, u, type, data, pad)
  PROVE  Fares(t, u) /\ Sends(t, u, type, data)
<1>1. t.wire \in Seq(Frame)
  BY DEF Response
<1>2. Fares(t, u)
  BY DEF Fares, PutEffect, SameRest, Failed
<1>3. CASE u.er # "OK" /\ u.wire = t.wire
  <2>1. Len(u.wire) = Len(t.wire) /\ Len(t.wire) \in Nat
    BY <1>1, <1>3
  <2>2. Newer(t, u) = {}
    BY <2>1 DEF Newer
  <2> QED
    BY <1>2, <1>3, <2>1, <2>2 DEF Sends
<1>4. ASSUME NEW f \in Frame, u.wire = Append(t.wire, f), f.type = type, PartAt(f.data, data, 0),
             u.er = "OK" => f.data = data
      PROVE  Sends(t, u, type, data)
  <2>1. /\ Len(u.wire) = Len(t.wire) + 1
        /\ \A i \in 1..Len(t.wire) : u.wire[i] = t.wire[i]
        /\ u.wire[Len(t.wire) + 1] = f
    BY <1>1, <1>4, AppendedWire
  <2>2. Newer(t, u) = {Len(t.wire) + 1}
    BY <1>1, <2>1 DEF Newer
  <2>3. f.data \in Seq(Nat) /\ 0 \in Nat
    BY DEF Frame
  <2>4. Increasing(f.data) /\ Range(f.data) \subseteq Range(data)
    BY <2>3, <1>4, PartIs
  <2>5. u.er = "OK" => Range(data) \subseteq UNION {Range(u.wire[i].data) : i \in Newer(t, u)}
    BY <1>4, <2>1, <2>2
  <2>6. \A i \in Newer(t, u), j \in Newer(t, u) : ~(i < j)
    BY <1>1, <2>2
  <2> QED
    BY <1>1, <1>4, <2>1, <2>2, <2>4, <2>5, <2>6 DEF Sends
<1>5. CASE u.er = "OK" /\ u.wire = Append(t.wire, AsFrame(type, data, pad, FALSE))
  <2>1. PICK f \in Frame : f = AsFrame(type, data, pad, FALSE) /\ f.type = type /\ f.data = data
    <3>1. FALSE \in BOOLEAN
      OBVIOUS
    <3> QED
      BY ZenonT(30), <3>1, FrameTyped
  <2>2. PartAt(f.data, data, 0)
    <3>1. \A k \in DOMAIN data : 0 + k = k
      OBVIOUS
    <3> QED
      BY <2>1, <3>1 DEF PartAt
  <2> QED
    BY <1>2, <1>4, <1>5, <2>1, <2>2
<1>6. CASE u.er # "OK" /\ \E f \in CutFrames(type, data) : u.wire = Append(t.wire, f)
  <2>1. PICK f \in CutFrames(type, data) : u.wire = Append(t.wire, f)
    BY <1>6
  <2>2. /\ f \in Frame /\ f.type = type
        /\ \A k \in DOMAIN f.data : k \in DOMAIN data /\ f.data[k] = data[k]
    BY CutFramesTyped
  <2>3. f.data \in Seq(Nat)
    BY <2>2 DEF Frame
  <2>4. PartAt(f.data, data, 0)
    BY <2>2, <2>3 DEF PartAt
  <2> QED
    BY <1>2, <1>4, <1>6, <2>1, <2>2, <2>4
<1> QED
  BY <1>2, <1>3, <1>5, <1>6 DEF PutEffect

\* The data of the i-th frame that fcgi_write puts.
LEMMA RecordPart ==
  ASSUME OutputAssumption, NEW data \in Seq(Nat), NEW type \in Types, NEW i \in 1..Records(Len(data)),
         NEW f, f = Record(type, data, i) \/ f \in CutFrames(type, Chunk(data, i))
  PROVE  /\ f.type = type /\ f.data \in Seq(Nat) /\ Len(f.data) <= MaxRecord
         /\ (i - 1) * MaxRecord \in Nat
         /\ PartAt(f.data, data, (i - 1) * MaxRecord)
<1>1. PICK c \in Seq(Nat) : c = Chunk(data, i)
  BY ChunkIs
<1>2. PICK a : a = (i - 1) * MaxRecord
  OBVIOUS
<1>3. Records(Len(data)) \in Nat /\ MaxRecord \in Nat
  BY RecordsCount DEF OutputAssumption
<1>4. i - 1 \in Nat
  BY <1>3
<1>5. a \in Nat
  BY <1>2, <1>3, <1>4
<1>6. /\ Len(c) <= MaxRecord
      /\ \A k \in 1..Len(c) : a + k \in 1..Len(data) /\ c[k] = data[a + k]
  BY <1>1, <1>2, ChunkIs
<1>7. CASE f = Record(type, data, i)
  <2>1. f.type = type /\ f.data = c
    BY <1>1, <1>7, RecordIs
  <2>2. PartAt(c, data, a)
    BY <1>6 DEF PartAt
  <2> QED
    BY <1>2, <1>5, <1>6, <2>1, <2>2
<1>8. CASE f \in CutFrames(type, Chunk(data, i))
  <2>1. /\ f.type = type /\ f \in Frame /\ Len(f.data) <= Len(c)
        /\ \A k \in DOMAIN f.data : k \in DOMAIN c /\ f.data[k] = c[k]
    BY <1>1, <1>8, CutFramesTyped
  <2>2. PICK d \in Seq(Nat) : d = f.data
    BY <2>1 DEF Frame
  <2>3. PartAt(d, data, a)
    BY SMTT(30), <1>6, <2>1, <2>2 DEF PartAt
  <2>4. Len(d) <= MaxRecord
    BY <1>3, <1>6, <2>1, <2>2
  <2> QED
    BY <1>2, <1>5, <2>1, <2>2, <2>3, <2>4
<1> QED
  BY <1>7, <1>8

\* The record that a byte is in.
LEMMA RecordOf ==
  ASSUME OutputAssumption, NEW data \in Seq(Nat), NEW j \in 1..Len(data)
  PROVE  \E i \in 1..Records(Len(data)) : \E k \in 1..Len(Chunk(data, i)) :
           Chunk(data, i)[k] = data[j]
<1> DEFINE m == MaxRecord
           n == Records(Len(data))
<1>0. m \in Nat \ {0} /\ j \in Nat \ {0} /\ Len(data) \in Nat
  BY DEF OutputAssumption
<1>1. n \in Nat \ {0} /\ Len(data) <= n * m
  BY <1>0, RecordsCount
<1> HIDE DEF m, n
<1>2. PICK q : q = (j - 1) \div m
  OBVIOUS
<1>3. q \in Nat /\ q * m <= j - 1 /\ j - 1 < q * m + m
  <2>1. j - 1 \in Nat
    BY <1>0
  <2> QED
    BY <1>0, <1>2, <2>1, Division
<1>4. q < n
  <2> SUFFICES ASSUME ~(q < n) PROVE FALSE
    OBVIOUS
  <2>1. q = n \/ n < q
    BY <1>1, <1>3
  <2>2. q * m \in Nat /\ n * m \in Nat
    BY <1>0, <1>1, <1>3
  <2>3. n * m <= q * m
    <3>1. CASE q = n
      BY <3>1, <2>2
    <3>2. CASE n < q
      <4>1. n * m + m <= q * m
        BY <3>2, <1>0, <1>1, <1>3, Multiples
      <4> QED
        BY <4>1, <2>2, <1>0
    <3> QED
      BY <2>1, <3>1, <3>2
  <2> QED
    BY <2>2, <2>3, <1>0, <1>1, <1>3
<1>5. PICK i \in 1..n : i = q + 1
  BY <1>1, <1>3, <1>4
<1>6. PICK a \in Nat : a = q * m /\ a = (i - 1) * m /\ a + m = i * m
  <2>1. q * m \in Nat
    BY <1>0, <1>3
  <2>2. i - 1 = q
    BY <1>3, <1>5
  <2>3. i * m = q * m + m
    BY <1>0, <1>3, <1>5
  <2> QED
    BY <2>1, <2>2, <2>3
<1>7. PICK c \in Seq(Nat) : c = Chunk(data, i)
  BY ChunkIs DEF n
<1>8. /\ a + m <= Len(data) => Len(c) = m
      /\ a + m > Len(data) => Len(c) = Len(data) - a
      /\ \A k \in 1..Len(c) : c[k] = data[a + k]
  BY SMTT(30), <1>6, <1>7, ChunkIs DEF n, m
<1>9. PICK k \in 1..Len(c) : k = j - a
  BY <1>0, <1>3, <1>6, <1>8
<1>10. c[k] = data[j]
  <2>1. a + k = j
    BY <1>9, <1>6, <1>0
  <2> QED
    BY <2>1, <1>8
<1> QED
  BY <1>5, <1>7, <1>9, <1>10 DEF n

\* Which record a newer frame is of.
LEMMA NewerRecord ==
  ASSUME OutputAssumption, NEW t \in Response, NEW u \in Response, NEW type \in Types,
         NEW data \in Seq(Nat), RecordsSent(t, u, type, data), NEW i \in Newer(t, u)
  PROVE  \E p \in 1..Records(Len(data)) :
           /\ p = i - Len(t.wire)
           /\ \/ u.wire[i] = Record(type, data, p)
              \/ u.wire[i] \in CutFrames(type, Chunk(data, p))
<1> DEFINE n == Len(t.wire)
           k == Len(u.wire) - n
<1>0. n \in Nat /\ Len(u.wire) \in Nat /\ Records(Len(data)) \in Nat
  <2>1. t.wire \in Seq(Frame) /\ u.wire \in Seq(Frame)
    BY DEF Response
  <2>2. Records(Len(data)) \in Nat
    BY RecordsCount
  <2> QED
    BY <2>1, <2>2
<1>1. k \in 0..Records(Len(data))
  BY DEF RecordsSent
<1>2. i \in (n + 1)..Len(u.wire)
  BY DEF Newer
<1>3. i - n \in 1..k /\ i = n + (i - n)
  BY <1>0, <1>2
<1>4. i - n \in 1..Records(Len(data))
  <2>1. k \in Nat /\ k <= Records(Len(data))
    <3> HIDE DEF k, n
    <3>1. k \in 0..Records(Len(data)) /\ Records(Len(data)) \in Nat
      BY <1>0, <1>1
    <3> QED
      BY <3>1
  <2> HIDE DEF k
  <2> QED
    BY <1>0, <1>3, <2>1
<1>5. \/ u.wire[i] = Record(type, data, i - n)
      \/ u.wire[i] \in CutFrames(type, Chunk(data, i - n))
  BY <1>3, <1>4 DEF RecordsSent
<1> QED
  BY <1>4, <1>5

LEMMA RecordsSend ==
  ASSUME OutputAssumption, NEW t \in Response, NEW u \in Response, NEW type \in Types,
         NEW data \in Seq(Nat), Increasing(data), RecordsSent(t, u, type, data)
  PROVE  Sends(t, u, type, data)
<1> DEFINE n == Len(t.wire)
           m == MaxRecord
           k == Len(u.wire) - n
<1>0. m \in Nat \ {0} /\ n \in Nat /\ Len(u.wire) \in Nat /\ Records(Len(data)) \in Nat
  <2>1. t.wire \in Seq(Frame) /\ u.wire \in Seq(Frame)
    BY DEF Response
  <2>2. Records(Len(data)) \in Nat /\ m \in Nat \ {0}
    BY RecordsCount DEF OutputAssumption
  <2> QED
    BY <2>1, <2>2
<1>1. k \in 0..Records(Len(data)) /\ \A i \in 1..n : u.wire[i] = t.wire[i]
  BY DEF RecordsSent
<1>2. ASSUME NEW i \in Newer(t, u)
      PROVE  /\ i - n \in 1..Records(Len(data))
             /\ \/ u.wire[i] = Record(type, data, i - n)
                \/ u.wire[i] \in CutFrames(type, Chunk(data, i - n))
  BY NewerRecord
<1>3. ASSUME NEW i \in Newer(t, u)
      PROVE  /\ u.wire[i].type = type
             /\ u.wire[i].data \in Seq(Nat) /\ Len(u.wire[i].data) <= m
             /\ ((i - n) - 1) * m \in Nat
             /\ PartAt(u.wire[i].data, data, ((i - n) - 1) * m)
  <2>1. PICK p \in 1..Records(Len(data)) : p = i - n
    BY <1>2
  <2>2. u.wire[i] = Record(type, data, p) \/ u.wire[i] \in CutFrames(type, Chunk(data, p))
    BY <1>2, <2>1
  <2> QED
    BY <2>1, <2>2, RecordPart
<1>4. ASSUME NEW i \in Newer(t, u)
      PROVE  Increasing(u.wire[i].data) /\ Range(u.wire[i].data) \subseteq Range(data)
  BY <1>3, PartIs
<1>5. ASSUME NEW i \in Newer(t, u), NEW j \in Newer(t, u), i < j
      PROVE  Below(Range(u.wire[i].data), Range(u.wire[j].data))
  <2>1. PICK d \in Seq(Nat) : d = u.wire[i].data /\ Len(d) <= m
    BY <1>3
  <2>2. PICK e \in Seq(Nat) : e = u.wire[j].data
    BY <1>3
  <2>3. PICK a \in Nat : a = ((i - n) - 1) * m /\ PartAt(d, data, a)
    BY <1>3, <2>1
  <2>4. PICK b \in Nat : b = ((j - n) - 1) * m /\ PartAt(e, data, b)
    BY <1>3, <2>2
  <2>5. (i - n) - 1 \in Nat /\ (j - n) - 1 \in Nat /\ (i - n) - 1 < (j - n) - 1
    BY <1>0, <1>2, <1>5 DEF Newer
  <2>6. a + m <= b
    BY <1>0, <2>3, <2>4, <2>5, Multiples
  <2>7. a + Len(d) <= b
    <3>1. Len(d) \in Nat /\ Len(d) <= m /\ m \in Nat
      BY SMTT(30), <1>0, <2>1
    <3> HIDE DEF m
    <3> QED
      BY <2>6, <3>1
  <2> QED
    BY <2>1, <2>2, <2>3, <2>4, <2>7, PartsInOrder
<1>6. ASSUME u.er = "OK", NEW x \in Range(data)
      PROVE  \E i \in Newer(t, u) : x \in Range(u.wire[i].data)
  <2>1. PICK j \in 1..Len(data) : x = data[j]
    BY DEF Range
  <2>2. PICK p \in 1..Records(Len(data)) : \E l \in 1..Len(Chunk(data, p)) : Chunk(data, p)[l] = data[j]
    BY RecordOf
  <2>3. k = Records(Len(data)) /\ u.wire[n + p] = Record(type, data, p)
    BY <1>6 DEF RecordsSent
  <2>4. n + p \in Newer(t, u)
    <3>1. n + p >= n + 1 /\ n + p <= Len(u.wire) /\ n + p \in Int
      <4>1. p \in Nat /\ p >= 1 /\ p <= Records(Len(data))
        BY <1>0
      <4>2. Len(u.wire) - n = Records(Len(data))
        BY <2>3
      <4> HIDE DEF n
      <4> QED
        BY <1>0, <4>1, <4>2
    <3> QED
      BY <3>1 DEF Newer
  <2>5. u.wire[n + p].data = Chunk(data, p) /\ Chunk(data, p) \in Seq(Nat)
    BY <2>3, RecordIs, ChunkIs
  <2>6. x \in Range(u.wire[n + p].data)
    BY <2>1, <2>2, <2>5 DEF Range
  <2> QED
    BY <2>4, <2>6
<1>7. n <= Len(u.wire)
  BY <1>0, <1>1
<1> QED
  BY <1>1, <1>3, <1>4, <1>5, <1>6, <1>7 DEF Sends

-----------------------------------------------------------------------------
(* What the functions do to what has left the buffer *)

\* What a function may have done with data that came after everything: nothing but
\* the wire and the compressor is touched, nothing is made up, and without a failure
\* nothing is lost.
Passed(t, u, data) ==
  /\ u \in Response
  /\ u.gz = t.gz /\ u.buf = t.buf /\ u.given = t.given
  /\ u.nomem = t.nomem /\ u.told = t.told
  /\ Failed(t) \/ u.er # "OK" => Failed(u)
  /\ Out(u) \subseteq Out(t) \cup Range(data)
  /\ u.er = "OK" => Out(u) = Out(t) \cup Range(data)

LEMMA SentBy ==
  ASSUME NEW t \in Response, NEW u \in Response, NEW type \in Types, NEW data \in Seq(Nat),
         Sends(t, u, type, data)
  PROVE  /\ Sent(t.wire) \subseteq Sent(u.wire)
         /\ Sent(u.wire) \subseteq Sent(t.wire) \cup Range(data)
         /\ u.er = "OK" => Sent(u.wire) = Sent(t.wire) \cup Range(data)
         /\ \A i \in DOMAIN u.wire : i \in DOMAIN t.wire \/ i \in Newer(t, u)
         /\ DOMAIN t.wire \subseteq DOMAIN u.wire /\ Newer(t, u) \subseteq DOMAIN u.wire
         /\ \A i \in DOMAIN t.wire : u.wire[i] = t.wire[i]
         /\ \A i \in DOMAIN t.wire, j \in Newer(t, u) : i < j
<1>0. t.wire \in Seq(Frame) /\ u.wire \in Seq(Frame)
  BY DEF Response
<1>1. /\ DOMAIN t.wire = 1..Len(t.wire) /\ DOMAIN u.wire = 1..Len(u.wire)
      /\ Len(t.wire) \in Nat /\ Len(u.wire) \in Nat /\ Len(t.wire) <= Len(u.wire)
  BY <1>0 DEF Sends
<1>2. /\ \A i \in DOMAIN u.wire : i \in DOMAIN t.wire \/ i \in Newer(t, u)
      /\ DOMAIN t.wire \subseteq DOMAIN u.wire /\ Newer(t, u) \subseteq DOMAIN u.wire
      /\ \A i \in DOMAIN t.wire, j \in Newer(t, u) : i < j
  BY <1>1 DEF Newer
<1>3. \A i \in DOMAIN t.wire : u.wire[i] = t.wire[i]
  BY <1>1 DEF Sends
<1>4. Sent(t.wire) \subseteq Sent(u.wire)
  BY <1>2, <1>3 DEF Sent
<1>5. \A i \in Newer(t, u) : Range(u.wire[i].data) \subseteq Range(data)
  BY DEF Sends
<1>6. Sent(u.wire) \subseteq Sent(t.wire) \cup Range(data)
  BY <1>2, <1>3, <1>5 DEF Sent
<1>7. u.er = "OK" => Range(data) \subseteq Sent(u.wire)
  BY <1>2 DEF Sends, Sent
<1> QED
  BY <1>2, <1>3, <1>4, <1>6, <1>7

LEMMA SentInOrder ==
  ASSUME NEW t \in Response, NEW u \in Response, NEW type \in Types, NEW data \in Seq(Nat),
         Sends(t, u, type, data), WireInOrder(t.wire), Below(Sent(t.wire), Range(data))
  PROVE  WireInOrder(u.wire)
<1> SUFFICES ASSUME NEW i \in DOMAIN u.wire
             PROVE  /\ Increasing(u.wire[i].data)
                    /\ \A j \in DOMAIN u.wire :
                         i < j => Below(Range(u.wire[i].data), Range(u.wire[j].data))
  BY DEF WireInOrder
<1>1. Increasing(u.wire[i].data)
  BY SentBy DEF Sends, WireInOrder
<1>2. ASSUME NEW j \in DOMAIN u.wire, i < j
      PROVE  Below(Range(u.wire[i].data), Range(u.wire[j].data))
  <2>1. CASE i \in DOMAIN t.wire /\ j \in DOMAIN t.wire
    BY <1>2, <2>1, SentBy DEF WireInOrder
  <2>2. CASE i \in DOMAIN t.wire /\ j \in Newer(t, u)
    <3>1. Range(u.wire[i].data) \subseteq Sent(t.wire)
      BY <2>2, SentBy DEF Sent
    <3>2. Range(u.wire[j].data) \subseteq Range(data)
      BY <2>2 DEF Sends
    <3> QED
      BY <3>1, <3>2 DEF Below
  <2>3. CASE i \in Newer(t, u) /\ j \in Newer(t, u)
    BY <1>2, <2>3 DEF Sends
  <2>4. i \in Newer(t, u) /\ j \in DOMAIN t.wire => j < i
    BY SentBy
  <2>5. i \in Int /\ j \in Int
    BY SMTT(30) DEF Response
  <2>6. ~(i \in Newer(t, u) /\ j \in DOMAIN t.wire)
    BY <1>2, <2>4, <2>5
  <2> QED
    BY <2>1, <2>2, <2>3, <2>6, SentBy
<1> QED
  BY <1>1, <1>2

\* What is known of a frame depends on the parts of the response only.
LEMMA SamePart ==
  ASSUME NEW t, NEW u, u.given = t.given
  PROVE  \A part : Part(u, part) = Part(t, part)
BY DEF Part

LEMMA SentOfPart ==
  ASSUME NEW t \in Response, NEW u \in Response, NEW type \in Types, NEW z \in Seq(Nat),
         Sends(t, u, type, z), u.gz = t.gz, u.given = t.given,
         \A i \in DOMAIN t.wire : FrameOfPart(t, t.wire[i]),
         NEW part \in {"head", "body"}, Range(z) \subseteq Part(t, part),
         type = "gzip" => part = "body",
         t.gz /\ type = "plain" => part = "head"
  PROVE  \A i \in DOMAIN u.wire : FrameOfPart(u, u.wire[i])
<1> SUFFICES ASSUME NEW i \in DOMAIN u.wire PROVE FrameOfPart(u, u.wire[i])
  OBVIOUS
<1>1. Part(u, "head") = Part(t, "head") /\ Part(u, "body") = Part(t, "body")
  BY SamePart
<1>2. CASE i \in DOMAIN t.wire
  <2>1. u.wire[i] = t.wire[i] /\ FrameOfPart(t, t.wire[i])
    BY <1>2, SentBy
  <2> QED
    BY <1>1, <2>1 DEF FrameOfPart
<1>3. CASE i \in Newer(t, u)
  <2>1. u.wire[i].type = type /\ Range(u.wire[i].data) \subseteq Range(z)
    BY <1>3 DEF Sends
  <2>2. Range(u.wire[i].data) \subseteq Part(u, part)
    BY <1>1, <2>1
  <2> QED
    BY <2>1, <2>2 DEF FrameOfPart
<1> QED
  BY <1>2, <1>3, SentBy

LEMMA QueueSends ==
  ASSUME NEW t, Queue(t), NEW u \in Response, u.gz = t.gz, u.given = t.given, u.zbuf = <<>>,
         NEW type \in Types, NEW z \in Seq(Nat),
         Sends(t, u, type, z), Below(Sent(t.wire), Range(z)),
         NEW part \in {"head", "body"}, Range(z) \subseteq Part(t, part),
         type = "gzip" => part = "body",
         t.gz /\ type = "plain" => part = "head",
         fcgi => \A i \in Newer(t, u) : Whole(u.wire[i])
  PROVE  Queue(u)
<1>1. t \in Response
  BY DEF Queue
<1>2. WireInOrder(u.wire)
  BY <1>1, SentInOrder DEF Queue
<1>3. \A i \in DOMAIN u.wire : FrameOfPart(u, u.wire[i])
  <2>1. \A i \in DOMAIN t.wire : FrameOfPart(t, t.wire[i])
    BY DEF Queue
  <2> QED
    BY <1>1, <2>1, SentOfPart
<1>4. Range(u.zbuf) = {} /\ Increasing(u.zbuf)
  BY DEF Range, Increasing
<1>5. ASSUME fcgi
      PROVE  ~u.gz /\ \A i \in DOMAIN u.wire : Whole(u.wire[i])
  <2>1. ~t.gz /\ \A i \in DOMAIN t.wire : Whole(t.wire[i])
    BY <1>5 DEF Queue
  <2> QED
    BY <1>1, <1>5, <2>1, SentBy
<1> QED
  BY <1>2, <1>3, <1>4, <1>5 DEF Queue, Below

LEMMA Joined ==
  ASSUME NEW z \in Seq(Nat), NEW d \in Seq(Nat)
  PROVE  /\ z \o d \in Seq(Nat) /\ Len(z \o d) = Len(z) + Len(d)
         /\ Range(z \o d) = Range(z) \cup Range(d)
         /\ Increasing(z) /\ Increasing(d) /\ Below(Range(z), Range(d)) => Increasing(z \o d)
<1> DEFINE w == z \o d
<1>1. /\ w \in Seq(Nat) /\ Len(w) = Len(z) + Len(d)
      /\ \A i \in 1..Len(z) : w[i] = z[i]
      /\ \A i \in 1..Len(d) : w[Len(z) + i] = d[i]
  OBVIOUS
<1> HIDE DEF w
<1>2. \A i \in 1..Len(w) : i \in 1..Len(z) \/ i - Len(z) \in 1..Len(d)
  BY <1>1
<1>3. \A i \in 1..Len(w) : i - Len(z) \in 1..Len(d) => w[i] = d[i - Len(z)]
  <2> SUFFICES ASSUME NEW i \in 1..Len(w), i - Len(z) \in 1..Len(d) PROVE w[i] = d[i - Len(z)]
    OBVIOUS
  <2>1. Len(z) + (i - Len(z)) = i
    BY <1>1
  <2> QED
    BY <1>1, <2>1
<1>0. /\ DOMAIN w = 1..Len(w) /\ DOMAIN z = 1..Len(z) /\ DOMAIN d = 1..Len(d)
      /\ \A x : x \in Range(w) <=> \E i \in 1..Len(w) : x = w[i]
      /\ \A x : x \in Range(z) <=> \E i \in 1..Len(z) : x = z[i]
      /\ \A x : x \in Range(d) <=> \E i \in 1..Len(d) : x = d[i]
  <2>1. DOMAIN w = 1..Len(w) /\ DOMAIN z = 1..Len(z) /\ DOMAIN d = 1..Len(d)
    BY <1>1
  <2> QED
    BY <2>1 DEF Range
<1>4. Range(w) \subseteq Range(z) \cup Range(d)
  <2> SUFFICES ASSUME NEW i \in 1..Len(w) PROVE w[i] \in Range(z) \cup Range(d)
    BY <1>0
  <2>1. CASE i \in 1..Len(z)
    BY <1>0, <1>1, <2>1
  <2>2. CASE i - Len(z) \in 1..Len(d)
    BY <1>0, <1>3, <2>2
  <2> QED
    BY <1>2, <2>1, <2>2
<1>5. Range(z) \subseteq Range(w) /\ Range(d) \subseteq Range(w)
  <2>1. \A i \in 1..Len(z) : i \in 1..Len(w)
    BY <1>1
  <2>2. \A i \in 1..Len(d) : Len(z) + i \in 1..Len(w)
    BY <1>1
  <2> QED
    <3>1. ASSUME NEW i \in 1..Len(z) PROVE z[i] \in Range(w)
      BY <1>0, <1>1, <2>1
    <3>2. ASSUME NEW i \in 1..Len(d) PROVE d[i] \in Range(w)
      BY <1>0, <1>1, <2>2
    <3> QED
      BY <1>0, <3>1, <3>2
<1>6. ASSUME Increasing(z), Increasing(d), Below(Range(z), Range(d))
      PROVE  Increasing(w)
  <2> SUFFICES ASSUME NEW i \in 1..Len(w), NEW j \in 1..Len(w), i < j PROVE w[i] < w[j]
    BY <1>1 DEF Increasing
  <2>1. CASE i \in 1..Len(z) /\ j \in 1..Len(z)
    <3>1. w[i] = z[i] /\ w[j] = z[j]
      BY <1>1, <2>1
    <3> QED
      BY <1>0, <1>6, <2>1, <3>1 DEF Increasing
  <2>2. CASE i \in 1..Len(z) /\ j - Len(z) \in 1..Len(d)
    <3>1. w[i] \in Range(z) /\ w[j] \in Range(d)
      <4>1. w[i] = z[i] /\ w[j] = d[j - Len(z)]
        BY <1>1, <1>3, <2>2
      <4> QED
        BY <1>0, <2>2, <4>1
    <3> QED
      BY <3>1, <1>6 DEF Below
  <2>3. CASE i - Len(z) \in 1..Len(d) /\ j - Len(z) \in 1..Len(d)
    <3>1. i - Len(z) < j - Len(z)
      BY <1>1
    <3>2. w[i] = d[i - Len(z)] /\ w[j] = d[j - Len(z)]
      BY <1>3, <2>3
    <3> QED
      BY <1>6, <2>3, <3>1, <3>2 DEF Increasing
  <2>4. ~(i - Len(z) \in 1..Len(d) /\ j \in 1..Len(z))
    BY <1>1
  <2> QED
    BY <1>2, <2>1, <2>2, <2>3, <2>4
<1> QED
  BY <1>1, <1>4, <1>5, <1>6 DEF w

-----------------------------------------------------------------------------
(* Flushing *)

\* Data that may follow what has left the buffer.
Follows(t, data) ==
  /\ data \in Seq(Nat) /\ Increasing(data)
  /\ Below(Out(t), Range(data)) /\ Range(data) \subseteq Part(t, state)

LEMMA WholeRecords ==
  ASSUME OutputAssumption, NEW t \in Response, NEW u \in Response, NEW data \in Seq(Nat),
         data # <<>>, RecordsSent(t, u, "stdout", data)
  PROVE  \A i \in Newer(t, u) : Whole(u.wire[i])
<1> SUFFICES ASSUME NEW i \in Newer(t, u) PROVE Whole(u.wire[i])
  OBVIOUS
<1>1. PICK p \in 1..Records(Len(data)) :
        \/ u.wire[i] = Record("stdout", data, p)
        \/ u.wire[i] \in CutFrames("stdout", Chunk(data, p))
  <2>1. "stdout" \in Types
    BY DEF Types
  <2> QED
    BY <2>1, NewerRecord
<1>2. "stdout" \in Types
  BY DEF Types
<1>3. Chunk(data, p) \in Seq(Nat) /\ Len(Chunk(data, p)) <= MaxRecord /\ Chunk(data, p) # <<>>
  BY ChunkIs
<1>4. PICK c \in Seq(Nat) : c = Chunk(data, p)
  BY <1>3
<1>5. CASE u.wire[i] = Record("stdout", data, p)
  <2>1. /\ u.wire[i].data = c /\ u.wire[i].type = "stdout"
        /\ u.wire[i].pad = PadLen(Len(c)) /\ ~u.wire[i].cut
    BY <1>2, <1>4, <1>5, RecordIs
  <2>2. PadLen(Len(c)) < Align /\ (Len(c) + PadLen(Len(c))) % Align = 0
    BY PadLenIs
  <2> QED
    BY <1>3, <1>4, <2>1, <2>2 DEF Whole, Sized
<1>6. CASE u.wire[i] \in CutFrames("stdout", Chunk(data, p))
  <2>1. u.wire[i].type = "stdout" /\ u.wire[i].cut
    BY <1>2, <1>4, <1>6, CutFramesTyped
  <2> QED
    BY <2>1 DEF Whole
<1> QED
  BY <1>1, <1>5, <1>6

\* Without a compressor.
LEMMA PlainFlush ==
  ASSUME OutputAssumption, state \in {"head", "body"},
         NEW t, Queue(t), NEW data, Follows(t, data), data # <<>>, ~Compressing(t),
         NEW u, IF fcgi THEN u \in fcgi_write(t, "stdout", data)
                        ELSE u \in Put(t, "plain", data, 0)
  PROVE  Queue(u) /\ Passed(t, u, data)
<1>1. /\ t \in Response /\ data \in Seq(Nat) /\ Increasing(data) /\ t.zbuf = <<>>
      /\ Range(data) \subseteq Part(t, state)
  BY DEF Queue, Follows
<1>2. Below(Sent(t.wire), Range(data))
  BY DEF Follows, Out, Below
<1>3. "stdout" \in Types /\ "plain" \in Types /\ 0 \in Nat
  BY DEF Types
<1>4. PICK type \in {"stdout", "plain"} :
        /\ Fares(t, u) /\ Sends(t, u, type, data)
        /\ fcgi => \A i \in Newer(t, u) : Whole(u.wire[i])
        /\ type = "plain" => ~fcgi
  <2>1. CASE fcgi
    <3>1. Fares(t, u) /\ RecordsSent(t, u, "stdout", data)
      BY <1>1, <1>3, <2>1, fcgi_writeSends
    <3>2. u \in Response
      BY <3>1 DEF Fares
    <3>3. Sends(t, u, "stdout", data)
      BY <1>1, <1>3, <3>1, <3>2, RecordsSend
    <3>4. \A i \in Newer(t, u) : Whole(u.wire[i])
      BY <1>1, <3>1, <3>2, WholeRecords
    <3> QED
      BY <2>1, <3>1, <3>3, <3>4
  <2>2. CASE ~fcgi
    <3>1. PutEffect(t, u, "plain", data, 0)
      BY <1>1, <1>3, <2>2, PutDoes
    <3>2. Fares(t, u) /\ Sends(t, u, "plain", data)
      BY <1>1, <1>3, <3>1, PutSends
    <3> QED
      BY <2>2, <3>2
  <2> QED
    BY <2>1, <2>2
<1>5. /\ u \in Response /\ u.gz = t.gz /\ u.given = t.given /\ u.zbuf = <<>> /\ type \in Types
  BY <1>1, <1>3, <1>4 DEF Fares, SameRest
<1>6. t.gz /\ type = "plain" => state = "head"
  BY DEF Compressing
<1>7. Queue(u)
  BY <1>1, <1>2, <1>4, <1>5, <1>6, QueueSends
<1>8. /\ Sent(u.wire) \subseteq Sent(t.wire) \cup Range(data)
      /\ u.er = "OK" => Sent(u.wire) = Sent(t.wire) \cup Range(data)
  BY <1>1, <1>4, <1>5, SentBy
<1>9. Out(u) = Sent(u.wire) /\ Out(t) = Sent(t.wire)
  BY <1>1, <1>5 DEF Out, Range
<1> QED
  BY <1>4, <1>7, <1>8, <1>9 DEF Passed, Fares, SameRest

\* With a compressor: it keeps the data, or everything goes out.
LEMMA GzFlush ==
  ASSUME OutputAssumption, state \in {"head", "body"},
         NEW t, Queue(t), NEW data, Follows(t, data), Compressing(t),
         NEW u \in gzwrite(t, data)
  PROVE  Queue(u) /\ Passed(t, u, data)
<1>1. /\ t \in Response /\ data \in Seq(Nat) /\ Increasing(data) /\ t.zbuf \in Seq(Nat)
      /\ Increasing(t.zbuf) /\ state = "body" /\ t.gz /\ ~fcgi
      /\ Range(data) \subseteq Part(t, "body") /\ Range(t.zbuf) \subseteq Part(t, "body")
  BY DEF Queue, Follows, Compressing, Response
<1>2. Below(Range(t.zbuf), Range(data)) /\ Below(Sent(t.wire), Range(data))
  BY DEF Follows, Out, Below
<1>3. PICK z \in Seq(Nat) : z = t.zbuf \o data
  BY <1>1, Joined
<1>4. Increasing(z) /\ Range(z) = Range(t.zbuf) \cup Range(data)
  BY <1>1, <1>2, <1>3, Joined
<1>5. Below(Sent(t.wire), Range(z)) /\ Range(z) \subseteq Part(t, "body")
  BY <1>1, <1>2, <1>4 DEF Queue, Below
<1>6. CASE u = Return([t EXCEPT !.zbuf = @ \o data], "OK")
  <2>1. u = [t EXCEPT !.zbuf = z, !.er = "OK"]
    BY <1>3, <1>6 DEF Return
  <2>2. u \in Response
    BY <1>1, <2>1 DEF Response, Errors
  <2>3. /\ u.zbuf = z /\ u.wire = t.wire /\ u.gz = t.gz /\ u.buf = t.buf /\ u.given = t.given
        /\ u.nomem = t.nomem /\ u.told = t.told /\ u.peer = t.peer /\ u.system = t.system
        /\ u.er = "OK"
    BY <1>1, <2>1 DEF Response
  <2>4. \A i \in DOMAIN u.wire : FrameOfPart(u, u.wire[i])
    BY <2>3, SamePart DEF Queue, FrameOfPart
  <2>5. Range(u.zbuf) \subseteq Part(u, "body")
    BY <1>5, <2>3, SamePart
  <2>6. Compressing(u)
    BY <1>1, <2>3 DEF Compressing
  <2>7. Queue(u)
    BY <1>1, <1>4, <1>5, <2>2, <2>3, <2>4, <2>5, <2>6 DEF Queue
  <2>8. Out(u) = Out(t) \cup Range(data)
    BY <1>4, <2>3 DEF Out
  <2> QED
    BY <2>2, <2>3, <2>7, <2>8 DEF Passed, Failed
<1>7. ASSUME NEW v \in Put(t, "gzip", z, 0),
             u = Return([v EXCEPT !.zbuf = <<>>], IF v.er = "OK" THEN "OK" ELSE "SYSTEM")
      PROVE  Queue(u) /\ Passed(t, u, data)
  <2>1. "gzip" \in Types /\ 0 \in Nat
    BY DEF Types
  <2>2. PutEffect(t, v, "gzip", z, 0)
    BY <1>1, <2>1, PutDoes
  <2>3. Fares(t, v) /\ Sends(t, v, "gzip", z)
    BY <1>1, <1>4, <2>1, <2>2, PutSends
  <2>4. v \in Response /\ SameRest(t, v) /\ (Failed(t) \/ v.er # "OK" => Failed(v))
    BY <2>3 DEF Fares
  <2>5. PICK er \in Errors : er = IF v.er = "OK" THEN "OK" ELSE "SYSTEM"
    BY DEF Errors
  <2>6. u = [v EXCEPT !.zbuf = <<>>, !.er = er]
    BY <1>7, <2>5 DEF Return
  <2>7. u \in Response
    <3>1. v \in Response /\ er \in Errors
      BY <2>4
    <3>2. PICK e \in Seq(Nat) : e = <<>>
      <4>1. <<>> \in Seq(Nat)
        OBVIOUS
      <4> QED
        BY <4>1
    <3>3. [v EXCEPT !.zbuf = e, !.er = er] \in Response
      BY <3>1 DEF Response
    <3> QED
      BY <3>2, <3>3, <2>6
  <2>8. /\ u.zbuf = <<>> /\ u.wire = v.wire /\ u.gz = v.gz /\ u.buf = v.buf /\ u.given = v.given
        /\ u.nomem = v.nomem /\ u.told = v.told /\ u.peer = v.peer /\ u.system = v.system
        /\ u.er = er
    <3>1. v \in Response
      BY <2>4
    <3> QED
      BY <3>1, <2>6 DEF Response
  <2>9. u.er = "OK" <=> v.er = "OK"
    BY <2>5, <2>8
  <2>10. Sends(t, u, "gzip", z)
    BY <2>3, <2>8, <2>9 DEF Sends, Newer
  <2>11. /\ u.gz = t.gz /\ u.given = t.given /\ u.buf = t.buf /\ u.nomem = t.nomem
         /\ u.told = t.told
    BY <2>4, <2>8 DEF SameRest
  <2>12. Queue(u)
    BY <1>1, <1>5, <2>1, <2>7, <2>8, <2>10, <2>11, QueueSends
  <2>13. /\ Sent(u.wire) \subseteq Sent(t.wire) \cup Range(z)
         /\ u.er = "OK" => Sent(u.wire) = Sent(t.wire) \cup Range(z)
    BY <1>1, <2>1, <2>7, <2>10, SentBy
  <2>14. Out(u) = Sent(u.wire)
    BY <2>8 DEF Out, Range
  <2>15. /\ Out(u) \subseteq Out(t) \cup Range(data)
         /\ u.er = "OK" => Out(u) = Out(t) \cup Range(data)
    BY <1>4, <2>13, <2>14 DEF Out
  <2>16. Failed(t) \/ u.er # "OK" => Failed(u)
    BY <2>4, <2>8, <2>9 DEF Failed
  <2> QED
    BY <2>7, <2>11, <2>12, <2>15, <2>16 DEF Passed
<1> QED
  BY <1>3, <1>6, <1>7 DEF gzwrite

LEMMA FlushPasses ==
  ASSUME OutputAssumption, state \in {"head", "body"},
         NEW t, Queue(t), NEW data, Follows(t, data),
         NEW u \in kdata_flush(t, data)
  PROVE  Queue(u) /\ Passed(t, u, data)
<1>1. CASE data = <<>>
  <2>1. u = [t EXCEPT !.er = "OK"]
    BY <1>1 DEF kdata_flush, Return
  <2>2. t \in Response
    BY DEF Queue
  <2>3. u \in Response
    BY <2>1, <2>2 DEF Response, Errors
  <2>4. /\ u.zbuf = t.zbuf /\ u.wire = t.wire /\ u.gz = t.gz /\ u.buf = t.buf /\ u.given = t.given
        /\ u.nomem = t.nomem /\ u.told = t.told /\ u.peer = t.peer /\ u.system = t.system
        /\ u.er = "OK"
    BY <2>1, <2>2 DEF Response
  <2>5. \A i \in DOMAIN u.wire : FrameOfPart(u, u.wire[i])
    BY <2>4, SamePart DEF Queue, FrameOfPart
  <2>6. Compressing(u) <=> Compressing(t)
    BY <2>4 DEF Compressing
  <2>7. Queue(u)
    BY <2>3, <2>4, <2>5, <2>6, SamePart DEF Queue
  <2>8. Range(data) = {}
    BY <1>1 DEF Range
  <2>9. Out(u) = Out(t) \cup Range(data)
    BY <2>4, <2>8 DEF Out
  <2> QED
    BY <2>3, <2>4, <2>7, <2>9 DEF Passed, Failed
<1>2. CASE data # <<>> /\ Compressing(t)
  <2>1. u \in gzwrite(t, data)
    BY <1>2 DEF kdata_flush
  <2> QED
    BY <1>2, <2>1, GzFlush
<1>3. CASE data # <<>> /\ ~Compressing(t)
  <2>1. IF fcgi THEN u \in fcgi_write(t, "stdout", data)
                ELSE u \in Put(t, "plain", data, 0)
    BY <1>3 DEF kdata_flush
  <2> QED
    BY <1>3, <2>1, PlainFlush
<1> QED
  BY <1>1, <1>2, <1>3

-----------------------------------------------------------------------------
(* Writing *)

\* The buffer, the error and the notices are no part of what has left.
LEMMA SameQueue ==
  ASSUME NEW t, Queue(t), NEW u \in Response, u.wire = t.wire, u.zbuf = t.zbuf, u.gz = t.gz,
         u.given = t.given
  PROVE  Queue(u) /\ Out(u) = Out(t)
<1>1. \A i \in DOMAIN u.wire : FrameOfPart(u, u.wire[i])
  BY SamePart DEF Queue, FrameOfPart
<1>2. Compressing(u) <=> Compressing(t)
  BY DEF Compressing
<1> QED
  BY <1>1, <1>2, SamePart DEF Queue, Out

\* The buffer was emptied, onto the wire unless that failed.
Drained(t, u) ==
  /\ Queue(u) /\ u.buf = <<>>
  /\ u.gz = t.gz /\ u.given = t.given /\ u.nomem = t.nomem /\ u.told = t.told
  /\ Failed(t) \/ u.er # "OK" => Failed(u)
  /\ Out(u) \subseteq Out(t) \cup Range(t.buf)
  /\ u.er = "OK" => Out(u) = Out(t) \cup Range(t.buf)

LEMMA NoBytes == <<>> \in Seq(Nat) /\ Range(<<>>) = {} /\ Increasing(<<>>) /\ Len(<<>>) = 0
BY DEF Range, Increasing

LEMMA DrainDrains ==
  ASSUME OutputAssumption, state \in {"head", "body"},
         NEW t, Queue(t), Buffer(t), NEW u \in kdata_drain(t)
  PROVE  Drained(t, u)
<1>1. PICK v \in kdata_flush(t, t.buf) : u = [v EXCEPT !.buf = <<>>]
  BY DEF kdata_drain
<1>2. Follows(t, t.buf)
  BY DEF Follows, Buffer, Queue, Response
<1>3. Queue(v) /\ Passed(t, v, t.buf)
  BY <1>2, FlushPasses
<1>4. v \in Response
  BY <1>3 DEF Queue
<1>5. /\ u \in Response
      /\ u.buf = <<>> /\ u.zbuf = v.zbuf /\ u.wire = v.wire /\ u.gz = v.gz /\ u.given = v.given
      /\ u.nomem = v.nomem /\ u.told = v.told /\ u.peer = v.peer /\ u.system = v.system
      /\ u.er = v.er
  <2>1. PICK e \in Seq(Nat) : e = <<>>
    BY NoBytes
  <2>2. [v EXCEPT !.buf = e] \in Response
    BY <1>4 DEF Response
  <2>3. u = [v EXCEPT !.buf = e]
    BY <1>1, <2>1
  <2> QED
    BY <1>4, <2>1, <2>2, <2>3 DEF Response
<1>6. Queue(u) /\ Out(u) = Out(v)
  BY <1>3, <1>5, SameQueue
<1> QED
  BY <1>3, <1>5, <1>6 DEF Drained, Passed, Failed

\* The bytes that a write adds.
LEMMA Numbers ==
  ASSUME NEW n \in Nat, NEW sz \in Nat
  PROVE  /\ [i \in 1..sz |-> n + i] \in Seq(Nat) /\ Len([i \in 1..sz |-> n + i]) = sz
         /\ Range([i \in 1..sz |-> n + i]) = (n + 1)..(n + sz)
         /\ Increasing([i \in 1..sz |-> n + i])
<1> DEFINE d == [i \in 1..sz |-> n + i]
<1>1. d \in [1..sz -> Nat]
  OBVIOUS
<1>2. d \in Seq(Nat) /\ Len(d) = sz /\ DOMAIN d = 1..sz /\ \A i \in 1..sz : d[i] = n + i
  BY <1>1
<1> HIDE DEF d
<1>3. Range(d) \subseteq (n + 1)..(n + sz)
  BY <1>2 DEF Range
<1>4. \A x \in (n + 1)..(n + sz) : x - n \in 1..sz /\ n + (x - n) = x
  OBVIOUS
<1>5. (n + 1)..(n + sz) \subseteq Range(d)
  BY <1>2, <1>4 DEF Range
<1>6. Increasing(d)
  BY <1>2 DEF Increasing
<1> QED
  BY <1>2, <1>3, <1>5, <1>6 DEF d

\* A response with more bytes given to it.
More(t, sz, part) == Return([t EXCEPT !.given = @ \o [i \in 1..sz |-> part]], "OK")

HasMore(t, g, sz, part) ==
  LET n == Len(t.given)
      new == (n + 1)..(n + sz)
  IN  /\ g \in Response
      /\ g.gz = t.gz /\ g.zbuf = t.zbuf /\ g.buf = t.buf /\ g.wire = t.wire
      /\ g.peer = t.peer /\ g.system = t.system /\ g.nomem = t.nomem /\ g.told = t.told
      /\ g.er = "OK"
      /\ n \in Nat /\ DOMAIN t.given = 1..n /\ DOMAIN g.given = DOMAIN t.given \cup new
      /\ \A p \in {"head", "body"} : Part(t, p) \subseteq Part(g, p)
      /\ new \subseteq Part(g, part)
      /\ part = "head" /\ Part(t, "head") = DOMAIN t.given => Part(g, "head") = DOMAIN g.given

LEMMA Given ==
  ASSUME NEW t \in Response, NEW sz \in Nat, NEW part \in {"head", "body"}
  PROVE  HasMore(t, More(t, sz, part), sz, part)
<1> DEFINE P == {"head", "body"}
           n == Len(t.given)
<1>1. t.given \in Seq(P)
  BY DEF Response
<1>2. PICK e \in Seq(P) : /\ e = [i \in 1..sz |-> part] /\ Len(e) = sz
                          /\ \A i \in 1..sz : e[i] = part
  <2>1. [i \in 1..sz |-> part] \in [1..sz -> P]
    OBVIOUS
  <2>2. [i \in 1..sz |-> part] \in Seq(P)
    BY <2>1
  <2>3. /\ Len([i \in 1..sz |-> part]) = sz
        /\ \A i \in 1..sz : [j \in 1..sz |-> part][i] = part
    BY <2>2
  <2> QED
    BY <2>2, <2>3
<1>3. PICK w \in Seq(P) : w = t.given \o e
  <2> HIDE DEF P
  <2>1. t.given \o e \in Seq(P)
    BY <1>1
  <2> QED
    BY <2>1
<1>4. /\ Len(w) = n + sz /\ n \in Nat /\ DOMAIN w = 1..(n + sz) /\ DOMAIN t.given = 1..n
      /\ \A i \in 1..n : w[i] = t.given[i]
      /\ \A i \in (n + 1)..(n + sz) : w[i] = part
  <2>1. Len(w) = n + sz /\ n \in Nat
    BY <1>1, <1>2, <1>3
  <2>2. \A i \in 1..n : w[i] = t.given[i]
    BY <1>1, <1>2, <1>3
  <2>3. \A i \in (n + 1)..(n + sz) : w[i] = part
    <3> SUFFICES ASSUME NEW i \in (n + 1)..(n + sz) PROVE w[i] = part
      OBVIOUS
    <3>1. i - n \in 1..sz
      BY <2>1
    <3>2. w[i] = e[i - n]
      BY <1>1, <1>2, <1>3, <2>1, <3>1
    <3> QED
      BY <1>2, <3>1, <3>2
  <2> QED
    BY <1>1, <2>1, <2>2, <2>3
<1>5. PICK g : g = More(t, sz, part)
  OBVIOUS
<1>5a. g = [t EXCEPT !.given = w, !.er = "OK"]
  BY <1>2, <1>3, <1>5 DEF More, Return
<1>6. g \in Response
  <2>1. "OK" \in Errors
    BY DEF Errors
  <2>2. [t EXCEPT !.given = w, !.er = "OK"] \in Response
    BY <2>1 DEF Response
  <2> QED
    BY <1>5a, <2>2
<1>7. /\ g.given = w
      /\ g.gz = t.gz /\ g.zbuf = t.zbuf /\ g.buf = t.buf /\ g.wire = t.wire
      /\ g.peer = t.peer /\ g.system = t.system /\ g.nomem = t.nomem /\ g.told = t.told
      /\ g.er = "OK"
  BY <1>5a DEF Response
<1>8. DOMAIN g.given = DOMAIN t.given \cup ((n + 1)..(n + sz))
  BY <1>4, <1>7
<1>9. \A p \in P : Part(t, p) \subseteq Part(g, p)
  BY <1>4, <1>7, <1>8 DEF Part
<1>10. (n + 1)..(n + sz) \subseteq Part(g, part)
  BY <1>4, <1>7, <1>8 DEF Part
<1>11. part = "head" /\ Part(t, "head") = DOMAIN t.given => Part(g, "head") = DOMAIN g.given
  BY <1>8, <1>9, <1>10 DEF Part
<1> QED
  BY <1>4, <1>5, <1>6, <1>7, <1>8, <1>9, <1>10, <1>11 DEF HasMore

\* Bytes that nobody has had come after those that somebody has.
LEMMA NewBytesFollow ==
  ASSUME NEW n \in Nat, NEW A, A \subseteq 1..n, NEW sz \in Nat
  PROVE  Below(A, (n + 1)..(n + sz))
BY DEF Below

\* The parts of kdata_write have a sound response and new bytes, which are of it
\* already but have nowhere been put.
Fresh(t, g, data) ==
  /\ Queue(g) /\ Buffer(g) /\ Follows(g, data)
  /\ g.er = "OK" /\ g.gz = t.gz /\ g.told = t.told
  /\ Below(Range(g.buf), Range(data))
  /\ Kept(g) \cup Range(data) \subseteq DOMAIN g.given
  /\ Kept(g) \cup Range(data) # DOMAIN g.given => Failed(g) /\ g.told
  /\ state = "head" => Part(g, "head") = DOMAIN g.given

LEMMA GivenFresh ==
  ASSUME state \in {"head", "body"}, NEW t, Sound(t), NEW sz \in Nat, t.er = "OK"
  PROVE  Fresh(t, More(t, sz, state), [i \in 1..sz |-> Len(t.given) + i])
<1> DEFINE n == Len(t.given)
           new == (n + 1)..(n + sz)
<1>1. t \in Response /\ Queue(t) /\ Buffer(t) /\ Loss(t)
  BY DEF Sound, Queue
<1>0. PICK g : g = More(t, sz, state)
  OBVIOUS
<1>00. HasMore(t, g, sz, state)
  BY <1>0, <1>1, Given
<1>2. /\ g \in Response
      /\ g.gz = t.gz /\ g.zbuf = t.zbuf /\ g.buf = t.buf /\ g.wire = t.wire
      /\ g.peer = t.peer /\ g.system = t.system /\ g.nomem = t.nomem /\ g.told = t.told
      /\ g.er = "OK"
  BY <1>00 DEF HasMore
<1>3. /\ DOMAIN t.given = 1..n /\ n \in Nat
      /\ DOMAIN g.given = DOMAIN t.given \cup new
      /\ \A p \in {"head", "body"} : Part(t, p) \subseteq Part(g, p)
      /\ new \subseteq Part(g, state)
      /\ state = "head" /\ Part(t, "head") = DOMAIN t.given => Part(g, "head") = DOMAIN g.given
  BY <1>00 DEF HasMore
<1>4. PICK data \in Seq(Nat) : /\ data = [i \in 1..sz |-> n + i]
                              /\ Range(data) = new /\ Increasing(data)
  BY <1>3, Numbers
<1>5. Out(g) = Out(t) /\ Kept(g) = Kept(t) /\ (Failed(g) <=> Failed(t))
  BY <1>2 DEF Out, Kept, Failed
<1>6. Queue(g)
  <2>1. \A i \in DOMAIN g.wire : FrameOfPart(g, g.wire[i])
    BY <1>1, <1>2, <1>3 DEF Queue, FrameOfPart
  <2>2. Range(g.zbuf) \subseteq Part(g, "body")
    BY <1>1, <1>2, <1>3 DEF Queue
  <2>3. Compressing(g) <=> Compressing(t)
    BY <1>2 DEF Compressing
  <2> QED
    BY <1>1, <1>2, <2>1, <2>2, <2>3 DEF Queue
<1>7. Buffer(g)
  BY <1>1, <1>2, <1>3, <1>5 DEF Buffer
<1>8. Out(g) \subseteq 1..n /\ Range(g.buf) \subseteq 1..n
  BY <1>1, <1>2, <1>3, <1>5 DEF Loss, Out, Kept
<1>9. Below(Out(g), new) /\ Below(Range(g.buf), new)
  BY <1>3, <1>8, NewBytesFollow
<1>10. Follows(g, data)
  BY <1>3, <1>4, <1>9 DEF Follows
<1>11. Kept(g) \cup Range(data) \subseteq DOMAIN g.given
  BY <1>1, <1>3, <1>4, <1>5 DEF Loss
<1>12. Kept(g) \cup Range(data) # DOMAIN g.given => Failed(g) /\ g.told
  BY <1>1, <1>2, <1>3, <1>4, <1>5 DEF Loss
<1>13. state = "head" => Part(g, "head") = DOMAIN g.given
  BY <1>3 DEF Sound
<1> QED
  BY <1>0, <1>2, <1>4, <1>6, <1>7, <1>9, <1>10, <1>11, <1>12, <1>13 DEF Fresh

\* What a write leaves of a sound response.
Wrote(t, u) == Sound(u) /\ u.gz = t.gz /\ u.told = t.told

\* The bytes go past the buffer.
LEMMA FreshFlushed ==
  ASSUME OutputAssumption, outbufsz \in Nat, state \in {"head", "body"},
         NEW t, NEW g, NEW data, Fresh(t, g, data), g.buf = <<>>,
         NEW u \in kdata_flush(g, data)
  PROVE  Wrote(t, u)
<1>1. Queue(u) /\ Passed(g, u, data)
  BY FlushPasses DEF Fresh
<1>2. u.buf = <<>> /\ u.given = g.given /\ u.gz = g.gz /\ u.told = g.told
  BY <1>1 DEF Passed
<1>3. Kept(u) = Out(u) /\ Kept(g) = Out(g)
  BY <1>2, NoBytes DEF Kept, Out
<1>4. Buffer(u)
  BY <1>2, NoBytes DEF Buffer, Below
<1>5. Loss(u)
  BY <1>1, <1>2, <1>3 DEF Loss, Fresh, Passed
<1>6. state = "head" => Part(u, "head") = DOMAIN u.given
  BY <1>2, SamePart DEF Fresh
<1> QED
  BY <1>1, <1>2, <1>4, <1>5, <1>6 DEF Wrote, Sound, Fresh

\* The same response with another buffer.
Rebuffered(g, u, b) ==
  /\ u \in Response
  /\ u.buf = b /\ u.zbuf = g.zbuf /\ u.wire = g.wire /\ u.gz = g.gz /\ u.given = g.given
  /\ u.told = g.told /\ u.peer = g.peer /\ u.system = g.system /\ u.er = g.er

LEMMA Rebuffer ==
  ASSUME NEW g \in Response, NEW b \in Seq(Nat)
  PROVE  Rebuffered(g, [g EXCEPT !.buf = b], b)
<1>1. [g EXCEPT !.buf = b] \in Response
  BY DEF Response
<1> QED
  BY <1>1 DEF Response, Rebuffered

\* The bytes fit into the buffer.
LEMMA FreshBuffered ==
  ASSUME state \in {"head", "body"}, NEW t, NEW g, NEW data, Fresh(t, g, data),
         Len(g.buf) + Len(data) <= outbufsz,
         NEW u, Rebuffered(g, u, g.buf \o data)
  PROVE  Wrote(t, u)
<1>1. /\ g \in Response /\ g.buf \in Seq(Nat) /\ data \in Seq(Nat)
      /\ Increasing(g.buf) /\ Increasing(data) /\ Below(Range(g.buf), Range(data))
  BY DEF Fresh, Queue, Buffer, Follows, Response
<1>2. PICK b \in Seq(Nat) : /\ b = g.buf \o data /\ Len(b) = Len(g.buf) + Len(data)
                           /\ Increasing(b) /\ Range(b) = Range(g.buf) \cup Range(data)
  BY <1>1, Joined
<1>3. u \in Response
  BY DEF Rebuffered
<1>4. /\ u.buf = b /\ u.zbuf = g.zbuf /\ u.wire = g.wire /\ u.gz = g.gz /\ u.given = g.given
      /\ u.told = g.told /\ u.peer = g.peer /\ u.system = g.system /\ u.er = g.er
  BY <1>2 DEF Rebuffered
<1>5. Queue(u) /\ Out(u) = Out(g)
  BY <1>3, <1>4, SameQueue DEF Fresh
<1>6. Kept(u) = Kept(g) \cup Range(data)
  BY <1>2, <1>4 DEF Kept
<1>7. Loss(u)
  BY <1>4, <1>6 DEF Fresh, Loss, Failed
<1>8. Part(u, state) = Part(g, state) /\ Part(u, "head") = Part(g, "head")
  BY <1>4, SamePart
<1>9. Buffer(u)
  BY <1>2, <1>4, <1>5, <1>8 DEF Buffer, Fresh, Follows, Below
<1> QED
  BY <1>4, <1>5, <1>7, <1>8, <1>9 DEF Wrote, Sound, Fresh

\* What is in the buffer goes first.
LEMMA FreshDrained ==
  ASSUME OutputAssumption, outbufsz \in Nat, state \in {"head", "body"},
         NEW t, NEW g, NEW data, Fresh(t, g, data), NEW v \in kdata_drain(g)
  PROVE  /\ v.buf = <<>>
         /\ v.er = "OK" => Fresh(t, v, data)
         /\ v.er # "OK" => Wrote(t, v)
<1>1. Drained(g, v)
  BY DrainDrains DEF Fresh
<1>2. v.buf = <<>> /\ v.given = g.given /\ v.gz = g.gz /\ v.told = g.told /\ Queue(v)
  BY <1>1 DEF Drained
<1>3. Kept(v) = Out(v) /\ Kept(g) = Out(g) \cup Range(g.buf)
  BY <1>2, NoBytes DEF Kept, Out
<1>4. Part(v, state) = Part(g, state) /\ Part(v, "head") = Part(g, "head")
  BY <1>2, SamePart
<1>5. Buffer(v)
  BY <1>2, NoBytes DEF Buffer, Below
<1>6. ASSUME v.er = "OK" PROVE Fresh(t, v, data)
  <2>1. Out(v) = Out(g) \cup Range(g.buf) /\ (Failed(g) => Failed(v))
    BY <1>1, <1>6 DEF Drained
  <2>2. Follows(v, data)
    BY <1>4, <2>1 DEF Fresh, Follows, Below
  <2>3. Below(Range(v.buf), Range(data))
    BY <1>2, NoBytes DEF Below
  <2>4. Kept(v) = Kept(g)
    BY <1>3, <2>1
  <2> QED
    BY <1>2, <1>4, <1>5, <1>6, <2>1, <2>2, <2>3, <2>4 DEF Fresh
<1>7. ASSUME v.er # "OK" PROVE Wrote(t, v)
  <2>1. Kept(v) \subseteq Kept(g) /\ Failed(v)
    BY <1>1, <1>3, <1>7 DEF Drained
  <2>2. Loss(v)
    BY <1>2, <1>7, <2>1 DEF Loss, Fresh
  <2> QED
    BY <1>2, <1>4, <1>5, <2>2 DEF Wrote, Sound, Fresh
<1> QED
  BY <1>2, <1>6, <1>7

LEMMA WriteKeeps ==
  ASSUME OutputAssumption, outbufsz \in Nat, state \in {"head", "body"},
         NEW t, Sound(t), t.er = "OK", NEW sz \in Nat, NEW u \in kdata_write(t, sz)
  PROVE  Wrote(t, u)
<1> DEFINE g == More(t, sz, state)
           data == [i \in 1..sz |-> Len(t.given) + i]
<1>1. t \in Response /\ t.er \in Errors
  BY DEF Sound, Queue, Response
<1>2. Fresh(t, g, data)
  BY GivenFresh
<1>3. g = Return([t EXCEPT !.given = @ \o [i \in 1..sz |-> IF state = "head" THEN "head" ELSE "body"]], "OK")
  BY DEF More
<1> HIDE DEF g, data
<1>4. CASE sz = 0
  <2>1. u = [t EXCEPT !.er = "OK"]
    BY <1>4 DEF kdata_write, Return
  <2>2. u = t
    BY <1>1, <2>1 DEF Response
  <2> QED
    BY <2>2 DEF Wrote
<1>5. CASE sz # 0 /\ outbufsz = 0
  <2>1. u \in kdata_flush(g, data)
    BY <1>3, <1>5 DEF kdata_write, data
  <2>2. g.buf = <<>>
    BY <1>2, <1>5, EmptySeq DEF Fresh, Buffer, Queue, Response
  <2> QED
    BY <1>2, <2>1, <2>2, FreshFlushed
<1>6. CASE sz # 0 /\ outbufsz # 0 /\ ~Fits(t, data)
  <2>1. u \in MakeRoom(g, data)
    BY <1>3, <1>6 DEF kdata_write, data
  <2>2. PICK v \in kdata_drain(g) : u \in IF v.er = "OK" THEN PushBuffer(v, data) ELSE {v}
    BY <2>1 DEF MakeRoom, Then
  <2>3. /\ v.buf = <<>>
        /\ v.er = "OK" => Fresh(t, v, data)
        /\ v.er # "OK" => Wrote(t, v)
    BY <1>2, FreshDrained
  <2>4. CASE v.er # "OK"
    BY <2>2, <2>3, <2>4
  <2>5. CASE v.er = "OK" /\ Len(data) > outbufsz
    <3>1. u \in kdata_flush(v, data)
      BY <2>2, <2>5 DEF PushBuffer
    <3> QED
      BY <2>3, <2>5, <3>1, FreshFlushed
  <2>6. CASE v.er = "OK" /\ ~(Len(data) > outbufsz)
    <3>1. u = [v EXCEPT !.buf = data]
      BY <2>2, <2>6 DEF PushBuffer
    <3>2. data \in Seq(Nat) /\ Fresh(t, v, data)
      BY <2>3, <2>6 DEF Fresh, Follows
    <3>3. data = v.buf \o data /\ Len(v.buf) + Len(data) <= outbufsz
      <4>1. <<>> \o data = data /\ Len(data) \in Nat
        BY <3>2
      <4> QED
        BY <2>3, <2>6, <4>1, NoBytes
    <3>4. Rebuffered(v, u, v.buf \o data)
      <4>1. v \in Response
        BY <3>2 DEF Fresh, Queue
      <4> QED
        BY <3>1, <3>2, <3>3, <4>1, Rebuffer
    <3> QED
      BY <3>2, <3>3, <3>4, FreshBuffered
  <2> QED
    BY <2>4, <2>5, <2>6
<1>7. CASE sz # 0 /\ outbufsz # 0 /\ Fits(t, data)
  <2>1. u = [g EXCEPT !.buf = @ \o data]
    BY <1>3, <1>7 DEF kdata_write, data
  <2>2. g.buf = t.buf
    BY <1>1, Given DEF HasMore, g
  <2>3. Len(g.buf) + Len(data) <= outbufsz
    BY <1>7, <2>2 DEF Fits
  <2>4. g \in Response /\ g.buf \in Seq(Nat) /\ data \in Seq(Nat)
    BY <1>2 DEF Fresh, Queue, Follows, Response
  <2>5. PICK b \in Seq(Nat) : b = g.buf \o data
    BY <2>4, Joined
  <2>6. u = [g EXCEPT !.buf = b]
    BY <2>1, <2>5
  <2>7. Rebuffered(g, u, g.buf \o data)
    BY <2>4, <2>5, <2>6, Rebuffer
  <2> QED
    BY <1>2, <2>3, <2>7, FreshBuffered
<1> QED
  BY <1>4, <1>5, <1>6, <1>7

-----------------------------------------------------------------------------
(* What the application calls *)

LEMMA NoMemoryKeeps ==
  ASSUME OutputAssumption, state \in {"head", "body"}, NEW t, Sound(t), NEW u \in NoMemory(t)
  PROVE  Wrote(t, u) /\ u.er # "OK"
<1>1. t \in Response /\ t.nomem \in 0..MaxNoMem
  BY DEF Sound, Queue, Response
<1>2. u = [t EXCEPT !.nomem = @ + 1, !.er = "ENOMEM"] /\ t.nomem < MaxNoMem
  BY DEF NoMemory, Return
<1>3. PICK n \in 0..MaxNoMem : n = t.nomem + 1
  BY <1>1, <1>2 DEF OutputAssumption
<1>4. u \in Response
  <2>1. "ENOMEM" \in Errors
    BY DEF Errors
  <2>2. [t EXCEPT !.nomem = n, !.er = "ENOMEM"] \in Response
    BY <1>1, <2>1 DEF Response
  <2> QED
    BY <1>2, <1>3, <2>2
<1>5. /\ u.buf = t.buf /\ u.zbuf = t.zbuf /\ u.wire = t.wire /\ u.gz = t.gz /\ u.given = t.given
      /\ u.told = t.told /\ u.peer = t.peer /\ u.system = t.system /\ u.er = "ENOMEM"
  BY <1>1, <1>2 DEF Response
<1>6. Queue(u) /\ Out(u) = Out(t)
  BY <1>4, <1>5, SameQueue DEF Sound
<1>7. Part(u, state) = Part(t, state) /\ Part(u, "head") = Part(t, "head")
  BY <1>5, SamePart
<1>8. Buffer(u)
  BY <1>5, <1>6, <1>7 DEF Sound, Buffer
<1>9. Loss(u)
  BY <1>5 DEF Sound, Loss, Kept, Failed
<1> QED
  BY <1>5, <1>6, <1>7, <1>8, <1>9 DEF Wrote, Sound

\* One write after the other.
LEMMA WriteAgain ==
  ASSUME OutputAssumption, outbufsz \in Nat, state \in {"head", "body"},
         NEW t, NEW S, \A u \in S : Wrote(t, u), NEW sz \in Nat,
         NEW v \in Then(S, LAMBDA u : kdata_write(u, sz))
  PROVE  Wrote(t, v)
<1>1. PICK u \in S : v \in IF u.er = "OK" THEN kdata_write(u, sz) ELSE {u}
  BY DEF Then
<1>2. Wrote(t, u)
  OBVIOUS
<1>3. CASE u.er = "OK"
  <2>1. Wrote(u, v)
    BY <1>1, <1>2, <1>3, WriteKeeps DEF Wrote
  <2> QED
    BY <1>2, <2>1 DEF Wrote
<1>4. CASE u.er # "OK"
  BY <1>1, <1>2, <1>4
<1> QED
  BY <1>3, <1>4

LEMMA HeaderKeeps ==
  ASSUME OutputAssumption, outbufsz \in Nat, state \in {"head", "body"},
         NEW t, Sound(t), t.er = "OK", NEW key \in Nat, NEW value \in Nat,
         NEW u \in Header(t, key, value)
  PROVE  Wrote(t, u)
<1> DEFINE A == kdata_write(t, key)
           B == Then(A, LAMBDA v : kdata_write(v, 2))
           C == Then(B, LAMBDA v : kdata_write(v, value))
           D == Then(C, LAMBDA v : kdata_write(v, 2))
<1>1. \A v \in A : Wrote(t, v)
  BY WriteKeeps
<1>2. 2 \in Nat
  OBVIOUS
<1>3. \A v \in B : Wrote(t, v)
  <2> HIDE DEF A
  <2> QED
    BY <1>1, <1>2, WriteAgain
<1>4. \A v \in C : Wrote(t, v)
  <2> HIDE DEF B
  <2> QED
    BY <1>3, WriteAgain
<1>5. \A v \in D : Wrote(t, v)
  <2> HIDE DEF C
  <2> QED
    BY <1>2, <1>4, WriteAgain
<1>6. u \in NoMemory(t) \/ u \in D
  BY DEF Header
<1> HIDE DEF D
<1> QED
  BY <1>5, <1>6, NoMemoryKeeps

\* At the end of the head the buffer is empty.
LEMMA HeadDoneKeeps ==
  ASSUME OutputAssumption, outbufsz \in Nat, state \in {"head", "body"},
         NEW t, Sound(t), t.er = "OK", NEW u \in HeadDone(t)
  PROVE  Wrote(t, u) /\ (u.er = "OK" => u.buf = <<>>)
<1>1. PICK v \in kdata_write(t, 2) : u \in IF v.er = "OK" THEN kdata_drain(v) ELSE {v}
  BY DEF HeadDone, Then
<1>2. Wrote(t, v)
  <2>1. 2 \in Nat
    OBVIOUS
  <2> QED
    BY <2>1, WriteKeeps
<1>3. CASE v.er # "OK"
  BY <1>1, <1>2, <1>3
<1>4. CASE v.er = "OK"
  <2>1. Sound(v) /\ Queue(v) /\ Buffer(v) /\ Loss(v) /\ v.gz = t.gz /\ v.told = t.told
    BY <1>2 DEF Wrote, Sound
  <2>2. Drained(v, u)
    BY <1>1, <1>4, <2>1, DrainDrains
  <2>3. u.buf = <<>> /\ u.given = v.given /\ u.gz = v.gz /\ u.told = v.told /\ Queue(u)
    BY <2>2 DEF Drained
  <2>4. Kept(u) = Out(u) /\ Kept(v) = Out(v) \cup Range(v.buf)
    BY <2>3, NoBytes DEF Kept, Out
  <2>5. Loss(u)
    BY <1>4, <2>1, <2>2, <2>3, <2>4 DEF Loss, Drained
  <2>6. Buffer(u)
    BY <2>3, NoBytes DEF Buffer, Below
  <2>7. Part(u, "head") = Part(v, "head")
    BY <2>3, SamePart
  <2> QED
    BY <2>1, <2>3, <2>5, <2>6, <2>7 DEF Wrote, Sound
<1> QED
  BY <1>3, <1>4

\* Before the body begins, the compressor can be turned on.
LEMMA CompressKeeps ==
  ASSUME state = "head", NEW t, Sound(t)
  PROVE  /\ Sound(kdata_compress(t))
         /\ kdata_compress(t).gz = ~fcgi /\ kdata_compress(t).told = t.told
         /\ kdata_compress(t).er = t.er
<1>1. t \in Response /\ Queue(t) /\ Buffer(t) /\ Loss(t) /\ Part(t, "head") = DOMAIN t.given
  BY DEF Sound, Queue
<1>2. PICK gz \in BOOLEAN : gz = ~fcgi
  OBVIOUS
<1>3. PICK u : u = kdata_compress(t)
  OBVIOUS
<1>4. u = [t EXCEPT !.gz = gz]
  BY <1>2, <1>3 DEF kdata_compress
<1>5. u \in Response
  <2>1. [t EXCEPT !.gz = gz] \in Response
    BY <1>1 DEF Response
  <2> QED
    BY <1>4, <2>1
<1>6. /\ u.buf = t.buf /\ u.zbuf = t.zbuf /\ u.wire = t.wire /\ u.gz = gz /\ u.given = t.given
      /\ u.told = t.told /\ u.peer = t.peer /\ u.system = t.system /\ u.er = t.er
  BY <1>1, <1>4 DEF Response
<1>7. Part(u, "head") = Part(t, "head") /\ Part(u, "body") = Part(t, "body")
  BY <1>6, SamePart
<1>8. \A i \in DOMAIN u.wire : FrameOfPart(u, u.wire[i])
  <2> SUFFICES ASSUME NEW i \in DOMAIN u.wire PROVE FrameOfPart(u, u.wire[i])
    OBVIOUS
  <2>1. FrameOfPart(t, t.wire[i])
    BY <1>1, <1>6 DEF Queue
  <2>2. Range(t.wire[i].data) \subseteq Part(t, "head")
    BY <1>1, <2>1 DEF FrameOfPart, Part
  <2> QED
    BY <1>6, <1>7, <2>1, <2>2 DEF FrameOfPart
<1>9. t.zbuf = <<>>
  BY <1>1 DEF Queue, Compressing
<1>10. Queue(u)
  BY <1>1, <1>2, <1>5, <1>6, <1>7, <1>8, <1>9 DEF Queue
<1>11. Buffer(u) /\ Loss(u)
  BY <1>1, <1>6, <1>7 DEF Buffer, Loss, Out, Kept, Failed
<1> QED
  BY <1>1, <1>2, <1>3, <1>6, <1>7, <1>10, <1>11 DEF Sound

\* A call begins with no error and ends with a notice of one.
LEMMA BeginSound ==
  ASSUME IInv, state # "freed"
  PROVE  /\ Sound(Begin) /\ Begin.er = "OK" /\ Begin.gz = s.gz /\ Begin.told = s.told
         /\ state \in {"head", "body"}
<1>1. s \in Response /\ Sound(s) /\ (s.er # "OK" => s.told) /\ state \in {"head", "body"}
  BY DEF IInv, OTypeOK
<1>2. PICK u : u = Begin
  OBVIOUS
<1>3. u = [s EXCEPT !.er = "OK"]
  BY <1>2 DEF Begin
<1>4. u \in Response
  <2>1. "OK" \in Errors
    BY DEF Errors
  <2>2. [s EXCEPT !.er = "OK"] \in Response
    BY <1>1, <2>1 DEF Response
  <2> QED
    BY <1>3, <2>2
<1>5. /\ u.buf = s.buf /\ u.zbuf = s.zbuf /\ u.wire = s.wire /\ u.gz = s.gz /\ u.given = s.given
      /\ u.told = s.told /\ u.peer = s.peer /\ u.system = s.system /\ u.er = "OK"
  BY <1>1, <1>3 DEF Response
<1>6. Queue(u) /\ Out(u) = Out(s)
  BY <1>1, <1>4, <1>5, SameQueue DEF Sound
<1>7. Part(u, state) = Part(s, state) /\ Part(u, "head") = Part(s, "head")
  BY <1>5, SamePart
<1>8. Buffer(u) /\ Loss(u)
  BY <1>1, <1>5, <1>6, <1>7 DEF Sound, Buffer, Loss, Kept, Failed
<1> QED
  BY <1>1, <1>2, <1>5, <1>6, <1>7, <1>8 DEF Sound

\* A call that is refused.
LEMMA RefusedKeeps ==
  ASSUME IInv, state # "freed"
  PROVE  Wrote(Begin, Return(s, "FORM"))
<1>1. s \in Response /\ Sound(s)
  BY DEF IInv, OTypeOK
<1>2. PICK u : u = Return(s, "FORM")
  OBVIOUS
<1>3. u = [s EXCEPT !.er = "FORM"]
  BY <1>2 DEF Return
<1>4. u \in Response
  <2>1. "FORM" \in Errors
    BY DEF Errors
  <2>2. [s EXCEPT !.er = "FORM"] \in Response
    BY <1>1, <2>1 DEF Response
  <2> QED
    BY <1>3, <2>2
<1>5. /\ u.buf = s.buf /\ u.zbuf = s.zbuf /\ u.wire = s.wire /\ u.gz = s.gz /\ u.given = s.given
      /\ u.told = s.told /\ u.peer = s.peer /\ u.system = s.system /\ u.er = "FORM"
  BY <1>1, <1>3 DEF Response
<1>6. Queue(u) /\ Out(u) = Out(s)
  BY <1>1, <1>4, <1>5, SameQueue DEF Sound
<1>7. Part(u, state) = Part(s, state) /\ Part(u, "head") = Part(s, "head")
  BY <1>5, SamePart
<1>8. Buffer(u) /\ Loss(u)
  BY <1>1, <1>5, <1>6, <1>7 DEF Sound, Buffer, Loss, Kept, Failed
<1> QED
  BY <1>1, <1>2, <1>5, <1>6, <1>7, <1>8, BeginSound DEF Sound, Wrote

LEMMA EndSound ==
  ASSUME IInv, state # "freed", NEW S, \A t \in S : Sound(t), End(S)
  PROVE  \E t \in S :
           /\ s' \in Response /\ Sound(s') /\ (s'.er # "OK" => s'.told)
           /\ s'.gz = t.gz /\ s'.er = t.er /\ s'.buf = t.buf
<1>1. PICK t \in S : s' = [t EXCEPT !.told = @ \/ t.er # "OK"]
  BY DEF End
<1>2. Sound(t) /\ t \in Response
  BY DEF Sound, Queue
<1>3. PICK told \in BOOLEAN : told = (t.told \/ t.er # "OK")
  BY <1>2 DEF Response
<1>4. PICK u : u = s'
  OBVIOUS
<1>5. u = [t EXCEPT !.told = told]
  BY <1>1, <1>3, <1>4
<1>6. u \in Response
  <2>1. [t EXCEPT !.told = told] \in Response
    BY <1>2 DEF Response
  <2> QED
    BY <1>5, <2>1
<1>7. /\ u.buf = t.buf /\ u.zbuf = t.zbuf /\ u.wire = t.wire /\ u.gz = t.gz /\ u.given = t.given
      /\ u.told = told /\ u.peer = t.peer /\ u.system = t.system /\ u.er = t.er
  BY <1>2, <1>5 DEF Response
<1>8. Queue(u) /\ Out(u) = Out(t)
  BY <1>2, <1>6, <1>7, SameQueue DEF Sound
<1>9. Part(u, state) = Part(t, state) /\ Part(u, "head") = Part(t, "head")
  BY <1>7, SamePart
<1>10. Buffer(u) /\ Loss(u)
  BY <1>2, <1>3, <1>7, <1>8, <1>9 DEF Sound, Buffer, Loss, Kept, Failed
<1>11. Sound(u)
  BY <1>2, <1>7, <1>8, <1>9, <1>10 DEF Sound
<1> QED
  BY <1>3, <1>4, <1>6, <1>7, <1>11

\* What is sound stays so in the next state, if the head has not ended.
LEMMA SoundNext ==
  ASSUME Sound(s'), UNCHANGED <<fcgi, outbufsz, state>>
  PROVE  Sound(s)'
BY DEF Sound, Queue, Buffer, Loss, Compressing, Whole, Sized, FrameOfPart, Part, Out, Kept,
       Sent, Failed, WireInOrder, Increasing, Below

\* When the head has ended, nothing of it is left in the buffer.
LEMMA SoundBody ==
  ASSUME Sound(s'), state = "head", state' = "body", UNCHANGED <<fcgi, outbufsz>>, s'.buf = <<>>
  PROVE  Sound(s)'
<1>1. s'.zbuf = <<>>
  BY DEF Sound, Queue, Compressing
<1>2. Queue(s)'
  BY <1>1 DEF Sound, Queue, Compressing, Whole, Sized, FrameOfPart, Part, Sent, WireInOrder,
              Increasing, Below
<1>3. Buffer(s)'
  BY NoBytes DEF Sound, Buffer, Part, Out, Sent, Below, Increasing, Range
<1>4. Loss(s)'
  BY DEF Sound, Loss, Kept, Sent, Failed
<1> QED
  BY <1>2, <1>3, <1>4 DEF Sound

\* A call that leaves the state alone.
LEMMA CallIInv ==
  ASSUME IInv, state # "freed", NEW S, \A t \in S : Wrote(Begin, t), End(S),
         UNCHANGED <<fcgi, outbufsz, state, begun, encoding>>
  PROVE  IInv'
<1>1. \A t \in S : Sound(t) /\ t.gz = s.gz
  BY BeginSound DEF Wrote
<1>2. s' \in Response /\ Sound(s') /\ (s'.er # "OK" => s'.told) /\ s'.gz = s.gz
  BY <1>1, EndSound
<1>3. Sound(s)'
  BY <1>2, SoundNext
<1>4. OTypeOK'
  BY <1>2, <1>3 DEF IInv, OTypeOK, Sound, Buffer, Response, Frame, Errors
<1>5. Modes'
  BY <1>2 DEF IInv, Modes
<1> QED
  BY <1>2, <1>3, <1>4, <1>5 DEF IInv

LEMMA khttp_headIInv ==
  ASSUME OutputAssumption, IInv, khttp_head
  PROVE  IInv'
<1>1. PICK key \in 1..MaxWrite, value \in 0..MaxWrite : End(Header(Begin, key, value))
  BY DEF khttp_head
<1>2. key \in Nat /\ value \in Nat /\ outbufsz \in Nat /\ state # "freed"
  BY DEF OutputAssumption, IInv, OTypeOK, khttp_head
<1>3. \A t \in Header(Begin, key, value) : Wrote(Begin, t)
  BY <1>2, BeginSound, HeaderKeeps
<1> QED
  BY <1>1, <1>2, <1>3, CallIInv DEF khttp_head

LEMMA khttp_writeIInv ==
  ASSUME OutputAssumption, IInv, khttp_write
  PROVE  IInv'
<1>1. state # "freed" /\ UNCHANGED <<fcgi, outbufsz, state, begun, encoding>> /\ outbufsz \in Nat
  BY DEF khttp_write, OutputAssumption, IInv, OTypeOK
<1>2. ASSUME NEW sz \in 0..MaxWrite, End(kdata_write(Begin, sz))
      PROVE  IInv'
  <2>1. sz \in Nat
    BY DEF OutputAssumption
  <2>2. \A t \in kdata_write(Begin, sz) : Wrote(Begin, t)
    BY <1>1, <2>1, BeginSound, WriteKeeps
  <2> QED
    BY <1>1, <1>2, <2>2, CallIInv
<1>3. ASSUME End(NoMemory(Begin)) PROVE IInv'
  <2>1. \A t \in NoMemory(Begin) : Wrote(Begin, t)
    BY <1>1, BeginSound, NoMemoryKeeps
  <2> QED
    BY <1>1, <1>3, <2>1, CallIInv
<1>4. ASSUME End({Return(s, "FORM")}) PROVE IInv'
  <2>1. Wrote(Begin, Return(s, "FORM"))
    BY <1>1, RefusedKeeps
  <2> QED
    BY <1>1, <1>4, <2>1, CallIInv
<1> QED
  BY <1>2, <1>3, <1>4 DEF khttp_write

\* The body begins, after a head that may have failed.
LEMMA BodyIInv ==
  ASSUME OutputAssumption, IInv, state = "head",
         NEW gz \in BOOLEAN, NEW S, \A t \in S : Sound(t) /\ t.gz = gz,
         kdata_body(S), begun' = TRUE, UNCHANGED <<fcgi, outbufsz>>,
         encoding' \in {"none", "ours", "caller's"}, gz <=> encoding' # "none"
  PROVE  IInv'
<1>0. outbufsz \in Nat /\ state \in {"head", "body"} /\ state # "freed"
  BY DEF IInv, OTypeOK, OutputAssumption
<1>1. \A u \in Then(S, HeadDone) : Sound(u) /\ u.gz = gz /\ (u.er = "OK" => u.buf = <<>>)
  <2> SUFFICES ASSUME NEW u \in Then(S, HeadDone)
               PROVE  Sound(u) /\ u.gz = gz /\ (u.er = "OK" => u.buf = <<>>)
    OBVIOUS
  <2>1. PICK t \in S : u \in IF t.er = "OK" THEN HeadDone(t) ELSE {t}
    BY DEF Then
  <2>2. CASE t.er = "OK"
    <3>1. Wrote(t, u) /\ (u.er = "OK" => u.buf = <<>>)
      BY <1>0, <2>1, <2>2, HeadDoneKeeps
    <3> QED
      BY <3>1 DEF Wrote
  <2>3. CASE t.er # "OK"
    BY <2>1, <2>3
  <2> QED
    BY <2>2, <2>3
<1>2. End(Then(S, HeadDone)) /\ state' = IF s'.er = "OK" THEN "body" ELSE state
  BY DEF kdata_body
<1>3. PICK T : T = Then(S, HeadDone)
  OBVIOUS
<1>4. \E t \in T :
        /\ s' \in Response /\ Sound(s') /\ (s'.er # "OK" => s'.told)
        /\ s'.gz = t.gz /\ s'.er = t.er /\ s'.buf = t.buf
  BY <1>0, <1>1, <1>2, <1>3, EndSound
<1>5. /\ s' \in Response /\ Sound(s') /\ (s'.er # "OK" => s'.told) /\ s'.gz = gz
      /\ s'.er = "OK" => s'.buf = <<>>
  BY <1>1, <1>3, <1>4
<1>6. Sound(s)'
  <2>1. CASE s'.er = "OK"
    BY <1>2, <1>5, <2>1, SoundBody
  <2>2. CASE s'.er # "OK"
    BY <1>2, <1>5, <2>2, SoundNext
  <2> QED
    BY <2>1, <2>2
<1>7. state' \in {"head", "body"}
  BY <1>2
<1>8. OTypeOK'
  BY <1>5, <1>6, <1>7 DEF IInv, OTypeOK, Sound, Buffer, Response, Frame, Errors
<1>9. Modes'
  BY <1>5, <1>7 DEF Modes
<1> QED
  BY <1>5, <1>6, <1>7, <1>8, <1>9 DEF IInv

\* A call that fails before the head has ended.
LEMMA BodyFails ==
  ASSUME IInv, state = "head", NEW S, \A t \in S : Wrote(Begin, t), End(S), begun' = TRUE,
         UNCHANGED <<fcgi, outbufsz, state, encoding>>
  PROVE  IInv'
<1>0. state # "freed"
  OBVIOUS
<1>1. \A t \in S : Sound(t) /\ t.gz = s.gz
  BY <1>0, BeginSound DEF Wrote
<1>2. s' \in Response /\ Sound(s') /\ (s'.er # "OK" => s'.told) /\ s'.gz = s.gz
  BY <1>0, <1>1, EndSound
<1>3. Sound(s)'
  BY <1>2, SoundNext
<1>4. OTypeOK'
  BY <1>2, <1>3 DEF IInv, OTypeOK, Sound, Buffer, Response, Frame, Errors
<1>5. Modes'
  BY <1>2 DEF IInv, Modes
<1> QED
  BY <1>2, <1>3, <1>4, <1>5 DEF IInv

LEMMA khttp_bodyIInv ==
  ASSUME OutputAssumption, IInv, khttp_body
  PROVE  IInv'
<1>1. /\ state = "head" /\ state # "freed" /\ ~begun /\ begun' = TRUE
      /\ UNCHANGED <<fcgi, outbufsz>> /\ outbufsz \in Nat
  BY DEF khttp_body, IInv, OTypeOK, OutputAssumption
<1>2. ~s.gz /\ encoding = "none" /\ fcgi \in BOOLEAN
  BY <1>1 DEF IInv, Modes, OTypeOK
<1>3. /\ Sound(Begin) /\ Begin.er = "OK" /\ Begin.gz = s.gz
      /\ Sound(kdata_compress(Begin)) /\ kdata_compress(Begin).gz = ~fcgi
      /\ kdata_compress(Begin).er = "OK"
  BY <1>1, BeginSound, CompressKeeps
<1>4. PICK accept \in Accepted :
        LET t == IF Wants(accept) THEN kdata_compress(Begin) ELSE Begin
        IN  \/ /\ Wants(accept) => ~Announces(t)
               /\ kdata_body({t})
               /\ encoding' = encoding
            \/ /\ Wants(accept) /\ Announces(t)
               /\ kdata_body(Header(t, 1, 1))
               /\ encoding' = "ours"
            \/ /\ Wants(accept) /\ ~fcgi
               /\ End(NoMemory(Begin))
               /\ UNCHANGED <<state, encoding>>
  BY DEF khttp_body
<1>5. PICK t : /\ t = IF Wants(accept) THEN kdata_compress(Begin) ELSE Begin
               /\ Sound(t) /\ t.er = "OK"
               /\ ~Wants(accept) => ~t.gz
  BY <1>2, <1>3
<1>6. ASSUME Wants(accept) => ~Announces(t), kdata_body({t}), encoding' = encoding
      PROVE  IInv'
  <2>1. \A u \in {t} : Sound(u) /\ u.gz = FALSE
    <3>1. t.gz \in BOOLEAN
      BY <1>5 DEF Sound, Queue, Response
    <3> QED
      BY <1>5, <1>6, <3>1 DEF Announces
  <2> QED
    BY <1>1, <1>2, <1>6, <2>1, BodyIInv
<1>7. ASSUME Wants(accept), Announces(t), kdata_body(Header(t, 1, 1)), encoding' = "ours"
      PROVE  IInv'
  <2>1. t.gz = TRUE
    <3>1. t.gz \in BOOLEAN
      BY <1>5 DEF Sound, Queue, Response
    <3> QED
      BY <1>7, <3>1 DEF Announces
  <2>2. \A u \in Header(t, 1, 1) : Wrote(t, u)
    BY <1>1, <1>5, HeaderKeeps
  <2>3. \A u \in Header(t, 1, 1) : Sound(u) /\ u.gz = TRUE
    BY <2>1, <2>2 DEF Wrote
  <2> QED
    BY <1>1, <1>7, <2>3, BodyIInv
<1>8. ASSUME End(NoMemory(Begin)), UNCHANGED <<state, encoding>>
      PROVE  IInv'
  <2>1. \A u \in NoMemory(Begin) : Wrote(Begin, u)
    BY <1>1, <1>3, NoMemoryKeeps
  <2> QED
    BY <1>1, <1>8, <2>1, BodyFails
<1> QED
  BY <1>4, <1>5, <1>6, <1>7, <1>8

LEMMA khttp_body_compressIInv ==
  ASSUME OutputAssumption, IInv, khttp_body_compress
  PROVE  IInv'
<1>1. /\ state = "head" /\ state # "freed" /\ ~begun /\ begun' = TRUE
      /\ UNCHANGED <<fcgi, outbufsz>>
  BY DEF khttp_body_compress
<1>2. ~s.gz /\ encoding = "none" /\ fcgi \in BOOLEAN /\ s \in Response
  BY <1>1 DEF IInv, Modes, OTypeOK
<1>3. /\ Sound(Begin) /\ Begin.gz = FALSE
      /\ Sound(kdata_compress(Begin)) /\ kdata_compress(Begin).gz = ~fcgi
  <2>1. s.gz = FALSE
    BY <1>2 DEF Response
  <2> QED
    BY <1>1, <2>1, BeginSound, CompressKeeps
<1>4. ASSUME kdata_body({Begin}), encoding' = encoding
      PROVE  IInv'
  <2>1. \A u \in {Begin} : Sound(u) /\ u.gz = FALSE
    BY <1>3
  <2> QED
    BY <1>1, <1>2, <1>4, <2>1, BodyIInv
<1>5. ASSUME ~fcgi, kdata_body({kdata_compress(Begin)}), encoding' = "caller's"
      PROVE  IInv'
  <2>1. \A u \in {kdata_compress(Begin)} : Sound(u) /\ u.gz = TRUE
    BY <1>3, <1>5
  <2> QED
    BY <1>1, <1>5, <2>1, BodyIInv
<1>6. ASSUME End(NoMemory(Begin)), UNCHANGED <<state, encoding>>
      PROVE  IInv'
  <2>1. \A u \in NoMemory(Begin) : Wrote(Begin, u)
    BY <1>1, <1>3, NoMemoryKeeps
  <2> QED
    BY <1>1, <1>6, <2>1, BodyFails
<1>7. ASSUME End({Return(s, "FORM")}), UNCHANGED <<state, encoding>>
      PROVE  IInv'
  <2>1. \A u \in {Return(s, "FORM")} : Wrote(Begin, u)
    BY <1>1, RefusedKeeps
  <2> QED
    BY <1>1, <1>7, <2>1, BodyFails
<1> QED
  BY <1>4, <1>5, <1>6, <1>7 DEF khttp_body_compress

-----------------------------------------------------------------------------
(* Freeing *)

\* Nothing is left in the compressor and in the buffer, and what is lost was not
\* lost silently.
Emptied(t, u) ==
  /\ Queue(u) /\ u.zbuf = <<>> /\ u.buf = <<>> /\ u.given = t.given /\ u.gz = t.gz
  /\ Failed(t) => Failed(u)
  /\ Out(u) \subseteq Out(t)
  /\ Failed(u) \/ Out(u) = Out(t)

LEMMA gzcloseEmpties ==
  ASSUME OutputAssumption, state \in {"head", "body"},
         NEW t, Queue(t), t.buf = <<>>, NEW u \in gzclose(t)
  PROVE  Emptied(t, u)
<1>1. /\ t \in Response /\ t.zbuf \in Seq(Nat) /\ Increasing(t.zbuf)
      /\ Below(Sent(t.wire), Range(t.zbuf)) /\ Range(t.zbuf) \subseteq Part(t, "body")
  BY DEF Queue, Response
<1>2. CASE t.gz
  <2>1. PICK v \in Put(t, "gzip", t.zbuf, 0) : u = [v EXCEPT !.zbuf = <<>>]
    BY <1>2 DEF gzclose
  <2>2. "gzip" \in Types /\ 0 \in Nat
    BY DEF Types
  <2>3. PutEffect(t, v, "gzip", t.zbuf, 0)
    BY <1>1, <2>2, PutDoes
  <2>4. Fares(t, v) /\ Sends(t, v, "gzip", t.zbuf)
    BY <1>1, <2>2, <2>3, PutSends
  <2>5. v \in Response /\ SameRest(t, v) /\ (Failed(t) \/ v.er # "OK" => Failed(v))
    BY <2>4 DEF Fares
  <2>6. /\ u \in Response
        /\ u.buf = v.buf /\ u.zbuf = <<>> /\ u.wire = v.wire /\ u.gz = v.gz /\ u.given = v.given
        /\ u.peer = v.peer /\ u.system = v.system /\ u.er = v.er
    <3>1. PICK e \in Seq(Nat) : e = <<>>
      BY NoBytes
    <3>2. v \in Response /\ u = [v EXCEPT !.zbuf = e]
      BY <2>1, <2>5, <3>1
    <3>3. [v EXCEPT !.zbuf = e] \in Response
      BY <3>2 DEF Response
    <3> QED
      BY <3>1, <3>2, <3>3 DEF Response
  <2>7. Sends(t, u, "gzip", t.zbuf)
    BY <2>4, <2>6 DEF Sends, Newer
  <2>8. u.gz = t.gz /\ u.given = t.given /\ u.buf = <<>>
    BY <2>5, <2>6 DEF SameRest
  <2>9. ~fcgi
    BY <1>2 DEF Queue
  <2>10. Queue(u)
    BY <1>1, <2>2, <2>6, <2>7, <2>8, <2>9, QueueSends
  <2>11. /\ Sent(u.wire) \subseteq Sent(t.wire) \cup Range(t.zbuf)
         /\ u.er = "OK" => Sent(u.wire) = Sent(t.wire) \cup Range(t.zbuf)
    BY <1>1, <2>2, <2>6, <2>7, SentBy
  <2>12. Out(u) = Sent(u.wire) /\ Out(t) = Sent(t.wire) \cup Range(t.zbuf)
    BY <2>6, NoBytes DEF Out
  <2>13. Failed(t) \/ u.er # "OK" => Failed(u)
    BY <2>5, <2>6 DEF Failed
  <2> QED
    BY <2>6, <2>8, <2>10, <2>11, <2>12, <2>13 DEF Emptied
<1>3. CASE ~t.gz
  <2>1. u = t
    BY <1>3 DEF gzclose
  <2>2. t.zbuf = <<>>
    BY <1>3 DEF Queue, Compressing
  <2> QED
    BY <2>1, <2>2 DEF Emptied
<1> QED
  BY <1>2, <1>3

\* Frames without bytes.
LEMMA EmptySends ==
  ASSUME NEW t \in Response, NEW u \in Response, NEW type \in {"stdout", "end"},
         Sends(t, u, type, <<>>), SameRest(t, u), WireInOrder(t.wire),
         \A i \in DOMAIN t.wire : FrameOfPart(t, t.wire[i])
  PROVE  /\ WireInOrder(u.wire) /\ Sent(u.wire) = Sent(t.wire)
         /\ \A i \in DOMAIN u.wire : FrameOfPart(u, u.wire[i])
<1>1. type \in Types /\ type # "gzip" /\ type # "plain"
  BY DEF Types
<1>2. PICK e \in Seq(Nat) : e = <<>> /\ Range(e) = {}
  BY NoBytes
<1>3. Sends(t, u, type, e)
  BY <1>2
<1>4. WireInOrder(u.wire)
  <2>1. Below(Sent(t.wire), Range(e))
    BY <1>2 DEF Below
  <2> QED
    BY <1>1, <1>3, <2>1, SentInOrder
<1>5. Sent(u.wire) = Sent(t.wire)
  <2>1. Sent(t.wire) \subseteq Sent(u.wire) /\ Sent(u.wire) \subseteq Sent(t.wire) \cup Range(e)
    BY <1>1, <1>3, SentBy
  <2> QED
    BY <1>2, <2>1
<1>6. \A i \in DOMAIN u.wire : FrameOfPart(u, u.wire[i])
  <2>1. u.gz = t.gz /\ u.given = t.given /\ Range(e) \subseteq Part(t, "body")
    BY <1>2 DEF SameRest
  <2> QED
    BY <1>1, <1>3, <2>1, SentOfPart
<1> QED
  BY <1>4, <1>5, <1>6

\* How the frames of a connection end.
EndFrames(t) ==
  /\ \A i \in DOMAIN t.wire :
       /\ t.wire[i].type = "stdout" /\ ~t.wire[i].cut => Sized(t.wire[i])
       /\ EndsStream(t.wire[i]) => i >= Len(t.wire) - 1
  /\ ~Failed(t) =>
       /\ Len(t.wire) >= 2
       /\ t.wire[Len(t.wire)].type = "end"
       /\ EndsStream(t.wire[Len(t.wire) - 1])

\* After the records of the stream, an empty one.
LEMMA EmptyRecord ==
  ASSUME OutputAssumption, NEW t \in Response, \A i \in DOMAIN t.wire : Whole(t.wire[i]),
         NEW u \in Response, RecordsSent(t, u, "stdout", <<>>), u.er # "OK" => Failed(u)
  PROVE  /\ Len(u.wire) \in {Len(t.wire), Len(t.wire) + 1}
         /\ \A i \in DOMAIN u.wire :
              /\ u.wire[i].type = "stdout" /\ ~u.wire[i].cut => Sized(u.wire[i])
              /\ EndsStream(u.wire[i]) => i = Len(t.wire) + 1
         /\ ~Failed(u) => Len(u.wire) = Len(t.wire) + 1 /\ EndsStream(u.wire[Len(u.wire)])
<1>0. t.wire \in Seq(Frame) /\ u.wire \in Seq(Frame) /\ "stdout" \in Types
  BY DEF Response, Types
<1>1. PICK e \in Seq(Nat) : e = <<>> /\ Len(e) = 0
  BY NoBytes
<1>2. Records(Len(e)) = 1
  BY <1>1, RecordsCount
<1>3. PICK n \in Nat : n = Len(t.wire) /\ DOMAIN t.wire = 1..n
  BY <1>0
<1>4. PICK m \in Nat : m = Len(u.wire) /\ DOMAIN u.wire = 1..m
  BY <1>0
<1>5. RecordsSent(t, u, "stdout", e)
  BY <1>1
<1>6. /\ m - n \in 0..1
      /\ \A i \in 1..n : u.wire[i] = t.wire[i]
      /\ \A i \in 1..(m - n) : \/ u.wire[n + i] = Record("stdout", e, i)
                               \/ u.wire[n + i] \in CutFrames("stdout", Chunk(e, i))
      /\ u.er = "OK" => /\ m - n = 1
                        /\ \A i \in 1..(m - n) : u.wire[n + i] = Record("stdout", e, i)
  BY <1>2, <1>3, <1>4, <1>5 DEF RecordsSent
<1>7. m \in {n, n + 1}
  BY <1>6
<1>8. PICK r : r = Record("stdout", e, 1)
  OBVIOUS
<1>9. Chunk(e, 1) = <<>> /\ Sized(r) /\ EndsStream(r)
  <2>1. 1 \in 1..Records(Len(e))
    BY <1>2
  <2>2. PICK c \in Seq(Nat) : c = Chunk(e, 1) /\ c = <<>> /\ Len(c) = 0
    BY <1>1, <2>1, ChunkIs, NoBytes
  <2>3. r.data = c /\ r.type = "stdout" /\ r.pad = PadLen(Len(c)) /\ ~r.cut
    BY <1>0, <1>8, <2>1, <2>2, RecordIs
  <2>4. PadLen(Len(c)) < Align /\ (Len(c) + PadLen(Len(c))) % Align = 0
    BY <2>2, PadLenIs
  <2>5. Len(c) <= MaxRecord
    BY <2>2 DEF OutputAssumption
  <2> QED
    BY <2>2, <2>3, <2>4, <2>5 DEF Sized, EndsStream
<1>10. ASSUME m = n + 1
       PROVE  \/ u.wire[m] = r
              \/ u.wire[m].cut /\ u.er # "OK"
  <2>1. 1 \in 1..(m - n) /\ n + 1 = m
    BY <1>10
  <2>2. CASE u.wire[m] = r
    BY <2>2
  <2>3. CASE u.wire[m] # r
    <3>1. u.wire[m] \in CutFrames("stdout", Chunk(e, 1)) /\ u.er # "OK"
      BY <1>6, <1>8, <2>1, <2>3
    <3>2. u.wire[m].cut
      <4>1. u.wire[m] \in CutFrames("stdout", e)
        BY <1>1, <1>9, <3>1
      <4> QED
        BY <1>0, <4>1, CutFramesTyped
    <3> QED
      BY <3>1, <3>2
  <2> QED
    BY <2>2, <2>3
<1>11. ASSUME NEW i \in 1..m
       PROVE  /\ u.wire[i].type = "stdout" /\ ~u.wire[i].cut => Sized(u.wire[i])
              /\ EndsStream(u.wire[i]) => i = n + 1
  <2>1. CASE i \in 1..n
    <3>1. Whole(u.wire[i])
      BY <1>3, <1>6, <2>1
    <3> QED
      BY <3>1 DEF Whole, EndsStream
  <2>2. CASE i \notin 1..n
    <3>1. i = m /\ m = n + 1
      BY <1>7, <2>2
    <3> QED
      BY <1>9, <1>10, <3>1
  <2> QED
    BY <2>1, <2>2
<1>12. ASSUME ~Failed(u) PROVE m = n + 1 /\ EndsStream(u.wire[m])
  <2>1. u.er = "OK"
    BY <1>12
  <2>2. m = n + 1
    BY <1>6, <2>1
  <2> QED
    BY <1>9, <1>10, <2>1, <2>2
<1> QED
  BY <1>3, <1>4, <1>7, <1>11, <1>12

\* Nothing but the frames that end the request is added.
Ended(t, u) ==
  /\ u \in Response /\ SameRest(t, u)
  /\ Failed(t) => Failed(u)
  /\ WireInOrder(u.wire) /\ Sent(u.wire) = Sent(t.wire)
  /\ \A i \in DOMAIN u.wire : FrameOfPart(u, u.wire[i])
  /\ fcgi => EndFrames(u)

LEMMA EndRecordsEnd ==
  ASSUME OutputAssumption, NEW t, Queue(t), NEW u \in EndRecords(t)
  PROVE  Ended(t, u)
<1>1. /\ t \in Response /\ WireInOrder(t.wire) /\ \A i \in DOMAIN t.wire : FrameOfPart(t, t.wire[i])
  BY DEF Queue
<1>2. CASE ~fcgi
  <2>1. u = t
    BY <1>2 DEF EndRecords
  <2> QED
    BY <1>1, <1>2, <2>1 DEF Ended, SameRest
<1>3. CASE fcgi
  <2>1. PICK v \in fcgi_write(t, "stdout", <<>>) : u \in Put(v, "end", <<>>, 0)
    BY <1>3 DEF EndRecords
  <2>2. /\ "stdout" \in Types /\ "end" \in Types /\ "stdout" \in {"stdout", "end"}
        /\ "end" \in {"stdout", "end"} /\ 0 \in Nat
    BY DEF Types
  <2>3. Fares(t, v) /\ RecordsSent(t, v, "stdout", <<>>)
    BY <1>1, <2>1, <2>2, NoBytes, fcgi_writeSends
  <2>4. v \in Response /\ SameRest(t, v) /\ (Failed(t) \/ v.er # "OK" => Failed(v))
    BY <2>3 DEF Fares
  <2>5. Sends(t, v, "stdout", <<>>)
    BY <1>1, <2>2, <2>3, <2>4, NoBytes, RecordsSend
  <2>6. /\ WireInOrder(v.wire) /\ Sent(v.wire) = Sent(t.wire)
        /\ \A i \in DOMAIN v.wire : FrameOfPart(v, v.wire[i])
    BY <1>1, <2>2, <2>4, <2>5, EmptySends
  <2>7. PutEffect(v, u, "end", <<>>, 0)
    BY <2>1, <2>2, <2>4, NoBytes, PutDoes
  <2>8. Fares(v, u) /\ Sends(v, u, "end", <<>>)
    BY <2>2, <2>4, <2>7, NoBytes, PutSends
  <2>9. u \in Response /\ SameRest(v, u) /\ (Failed(v) \/ u.er # "OK" => Failed(u))
    BY <2>8 DEF Fares
  <2>10. /\ WireInOrder(u.wire) /\ Sent(u.wire) = Sent(v.wire)
         /\ \A i \in DOMAIN u.wire : FrameOfPart(u, u.wire[i])
    BY <2>2, <2>4, <2>6, <2>8, <2>9, EmptySends
  <2>11. EndFrames(u)
    <3>1. \A i \in DOMAIN t.wire : Whole(t.wire[i])
      BY <1>3 DEF Queue
    <3>2. PICK n \in Nat : n = Len(t.wire)
      BY <1>1 DEF Response
    <3>3. PICK m \in Nat : m = Len(v.wire) /\ DOMAIN v.wire = 1..m /\ v.wire \in Seq(Frame)
      BY <2>4 DEF Response
    <3>4. /\ m \in {n, n + 1}
          /\ \A i \in 1..m :
               /\ v.wire[i].type = "stdout" /\ ~v.wire[i].cut => Sized(v.wire[i])
               /\ EndsStream(v.wire[i]) => i = n + 1
          /\ ~Failed(v) => m = n + 1 /\ EndsStream(v.wire[m])
      BY <1>1, <2>3, <2>4, <3>1, <3>2, <3>3, EmptyRecord
    <3>5. PICK w : w = u.wire /\ w \in Seq(Frame)
      BY <2>9 DEF Response
    <3>6. PICK l \in Nat : l = Len(w) /\ DOMAIN w = 1..l
      BY <3>5
    <3>7. /\ l \in {m, m + 1} /\ \A i \in 1..m : w[i] = v.wire[i]
          /\ l = m + 1 => w[l].type = "end"
          /\ u.er = "OK" => l = m + 1
      <4>1. PICK e \in Seq(Nat) : e = <<>>
        BY NoBytes
      <4>2. \A f \in CutFrames("end", e) : f \in Frame /\ f.type = "end"
        BY <2>2, CutFramesTyped
      <4>3. /\ AsFrame("end", e, 0, FALSE) \in Frame
            /\ AsFrame("end", e, 0, FALSE).type = "end"
        BY ZenonT(30), <2>2, FrameTyped
      <4>4. CASE u.er # "OK" /\ u.wire = v.wire
        BY <3>3, <3>5, <3>6, <4>4
      <4>5. CASE \E f \in Frame : f.type = "end" /\ u.wire = Append(v.wire, f)
        <5>1. PICK f \in Frame : f.type = "end" /\ u.wire = Append(v.wire, f)
          BY <4>5
        <5>2. /\ Len(Append(v.wire, f)) = m + 1 /\ Append(v.wire, f)[m + 1] = f
              /\ \A i \in 1..m : Append(v.wire, f)[i] = v.wire[i]
          BY <3>3, AppendedWire
        <5> QED
          BY <3>5, <3>6, <5>1, <5>2
      <4> QED
        BY <2>7, <4>1, <4>2, <4>3, <4>4, <4>5 DEF PutEffect
    <3>8. ASSUME NEW i \in 1..l
          PROVE  /\ w[i].type = "stdout" /\ ~w[i].cut => Sized(w[i])
                 /\ EndsStream(w[i]) => i >= l - 1
      <4>1. CASE i \in 1..m
        BY <3>4, <3>7, <4>1
      <4>2. CASE i \notin 1..m
        <5>1. i = l /\ l = m + 1
          BY <3>7, <4>2
        <5> QED
          BY <3>7, <5>1 DEF EndsStream
      <4> QED
        BY <4>1, <4>2
    <3>9. ASSUME ~Failed(u)
          PROVE  l >= 2 /\ w[l].type = "end" /\ EndsStream(w[l - 1])
      <4>1. ~Failed(v) /\ u.er = "OK"
        BY <2>9, <3>9
      <4>2. m = n + 1 /\ EndsStream(v.wire[m]) /\ l = m + 1 /\ w[l].type = "end"
        BY <3>4, <3>7, <4>1
      <4>3. l - 1 = m /\ m \in 1..m /\ l >= 2
        BY <4>2
      <4> QED
        BY <3>7, <4>2, <4>3
    <3> QED
      BY <3>5, <3>6, <3>8, <3>9 DEF EndFrames
  <2>12. SameRest(t, u) /\ (Failed(t) => Failed(u)) /\ Sent(u.wire) = Sent(t.wire)
    BY <2>4, <2>6, <2>9, <2>10 DEF SameRest
  <2> QED
    BY <2>9, <2>10, <2>11, <2>12 DEF Ended
<1> QED
  BY <1>2, <1>3

LEMMA khttp_freeIInv ==
  ASSUME OutputAssumption, IInv, khttp_free
  PROVE  IInv'
<1>1. state # "freed" /\ state' = "freed" /\ UNCHANGED <<fcgi, outbufsz, begun, encoding>>
  BY DEF khttp_free
<1>2. PICK u \in kdata_drain(Begin) : \E v \in gzclose(u) : \E x \in EndRecords(v) :
        s' = Return(x, "OK")
  BY DEF khttp_free, LastDrain
<1>3. PICK v \in gzclose(u) : \E x \in EndRecords(v) : s' = Return(x, "OK")
  BY <1>2
<1>4. PICK x \in EndRecords(v) : s' = Return(x, "OK")
  BY <1>3
<1>5. PICK b : b = Begin
  OBVIOUS
<1>6. Sound(b) /\ b.er = "OK" /\ b.gz = s.gz /\ b.told = s.told /\ state \in {"head", "body"}
  BY <1>1, <1>5, BeginSound
<1>7. Queue(b) /\ Buffer(b) /\ Loss(b)
  BY <1>6 DEF Sound
<1>8. Drained(b, u)
  BY <1>2, <1>5, <1>6, <1>7, DrainDrains
<1>9. Queue(u) /\ u.buf = <<>>
  BY <1>8 DEF Drained
<1>10. Emptied(u, v)
  BY <1>3, <1>6, <1>9, gzcloseEmpties
<1>11. Queue(v)
  BY <1>10 DEF Emptied
<1>12. Ended(v, x)
  BY <1>4, <1>11, EndRecordsEnd
<1>13. x \in Response /\ x.zbuf = <<>> /\ x.buf = <<>> /\ x.given = b.given /\ x.gz = b.gz
  BY <1>8, <1>10, <1>12 DEF Drained, Emptied, Ended, SameRest
<1>14. Sent(x.wire) \subseteq DOMAIN x.given /\ (Failed(x) \/ Sent(x.wire) = DOMAIN x.given)
  <2>1. Out(u) \subseteq Kept(b) /\ (~Failed(u) => Out(u) = Kept(b) /\ ~Failed(b))
    BY <1>8 DEF Drained, Kept, Out
  <2>2. Kept(b) \subseteq DOMAIN b.given /\ (~Failed(b) => Kept(b) = DOMAIN b.given)
    BY <1>7 DEF Loss
  <2>3. Sent(x.wire) = Out(v)
    BY <1>10, <1>12, NoBytes DEF Emptied, Ended, Out
  <2>4. ~Failed(x) => ~Failed(v) /\ ~Failed(u)
    BY <1>10, <1>12 DEF Emptied, Ended
  <2>5. Out(v) \subseteq Out(u) /\ (Failed(v) \/ Out(v) = Out(u))
    BY <1>10 DEF Emptied
  <2> QED
    BY <1>13, <2>1, <2>2, <2>3, <2>4, <2>5
<1>15. PICK y : y = s'
  OBVIOUS
<1>16. /\ y \in Response /\ y.zbuf = x.zbuf /\ y.buf = x.buf /\ y.wire = x.wire
       /\ y.given = x.given /\ y.gz = x.gz /\ y.peer = x.peer /\ y.system = x.system
  <2>1. y = [x EXCEPT !.er = "OK"]
    BY <1>4, <1>15 DEF Return
  <2>2. "OK" \in Errors
    BY DEF Errors
  <2>3. [x EXCEPT !.er = "OK"] \in Response
    BY <1>13, <2>2 DEF Response
  <2> QED
    BY <1>13, <2>1, <2>3 DEF Response
<1>17. \A i \in DOMAIN y.wire : FrameOfPart(y, y.wire[i])
  <2>1. \A i \in DOMAIN x.wire : FrameOfPart(x, x.wire[i])
    BY <1>12 DEF Ended
  <2>2. y.given = x.given /\ y.gz = x.gz /\ y.wire = x.wire
    BY <1>16
  <2> QED
    BY <2>1, <2>2, SamePart DEF FrameOfPart
<1>18. Freed(y)
  <2>1. Failed(y) <=> Failed(x)
    BY <1>16 DEF Failed
  <2>2. WireInOrder(y.wire)
    BY <1>12, <1>16 DEF Ended
  <2> QED
    BY <1>13, <1>14, <1>16, <1>17, <2>1, <2>2 DEF Freed
<1>19. fcgi => EndFrames(y)
  <2>1. Failed(y) <=> Failed(x)
    BY <1>16 DEF Failed
  <2>2. fcgi => EndFrames(x)
    BY <1>12 DEF Ended
  <2>3. y.wire = x.wire
    BY <1>16
  <2> QED
    BY <2>1, <2>2, <2>3 DEF EndFrames
<1>20. Freed(s')
  BY <1>15, <1>18
<1>21. Freed(s)'
  BY <1>1, <1>20 DEF Freed, FrameOfPart, Part, Sent, Failed, WireInOrder, Increasing, Below
<1>22. Framed'
  <2>1. fcgi => EndFrames(s')
    BY <1>15, <1>19
  <2> QED
    BY <1>1, <2>1 DEF Framed, EndFrames, Failed, Sized, EndsStream
<1>23. OTypeOK'
  <2>1. s' \in Response /\ s'.buf = <<>>
    BY <1>13, <1>15, <1>16
  <2>2. outbufsz \in Nat /\ outbufsz' = outbufsz
    BY <1>1 DEF IInv, OTypeOK, OutputAssumption
  <2>3. Len(s'.buf) <= outbufsz'
    BY <2>1, <2>2, NoBytes
  <2> QED
    BY <1>1, <2>1, <2>3 DEF IInv, OTypeOK, Response, Frame, Errors
<1>24. Modes'
  <2>1. s'.gz = s.gz
    BY <1>6, <1>13, <1>15, <1>16
  <2> QED
    BY <1>1, <2>1 DEF IInv, Modes
<1> QED
  BY <1>1, <1>21, <1>22, <1>23, <1>24 DEF IInv

-----------------------------------------------------------------------------
(* The theorems *)

\* Nothing comes out of the copy of a child: without a connection the descriptors
\* are closed first, and on one there is no compressor.
LEMMA khttp_child_freeStutters ==
  ASSUME IInv, khttp_child_free
  PROVE  UNCHANGED ovars
<1>1. state # "freed" /\ (fcgi => ~s.gz)
  BY DEF khttp_child_free, IInv, Sound, Queue
<1> QED
  BY <1>1 DEF khttp_child_free, ClosedFirst, ovars

LEMMA StutterIInv ==
  ASSUME IInv, UNCHANGED ovars
  PROVE  IInv'
<1>1. /\ fcgi' = fcgi /\ outbufsz' = outbufsz /\ state' = state /\ begun' = begun
      /\ encoding' = encoding /\ s' = s
  BY DEF ovars
<1>2. OTypeOK' /\ Modes'
  BY <1>1 DEF IInv, OTypeOK, Modes, Response, Frame, Errors
<1>3. CASE state # "freed"
  <2>1. Sound(s') /\ (s'.er # "OK" => s'.told)
    BY <1>1, <1>3 DEF IInv
  <2>2. Sound(s)'
    BY <1>1, <2>1, SoundNext
  <2> QED
    BY <1>1, <1>2, <1>3, <2>1, <2>2 DEF IInv
<1>4. CASE state = "freed"
  <2>1. Freed(s') /\ Framed
    BY <1>1, <1>4 DEF IInv
  <2>2. Freed(s)'
    BY <2>1 DEF Freed, FrameOfPart, Part, Sent, Failed, WireInOrder, Increasing, Below
  <2>3. Framed'
    BY <1>1, <2>1 DEF Framed, Failed, Sized, EndsStream
  <2> QED
    BY <1>1, <1>2, <1>4, <2>2, <2>3 DEF IInv
<1> QED
  BY <1>3, <1>4

LEMMA InitIInv ==
  ASSUME OutputAssumption, OInit
  PROVE  IInv
<1>1. outbufsz \in Nat /\ 0 \in 0..MaxSystem /\ 0 \in 0..MaxNoMem
  BY DEF OInit, OutputAssumption
<1>2. s \in Response
  <2>1. PICK e \in Seq(Nat) : e = <<>>
    BY NoBytes
  <2>2. PICK w \in Seq(Frame) : w = <<>>
    <3>1. <<>> \in Seq(Frame)
      OBVIOUS
    <3> QED
      BY <3>1
  <2>3. PICK g \in Seq({"head", "body"}) : g = <<>>
    <3>1. <<>> \in Seq({"head", "body"})
      OBVIOUS
    <3> QED
      BY <3>1
  <2>4. s = [gz |-> FALSE, zbuf |-> e, buf |-> e, wire |-> w, peer |-> TRUE, given |-> g,
             system |-> 0, nomem |-> 0, er |-> "OK", told |-> FALSE]
    BY <2>1, <2>2, <2>3 DEF OInit
  <2> QED
    BY <1>1, <2>4 DEF Response, Errors
<1>3. /\ s.gz = FALSE /\ s.zbuf = <<>> /\ s.buf = <<>> /\ s.wire = <<>> /\ s.given = <<>>
      /\ s.er = "OK"
  BY DEF OInit
<1>4. DOMAIN s.wire = {} /\ DOMAIN s.given = {} /\ Range(s.buf) = {} /\ Range(s.zbuf) = {}
  BY <1>3, NoBytes
<1>5. Sent(s.wire) = {} /\ Part(s, "head") = {} /\ WireInOrder(s.wire)
  BY <1>4 DEF Sent, Part, WireInOrder
<1>6. Increasing(s.buf) /\ Increasing(s.zbuf) /\ Len(s.buf) = 0
  BY <1>3, NoBytes
<1>7. state = "head" /\ ~begun /\ encoding = "none"
  BY DEF OInit
<1>8. Queue(s)
  BY <1>2, <1>3, <1>4, <1>5, <1>6 DEF Queue, Below
<1>9. Buffer(s) /\ Loss(s)
  BY <1>1, <1>4, <1>5, <1>6 DEF Buffer, Loss, Kept, Out, Below
<1>10. OTypeOK /\ Modes
  <2>1. fcgi \in BOOLEAN /\ outbufsz \in BufSizes /\ begun = FALSE
    BY DEF OInit
  <2>2. Len(s.buf) <= outbufsz
    BY <1>1, <1>6
  <2> QED
    BY <1>2, <1>3, <1>7, <2>1, <2>2 DEF OTypeOK, Modes
<1> QED
  BY <1>3, <1>4, <1>5, <1>7, <1>8, <1>9, <1>10 DEF IInv, Sound

LEMMA NextIInv ==
  ASSUME OutputAssumption, IInv, [ONext]_ovars
  PROVE  IInv'
<1>1. CASE khttp_head
  BY <1>1, khttp_headIInv
<1>2. CASE khttp_body
  BY <1>2, khttp_bodyIInv
<1>3. CASE khttp_body_compress
  BY <1>3, khttp_body_compressIInv
<1>4. CASE khttp_write
  BY <1>4, khttp_writeIInv
<1>5. CASE khttp_free
  BY <1>5, khttp_freeIInv
<1>6. CASE khttp_child_free
  BY <1>6, khttp_child_freeStutters, StutterIInv
<1>7. CASE ResponseOver
  BY <1>7, StutterIInv DEF ResponseOver
<1>8. CASE UNCHANGED ovars
  BY <1>8, StutterIInv
<1> QED
  BY <1>1, <1>2, <1>3, <1>4, <1>5, <1>6, <1>7, <1>8 DEF ONext

\* The invariant of a response, for buffers, records and writes of any size
\* (output.c:102-614): its parts say what is on the wire, in the compressor and in the
\* buffer, and who knows what is missing.
THEOREM OutputInvariance ==
  ASSUME OutputAssumption
  PROVE  OSpec => []IInv
<1>1. OInit => IInv
  BY InitIInv
<1>2. IInv /\ [ONext]_ovars => IInv'
  BY NextIInv
<1> QED
  BY <1>1, <1>2, PTL DEF OSpec

\* Bytes leave in the order in which they were given, and none of them twice, through
\* the buffer, past it, or through the compressor (output.c:142-267).
THEOREM OrderedHolds ==
  ASSUME OutputAssumption
  PROVE  OSpec => []Ordered
<1>1. IInv => Ordered
  <2> SUFFICES ASSUME IInv PROVE Ordered
    OBVIOUS
  <2>1. CASE state # "freed"
    BY <2>1 DEF IInv, Sound, Queue, Buffer, Out, Ordered
  <2>2. CASE state = "freed"
    BY <2>2, NoBytes DEF IInv, Freed, Ordered, Below
  <2> QED
    BY <2>1, <2>2
<1> QED
  BY <1>1, OutputInvariance, PTL

\* Nothing is lost unless something failed, and then the application has been told, or
\* the response was being freed (output.c:251-267, 394-463).
THEOREM NoSilentLossHolds ==
  ASSUME OutputAssumption
  PROVE  OSpec => []NoSilentLoss
<1>1. IInv => NoSilentLoss
  <2> SUFFICES ASSUME IInv PROVE NoSilentLoss
    OBVIOUS
  <2>1. CASE state # "freed"
    BY <2>1 DEF IInv, Sound, Loss, NoSilentLoss
  <2>2. CASE state = "freed"
    <3>1. Kept(s) = Sent(s.wire)
      BY <2>2, NoBytes DEF IInv, Freed, Kept
    <3> QED
      BY <2>2, <3>1 DEF IInv, Freed, NoSilentLoss
  <2> QED
    BY <2>1, <2>2
<1> QED
  BY <1>1, OutputInvariance, PTL

\* The head leaves as it is and before the body, which is compressed if and only if
\* that was said, and no frame has bytes of both (output.c:479-614).
THEOREM HeadThenBodyHolds ==
  ASSUME OutputAssumption
  PROVE  OSpec => []HeadThenBody
<1>1. IInv => HeadThenBody
  <2> SUFFICES ASSUME IInv PROVE HeadThenBody
    OBVIOUS
  <2>1. CASE state # "freed"
    BY <2>1 DEF IInv, Modes, Sound, Queue, Buffer, HeadThenBody
  <2>2. CASE state = "freed"
    BY <2>2 DEF IInv, Freed, HeadThenBody
  <2> QED
    BY <2>1, <2>2
<1> QED
  BY <1>1, OutputInvariance, PTL

\* Records are as FastCGI wants them, for every size of the data, and one empty record
\* ends the stream, at the end of the request only (output.c:102-138, 447-463).
THEOREM FramedHolds ==
  ASSUME OutputAssumption
  PROVE  OSpec => []Framed
<1>1. IInv => Framed
  <2> SUFFICES ASSUME IInv PROVE Framed
    OBVIOUS
  <2>1. CASE state # "freed"
    BY <2>1 DEF IInv, Sound, Queue, Whole, EndsStream, Framed
  <2>2. CASE state = "freed"
    BY <2>2 DEF IInv
  <2> QED
    BY <2>1, <2>2
<1> QED
  BY <1>1, OutputInvariance, PTL

=============================================================================

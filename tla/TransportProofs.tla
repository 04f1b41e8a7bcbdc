---------------------------- MODULE TransportProofs ----------------------------
(***************************************************************************)
(* Theorems about Transport, for scripts of any items and length, a socket *)
(* of any size, and however the kernel cuts what is written: the reader    *)
(* gets the items that were written, in their order and whole.             *)
(***************************************************************************)
EXTENDS Transport, TLAPS, SequenceTheorems

WriterPlaces == {"poll", "write", "exited", "failed", "killed"}
ReaderPlaces == {"poll", "read", "pollword", "readword", "ended", "failed"}
Errors == {"KCGI_OK", "KCGI_HUP", "KCGI_SYSTEM", "KCGI_FORM", "KCGI_ENOMEM"}
Total == Len(script)

TypeOK ==
  /\ script \in Scripts
  /\ chan \in Seq(Nat)
  /\ writer \in [item : 1..(Total + 1), sz : Nat, at : WriterPlaces, er : Errors]
  /\ reader \in [item : 1..(Total + 1), sz : Nat, at : ReaderPlaces, er : Errors, bytes : Seq(Nat)]
  /\ got \in Seq(Seq(Nat))
  /\ signals \in Nat

-----------------------------------------------------------------------------
(* The invariant.                                                          *)

\* The writer is at an item and has not written all of it; a descriptor's message
\* it writes at once.
WriterWhere ==
  /\ writer.item <= Total =>
       /\ Wire(writer.item) # <<>> => writer.sz < Len(Wire(writer.item))
       /\ Wire(writer.item) = <<>> \/ IsFd(writer.item) => writer.sz = 0
  /\ writer.item > Total => writer.sz = 0
  /\ writer.at = "write" => writer.item <= Total /\ Wire(writer.item) # <<>>
  /\ writer.at = "exited" => writer.item > Total

\* What the reader has taken of its item: of a word, the size and then some.
Taken == IF reader.at \in {"pollword", "readword"} THEN SizeT + reader.sz ELSE reader.sz

ReaderWhere ==
  ~ReaderGone =>
    /\ reader.item > Total => reader.at = "poll" /\ reader.sz = 0 /\ reader.bytes = <<>>
    /\ reader.item <= Total =>
         /\ reader.bytes = SubSeq(Wire(reader.item), 1, Taken)
         /\ Wire(reader.item) # <<>> => Taken < Len(Wire(reader.item))
         /\ Wire(reader.item) = <<>> => reader.at = "poll"
         /\ Wire(reader.item) = <<>> \/ IsFd(reader.item) => reader.sz = 0
    /\ reader.at \in {"pollword", "readword"} => IsWord(reader.item)
    /\ reader.at \in {"poll", "read"} /\ reader.item <= Total /\ IsWord(reader.item) =>
         reader.sz < SizeT
    /\ reader.at \in {"read", "readword"} => chan # <<>> \/ WriterGone

\* The items W, of lengths L, lie from r to w one after the other in c, which has m
\* bytes: each begins where the one before it ends, the first by "off" before c
\* begins, and of the last there is "sz".
IsLayout(start, W, L, r, w, off, sz, c, m) ==
  /\ start[r] + off = 0
  /\ \A k \in Int : r <= k /\ k < w => start[k + 1] = start[k] + L[k]
  /\ \A j, k \in Int : r <= j /\ j < k /\ k <= w => start[j + 1] <= start[k]
  /\ m = start[w] + sz
  /\ \A k, i \in Int : r <= k /\ k <= w /\ i >= 1 /\ i <= L[k] =>
       (start[k] + i >= 1 /\ start[k] + i <= m => c[start[k] + i] = W[k][i])
Holds(W, L, r, w, off, sz, c, m) ==
  \E start \in [Int -> Int] : IsLayout(start, W, L, r, w, off, sz, c, m)

\* The socket holds what is written and not read; only over empty items can the
\* reader get ahead.
Wires == [k \in Int |-> Wire(k)]
Lengths == [k \in Int |-> IF k \in 1..Total THEN Len(Wire(k)) ELSE 0]
EmptyFrom(w, r) == \A k \in Int : w <= k /\ k < r => Wire(k) = <<>>
Stream ==
  ~ReaderGone =>
    IF reader.item <= writer.item
    THEN Holds(Wires, Lengths, reader.item, writer.item, Taken, writer.sz, chan, Len(chan))
    ELSE /\ chan = <<>> /\ writer.sz = 0 /\ Taken = 0
         /\ EmptyFrom(writer.item, reader.item)

\* What was read, item by item.
GotAll ==
  /\ Len(got) = reader.item - 1
  /\ \A k \in 1..Len(got) : got[k] = Bytes(k)

\* A reader that has come to its end has found the end of the stream.
AtEnd ==
  reader.at = "ended" =>
    \/ reader.item > Total
    \/ /\ WriterGone /\ writer.item <= reader.item /\ writer.sz = 0
       /\ EmptyFrom(writer.item, reader.item)
       /\ Wire(reader.item) # <<>>

IInv == TypeOK /\ WriterWhere /\ ReaderWhere /\ Stream /\ GotAll /\ AtEnd

-----------------------------------------------------------------------------
(* Sequences, and what an item is on the wire.                             *)

LEMMA SameElements ==
  ASSUME NEW a \in Seq(Nat), NEW b \in Seq(Nat), Len(a) = Len(b),
         \A i \in 1..Len(a) : a[i] = b[i]
  PROVE  a = b
BY SeqEqual

LEMMA Piece ==
  ASSUME NEW a \in Seq(Nat), NEW m \in 1..(Len(a) + 1), NEW n \in (m - 1)..Len(a)
  PROVE  /\ SubSeq(a, m, n) \in Seq(Nat) /\ Len(SubSeq(a, m, n)) = n - m + 1
         /\ \A i \in 1..(n - m + 1) : SubSeq(a, m, n)[i] = a[m + i - 1]
BY SubSeqProperties

LEMMA Joined ==
  ASSUME NEW a \in Seq(Nat), NEW b \in Seq(Nat)
  PROVE  /\ a \o b \in Seq(Nat) /\ Len(a \o b) = Len(a) + Len(b)
         /\ \A i \in 1..Len(a) : (a \o b)[i] = a[i]
         /\ \A i \in 1..Len(b) : (a \o b)[Len(a) + i] = b[i]
BY ConcatProperties

\* A size survives the bytes it is written as.
LEMMA SizeKept ==
  ASSUME TransportAssumption, NEW n \in Nat
  PROVE  /\ AsBytes(n) \in Seq(Nat) /\ Len(AsBytes(n)) = SizeT
         /\ AsSize(AsBytes(n)) = n
<1>1. Base \in Nat /\ Base > 0
  BY DEF TransportAssumption
<1>2. n % Base \in Nat /\ n \div Base \in Nat
  BY <1>1
<1>3. n = (n % Base) + Base * (n \div Base)
  BY <1>1
<1> QED
  BY <1>2, <1>3 DEF AsBytes, AsSize, SizeT

LEMMA ItemOf ==
  ASSUME TransportAssumption, TypeOK, NEW k \in 1..Total
  PROVE  /\ Bytes(k) \in Seq(Nat)
         /\ script[k].eofok \in BOOLEAN
         /\ IsWord(k) => ~script[k].eofok /\ ~IsFd(k)
         /\ IsFd(k) => Bytes(k) # <<>>
         /\ Total \in Nat
<1> DEFINE Item == [how : {"word", "number", "noerr", "fd"}, bytes : Seq(0..(Base - 1)),
                    eofok : BOOLEAN]
<1>1. script \in Seq(Item)
  BY DEF TransportAssumption, TypeOK
<1> HIDE DEF Item
<1>2. Total \in Nat /\ k \in DOMAIN script /\ script[k] \in Item
  BY <1>1, ElementOfSeq DEF Total
<1>3. script[k] \in [how : {"word", "number", "noerr", "fd"}, bytes : Seq(0..(Base - 1)),
                     eofok : BOOLEAN]
  BY <1>2 DEF Item
<1>4. 0..(Base - 1) \subseteq Nat
  BY DEF TransportAssumption
<1>5. Bytes(k) \in Seq(Nat)
  BY <1>3, <1>4, SeqMonotonic DEF Bytes
<1>6. /\ IsWord(k) => ~script[k].eofok
      /\ IsFd(k) => Bytes(k) # <<>>
  BY <1>2 DEF TransportAssumption, TypeOK, IsWord, IsFd, Bytes
<1> QED
  BY <1>2, <1>3, <1>5, <1>6 DEF IsWord, IsFd

LEMMA WireOf ==
  ASSUME TransportAssumption, TypeOK, NEW k \in 1..Total
  PROVE  /\ Wire(k) \in Seq(Nat)
         /\ IsWord(k) => /\ Wire(k) = AsBytes(Len(Bytes(k))) \o Bytes(k)
                         /\ Len(Wire(k)) = SizeT + Len(Bytes(k))
                         /\ AsSize(Wire(k)) = Len(Bytes(k))
                         /\ \A i \in 1..Len(Bytes(k)) : Wire(k)[SizeT + i] = Bytes(k)[i]
         /\ IsFd(k) => /\ Len(Wire(k)) = Len(Bytes(k)) /\ Len(Wire(k)) > 0
                       /\ Wire(k)[1] = Bytes(k)[1] + Base
                       /\ \A i \in 2..Len(Bytes(k)) : Wire(k)[i] = Bytes(k)[i]
         /\ ~IsWord(k) /\ ~IsFd(k) => Wire(k) = Bytes(k)
<1>1. Bytes(k) \in Seq(Nat) /\ Len(Bytes(k)) \in Nat
  BY ItemOf
<1>2. CASE IsWord(k)
  <2>1. /\ AsBytes(Len(Bytes(k))) \in Seq(Nat) /\ Len(AsBytes(Len(Bytes(k)))) = SizeT
        /\ AsSize(AsBytes(Len(Bytes(k)))) = Len(Bytes(k))
    BY <1>1, SizeKept
  <2>2. Wire(k) = AsBytes(Len(Bytes(k))) \o Bytes(k)
    BY <1>2 DEF Wire
  <2>3. /\ Wire(k) \in Seq(Nat) /\ Len(Wire(k)) = SizeT + Len(Bytes(k))
        /\ \A i \in 1..SizeT : Wire(k)[i] = AsBytes(Len(Bytes(k)))[i]
        /\ \A i \in 1..Len(Bytes(k)) : Wire(k)[SizeT + i] = Bytes(k)[i]
    <3> DEFINE a == AsBytes(Len(Bytes(k)))
               b == Bytes(k)
    <3>1. a \in Seq(Nat) /\ b \in Seq(Nat) /\ Len(a) = SizeT
      BY <1>1, <2>1
    <3> HIDE DEF a, b
    <3>2. /\ a \o b \in Seq(Nat) /\ Len(a \o b) = SizeT + Len(b)
          /\ \A i \in 1..SizeT : (a \o b)[i] = a[i]
          /\ \A i \in 1..Len(b) : (a \o b)[SizeT + i] = b[i]
      BY <3>1, Joined
    <3> QED
      BY <2>2, <3>2 DEF a, b
  <2>4. AsSize(Wire(k)) = AsSize(AsBytes(Len(Bytes(k))))
    BY <2>3 DEF AsSize, SizeT
  <2> QED
    BY <1>2, <2>1, <2>2, <2>3, <2>4, ItemOf
<1>3. CASE IsFd(k)
  <2>1. Wire(k) = [Bytes(k) EXCEPT ![1] = @ + Base] /\ Bytes(k) # <<>> /\ ~IsWord(k)
    BY <1>3, ItemOf DEF Wire, WithDescriptor
  <2>2. Base \in Nat /\ Len(Bytes(k)) > 0 /\ DOMAIN Bytes(k) = 1..Len(Bytes(k))
    BY <1>1, <2>1 DEF TransportAssumption
  <2>3. Bytes(k)[1] + Base \in Nat
    BY <1>1, <2>2
  <2>4. Wire(k) \in [1..Len(Bytes(k)) -> Nat]
    BY <1>1, <2>1, <2>2, <2>3
  <2>5. Wire(k) \in Seq(Nat) /\ Len(Wire(k)) = Len(Bytes(k))
    BY <1>1, <2>4
  <2>6. Wire(k)[1] = Bytes(k)[1] + Base /\ \A i \in 2..Len(Bytes(k)) : Wire(k)[i] = Bytes(k)[i]
    BY <1>1, <2>1, <2>2
  <2> QED
    BY <1>3, <2>1, <2>2, <2>5, <2>6
<1>4. CASE ~IsWord(k) /\ ~IsFd(k)
  BY <1>1, <1>4 DEF Wire
<1> QED
  BY <1>2, <1>3, <1>4

-----------------------------------------------------------------------------
(* Sequences that lie in another one after the other.                      *)

\* More is added of the last.
LEMMA HoldsMore ==
  ASSUME NEW W, NEW L \in [Int -> Nat], NEW r \in Int, NEW w \in Int, r <= w, NEW off \in Nat,
         NEW sz \in Nat, NEW c, NEW m \in Nat, Holds(W, L, r, w, off, sz, c, m),
         NEW n \in Nat, NEW d,
         \A i \in Int : 1 <= i /\ i <= m => d[i] = c[i],
         \A i \in Int : 1 <= i /\ i <= n => d[m + i] = W[w][sz + i]
  PROVE  Holds(W, L, r, w, off, sz + n, d, m + n)
<1>1. PICK start \in [Int -> Int] : IsLayout(start, W, L, r, w, off, sz, c, m)
  BY DEF Holds
<1>2. \A k \in Int : start[k] \in Int /\ L[k] \in Nat
  OBVIOUS
<1>3. start[w] \in Int /\ m = start[w] + sz
  BY <1>1, <1>2 DEF IsLayout
<1>4. ASSUME NEW k \in Int, NEW i \in Int, r <= k, k <= w, i >= 1, i <= L[k],
             start[k] + i >= 1, start[k] + i <= m + n
      PROVE  d[start[k] + i] = W[k][i]
  <2>1. start[k] \in Int /\ L[k] \in Nat
    BY <1>2
  <2>2. CASE start[k] + i <= m
    <3>1. c[start[k] + i] = W[k][i]
      BY <1>1, <1>4, <2>2 DEF IsLayout
    <3>2. d[start[k] + i] = c[start[k] + i]
      BY <1>4, <2>1, <2>2
    <3> QED
      BY <3>1, <3>2
  <2>3. CASE start[k] + i > m
    <3>1. k = w
      <4>1. SUFFICES ASSUME k < w PROVE FALSE
        BY <1>4
      <4>2. start[k + 1] = start[k] + L[k] /\ start[k + 1] <= start[w]
        BY <1>1, <1>4, <4>1 DEF IsLayout
      <4> QED
        BY <1>3, <1>4, <2>1, <2>3, <4>2
    <3>2. PICK x \in Int : x = start[k] + i - m
      BY <2>1
    <3>3. 1 <= x /\ x <= n /\ sz + x = i /\ m + x = start[k] + i
      BY <1>3, <1>4, <2>1, <2>3, <3>1, <3>2
    <3>4. d[m + x] = W[w][sz + x]
      BY <3>3
    <3> QED
      BY <3>1, <3>3, <3>4
  <2> QED
    BY <2>1, <2>2, <2>3
<1>5. m + n = start[w] + (sz + n)
  BY <1>3
<1>6. IsLayout(start, W, L, r, w, off, sz + n, d, m + n)
  BY <1>1, <1>4, <1>5 DEF IsLayout
<1> QED
  BY <1>6 DEF Holds

\* The last is there as a whole: the next begins where it ends.
LEMMA HoldsNext ==
  ASSUME NEW W, NEW L \in [Int -> Nat], NEW r \in Int, NEW w \in Int, r <= w, NEW off \in Nat,
         NEW c, NEW m \in Nat, Holds(W, L, r, w, off, L[w], c, m)
  PROVE  Holds(W, L, r, w + 1, off, 0, c, m)
<1>1. PICK start \in [Int -> Int] : IsLayout(start, W, L, r, w, off, L[w], c, m)
  BY DEF Holds
<1>2. start[w] \in Int /\ m = start[w] + L[w] /\ L[w] \in Nat
  BY <1>1 DEF IsLayout
<1> DEFINE next == [start EXCEPT ![w + 1] = m]
<1>3. /\ next \in [Int -> Int] /\ next[w + 1] = m
      /\ \A k \in Int : k <= w => next[k] = start[k]
      /\ \A k \in Int : next[k] \in Int /\ start[k] \in Int /\ L[k] \in Nat
  OBVIOUS
<1> HIDE DEF next
<1>4. next[r] + off = 0
  BY <1>1, <1>3 DEF IsLayout
<1>5. ASSUME NEW k \in Int, r <= k, k < w + 1 PROVE next[k + 1] = next[k] + L[k]
  <2>1. CASE k < w
    <3>1. next[k + 1] = start[k + 1] /\ next[k] = start[k]
      BY <1>3, <2>1
    <3> QED
      BY <1>1, <1>5, <2>1, <3>1 DEF IsLayout
  <2>2. CASE k = w
    BY <1>2, <1>3, <2>2
  <2> QED
    BY <1>5, <2>1, <2>2
<1>6. ASSUME NEW j \in Int, NEW k \in Int, r <= j, j < k, k <= w + 1 PROVE next[j + 1] <= next[k]
  <2>1. CASE k <= w
    <3>1. next[j + 1] = start[j + 1] /\ next[k] = start[k]
      BY <1>3, <1>6, <2>1
    <3> QED
      BY <1>1, <1>6, <2>1, <3>1 DEF IsLayout
  <2>2. CASE k = w + 1 /\ j = w
    BY <1>2, <1>3, <2>2
  <2>3. CASE k = w + 1 /\ j < w
    <3>1. start[j + 1] <= start[w]
      BY <1>1, <1>6, <2>3 DEF IsLayout
    <3>2. next[j + 1] = start[j + 1] /\ start[j + 1] \in Int /\ next[k] = m
      BY <1>3, <2>3
    <3> QED
      BY <1>2, <3>1, <3>2
  <2> QED
    BY <1>6, <2>1, <2>2, <2>3
<1>7. ASSUME NEW k \in Int, NEW i \in Int, r <= k, k <= w + 1, i >= 1, i <= L[k],
             next[k] + i >= 1, next[k] + i <= m
      PROVE  c[next[k] + i] = W[k][i]
  <2>1. CASE k <= w
    <3>1. next[k] = start[k]
      BY <1>3, <2>1
    <3> QED
      BY <1>1, <1>7, <2>1, <3>1 DEF IsLayout
  <2>2. CASE k = w + 1
    BY <1>3, <1>7, <2>2
  <2> QED
    BY <1>7, <2>1, <2>2
<1>8. m = next[w + 1] + 0
  BY <1>3
<1>9. IsLayout(next, W, L, r, w + 1, off, 0, c, m)
  BY <1>4, <1>5, <1>6, <1>7, <1>8 DEF IsLayout
<1> QED
  BY <1>3, <1>9 DEF Holds

\* Some of the first is taken: it is what had not been taken of it.
LEMMA HoldsLess ==
  ASSUME NEW W, NEW L \in [Int -> Nat], NEW r \in Int, NEW w \in Int, r <= w, NEW off \in Nat,
         NEW sz \in Nat, NEW c, NEW m \in Nat, Holds(W, L, r, w, off, sz, c, m),
         NEW n \in Nat, n <= m,
         NEW d, \A i \in Int : 1 <= i /\ i <= m - n => d[i] = c[n + i]
  PROVE  Holds(W, L, r, w, off + n, sz, d, m - n)
<1>1. PICK start \in [Int -> Int] : IsLayout(start, W, L, r, w, off, sz, c, m)
  BY DEF Holds
<1> DEFINE next == [k \in Int |-> start[k] - n]
<1>2. /\ next \in [Int -> Int]
      /\ \A k \in Int : next[k] = start[k] - n /\ start[k] \in Int /\ next[k] \in Int /\ L[k] \in Nat
  OBVIOUS
<1> HIDE DEF next
<1>3. next[r] + (off + n) = 0
  BY <1>1, <1>2 DEF IsLayout
<1>4. ASSUME NEW k \in Int, r <= k, k < w PROVE next[k + 1] = next[k] + L[k]
  <2>1. start[k + 1] = start[k] + L[k]
    BY <1>1, <1>4 DEF IsLayout
  <2>2. next[k + 1] = start[k + 1] - n /\ next[k] = start[k] - n /\ start[k] \in Int /\ L[k] \in Nat
    BY <1>2
  <2> QED
    BY <2>1, <2>2
<1>5. ASSUME NEW j \in Int, NEW k \in Int, r <= j, j < k, k <= w PROVE next[j + 1] <= next[k]
  <2>1. start[j + 1] <= start[k]
    BY <1>1, <1>5 DEF IsLayout
  <2>2. next[j + 1] = start[j + 1] - n /\ next[k] = start[k] - n /\ start[k] \in Int /\ start[j + 1] \in Int
    BY <1>2
  <2> QED
    BY <2>1, <2>2
<1>6. m - n = next[w] + sz
  <2>1. m = start[w] + sz /\ next[w] = start[w] - n /\ start[w] \in Int
    BY <1>1, <1>2 DEF IsLayout
  <2> QED
    BY <2>1
<1>7. ASSUME NEW k \in Int, NEW i \in Int, r <= k, k <= w, i >= 1, i <= L[k],
             next[k] + i >= 1, next[k] + i <= m - n
      PROVE  d[next[k] + i] = W[k][i]
  <2>1. start[k] \in Int /\ next[k] = start[k] - n /\ next[k] \in Int
    BY <1>2
  <2>2. PICK x \in Int : x = next[k] + i
    BY <2>1
  <2>3. n + x = start[k] + i /\ 1 <= x /\ x <= m - n /\ start[k] + i >= 1 /\ start[k] + i <= m
    BY <1>7, <2>1, <2>2
  <2>4. d[x] = c[n + x]
    BY <2>3
  <2>5. c[start[k] + i] = W[k][i]
    BY <1>1, <1>7, <2>3 DEF IsLayout
  <2> QED
    BY <2>2, <2>3, <2>4, <2>5
<1>8. IsLayout(next, W, L, r, w, off + n, sz, d, m - n)
  BY <1>3, <1>4, <1>5, <1>6, <1>7 DEF IsLayout
<1> QED
  BY <1>2, <1>8 DEF Holds

\* What there is begins with what has not been taken of the first.
Begins(W, L, r, off, c, m) ==
  \A i \in Int : 1 <= i /\ i <= m /\ off + i <= L[r] => c[i] = W[r][off + i]

LEMMA HoldsFirst ==
  ASSUME NEW W, NEW L \in [Int -> Nat], NEW r \in Int, NEW w \in Int, r <= w, NEW off \in Nat,
         NEW sz \in Nat, NEW c, NEW m \in Nat, Holds(W, L, r, w, off, sz, c, m)
  PROVE  Begins(W, L, r, off, c, m)
<1>1. PICK start \in [Int -> Int] : IsLayout(start, W, L, r, w, off, sz, c, m)
  BY DEF Holds
<1>2. SUFFICES ASSUME NEW i \in Int, 1 <= i, i <= m, off + i <= L[r]
               PROVE  c[i] = W[r][off + i]
  BY DEF Begins
<1>3. start[r] \in Int /\ L[r] \in Nat /\ start[r] + off = 0
  BY <1>1 DEF IsLayout
<1>4. PICK x \in Int : x = off + i
  OBVIOUS
<1>5. start[r] + x = i /\ x >= 1 /\ x <= L[r] /\ start[r] + x >= 1 /\ start[r] + x <= m
  BY <1>2, <1>3, <1>4
<1>6. \A k, j \in Int : r <= k /\ k <= w /\ j >= 1 /\ j <= L[k] =>
        (start[k] + j >= 1 /\ start[k] + j <= m => c[start[k] + j] = W[k][j])
  BY <1>1 DEF IsLayout
<1>7. \A j \in Int : j >= 1 /\ j <= L[r] =>
        (start[r] + j >= 1 /\ start[r] + j <= m => c[start[r] + j] = W[r][j])
  BY <1>6
<1>8. c[start[r] + x] = W[r][x]
  BY <1>4, <1>5, <1>7
<1> QED
  BY <1>4, <1>5, <1>8

\* The first has been taken as a whole, and there is another.
LEMMA HoldsRest ==
  ASSUME NEW W, NEW L \in [Int -> Nat], NEW r \in Int, NEW w \in Int, r < w, NEW sz \in Nat,
         NEW c, NEW m \in Nat, Holds(W, L, r, w, L[r], sz, c, m)
  PROVE  Holds(W, L, r + 1, w, 0, sz, c, m)
<1>1. PICK start \in [Int -> Int] : IsLayout(start, W, L, r, w, L[r], sz, c, m)
  BY DEF Holds
<1>2. start[r] \in Int /\ L[r] \in Nat /\ start[r + 1] = start[r] + L[r] /\ start[r] + L[r] = 0
  BY <1>1 DEF IsLayout
<1>3. start[r + 1] + 0 = 0
  BY <1>2
<1>4. \A k \in Int : r + 1 <= k => r <= k
  OBVIOUS
<1>5. IsLayout(start, W, L, r + 1, w, 0, sz, c, m)
  BY <1>1, <1>3, <1>4 DEF IsLayout
<1> QED
  BY <1>5 DEF Holds

\* How much there is: of the first at least what is left, if there is another.
LEMMA HoldsLength ==
  ASSUME NEW W, NEW L \in [Int -> Nat], NEW r \in Int, NEW w \in Int, r <= w, NEW off \in Nat,
         NEW sz \in Nat, NEW c, NEW m \in Nat, Holds(W, L, r, w, off, sz, c, m)
  PROVE  /\ r = w => m + off = sz
         /\ r < w => m + off >= L[r]
<1>1. PICK start \in [Int -> Int] : IsLayout(start, W, L, r, w, off, sz, c, m)
  BY DEF Holds
<1>2. start[r] + off = 0 /\ m = start[w] + sz /\ start[r] \in Int /\ start[w] \in Int /\ L[r] \in Nat
  BY <1>1 DEF IsLayout
<1>3. ASSUME r < w PROVE m + off >= L[r]
  <2>1. start[r + 1] = start[r] + L[r] /\ start[r + 1] <= start[w] /\ start[r + 1] \in Int
    BY <1>1, <1>3 DEF IsLayout
  <2> QED
    BY <1>2, <2>1
<1> QED
  BY <1>2, <1>3

\* The first has been taken as a whole, and there is no other.
LEMMA HoldsWhole ==
  ASSUME NEW W, NEW L \in [Int -> Nat], NEW r \in Int, NEW w \in Int, r <= w,
         NEW sz \in Nat, NEW c, NEW m \in Nat, Holds(W, L, r, w, L[r], sz, c, m)
  PROVE  r = w => m + L[r] = sz
BY HoldsLength

LEMMA HoldsNone ==
  ASSUME NEW W, NEW L, NEW r \in Int, NEW c
  PROVE  Holds(W, L, r, r, 0, 0, c, 0)
<1> DEFINE next == [k \in Int |-> 0]
<1>1. next \in [Int -> Int] /\ \A k \in Int : next[k] = 0
  OBVIOUS
<1> HIDE DEF next
<1>2. ~(\E k \in Int : r <= k /\ k < r) /\ ~(\E i \in Int : i >= 1 /\ i <= 0)
  OBVIOUS
<1>3. \A k, i \in Int : ~(next[k] + i >= 1 /\ next[k] + i <= 0)
  BY <1>1
<1>4. ~(\E j, k \in Int : r <= j /\ j < k /\ k <= r)
  OBVIOUS
<1>5. IsLayout(next, W, L, r, r, 0, 0, c, 0)
  BY <1>1, <1>2, <1>3, <1>4 DEF IsLayout
<1> QED
  BY <1>1, <1>5 DEF Holds

LEMMA ScriptKept ==
  ASSUME script' = script
  PROVE  /\ Total' = Total
         /\ \A k : /\ Wire(k)' = Wire(k) /\ Bytes(k)' = Bytes(k) /\ IsWord(k)' = IsWord(k)
                   /\ IsFd(k)' = IsFd(k)
BY DEF Total, Wire, IsWord, IsFd, Bytes, AsBytes, WithDescriptor

LEMMA Fields ==
  ASSUME TransportAssumption, TypeOK
  PROVE  /\ Total \in Nat /\ script \in Scripts /\ chan \in Seq(Nat) /\ Len(chan) \in Nat
         /\ writer.item \in 1..(Total + 1) /\ writer.sz \in Nat /\ writer.at \in WriterPlaces
         /\ reader.item \in 1..(Total + 1) /\ reader.sz \in Nat /\ reader.at \in ReaderPlaces
         /\ reader.bytes \in Seq(Nat) /\ Taken \in Nat
         /\ got \in Seq(Seq(Nat)) /\ Len(got) \in Nat /\ signals \in Nat
<1>1. script \in Seq([how : {"word", "number", "noerr", "fd"}, bytes : Seq(0..(Base - 1)),
                      eofok : BOOLEAN])
  BY DEF TransportAssumption, TypeOK
<1>2. Total \in Nat
  BY <1>1 DEF Total
<1> QED
  BY <1>2 DEF TypeOK, Taken, SizeT

LEMMA WiresOf ==
  ASSUME TransportAssumption, TypeOK
  PROVE  /\ Lengths \in [Int -> Nat]
         /\ \A k \in 1..Total : Wires[k] = Wire(k) /\ Lengths[k] = Len(Wire(k))
<1>1. Total \in Nat /\ \A k \in 1..Total : Wire(k) \in Seq(Nat)
  BY WireOf, Fields
<1>2. \A k \in 1..Total : Len(Wire(k)) \in Nat
  BY <1>1
<1> QED
  BY <1>1, <1>2 DEF Wires, Lengths

-----------------------------------------------------------------------------
(* Steps that write or read nothing.                                       *)

\* The stream is where it was if neither side has moved in it.
LEMMA StreamKept ==
  ASSUME script' = script, chan' = chan, writer'.item = writer.item, writer'.sz = writer.sz,
         reader'.item = reader.item, ~ReaderGone' => Taken' = Taken, ReaderGone => ReaderGone', Stream
  PROVE  Stream'
<1>1. Wires' = Wires /\ Lengths' = Lengths /\ \A k : Wire(k)' = Wire(k)
  BY ScriptKept DEF Wires, Lengths
<1>2. SUFFICES ASSUME ~ReaderGone' PROVE Stream'
  BY DEF Stream
<1>3. Taken' = Taken /\ ~ReaderGone
  BY <1>2
<1>4. CASE reader.item <= writer.item
  <2>1. Holds(Wires, Lengths, reader.item, writer.item, Taken, writer.sz, chan, Len(chan))
    BY <1>3, <1>4 DEF Stream
  <2>2. Holds(Wires, Lengths, reader.item, writer.item, Taken, writer.sz, chan, Len(chan))'
    BY <1>1, <1>3, <2>1 DEF Holds, IsLayout
  <2> QED
    BY <1>4, <2>2 DEF Stream
<1>5. CASE ~(reader.item <= writer.item)
  <2>1. /\ chan = <<>> /\ writer.sz = 0 /\ Taken = 0
        /\ EmptyFrom(writer.item, reader.item)
    BY <1>3, <1>5 DEF Stream
  <2> QED
    BY <1>1, <1>3, <1>5, <2>1 DEF Stream, EmptyFrom
<1> QED
  BY <1>4, <1>5

\* The writer's place in its loop changes, or it ends.
LEMMA WriterOnlyIInv ==
  ASSUME TransportAssumption, IInv, UNCHANGED <<script, chan, reader, got>>, signals' \in Nat,
         ~WriterGone, NEW to \in {"write", "exited", "failed", "killed"}, NEW er \in Errors,
         writer' = [writer EXCEPT !.at = to, !.er = er],
         to = "exited" => writer.item > Total,
         to = "write" => writer.item <= Total /\ Wire(writer.item) # <<>>
  PROVE  IInv'
<1>1. /\ writer' \in [item : 1..(Total + 1), sz : Nat, at : WriterPlaces, er : Errors]
      /\ writer'.item = writer.item /\ writer'.sz = writer.sz /\ writer'.at = to
  BY DEF IInv, TypeOK, WriterPlaces
<1>2. TypeOK'
  BY <1>1, ScriptKept DEF IInv, TypeOK
<1>3. WriterWhere'
  BY <1>1, ScriptKept DEF IInv, WriterWhere
<1>4. Taken' = Taken /\ (ReaderGone' <=> ReaderGone)
  BY DEF Taken, ReaderGone
<1>5. ReaderWhere'
  <2>1. ReaderGone' \/ reader.at \notin {"read", "readword"} \/ chan # <<>>
    BY <1>4 DEF IInv, ReaderWhere, ReaderGone
  <2> QED
    BY <1>4, <2>1, ScriptKept DEF IInv, ReaderWhere
<1>6. Stream'
  BY <1>1, <1>4, StreamKept DEF IInv
<1>7. GotAll'
  BY ScriptKept DEF IInv, GotAll
<1>8. AtEnd'
  BY ScriptKept DEF IInv, AtEnd
<1> QED
  BY <1>2, <1>3, <1>5, <1>6, <1>7, <1>8 DEF IInv

\* The reader's place in its loop changes, or it ends.
LEMMA ReaderOnlyIInv ==
  ASSUME TransportAssumption, IInv, UNCHANGED <<script, chan, writer, got>>, signals' \in Nat,
         ~ReaderGone, NEW to \in ReaderPlaces, NEW er \in Errors,
         reader' = [reader EXCEPT !.at = to, !.er = er],
         to \notin {"ended", "failed"} => Taken' = Taken,
         to = "read" => reader.at = "poll" /\ Wire(reader.item) # <<>>,
         to = "readword" => reader.at = "pollword",
         to \in {"read", "readword"} => reader.item <= Total /\ (chan # <<>> \/ WriterGone),
         to \notin {"poll", "pollword"},
         to = "ended" => \/ reader.item > Total
                         \/ reader.item <= Total /\ chan = <<>> /\ WriterGone /\ Taken = 0
                            /\ Wire(reader.item) # <<>>
  PROVE  IInv'
<1>1. /\ reader' \in [item : 1..(Total + 1), sz : Nat, at : ReaderPlaces, er : Errors, bytes : Seq(Nat)]
      /\ reader'.item = reader.item /\ reader'.sz = reader.sz /\ reader'.at = to
      /\ reader'.bytes = reader.bytes
  BY DEF IInv, TypeOK
<1>2. TypeOK'
  BY <1>1, ScriptKept DEF IInv, TypeOK
<1>3. WriterWhere'
  BY ScriptKept DEF IInv, WriterWhere
<1>4. ReaderGone' <=> to \in {"ended", "failed"}
  BY <1>1 DEF ReaderGone
<1>5. ReaderWhere'
  <2>1. SUFFICES ASSUME to \in {"read", "readword"} PROVE ReaderWhere'
    BY <1>4 DEF ReaderWhere, ReaderPlaces
  <2>2. /\ reader.bytes = SubSeq(Wire(reader.item), 1, Taken)
        /\ Wire(reader.item) # <<>> /\ Taken < Len(Wire(reader.item))
        /\ IsFd(reader.item) => reader.sz = 0
        /\ to = "readword" => IsWord(reader.item)
        /\ to = "read" /\ IsWord(reader.item) => reader.sz < SizeT
    BY <2>1 DEF IInv, ReaderWhere
  <2>3. /\ Wire(reader.item)' = Wire(reader.item) /\ IsFd(reader.item)' = IsFd(reader.item)
        /\ IsWord(reader.item)' = IsWord(reader.item) /\ Total' = Total /\ Taken' = Taken
        /\ chan' = chan /\ (WriterGone' <=> WriterGone)
    BY <1>1, <2>1, ScriptKept DEF WriterGone
  <2>4. reader.item <= Total /\ (chan # <<>> \/ WriterGone)
    BY <2>1
  <2>5. ~(reader.item > Total)
    BY <2>4, Fields DEF IInv
  <2> QED
    BY <1>1, <2>1, <2>2, <2>3, <2>4, <2>5 DEF ReaderWhere
<1>6. Stream'
  BY <1>1, <1>4, StreamKept DEF IInv, Stream
<1>7. GotAll'
  BY <1>1, ScriptKept DEF IInv, GotAll
<1>8. AtEnd'
  <2>1. CASE to = "ended" /\ reader.item <= Total
    <3>1. chan = <<>> /\ WriterGone /\ Taken = 0 /\ Wire(reader.item) # <<>>
      BY <2>1, Fields DEF IInv
    <3>2. writer.item <= reader.item /\ writer.sz = 0
          /\ EmptyFrom(writer.item, reader.item)
      <4>1. CASE reader.item <= writer.item
        <5>1. Holds(Wires, Lengths, reader.item, writer.item, 0, writer.sz, chan, 0)
          BY <3>1, <4>1 DEF IInv, Stream
        <5>2. /\ reader.item \in 1..Total /\ writer.item \in Int /\ writer.sz \in Nat
              /\ Wire(reader.item) \in Seq(Nat)
          BY SMTT(30), <2>1, WireOf, Fields DEF IInv
        <5>3. Len(Wire(reader.item)) > 0
          BY <3>1, <5>2
        <5>4. Lengths \in [Int -> Nat] /\ Lengths[reader.item] > 0
          BY <5>2, <5>3, WiresOf DEF IInv
        <5>5. /\ reader.item = writer.item => 0 + 0 = writer.sz
              /\ reader.item < writer.item => 0 + 0 >= Lengths[reader.item]
          <6> DEFINE r == reader.item
                     w == writer.item
                     z == writer.sz
          <6>1. r \in Int /\ w \in Int /\ z \in Nat /\ r <= w
                /\ Holds(Wires, Lengths, r, w, 0, z, chan, 0)
            BY <4>1, <5>1, <5>2
          <6> HIDE DEF r, w, z
          <6>2. (r = w => 0 + 0 = z) /\ (r < w => 0 + 0 >= Lengths[r])
            BY <5>4, <6>1, HoldsLength
          <6> QED
            BY <6>2 DEF r, w, z
        <5>6. reader.item = writer.item /\ writer.sz = 0
          <6>1. Lengths[reader.item] \in Nat
            BY SMTT(30), <5>2, <5>4
          <6>2. ~(reader.item < writer.item)
            BY <5>4, <5>5, <6>1
          <6> QED
            BY <4>1, <5>2, <5>5, <6>2
        <5> QED
          BY <5>2, <5>6 DEF EmptyFrom
      <4>2. CASE ~(reader.item <= writer.item)
        BY <4>2, Fields DEF IInv, Stream
      <4> QED
        BY <4>1, <4>2
    <3>3. \A k : Wire(k)' = Wire(k)
      BY ScriptKept
    <3>4. writer'.item = writer.item /\ writer'.sz = writer.sz /\ (WriterGone' <=> WriterGone)
      BY DEF WriterGone
    <3>5. EmptyFrom(writer.item, reader.item)'
      BY <1>1, <3>2, <3>3, <3>4 DEF EmptyFrom
    <3>6. Wire(reader.item)' # <<>>
      BY <1>1, <3>1, <3>3
    <3> QED
      BY <1>1, <3>1, <3>2, <3>4, <3>5, <3>6 DEF AtEnd
  <2>2. CASE ~(to = "ended" /\ reader.item <= Total)
    BY <1>1, <2>2, ScriptKept, Fields DEF IInv, AtEnd
  <2> QED
    BY <2>1, <2>2
<1> QED
  BY <1>2, <1>3, <1>5, <1>6, <1>7, <1>8 DEF IInv

-----------------------------------------------------------------------------
(* What the writer puts into the socket.                                   *)

\* Where the writer is when n more bytes of its item are written.
After(n) ==
  IF writer.sz + n = Len(Wire(writer.item))
  THEN [writer EXCEPT !.item = @ + 1, !.sz = 0, !.at = "poll"]
  ELSE [writer EXCEPT !.sz = @ + n, !.at = "poll"]

LEMMA ZeroKept ==
  ASSUME TypeOK, writer.sz = 0
  PROVE  [writer EXCEPT !.item = @ + 1, !.sz = 0, !.at = "poll"]
           = [writer EXCEPT !.item = @ + 1, !.at = "poll"]
BY DEF TypeOK

LEMMA WrittenBytes ==
  ASSUME NEW c \in Seq(Nat), NEW wire \in Seq(Nat), NEW sz \in Nat, NEW n \in Nat,
         sz + n <= Len(wire), NEW d, d = c \o SubSeq(wire, sz + 1, sz + n)
  PROVE  /\ d \in Seq(Nat) /\ Len(d) = Len(c) + n
         /\ \A i \in 1..Len(c) : d[i] = c[i]
         /\ \A i \in 1..n : d[Len(c) + i] = wire[sz + i]
<1> DEFINE piece == SubSeq(wire, sz + 1, sz + n)
<1>1. sz + 1 \in 1..(Len(wire) + 1) /\ sz + n \in (sz + 1 - 1)..Len(wire)
  OBVIOUS
<1>2. /\ piece \in Seq(Nat) /\ Len(piece) = sz + n - (sz + 1) + 1
      /\ \A i \in 1..(sz + n - (sz + 1) + 1) : piece[i] = wire[sz + 1 + i - 1]
  BY <1>1, Piece
<1>3. sz + n - (sz + 1) + 1 = n /\ \A i \in 1..n : sz + 1 + i - 1 = sz + i
  OBVIOUS
<1>4. Len(piece) = n /\ \A i \in 1..n : piece[i] = wire[sz + i]
  BY <1>2, <1>3
<1> HIDE DEF piece
<1>5. /\ c \o piece \in Seq(Nat) /\ Len(c \o piece) = Len(c) + n
      /\ \A i \in 1..Len(c) : (c \o piece)[i] = c[i]
      /\ \A i \in 1..n : (c \o piece)[Len(c) + i] = piece[i]
  BY <1>2, <1>4, Joined
<1> QED
  BY <1>4, <1>5 DEF piece

\* The bytes of an item follow those there are, its last and then the next one's first.
LEMMA WrittenStream ==
  ASSUME TransportAssumption, IInv, script' = script, reader' = reader, writer.item <= Total,
         NEW n \in Nat, writer.sz + n <= Len(Wire(writer.item)),
         chan' \in Seq(Nat), Len(chan') = Len(chan) + n,
         \A i \in 1..Len(chan) : chan'[i] = chan[i],
         \A i \in 1..n : chan'[Len(chan) + i] = Wire(writer.item)[writer.sz + i],
         writer' = After(n)
  PROVE  Stream'
<1> DEFINE r == reader.item
           w == writer.item
           sz == writer.sz
           wire == Wire(writer.item)
           whole == sz + n = Len(wire)
           m == Len(chan)
<1>1. /\ w \in 1..Total /\ Total \in Nat /\ sz \in Nat /\ m \in Nat
      /\ r \in 1..(Total + 1) /\ r \in Int /\ w \in Int /\ Taken \in Nat
  BY SMTT(30), Fields DEF IInv
<1>2. /\ wire \in Seq(Nat) /\ Len(wire) \in Nat /\ sz + n <= Len(wire)
      /\ Lengths \in [Int -> Nat] /\ Wires[w] = wire /\ Lengths[w] = Len(wire)
  <2>1. wire \in Seq(Nat)
    BY <1>1, WireOf DEF IInv
  <2>2. Lengths \in [Int -> Nat] /\ Wires[w] = wire /\ Lengths[w] = Len(wire)
    BY <1>1, WiresOf DEF IInv
  <2>3. sz + n <= Len(wire)
    OBVIOUS
  <2> HIDE DEF wire, sz
  <2>4. Len(wire) \in Nat
    BY <2>1
  <2> QED
    BY <2>1, <2>2, <2>3, <2>4
<1>3. /\ Len(chan') = m + n
      /\ \A i \in Int : 1 <= i /\ i <= m => chan'[i] = chan[i]
      /\ \A i \in Int : 1 <= i /\ i <= n => chan'[m + i] = Wires[w][sz + i]
  BY <1>1, <1>2
<1>4. /\ writer'.item = IF whole THEN w + 1 ELSE w
      /\ writer'.sz = IF whole THEN 0 ELSE sz + n
  BY DEF After, IInv, TypeOK
<1>5. /\ Taken' = Taken /\ (ReaderGone' <=> ReaderGone) /\ reader'.item = r
      /\ Wires' = Wires /\ Lengths' = Lengths /\ \A k : Wire(k)' = Wire(k)
  BY ScriptKept DEF Taken, ReaderGone, Wires, Lengths
<1>6. SUFFICES ASSUME ~ReaderGone PROVE Stream'
  BY <1>5 DEF Stream
<1>7. CASE r <= w
  <2>1. Holds(Wires, Lengths, r, w, Taken, sz, chan, m)
    BY <1>6, <1>7 DEF IInv, Stream
  <2> HIDE DEF r, w, sz, wire, m
  <2>2. Holds(Wires, Lengths, r, w, Taken, sz + n, chan', m + n)
    BY <1>1, <1>2, <1>3, <1>7, <2>1, HoldsMore
  <2>3. CASE whole
    <3>1. Holds(Wires, Lengths, r, w, Taken, Lengths[w], chan', m + n)
      BY <1>2, <2>2, <2>3
    <3>2. Holds(Wires, Lengths, r, w + 1, Taken, 0, chan', m + n)
      <4>1. m + n \in Nat
        BY <1>1
      <4> QED
        BY <1>1, <1>2, <1>7, <3>1, <4>1, HoldsNext
    <3>3. writer'.item = w + 1 /\ writer'.sz = 0
      BY <1>4, <2>3
    <3>4. r <= w + 1
      BY <1>1, <1>7
    <3> QED
      BY <1>3, <1>5, <3>2, <3>3, <3>4 DEF Stream
  <2>4. CASE ~whole
    <3>1. writer'.item = w /\ writer'.sz = sz + n
      BY <1>4, <2>4
    <3> QED
      BY <1>3, <1>5, <1>7, <2>2, <3>1 DEF Stream
  <2> QED
    BY <2>3, <2>4
<1>8. CASE ~(r <= w)
  <2>1. chan = <<>> /\ sz = 0 /\ Taken = 0 /\ EmptyFrom(w, r)
    BY <1>6, <1>8 DEF IInv, Stream
  <2>2. wire = <<>>
    BY <1>1, <1>8, <2>1 DEF EmptyFrom
  <2>3. n = 0 /\ m = 0 /\ Len(chan') = 0
    BY <1>1, <1>2, <1>3, <2>1, <2>2
  <2>4. whole /\ chan' = <<>>
    BY <2>1, <2>2, <2>3
  <2>5. writer'.item = w + 1 /\ writer'.sz = 0
    BY <1>4, <2>4
  <2> HIDE DEF r, w, sz, wire, m
  <2>6. CASE r = w + 1
    <3>1. Holds(Wires, Lengths, r, r, 0, 0, chan', 0)
      BY <1>1, HoldsNone
    <3> QED
      BY <1>1, <1>5, <2>1, <2>3, <2>5, <2>6, <3>1 DEF Stream
  <2>7. CASE r > w + 1
    <3>1. ~(r <= w + 1) /\ \A k \in Int : w + 1 <= k /\ k < r => Wire(k) = <<>>
      BY <1>1, <2>1, <2>7 DEF EmptyFrom
    <3> QED
      BY <1>5, <2>1, <2>4, <2>5, <3>1 DEF Stream, EmptyFrom
  <2> QED
    BY <1>1, <1>8, <2>6, <2>7
<1> QED
  BY <1>7, <1>8

LEMMA WrittenIInv ==
  ASSUME TransportAssumption, IInv, UNCHANGED <<script, reader, got, signals>>, ~WriterGone,
         writer.item <= Total, NEW n \in Nat, writer.sz + n <= Len(Wire(writer.item)),
         IsFd(writer.item) => n = Len(Wire(writer.item)),
         chan' \in Seq(Nat), Len(chan') = Len(chan) + n,
         \A i \in 1..Len(chan) : chan'[i] = chan[i],
         \A i \in 1..n : chan'[Len(chan) + i] = Wire(writer.item)[writer.sz + i],
         writer' = After(n)
  PROVE  IInv'
<1>1. /\ writer.item \in 1..Total /\ Total \in Nat /\ writer.sz \in Nat /\ Len(chan) \in Nat
      /\ reader.item \in 1..(Total + 1)
  BY SMTT(30), Fields DEF IInv
<1>2. Wire(writer.item) \in Seq(Nat) /\ Len(Wire(writer.item)) \in Nat
  BY <1>1, WireOf DEF IInv
<1>3. /\ writer' \in [item : 1..(Total + 1), sz : Nat, at : WriterPlaces, er : Errors]
      /\ writer'.at = "poll"
  <2>1. writer \in [item : 1..(Total + 1), sz : Nat, at : WriterPlaces, er : Errors]
    BY DEF IInv, TypeOK
  <2>2. writer.item + 1 \in 1..(Total + 1) /\ writer.sz + n \in Nat /\ "poll" \in WriterPlaces
    BY SMTT(30), <1>1 DEF WriterPlaces
  <2>3. CASE writer.sz + n = Len(Wire(writer.item))
    <3>1. writer' = [writer EXCEPT !.item = @ + 1, !.sz = 0, !.at = "poll"]
      BY <2>3 DEF After
    <3>2. writer' = [item |-> writer.item + 1, sz |-> 0, at |-> "poll", er |-> writer.er]
      BY <2>1, <3>1
    <3>3. writer.er \in Errors
      BY <2>1
    <3> QED
      BY <2>2, <3>2, <3>3
  <2>4. CASE writer.sz + n # Len(Wire(writer.item))
    <3>1. writer' = [writer EXCEPT !.sz = @ + n, !.at = "poll"]
      BY <2>4 DEF After
    <3>2. writer' = [item |-> writer.item, sz |-> writer.sz + n, at |-> "poll", er |-> writer.er]
      BY <2>1, <3>1
    <3>3. writer.item \in 1..(Total + 1) /\ writer.er \in Errors
      BY <2>1
    <3> QED
      BY <2>2, <3>2, <3>3
  <2> QED
    BY <2>3, <2>4
<1>4. TypeOK'
  BY <1>3, ScriptKept DEF IInv, TypeOK
<1>5. WriterWhere'
  <2>1. CASE writer.sz + n = Len(Wire(writer.item))
    <3>1. writer'.item = writer.item + 1 /\ writer'.sz = 0
      BY <2>1 DEF After, IInv, TypeOK
    <3>2. writer.item + 1 <= Total =>
            /\ Wire(writer.item + 1) \in Seq(Nat)
            /\ Wire(writer.item + 1) # <<>> => 0 < Len(Wire(writer.item + 1))
      <4>1. SUFFICES ASSUME writer.item + 1 \in 1..Total
                     PROVE  /\ Wire(writer.item + 1) \in Seq(Nat)
                            /\ Wire(writer.item + 1) # <<>> => 0 < Len(Wire(writer.item + 1))
        BY <1>1
      <4>2. Wire(writer.item + 1) \in Seq(Nat)
        BY <4>1, WireOf DEF IInv
      <4> QED
        BY <4>2
    <3> QED
      BY <1>3, <3>1, <3>2, ScriptKept DEF WriterWhere
  <2>2. CASE writer.sz + n # Len(Wire(writer.item))
    <3>1. writer'.item = writer.item /\ writer'.sz = writer.sz + n
      BY <2>2 DEF After, IInv, TypeOK
    <3>2. writer.sz + n < Len(Wire(writer.item)) /\ Wire(writer.item) # <<>>
      BY SMTT(30), <1>1, <1>2, <2>2
    <3>3. ~IsFd(writer.item)
      BY <1>1, <1>2, <2>2
    <3>4. ~(writer.item > Total)
      BY <1>1
    <3> QED
      BY <1>1, <1>3, <3>1, <3>2, <3>3, <3>4, ScriptKept DEF WriterWhere
  <2> QED
    BY <2>1, <2>2
<1>6. Taken' = Taken /\ (ReaderGone' <=> ReaderGone)
  BY DEF Taken, ReaderGone
<1>7. ReaderWhere'
  <2>1. chan # <<>> => chan' # <<>>
    <3>1. chan # <<>> => Len(chan) > 0
      BY DEF IInv, TypeOK
    <3>2. Len(chan') > 0 => chan' # <<>>
      OBVIOUS
    <3> QED
      BY <1>1, <3>1, <3>2
  <2>2. ~ReaderGone /\ reader.at \in {"read", "readword"} => chan' # <<>> \/ WriterGone'
    BY <2>1 DEF IInv, ReaderWhere
  <2> QED
    BY <1>6, <2>2, ScriptKept DEF IInv, ReaderWhere
<1>8. Stream'
  BY WrittenStream
<1>9. GotAll'
  BY ScriptKept DEF IInv, GotAll
<1>10. AtEnd'
  BY ScriptKept DEF IInv, AtEnd
<1> QED
  BY <1>4, <1>5, <1>7, <1>8, <1>9, <1>10 DEF IInv

LEMMA WriteSomeIInv ==
  ASSUME TransportAssumption, IInv, WriteSome
  PROVE  IInv'
<1>1. writer.at = "write" /\ ~IsFd(writer.item) /\ UNCHANGED <<script, reader, got, signals>>
  BY DEF WriteSome
<1>2. writer.item <= Total /\ Wire(writer.item) # <<>> /\ ~WriterGone
  BY <1>1 DEF IInv, WriterWhere, WriterGone
<1>3. /\ writer.item \in 1..Total /\ writer.sz \in Nat /\ chan \in Seq(Nat)
      /\ signals' \in Nat
  BY <1>1, <1>2, Fields DEF IInv
<1>4. Wire(writer.item) \in Seq(Nat) /\ Len(Wire(writer.item)) \in Nat
  BY <1>3, WireOf DEF IInv
<1>5. CASE ReaderGone
  <2>1. /\ chan' = chan
        /\ writer' = [writer EXCEPT !.at = IF Quiet THEN "failed" ELSE "killed", !.er = "KCGI_HUP"]
    BY <1>5 DEF WriteSome, WriterEnds
  <2> DEFINE to == IF Quiet THEN "failed" ELSE "killed"
  <2>2. to \in {"write", "exited", "failed", "killed"} /\ to # "exited" /\ to # "write"
        /\ "KCGI_HUP" \in Errors
    BY DEF Errors
  <2>3. UNCHANGED <<script, chan, reader, got>>
    BY <1>1, <2>1
  <2> HIDE DEF to
  <2> QED
    BY <1>2, <1>3, <2>1, <2>2, <2>3, WriterOnlyIInv DEF to
<1>6. CASE ~ReaderGone
  <2>1. PICK n \in 1..(CallEnd(writer.item, writer.sz) - writer.sz) :
           /\ chan' = chan \o SubSeq(Wire(writer.item), writer.sz + 1, writer.sz + n)
           /\ writer' = After(n)
    BY <1>6 DEF WriteSome, After
  <2>2. /\ CallEnd(writer.item, writer.sz) \in Nat
        /\ CallEnd(writer.item, writer.sz) <= Len(Wire(writer.item))
    <3>1. IsWord(writer.item) => SizeT <= Len(Wire(writer.item))
      <4>1. IsWord(writer.item) => Len(Wire(writer.item)) = SizeT + Len(Bytes(writer.item))
        BY <1>3, WireOf DEF IInv
      <4>2. Len(Bytes(writer.item)) \in Nat
        BY <1>3, ItemOf DEF IInv
      <4> QED
        BY <4>1, <4>2 DEF SizeT
    <3> QED
      BY <1>4, <3>1 DEF CallEnd, SizeT
  <2>3. n \in Nat /\ writer.sz + n <= Len(Wire(writer.item))
    BY <1>3, <1>4, <2>2
  <2>4. /\ chan' \in Seq(Nat) /\ Len(chan') = Len(chan) + n
        /\ \A i \in 1..Len(chan) : chan'[i] = chan[i]
        /\ \A i \in 1..n : chan'[Len(chan) + i] = Wire(writer.item)[writer.sz + i]
    <3> DEFINE wire == Wire(writer.item)
               sz == writer.sz
               d == chan'
    <3>1. /\ wire \in Seq(Nat) /\ sz \in Nat /\ n \in Nat /\ sz + n <= Len(wire)
          /\ chan \in Seq(Nat) /\ d = chan \o SubSeq(wire, sz + 1, sz + n)
      BY <1>3, <1>4, <2>1, <2>3
    <3> HIDE DEF wire, sz, d
    <3>2. /\ d \in Seq(Nat) /\ Len(d) = Len(chan) + n
          /\ \A i \in 1..Len(chan) : d[i] = chan[i]
          /\ \A i \in 1..n : d[Len(chan) + i] = wire[sz + i]
      BY <3>1, WrittenBytes
    <3> QED
      BY <3>2 DEF wire, sz, d
  <2> QED
    BY <1>1, <1>2, <2>1, <2>3, <2>4, WrittenIInv
<1> QED
  BY <1>5, <1>6

LEMMA SendDescriptorIInv ==
  ASSUME TransportAssumption, IInv, SendDescriptor
  PROVE  IInv'
<1>1. writer.at = "write" /\ IsFd(writer.item) /\ UNCHANGED <<script, reader, got, signals>>
  BY DEF SendDescriptor
<1>2. writer.item <= Total /\ Wire(writer.item) # <<>> /\ ~WriterGone /\ writer.sz = 0
  BY <1>1 DEF IInv, WriterWhere, WriterGone
<1>3. /\ writer.item \in 1..Total /\ chan \in Seq(Nat) /\ signals' \in Nat
  BY <1>1, <1>2, Fields DEF IInv
<1>4. Wire(writer.item) \in Seq(Nat) /\ Len(Wire(writer.item)) \in Nat
  BY <1>3, WireOf DEF IInv
<1>5. CASE ReaderGone
  <2>1. chan' = chan /\ writer' = [writer EXCEPT !.at = "killed", !.er = "KCGI_HUP"]
    BY <1>5 DEF SendDescriptor, WriterEnds
  <2>2. "KCGI_HUP" \in Errors /\ UNCHANGED <<script, chan, reader, got>>
    BY <1>1, <2>1 DEF Errors
  <2> QED
    BY <1>2, <1>3, <2>1, <2>2, WriterOnlyIInv
<1>6. CASE ~ReaderGone
  <2> DEFINE n == Len(Wire(writer.item))
  <2>1. /\ chan' = chan \o Wire(writer.item)
        /\ writer' = [writer EXCEPT !.item = @ + 1, !.at = "poll"]
    BY <1>6 DEF SendDescriptor
  <2>2. writer' = After(n)
    <3>1. After(n) = [writer EXCEPT !.item = @ + 1, !.sz = 0, !.at = "poll"]
      BY <1>2, <1>4 DEF After
    <3> QED
      BY <1>2, <2>1, <3>1, ZeroKept DEF IInv
  <2>3. /\ chan' \in Seq(Nat) /\ Len(chan') = Len(chan) + n
        /\ \A i \in 1..Len(chan) : chan'[i] = chan[i]
        /\ \A i \in 1..n : chan'[Len(chan) + i] = Wire(writer.item)[i]
    BY <1>3, <1>4, <2>1, Joined
  <2>4. \A i \in 1..n : writer.sz + i = i
    BY <1>2, <1>4
  <2>5. n \in Nat /\ writer.sz + n <= Len(Wire(writer.item))
    BY <1>2, <1>4
  <2> HIDE DEF n
  <2>6. \A i \in 1..n : chan'[Len(chan) + i] = Wire(writer.item)[writer.sz + i]
    BY <2>3, <2>4
  <2>7. IsFd(writer.item) => n = Len(Wire(writer.item))
    BY DEF n
  <2> QED
    BY <1>1, <1>2, <2>2, <2>3, <2>5, <2>6, <2>7, WrittenIInv
<1> QED
  BY <1>5, <1>6

LEMMA SkipEmptyIInv ==
  ASSUME TransportAssumption, IInv, SkipEmpty
  PROVE  IInv'
<1>1. /\ writer.at = "poll" /\ writer.item <= Total /\ Wire(writer.item) = <<>>
      /\ writer' = [writer EXCEPT !.item = @ + 1] /\ UNCHANGED <<script, chan, reader, got, signals>>
  BY DEF SkipEmpty, Total
<1>2. writer.sz = 0 /\ ~WriterGone
  BY <1>1 DEF IInv, WriterWhere, WriterGone
<1>3. /\ writer.item \in 1..Total /\ chan \in Seq(Nat) /\ Len(chan) \in Nat
  BY <1>1, Fields DEF IInv
<1>4. ~IsFd(writer.item)
  BY <1>1, <1>3, WireOf DEF IInv
<1>5. writer' = After(0)
  <2>1. After(0) = [writer EXCEPT !.item = @ + 1, !.sz = 0, !.at = "poll"]
    BY <1>1, <1>2 DEF After
  <2>2. [writer EXCEPT !.item = @ + 1] = [writer EXCEPT !.item = @ + 1, !.at = "poll"]
    BY <1>1 DEF IInv, TypeOK
  <2> QED
    BY <1>1, <1>2, <2>1, <2>2, ZeroKept DEF IInv
<1>6. /\ Len(chan') = Len(chan) + 0 /\ chan' \in Seq(Nat) /\ 0 \in Nat
      /\ writer.sz + 0 <= Len(Wire(writer.item))
      /\ \A i \in 1..Len(chan) : chan'[i] = chan[i]
  BY <1>1, <1>2, <1>3
<1>7. \A i \in 1..0 : chan'[Len(chan) + i] = Wire(writer.item)[writer.sz + i]
  OBVIOUS
<1> QED
  BY <1>1, <1>2, <1>4, <1>5, <1>6, <1>7, WrittenIInv

-----------------------------------------------------------------------------
(* What the reader takes out of the socket.                                *)

LEMMA TheRest ==
  ASSUME NEW c \in Seq(Nat), NEW n \in 0..Len(c), NEW d, d = From(c, n + 1)
  PROVE  /\ d \in Seq(Nat) /\ Len(d) = Len(c) - n
         /\ \A i \in 1..(Len(c) - n) : d[i] = c[n + i]
<1>1. n + 1 \in 1..(Len(c) + 1) /\ Len(c) \in (n + 1 - 1)..Len(c)
  OBVIOUS
<1>2. /\ d \in Seq(Nat) /\ Len(d) = Len(c) - (n + 1) + 1
      /\ \A i \in 1..(Len(c) - (n + 1) + 1) : d[i] = c[n + 1 + i - 1]
  BY <1>1, Piece DEF From
<1>3. Len(c) - (n + 1) + 1 = Len(c) - n /\ \A i \in 1..(Len(c) - n) : n + 1 + i - 1 = n + i
  OBVIOUS
<1> QED
  BY <1>2, <1>3

\* The first bytes in the socket are the next ones of the reader's item.
LEMMA TakenBytes ==
  ASSUME TransportAssumption, IInv, ~ReaderGone, reader.item <= Total,
         NEW n \in Nat, n <= Len(chan), Taken + n <= Len(Wire(reader.item)),
         NEW d, d = From(chan, n + 1)
  PROVE  /\ d \in Seq(Nat) /\ Len(d) = Len(chan) - n
         /\ \A i \in 1..n : chan[i] = Wire(reader.item)[Taken + i]
         /\ reader.item <= writer.item =>
              Holds(Wires, Lengths, reader.item, writer.item, Taken + n, writer.sz, d, Len(d))
         /\ reader.item > writer.item => n = 0 /\ d = chan
<1> DEFINE r == reader.item
           w == writer.item
           sz == writer.sz
           t == Taken
           m == Len(chan)
<1>1. /\ r \in 1..Total /\ r \in Int /\ w \in Int /\ sz \in Nat /\ m \in Nat /\ t \in Nat
      /\ chan \in Seq(Nat)
  BY Fields DEF IInv
<1>2. /\ Lengths \in [Int -> Nat] /\ Wires[r] = Wire(r) /\ Lengths[r] = Len(Wire(r))
  BY <1>1, WiresOf DEF IInv
<1>3. n \in 0..Len(chan)
  BY <1>1
<1>4. /\ d \in Seq(Nat) /\ Len(d) = m - n
      /\ \A i \in 1..(m - n) : d[i] = chan[n + i]
  BY <1>1, <1>3, TheRest
<1>5. CASE r <= w
  <2>1. Holds(Wires, Lengths, r, w, t, sz, chan, m)
    BY <1>5 DEF IInv, Stream
  <2>2. t + n <= Lengths[r] /\ n <= m
    BY <1>2
  <2>3. Wire(reader.item) = Wires[r]
    BY <1>2
  <2> HIDE DEF r, w, sz, t, m
  <2>4. \A i \in Int : 1 <= i /\ i <= m - n => d[i] = chan[n + i]
    BY <1>1, <1>4
  <2>5. Holds(Wires, Lengths, r, w, t + n, sz, d, m - n)
    BY <1>1, <1>2, <1>5, <2>1, <2>2, <2>4, HoldsLess
  <2>5a. Begins(Wires, Lengths, r, t, chan, m)
    BY <1>1, <1>2, <1>5, <2>1, HoldsFirst
  <2>5b. Lengths[r] \in Nat
    BY <1>1, <1>2
  <2>6. ASSUME NEW i \in 1..n PROVE chan[i] = Wires[r][t + i]
    <3>1. 1 <= i /\ i <= m /\ t + i <= Lengths[r]
      BY <1>1, <2>2, <2>5b
    <3> QED
      BY <2>5a, <3>1 DEF Begins
  <2>7. ~(r > w)
    BY <1>1, <1>5
  <2> QED
    BY <1>4, <2>3, <2>5, <2>6, <2>7 DEF r, w, sz, t, m
<1>6. CASE ~(r <= w)
  <2>1. chan = <<>>
    BY <1>6 DEF IInv, Stream
  <2>2. n = 0 /\ m = 0
    BY <1>1, <1>3, <2>1
  <2>3. d = chan
    BY <1>1, <1>4, <2>1, <2>2
  <2>4. \A i \in 1..n : FALSE
    BY <2>2
  <2> QED
    BY <1>4, <1>6, <2>2, <2>3, <2>4
<1> QED
  BY <1>5, <1>6

LEMMA ReaderMoves ==
  ASSUME TransportAssumption, TypeOK, reader.item <= Total,
         reader' = [reader EXCEPT !.at = "poll", !.item = @ + 1, !.sz = 0, !.bytes = <<>>]
  PROVE  /\ reader' \in [item : 1..(Total + 1), sz : Nat, at : ReaderPlaces, er : Errors,
                         bytes : Seq(Nat)]
         /\ reader'.item = reader.item + 1 /\ reader'.sz = 0 /\ reader'.at = "poll"
         /\ reader'.bytes = <<>>
<1>1. reader \in [item : 1..(Total + 1), sz : Nat, at : ReaderPlaces, er : Errors, bytes : Seq(Nat)]
  BY DEF TypeOK
<1> DEFINE next == [item |-> reader.item + 1, sz |-> 0, at |-> "poll", er |-> reader.er,
                    bytes |-> <<>>]
<1>2. reader' = next
  BY <1>1
<1>3. /\ reader.er \in Errors /\ reader.item + 1 \in 1..(Total + 1) /\ "poll" \in ReaderPlaces
      /\ <<>> \in Seq(Nat)
  BY <1>1, Fields DEF ReaderPlaces
<1>4. /\ reader'.item = reader.item + 1 /\ reader'.sz = 0 /\ reader'.at = "poll"
      /\ reader'.bytes = <<>>
  BY <1>2
<1>5. next \in [item : 1..(Total + 1), sz : Nat, at : ReaderPlaces, er : Errors, bytes : Seq(Nat)]
  BY <1>3
<1> HIDE DEF next
<1> QED
  BY <1>2, <1>4, <1>5

\* The reader has some of its item and goes on with it.
LEMMA StayIInv ==
  ASSUME TransportAssumption, IInv, UNCHANGED <<script, writer, got, signals>>,
         ~ReaderGone, reader.item <= Total, NEW n \in Nat, n <= Len(chan),
         Taken + n < Len(Wire(reader.item)), ~IsFd(reader.item),
         NEW to \in {"poll", "pollword"}, NEW sz \in Nat, NEW bytes \in Seq(Nat),
         reader' = [reader EXCEPT !.at = to, !.sz = sz, !.bytes = bytes],
         bytes = SubSeq(Wire(reader.item), 1, Taken + n),
         Taken + n = IF to = "pollword" THEN SizeT + sz ELSE sz,
         to = "pollword" => IsWord(reader.item),
         to = "poll" /\ IsWord(reader.item) => sz < SizeT,
         chan' = From(chan, n + 1)
  PROVE  IInv'
<1>1. /\ reader.item \in 1..Total /\ Total \in Nat /\ Len(chan) \in Nat /\ Taken \in Nat
      /\ writer.item \in 1..(Total + 1) /\ writer.sz \in Nat
  BY SMTT(30), Fields DEF IInv
<1>2. /\ chan' \in Seq(Nat) /\ Len(chan') = Len(chan) - n
      /\ reader.item <= writer.item =>
           Holds(Wires, Lengths, reader.item, writer.item, Taken + n, writer.sz, chan', Len(chan'))
      /\ reader.item > writer.item => n = 0 /\ chan' = chan
  <2>1. Taken + n <= Len(Wire(reader.item))
    <3>1. Wire(reader.item) \in Seq(Nat)
      BY <1>1, WireOf DEF IInv
    <3> DEFINE m == Len(Wire(reader.item))
    <3>2. m \in Nat /\ Taken + n < m
      BY <3>1
    <3> HIDE DEF m
    <3>3. Taken + n <= m
      BY <1>1, <3>2
    <3> QED
      BY <3>3 DEF m
  <2> QED
    BY <2>1, TakenBytes
<1>3. /\ reader' \in [item : 1..(Total + 1), sz : Nat, at : ReaderPlaces, er : Errors, bytes : Seq(Nat)]
      /\ reader'.item = reader.item /\ reader'.sz = sz /\ reader'.at = to /\ reader'.bytes = bytes
  BY DEF IInv, TypeOK, ReaderPlaces
<1>4. TypeOK'
  BY <1>2, <1>3, ScriptKept DEF IInv, TypeOK
<1>5. WriterWhere'
  BY ScriptKept DEF IInv, WriterWhere
<1>6. Taken' = Taken + n /\ ~ReaderGone'
  BY <1>3 DEF Taken, ReaderGone
<1>7. Wire(reader.item) # <<>>
  BY <1>1
<1>8. ReaderWhere'
  <2>1. /\ Wire(reader.item)' = Wire(reader.item) /\ IsFd(reader.item)' = IsFd(reader.item)
        /\ IsWord(reader.item)' = IsWord(reader.item) /\ Total' = Total
    BY ScriptKept, <1>3
  <2>2. ~(reader.item > Total)
    BY SMTT(30), <1>1
  <2> QED
    BY <1>3, <1>6, <1>7, <2>1, <2>2 DEF ReaderWhere
<1>9. Stream'
  <2>1. Wires' = Wires /\ Lengths' = Lengths /\ \A k : Wire(k)' = Wire(k)
    BY ScriptKept DEF Wires, Lengths
  <2>2. CASE reader.item <= writer.item
    BY <1>2, <1>3, <1>6, <2>1, <2>2 DEF Stream
  <2>3. CASE ~(reader.item <= writer.item)
    <3>1. /\ chan = <<>> /\ writer.sz = 0 /\ Taken = 0
          /\ EmptyFrom(writer.item, reader.item)
      BY <2>3 DEF IInv, Stream
    <3>2. n = 0 /\ chan' = chan /\ Taken + n = 0
      BY <1>1, <1>2, <2>3, <3>1
    <3> QED
      BY <1>3, <1>6, <2>1, <2>3, <3>1, <3>2 DEF Stream, EmptyFrom
  <2> QED
    BY <2>2, <2>3
<1>10. GotAll'
  BY <1>3, ScriptKept DEF IInv, GotAll
<1>11. AtEnd'
  BY <1>3 DEF AtEnd
<1> QED
  BY <1>4, <1>5, <1>8, <1>9, <1>10, <1>11 DEF IInv

\* The reader has all of its item.
LEMMA FinishedIInv ==
  ASSUME TransportAssumption, IInv, UNCHANGED <<script, writer, signals>>,
         ~ReaderGone, reader.item <= Total, NEW n \in Nat, n <= Len(chan),
         Taken + n = Len(Wire(reader.item)),
         reader' \in [item : 1..(Total + 1), sz : Nat, at : ReaderPlaces, er : Errors,
                      bytes : Seq(Nat)],
         reader'.item = reader.item + 1, reader'.sz = 0, reader'.at = "poll", reader'.bytes = <<>>,
         got' = Append(got, Bytes(reader.item)),
         chan' = From(chan, n + 1)
  PROVE  IInv'
<1>1. /\ reader.item \in 1..Total /\ Total \in Nat /\ Len(chan) \in Nat /\ Taken \in Nat
      /\ writer.item \in 1..(Total + 1) /\ writer.sz \in Nat /\ chan \in Seq(Nat)
      /\ got \in Seq(Seq(Nat))
  BY SMTT(30), Fields DEF IInv
<1>2. Wire(reader.item) \in Seq(Nat) /\ Bytes(reader.item) \in Seq(Nat)
  BY <1>1, WireOf, ItemOf DEF IInv
<1>3. /\ chan' \in Seq(Nat) /\ Len(chan') = Len(chan) - n
      /\ reader.item <= writer.item =>
           Holds(Wires, Lengths, reader.item, writer.item, Taken + n, writer.sz, chan', Len(chan'))
      /\ reader.item > writer.item => n = 0 /\ chan' = chan
  <2>1. Taken + n <= Len(Wire(reader.item))
    BY <1>1
  <2> QED
    BY <2>1, TakenBytes
<1>4. /\ reader' \in [item : 1..(Total + 1), sz : Nat, at : ReaderPlaces, er : Errors, bytes : Seq(Nat)]
      /\ reader'.item = reader.item + 1 /\ reader'.sz = 0 /\ reader'.at = "poll"
      /\ reader'.bytes = <<>>
  OBVIOUS
<1>5. TypeOK'
  <2>1. got' \in Seq(Seq(Nat))
    BY <1>1, <1>2
  <2> QED
    BY <1>3, <1>4, <2>1, ScriptKept DEF IInv, TypeOK
<1>6. WriterWhere'
  BY ScriptKept DEF IInv, WriterWhere
<1>7. Taken' = 0 /\ ~ReaderGone'
  BY <1>4 DEF Taken, ReaderGone
<1>8. ReaderWhere'
  <2>0. PICK next \in Nat : next = reader.item + 1
    BY <1>1
  <2>1. next <= Total => /\ Wire(next) \in Seq(Nat) /\ <<>> = SubSeq(Wire(next), 1, 0)
                         /\ Wire(next) # <<>> => 0 < Len(Wire(next))
    <3>1. SUFFICES ASSUME next \in 1..Total
                   PROVE  /\ Wire(next) \in Seq(Nat) /\ <<>> = SubSeq(Wire(next), 1, 0)
                          /\ Wire(next) # <<>> => 0 < Len(Wire(next))
      BY <1>1, <2>0
    <3>2. Wire(next) \in Seq(Nat)
      BY <3>1, WireOf DEF IInv
    <3> QED
      BY <3>2
  <2>2. /\ Total' = Total /\ Wire(next)' = Wire(next) /\ IsFd(next)' = IsFd(next)
        /\ IsWord(next)' = IsWord(next)
    BY ScriptKept
  <2>3. reader'.item = next
    BY <1>4, <2>0
  <2> QED
    BY <1>4, <1>7, <2>1, <2>2, <2>3 DEF ReaderWhere, SizeT
<1>9. Stream'
  <2> DEFINE r == reader.item
             w == writer.item
             sz == writer.sz
             wire == Wire(reader.item)
             k == Len(chan')
  <2>1. Wires' = Wires /\ Lengths' = Lengths /\ \A x : Wire(x)' = Wire(x)
    BY ScriptKept DEF Wires, Lengths
  <2>2. /\ Lengths \in [Int -> Nat] /\ Lengths[r] = Len(wire) /\ Len(wire) \in Nat
        /\ r \in Int /\ w \in Int /\ sz \in Nat /\ k \in Nat
    <3>1. Lengths \in [Int -> Nat] /\ Lengths[r] = Len(wire)
      BY <1>1, WiresOf DEF IInv
    <3>2. r \in Int /\ w \in Int /\ sz \in Nat
      BY <1>1
    <3>3. Len(wire) \in Nat
      BY <1>2
    <3>4. k \in Nat
      BY <1>3
    <3> QED
      BY <3>1, <3>2, <3>3, <3>4
  <2>3. Taken + n = Lengths[r]
    BY <2>2
  <2>4. CASE r <= w
    <3>1. Holds(Wires, Lengths, r, w, Lengths[r], sz, chan', k)
      BY <1>3, <2>3, <2>4
    <3> HIDE DEF r, w, sz, k
    <3>2. CASE r < w
      <4>1. Holds(Wires, Lengths, r + 1, w, 0, sz, chan', k)
        BY <2>2, <3>1, <3>2, HoldsRest
      <4>2. r + 1 <= w
        BY <2>2, <3>2
      <4> QED
        BY <1>4, <1>7, <2>1, <4>1, <4>2 DEF Stream, r, w, sz, k
    <3>3. CASE r = w
      <4>1. Lengths[r] \in Nat
        BY <2>2
      <4>2. k + Lengths[r] = sz
        <5>1. /\ Lengths \in [Int -> Nat] /\ r \in Int /\ w \in Int /\ r <= w
              /\ Lengths[r] \in Nat /\ sz \in Nat /\ k \in Nat
          BY <2>2, <2>4, <4>1
        <5>2. r = w => k + Lengths[r] = sz
          BY <3>1, <5>1, HoldsWhole
        <5> QED
          BY <3>3, <5>2
      <4>3. wire = <<>> /\ sz = 0
        <5>1. /\ wire # <<>> => sz < Len(wire)
              /\ wire = <<>> => sz = 0
          BY <1>1, <3>3 DEF IInv, WriterWhere, r, w, sz
        <5> HIDE DEF wire
        <5>2. wire = <<>>
          BY <2>2, <4>2, <5>1
        <5> QED
          BY <5>1, <5>2
      <4>4. k = 0 /\ chan' = <<>>
        <5>1. k = 0
          BY <2>2, <4>1, <4>2, <4>3
        <5> QED
          BY <1>3, <5>1 DEF k
      <4>5. ~(r + 1 <= w) /\ \A x \in Int : w <= x /\ x < r + 1 => x = r
        BY <2>2, <3>3
      <4>6. reader'.item = r + 1 /\ writer'.item = w /\ writer'.sz = sz
        BY <1>4 DEF r, w, sz
      <4>8. ASSUME NEW x \in Int, w <= x, x < r + 1 PROVE Wire(x)' = <<>>
        <5>1. x = r
          BY <4>5, <4>8
        <5>2. Wire(x) = <<>>
          BY <4>3, <5>1 DEF r
        <5> QED
          BY <2>1, <5>2
      <4> QED
        BY <1>7, <4>3, <4>4, <4>5, <4>6, <4>8 DEF Stream, EmptyFrom
    <3> QED
      BY <2>2, <2>4, <3>2, <3>3
  <2>5. CASE ~(r <= w)
    <3>1. chan = <<>> /\ sz = 0 /\ Taken = 0 /\ EmptyFrom(w, r)
      BY <2>5 DEF IInv, Stream
    <3>2. n = 0 /\ chan' = <<>>
      BY <1>1, <1>3, <2>5, <3>1
    <3>3. wire = <<>>
      <4>1. Len(wire) = 0
        BY <1>1, <3>1, <3>2
      <4> QED
        BY <1>2, <4>1
    <3>4. ~(r + 1 <= w) /\ \A x \in Int : x < r + 1 => x < r \/ x = r
      <4>1. r \in Int /\ w \in Int /\ ~(r <= w)
        BY <2>2, <2>5
      <4> HIDE DEF r, w
      <4> QED
        BY <4>1
    <3>5. \A x \in Int : w <= x /\ x < r + 1 => Wire(x) = <<>>
      BY <3>1, <3>3, <3>4 DEF EmptyFrom
    <3>6. reader'.item = r + 1 /\ writer'.item = w /\ writer'.sz = sz
      BY <1>4
    <3> HIDE DEF r, w, sz
    <3>7. \A x \in Int : w <= x /\ x < r + 1 => Wire(x)' = <<>>
      BY <2>1, <3>5
    <3> QED
      BY <1>7, <3>1, <3>2, <3>4, <3>6, <3>7 DEF Stream, EmptyFrom
  <2> QED
    BY <2>4, <2>5
<1>10. GotAll'
  <2>1. PICK j \in Nat : j = reader.item - 1
    BY SMTT(30), <1>1
  <2>2. Len(got) = j /\ \A k \in 1..j : got[k] = Bytes(k)
    BY <2>1 DEF IInv, GotAll
  <2>3. /\ Len(got') = j + 1 /\ got'[j + 1] = Bytes(reader.item)
        /\ \A k \in 1..j : got'[k] = got[k]
    <3> DEFINE b == Bytes(reader.item)
    <3>1. got \in Seq(Seq(Nat)) /\ b \in Seq(Nat) /\ got' = Append(got, b) /\ Len(got) = j
      BY <1>1, <1>2, <2>2
    <3> HIDE DEF b
    <3>2. /\ Len(got') = j + 1 /\ got'[j + 1] = b
          /\ \A k \in 1..j : got'[k] = got[k]
      BY <3>1
    <3> QED
      BY <3>2 DEF b
  <2>4. reader.item = j + 1 /\ reader'.item - 1 = j + 1
    <3>1. reader'.item = reader.item + 1 /\ reader.item \in Int
      BY <1>1, <1>4
    <3> QED
      BY SMTT(30), <2>1, <3>1
  <2>5. \A k : Bytes(k)' = Bytes(k)
    BY ScriptKept
  <2>6. ASSUME NEW k \in 1..(j + 1) PROVE got'[k] = Bytes(k)
    <3>1. k \in 1..j \/ k = j + 1
      OBVIOUS
    <3> QED
      BY <2>2, <2>3, <2>4, <3>1
  <2> QED
    BY <2>3, <2>4, <2>5, <2>6 DEF GotAll
<1>11. AtEnd'
  BY <1>4 DEF AtEnd
<1> QED
  BY <1>5, <1>6, <1>8, <1>9, <1>10, <1>11 DEF IInv

-----------------------------------------------------------------------------
(* The reader's steps.                                                     *)

LEMMA Continued ==
  ASSUME NEW wire \in Seq(Nat), NEW t \in Nat, NEW n \in Nat, t + n <= Len(wire),
         NEW c \in Seq(Nat), n <= Len(c), \A i \in 1..n : c[i] = wire[t + i]
  PROVE  /\ SubSeq(wire, 1, t) \o SubSeq(c, 1, n) = SubSeq(wire, 1, t + n)
         /\ SubSeq(wire, 1, t + n) \in Seq(Nat)
         /\ Len(SubSeq(wire, 1, t + n)) = t + n
         /\ \A i \in 1..(t + n) : SubSeq(wire, 1, t + n)[i] = wire[i]
<1> DEFINE a == SubSeq(wire, 1, t)
           b == SubSeq(c, 1, n)
           d == SubSeq(wire, 1, t + n)
<1>0. /\ 1 \in 1..(Len(wire) + 1) /\ 1 \in 1..(Len(c) + 1)
      /\ t \in (1 - 1)..Len(wire) /\ t + n \in (1 - 1)..Len(wire) /\ n \in (1 - 1)..Len(c)
  OBVIOUS
<1>1. a \in Seq(Nat) /\ Len(a) = t - 1 + 1 /\ \A i \in 1..(t - 1 + 1) : a[i] = wire[1 + i - 1]
  BY <1>0, Piece
<1>2. b \in Seq(Nat) /\ Len(b) = n - 1 + 1 /\ \A i \in 1..(n - 1 + 1) : b[i] = c[1 + i - 1]
  BY <1>0, Piece
<1>3. /\ d \in Seq(Nat) /\ Len(d) = t + n - 1 + 1
      /\ \A i \in 1..(t + n - 1 + 1) : d[i] = wire[1 + i - 1]
  BY <1>0, Piece
<1> HIDE DEF a, b, d
<1>4. /\ Len(a) = t /\ Len(b) = n /\ Len(d) = t + n
      /\ \A i \in 1..t : a[i] = wire[i]
      /\ \A i \in 1..n : b[i] = c[i]
      /\ \A i \in 1..(t + n) : d[i] = wire[i]
  BY <1>1, <1>2, <1>3
<1>5. /\ a \o b \in Seq(Nat) /\ Len(a \o b) = t + n
      /\ \A i \in 1..t : (a \o b)[i] = a[i]
      /\ \A i \in 1..n : (a \o b)[t + i] = b[i]
  BY ZenonT(30), <1>1, <1>2, <1>4, Joined
<1>6. ASSUME NEW i \in 1..(t + n) PROVE (a \o b)[i] = d[i]
  <2>1. CASE i <= t
    <3>1. i \in 1..t
      BY <2>1
    <3>2. (a \o b)[i] = a[i] /\ a[i] = wire[i] /\ d[i] = wire[i]
      BY <1>4, <1>5, <3>1
    <3> QED
      BY <3>2
  <2>2. CASE i > t
    <3>1. i - t \in 1..n /\ t + (i - t) = i
      BY <2>2
    <3>2. (a \o b)[t + (i - t)] = wire[t + (i - t)]
      BY ZenonT(30), <1>4, <1>5, <3>1
    <3> QED
      BY <1>4, <3>1, <3>2
  <2>3. i <= t \/ i > t
    OBVIOUS
  <2> QED
    BY <2>1, <2>2, <2>3
<1>7. a \o b = d
  BY <1>3, <1>4, <1>5, <1>6, SameElements
<1> QED
  BY <1>3, <1>4, <1>7 DEF a, b, d

\* What the running call of fullread wants, and where in the item it is.
LEMMA WantedOf ==
  ASSUME TransportAssumption, IInv, ~ReaderGone, reader.item <= Total
  PROVE  /\ Wanted \in Nat /\ reader.sz \in Nat /\ Taken \in Nat
         /\ Wire(reader.item) \in Seq(Nat) /\ Len(Wire(reader.item)) \in Nat
         /\ ~IsWord(reader.item) => /\ ~InSize /\ Taken = reader.sz
                                    /\ reader.at \in {"poll", "read"}
                                    /\ Wanted = Len(Wire(reader.item))
         /\ InSize => /\ Taken = reader.sz /\ Wanted = SizeT /\ SizeT <= Len(Wire(reader.item))
                      /\ reader.at \in {"poll", "read"} /\ reader.sz < SizeT
         /\ IsWord(reader.item) /\ ~InSize =>
              /\ Taken = SizeT + reader.sz /\ reader.at \in {"pollword", "readword"}
              /\ SizeT + Wanted = Len(Wire(reader.item))
<1>1. /\ reader.item \in 1..Total /\ reader.sz \in Nat /\ Taken \in Nat
      /\ reader.at \in {"poll", "read", "pollword", "readword"}
  BY Fields DEF IInv, ReaderPlaces, ReaderGone
<1>2. Wire(reader.item) \in Seq(Nat) /\ Len(Wire(reader.item)) \in Nat
  BY <1>1, WireOf DEF IInv
<1>3. Bytes(reader.item) \in Seq(Nat) /\ Len(Bytes(reader.item)) \in Nat
  BY <1>1, ItemOf DEF IInv
<1>4. CASE ~IsWord(reader.item)
  <2>1. reader.at \in {"poll", "read"}
    BY <1>1, <1>4 DEF IInv, ReaderWhere
  <2>2. Len(Wire(reader.item)) = Len(Bytes(reader.item))
    <3>1. IsFd(reader.item) => Len(Wire(reader.item)) = Len(Bytes(reader.item))
      BY <1>1, WireOf DEF IInv
    <3>2. ~IsFd(reader.item) => Wire(reader.item) = Bytes(reader.item)
      BY <1>1, <1>4, WireOf DEF IInv
    <3> QED
      BY <3>1, <3>2
  <2>3. Wanted = Len(Bytes(reader.item)) /\ ~InSize /\ Taken = reader.sz
    BY <1>4, <2>1 DEF Wanted, InSize, Taken
  <2> QED
    BY <1>1, <1>2, <1>3, <1>4, <2>1, <2>2, <2>3
<1>5. CASE IsWord(reader.item)
  <2>1. /\ Len(Wire(reader.item)) = SizeT + Len(Bytes(reader.item))
        /\ AsSize(Wire(reader.item)) = Len(Bytes(reader.item))
    BY <1>1, <1>5, WireOf DEF IInv
  <2>2. CASE reader.at \in {"poll", "read"}
    <3>1. InSize /\ Wanted = SizeT /\ Taken = reader.sz
      BY <1>5, <2>2 DEF InSize, Wanted, Taken
    <3>2. reader.sz < SizeT
      BY <1>5, <2>2 DEF IInv, ReaderWhere
    <3> QED
      BY <1>1, <1>2, <1>3, <1>5, <2>1, <2>2, <3>1, <3>2 DEF SizeT
  <2>3. CASE reader.at \in {"pollword", "readword"}
    <3>1. ~InSize /\ Wanted = AsSize(SubSeq(reader.bytes, 1, SizeT)) /\ Taken = SizeT + reader.sz
      BY <1>5, <2>3 DEF InSize, Wanted, Taken
    <3>2. /\ reader.bytes = SubSeq(Wire(reader.item), 1, Taken)
          /\ Wire(reader.item) # <<>> => Taken < Len(Wire(reader.item))
      BY <1>1 DEF IInv, ReaderWhere
    <3>3. AsSize(SubSeq(reader.bytes, 1, SizeT)) = AsSize(Wire(reader.item))
      <4> DEFINE wire == Wire(reader.item)
                 b == SubSeq(wire, 1, Taken)
                 s == SubSeq(b, 1, SizeT)
      <4>1. wire \in Seq(Nat) /\ Len(wire) >= 2 /\ (wire # <<>> => Taken < Len(wire)) /\ Taken >= 2
        BY SMTT(30), <1>1, <1>2, <1>3, <2>1, <3>1, <3>2 DEF SizeT
      <4> HIDE DEF wire
      <4>2. Taken <= Len(wire) /\ Taken \in Nat
        BY <1>1, <4>1
      <4>3. b \in Seq(Nat) /\ Len(b) = Taken /\ \A i \in 1..Taken : b[i] = wire[i]
        <5>1. /\ b \in Seq(Nat) /\ Len(b) = Taken - 1 + 1
              /\ \A i \in 1..(Taken - 1 + 1) : b[i] = wire[1 + i - 1]
          <6>1. 1 \in 1..(Len(wire) + 1) /\ Taken \in (1 - 1)..Len(wire)
            BY <4>1, <4>2
          <6> QED
            BY <4>1, <6>1, Piece
        <5> QED
          BY <4>2, <5>1
      <4> HIDE DEF b
      <4>4. s[1] = b[1] /\ s[2] = b[2]
        <5>1. /\ \A i \in 1..(SizeT - 1 + 1) : s[i] = b[1 + i - 1]
          <6>1. 1 \in 1..(Len(b) + 1) /\ SizeT \in (1 - 1)..Len(b)
            BY <4>1, <4>2, <4>3 DEF SizeT
          <6> QED
            BY <4>3, <6>1, Piece
        <5> QED
          BY <5>1 DEF SizeT
      <4>5. b[1] = wire[1] /\ b[2] = wire[2]
        BY <4>1, <4>2, <4>3
      <4>6. AsSize(s) = AsSize(wire)
        BY <4>4, <4>5 DEF AsSize
      <4> QED
        BY <3>2, <4>6 DEF wire, b, s
    <3> QED
      BY <1>1, <1>2, <1>3, <1>5, <2>1, <2>3, <3>1, <3>3
  <2> QED
    BY <1>1, <2>2, <2>3
<1> QED
  BY <1>4, <1>5

\* An item's bytes, out of what is on the wire.
LEMMA ItemFromWire ==
  ASSUME TransportAssumption, TypeOK, NEW k \in 1..Total, ~IsFd(k)
  PROVE  Bytes(k) = IF IsWord(k) THEN From(Wire(k), SizeT + 1) ELSE Wire(k)
<1>1. Bytes(k) \in Seq(Nat) /\ Len(Bytes(k)) \in Nat /\ Wire(k) \in Seq(Nat)
  BY ItemOf, WireOf
<1>2. CASE IsWord(k)
  <2>1. /\ Len(Wire(k)) = SizeT + Len(Bytes(k))
        /\ \A i \in 1..Len(Bytes(k)) : Wire(k)[SizeT + i] = Bytes(k)[i]
    BY <1>2, WireOf
  <2> DEFINE wire == Wire(k)
             b == Bytes(k)
             d == From(wire, SizeT + 1)
  <2>2. wire \in Seq(Nat) /\ b \in Seq(Nat) /\ Len(wire) = SizeT + Len(b)
        /\ \A i \in 1..Len(b) : wire[SizeT + i] = b[i]
    BY <1>1, <2>1
  <2> HIDE DEF wire, b, d
  <2>3. SizeT \in 0..Len(wire)
    BY <2>2 DEF SizeT
  <2>4. /\ d \in Seq(Nat) /\ Len(d) = Len(wire) - SizeT
        /\ \A i \in 1..(Len(wire) - SizeT) : d[i] = wire[SizeT + i]
    BY <2>2, <2>3, TheRest DEF d
  <2>5. Len(d) = Len(b) /\ \A i \in 1..Len(b) : d[i] = b[i]
    BY <2>2, <2>4 DEF SizeT
  <2>6. b = d
    BY <2>2, <2>4, <2>5, SameElements
  <2> QED
    BY <1>2, <2>6 DEF b, d, wire
<1>3. CASE ~IsWord(k)
  BY <1>3, WireOf
<1> QED
  BY <1>2, <1>3

LEMMA ReadSomeIInv ==
  ASSUME TransportAssumption, IInv, ReadSome
  PROVE  IInv'
<1>1. /\ reader.at \in {"read", "readword"} /\ chan # <<>> /\ ~IsFd(reader.item)
      /\ UNCHANGED <<script, writer, signals>>
  BY DEF ReadSome
<1>2. ~ReaderGone /\ reader.item <= Total
  <2>1. ~ReaderGone
    BY <1>1 DEF ReaderGone
  <2>2. ~(reader.item > Total)
    BY <1>1, <2>1 DEF IInv, ReaderWhere
  <2> QED
    BY <2>1, <2>2, Fields DEF IInv
<1>3. PICK n \in 1..(IF Wanted - reader.sz < Len(chan) THEN Wanted - reader.sz ELSE Len(chan)) :
         /\ chan' = From(chan, n + 1)
         /\ IF reader.sz + n = Wanted THEN Finished(reader.bytes \o SubSeq(chan, 1, n))
            ELSE /\ reader' = [reader EXCEPT !.sz = @ + n, !.bytes = reader.bytes \o SubSeq(chan, 1, n),
                                             !.at = IF @ = "read" THEN "poll" ELSE "pollword"]
                 /\ UNCHANGED got
  BY DEF ReadSome
<1> DEFINE wire == Wire(reader.item)
           b == SubSeq(wire, 1, Taken + n)
<1>4. /\ reader.item \in 1..Total /\ Len(chan) \in Nat /\ chan \in Seq(Nat)
  BY <1>2, Fields DEF IInv
<1>5. /\ Wanted \in Nat /\ reader.sz \in Nat /\ Taken \in Nat
      /\ wire \in Seq(Nat) /\ Len(wire) \in Nat
      /\ ~IsWord(reader.item) => /\ ~InSize /\ Taken = reader.sz
                                 /\ reader.at \in {"poll", "read"} /\ Wanted = Len(wire)
      /\ InSize => /\ Taken = reader.sz /\ Wanted = SizeT /\ SizeT <= Len(wire)
                   /\ reader.at \in {"poll", "read"} /\ reader.sz < SizeT
      /\ IsWord(reader.item) /\ ~InSize =>
           /\ Taken = SizeT + reader.sz /\ reader.at \in {"pollword", "readword"}
           /\ SizeT + Wanted = Len(wire)
  BY <1>2, WantedOf
<1>6. n \in Nat /\ n > 0 /\ n <= Len(chan) /\ reader.sz + n <= Wanted
  BY <1>4, <1>5
<1>7. Taken + n <= Len(wire)
  <2>1. CASE ~IsWord(reader.item)
    BY <1>5, <1>6, <2>1
  <2>2. CASE InSize
    BY <1>5, <1>6, <2>2 DEF SizeT
  <2>3. CASE IsWord(reader.item) /\ ~InSize
    BY <1>5, <1>6, <2>3 DEF SizeT
  <2> QED
    BY <2>1, <2>2, <2>3
<1>8. \A i \in 1..n : chan[i] = wire[Taken + i]
  <2> DEFINE d == From(chan, n + 1)
  <2>1. d = From(chan, n + 1)
    OBVIOUS
  <2> HIDE DEF d
  <2> QED
    BY <1>2, <1>6, <1>7, <2>1, TakenBytes
<1>9. reader.bytes = SubSeq(wire, 1, Taken)
  BY <1>2 DEF IInv, ReaderWhere
<1>10. /\ reader.bytes \o SubSeq(chan, 1, n) = b
       /\ b \in Seq(Nat) /\ Len(b) = Taken + n /\ \A i \in 1..(Taken + n) : b[i] = wire[i]
  <2>1. wire \in Seq(Nat) /\ Taken \in Nat /\ n \in Nat /\ Taken + n <= Len(wire)
        /\ chan \in Seq(Nat) /\ n <= Len(chan)
    BY <1>4, <1>5, <1>6, <1>7
  <2> HIDE DEF wire
  <2>2. /\ SubSeq(wire, 1, Taken) \o SubSeq(chan, 1, n) = SubSeq(wire, 1, Taken + n)
        /\ b \in Seq(Nat) /\ Len(b) = Taken + n /\ \A i \in 1..(Taken + n) : b[i] = wire[i]
    BY ZenonT(30), <1>8, <2>1, Continued
  <2> QED
    BY <1>9, <2>2
<1> HIDE DEF b
<1>11. CASE reader.sz + n # Wanted
  <2> DEFINE to == IF reader.at = "read" THEN "poll" ELSE "pollword"
             sz == reader.sz + n
  <2>1. /\ reader' = [reader EXCEPT !.at = to, !.sz = sz, !.bytes = b] /\ got' = got
    BY <1>3, <1>10, <1>11
  <2>2. to \in {"poll", "pollword"} /\ sz \in Nat
    BY <1>5, <1>6
  <2>3. sz < Wanted
    BY <1>5, <1>6, <1>11
  <2>4. to = "pollword" => reader.at = "readword"
    BY <1>1
  <2>5. to = "poll" => reader.at = "read"
    BY <1>1
  <2>6. Taken + n < Len(wire) /\ (Taken + n = IF to = "pollword" THEN SizeT + sz ELSE sz)
    <3>1. CASE ~IsWord(reader.item)
      <4>1. to = "poll"
        BY <1>5, <2>4, <3>1, <2>2
      <4> QED
        BY <1>5, <1>6, <2>3, <3>1, <4>1
    <3>2. CASE InSize
      <4>1. to = "poll"
        BY <1>5, <2>4, <3>2, <2>2
      <4> QED
        BY <1>5, <1>6, <2>3, <3>2, <4>1 DEF SizeT
    <3>3. CASE IsWord(reader.item) /\ ~InSize
      <4>1. to = "pollword"
        BY <1>5, <2>5, <3>3, <2>2
      <4>2. Taken = SizeT + reader.sz /\ SizeT + Wanted = Len(wire)
        BY <1>5, <3>3
      <4>3. reader.sz \in Nat /\ Wanted \in Nat /\ sz = reader.sz + n
        BY <1>5
      <4> HIDE DEF to, sz, wire
      <4>4. Taken + n = SizeT + sz /\ SizeT + sz < SizeT + Wanted
        BY SMTT(30), <1>6, <2>2, <2>3, <4>2, <4>3 DEF SizeT
      <4> QED
        BY <4>1, <4>2, <4>4
    <3> QED
      BY <3>1, <3>2, <3>3
  <2>7. to = "pollword" => IsWord(reader.item)
    BY <1>2, <2>4 DEF IInv, ReaderWhere
  <2>8. to = "poll" /\ IsWord(reader.item) => sz < SizeT
    <3>1. to = "poll" /\ IsWord(reader.item) => InSize
      BY <2>5 DEF InSize
    <3> QED
      BY <1>5, <2>3, <3>1
  <2> HIDE DEF to, sz
  <2>9. UNCHANGED <<script, writer, got, signals>>
    BY <1>1, <2>1
  <2> QED
    BY <1>1, <1>2, <1>3, <1>6, <1>10, <2>1, <2>2, <2>6, <2>7, <2>8, <2>9, StayIInv DEF b
<1>12. CASE reader.sz + n = Wanted
  <2>1. Finished(b)
    BY <1>3, <1>10, <1>12
  <2>2. IsWord(reader.item) => AsSize(b) = Len(Bytes(reader.item)) /\ Len(wire) = SizeT + Len(Bytes(reader.item))
    <3>1. SUFFICES ASSUME IsWord(reader.item)
                   PROVE  AsSize(b) = Len(Bytes(reader.item)) /\ Len(wire) = SizeT + Len(Bytes(reader.item))
      OBVIOUS
    <3>2. AsSize(wire) = Len(Bytes(reader.item)) /\ Len(wire) = SizeT + Len(Bytes(reader.item))
      BY <1>4, <3>1, WireOf DEF IInv
    <3>3. Taken + n >= 2
      <4>1. CASE InSize
        BY <1>5, <1>12, <4>1 DEF SizeT
      <4>2. CASE ~InSize
        BY <1>5, <1>6, <3>1, <4>2 DEF SizeT
      <4> QED
        BY <4>1, <4>2
    <3>4. b[1] = wire[1] /\ b[2] = wire[2]
      <4>1. 1 \in 1..(Taken + n) /\ 2 \in 1..(Taken + n)
        BY <1>5, <1>6, <3>3
      <4> QED
        BY <1>10, <4>1
    <3>5. AsSize(b) = AsSize(wire)
      BY <3>4 DEF AsSize
    <3> QED
      BY <3>2, <3>5
  <2>3. Len(Bytes(reader.item)) \in Nat
    BY <1>4, ItemOf DEF IInv
  <2>4. CASE InSize /\ AsSize(b) > 0
    <3>1. /\ reader' = [reader EXCEPT !.at = "pollword", !.sz = 0, !.bytes = b] /\ got' = got
      BY <2>1, <2>4 DEF Finished
    <3>2. IsWord(reader.item)
      BY <2>4 DEF InSize
    <3>3. Taken + n = SizeT + 0 /\ Taken + n < Len(wire)
      BY <1>5, <1>12, <2>2, <2>3, <2>4, <3>2 DEF SizeT
    <3>4. UNCHANGED <<script, writer, got, signals>> /\ 0 \in Nat
      BY <1>1, <3>1
    <3> QED
      BY <1>1, <1>2, <1>3, <1>6, <1>10, <3>1, <3>2, <3>3, <3>4, StayIInv DEF b
  <2>5. CASE ~(InSize /\ AsSize(b) > 0)
    <3>1. /\ reader' = [reader EXCEPT !.at = "poll", !.item = @ + 1, !.sz = 0, !.bytes = <<>>]
          /\ got' = Append(got, IF IsWord(reader.item) THEN From(b, SizeT + 1) ELSE b)
      BY <2>1, <2>5 DEF Finished
    <3>2. Taken + n = Len(wire)
      <4>1. CASE ~IsWord(reader.item)
        BY <1>5, <1>12, <4>1
      <4>2. CASE InSize
        <5>1. Len(Bytes(reader.item)) = 0 /\ Len(wire) = SizeT
          <6>1. IsWord(reader.item) /\ ~(AsSize(b) > 0)
            BY <2>5, <4>2 DEF InSize
          <6>2. AsSize(b) = Len(Bytes(reader.item)) /\ Len(wire) = SizeT + Len(Bytes(reader.item))
            BY <2>2, <6>1
          <6>3. Len(Bytes(reader.item)) = 0
            BY <2>3, <6>1, <6>2
          <6> QED
            BY <6>2, <6>3 DEF SizeT
        <5> QED
          BY <1>5, <1>12, <4>2, <5>1
      <4>3. CASE IsWord(reader.item) /\ ~InSize
        BY SMTT(30), <1>5, <1>6, <1>12, <4>3 DEF SizeT
      <4> QED
        BY <4>1, <4>2, <4>3
    <3>3. b = wire
      <4> HIDE DEF wire
      <4>1. b \in Seq(Nat) /\ wire \in Seq(Nat) /\ Len(b) = Len(wire)
            /\ \A i \in 1..Len(b) : b[i] = wire[i]
        BY <1>5, <1>10, <3>2
      <4> QED
        BY <4>1, SameElements
    <3>4. got' = Append(got, Bytes(reader.item))
      BY <1>1, <1>4, <3>1, <3>3, ItemFromWire DEF IInv
    <3>5. /\ reader' \in [item : 1..(Total + 1), sz : Nat, at : ReaderPlaces, er : Errors,
                          bytes : Seq(Nat)]
          /\ reader'.item = reader.item + 1 /\ reader'.sz = 0 /\ reader'.at = "poll"
          /\ reader'.bytes = <<>>
      BY <1>2, <3>1, ReaderMoves DEF IInv
    <3>6. UNCHANGED <<script, writer, signals>>
      BY <1>1
    <3> QED
      BY <1>2, <1>3, <1>6, <3>2, <3>4, <3>5, <3>6, FinishedIInv
  <2> QED
    BY <2>4, <2>5
<1> QED
  BY <1>11, <1>12

LEMMA TakeDescriptorIInv ==
  ASSUME TransportAssumption, IInv, TakeDescriptor
  PROVE  IInv'
<1>1. /\ reader.at = "read" /\ chan # <<>> /\ IsFd(reader.item)
      /\ chan' = From(chan, Wanted + 1) /\ UNCHANGED <<script, writer, signals>>
  BY DEF TakeDescriptor
<1>2. ~ReaderGone /\ reader.item <= Total
  <2>1. ~ReaderGone
    BY <1>1 DEF ReaderGone
  <2>2. ~(reader.item > Total)
    BY <1>1, <2>1 DEF IInv, ReaderWhere
  <2> QED
    BY <2>1, <2>2, Fields DEF IInv
<1> DEFINE r == reader.item
           w == writer.item
           wire == Wire(reader.item)
           n == Len(Wire(reader.item))
<1>3. /\ r \in 1..Total /\ r \in Int /\ w \in Int /\ Len(chan) \in Nat /\ chan \in Seq(Nat)
      /\ Len(chan) > 0 /\ writer.sz \in Nat /\ w \in 1..(Total + 1) /\ got \in Seq(Seq(Nat))
  BY <1>1, <1>2, Fields DEF IInv
<1>4. /\ Bytes(r) \in Seq(Nat) /\ ~IsWord(r) /\ n = Len(Bytes(r)) /\ n > 0 /\ n \in Nat
      /\ wire \in Seq(Nat) /\ wire # <<>>
      /\ wire[1] = Bytes(r)[1] + Base /\ \A i \in 2..n : wire[i] = Bytes(r)[i]
  <2>1. Bytes(r) \in Seq(Nat) /\ ~IsWord(r)
    BY <1>1, <1>3, ItemOf DEF IInv
  <2>2. /\ Len(wire) = Len(Bytes(r)) /\ Len(wire) > 0
        /\ wire[1] = Bytes(r)[1] + Base /\ \A i \in 2..Len(Bytes(r)) : wire[i] = Bytes(r)[i]
    BY <1>1, <1>3, WireOf DEF IInv
  <2>3. wire \in Seq(Nat)
    BY <1>3, WireOf DEF IInv
  <2> QED
    BY <2>1, <2>2, <2>3
<1>5. Wanted = n /\ Taken = 0 /\ Taken \in Nat
  <2>1. Wanted = n /\ Taken = reader.sz
    BY <1>2, <1>4, WantedOf
  <2>2. reader.sz = 0
    BY <1>1, <1>2 DEF IInv, ReaderWhere
  <2> QED
    BY <2>1, <2>2
\* The message is there as a whole.
<1>6. n <= Len(chan)
  <2>1. r <= w
    <3>1. ~(r <= w) => chan = <<>>
      BY <1>2 DEF IInv, Stream
    <3> QED
      BY <1>1, <3>1
  <2>2. Holds(Wires, Lengths, r, w, 0, writer.sz, chan, Len(chan))
    BY <1>2, <1>5, <2>1 DEF IInv, Stream
  <2>3. Lengths \in [Int -> Nat] /\ Lengths[r] = n
    BY <1>3, WiresOf DEF IInv
  <2>4. ~(r = w)
    <3>1. SUFFICES ASSUME r = w PROVE FALSE
      OBVIOUS
    <3>2. writer.sz = 0
      BY <1>1, <1>2, <3>1 DEF IInv, WriterWhere
    <3> DEFINE m == Len(chan)
               z == writer.sz
    <3>3. m \in Nat /\ z \in Nat /\ m > 0 /\ Holds(Wires, Lengths, r, w, 0, z, chan, m)
      BY <1>3, <2>2
    <3>4. r \in Int /\ w \in Int /\ r <= w /\ Lengths \in [Int -> Nat] /\ 0 \in Nat
      BY <1>3, <2>1, <2>3
    <3> HIDE DEF m, z, r, w
    <3>5. r = w => m + 0 = z
      BY <3>3, <3>4, HoldsLength
    <3> QED
      BY <3>1, <3>2, <3>3, <3>5 DEF z
  <2> DEFINE m == Len(chan)
             z == writer.sz
  <2>5. m \in Nat /\ z \in Nat /\ Holds(Wires, Lengths, r, w, 0, z, chan, m)
    BY <1>3, <2>2
  <2> HIDE DEF m, z, r, w, n
  <2>6. r < w => m + 0 >= Lengths[r]
    BY <1>3, <2>1, <2>3, <2>5, HoldsLength
  <2>7. r < w
    BY <1>3, <2>1, <2>4
  <2> QED
    BY <1>4, <2>3, <2>5, <2>6, <2>7 DEF m
<1>7. \A i \in 1..n : chan[i] = wire[i]
  <2> DEFINE d == From(chan, n + 1)
  <2>1. d = From(chan, n + 1)
    OBVIOUS
  <2>2. Taken + n <= Len(Wire(reader.item)) /\ n \in Nat
    BY <1>4, <1>5
  <2> HIDE DEF d
  <2>3. \A i \in 1..n : chan[i] = Wire(reader.item)[Taken + i]
    BY <1>2, <1>6, <2>1, <2>2, TakenBytes
  <2>4. \A i \in 1..n : Taken + i = i
    BY <1>4, <1>5
  <2> QED
    BY <2>3, <2>4
<1>8. chan[1] >= Base
  <2>1. chan[1] = Bytes(r)[1] + Base
    BY <1>4, <1>7
  <2>2. Bytes(r)[1] \in Nat /\ Base \in Nat
    BY <1>4 DEF TransportAssumption
  <2> QED
    BY <2>1, <2>2
<1> DEFINE p == SubSeq(chan, 1, n)
           b == [p EXCEPT ![1] = @ - Base]
<1>9. b = Bytes(r)
  <2>1. p \in Seq(Nat) /\ Len(p) = n /\ \A i \in 1..n : p[i] = chan[i]
    <3>1. /\ p \in Seq(Nat) /\ Len(p) = n - 1 + 1
          /\ \A i \in 1..(n - 1 + 1) : p[i] = chan[1 + i - 1]
      <4>1. 1 \in 1..(Len(chan) + 1) /\ n \in (1 - 1)..Len(chan)
        BY <1>3, <1>4, <1>6
      <4> HIDE DEF n
      <4> QED
        BY <1>3, <4>1, Piece
    <3>2. n - 1 + 1 = n /\ \A i \in 1..n : 1 + i - 1 = i
      BY <1>4
    <3> QED
      BY <3>1, <3>2
  <2> DEFINE a == Bytes(r)
  <2>2. /\ a \in Seq(Nat) /\ Len(a) = n /\ n > 0 /\ Base \in Nat /\ n \in Nat
        /\ p[1] = a[1] + Base /\ \A i \in 2..n : p[i] = a[i]
    <3>1. 1 \in 1..n /\ \A i \in 2..n : i \in 1..n
      BY <1>4
    <3>2. p[1] = wire[1] /\ \A i \in 2..n : p[i] = wire[i]
      BY <1>7, <2>1, <3>1
    <3> QED
      BY <1>4, <3>2 DEF TransportAssumption
  <2> HIDE DEF a, p, n
  <2>3. p \in [1..n -> Nat] /\ a \in [1..n -> Nat]
    BY <2>1, <2>2
  <2>4. a[1] \in Nat /\ p[1] - Base = a[1]
    BY <2>2, <2>3
  <2>5. b \in [1..n -> Nat] /\ b[1] = a[1] /\ \A i \in 2..n : b[i] = a[i]
    BY <2>2, <2>3, <2>4
  <2>6. \A i \in 1..n : i = 1 \/ i \in 2..n
    BY <2>2
  <2>7. \A i \in 1..n : b[i] = a[i]
    BY <2>5, <2>6
  <2>8. b = a
    BY <2>3, <2>5, <2>7
  <2> QED
    BY <2>8 DEF a
<1>10. Finished(b)
  BY <1>5, <1>8 DEF TakeDescriptor
<1> HIDE DEF b
<1>11. /\ reader' = [reader EXCEPT !.at = "poll", !.item = @ + 1, !.sz = 0, !.bytes = <<>>]
       /\ got' = Append(got, Bytes(reader.item))
  BY <1>4, <1>9, <1>10 DEF Finished, InSize
<1>12. /\ reader' \in [item : 1..(Total + 1), sz : Nat, at : ReaderPlaces, er : Errors,
                       bytes : Seq(Nat)]
       /\ reader'.item = reader.item + 1 /\ reader'.sz = 0 /\ reader'.at = "poll"
       /\ reader'.bytes = <<>>
  BY <1>2, <1>11, ReaderMoves DEF IInv
<1>13. Taken + n = Len(Wire(reader.item)) /\ n \in Nat
  BY <1>4, <1>5
<1>14. chan' = From(chan, n + 1) /\ UNCHANGED <<script, writer, signals>>
  BY <1>1, <1>5
<1> QED
  BY <1>2, <1>6, <1>11, <1>12, <1>13, <1>14, FinishedIInv

LEMMA ReadNothingIInv ==
  ASSUME TransportAssumption, IInv, ReadNothing
  PROVE  IInv'
<1>1. /\ reader.at = "poll" /\ reader.item <= Total /\ Wanted = 0 /\ Finished(<<>>)
      /\ UNCHANGED <<script, chan, writer, signals>> /\ ~ReaderGone
  BY DEF ReadNothing, Reading, ReaderGone, Total
<1>2. /\ Taken = 0 /\ ~IsWord(reader.item) /\ Len(Wire(reader.item)) = 0
      /\ Wire(reader.item) \in Seq(Nat) /\ ~InSize
  <2>1. /\ Wire(reader.item) \in Seq(Nat) /\ (InSize => Wanted = SizeT)
        /\ ~IsWord(reader.item) => /\ ~InSize /\ Taken = reader.sz
                                   /\ Wanted = Len(Wire(reader.item))
        /\ IsWord(reader.item) /\ ~InSize => reader.at \in {"pollword", "readword"}
    BY <1>1, WantedOf
  <2>2. ~IsWord(reader.item)
    BY <1>1, <2>1 DEF SizeT
  <2>3. Wire(reader.item) = <<>> => reader.sz = 0
    BY <1>1 DEF IInv, ReaderWhere
  <2>4. Len(Wire(reader.item)) = 0
    BY <1>1, <2>1, <2>2
  <2>5. Wire(reader.item) = <<>>
    BY <2>1, <2>4
  <2> QED
    BY <2>1, <2>2, <2>3, <2>4, <2>5
<1>3. reader.item \in 1..Total /\ chan \in Seq(Nat) /\ Len(chan) \in Nat
  BY <1>1, Fields DEF IInv
<1>4. Bytes(reader.item) = <<>>
  <2>1. /\ ~IsFd(reader.item)
    BY <1>2, <1>3, WireOf DEF IInv
  <2>2. Bytes(reader.item) = Wire(reader.item)
    BY <1>2, <1>3, <2>1, WireOf DEF IInv
  <2> QED
    BY <1>2, <2>2
<1>5. /\ reader' = [reader EXCEPT !.at = "poll", !.item = @ + 1, !.sz = 0, !.bytes = <<>>]
      /\ got' = Append(got, Bytes(reader.item))
  BY <1>1, <1>2, <1>4 DEF Finished
<1>6. /\ reader' \in [item : 1..(Total + 1), sz : Nat, at : ReaderPlaces, er : Errors,
                      bytes : Seq(Nat)]
      /\ reader'.item = reader.item + 1 /\ reader'.sz = 0 /\ reader'.at = "poll"
      /\ reader'.bytes = <<>>
  BY <1>1, <1>5, ReaderMoves DEF IInv
<1>7. chan' = From(chan, 0 + 1)
  <2> DEFINE d == From(chan, 0 + 1)
  <2>1. 0 \in 0..Len(chan) /\ d = From(chan, 0 + 1)
    BY <1>3
  <2> HIDE DEF d
  <2>2. /\ d \in Seq(Nat) /\ Len(d) = Len(chan) - 0
        /\ \A i \in 1..(Len(chan) - 0) : d[i] = chan[0 + i]
    BY <1>3, <2>1, TheRest
  <2>3. Len(d) = Len(chan) /\ \A i \in 1..Len(chan) : d[i] = chan[i]
    BY <1>3, <2>2
  <2>4. d = chan
    BY <1>3, <2>2, <2>3, SameElements
  <2> QED
    BY <1>1, <2>4 DEF d
<1>8. 0 \in Nat /\ 0 <= Len(chan) /\ Taken + 0 = Len(Wire(reader.item))
  BY <1>2, <1>3
<1>9. UNCHANGED <<script, writer, signals>>
  BY <1>1
<1> QED
  BY <1>1, <1>5, <1>6, <1>7, <1>8, <1>9, FinishedIInv

\* The end where it is well leaves nothing behind.
LEMMA EndsWell ==
  ASSUME TransportAssumption, IInv, ~ReaderGone, reader.item <= Total,
         eofok, reader.sz = 0
  PROVE  Taken = 0 /\ reader.at \in {"poll", "read"}
<1>1. reader.item \in 1..Total
  BY Fields DEF IInv
<1>2. ~IsWord(reader.item)
  BY <1>1, ItemOf DEF IInv, eofok
<1> QED
  BY <1>2, WantedOf

LEMMA PollInIInv ==
  ASSUME TransportAssumption, IInv, PollIn
  PROVE  IInv'
<1>1. /\ reader.item <= Total /\ reader.at \in {"poll", "pollword"} /\ Wanted > 0
      /\ chan # <<>> \/ WriterGone
      /\ UNCHANGED <<script, chan, writer, got, signals>>
      /\ ~ReaderGone
  BY DEF PollIn, Reading, Total, ReaderGone
<1>2. Wire(reader.item) # <<>>
  <2>1. /\ Wire(reader.item) \in Seq(Nat) /\ Len(Wire(reader.item)) > 0
    <3>1. /\ Wanted \in Nat /\ Len(Wire(reader.item)) \in Nat /\ Wire(reader.item) \in Seq(Nat)
          /\ ~IsWord(reader.item) => Wanted = Len(Wire(reader.item))
          /\ InSize => SizeT <= Len(Wire(reader.item))
          /\ IsWord(reader.item) /\ ~InSize => SizeT + Wanted = Len(Wire(reader.item))
      BY <1>1, WantedOf
    <3> QED
      BY <1>1, <3>1 DEF SizeT
  <2> QED
    BY <2>1
<1>3. signals' \in Nat
  BY <1>1, Fields DEF IInv
<1>4. CASE reader' = [reader EXCEPT !.at = IF @ = "poll" THEN "read" ELSE "readword"]
  <2> DEFINE to == IF reader.at = "poll" THEN "read" ELSE "readword"
             er == reader.er
  <2>1. reader' = [reader EXCEPT !.at = to, !.er = er] /\ er \in Errors
    BY <1>4 DEF IInv, TypeOK
  <2>2. /\ to \in {"read", "readword"} /\ to \in ReaderPlaces
        /\ to = "read" => reader.at = "poll"
        /\ to = "readword" => reader.at = "pollword"
    BY <1>1 DEF ReaderPlaces
  <2>3. reader'.at = to /\ reader'.sz = reader.sz
    BY <2>1 DEF IInv, TypeOK
  <2>4. Taken' = Taken
    BY <1>1, <2>2, <2>3 DEF Taken
  <2> HIDE DEF to, er
  <2>5. to \notin {"poll", "pollword"} /\ to # "ended"
    BY <2>2
  <2>6. UNCHANGED <<script, chan, writer, got>>
    BY <1>1
  <2> QED
    BY <1>1, <1>2, <1>3, <2>1, <2>2, <2>4, <2>5, <2>6, ReaderOnlyIInv
<1>5. CASE /\ chan = <<>>
           /\ ReaderEnds(IF eofok /\ reader.sz = 0 THEN "ended" ELSE "failed",
                         IF eofok /\ reader.sz = 0 THEN "KCGI_OK" ELSE "KCGI_FORM")
  <2> DEFINE to == IF eofok /\ reader.sz = 0 THEN "ended" ELSE "failed"
             er == IF eofok /\ reader.sz = 0 THEN "KCGI_OK" ELSE "KCGI_FORM"
  <2>1. reader' = [reader EXCEPT !.at = to, !.er = er]
    BY <1>5 DEF ReaderEnds
  <2>2. to \in {"ended", "failed"} /\ to \in ReaderPlaces /\ er \in Errors
    BY DEF ReaderPlaces, Errors
  <2>3. to = "ended" => eofok /\ reader.sz = 0
    OBVIOUS
  <2> HIDE DEF to, er
  <2>4. to = "ended" => chan = <<>> /\ WriterGone /\ Taken = 0
    BY <1>1, <1>5, <2>3, EndsWell
  <2>5. to \notin {"poll", "pollword", "read", "readword"}
    BY <2>2
  <2>6. UNCHANGED <<script, chan, writer, got>>
    BY <1>1
  <2> QED
    BY <1>1, <1>2, <1>3, <2>1, <2>2, <2>4, <2>5, <2>6, ReaderOnlyIInv
<1> QED
  BY <1>4, <1>5 DEF PollIn

LEMMA ReadEndIInv ==
  ASSUME TransportAssumption, IInv, ReadEnd
  PROVE  IInv'
<1> DEFINE to == IF eofok /\ reader.sz = 0 THEN "ended" ELSE "failed"
           er == IF eofok /\ reader.sz = 0 THEN "KCGI_OK" ELSE "KCGI_FORM"
<1>1. /\ reader.at \in {"read", "readword"} /\ chan = <<>> /\ ~ReaderGone
      /\ UNCHANGED <<script, chan, writer, got, signals>>
      /\ reader' = [reader EXCEPT !.at = to, !.er = er]
  BY DEF ReadEnd, ReaderEnds, ReaderGone
<1>2. reader.item <= Total /\ WriterGone /\ Wire(reader.item) # <<>>
  <2>1. ~(reader.item > Total) /\ (chan # <<>> \/ WriterGone)
    BY <1>1 DEF IInv, ReaderWhere
  <2>2. reader.item <= Total
    BY <2>1, Fields DEF IInv
  <2>3. Wire(reader.item) # <<>>
    BY <1>1, <2>2 DEF IInv, ReaderWhere
  <2> QED
    BY <1>1, <2>1, <2>2, <2>3
<1>3. signals' \in Nat
  BY <1>1, Fields DEF IInv
<1>4. to \in {"ended", "failed"} /\ to \in ReaderPlaces /\ er \in Errors
  BY DEF ReaderPlaces, Errors
<1>5. to = "ended" => eofok /\ reader.sz = 0
  OBVIOUS
<1> HIDE DEF to, er
<1>6. to = "ended" => Taken = 0
  BY <1>1, <1>2, <1>5, EndsWell
<1>7. to \notin {"poll", "pollword", "read", "readword"}
  BY <1>4
<1>8. UNCHANGED <<script, chan, writer, got>>
  BY <1>1
<1> QED
  BY <1>1, <1>2, <1>3, <1>4, <1>6, <1>7, <1>8, ReaderOnlyIInv

LEMMA ReaderStopsIInv ==
  ASSUME TransportAssumption, IInv, ReaderDone \/ PollInSignal \/ ReaderGivesUp
  PROVE  IInv'
<1>1. /\ UNCHANGED <<script, chan, writer, got>> /\ signals' \in Nat /\ ~ReaderGone
  BY Fields DEF ReaderDone, PollInSignal, ReaderGivesUp, Reading, ReaderGone, IInv
<1>2. PICK to \in {"ended", "failed"}, er \in Errors :
         /\ reader' = [reader EXCEPT !.at = to, !.er = er]
         /\ to = "ended" => reader.item > Total
  <2>1. CASE ReaderDone
    BY <2>1 DEF ReaderDone, ReaderEnds, Errors, Total
  <2>2. CASE PollInSignal
    BY <2>2 DEF PollInSignal, ReaderEnds, Errors
  <2>3. CASE ReaderGivesUp
    BY <2>3 DEF ReaderGivesUp, ReaderEnds, Errors
  <2> QED
    BY <2>1, <2>2, <2>3
<1>3. to \in ReaderPlaces /\ to \notin {"poll", "pollword", "read", "readword"}
  BY DEF ReaderPlaces
<1> QED
  BY <1>1, <1>2, <1>3, ReaderOnlyIInv

LEMMA WriterStopsIInv ==
  ASSUME TransportAssumption, IInv, WriterDone \/ PollOut \/ PollOutSignal \/ WriterDies
  PROVE  IInv'
<1>1. /\ UNCHANGED <<script, chan, reader, got>> /\ signals' \in Nat /\ ~WriterGone
  BY Fields DEF WriterDone, PollOut, PollOutSignal, WriterDies, MayWrite, WriterGone, IInv
<1>2. PICK to \in {"write", "exited", "failed", "killed"}, er \in Errors :
         /\ writer' = [writer EXCEPT !.at = to, !.er = er]
         /\ to = "exited" => writer.item > Total
         /\ to = "write" => writer.item <= Total /\ Wire(writer.item) # <<>>
  <2>1. CASE WriterDone
    BY <2>1 DEF WriterDone, WriterEnds, Errors, Total
  <2>2. CASE PollOut /\ WriterEnds("failed", "KCGI_HUP")
    BY <2>2 DEF WriterEnds, Errors
  <2>3. CASE PollOut /\ writer' = [writer EXCEPT !.at = "write"]
    <3>1. writer' = [writer EXCEPT !.at = "write", !.er = writer.er] /\ writer.er \in Errors
      BY <2>3 DEF IInv, TypeOK
    <3>2. writer.item <= Total /\ Wire(writer.item) # <<>>
      BY <2>3 DEF PollOut, MayWrite, Total
    <3> QED
      BY <3>1, <3>2
  <2>4. CASE PollOutSignal \/ WriterDies
    BY <2>4 DEF PollOutSignal, WriterDies, WriterEnds, Errors
  <2> QED
    BY <2>1, <2>2, <2>3, <2>4 DEF PollOut
<1> QED
  BY <1>1, <1>2, WriterOnlyIInv

-----------------------------------------------------------------------------
(* The theorems.                                                           *)

LEMMA InitIInv ==
  ASSUME TransportAssumption, TInit
  PROVE  IInv
<1>1. Total \in Nat
  BY DEF TInit, TransportAssumption, Total
<1>2. TypeOK
  BY <1>1 DEF TInit, TypeOK, WriterPlaces, ReaderPlaces, Errors
<1>3. 1 <= Total => /\ Wire(1) \in Seq(Nat) /\ SubSeq(Wire(1), 1, 0) = <<>>
                    /\ Wire(1) # <<>> => 0 < Len(Wire(1))
  <2>1. SUFFICES ASSUME 1 \in 1..Total
                 PROVE  /\ Wire(1) \in Seq(Nat) /\ SubSeq(Wire(1), 1, 0) = <<>>
                        /\ Wire(1) # <<>> => 0 < Len(Wire(1))
    BY <1>1
  <2>2. Wire(1) \in Seq(Nat)
    BY <1>2, <2>1, WireOf
  <2> QED
    BY <2>2
<1>4. WriterWhere
  BY <1>3 DEF TInit, WriterWhere
<1>5. Taken = 0 /\ ~ReaderGone
  BY DEF TInit, Taken, ReaderGone
<1>6. ReaderWhere
  BY <1>3, <1>5 DEF TInit, ReaderWhere, SizeT
<1>7. Stream
  <2>1. Holds(Wires, Lengths, 1, 1, 0, 0, chan, 0)
    BY HoldsNone
  <2>2. Len(chan) = 0
    BY DEF TInit
  <2> QED
    BY <1>5, <2>1, <2>2 DEF TInit, Stream
<1>8. GotAll
  BY DEF TInit, GotAll
<1>9. AtEnd
  BY DEF TInit, AtEnd
<1> QED
  BY <1>2, <1>4, <1>6, <1>7, <1>8, <1>9 DEF IInv

LEMMA NextIInv ==
  ASSUME TransportAssumption, IInv, [TNext]_tvars
  PROVE  IInv'
<1>1. CASE Write
  BY <1>1, WriterStopsIInv, SkipEmptyIInv, WriteSomeIInv, SendDescriptorIInv DEF Write
<1>2. CASE Read
  BY <1>2, ReaderStopsIInv, ReadNothingIInv, PollInIInv, ReadSomeIInv, TakeDescriptorIInv,
     ReadEndIInv DEF Read
<1>3. CASE Mishap
  BY <1>3, WriterStopsIInv, ReaderStopsIInv DEF Mishap
<1>4. CASE UNCHANGED tvars
  <2>1. /\ script' = script /\ chan' = chan /\ writer' = writer /\ reader' = reader
        /\ got' = got /\ signals' = signals
    BY <1>4 DEF tvars
  <2>2. Taken' = Taken /\ (ReaderGone' <=> ReaderGone) /\ (WriterGone' <=> WriterGone)
    BY <2>1 DEF Taken, ReaderGone, WriterGone
  <2>3. Stream'
    BY <2>1, <2>2, StreamKept DEF IInv
  <2>4. TypeOK' /\ WriterWhere' /\ GotAll'
    BY <2>1, ScriptKept DEF IInv, TypeOK, WriterWhere, GotAll
  <2>5. ReaderWhere'
    BY <2>1, <2>2, ScriptKept DEF IInv, ReaderWhere
  <2>6. AtEnd'
    BY <2>1, <2>2, ScriptKept DEF IInv, AtEnd, EmptyFrom
  <2> QED
    BY <2>3, <2>4, <2>5, <2>6 DEF IInv
<1> QED
  BY <1>1, <1>2, <1>3, <1>4 DEF TNext

\* Whatever was said of a state above is so in every state: where each side is in
\* its item, and that the socket holds what is written and not read.
THEOREM TransportInvariance ==
  ASSUME TransportAssumption
  PROVE  TSpec => []IInv
<1>1. TInit => IInv
  BY InitIInv
<1>2. IInv /\ [TNext]_tvars => IInv'
  BY NextIInv
<1> QED
  BY <1>1, <1>2, PTL DEF TSpec

\* What is read is what was written, item by item, however the bytes were cut; an
\* end that is taken for a good one loses no beginning of an item, and between two
\* sides that both end well nothing is lost (wrappers.c:220-490, 500-631).
THEOREM WholeItemsHolds ==
  ASSUME TransportAssumption
  PROVE  TSpec => []WholeItems
<1>1. IInv => WholeItems
  <2>1. SUFFICES ASSUME IInv PROVE WholeItems
    OBVIOUS
  <2>2. /\ Total \in Nat /\ reader.item \in 1..(Total + 1) /\ writer.item \in 1..(Total + 1)
        /\ Len(got) \in Nat /\ got \in Seq(Seq(Nat))
    BY <2>1, Fields DEF IInv
  <2>3. Len(got) = reader.item - 1 /\ \A k \in 1..Len(got) : got[k] = Bytes(k)
    BY <2>1 DEF IInv, GotAll
  <2>4. IsPrefix(got, Items)
    <3>1. Items \in Seq(Seq(Nat)) /\ Len(Items) = Total /\ \A k \in 1..Total : Items[k] = Bytes(k)
      <4>1. \A k \in 1..Total : Bytes(k) \in Seq(Nat)
        BY <2>1, ItemOf DEF IInv
      <4> QED
        BY <2>2, <4>1 DEF Items, Total
    <3> HIDE DEF Items
    <3>2. Len(got) <= Len(Items) /\ \A k \in 1..Len(got) : k \in 1..Total /\ got[k] = Items[k]
      BY <2>2, <2>3, <3>1
    <3>3. SubSeq(got, 1, Len(got)) = SubSeq(Items, 1, Len(got))
      <4> DEFINE n == Len(got)
                 a == SubSeq(got, 1, n)
                 b == SubSeq(Items, 1, n)
      <4>1. n \in Nat /\ n <= Len(Items) /\ Len(Items) \in Nat /\ n = Len(got)
        BY <2>2, <3>1, <3>2
      <4>2. /\ a \in Seq(Seq(Nat)) /\ Len(a) = n /\ \A i \in 1..n : a[i] = got[i]
        BY <2>2, <4>1, SubSeqProperties
      <4>3. /\ b \in Seq(Seq(Nat)) /\ Len(b) = n /\ \A i \in 1..n : b[i] = Items[i]
        BY <3>1, <4>1, SubSeqProperties
      <4>4. \A i \in 1..n : a[i] = b[i]
        BY <3>2, <4>2, <4>3
      <4> HIDE DEF a, b, n
      <4>5. a = b
        BY <4>2, <4>3, <4>4, SeqEqual
      <4> QED
        BY <4>5 DEF a, b, n
    <3> QED
      BY <3>2, <3>3 DEF IsPrefix
  <2>5. reader.at = "ended" /\ reader.item <= Total =>
          /\ WriterGone /\ writer.item <= reader.item /\ writer.sz = 0
          /\ \A k \in writer.item..(reader.item - 1) : Wire(k) = <<>>
    <3>1. SUFFICES ASSUME reader.at = "ended", reader.item <= Total
                   PROVE  /\ WriterGone /\ writer.item <= reader.item /\ writer.sz = 0
                          /\ \A k \in writer.item..(reader.item - 1) : Wire(k) = <<>>
      OBVIOUS
    <3>2. ~(reader.item > Total)
      BY <2>2, <3>1
    <3>3. /\ WriterGone /\ writer.item <= reader.item /\ writer.sz = 0
          /\ EmptyFrom(writer.item, reader.item)
      BY <2>1, <3>1, <3>2 DEF IInv, AtEnd
    <3>4. ASSUME NEW k \in writer.item..(reader.item - 1) PROVE Wire(k) = <<>>
      <4>1. k \in Int /\ writer.item <= k /\ k < reader.item
        BY <2>2
      <4> QED
        BY <3>3, <4>1 DEF EmptyFrom
    <3> QED
      BY <3>3, <3>4
  <2>6. reader.at = "ended" /\ writer.at = "exited" => Len(got) = Total
    <3>1. SUFFICES ASSUME reader.at = "ended", writer.at = "exited" PROVE Len(got) = Total
      OBVIOUS
    <3>2. writer.item > Total
      BY <2>1, <3>1 DEF IInv, WriterWhere
    <3>3. reader.item > Total \/ writer.item <= reader.item
      BY <2>1, <3>1 DEF IInv, AtEnd
    <3> QED
      BY <2>2, <2>3, <3>2, <3>3
  <2> QED
    BY <2>4, <2>5, <2>6 DEF WholeItems, Total
<1> QED
  BY <1>1, TransportInvariance, PTL

=============================================================================

-------------------------------- MODULE Transport --------------------------------
(***************************************************************************)
(* Words, numbers and descriptors through a socket (src/wrappers.c): one   *)
(* process writes a script of them with fullwrite, fullwriteword,          *)
(* fullwritenoerr or fullwritefd, the other reads them with fullread,      *)
(* fullreadword or fullreadfd, byte by byte as the kernel likes, while     *)
(* either may go away at any time.                                         *)
(***************************************************************************)
EXTENDS CString

CONSTANTS
  Scripts,     \* sequences of items to write and read
  Base,        \* bytes are 0..Base-1; Base and more with a descriptor
  Room,        \* what the socket holds
  MaxSignals   \* bound: polls that a signal interrupts

\* What is read as a word or with a descriptor never may be the end, and a
\* descriptor comes with a byte at least, as fullwritefd asserts.
TransportAssumption ==
  /\ Base \in Nat \ {0} /\ Room \in Nat \ {0} /\ MaxSignals \in Nat
  /\ Scripts \subseteq Seq([how : {"word", "number", "noerr", "fd"}, bytes : Seq(0..(Base - 1)),
                           eofok : BOOLEAN])
  /\ \A items \in Scripts : \A k \in DOMAIN items :
       /\ items[k].how = "word" => ~items[k].eofok /\ Len(items[k].bytes) < Base * Base
       /\ items[k].how = "fd" => items[k].bytes # <<>>

VARIABLES
  script,    \* the items: how they are written, what bytes, whether it may be the last
  chan,      \* bytes in the socket
  writer,    \* item, what of it is written, where in the loop it is
  reader,    \* the same of the reading side, with what it has got
  got,       \* the items read
  signals

tvars == <<script, chan, writer, reader, got, signals>>

SizeT == 2    \* bytes of a size_t
AsBytes(n) == <<n % Base, n \div Base>>
AsSize(b) == b[1] + Base * b[2]

Bytes(k) == script[k].bytes
IsWord(k) == script[k].how = "word"
IsFd(k) == script[k].how = "fd"

\* The message of fullwritefd: the descriptor goes with its first byte.
WithDescriptor(bytes) == [bytes EXCEPT ![1] = @ + Base]

\* fullwriteword: the size, then the bytes; a null pointer is the empty word.
Wire(k) ==
  IF IsWord(k) THEN AsBytes(Len(Bytes(k))) \o Bytes(k)
  ELSE IF IsFd(k) THEN WithDescriptor(Bytes(k)) ELSE Bytes(k)
\* What one call of fullwrite writes: it ends with the size of a word.
CallEnd(k, sz) == IF IsWord(k) /\ sz < SizeT THEN SizeT ELSE Len(Wire(k))

TInit ==
  /\ script \in Scripts
  /\ chan = <<>>
  /\ writer = [item |-> 1, sz |-> 0, at |-> "poll", er |-> "KCGI_OK"]
  /\ reader = [item |-> 1, sz |-> 0, at |-> "poll", er |-> "KCGI_OK", bytes |-> <<>>]
  /\ got = <<>>
  /\ signals = 0

WriterGone == writer.at \in {"exited", "failed", "killed"}
ReaderGone == reader.at \in {"ended", "failed"}

-----------------------------------------------------------------------------
(* The writer.                                                             *)

Quiet == script[writer.item].how = "noerr"

WriterEnds(how, er) ==
  writer' = [writer EXCEPT !.at = how, !.er = er]

WriterDone ==
  /\ writer.at = "poll" /\ writer.item > Len(script)
  /\ WriterEnds("exited", "KCGI_OK")
  /\ UNCHANGED <<script, chan, reader, got, signals>>

\* An empty write is no write.
SkipEmpty ==
  /\ writer.at = "poll" /\ writer.item <= Len(script)
  /\ Wire(writer.item) = <<>>
  /\ writer' = [writer EXCEPT !.item = @ + 1]
  /\ UNCHANGED <<script, chan, reader, got, signals>>

MayWrite == writer.at = "poll" /\ writer.item <= Len(script) /\ Wire(writer.item) # <<>>

PollOut ==
  /\ MayWrite
  /\ ReaderGone \/ Len(chan) < Room
  /\ \/ ReaderGone /\ WriterEnds("failed", "KCGI_HUP")
     \* fullwritefd looks for POLLOUT only, which a hang-up may come with.
     \/ (~ReaderGone \/ IsFd(writer.item))
        /\ writer' = [writer EXCEPT !.at = "write"]
  /\ UNCHANGED <<script, chan, reader, got, signals>>

\* poll fails with EINTR, which is not tried again.
PollOutSignal ==
  /\ MayWrite /\ signals < MaxSignals
  /\ signals' = signals + 1
  /\ WriterEnds("failed", "KCGI_SYSTEM")
  /\ UNCHANGED <<script, chan, reader, got>>

\* sendmsg: all of the message, and the descriptor with it.
SendDescriptor ==
  /\ writer.at = "write" /\ IsFd(writer.item)
  /\ IF ReaderGone THEN WriterEnds("killed", "KCGI_HUP") /\ UNCHANGED chan
     ELSE /\ Len(chan) + Len(Wire(writer.item)) <= Room
          /\ chan' = chan \o Wire(writer.item)
          /\ writer' = [writer EXCEPT !.item = @ + 1, !.at = "poll"]
  /\ UNCHANGED <<script, reader, got, signals>>

\* After poll the reader may have gone: a signal then ends fullwrite's process,
\* while fullwritenoerr ignores it and returns.
WriteSome ==
  /\ writer.at = "write" /\ ~IsFd(writer.item)
  /\ IF ReaderGone
     THEN /\ WriterEnds(IF Quiet THEN "failed" ELSE "killed", "KCGI_HUP")
          /\ UNCHANGED chan
     ELSE LET wire == Wire(writer.item)
          IN \E n \in 1..(CallEnd(writer.item, writer.sz) - writer.sz) :
               /\ Len(chan) + n <= Room
               /\ chan' = chan \o SubSeq(wire, writer.sz + 1, writer.sz + n)
               /\ writer' = IF writer.sz + n = Len(wire)
                            THEN [writer EXCEPT !.item = @ + 1, !.sz = 0, !.at = "poll"]
                            ELSE [writer EXCEPT !.sz = @ + n, !.at = "poll"]
  /\ UNCHANGED <<script, reader, got, signals>>

WriterDies ==
  /\ ~WriterGone
  /\ WriterEnds("killed", "KCGI_SYSTEM")
  /\ UNCHANGED <<script, chan, reader, got, signals>>

-----------------------------------------------------------------------------
(* The reader.                                                             *)

\* The bytes the running call of fullread waits for.
InSize == IsWord(reader.item) /\ reader.at \in {"poll", "read"}
Wanted ==
  IF ~IsWord(reader.item) THEN Len(Bytes(reader.item))
  ELSE IF InSize THEN SizeT ELSE AsSize(SubSeq(reader.bytes, 1, SizeT))

\* fullreadfd always takes the end for a hang-up of the other side.
eofok == script[reader.item].eofok \/ IsFd(reader.item)
Reading == reader.item <= Len(script) /\ reader.at \in {"poll", "pollword"}

ReaderEnds(how, er) == reader' = [reader EXCEPT !.at = how, !.er = er]

\* At the end of the call: the number, or the word, or now the word's bytes.
Finished(bytes) ==
  IF InSize /\ AsSize(bytes) > 0
  THEN /\ reader' = [reader EXCEPT !.at = "pollword", !.sz = 0, !.bytes = bytes]
       /\ UNCHANGED got
  ELSE /\ reader' = [reader EXCEPT !.at = "poll", !.item = @ + 1, !.sz = 0, !.bytes = <<>>]
       /\ got' = Append(got, IF IsWord(reader.item) THEN From(bytes, SizeT + 1) ELSE bytes)

ReaderDone ==
  /\ reader.at = "poll" /\ reader.item > Len(script)
  /\ ReaderEnds("ended", "KCGI_OK")
  /\ UNCHANGED <<script, chan, writer, got, signals>>

\* Nothing is wanted: the loop is not entered.
ReadNothing ==
  /\ Reading /\ reader.at = "poll" /\ Wanted = 0
  /\ Finished(<<>>)
  /\ UNCHANGED <<script, chan, writer, signals>>

PollIn ==
  /\ Reading /\ Wanted > 0
  /\ chan # <<>> \/ WriterGone
  /\ \/ reader' = [reader EXCEPT !.at = IF @ = "poll" THEN "read" ELSE "readword"]
     \* A hang-up may come without POLLIN.
     \/ /\ chan = <<>>
        /\ ReaderEnds(IF eofok /\ reader.sz = 0 THEN "ended" ELSE "failed",
                      IF eofok /\ reader.sz = 0 THEN "KCGI_OK" ELSE "KCGI_FORM")
  /\ UNCHANGED <<script, chan, writer, got, signals>>

PollInSignal ==
  /\ Reading /\ Wanted > 0 /\ signals < MaxSignals
  /\ signals' = signals + 1
  /\ ReaderEnds("failed", "KCGI_SYSTEM")
  /\ UNCHANGED <<script, chan, writer, got>>

\* recvmsg: one message, which must have come with a descriptor.
TakeDescriptor ==
  /\ reader.at = "read" /\ chan # <<>> /\ IsFd(reader.item)
  /\ chan' = From(chan, Wanted + 1)
  /\ IF chan[1] >= Base THEN Finished([SubSeq(chan, 1, Wanted) EXCEPT ![1] = @ - Base])
     ELSE ReaderEnds("failed", "KCGI_SYSTEM") /\ UNCHANGED got
  /\ UNCHANGED <<script, writer, signals>>

ReadSome ==
  /\ reader.at \in {"read", "readword"} /\ chan # <<>> /\ ~IsFd(reader.item)
  /\ \E n \in 1..(IF Wanted - reader.sz < Len(chan) THEN Wanted - reader.sz ELSE Len(chan)) :
       LET bytes == reader.bytes \o SubSeq(chan, 1, n)
       IN /\ chan' = From(chan, n + 1)
          /\ IF reader.sz + n = Wanted THEN Finished(bytes)
             ELSE /\ reader' = [reader EXCEPT !.sz = @ + n, !.bytes = bytes,
                                              !.at = IF @ = "read" THEN "poll" ELSE "pollword"]
                  /\ UNCHANGED got
  /\ UNCHANGED <<script, writer, signals>>

\* A mutant: well wherever the caller allows the end, in an item too.
ReadEnd_Anywhere ==
  /\ reader.at \in {"read", "readword"} /\ chan = <<>>
  /\ ReaderEnds(IF eofok THEN "ended" ELSE "failed", IF eofok THEN "KCGI_OK" ELSE "KCGI_FORM")
  /\ UNCHANGED <<script, chan, writer, got, signals>>

\* The end of the stream: well only before the first byte, and where the caller
\* expects it.
ReadEnd ==
  /\ reader.at \in {"read", "readword"} /\ chan = <<>>
  /\ LET fine == eofok /\ reader.sz = 0
     IN ReaderEnds(IF fine THEN "ended" ELSE "failed", IF fine THEN "KCGI_OK" ELSE "KCGI_FORM")
  /\ UNCHANGED <<script, chan, writer, got, signals>>

\* The word's memory cannot be allocated, or the parent gives up between items.
ReaderGivesUp ==
  /\ reader.at \in {"poll", "pollword"} /\ reader.sz = 0
  /\ ReaderEnds("failed", "KCGI_ENOMEM")
  /\ UNCHANGED <<script, chan, writer, got, signals>>

Write == WriterDone \/ SkipEmpty \/ PollOut \/ WriteSome \/ SendDescriptor
Read == ReaderDone \/ ReadNothing \/ PollIn \/ ReadSome \/ TakeDescriptor \/ ReadEnd
Mishap == PollOutSignal \/ WriterDies \/ PollInSignal \/ ReaderGivesUp
TNext == Write \/ Read \/ Mishap

\* Each process goes on as long as it is not in poll(2) with nothing to do;
\* none has to die.
TFairness == WF_tvars(Write) /\ WF_tvars(Read)
TSpec == TInit /\ [][TNext]_tvars /\ TFairness

-----------------------------------------------------------------------------
Items == [k \in 1..Len(script) |-> Bytes(k)]

\* What a read returns is what was written, item by item, however the kernel cut
\* it and whoever went away when; a reader that ends well has not lost the
\* beginning of an item either (but for empty ones there is none left, nor has the
\* writer begun one), and if both sides were done it has them all
\* (wrappers.c:220-490, 500-631).
WholeItems ==
  /\ IsPrefix(got, Items)
  /\ reader.at = "ended" /\ reader.item <= Len(script) =>
       /\ WriterGone /\ writer.item <= reader.item /\ writer.sz = 0
       /\ \A k \in writer.item..(reader.item - 1) : Wire(k) = <<>>
  /\ reader.at = "ended" /\ writer.at = "exited" => Len(got) = Len(script)

\* Neither waits for ever for the other, or for one that has gone.
BothEnded == WriterGone /\ ReaderGone

=============================================================================

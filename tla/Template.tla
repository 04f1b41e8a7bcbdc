-------------------------------- MODULE Template --------------------------------
(***************************************************************************)
(* Templates (src/template.c) written to a buffer, the generic writer that *)
(* the library has for them.  i is the index of the loop, from 0 as in C.  *)
(***************************************************************************)
EXTENDS Buffer

CONSTANTS Texts,       \* the templates
          Keys,        \* the keys of t
          Value(_),    \* what the callback writes for the n-th
          Fallback(_), \* what the fall-back writes for a key sequence
          MaxRuns, MaxPuts     \* calls of a template, other writes to the buffer

VARIABLES call,    \* the running call, as it was made
          i, at,   \* the loop's index and where in it the code is
          buf, er, \* the buffer and the last result
          start,   \* what was in the buffer when the call began
          runs     \* calls made so far, of both kinds

vars == <<call, i, at, buf, er, start, runs>>

sz == Len(call.text)
Byte(k) == call.text[k + 1]
\* The bytes from a up to the one before b.
Bytes(a, b) == SubSeq(call.text, a + 1, b)
\* Two at-signs.  The code reads a byte past the last here, but with whatever it
\* finds there the last character goes out as it is.
Pair(k) == k + 1 < sz /\ Byte(k) = At /\ Byte(k + 1) = At

Init ==
  /\ call = [text |-> <<>>, keys |-> FALSE, fbk |-> FALSE, file |-> "none"]
  /\ i = 0 /\ at = "idle" /\ buf = Empty /\ er = "KCGI_OK" /\ start = <<>>
  /\ runs = [template |-> 0, put |-> 0]

\* khttp_templatex_buf, and khttp_templatex and khttp_templatex_fd, which map
\* the file first and may not be able to.
Begin ==
  /\ at = "idle" /\ runs.template < MaxRuns
  /\ \E text \in Texts, keys, fbk \in BOOLEAN, file \in {"none", "mapped", "unreadable"} :
       /\ keys \/ ~fbk     \* t is not null where there is a fall-back
       /\ call' = [text |-> text, keys |-> keys, fbk |-> fbk, file |-> file]
       /\ IF file = "unreadable" THEN at' = "done" /\ er' = "KCGI_SYSTEM"
          ELSE IF text = <<>> THEN at' = "done" /\ er' = "KCGI_OK"
          ELSE at' = (IF keys THEN "scan" ELSE "copy") /\ er' = "KCGI_OK"
  /\ i' = 0 /\ start' = buf.text /\ runs' = [runs EXCEPT !.template = @ + 1]
  /\ UNCHANGED buf

\* fp: stop at the first error, otherwise go on.
Write(s, goto, next) ==
  \E mem \in BOOLEAN :
    LET w == kcgi_buf_write(buf, s, mem)
    IN /\ buf' = w.buf /\ er' = w.er
       /\ IF w.er = "KCGI_OK" THEN at' = goto /\ i' = next
          ELSE at' = "done" /\ i' = i
       /\ UNCHANGED <<call, start, runs>>

\* Without keys the text goes out as it is.
Copy == at = "copy" /\ Write(call.text, "done", i)

Special(c) == c \in {Backslash, At}

\* The head of the loop: what is before the next significant character.
ReadAhead ==
  /\ at = "scan" /\ i < sz - 1
  /\ LET j == Scan(Bytes(0, sz - 1), i + 1, Special) - 1
     IN Write(Bytes(i, j), "mark", j)

\* After it, what is left: at most the last character.
Last1 ==
  /\ at = "scan" /\ i >= sz - 1
  /\ Write(IF i < sz THEN Bytes(i, i + 1) ELSE <<>>, "done", i)

EscapedPair(k) == k < sz - 2 /\ Byte(k) = Backslash /\ Pair(k + 1)

Escaped ==
  /\ at = "mark" /\ EscapedPair(i)
  /\ Write(Bytes(i + 1, i + 3), "scan", i + 3)

\* A mutant: a sequence at the end of the text is not seen.
SequenceEnd_OneShort(k) ==
  LET ends == {e \in (k + 2)..(sz - 3) : Pair(e)}
  IN IF ends = {} THEN sz - 1 ELSE CHOOSE e \in ends : \A f \in ends : e <= f

\* The end of the key sequence that begins at k, or sz - 1.
SequenceEnd(k) ==
  LET ends == {e \in (k + 2)..(sz - 2) : Pair(e)}
  IN IF ends = {} THEN sz - 1 ELSE CHOOSE e \in ends : \A f \in ends : e <= f

IsSequence(k) == Pair(k) /\ SequenceEnd(k) < sz - 1
Key(k) == Bytes(k + 2, SequenceEnd(k))
Known(key) == \E n \in 1..Len(Keys) : Keys[n] = key

\* Anything that is not a sequence to replace is one character, and the search
\* goes on behind that, within an unknown sequence too.
Opaque ==
  /\ at = "mark" /\ ~EscapedPair(i)
  /\ ~IsSequence(i) \/ (~Known(Key(i)) /\ ~call.fbk)
  /\ Write(Bytes(i, i + 1), "scan", i + 1)

\* A callback that answers 0 stops the template.
Replaced(s) ==
  \/ Write(s, "scan", SequenceEnd(i) + 2)
  \/ er' = "KCGI_FORM" /\ at' = "done" /\ UNCHANGED <<call, i, buf, start, runs>>

Callback ==
  /\ at = "mark" /\ ~EscapedPair(i) /\ IsSequence(i) /\ Known(Key(i))
  /\ Replaced(Value(SelectInSeq(Keys, LAMBDA key : key = Key(i))))

FallBack ==
  /\ at = "mark" /\ ~EscapedPair(i) /\ IsSequence(i) /\ ~Known(Key(i)) /\ call.fbk
  /\ Replaced(Fallback(Key(i)))

\* The application looks at the result and may write to the buffer itself.
Return ==
  /\ at = "done"
  /\ at' = "idle"
  /\ UNCHANGED <<call, i, buf, er, start, runs>>

Put ==
  /\ at = "idle" /\ runs.put < MaxPuts
  /\ \E mem, printed \in BOOLEAN, s \in {<<>>, <<65>>} :
       \E w \in {kcgi_buf_puts(buf, s, mem), kcgi_buf_printf(buf, s, printed, mem),
                 kcgi_buf_putc(buf, 65, mem)} :
         buf' = w.buf /\ er' = w.er
  /\ runs' = [runs EXCEPT !.put = @ + 1]
  /\ UNCHANGED <<call, i, at, start>>

Next == \/ Begin \/ Copy \/ ReadAhead \/ Last1 \/ Escaped \/ Opaque
        \/ Callback \/ FallBack \/ Return \/ Put
Spec == Init /\ [][Next]_vars

-----------------------------------------------------------------------------
\* What the manual makes of the text s from position k on: an escaped pair is a
\* pair (khttp_template.3:144-148), a known key sequence what the callback
\* writes, or an unknown one the fall-back (106-113); an unknown one without a
\* fall-back "is passed unchanged" (110-113), and anything else is itself.  A
\* sequence ends with the first pair, escaped or not (149-150).
Ends(s, k) == {e \in (k + 2)..(Len(s) - 1) :
                 s[k] = At /\ s[k + 1] = At /\ s[e] = At /\ s[e + 1] = At}
KeyEnd(s, k) == CHOOSE e \in Ends(s, k) : \A f \in Ends(s, k) : e <= f
IsEscape(s, k) == k + 2 <= Len(s) /\ SubSeq(s, k, k + 2) = <<Backslash, At, At>>
KeyAt(s, k) == SubSeq(s, k + 2, KeyEnd(s, k) - 1)
IsMark(s, k) == IsEscape(s, k) \/ (Ends(s, k) # {} /\ Known(KeyAt(s, k)))
Piece(s, k) ==
  LET key == KeyAt(s, k)
  IN IF IsEscape(s, k) THEN [says |-> <<At, At>>, next |-> k + 3]
     ELSE IF Ends(s, k) = {} THEN [says |-> <<s[k]>>, next |-> k + 1]
     ELSE [says |-> IF Known(key) THEN Value(SelectInSeq(Keys, LAMBDA x : x = key))
                    ELSE IF call.fbk THEN Fallback(key)
                    ELSE SubSeq(s, k, KeyEnd(s, k) + 1),
           next |-> KeyEnd(s, k) + 2]
Expansion(s) ==
  LET E[k \in 1..(Len(s) + 2)] ==
        IF k > Len(s) THEN <<>> ELSE Piece(s, k).says \o E[Piece(s, k).next]
  IN E[1]

\* The code passes on one character of an unknown sequence and then reads what
\* is left of it as text (template.c:156-167), where an escaped pair or a known
\* sequence may begin: it has its closing pair in common with the unknown one.
\* Not so the manual.
MarkInUnknown(s) ==
  LET U[k \in 1..(Len(s) + 2)] ==
        /\ k <= Len(s)
        /\ LET next == Piece(s, k).next
           IN \/ /\ Ends(s, k) # {} /\ ~IsMark(s, k) /\ ~call.fbk
                 /\ \E j \in (k + 1)..(next - 1) : IsMark(s, j)
              \/ U[next]
  IN U[1]

\* A template that returns well has written what the manual says after what was
\* there, and one that does not has written a beginning of that: nothing is
\* lost, repeated or out of place (template.c:58-170, kcgi.c:1387-1427).
AsManual ==
  LET whole == start \o (IF call.keys THEN Expansion(call.text) ELSE call.text)
  IN /\ at # "idle" => IsPrefix(buf.text, whole)
     /\ at = "done" /\ er = "KCGI_OK" => buf.text = whole

\* What is in a buffer, its NUL included, is in memory that was allocated, as
\* kcgi_buf_write's manual has it of maxsz.  When memory runs out the new size is
\* noted all the same (kcgi.c:1406-1411), and whoever goes on writing then writes
\* behind it: the buffer is only good as long as the two agree.
BufferHolds ==
  buf.maxsz = buf.memory /\ buf.text # <<>> => Len(buf.text) + 1 <= buf.memory

\* Both, but for the texts that code and manual read differently: TLC finds
\* AsManual violated by these (template_bad_unknown).
TemplateExpands == BufferHolds /\ (AsManual \/ (call.keys /\ MarkInUnknown(call.text)))

=============================================================================

----------------------------------- MODULE Log -----------------------------------
(***************************************************************************)
(* The log (src/logging.c): what an application that calls kutil_log and   *)
(* its kin finds in the file.  The date and the other words in front of a  *)
(* message are one symbol each; INFO and so on are the level.              *)
(***************************************************************************)
EXTENDS CString

CONSTANTS Messages,    \* what fmt and its arguments give
          Remotes,     \* r->remote
          Idents, Error, \* the ident; the text of errno
          MaxCalls

VARIABLES stream,   \* "stderr", or the file it was reopened to, or "closed"
          file,     \* what has been written
          said,     \* what was composed for the last call, before it is filtered
          calls, exited

vars == <<stream, file, said, calls, exited>>

Date == 201
Level(l) == IF l = "INFO" THEN 202 ELSE IF l = "WARN" THEN 203 ELSE 204

Dash == <<Minus>>
Open == 91
Close == 93

Init ==
  stream = "stderr" /\ file = <<>> /\ said = <<>> /\ calls = 0 /\ exited = FALSE

\* isprint(3), and the words.
Plain == 32..126 \cup 201..204

\* \a \b \f \n \r \t \v and NUL become a backslash and a letter.
Escapes == (7 :> 97) @@ (8 :> 98) @@ (12 :> 102) @@ (LF :> 110) @@ (CR :> 114)
           @@ (TAB :> 116) @@ (11 :> 118) @@ (NUL :> 48)

Filtered(c) == IF c \in DOMAIN Escapes THEN <<Backslash, Escapes[c]>>
               ELSE IF c \in Plain THEN <<c>> ELSE <<Question>>

\* A mutant: no room for what grows.
MessageSize_Unescaped(cmp, err) ==
  Len(cmp) + 2 + (IF err = <<>> THEN 0 ELSE 2 + Len(err))

\* The characters that grow and are counted.
Counted == {LF, CR, TAB}

\* What is allocated: room for the white space that grows, ": " and the error,
\* a newline and a NUL.
MessageSize(cmp, err) ==
  Len(cmp) + 2
  + Cardinality({k \in 1..Len(cmp) : cmp[k] \in Counted})
  + (IF err = <<>> THEN 0 ELSE 2 + Len(err))

\* strlcat: what fits into the size, NUL included.
Appended(msg, s, size) ==
  IF Len(msg) >= size THEN msg
  ELSE msg \o SubSeq(s, 1, IF Len(s) < size - Len(msg) THEN Len(s) ELSE size - Len(msg) - 1)

\* What is null is a dash.
OrDash(s) == IF s = <<>> THEN Dash ELSE s

\* cmp before it is filtered.  fmt may have put a NUL into var ("%c"), but "%s"
\* ends there.
Composed(remote, ident, level, message) ==
  OrDash(remote) \o <<SP>> \o OrDash(ident) \o <<SP, Open, Date, Close, SP, Level(level), SP>>
    \o (IF message = <<>> THEN Dash ELSE Cut(message, 1, Scan(message, 1, LAMBDA c : c = NUL)))

FilteredText(cmp) == FlattenSeq([k \in 1..Len(cmp) |-> Filtered(cmp[k])])

logmsg(cmp, err) ==
  LET size == MessageSize(cmp, err)
      msg == FilteredText(cmp)
      whole == IF err = <<>> THEN msg ELSE Appended(Appended(msg, <<Colon, SP>>, size), err, size)
  IN Appended(whole, <<LF>>, size)

\* The text and its NUL are longer than what was allocated: whatever is behind it
\* is overwritten.  The allocator may have put something there, or may not.
Overrun(cmp, err) == Len(FilteredText(cmp)) + 1 > MessageSize(cmp, err)

\* fputs to stderr, which is line buffered.
Put(cmp, err) ==
  /\ calls < MaxCalls /\ ~exited
  /\ calls' = calls + 1
  /\ said' = cmp
  /\ file' = IF stream = "closed" THEN file ELSE file \o logmsg(cmp, err)
  /\ UNCHANGED stream

\* The allocator finds out, and aborts the program.
Abort(cmp, err) ==
  /\ calls < MaxCalls /\ ~exited
  /\ Overrun(cmp, err)
  /\ exited' = TRUE
  /\ UNCHANGED <<stream, file, said, calls>>

\* freopen closes the stream it was given also when it fails.
kutil_openlog ==
  /\ ~exited
  /\ stream' \in {"file", "closed"}
  /\ UNCHANGED <<file, said, calls, exited>>

\* kutil_log, kutil_logx, kutil_info, kutil_warn, kutil_warnx and their va_list
\* forms: with the text of errno in all but those with an x and kutil_info.
Inform ==
  \E remote \in Remotes, ident \in Idents, message \in Messages,
     form \in {<<"INFO", <<>>>>, <<"WARN", <<>>>>, <<"WARN", Error>>} :
    LET cmp == Composed(remote, ident, form[1], message)
    IN \/ Put(cmp, form[2]) /\ UNCHANGED exited
       \/ Abort(cmp, form[2])

\* kutil_err, kutil_errx, kutil_verr, kutil_verrx: these do not come back.
Fail ==
  \E remote \in Remotes, ident \in Idents, message \in Messages, err \in {<<>>, Error} :
    LET cmp == Composed(remote, ident, "ERROR", message)
    IN \/ Put(cmp, err) /\ exited' = TRUE
       \/ Abort(cmp, err)

Next == kutil_openlog \/ Inform \/ Fail
Spec == Init /\ [][Next]_vars

-----------------------------------------------------------------------------
\* What a call has put into the file.
Added == SubSeq(file', Len(file) + 1, Len(file'))

\* A call whose stream is open writes printable characters only, and ends them
\* with a newline if and only if the message has none of \a, \b, \f and \v: a line
\* break in a message never makes a line of the log (logging.c:48-170).  The
\* manual promises "a trailing newline" for every message, and these four "shown
\* as literal escape characters" like the others (man/kutil_log.3:198-218), but the
\* code makes no room for their growing (logging.c:91-104), so that the next message
\* follows on the line, and they overrun the memory (Overrun).
Uncounted == DOMAIN Escapes \ Counted
NoUncounted(s) == \A k \in 1..Len(s) : s[k] \notin Uncounted
OneMoreLine ==
  (calls' = calls + 1 /\ stream # "closed") =>
    LET line == Added
    IN /\ Last(line) = LF <=> NoUncounted(said')
       /\ Range(Front(line)) \subseteq Plain /\ Last(line) \in Plain \cup {LF}

=============================================================================

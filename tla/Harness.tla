--------------------------------- MODULE Harness ---------------------------------
(***************************************************************************)
(* The test harness that applications link (src/kcgiregress.c): a test,    *)
(* whose own function is the client, forks a broker that is its web        *)
(* server, which forks the script or the FastCGI control process and turns *)
(* what that says into an HTTP response.                                   *)
(*                                                                         *)
(* Output is a sequence of tokens: "Status:", the words of header lines,   *)
(* "NL" for the end of a line, bytes of the body.                          *)
(***************************************************************************)
EXTENDS Integers, Sequences, FiniteSets, SequencesExt

CONSTANTS
  Servers,      \* subset of {"cgi", "fcgi"}
  Outputs,      \* what the script may say
  PipeMax,      \* how much the script may be ahead of the broker
  Mishaps       \* the servers whose client may go away before the answer, or whose
                \* broker may run out of memory

HarnessAssumption ==
  /\ Servers \subseteq {"cgi", "fcgi"}
  /\ \A s \in Outputs : s \in Seq(STRING)
  /\ PipeMax \in Nat \ {0}

VARIABLES
  server, output,
  test,      \* "waiting" for the broker to stop, in the "client", "reaping", "done"
             \* or "failed"
  broker,    \* where the web server is
  client,    \* "none", "asking", "closed" (it has it all) or "gone"
  program,   \* "none", "running", "idle" (the next request), "terminated" or "exited"
  said,      \* how many tokens the script has written
  pipe,      \* what the broker has not read of them
  vec,       \* what it has buffered
  answer,    \* what it has written to the client
  rc         \* what it is going to return

hvars == <<server, output, test, broker, client, program, said, pipe, vec, answer, rc>>

HInit ==
  /\ server \in Servers /\ output \in Outputs
  /\ test = "waiting" /\ broker = "starting" /\ client = "none" /\ program = "none"
  /\ said = 0 /\ pipe = <<>> /\ vec = <<>> /\ answer = <<>> /\ rc = FALSE

Data == <<said, pipe, vec, answer>>
BrokerGone == broker \in {"succeeded", "failed", "killed"}
ClientThere == client = "asking"

-----------------------------------------------------------------------------
(* regress: the test.                                                      *)

\* The broker stops itself when it listens; only then is it woken up and the
\* test's own function run.
TestWakes ==
  /\ test = "waiting"
  /\ \/ broker = "stopped" /\ broker' = "accepting" /\ test' = "client"
     \/ BrokerGone /\ test' = "failed" /\ UNCHANGED broker
  /\ UNCHANGED <<server, output, client, program, rc>> /\ UNCHANGED Data

ClientAsks ==
  /\ test = "client" /\ client = "none"
  /\ IF BrokerGone THEN client' = "gone" /\ test' = "reaping"
     ELSE client' = "asking" /\ UNCHANGED test
  /\ UNCHANGED <<server, output, broker, program, rc>> /\ UNCHANGED Data

\* It reads till the broker closes the connection, or does not wait for that.
ClientCloses ==
  /\ test = "client" /\ ClientThere
  /\ \/ BrokerGone /\ client' = "closed"
     \/ server \in Mishaps /\ client' = "gone"
  /\ test' = "reaping"
  /\ UNCHANGED <<server, output, broker, program, rc>> /\ UNCHANGED Data

TestReaps ==
  /\ test = "reaping" /\ BrokerGone
  /\ test' = IF broker = "succeeded" THEN "done" ELSE "failed"
  /\ UNCHANGED <<server, output, broker, client, program, rc>> /\ UNCHANGED Data

-----------------------------------------------------------------------------
(* The script: external, as far as it writes and ends.                     *)

\* The broker's end of the pipe is open.
Heard == broker \in {"reading", "relaying", "leaving", "reaping"}
Closing == server = "fcgi" /\ broker = "reaping"

ScriptSays ==
  /\ program = "running" /\ said < Len(output)
  /\ Heard /\ ~Closing /\ Len(pipe) < PipeMax
  /\ said' = said + 1
  /\ pipe' = Append(pipe, output[said + 1])
  /\ UNCHANGED <<server, output, test, broker, client, program, vec, answer, rc>>

\* At the end, or when nobody listens any more; a FastCGI process writes the
\* end of the request and waits for the next.
ScriptEnds ==
  /\ program = "running"
  /\ said = Len(output) \/ ~Heard \/ Closing
  /\ program' = IF server = "fcgi" THEN "idle" ELSE "exited"
  /\ UNCHANGED <<server, output, test, broker, client, rc>> /\ UNCHANGED Data

ScriptTerminates ==
  /\ program = "terminated"
  /\ program' = "exited"
  /\ UNCHANGED <<server, output, test, broker, client, rc>> /\ UNCHANGED Data

\* What the broker's read sees behind the last token.
EndOfOutput == pipe = <<>> /\ program \in {"idle", "exited"}

-----------------------------------------------------------------------------
(* The broker.                                                             *)

\* dochild_fcgi first binds and forks the control process.
StartControl ==
  /\ broker = "starting" /\ server = "fcgi"
  /\ \/ broker' = "bound" /\ program' = "idle"
     \/ broker' = "failed" /\ UNCHANGED program
  /\ UNCHANGED <<server, output, test, client, rc>> /\ UNCHANGED Data

\* Where the broker goes if it has no connection: only a control process needs
\* to be told.
GivesUp == IF server = "fcgi" THEN "leaving" ELSE "failed"

\* dochild_prepare listens for the test, and stops the process till that is ready.
Prepare ==
  /\ broker = (IF server = "fcgi" THEN "bound" ELSE "starting")
  /\ broker' \in {"stopped", GivesUp}
  /\ UNCHANGED <<server, output, test, client, program, rc>> /\ UNCHANGED Data

Accept ==
  /\ broker = "accepting" /\ client # "none"
  /\ broker' \in {"accepted", GivesUp}
  /\ UNCHANGED <<server, output, test, client, program, rc>> /\ UNCHANGED Data

\* dochild_cgi makes a socket pair and forks the script, with the request in its
\* environment; the head is good (see Head).
Launch ==
  /\ broker = "accepted" /\ server = "cgi"
  /\ \/ broker' = "reading" /\ program' = "running"
     \/ broker' = "failed" /\ UNCHANGED program
  /\ UNCHANGED <<server, output, test, client, rc>> /\ UNCHANGED Data

\* dochild_fcgi connects to the control process and sends the records.
Connect ==
  /\ broker = "accepted" /\ server = "fcgi"
  /\ \/ broker' = "reading" /\ program' = "running"
     \/ broker' = "leaving" /\ UNCHANGED program
  /\ UNCHANGED <<server, output, test, client, rc>> /\ UNCHANGED Data

\* b_read or read: the first n tokens, without the padding after a record.
Taken(n) == SubSeq(pipe, 1, n)
Takes(n) == pipe' = SubSeq(pipe, n + 1, Len(pipe))

\* The place of the empty line that ends the headers, or 0.
HeadEnd(s) == SelectInSeq([k \in 1..(Len(s) - 1) |-> SubSeq(s, k, k + 1)],
                          LAMBDA pair : pair = <<"NL", "NL">>)

\* b_write or nb_write to the client.  When that is gone the first goes nowhere,
\* and then they fail, or a SIGPIPE ends the broker, which closes the pipe.
Send(tokens, goto) ==
  IF ClientThere
  THEN /\ answer' = answer \o tokens /\ broker' = goto
  ELSE /\ broker' \in {goto, "leaving", "killed"} /\ UNCHANGED answer

\* Reads, of any length (of whole records, in FastCGI), until the headers are
\* complete; memory may run out.
ReadHead ==
  /\ broker = "reading" /\ HeadEnd(vec) = 0 /\ pipe # <<>>
  /\ \/ \E n \in 1..Len(pipe) :
          vec' = vec \o Taken(n) /\ Takes(n)
        /\ UNCHANGED broker
     \/ server \in Mishaps /\ broker' = "leaving" /\ UNCHANGED <<vec, pipe>>
  /\ UNCHANGED <<server, output, test, client, program, said, answer, rc>>

\* A mutant: the headers before the status are lost.
Response_FromStatus(s, end) ==
  LET status == SelectInSubSeq(s, 1, end - 1, LAMBDA t : t = "Status:")
  IN <<"HTTP/1.1">> \o (IF status = 0 THEN <<"200", "NL">> \o s ELSE SubSeq(s, status + 1, Len(s)))

\* The status line out of the first "Status:" among the headers, then the
\* headers before it, then the rest.
Response(s, end) ==
  LET status == SelectInSubSeq(s, 1, end - 1, LAMBDA t : t = "Status:")
      nl == SelectInSubSeq(s, status, end - 1, LAMBDA t : t = "NL")
      cp == IF nl = 0 THEN end ELSE nl + 1
  IN IF status = 0 THEN <<"HTTP/1.1", "200", "NL">> \o s
     ELSE <<"HTTP/1.1">> \o SubSeq(s, status + 1, cp - 1) \o SubSeq(s, 1, status - 1)
          \o SubSeq(s, cp, Len(s))

Answer ==
  /\ broker = "reading" /\ HeadEnd(vec) # 0
  /\ Send(Response(vec, HeadEnd(vec)), "relaying")
  /\ UNCHANGED <<server, output, test, client, program, said, pipe, vec, rc>>

\* The script ended before its headers did: CGI passes on what there is.
NoHead ==
  /\ broker = "reading" /\ HeadEnd(vec) = 0 /\ EndOfOutput
  /\ IF server = "cgi"
     THEN /\ Send(vec, "leaving")
          /\ rc' \in {ClientThere, TRUE}
     ELSE broker' = "leaving" /\ rc' = TRUE /\ UNCHANGED answer
  /\ UNCHANGED <<server, output, test, client, program, said, pipe, vec>>

Relay ==
  /\ broker = "relaying" /\ pipe # <<>>
  /\ \E n \in 1..Len(pipe) :
       /\ Send(Taken(n), "relaying")
       /\ Takes(n)
  /\ UNCHANGED <<server, output, test, client, program, said, vec, rc>>

RelayEnd ==
  /\ broker = "relaying" /\ EndOfOutput
  /\ broker' = "leaving" /\ rc' = TRUE
  /\ UNCHANGED <<server, output, test, client, program>> /\ UNCHANGED Data

\* A mutant: nobody tells the control process to end.
GoOut_NotTold ==
  /\ broker = "leaving"
  /\ broker' = "reaping"
  /\ UNCHANGED <<server, output, test, client, program, rc>> /\ UNCHANGED Data

\* out: dochild_fcgi signals and closes, dochild_cgi waits before it closes.
GoOut ==
  /\ broker = "leaving"
  /\ broker' = "reaping"
  /\ program' = IF server = "fcgi" THEN "terminated" ELSE program
  /\ UNCHANGED <<server, output, test, client, rc>> /\ UNCHANGED Data

Reap ==
  /\ broker = "reaping" /\ program = "exited"
  /\ broker' = IF rc THEN "succeeded" ELSE "failed"
  /\ UNCHANGED <<server, output, test, client, program, rc>> /\ UNCHANGED Data

Test == TestWakes \/ ClientAsks \/ ClientCloses \/ TestReaps
Script == ScriptSays \/ ScriptEnds \/ ScriptTerminates
Broker == StartControl \/ Prepare \/ Accept \/ Launch \/ Connect \/ ReadHead \/ Answer \/ NoHead \/ Relay \/ RelayEnd \/ GoOut \/ Reap
HNext == Test \/ Script \/ Broker

\* Three processes, each of which goes on unless it waits.
HFairness == WF_hvars(Test) /\ WF_hvars(Script) /\ WF_hvars(Broker)
HSpec == HInit /\ [][HNext]_hvars /\ HFairness

-----------------------------------------------------------------------------
\* The lines of a head, without the empty line that ends it.
LinesOf(head) ==
  LET ends == {k \in 1..Len(head) : head[k] = "NL"}
      first(k) == CHOOSE j \in 1..k : j - 1 \in ends \cup {0} /\ \A i \in j..(k - 1) : i \notin ends
  IN {SubSeq(head, first(k), k) : k \in ends}

\* What the harness can make a status line of: the script's first line is not
\* empty, and "Status:" begins a line, once; if it is not the first line it is not
\* the last either, for the harness writes no line end behind that one
\* (kcgiregress.c:841-856).
StatusApart(s) ==
  /\ s[1] # "NL"
  /\ \A j \in 1..(HeadEnd(s) - 1) : s[j] = "Status:" =>
       /\ \/ j = 1
          \/ s[j - 1] = "NL" /\ \E k \in j..(HeadEnd(s) - 1) : s[k] = "NL"
       /\ \A i \in 1..(HeadEnd(s) - 1) : s[i] = "Status:" => i = j

\* That response: a status line and every header line whole, each once, and then
\* the body, byte for byte.
Translates(s, a) ==
  LET e == HeadEnd(a)
      lines == LinesOf(SubSeq(s, 1, HeadEnd(s)))
      status == {l \in lines : l[1] = "Status:"}
  IN /\ e # 0 /\ Len(a) = Len(s) + (IF status = {} THEN 3 ELSE 0)
     /\ SubSeq(a, e + 2, Len(a)) = SubSeq(s, HeadEnd(s) + 2, Len(s))
     /\ LinesOf(SubSeq(a, 1, e))
          = (lines \ status)
            \cup {IF status = {} THEN <<"HTTP/1.1", "200", "NL">>
                  ELSE <<"HTTP/1.1">> \o Tail(CHOOSE l \in status : TRUE)}

\* A test that succeeds has seen the script's response, however the reads cut it
\* (kcgiregress.c:747-880, 1003-1086).
ResponseKept ==
  test = "done" /\ client = "closed" /\ HeadEnd(output) # 0 /\ StatusApart(output) =>
    Translates(output, answer)

\* dochild_cgi waits for the script before it closes its end of the socket
\* (kcgiregress.c:1119-1126).  If it gave up before it had read everything, the
\* script waits for room there, the broker for the script, and the test for both.
TestOver == test \in {"done", "failed"}
Deserted ==
  /\ server = "cgi" /\ broker = "reaping"
  /\ program = "running" /\ said < Len(output) /\ Len(pipe) = PipeMax

\* kcgiregress(3): "These functions return zero on failure, non-zero on success":
\* they return, also when the client leaves or the broker's memory runs out.
TestEnds == <>TestOver

=============================================================================

------------------------------ MODULE MC_Processes ------------------------------
(***************************************************************************)
(* TLC's instance of the smaller protocols between processes: the words    *)
(* that cross a socket (Transport), who holds which descriptor             *)
(* (Descriptors), the manager of a fixed pool (Fixedpool) and the start of *)
(* one (Kfcgi), and the test harness (Harness).  "which" is the one a      *)
(* behaviour is about; the others stay where they begin.                   *)
(***************************************************************************)
EXTENDS Transport, Descriptors, Fixedpool, Kfcgi, Harness

CONSTANT MaxItems       \* the longest script

ASSUME ProcessesAssumption ==
  /\ MaxItems \in Nat \ {0}
  /\ Mishaps \subseteq Servers
  /\ IsFiniteSet(Slots) /\ First \subseteq Slots /\ MaxEvents \in Nat

ASSUME TransportAssumption /\ FixedAssumption /\ KfcgiAssumption /\ HarnessAssumption

VARIABLE which

\* Words, one of them null or empty, a number where the stream may end, one for a
\* reader that may have gone, and nothing at all.
Item(kind, words, mayend) == [how |-> kind, bytes |-> words, eofok |-> mayend]
ItemKinds == {Item("word", <<>>, FALSE), Item("word", <<1, 2>>, FALSE),
              Item("number", <<1>>, TRUE), Item("noerr", <<1, 0, 2>>, TRUE),
              Item("fd", <<1, 2>>, FALSE), Item("number", <<>>, FALSE)}
ItemScripts == UNION {[1..n -> ItemKinds] : n \in 1..MaxItems}

\* The status first, in the middle, alone or not there; no body, no end of the
\* headers, nothing.
OutputCases ==
  {<<"Status:", "200", "NL", "A", "NL", "NL", "x", "y">>,
   <<"A", "NL", "Status:", "404", "NL", "B", "NL", "NL", "x">>,
   <<"A", "NL", "NL">>, <<"A", "NL", "x">>, <<"Status:", "200", "NL", "NL", "NL", "x">>, <<>>}

vars == <<which, tvars, dvars, fvars, kvars, hvars>>

\* Where the others are.
TransportIdle == TInit /\ script = <<Item("number", <<1>>, TRUE)>>
DescriptorsIdle == DInit /\ mode = "cgi"
KfcgiIdle ==
  /\ KInit /\ file = "none"
  /\ opts = [n |-> 1, N |-> Absent, l |-> Absent, r |-> FALSE, u |-> "none", U |-> "none"]
HarnessIdle == HInit /\ server = "cgi" /\ output = <<>>

\* One part begins as it may.
Begins(part, I, Idle) == IF which = part THEN I ELSE Idle

Init ==
  /\ which \in {"transport", "descriptors", "fixedpool", "start", "harness"}
  /\ Begins("transport", TInit, TransportIdle)
  /\ Begins("descriptors", DInit, DescriptorsIdle)
  /\ FInit
  /\ Begins("start", KInit, KfcgiIdle)
  /\ Begins("harness", HInit, HarnessIdle)

\* A step of one of them.
OfTransport(A) == which = "transport" /\ A /\ UNCHANGED <<which, dvars, fvars, kvars, hvars>>
OfDescriptors(A) == which = "descriptors" /\ A /\ UNCHANGED <<which, tvars, fvars, kvars, hvars>>
OfFixedpool(A) == which = "fixedpool" /\ A /\ UNCHANGED <<which, tvars, dvars, kvars, hvars>>
OfKfcgi(A) == which = "start" /\ A /\ UNCHANGED <<which, tvars, dvars, fvars, hvars>>
OfHarness(A) == which = "harness" /\ A /\ UNCHANGED <<which, tvars, dvars, fvars, kvars>>

Next ==
  \/ OfTransport(TNext)
  \/ OfDescriptors(DNext)
  \/ OfFixedpool(FNext)
  \/ OfKfcgi(KNext)
  \/ OfHarness(HNext)

\* Of each of their processes.
Fairness ==
  /\ WF_vars(OfTransport(Write)) /\ WF_vars(OfTransport(Read))
  /\ WF_vars(OfHarness(Test)) /\ WF_vars(OfHarness(Script))
  /\ WF_vars(OfHarness(Broker))
  /\ WF_vars(OfDescriptors(WorkerGoesOn)) /\ WF_vars(OfDescriptors(ControlGoesOn))
  /\ WF_vars(OfDescriptors(AppGoesOn)) /\ WF_vars(OfDescriptors(ManagerGoesOn))
  /\ WF_vars(OfFixedpool(PoolManager))
  /\ \A s \in Pool : WF_vars(OfFixedpool(WorkerExit(s)))

Spec == Init /\ [][Next]_vars /\ Fairness

\* The test harness alone.
HarnessAlone == Init /\ which = "harness" /\ [][Next]_vars /\ Fairness

-----------------------------------------------------------------------------
(* Properties: beside those of the modules, *)

\* Nobody waits for ever: not the two sides of a socket for each other or for one
\* that has gone, nor the test, its broker and the script, whoever fails and
\* whenever, but for a CGI broker that gave up a script with more to say
\* (Deserted, see harness_bad_cgi); the processes of an application end when they
\* should, and so does a pool, unless it forgets a stop for a restart
\* (wrappers.c:215-490, kcgiregress.c:895-925, 1106-1180, fcgi.c:344-357,
\* kfcgi.c:694-740, 822-862).
On(part, F) == which = part /\ F
If(part, F) == which = part => F
AllEnd ==
  /\ []<>(If("transport", BothEnded) /\ If("harness", TestOver \/ Deserted))
  /\ \A s \in Slots : On("descriptors", Ending(s)) ~> If("descriptors", Over(s))
  /\ On("fixedpool", ToldToEnd) ~> If("fixedpool", Ended \/ StopForgotten)
  /\ []<>If("fixedpool", Dead = {})

=============================================================================

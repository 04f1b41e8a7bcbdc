------------------------------- MODULE MC_Request -------------------------------
(***************************************************************************)
(* TLC's instance of the life of one request: what is read (Request), in   *)
(* which memory (Storage), and what is answered (Output).  "which" is the  *)
(* part a behaviour is about; the others stay where they begin.            *)
(***************************************************************************)
EXTENDS Output, Request

CONSTANTS MaxEnvs, MaxReqs, MaxInputs    \* of Storage

ASSUME RequestAssumption /\ OutputAssumption

VARIABLES which, m1, m2, m3, m4, m5, m6, m7

Storage == INSTANCE Storage
  WITH shape <- m1, pc <- m2, state <- m3, ptrs <- m4, sizes <- m5, heap <- m6, twice <- m7

mvars == <<m1, m2, m3, m4, m5, m6, m7>>
vars == <<which, rvars, ovars, mvars>>

\* Where the others are.
RequestIdle == RInit /\ input = [a \in Arrays |-> <<>>]
StorageIdle == m1 = 0 /\ m2 = 0 /\ m3 = 0 /\ m4 = 0 /\ m5 = 0 /\ m6 = 0 /\ m7 = 0
OutputIdle == OInit /\ ~fcgi /\ outbufsz = CHOOSE n \in BufSizes : TRUE

Init ==
  \/ which = "request" /\ RInit /\ StorageIdle /\ OutputIdle
  \/ which = "storage" /\ RequestIdle /\ Storage!Init /\ OutputIdle
  \/ which = "output" /\ RequestIdle /\ StorageIdle /\ OInit

\* A step of one of them.
OfRequest(A) == which = "request" /\ A /\ UNCHANGED <<which, mvars, ovars>>
OfStorage(A) == which = "storage" /\ A /\ UNCHANGED <<which, rvars, ovars>>
OfOutput(A) == which = "output" /\ A /\ UNCHANGED <<which, rvars, mvars>>

Next == OfRequest(RNext) \/ OfStorage(Storage!Next) \/ OfOutput(ONext)

Fairness == WF_vars(OfRequest(Worker)) /\ WF_vars(OfRequest(Parent))

Spec == Init /\ [][Next]_vars /\ Fairness

-----------------------------------------------------------------------------
(* Properties: beside those of Request and Output, *)

\* khttp_parse returns, whatever becomes of the worker (kcgi.c:1091-1103); and
\* whatever fails, all of a request's memory but one array is freed, and once
\* (kcgi.c:881-941).
ReturnsAndFrees ==
  /\ which = "request" ~> which = "request" /\ HasReturned
  /\ which = "storage" => [](which = "storage" => Storage!FreedOnce)

=============================================================================

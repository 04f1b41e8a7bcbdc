------------------------------ MODULE Fixedpool ------------------------------
(***************************************************************************)
(* kfcgi(8) without -r: the manager of a fixed pool of FastCGI workers     *)
(* (src/kfcgi.c, fixedpool).                                               *)
(*                                                                         *)
(* The workers accept connections themselves, on the socket they inherit   *)
(* as standard input.  The manager only starts them, sleeps in             *)
(* sigsuspend(2) until a signal comes in, stops them, waits for them, and  *)
(* then starts again (SIGHUP) or exits.  Its signals are blocked except in *)
(* sigsuspend.                                                             *)
(***************************************************************************)
EXTENDS Integers, FiniteSets

CONSTANTS
  Pool,            \* workers to run (-n), as indices of the worker array
  MaxTerm,          \* bound: SIGTERMs sent by the operator
  MaxHup,           \* bound: SIGHUPs sent by the operator
  MaxCrash,         \* bound: workers that end without being told to
  ForkMayFail,      \* whether fork(2) may fail
  WaitClearsPending,    \* whether waitpid(2) discards a pending SIGCHLD when
                        \* no other child is waitable (POSIX; Linux does not)
  BlockedDflDropped     \* whether a blocked signal whose default is to be
                        \* ignored is dropped when sent (BSD) or kept (Linux)

FixedAssumption ==
  /\ IsFiniteSet(Pool)
  /\ MaxTerm \in Nat
  /\ MaxHup \in Nat
  /\ MaxCrash \in Nat
  /\ ForkMayFail \in BOOLEAN
  /\ WaitClearsPending \in BOOLEAN
  /\ BlockedDflDropped \in BOOLEAN

VARIABLES
  proc,       \* state of the process in each slot
  pc,         \* part of fixedpool being run
  flags,      \* which of stop, chld and hup are set
  pending,    \* signals sent and not delivered yet
  chldDfl,    \* whether SIGCHLD has its default disposition
  listening,  \* whether the manager has the listening socket open
  started,    \* whether all workers were started this time
  terms, hups, crashes  \* how much of each bound is used

bounds == <<terms, hups, crashes>>
fvars == <<proc, pc, flags, pending, chldDfl, listening, started, bounds>>

Signals == {"TERM", "HUP", "CHLD"}
PC == {"start", "suspend", "out", "kill", "wait", "exited"}

\* "none": no process (the code's -1, or waited for); "told": sent a SIGTERM;
\* "dead": a zombie.
ProcState == {"none", "run", "told", "dead"}

TypeOK ==
  /\ proc \in [Pool -> ProcState]
  /\ pc \in PC
  /\ flags \in SUBSET Signals
  /\ pending \in SUBSET Signals
  /\ chldDfl \in BOOLEAN
  /\ listening \in BOOLEAN
  /\ started \in BOOLEAN
  /\ terms \in 0..MaxTerm
  /\ hups \in 0..MaxHup
  /\ crashes \in 0..MaxCrash

FInit ==
  /\ proc = [s \in Pool |-> "none"]
  /\ pc = "start"
  /\ flags = {}
  /\ pending = {}
  /\ chldDfl = FALSE
  /\ listening = TRUE
  /\ started = FALSE
  /\ terms = 0
  /\ hups = 0
  /\ crashes = 0

-----------------------------------------------------------------------------
(* The manager *)

Dead == {s \in Pool : proc[s] = "dead"}
Live == {s \in Pool : proc[s] # "none"}

StartWorker(s) ==
  /\ pc = "start"
  /\ ~started
  /\ proc[s] = "none"
  /\ proc' = [proc EXCEPT ![s] = "run"]
  /\ started' = (Pool \subseteq Live \cup {s})
  /\ UNCHANGED <<pc, flags, pending, chldDfl, listening, bounds>>

StartFails ==
  /\ pc = "start"
  /\ ForkMayFail
  /\ ~started
  /\ pc' = "out"
  /\ UNCHANGED <<proc, flags, pending, chldDfl, listening, started, bounds>>

PoolStarted ==
  /\ pc = "start"
  /\ started
  /\ pc' = "suspend"
  /\ UNCHANGED <<proc, flags, pending, chldDfl, listening, started, bounds>>

\* sigsuspend returns once at least one signal was delivered.
Suspend ==
  /\ pc = "suspend"
  /\ \E S \in (SUBSET pending) \ {{}} :
       /\ flags' = flags \cup S
       /\ pending' = pending \ S
  /\ pc' = "out"
  /\ UNCHANGED <<proc, chldDfl, listening, started, bounds>>

\* The socket is closed at once unless the workers are started again.
StaysOpen == "HUP" \in flags

SuppressChld_not == FALSE
SuppressChld == TRUE

\* out: SIGCHLD gets its default disposition while the workers are stopped,
\* which discards a pending one.
Out ==
  /\ pc = "out"
  /\ pc' = "kill"
  /\ listening' = StaysOpen
  /\ chldDfl' = SuppressChld
  /\ pending' = pending \ {"CHLD"}
  /\ UNCHANGED <<proc, flags, started, bounds>>

Told == [s \in Pool |-> IF proc[s] = "run" THEN "told" ELSE proc[s]]

Kill ==
  /\ pc = "kill"
  /\ pc' = "wait"
  /\ proc' = Told
  /\ UNCHANGED <<flags, pending, chldDfl, listening, started, bounds>>

\* The last of the calls to waitpid(2) has returned.
AllWaited == Live = Dead

Waited ==
  /\ pc = "wait"
  /\ AllWaited
  /\ proc' = [s \in Pool |-> IF s \in Dead THEN "none" ELSE proc[s]]
  /\ pending' = IF WaitClearsPending THEN pending \ {"CHLD"} ELSE pending
  /\ chldDfl' = FALSE

Restart ==
  /\ Waited
  /\ "HUP" \in flags
  /\ pc' = "start"
  /\ flags' = {}
  /\ started' = (Pool = {})
  /\ UNCHANGED <<listening, bounds>>

PoolExit ==
  /\ Waited
  /\ "HUP" \notin flags
  /\ pc' = "exited"
  /\ UNCHANGED <<flags, listening, started, bounds>>

-----------------------------------------------------------------------------
(* Workers and the operator *)

\* A worker that dies before it was told to.
WorkerCrash(s) ==
  /\ proc[s] = "run"
  /\ crashes < MaxCrash
  /\ crashes' = crashes + 1
  /\ proc' = [proc EXCEPT ![s] = "dead"]
  /\ pending' = IF chldDfl /\ BlockedDflDropped THEN pending
                                                ELSE pending \cup {"CHLD"}
  /\ UNCHANGED <<pc, flags, chldDfl, listening, started, terms, hups>>

WorkerExit(s) ==
  /\ proc[s] = "told"
  /\ proc' = [proc EXCEPT ![s] = "dead"]
  /\ pending' = IF chldDfl /\ BlockedDflDropped THEN pending
                                                ELSE pending \cup {"CHLD"}
  /\ UNCHANGED <<pc, flags, chldDfl, listening, started, bounds>>

SendTerm ==
  /\ pc # "exited"
  /\ terms < MaxTerm
  /\ terms' = terms + 1
  /\ pending' = pending \cup {"TERM"}
  /\ UNCHANGED <<proc, pc, flags, chldDfl, listening, started, hups, crashes>>

SendHup ==
  /\ pc # "exited"
  /\ hups < MaxHup
  /\ hups' = hups + 1
  /\ pending' = pending \cup {"HUP"}
  /\ UNCHANGED <<proc, pc, flags, chldDfl, listening, started, terms, crashes>>

-----------------------------------------------------------------------------

PoolManager ==
  \/ \E s \in Pool : StartWorker(s)
  \/ StartFails \/ PoolStarted \/ Suspend \/ Out \/ Kill \/ Restart \/ PoolExit

FNext ==
  \/ PoolManager
  \/ \E s \in Pool : WorkerCrash(s) \/ WorkerExit(s)
  \/ SendTerm
  \/ SendHup

FSpec == FInit /\ [][FNext]_fvars

\* The manager runs; a worker that got a SIGTERM exits (kfcgi.c:845: "properly
\* written children will exit when receiving SIGTERM").
FairSpec ==
  /\ FSpec
  /\ WF_fvars(PoolManager)
  /\ \A s \in Pool : WF_fvars(WorkerExit(s))

-----------------------------------------------------------------------------
(* Properties *)

\* The manager does not leave its main loop because of the workers it stopped
\* itself: only when asked to, or after a worker died or fork failed, which
\* leaves the pool incomplete.
OnlyWithReason ==
  pc \in {"out", "kill", "wait"} =>
    \/ {"TERM", "HUP"} \cap flags # {}
    \/ crashes > 0
    \/ ~started

\* When the manager exits, all workers have been waited for.  When it starts
\* again none of the former ones is left, and the new ones have the socket to
\* accept on (kfcgi.c:831-862).
NoneLeft ==
  /\ pc = "exited" => Live = {}
  /\ pc = "suspend" => started /\ {s \in Pool : proc[s] = "told"} = {}
  /\ pc \in {"start", "suspend"} => listening

\* Both: what the pool is for is kept up through restarts, and taken down at the end.
PoolKept == OnlyWithReason /\ NoneLeft

\* A SIGTERM ends the manager, unless the sigsuspend(2) that delivers it delivers
\* a SIGHUP as well: both are forgotten when the workers are started again
\* (kfcgi.c:787, 861).  So does the death of a worker, unless the manager was
\* stopping it anyway: a pool that misses a worker does not go on
\* (kfcgi.c:822-842).
ToldToEnd == "TERM" \in pending
Ended == pc = "exited"
StopForgotten == {"TERM", "HUP"} \subseteq flags

=============================================================================

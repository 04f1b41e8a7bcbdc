------------------------------- MODULE Varpool -------------------------------
(***************************************************************************)
(* kfcgi(8) run with -r: the manager of a variable-sized pool of FastCGI   *)
(* workers (src/kfcgi.c, varpool).                                         *)
(*                                                                         *)
(* The manager owns the listening socket.  It hands every accepted         *)
(* connection, with a cookie, to one idle worker over that worker's        *)
(* control socket, keeps its own copy of the descriptor, and closes the    *)
(* copy when the worker writes the cookie back.  It grows the pool when    *)
(* all workers are busy, stops accepting when the pool is at its maximum,  *)
(* and lets go of the last worker when it has been idle for long enough.   *)
(* A worker it let go dies at its own pace: it waits in the "slough".      *)
(*                                                                         *)
(* The manager is one thread.  Its signals are blocked except around       *)
(* poll(2); everything else that happens here (clients, workers that       *)
(* finish, exit or crash, signals sent by the operator, time) interleaves  *)
(* with its steps.  "pc" names the part of varpool being run:              *)
(*                                                                         *)
(*   start -> poll -> signals -> shrink -> release -> listen -> accept     *)
(*              ^         |         |         |         |         |        *)
(*              +---------+---------+---------+---------+---------+        *)
(*   any of them -> out -> wait -> start (restart) or exited               *)
(*                                                                         *)
(* Indices start at one: ws[i] is the code's ws[i - 1], and pfd[k] its     *)
(* pfd[k], whose zeroth element is the listening socket (listenReady).     *)
(***************************************************************************)
EXTENDS Integers, Sequences, FiniteSets

CONSTANTS
  MinPool,            \* -n: workers started initially
  MaxPool,            \* -N: most workers the pool may grow to
  Procs,              \* bound: process identifiers 1..Procs
  MaxConn,            \* bound: clients that connect
  MaxTerm,            \* bound: SIGTERMs sent by the operator
  MaxHup,             \* bound: SIGHUPs sent by the operator
  MaxCrash,           \* bound: workers that die without being told to, or
                      \* that write back something else than their cookie
  CallsMayFail,       \* whether fork(2), poll(2), accept(2) and allocations
                      \* may fail
  WaitClearsPending,  \* whether waitpid(2) discards a pending SIGCHLD when no
                      \* other child is waitable (POSIX; Linux does not)
  EintrKeepsRevents   \* whether an interrupted poll(2) leaves revents alone
                      \* (BSD) or stores the empty sets (Linux)

\* main (kfcgi.c:969-976) falls back to fixedpool when -N equals -n, and
\* refuses -N below -n: varpool only runs with room to grow.
ASSUME PoolAssumption ==
  /\ MinPool \in Nat
  /\ MaxPool \in Nat
  /\ MinPool < MaxPool

\* There is always a process identifier left for the next fork(2).
ASSUME ProcsAssumption ==
  /\ Procs \in Nat
  /\ MaxPool + (MaxPool - MinPool) * 2 <= Procs

ASSUME BoundAssumption ==
  /\ MaxConn \in Nat
  /\ MaxTerm \in Nat
  /\ MaxHup \in Nat
  /\ MaxCrash \in Nat
  /\ CallsMayFail \in BOOLEAN
  /\ WaitClearsPending \in BOOLEAN
  /\ EintrKeepsRevents \in BOOLEAN

Pid == 1..Procs
Conn == 1..MaxConn
NoPid == 0      \* the code's -1
NoConn == 0     \* the code's -1
BadCookie == MaxConn + 1    \* a cookie of no worker

VARIABLES
  ws,           \* worker array: [pid, fd, last] for each worker
  slough,       \* processes told to exit and not yet waited for
  pfd,          \* polled control sockets: [pid, re] for each slot
  npfd,         \* slots in use (pfdsz - 1)
  minwsz,       \* size below which the pool is not reduced
  accepting,    \* whether the listening socket is polled
  listenReady,  \* pfd[0].revents & POLLIN
  pc,           \* part of varpool being run
  rc,           \* the variable of that name
  idx,          \* loop counter of the start and release loops
  flags,        \* which of stop, chld and hup are set
  pending,      \* signals sent and not delivered yet
  listening,    \* whether the manager has the listening socket open
  held,         \* connections the manager has open
  arrived,      \* connections made by clients: 1..arrived
  accepted,     \* connections accepted: 1..accepted
  proc,         \* state of each process
  job,          \* connection each process works on
  outb,         \* cookie in the control socket from process to manager
  terms, hups, crashes  \* how much of each bound is used

poolVars == <<ws, slough, pfd, npfd, minwsz, accepting, listenReady>>
ctlVars == <<pc, rc, idx, flags>>
osVars == <<pending, listening, held, arrived, accepted>>
procVars == <<proc, job, outb>>
bounds == <<terms, hups, crashes>>
vars == <<poolVars, ctlVars, osVars, procVars, bounds>>

Signals == {"TERM", "HUP", "CHLD"}
PC == {"start", "poll", "signals", "shrink", "release", "listen", "accept",
       "out", "wait", "exited", "killed"}

\* The manager has ended: by returning, or by a SIGPIPE.
Ended == pc \in {"exited", "killed"}

\* A process is "none" (never forked or waited for), "run"ning, "told" to
\* exit (its control socket closed, a SIGTERM sent), "broken" (its own end of
\* the socket closed, as the first thing that happens to a process that
\* crashes), or "dead" (a zombie).
ProcState == {"none", "run", "told", "broken", "dead"}

\* struct worker; "last" is the age of the last deschedule: "never" (zero),
\* "recent", or "old" when it lies more than waittime back.  The cookie is
\* that of the connection: cookies are taken to be distinct.
Worker == [pid: Pid \cup {NoPid}, fd: Conn \cup {NoConn},
           last: {"never", "recent", "old"}]
NewWorker(p) == [pid |-> p, fd |-> NoConn, last |-> "never"]

\* A worker array without processes.
Blank(n) == [i \in 1..n |-> NewWorker(NoPid)]

\* struct pollfd of a worker's control socket.
PollFd == [pid: Pid \cup {NoPid}, re: {"none", "in", "hup"}]
NewPollFd == [pid |-> NoPid, re |-> "none"]

\* A waitpid(2) that succeeds stores the process identifier in "rc": a number
\* larger than any count of descriptors.
PidRc == MaxPool + 2

TypeOK ==
  /\ ws \in Seq(Worker)
  /\ slough \in SUBSET Pid
  /\ pfd \in Seq(PollFd)
  /\ npfd \in 0..MaxPool
  /\ minwsz \in Nat
  /\ accepting \in BOOLEAN
  /\ listenReady \in BOOLEAN
  /\ pc \in PC
  /\ rc \in Int
  /\ idx \in Nat
  /\ flags \in SUBSET Signals
  /\ pending \in SUBSET Signals
  /\ listening \in BOOLEAN
  /\ held \in SUBSET Conn
  /\ arrived \in 0..MaxConn
  /\ accepted \in 0..arrived
  /\ proc \in [Pid -> ProcState]
  /\ job \in [Pid -> Conn \cup {NoConn}]
  /\ outb \in [Pid -> Conn \cup {NoConn, BadCookie}]
  /\ terms \in Nat
  /\ hups \in Nat
  /\ crashes \in Nat

Init ==
  /\ ws = [i \in 1..MinPool |-> NewWorker(NoPid)]
  /\ slough = {}
  /\ pfd = [k \in 1..MinPool |-> NewPollFd]
  /\ npfd = 0
  /\ minwsz = MinPool
  /\ accepting = TRUE
  /\ listenReady = FALSE
  /\ pc = "start"
  /\ rc = 0
  /\ idx = 1
  /\ flags = {}
  /\ pending = {}
  /\ listening = TRUE
  /\ held = {}
  /\ arrived = 0
  /\ accepted = 0
  /\ proc = [p \in Pid |-> "none"]
  /\ job = [p \in Pid |-> NoConn]
  /\ outb = [p \in Pid |-> NoConn]
  /\ terms = 0
  /\ hups = 0
  /\ crashes = 0

-----------------------------------------------------------------------------
(* Helpers *)

IsIdle(w) == w.fd = NoConn
IsBusy(w) == w.fd # NoConn
Expired_never(w) == w.last = "never"
Expired(w) == w.last # "recent"

PoolPids == {ws[i].pid : i \in DOMAIN ws} \ {NoPid}
Disconnected(p) == proc[p] \in {"broken", "dead"}
Dead(S) == {p \in S : proc[p] = "dead"}
Backlog == arrived > accepted

SloughMax == (MaxPool - minwsz) * 2

\* pollagain: the loop starts over.
PollAgain ==
  /\ pc' = "poll"
  /\ rc' = 0
  /\ idx' = 1

\* goto out
GotoOut ==
  /\ pc' = "out"
  /\ UNCHANGED <<rc, idx>>

\* varpool_start forks process p, which closes its copies of the workers'
\* control sockets and of the listening socket.
Fork(p) ==
  /\ proc[p] = "none"
  /\ \A q \in Pid : proc[q] = "none" => p <= q
  /\ proc' = [proc EXCEPT ![p] = "run"]

\* What waiting for the processes in S does to a pending SIGCHLD.
AfterWait(S) ==
  IF /\ WaitClearsPending
     /\ S # {}
     /\ Dead(Pid) \subseteq S
  THEN pending \ {"CHLD"}
  ELSE pending

Reap(S) ==
  /\ pending' = AfterWait(S)
  /\ proc' = [p \in Pid |-> IF p \in S THEN "none" ELSE proc[p]]
  /\ outb' = [p \in Pid |-> IF p \in S THEN NoConn ELSE outb[p]]
  /\ UNCHANGED job

\* A signal kills the manager.  All it has open is closed: the workers
\* notice, and the dead are waited for by init(8).
Killed ==
  /\ pc' = "killed"
  /\ held' = {}
  /\ listening' = FALSE
  /\ proc' = [p \in Pid |-> CASE proc[p] = "run" -> "told"
                              [] proc[p] = "dead" -> "none"
                              [] OTHER -> proc[p]]

-----------------------------------------------------------------------------
(* again: start the initial workers *)

StartWorker ==
  /\ pc = "start"
  /\ idx <= Len(ws)
  /\ \E p \in Pid :
       /\ Fork(p)
       /\ ws' = [ws EXCEPT ![idx] = NewWorker(p)]
  /\ idx' = idx + 1
  /\ UNCHANGED <<slough, pfd, npfd, minwsz, accepting, listenReady, pc, rc,
                 flags, osVars, job, outb, bounds>>

\* calloc fails, the first time or after a restart.
NoArrays ==
  /\ pc = "start"
  /\ CallsMayFail
  /\ idx = 1
  /\ pc' = "exited"
  /\ listening' = FALSE
  /\ held' = {}
  /\ UNCHANGED <<poolVars, rc, idx, flags, pending, arrived, accepted, procVars,
                 bounds>>

StartFails ==
  /\ pc = "start"
  /\ CallsMayFail
  /\ idx <= Len(ws)
  /\ GotoOut
  /\ UNCHANGED <<poolVars, flags, osVars, procVars, bounds>>

Started ==
  /\ pc = "start"
  /\ idx > Len(ws)
  /\ PollAgain
  /\ UNCHANGED <<poolVars, flags, osVars, procVars, bounds>>

-----------------------------------------------------------------------------
(* pollagain: poll with signals unblocked *)

\* What poll(2) finds on the control socket of p.
Readiness(p) ==
  CASE Disconnected(p) -> "hup"
    [] ~Disconnected(p) /\ outb[p] # NoConn -> "in"
    [] OTHER -> "none"

Polled == [k \in DOMAIN pfd |->
             IF k <= npfd THEN [pfd[k] EXCEPT !.re = Readiness(pfd[k].pid)]
                          ELSE pfd[k]]

ListenPolled == IF accepting THEN Backlog ELSE listenReady

NumReady ==
  Cardinality({k \in 1..npfd : Readiness(pfd[k].pid) # "none"})
    + (IF accepting /\ Backlog THEN 1 ELSE 0)

Deliver ==
  /\ flags' = flags \cup pending
  /\ pending' = {}

\* poll returns the number of ready descriptors; zero when it timed out.
Poll ==
  /\ pc = "poll"
  /\ pc' = "signals"
  /\ Deliver
  /\ rc' = NumReady
  /\ pfd' = Polled
  /\ listenReady' = ListenPolled
  /\ UNCHANGED <<ws, slough, npfd, minwsz, accepting, idx, listening, held,
                 arrived, accepted, procVars, bounds>>

\* poll was waiting when a signal came in.
PollInterrupted ==
  /\ pc = "poll"
  /\ pending # {}
  /\ NumReady = 0
  /\ pc' = "signals"
  /\ Deliver
  /\ rc' = -1
  /\ IF EintrKeepsRevents
     THEN UNCHANGED <<pfd, listenReady>>
     ELSE pfd' = Polled /\ listenReady' = ListenPolled
  /\ UNCHANGED <<ws, slough, npfd, minwsz, accepting, idx, listening, held,
                 arrived, accepted, procVars, bounds>>

PollFails ==
  /\ pc = "poll"
  /\ CallsMayFail
  /\ pc' = "out"
  /\ Deliver
  /\ rc' = -1
  /\ UNCHANGED <<poolVars, idx, listening, held, arrived, accepted, procVars,
                 bounds>>

-----------------------------------------------------------------------------
(* What the signals ask for: stop first, then chld, then hup *)

HandleStop ==
  /\ pc = "signals"
  /\ "TERM" \in flags
  /\ GotoOut
  /\ UNCHANGED <<poolVars, flags, osVars, procVars, bounds>>

\* Nobody was told to exit: the dead child must be a worker of the pool.
HandleChldNoSlough ==
  /\ pc = "signals"
  /\ "TERM" \notin flags
  /\ "CHLD" \in flags
  /\ slough = {}
  /\ GotoOut
  /\ UNCHANGED <<poolVars, flags, osVars, procVars, bounds>>

\* What waitpid(2) says of a worker of the pool.
HasDied_notAsked(i) == FALSE
HasDied(i) == proc[ws[i].pid] = "dead"

\* The first dead worker found in the pool is reaped, and all is lost.
HandleChldWorker ==
  /\ pc = "signals"
  /\ "TERM" \notin flags
  /\ "CHLD" \in flags
  /\ slough # {}
  /\ \E i \in DOMAIN ws :
       /\ HasDied(i)
       /\ \A j \in 1..(i - 1) : ~HasDied(j)
       /\ ws' = [ws EXCEPT ![i].pid = NoPid]
       /\ Reap({ws[i].pid})
  /\ GotoOut
  /\ UNCHANGED <<slough, pfd, npfd, minwsz, accepting, listenReady, flags,
                 listening, held, arrived, accepted, bounds>>

ChldServed_notReset == flags
ChldServed == flags \ {"CHLD"}

\* The array's order decides which of the sloughed processes is waited for
\* last; its answer, zero or the process identifier, stays in "rc".
HandleChldSlough ==
  /\ pc = "signals"
  /\ "TERM" \notin flags
  /\ "CHLD" \in flags
  /\ slough # {}
  /\ \A i \in DOMAIN ws : ~HasDied(i)
  /\ flags' = ChldServed
  /\ slough' = slough \ Dead(slough)
  /\ Reap(Dead(slough))
  /\ \/ Dead(slough) # {} /\ rc' = PidRc
     \/ Dead(slough) # slough /\ rc' = 0
  /\ pc' = "shrink"
  /\ UNCHANGED <<ws, pfd, npfd, minwsz, accepting, listenReady, idx,
                 listening, held, arrived, accepted, bounds>>

HandleHup ==
  /\ pc = "signals"
  /\ flags = {"HUP"}
  /\ GotoOut
  /\ UNCHANGED <<poolVars, flags, osVars, procVars, bounds>>

NoSignal ==
  /\ pc = "signals"
  /\ flags = {}
  /\ pc' = "shrink"
  /\ UNCHANGED <<poolVars, rc, idx, flags, osVars, procVars, bounds>>

-----------------------------------------------------------------------------
(* Reduce the pool *)

LastWorker == ws[Len(ws)]

\* The pool is larger than it has to be, and its last worker long idle.
MayShrink ==
  /\ Len(ws) > minwsz
  /\ IsIdle(LastWorker)
  /\ Expired(LastWorker)

\* The assertions on the last worker (kfcgi.c:485-494) and on the result of
\* poll (kfcgi.c:551).  Where one fails, the manager stops.
ShrinkAsserts ==
  /\ Len(ws) > minwsz =>
       /\ IsBusy(LastWorker) \/ LastWorker.last # "never"
       /\ Len(ws) > 1
  /\ MayShrink =>
       /\ LastWorker.pid # NoPid
       /\ pfd[Len(pfd)].pid = NoPid
  /\ rc >= 0

ToRelease ==
  IF rc = 0 THEN PollAgain
            ELSE pc' = "release" /\ UNCHANGED <<rc, idx>>

ShrinkNot ==
  /\ pc = "shrink"
  /\ ShrinkAsserts
  /\ ~MayShrink
  /\ ToRelease
  /\ UNCHANGED <<poolVars, flags, osVars, procVars, bounds>>

SloughFull ==
  /\ pc = "shrink"
  /\ ShrinkAsserts
  /\ MayShrink
  /\ Cardinality(slough) >= SloughMax
  /\ GotoOut
  /\ UNCHANGED <<poolVars, flags, osVars, procVars, bounds>>

\* Close the worker's control socket, send it a SIGTERM, and drop the last
\* element of both arrays.
LetGo == LastWorker

Shrink ==
  /\ pc = "shrink"
  /\ ShrinkAsserts
  /\ MayShrink
  /\ Cardinality(slough) < SloughMax
  /\ LET p == LetGo.pid
     IN  /\ slough' = slough \cup {p}
         /\ proc' = [proc EXCEPT ![p] = IF @ = "run" THEN "told" ELSE @]
  /\ ws' = SubSeq(ws, 1, Len(ws) - 1)
  /\ pfd' = SubSeq(pfd, 1, Len(pfd) - 1)
  /\ ToRelease
  /\ UNCHANGED <<npfd, minwsz, accepting, listenReady, flags, osVars, job,
                 outb, bounds>>

\* The worker is in the slough when one of the arrays cannot be reallocated: if
\* it is that of the workers, it is in the pool as well.
ShrinkNoMemory ==
  /\ pc = "shrink"
  /\ CallsMayFail
  /\ ShrinkAsserts
  /\ MayShrink
  /\ Cardinality(slough) < SloughMax
  /\ LET p == LetGo.pid
     IN  /\ slough' = slough \cup {p}
         /\ proc' = [proc EXCEPT ![p] = IF @ = "run" THEN "told" ELSE @]
  /\ ws' \in {ws, SubSeq(ws, 1, Len(ws) - 1)}
  /\ GotoOut
  /\ UNCHANGED <<pfd, npfd, minwsz, accepting, listenReady, flags, osVars, job,
                 outb, bounds>>

-----------------------------------------------------------------------------
(* Release the workers that wrote their cookie back *)

Releasing == pc = "release" /\ idx <= npfd /\ rc > 0

ReleaseHup ==
  /\ Releasing
  /\ pfd[idx].re = "hup"
  /\ GotoOut
  /\ UNCHANGED <<poolVars, flags, osVars, procVars, bounds>>

ReleaseSkip ==
  /\ Releasing
  /\ pfd[idx].re = "none"
  /\ idx' = idx + 1
  /\ UNCHANGED <<poolVars, pc, rc, flags, osVars, procVars, bounds>>

\* The slots after slot k is freed: the last one in use moves into it.
FreeSlot_notMoved(k) == [pfd EXCEPT ![npfd] = [pfd[npfd] EXCEPT !.pid = NoPid]]
FreeSlot(k) ==
  [pfd EXCEPT ![k] = pfd[npfd], ![npfd] = [pfd[npfd] EXCEPT !.pid = NoPid]]

\* The worker that has cookie c: the first in the array.
HasCookie_anyBusy(i, c) == IsBusy(ws[i])
HasCookie(i, c) == ws[i].fd = c

\* close(2) of the manager's copy of connection c.
CloseConn_forgotten(c) == held
CloseConn(c) == held \ {c}

\* A free worker ends rate limiting.
AcceptingAfterRelease_stays == accepting
AcceptingAfterRelease == TRUE

\* fullread waits for the cookie.  A cookie no worker has ends the manager.
Release ==
  /\ Releasing
  /\ pfd[idx].re = "in"
  /\ LET p == pfd[idx].pid
         c == outb[p]
     IN  /\ c # NoConn
         /\ outb' = [outb EXCEPT ![p] = NoConn]
         /\ \/ /\ \A i \in DOMAIN ws : ~HasCookie(i, c)
               /\ GotoOut
               /\ UNCHANGED <<ws, held, pfd, npfd, accepting>>
            \/ \E i \in DOMAIN ws :
               /\ HasCookie(i, c)
               /\ \A j \in 1..(i - 1) : ~HasCookie(j, c)
               /\ ws' = [ws EXCEPT ![i].fd = NoConn, ![i].last = "recent"]
               /\ held' = CloseConn(ws[i].fd)
               /\ pfd' = FreeSlot(idx)
               /\ npfd' = npfd - 1
               /\ accepting' = AcceptingAfterRelease
               /\ rc' = rc - 1
               /\ UNCHANGED <<pc, idx>>
  /\ UNCHANGED <<slough, minwsz, listenReady, flags, pending, listening,
                 arrived, accepted, proc, job, bounds>>

\* fullread finds the end of the stream.
ReleaseEof ==
  /\ Releasing
  /\ pfd[idx].re = "in"
  /\ outb[pfd[idx].pid] = NoConn
  /\ Disconnected(pfd[idx].pid)
  /\ GotoOut
  /\ UNCHANGED <<poolVars, flags, osVars, procVars, bounds>>

Released ==
  /\ pc = "release"
  /\ ~Releasing
  /\ pc' = "listen"
  /\ UNCHANGED <<poolVars, rc, idx, flags, osVars, procVars, bounds>>

-----------------------------------------------------------------------------
(* Accept a connection and hand it to a worker *)

NothingToAccept ==
  /\ pc = "listen"
  /\ ~(accepting /\ listenReady)
  /\ PollAgain
  /\ UNCHANGED <<poolVars, flags, osVars, procVars, bounds>>

AllBusy_offByOne == npfd > Len(pfd)
AllBusy == npfd = Len(pfd)

RoomToGrow_offByOne == Len(ws) <= MaxPool
RoomToGrow == Len(ws) + 1 <= MaxPool

RateLimit ==
  /\ pc = "listen"
  /\ accepting /\ listenReady
  /\ AllBusy
  /\ ~RoomToGrow
  /\ accepting' = FALSE
  /\ PollAgain
  /\ UNCHANGED <<ws, slough, pfd, npfd, minwsz, listenReady, flags, osVars,
                 procVars, bounds>>

Grow ==
  /\ pc = "listen"
  /\ accepting /\ listenReady
  /\ AllBusy
  /\ RoomToGrow
  /\ \E p \in Pid :
       /\ Fork(p)
       /\ ws' = Append(ws, NewWorker(p))
       /\ pfd' = Append(pfd, NewPollFd)
  /\ pc' = "accept"
  /\ UNCHANGED <<slough, npfd, minwsz, accepting, listenReady, rc, idx,
                 flags, osVars, job, outb, bounds>>

GrowFails ==
  /\ pc = "listen"
  /\ CallsMayFail
  /\ accepting /\ listenReady
  /\ AllBusy
  /\ RoomToGrow
  /\ GotoOut
  /\ UNCHANGED <<poolVars, flags, osVars, procVars, bounds>>

GrowNot ==
  /\ pc = "listen"
  /\ accepting /\ listenReady
  /\ ~AllBusy
  /\ pc' = "accept"
  /\ UNCHANGED <<poolVars, rc, idx, flags, osVars, procVars, bounds>>

\* accept(2) blocks while nobody connects.  The connection goes to the first
\* idle worker, which is polled from now on.  The slot's revents are not
\* reset.
TakeConn(i) ==
  /\ pc = "accept"
  /\ Backlog
  /\ IsIdle(ws[i])
  /\ \A j \in 1..(i - 1) : IsBusy(ws[j])
  /\ accepted' = accepted + 1
  /\ ws' = [ws EXCEPT ![i].fd = accepted + 1]
  /\ pfd' = [pfd EXCEPT ![npfd + 1].pid = ws[i].pid]
  /\ npfd' = npfd + 1
  /\ UNCHANGED <<slough, minwsz, accepting, listenReady, flags, pending,
                 arrived, outb, bounds>>

Accept ==
  \E i \in DOMAIN ws :
    /\ TakeConn(i)
    /\ ~Disconnected(ws[i].pid)
    /\ job' = [job EXCEPT ![ws[i].pid] = accepted + 1]
    /\ held' = held \cup {accepted + 1}
    /\ PollAgain
    /\ UNCHANGED <<proc, listening>>

AcceptError ==
  /\ pc = "accept"
  /\ CallsMayFail
  /\ GotoOut
  /\ UNCHANGED <<poolVars, flags, osVars, procVars, bounds>>

\* The worker has crashed: fullwritefd sees the disconnect, or sendmsg(2)
\* raises a SIGPIPE that nobody catches.
AcceptFails ==
  \E i \in DOMAIN ws :
    /\ TakeConn(i)
    /\ Disconnected(ws[i].pid)
    /\ \/ /\ held' = held \cup {accepted + 1}
          /\ GotoOut
          /\ UNCHANGED <<proc, listening>>
       \/ /\ Killed
          /\ UNCHANGED <<rc, idx>>
    /\ UNCHANGED job

-----------------------------------------------------------------------------
(* out: stop the workers, wait for them, then exit or start again *)

\* if (hup)
WantsRestart_always == TRUE
WantsRestart == "HUP" \in flags

\* The workers of the pool, their sockets closed and a SIGTERM sent.
TellPool == [p \in Pid |-> IF p \in PoolPids /\ proc[p] = "run"
                          THEN "told" ELSE proc[p]]

Out ==
  /\ pc = "out"
  /\ pc' = "wait"
  /\ listening' = WantsRestart
  /\ proc' = TellPool
  /\ UNCHANGED <<poolVars, rc, idx, flags, pending, held, arrived, accepted,
                 job, outb, bounds>>

Children_poolOnly == PoolPids
Children == PoolPids \cup slough

Waited ==
  /\ pc = "wait"
  /\ Children = Dead(Children)
  /\ Reap(Children)
  /\ slough' = {}

\* The size of the pool that is started again is the size it had.
Restart ==
  /\ Waited
  /\ WantsRestart
  /\ minwsz' = Len(ws)
  /\ ws' = Blank(Len(ws))
  /\ pfd' = [k \in 1..Len(ws) |-> NewPollFd]
  /\ npfd' = 0
  /\ accepting' = TRUE
  /\ listenReady' = FALSE
  /\ flags' = {}
  /\ pc' = "start"
  /\ rc' = 0
  /\ idx' = 1
  /\ UNCHANGED <<listening, held, arrived, accepted, bounds>>

\* Returning from main closes what is left.
Exit ==
  /\ Waited
  /\ ~WantsRestart
  /\ pc' = "exited"
  /\ held' = {}
  /\ UNCHANGED <<ws, pfd, npfd, minwsz, accepting, listenReady, rc, idx,
                 flags, listening, arrived, accepted, bounds>>

-----------------------------------------------------------------------------
(* Clients, workers, the operator, and time *)

Connect ==
  /\ listening
  /\ arrived < MaxConn
  /\ arrived' = arrived + 1
  /\ UNCHANGED <<poolVars, ctlVars, pending, listening, held, accepted,
                 procVars, bounds>>

\* The worker is done with its connection.  Its control socket may be gone.
Finish(p) ==
  /\ proc[p] \in {"run", "told"}
  /\ job[p] # NoConn
  /\ outb[p] # BadCookie
  /\ job' = [job EXCEPT ![p] = NoConn]
  /\ outb' = [outb EXCEPT ![p] = IF proc[p] = "run" THEN job[p] ELSE @]
  /\ UNCHANGED <<poolVars, ctlVars, osVars, proc, bounds>>

\* A faulty worker writes something else than its cookie.
Babble(p) ==
  /\ proc[p] = "run"
  /\ job[p] # NoConn
  /\ crashes < MaxCrash
  /\ crashes' = crashes + 1
  /\ outb' = [outb EXCEPT ![p] = BadCookie]
  /\ UNCHANGED <<poolVars, ctlVars, osVars, proc, job, terms, hups>>

\* A worker crashes: its descriptors are closed, then the process ends.
WorkerCrash(p) ==
  /\ proc[p] = "run"
  /\ crashes < MaxCrash
  /\ crashes' = crashes + 1
  /\ proc' = [proc EXCEPT ![p] = "broken"]
  /\ job' = [job EXCEPT ![p] = NoConn]
  /\ UNCHANGED <<poolVars, ctlVars, osVars, outb, terms, hups>>

\* A process ends; its parent, while there is one, gets a SIGCHLD.
WorkerExit(p) ==
  /\ proc[p] \in {"told", "broken"}
  /\ proc' = [proc EXCEPT ![p] = IF Ended THEN "none" ELSE "dead"]
  /\ job' = [job EXCEPT ![p] = NoConn]
  /\ pending' = IF Ended THEN pending ELSE pending \cup {"CHLD"}
  /\ UNCHANGED <<poolVars, ctlVars, listening, held, arrived, accepted, outb,
                 bounds>>

SendTerm ==
  /\ ~Ended
  /\ terms < MaxTerm
  /\ terms' = terms + 1
  /\ pending' = pending \cup {"TERM"}
  /\ UNCHANGED <<poolVars, ctlVars, listening, held, arrived, accepted,
                 procVars, hups, crashes>>

SendHup ==
  /\ ~Ended
  /\ hups < MaxHup
  /\ hups' = hups + 1
  /\ pending' = pending \cup {"HUP"}
  /\ UNCHANGED <<poolVars, ctlVars, listening, held, arrived, accepted,
                 procVars, terms, crashes>>

\* waittime goes by.
Age(i) ==
  /\ ~Ended
  /\ ws[i].last = "recent"
  /\ ws' = [ws EXCEPT ![i].last = "old"]
  /\ UNCHANGED <<slough, pfd, npfd, minwsz, accepting, listenReady, ctlVars,
                 osVars, procVars, bounds>>

\* There is nothing left to do.
Over ==
  /\ Ended
  /\ \A p \in Pid : proc[p] = "none"
  /\ UNCHANGED vars

-----------------------------------------------------------------------------

Manager ==
  \/ NoArrays \/ StartWorker \/ StartFails \/ Started
  \/ Poll \/ PollInterrupted \/ PollFails
  \/ HandleStop \/ HandleChldNoSlough \/ HandleChldWorker
  \/ HandleChldSlough \/ HandleHup \/ NoSignal
  \/ ShrinkNot \/ SloughFull \/ Shrink \/ ShrinkNoMemory
  \/ ReleaseHup \/ ReleaseSkip \/ Release \/ ReleaseEof \/ Released
  \/ NothingToAccept \/ RateLimit \/ Grow \/ GrowFails \/ GrowNot
  \/ Accept \/ AcceptError \/ AcceptFails
  \/ Out \/ Restart \/ Exit

Environment ==
  \/ Connect
  \/ \E p \in Pid : \/ Finish(p) \/ Babble(p)
                    \/ WorkerExit(p) \/ WorkerCrash(p)
  \/ SendTerm \/ SendHup
  \/ \E i \in DOMAIN ws : Age(i)

Next == Manager \/ Environment \/ Over

Spec == Init /\ [][Next]_vars

\* accept(2) waits for a client: the listening socket blocks, signals are
\* blocked, and poll(2) was not asked (see EintrKeepsRevents).
InAccept == pc = "accept" /\ ~Backlog

\* The manager is a running process, but nothing makes an accept(2) that waits
\* return; workers finish what they are given and exit when told to; time
\* passes.  Nobody has to connect or send a signal.
Fairness ==
  /\ WF_vars(~InAccept /\ Manager)
  /\ \A p \in Pid : WF_vars(Finish(p)) /\ WF_vars(WorkerExit(p))
  /\ WF_vars(\E i \in DOMAIN ws : Age(i))

FairSpec == Spec /\ Fairness

-----------------------------------------------------------------------------
(* Safety *)

\* The manager is in its main loop.
InLoop == pc \in {"poll", "signals", "shrink", "release", "listen", "accept"}

\* The polled control sockets are those of the busy workers, each of them
\* once, with a slot for every worker (kfcgi.c:592-611, 616-633, 680-690): a
\* worker that is not polled would never be released, one polled twice would
\* have its answer read twice.
PolledAreBusy ==
  InLoop =>
    /\ Len(pfd) = Len(ws)
    /\ npfd <= Len(pfd)
    /\ \A i \in DOMAIN ws :
         IsBusy(ws[i]) => \E k \in 1..npfd : pfd[k].pid = ws[i].pid
    /\ \A k \in 1..npfd :
         \E i \in DOMAIN ws : IsBusy(ws[i]) /\ ws[i].pid = pfd[k].pid
    /\ \A k, l \in 1..npfd : pfd[k].pid = pfd[l].pid => k = l

\* The manager's view of a worker is what the worker does: the connection it
\* works on, or whose cookie it wrote back, is the one the manager recorded
\* for it, and no other worker has it.
WorkersAgree ==
  InLoop =>
    /\ \A i \in DOMAIN ws :
         LET p == ws[i].pid
         IN  /\ job[p] # NoConn => job[p] = ws[i].fd
             /\ outb[p] \in Conn => outb[p] = ws[i].fd /\ job[p] = NoConn
    /\ \A i, j \in DOMAIN ws :
         i # j => /\ ws[i].pid # ws[j].pid
                  /\ IsBusy(ws[i]) => ws[i].fd # ws[j].fd
    /\ \A i \in DOMAIN ws : ws[i].pid \notin slough

\* The pool has at least the workers asked for with -n and at most those
\* asked for with -N.
PoolSize == InLoop => MinPool <= Len(ws) /\ Len(ws) <= MaxPool

\* No assertion of varpool fails: not those on the worker that may be let go
\* and on the result of poll (kfcgi.c:485-494, 551), nor the one that there is
\* an idle worker for a connection just accepted (kfcgi.c:681).
AssertsHold ==
  /\ pc = "shrink" => ShrinkAsserts
  /\ pc = "accept" => \E i \in DOMAIN ws : IsIdle(ws[i])

\* The manager only gives up for a reason: it was asked to, a worker died by
\* itself, a system call failed, or too many workers are slow to exit.  In particular
\* it never takes the exit of a worker it let go for a crash (kfcgi.c:416-424),
\* whatever the order in which children die, SIGCHLD is delivered and waitpid is
\* called.  It takes WaitClearsPending.
OnlyWithReason ==
  pc = "out" => \/ {"TERM", "HUP"} \cap flags # {}
                \/ crashes > 0
                \/ CallsMayFail
                \/ Cardinality(slough) >= SloughMax

\* When the manager has exited, every process it started has been waited for:
\* the workers of the pool and those it let go before (kfcgi.c:722-740).
NoChildLeft == pc = "exited" => \A p \in Pid : proc[p] = "none"

\* The manager closes its copy of a connection only when the worker that has
\* it is done with it, as long as it runs (kfcgi.c:577-597).
ReleasedWhenDone ==
  [][\A c \in held \ held' :
       Ended' \/ \A p \in Pid : job[p] # c]_vars

\* No client waits for the manager itself.  New connections are only left in the
\* backlog when no worker could take one (kfcgi.c:616-622): the pool is at its
\* maximum and every worker busy; otherwise nothing would ever turn accepting on
\* again.  And until a restart it has open the connections that its busy
\* workers work on, and no others: a copy it forgot would keep the client
\* waiting for the end of the stream (kfcgi.c:591).
RateLimitedOnlyWhenFull ==
  ~accepting => Len(ws) = MaxPool /\ \A i \in DOMAIN ws : IsBusy(ws[i])
HeldAreActive ==
  hups = 0 => held = {ws[i].fd : i \in DOMAIN ws} \ {NoConn}
KeepsNoneWaiting == InLoop => RateLimitedOnlyWhenFull /\ HeldAreActive

-----------------------------------------------------------------------------
(* Liveness *)

\* These hold unless the manager waits in accept(2) for a client that does not
\* come (kfcgi.c:665): there it does nothing else, and is deaf to every signal.

\* A connection the manager had open when it was restarted: it is never closed.
LeftOpen(c) == c \in held /\ hups > 0 /\ \A i \in DOMAIN ws : ws[i].fd # c

\* Every connection is accepted and, once its worker is done, closed by the
\* manager, unless the manager ends or is restarted meanwhile, so that again and
\* again nobody is waiting: no wake-up is lost, whichever way poll, rate
\* limiting, growing and shrinking interleave.
Served ==
  []<>(\/ \A c \in 1..arrived : accepted >= c /\ (c \notin held \/ LeftOpen(c))
       \/ Ended \/ InAccept)

\* A pool grown by a burst gets back to its minimum when the burst is over.  A
\* restart makes the size it finds the minimum (kfcgi.c:341).
ShrinksBack == []<>(Len(ws) = minwsz \/ Ended \/ InAccept)

\* A SIGTERM ends the manager, whatever it was doing when the signal came,
\* unless one wakeup brings a SIGHUP with it: then it goes to "out" for the one
\* and "again" for the other, where both are forgotten (kfcgi.c:406, 746).
TermStops ==
  "TERM" \in pending ~> Ended \/ InAccept \/ {"TERM", "HUP"} \subseteq flags

\* The death of a worker does not go unnoticed: the dead do not stay in the
\* pool.  Either the manager ends, or it was about to let that worker go.
DeathNoticed == []<>(Dead(PoolPids) = {} \/ InAccept)

-----------------------------------------------------------------------------
(* What the documentation says and the code does not do *)

\* kfcgi(8): after a SIGHUP the workers are restarted; a restart ends the
\* manager only if something goes wrong.
HupRestarts == pc = "exited" => terms + crashes > 0

\* kfcgi(8): "To properly stop a kfcgi server, send it a SIGTERM", whatever
\* other signal is on its way.
TermEnds == "TERM" \in pending ~> Ended

=============================================================================

------------------------------ MODULE ProcessProofs ------------------------------
(***************************************************************************)
(* Proofs about the processes of an application: how their manager starts  *)
(* (Kfcgi), how it keeps a pool of a fixed size (Fixedpool), and which     *)
(* descriptors each of them holds (Descriptors).                           *)
(***************************************************************************)
EXTENDS Kfcgi, Fixedpool, Descriptors, TLAPS

-----------------------------------------------------------------------------
(* The start of the manager.                                               *)

Stages == {"getopt", "getpwnam", "socket", "unlink", "bind", "chown", "listen", "chroot",
           "setgid", "setuid", "regain", "calloc", "daemon", "pool", "failed", "aborted"}
NoSocket == {"getopt", "getpwnam", "socket", "aborted"}
AsRoot == NoSocket \cup {"unlink", "bind", "chown", "listen", "chroot"}
Ready == {"calloc", "daemon", "pool"}

\* The socket has come as far as the start has.
SocketInv ==
  /\ stage \in NoSocket => fd = "none"
  /\ stage \in {"unlink", "bind"} => fd = "open"
  /\ stage \in {"chown", "listen"} => fd = "bound"
  /\ stage \in {"chroot", "setgid", "setuid", "regain"} \cup Ready => fd = "listening"
  /\ stage = "failed" => fd \in {"none", "closed"}

\* Its file is the manager's own, and from chown on that of -u's user.
FileInv ==
  /\ stage = "chown" => file = "root"
  /\ stage \in {"listen", "chroot", "setgid", "setuid", "regain"} \cup Ready =>
       file = IF opts.u = "none" THEN "root" ELSE opts.u

\* The privileges go after the jail is entered, the group before the user, and the
\* user of -U cannot be root.
CredsInv ==
  /\ creds = [uid |-> creds.uid, gid |-> creds.gid, jailed |-> creds.jailed]
  /\ stage \in AsRoot => creds = [uid |-> "root", gid |-> "root", jailed |-> FALSE]
  /\ stage \in {"setgid", "setuid", "regain"} => opts.U # "none" /\ creds.jailed
  /\ stage = "setgid" => creds.uid = "root"
  /\ stage = "setuid" => creds.uid = "root" /\ creds.gid = opts.U
  /\ stage = "regain" => creds.uid = opts.U /\ creds.gid = opts.U
  /\ stage \in Ready =>
       /\ creds.jailed /\ opts.U # "root"
       /\ creds.uid = (IF opts.U = "none" THEN "root" ELSE opts.U) /\ creds.gid = creds.uid

\* The arguments of the pool are those that getopt came to.
PoolInv ==
  stage \notin {"getopt", "failed"} =>
    /\ ~Refused
    /\ pool = [varp |-> Variable, wsz |-> opts.n, maxwsz |-> Maximum, lsz |-> Backlog]
    /\ stage # "aborted" => Backlog # 0

StartInv ==
  /\ opts \in Options /\ stage \in Stages
  /\ SocketInv /\ FileInv /\ CredsInv /\ PoolInv

LEMMA StartInit == KInit => StartInv
BY DEF KInit, StartInv, Stages, SocketInv, FileInv, CredsInv, PoolInv, NoSocket, AsRoot, Ready

\* A step that ends the start, leaving the rest of the invariant alone.
LEMMA GivesUpInv ==
  ASSUME StartInv, NEW from \in Stages, Quit(from) PROVE StartInv'
BY DEF StartInv, Quit, Go, Stages, SocketInv, FileInv, CredsInv, PoolInv, NoSocket, AsRoot, Ready

LEMMA LeavesInv ==
  ASSUME StartInv, NEW from \in Stages, Leave(from) \/ LeaveUnlinked(from) PROVE StartInv'
BY GivesUpInv DEF Leave, LeaveUnlinked

\* A step that goes on leaves the options and the pool alone.
LEMMA PoolStays ==
  ASSUME PoolInv, UNCHANGED <<opts, pool>>, stage \notin {"getopt", "failed", "aborted"},
         stage' # "aborted"
  PROVE  PoolInv'
BY DEF PoolInv, Refused, Bounded, Variable, Maximum, Backlog

LEMMA GetoptInv == ASSUME StartInv, Getopt PROVE StartInv'
<1>1. CASE Leave("getopt")
  BY <1>1, LeavesInv DEF Stages
<1>2. CASE ~Leave("getopt")
  <2>1. /\ ~Refused /\ Go("getopt", IF Backlog = 0 THEN "aborted" ELSE "getpwnam")
        /\ pool' = [varp |-> Variable, wsz |-> opts.n, maxwsz |-> Maximum, lsz |-> Backlog]
        /\ UNCHANGED <<opts, fd, file, creds>>
    BY <1>2 DEF Getopt
  <2>2. PoolInv'
    BY <2>1 DEF PoolInv, Go, Refused, Bounded, Variable, Maximum, Backlog
  <2> QED
    BY <2>1, <2>2 DEF StartInv, Go, Stages, SocketInv, FileInv, CredsInv, NoSocket, AsRoot, Ready
<1> QED
  BY <1>1, <1>2

LEMMA ChrootInv == ASSUME StartInv, Chroot PROVE StartInv'
<1>1. CASE Leave("chroot") \/ LeaveUnlinked("chroot")
  BY <1>1, LeavesInv DEF Stages
<1>2. CASE ~(Leave("chroot") \/ LeaveUnlinked("chroot"))
  <2>1. /\ stage = "chroot" /\ stage' = (IF opts.U = "none" THEN "calloc" ELSE "setgid")
        /\ creds' = [creds EXCEPT !.jailed = TRUE] /\ UNCHANGED <<opts, fd, file, pool>>
    BY <1>2 DEF Chroot, Go
  <2>2. /\ fd = "listening" /\ creds = [uid |-> "root", gid |-> "root", jailed |-> FALSE]
        /\ file = IF opts.u = "none" THEN "root" ELSE opts.u
    BY <2>1 DEF StartInv, SocketInv, FileInv, CredsInv, AsRoot
  <2>3. creds' = [uid |-> "root", gid |-> "root", jailed |-> TRUE]
    BY <2>1, <2>2
  <2>4. PoolInv'
    BY <2>1, PoolStays DEF StartInv
  <2>5. SocketInv' /\ FileInv'
    BY <2>1, <2>2 DEF SocketInv, FileInv, NoSocket, Ready
  <2>6. CredsInv'
    <3>1. /\ creds'.uid = "root" /\ creds'.gid = "root" /\ creds'.jailed
          /\ creds' = [uid |-> creds'.uid, gid |-> creds'.gid, jailed |-> creds'.jailed]
      BY <2>3
    <3>2. CASE opts.U = "none"
      <4>1. stage' = "calloc" /\ opts'.U = "none"
        BY <2>1, <3>2
      <4> QED
        BY <3>1, <4>1 DEF CredsInv, AsRoot, NoSocket, Ready
    <3>3. CASE opts.U # "none"
      <4>1. stage' = "setgid" /\ opts'.U # "none"
        BY <2>1, <3>3
      <4> QED
        BY <3>1, <4>1 DEF CredsInv, AsRoot, NoSocket, Ready
    <3> QED
      BY <3>2, <3>3
  <2> QED
    BY <2>1, <2>4, <2>5, <2>6 DEF StartInv, Stages
<1> QED
  BY <1>1, <1>2

\* The steps after getopt: each gives up, or goes on.
LEMMA OthersInv ==
  ASSUME StartInv, KNext, ~Getopt PROVE StartInv'
<1> USE DEF StartInv, Go, Stages, SocketInv, FileInv, CredsInv, NoSocket, AsRoot, Ready
<1>1. CASE Getpwnam
  <2>1. CASE Leave("getpwnam")
    BY <2>1, LeavesInv
  <2>2. CASE Go("getpwnam", "socket") /\ UNCHANGED <<opts, fd, file, creds, pool>>
    BY <2>2, PoolStays
  <2> QED
    BY <1>1, <2>1, <2>2 DEF Getpwnam
<1>2. CASE OpenSocket
  <2>1. CASE Leave("socket")
    BY <2>1, LeavesInv
  <2>2. CASE Go("socket", "unlink") /\ fd' = "open" /\ UNCHANGED <<opts, file, creds, pool>>
    BY <2>2, PoolStays
  <2> QED
    BY <1>2, <2>1, <2>2 DEF OpenSocket
<1>3. CASE Unlink
  <2>1. CASE Leave("unlink")
    BY <2>1, LeavesInv
  <2>2. CASE Go("unlink", "bind") /\ file' = "none" /\ UNCHANGED <<opts, fd, creds, pool>>
    BY <2>2, PoolStays
  <2> QED
    BY <1>3, <2>1, <2>2 DEF Unlink
<1>4. CASE Bind
  <2>1. CASE Leave("bind")
    BY <2>1, LeavesInv
  <2>2. CASE ~Leave("bind")
    <3>1. /\ Go("bind", "chown") /\ fd' = "bound" /\ file' = creds.uid
          /\ UNCHANGED <<opts, creds, pool>>
      BY <1>4, <2>2 DEF Bind
    <3> QED
      BY <3>1, PoolStays
  <2> QED
    BY <2>1, <2>2
<1>5. CASE Chown
  <2>1. CASE Leave("chown")
    BY <2>1, LeavesInv
  <2>2. CASE ~Leave("chown")
    <3>1. /\ Go("chown", "listen")
          /\ file' = IF opts.u = "none" THEN file ELSE opts.u
          /\ UNCHANGED <<opts, fd, creds, pool>>
      BY <1>5, <2>2 DEF Chown
    <3> QED
      BY <3>1, PoolStays
  <2> QED
    BY <2>1, <2>2
<1>6. CASE ListenOn
  <2>1. CASE Leave("listen")
    BY <2>1, LeavesInv
  <2>2. CASE Go("listen", "chroot") /\ fd' = "listening" /\ UNCHANGED <<opts, file, creds, pool>>
    BY <2>2, PoolStays
  <2> QED
    BY <1>6, <2>1, <2>2 DEF ListenOn
<1>7. CASE Chroot
  BY <1>7, ChrootInv
<1>8. CASE Setgid
  <2>1. CASE Leave("setgid")
    BY <2>1, LeavesInv
  <2>2. CASE ~Leave("setgid")
    <3>1. /\ Go("setgid", "setuid") /\ creds' = [creds EXCEPT !.gid = opts.U]
          /\ UNCHANGED <<opts, fd, file, pool>>
      BY <1>8, <2>2 DEF Setgid
    <3> QED
      BY <3>1, PoolStays
  <2> QED
    BY <2>1, <2>2
<1>9. CASE Setuid
  <2>1. CASE Leave("setuid")
    BY <2>1, LeavesInv
  <2>2. CASE ~Leave("setuid")
    <3>1. /\ Go("setuid", "regain") /\ creds' = [creds EXCEPT !.uid = opts.U]
          /\ UNCHANGED <<opts, fd, file, pool>>
      BY <1>9, <2>2 DEF Setuid
    <3> QED
      BY <3>1, PoolStays
  <2> QED
    BY <2>1, <2>2
<1>10. CASE Regain
  <2>1. CASE Leave("regain")
    BY <2>1, LeavesInv
  <2>2. CASE creds.uid # "root" /\ Go("regain", "calloc") /\ UNCHANGED <<opts, fd, file, creds, pool>>
    BY <2>2, PoolStays
  <2> QED
    BY <1>10, <2>1, <2>2 DEF Regain
<1>11. CASE Calloc
  <2>1. CASE Leave("calloc")
    BY <2>1, LeavesInv
  <2>2. CASE Go("calloc", "daemon") /\ UNCHANGED <<opts, fd, file, creds, pool>>
    BY <2>2, PoolStays
  <2> QED
    BY <1>11, <2>1, <2>2 DEF Calloc
<1>12. CASE Daemon
  <2>1. CASE LeaveUnlinked("daemon")
    BY <2>1, LeavesInv
  <2>2. CASE Go("daemon", "pool") /\ UNCHANGED <<opts, fd, file, creds, pool>>
    BY <2>2, PoolStays
  <2> QED
    BY <1>12, <2>1, <2>2 DEF Daemon
<1> QED
  BY <1>1, <1>2, <1>3, <1>4, <1>5, <1>6, <1>7, <1>8, <1>9, <1>10, <1>11, <1>12 DEF KNext

LEMMA StutterInv == ASSUME StartInv, UNCHANGED kvars PROVE StartInv'
BY DEF StartInv, kvars, Stages, SocketInv, FileInv, CredsInv, PoolInv, NoSocket, AsRoot, Ready,
       Refused, Bounded, Variable, Maximum, Backlog

\* What getopt came to is what the options ask for.
LEMMA PoolAsAsked ==
  ASSUME KfcgiAssumption, opts \in Options, ~Refused, Backlog # 0
  PROVE  /\ Variable => opts.r /\ (opts.n < Maximum \/ opts.n = 0)
         /\ ~Variable /\ opts.r => opts.N = opts.n
         /\ opts.l = Absent => Backlog > 0 /\ Backlog >= opts.n
         /\ Variable /\ opts.l = Absent => Backlog >= Maximum
<1>1. /\ opts.n \in Nat /\ opts.N \in Nat \cup {-1} /\ opts.l \in Nat \cup {-1}
      /\ opts.r \in BOOLEAN
  BY DEF Options, KfcgiAssumption, Absent
<1>2. Bounded => opts.N \in Nat /\ opts.N >= opts.n
  BY <1>1 DEF Refused, Bounded, Absent
<1>3. Maximum \in Nat /\ (Bounded => Maximum = opts.N) /\ (~Bounded => Maximum = opts.n * 2)
  BY <1>1, <1>2 DEF Maximum
<1>4. Variable => opts.r /\ (opts.n < Maximum \/ opts.n = 0)
  BY <1>1, <1>2, <1>3 DEF Variable
<1>5. ~Variable /\ opts.r => opts.N = opts.n
  BY <1>1 DEF Variable
<1>6. ASSUME opts.l = Absent PROVE Backlog = (IF Variable THEN Maximum ELSE opts.n) * 2
  BY <1>6 DEF Backlog
<1>7. Maximum >= opts.n
  BY <1>1, <1>2, <1>3
<1> QED
  BY <1>1, <1>3, <1>4, <1>5, <1>6, <1>7

LEMMA StartInvImplies ==
  ASSUME KfcgiAssumption, StartInv PROVE StartsAsAsked
<1>1. ASSUME stage = "pool" PROVE
        /\ fd = "listening" /\ creds.jailed
        /\ file = IF opts.u = "none" THEN "root" ELSE opts.u
        /\ creds.uid = (IF opts.U = "none" THEN "root" ELSE opts.U) /\ creds.gid = creds.uid
        /\ opts.U # "root"
  BY <1>1 DEF StartInv, SocketInv, FileInv, CredsInv, Ready
<1>2. ASSUME stage = "pool" PROVE
        /\ ~Refused /\ Backlog # 0
        /\ pool.varp = Variable /\ pool.wsz = opts.n /\ pool.maxwsz = Maximum /\ pool.lsz = Backlog
  BY <1>2 DEF StartInv, PoolInv
<1>3. ASSUME stage = "pool" PROVE
        /\ Variable => opts.r /\ (opts.n < Maximum \/ opts.n = 0)
        /\ ~Variable /\ opts.r => opts.N = opts.n
        /\ opts.l = Absent => Backlog > 0 /\ Backlog >= opts.n
        /\ Variable /\ opts.l = Absent => Backlog >= Maximum
  BY <1>2, <1>3, PoolAsAsked DEF StartInv
<1>4. stage = "failed" => fd \in {"none", "closed"}
  BY DEF StartInv, SocketInv
<1> QED
  BY <1>1, <1>2, <1>3, <1>4 DEF StartsAsAsked

\* However the options are given, and whichever of its steps fail: a manager that
\* gets to its pool has entered the jail, has given up what privileges it was told
\* to, listens on a socket with the owner it was told to give it, and calls the
\* pool it was asked for with arguments that pool may rely on; one that fails
\* does not listen (kfcgi.c:972-1117).
THEOREM StartsAsAskedHolds ==
  ASSUME KfcgiAssumption PROVE KSpec => []StartsAsAsked
<1>1. KInit => StartInv
  BY StartInit
<1>2. StartInv /\ [KNext]_kvars => StartInv'
  BY GetoptInv, OthersInv, StutterInv
<1>3. StartInv => StartsAsAsked
  BY StartInvImplies
<1> QED
  BY <1>1, <1>2, <1>3, PTL DEF KSpec

-----------------------------------------------------------------------------
(* A fixed pool, for any number of workers, signals, deaths and failing    *)
(* forks.  Why the manager leaves its loop depends on what is left of the  *)
(* SIGCHLDs of the workers it stopped itself when it starts again.  Two    *)
(* systems leave none: one drops a signal that is blocked and would be     *)
(* ignored, the other takes it back when the child is waited for.          *)
(* QuietRestart says that the system is one of these.                      *)

QuietRestart == WaitClearsPending \/ BlockedDflDropped

\* While the workers are stopped, and only then, SIGCHLD is suppressed.
Suppressed == chldDfl <=> pc \in {"kill", "wait"}

\* Nobody is told to exit before all are, and nobody is left at the end.
Stopping ==
  /\ pc # "wait" => \A s \in Pool : proc[s] # "told"
  /\ pc = "wait" => \A s \in Pool : proc[s] # "run"
  /\ pc = "exited" => \A s \in Pool : proc[s] = "none"

\* The socket is open, or being closed for good.
Listens ==
  /\ pc \in {"start", "suspend", "out"} => listening
  /\ pc \in {"kill", "wait"} => (listening <=> "HUP" \in flags)

\* A complete pool has a process, dead or alive, in every slot.
Complete ==
  /\ pc = "suspend" => started
  /\ pc \in {"start", "suspend"} /\ started => \A s \in Pool : proc[s] # "none"

FixedInv == TypeOK /\ Suppressed /\ Stopping /\ Listens /\ Complete

\* Before the first worker dies by itself, a SIGCHLD is only ever pending while
\* the workers that were stopped are waited for, or after the end.
Quiet ==
  crashes = 0 =>
    /\ "CHLD" \notin flags
    /\ pc \notin {"wait", "exited"} => "CHLD" \notin pending
    /\ pc = "wait" /\ BlockedDflDropped => "CHLD" \notin pending
    /\ pc # "wait" => \A s \in Pool : proc[s] # "dead"

-----------------------------------------------------------------------------
(* The invariant *)

LEMMA InitFixedInv == FixedAssumption /\ FInit => FixedInv /\ Quiet /\ OnlyWithReason
<1> SUFFICES ASSUME FixedAssumption, FInit PROVE FixedInv /\ Quiet /\ OnlyWithReason
  OBVIOUS
<1>1. TypeOK
  <2>1. proc \in [Pool -> ProcState] /\ pc \in PC /\ flags = {} /\ pending = {}
    BY DEF FInit, ProcState, PC
  <2>2. chldDfl \in BOOLEAN /\ listening \in BOOLEAN /\ started \in BOOLEAN
    BY Zenon DEF FInit
  <2>3. terms \in 0..MaxTerm /\ hups \in 0..MaxHup /\ crashes \in 0..MaxCrash
    BY DEF FInit, FixedAssumption
  <2> QED
    BY <2>1, <2>2, <2>3 DEF TypeOK
<1>2. Suppressed /\ Stopping /\ Listens /\ Complete
  BY DEF FInit, Suppressed, Stopping, Listens, Complete
<1>3. Quiet /\ OnlyWithReason
  BY DEF FInit, Quiet, OnlyWithReason
<1> QED
  BY <1>1, <1>2, <1>3 DEF FixedInv

\* Every step keeps the types.
LEMMA TypeKept == FixedAssumption /\ TypeOK /\ [FNext]_fvars => TypeOK'
<1> SUFFICES ASSUME FixedAssumption, TypeOK, [FNext]_fvars PROVE TypeOK'
  OBVIOUS
<1> USE DEF TypeOK, bounds
<1>1. ASSUME NEW s \in Pool, StartWorker(s) PROVE TypeOK'
  <2>1. started' \in BOOLEAN
    BY <1>1, Zenon DEF StartWorker
  <2> QED
    BY <1>1, <2>1 DEF StartWorker, ProcState
<1>2. CASE StartFails \/ PoolStarted \/ Kill
  BY <1>2 DEF StartFails, PoolStarted, Kill, Told, PC, ProcState
<1>3. CASE Suspend
  BY <1>3 DEF Suspend, PC
<1>4. CASE Out
  <2>1. listening' \in BOOLEAN
    <3>1. StaysOpen \in BOOLEAN
      BY SMT DEF StaysOpen
    <3>2. listening' = StaysOpen
      BY <1>4, Zenon DEF Out
    <3> QED
      BY <3>1, <3>2, Zenon
  <2>2. chldDfl' \in BOOLEAN
    BY <1>4, Zenon DEF Out, SuppressChld
  <2> QED
    BY <1>4, <2>1, <2>2 DEF Out, PC
<1>5. CASE Restart
  <2>1. started' \in BOOLEAN /\ chldDfl' \in BOOLEAN
    BY <1>5, Zenon DEF Restart, Waited
  <2> QED
    BY <1>5, <2>1 DEF Restart, Waited, PC, ProcState
<1>6. CASE PoolExit
  <2>1. chldDfl' \in BOOLEAN
    BY <1>6, Zenon DEF PoolExit, Waited
  <2> QED
    BY <1>6, <2>1 DEF PoolExit, Waited, PC, ProcState
<1>7. ASSUME NEW s \in Pool, WorkerCrash(s) \/ WorkerExit(s) PROVE TypeOK'
  <2>1. pending' \in SUBSET Signals
    BY <1>7 DEF WorkerCrash, WorkerExit, Signals
  <2>2. crashes' \in 0..MaxCrash
    BY <1>7 DEF WorkerCrash, WorkerExit, FixedAssumption
  <2>3. proc' \in [Pool -> ProcState]
    BY <1>7 DEF WorkerCrash, WorkerExit, ProcState
  <2>4. UNCHANGED <<pc, flags, chldDfl, listening, started, terms, hups>>
    BY <1>7 DEF WorkerCrash, WorkerExit
  <2> QED
    BY <2>1, <2>2, <2>3, <2>4
<1>8. CASE SendTerm \/ SendHup
  <2>1. pending' \in SUBSET Signals
    BY <1>8 DEF SendTerm, SendHup, Signals
  <2>2. terms' \in 0..MaxTerm /\ hups' \in 0..MaxHup /\ crashes' = crashes
    BY <1>8 DEF SendTerm, SendHup, FixedAssumption
  <2>3. UNCHANGED <<proc, pc, flags, chldDfl, listening, started>>
    BY <1>8 DEF SendTerm, SendHup
  <2> QED
    BY <2>1, <2>2, <2>3
<1>9. CASE UNCHANGED fvars
  BY <1>9 DEF fvars
<1> QED
  BY <1>1, <1>2, <1>3, <1>4, <1>5, <1>6, <1>7, <1>8, <1>9 DEF FNext, PoolManager

\* What the manager waited for is gone.
LEMMA AllGone ==
  ASSUME TypeOK, Waited
  PROVE  pc = "wait" /\ \A s \in Pool : proc'[s] = "none"
  BY DEF TypeOK, Waited, AllWaited, Live, Dead

LEMMA NextFixedInv == FixedAssumption /\ FixedInv /\ [FNext]_fvars => FixedInv'
<1> SUFFICES ASSUME FixedAssumption, FixedInv, [FNext]_fvars
             PROVE  Suppressed' /\ Stopping' /\ Listens' /\ Complete'
  BY TypeKept DEF FixedInv
<1> USE DEF FixedInv, Suppressed, Stopping, Listens, Complete
<1>1. ASSUME NEW s \in Pool, StartWorker(s)
      PROVE  Suppressed' /\ Stopping' /\ Listens' /\ Complete'
  <2>1. \A t \in Pool : proc'[t] = IF t = s THEN "run" ELSE proc[t]
    BY <1>1 DEF StartWorker, TypeOK
  <2>2. started' => \A t \in Pool : t = s \/ proc[t] # "none"
    BY <1>1 DEF StartWorker, Live
  <2> QED
    BY <1>1, <2>1, <2>2 DEF StartWorker
<1>2. CASE StartFails \/ PoolStarted \/ Suspend
  BY <1>2 DEF StartFails, PoolStarted, Suspend
<1>3. CASE Out
  BY <1>3 DEF Out, StaysOpen, SuppressChld
<1>4. CASE Kill
  BY <1>4 DEF Kill, Told
<1>5. CASE Restart \/ PoolExit
  <2>1. /\ pc = "wait" /\ \A s \in Pool : proc'[s] = "none"
        /\ ~chldDfl'
    BY <1>5, AllGone DEF Restart, PoolExit, Waited
  <2>2. CASE Restart
    BY <2>1, <2>2 DEF Restart
  <2>3. CASE PoolExit
    BY <2>1, <2>3 DEF PoolExit
  <2> QED
    BY <1>5, <2>2, <2>3
<1>6. ASSUME NEW s \in Pool, WorkerCrash(s) \/ WorkerExit(s)
      PROVE  Suppressed' /\ Stopping' /\ Listens' /\ Complete'
  <2>1. \A t \in Pool : proc'[t] = IF t = s THEN "dead" ELSE proc[t]
    BY <1>6 DEF WorkerCrash, WorkerExit, TypeOK
  <2>2. UNCHANGED <<pc, flags, chldDfl, listening, started>> /\ proc[s] # "none"
    BY <1>6 DEF WorkerCrash, WorkerExit
  <2> QED
    BY <2>1, <2>2
<1>7. CASE SendTerm \/ SendHup \/ UNCHANGED fvars
  BY <1>7 DEF SendTerm, SendHup, fvars
<1> QED
  BY <1>1, <1>2, <1>3, <1>4, <1>5, <1>6, <1>7 DEF FNext, PoolManager

\* The invariant of the manager of a fixed pool.
THEOREM FixedInvariance == ASSUME FixedAssumption PROVE FSpec => []FixedInv
<1>1. FInit => FixedInv
  BY InitFixedInv
<1>2. FixedInv /\ [FNext]_fvars => FixedInv'
  BY NextFixedInv
<1> QED
  BY <1>1, <1>2, PTL DEF FSpec

\* No worker is left when the manager exits; the pool is complete, and none of a
\* former pool is in it, when it sleeps; and new workers have the socket to accept
\* on (kfcgi.c:831-862).
THEOREM NoneLeftHolds == ASSUME FixedAssumption PROVE FSpec => []NoneLeft
<1>1. FixedInv => NoneLeft
  BY DEF FixedInv, Stopping, Listens, Complete, NoneLeft, Live
<1> QED
  BY <1>1, FixedInvariance, PTL

-----------------------------------------------------------------------------
(* Reasons to leave the loop *)

LEMMA ReasonKept ==
  ASSUME FixedAssumption, QuietRestart
  PROVE  FixedInv /\ Quiet /\ OnlyWithReason /\ [FNext]_fvars => Quiet' /\ OnlyWithReason'
<1> SUFFICES ASSUME FixedInv, Quiet, OnlyWithReason, [FNext]_fvars
             PROVE  Quiet' /\ OnlyWithReason'
  OBVIOUS
<1>0. /\ crashes \in Nat /\ proc \in [Pool -> ProcState]
  BY DEF FixedInv, TypeOK, FixedAssumption
<1> USE DEF Quiet, OnlyWithReason, bounds
<1>1. ASSUME NEW s \in Pool, StartWorker(s) PROVE Quiet' /\ OnlyWithReason'
  <2>1. \A t \in Pool : proc'[t] = IF t = s THEN "run" ELSE proc[t]
    BY <1>0, <1>1 DEF StartWorker
  <2> QED
    BY <1>1, <2>1 DEF StartWorker
<1>2. CASE StartFails \/ PoolStarted
  BY <1>2 DEF StartFails, PoolStarted
<1>3. CASE Suspend
  <2>1. crashes = 0 => "CHLD" \notin flags' /\ {"TERM", "HUP"} \cap flags' # {}
    <3>1. PICK S \in (SUBSET pending) \ {{}} : flags' = flags \cup S
      BY <1>3 DEF Suspend
    <3>2. PICK x \in S : TRUE
      BY <3>1
    <3>3. x \in {"TERM", "HUP", "CHLD"}
      BY <3>1, <3>2 DEF FixedInv, TypeOK, Signals
    <3>4. crashes = 0 => "CHLD" \notin S
      BY <1>3, <3>1 DEF Suspend
    <3> QED
      BY <3>1, <3>2, <3>3, <3>4
  <2>2. pc = "suspend" /\ pc' = "out" /\ UNCHANGED <<proc, crashes>> /\ pending' \subseteq pending
    BY <1>3 DEF Suspend
  <2>3. Quiet'
    BY <2>1, <2>2
  <2>4. OnlyWithReason'
    BY <1>0, <2>1, <2>2
  <2> QED
    BY <2>3, <2>4
<1>4. CASE Out
  BY <1>4 DEF Out
<1>5. CASE Kill
  BY <1>0, <1>5 DEF Kill, Told
<1>6. CASE Restart \/ PoolExit
  <2>1. pc = "wait" /\ \A s \in Pool : proc'[s] = "none"
    BY <1>6, AllGone DEF Restart, PoolExit, FixedInv
  <2>2. crashes = 0 => "CHLD" \notin pending'
    BY <1>6, <2>1 DEF Restart, PoolExit, Waited, QuietRestart
  <2> QED
    BY <1>6, <2>1, <2>2 DEF Restart, PoolExit
<1>7. ASSUME NEW s \in Pool, WorkerCrash(s) PROVE Quiet' /\ OnlyWithReason'
  BY <1>0, <1>7 DEF WorkerCrash
<1>8. ASSUME NEW s \in Pool, WorkerExit(s) PROVE Quiet' /\ OnlyWithReason'
  <2>1. pc = "wait" /\ chldDfl
    BY <1>8 DEF WorkerExit, FixedInv, Stopping, Suppressed
  <2> QED
    BY <1>8, <2>1 DEF WorkerExit
<1>9. CASE SendTerm \/ SendHup \/ UNCHANGED fvars
  BY <1>9 DEF SendTerm, SendHup, fvars
<1> QED
  BY <1>1, <1>2, <1>3, <1>4, <1>5, <1>6, <1>7, <1>8, <1>9 DEF FNext, PoolManager

\* Where stopping the workers leaves no SIGCHLD behind, the manager leaves its
\* loop only when it is asked to, or when a worker is missing (kfcgi.c:822-842).
THEOREM FixedOnlyWithReasonHolds ==
  ASSUME FixedAssumption, QuietRestart
  PROVE  FSpec => []OnlyWithReason
<1>1. FInit => FixedInv /\ Quiet /\ OnlyWithReason
  BY InitFixedInv
<1>2. FixedInv /\ Quiet /\ OnlyWithReason /\ [FNext]_fvars
        => (FixedInv /\ Quiet /\ OnlyWithReason)'
  BY NextFixedInv, ReasonKept
<1> QED
  BY <1>1, <1>2, PTL DEF FSpec

\* There the manager of a fixed pool neither leaves its loop because of the workers
\* it has stopped itself, nor leaves any behind when it starts again or exits
\* (kfcgi.c:809-862).
THEOREM PoolKeptHolds ==
  ASSUME FixedAssumption, QuietRestart
  PROVE  FSpec => []PoolKept
<1>1. OnlyWithReason /\ NoneLeft => PoolKept
  BY DEF PoolKept
<1> QED
  BY <1>1, FixedOnlyWithReasonHolds, NoneLeftHolds, PTL

-----------------------------------------------------------------------------
(* Descriptors, for any number of applications, in every mode: a running   *)
(* process holds no socket but its own, and so whoever waits for another   *)
(* to go notices when it has gone.                                         *)

AppPlaces ==
  {"none", "forked", "begin", "begun", "fork", "parent", "sock", "fork2", "parent2", "alloc",
   "reading", "serving", "wait", "returned", "exited", "reaped"}
ChildPlaces == {"none", "forked", "run", "exited", "reaped"}
ManagerPlaces == {"none", "start", "run", "out", "reaping", "exited"}

Pairs == {"ctrl", "work_ctl", "work_dat", "sock_ctl"}
EndSet == {Socket} \cup Conns \cup UNION {Both(pair, s) : pair \in Pairs, s \in Slots}

DescriptorTypes ==
  /\ at \in [Procs -> AppPlaces \cup ChildPlaces \cup ManagerPlaces]
  /\ holds \in [Holders -> SUBSET EndSet]

-----------------------------------------------------------------------------
(* The invariant: where each process can be and what it holds there but    *)
(* for connections, which a fork copies to anybody.                        *)

\* The manager's ends of the sockets to its applications.
Ctrls == IF mode = "varpool" THEN {P("ctrl", s) : s \in Slots} ELSE {}

ManagerKeeps ==
  /\ at[Manager] \in ManagerPlaces
  /\ holds[Manager] \subseteq {Socket} \cup Ctrls \cup Conns

Work(s) == Both("work_ctl", s) \cup Both("work_dat", s)

\* Where the application can be and what it holds there.  "reading" is reached in
\* CGI only, where the application never has a socket to accept on.
AppFits(s, where, has) ==
  LET held == has \ Conns
  IN /\ where \in AppPlaces
     /\ where \in {"none", "exited", "reaped"} => has = {}
     /\ where = "forked" => held \subseteq {Socket, Listen(s)} \cup Ctrls
     /\ where = "begin" => held \subseteq {Listen(s)}
     /\ where = "begun" => held \subseteq {Listen(s)} \cup Both("work_ctl", s)
     /\ where \in {"fork", "parent"} => held \subseteq {Listen(s)} \cup Work(s)
     /\ where = "sock" => held \subseteq {Listen(s), P("work_ctl", s), P("work_dat", s)}
     /\ where \in {"fork2", "parent2"} =>
          held \subseteq {Listen(s), P("work_ctl", s), P("work_dat", s)} \cup Both("sock_ctl", s)
     /\ where \in {"alloc", "reading"} /\ mode = "cgi" =>
          held \subseteq {Listen(s), P("work_ctl", s), P("work_dat", s)}
     /\ where \in {"alloc", "serving"} /\ mode # "cgi" =>
          held \subseteq {P("work_dat", s), P("sock_ctl", s)}
     /\ where \in {"wait", "returned"} => held \subseteq {Listen(s)}

WorkerFits(s, where, has) ==
  LET held == has \ Conns
  IN /\ where \in ChildPlaces
     /\ where \in {"none", "exited", "reaped"} => has = {}
     /\ where = "forked" => held \subseteq {Listen(s)} \cup Work(s)
     /\ where = "run" => held \subseteq {C("work_ctl", s), C("work_dat", s)}

ControlFits(s, where, has) ==
  LET held == has \ Conns
  IN /\ where \in ChildPlaces
     /\ where \in {"none", "exited", "reaped"} => has = {}
     /\ where = "forked" =>
          held \subseteq {Listen(s), P("work_ctl", s), P("work_dat", s)} \cup Both("sock_ctl", s)
     /\ where = "run" => held \subseteq {Listen(s), P("work_ctl", s), C("sock_ctl", s)}

\* Which processes an application has forked, where it is, and waited for.
Family(app, worker, control) ==
  /\ app \in {"none", "forked", "begin", "begun", "fork"} =>
       worker = "none" /\ control = "none"
  /\ app \in {"parent", "sock", "fork2"} => control = "none"
  /\ mode = "cgi" => control = "none" /\ app \notin {"sock", "fork2", "parent2", "serving"}
  /\ app = "reading" => mode = "cgi"
  /\ app = "returned" => {worker, control} \subseteq {"none", "reaped"}

SlotInv(s) ==
  /\ AppFits(s, at[App(s)], holds[App(s)])
  /\ WorkerFits(s, at[Worker(s)], holds[Worker(s)])
  /\ ControlFits(s, at[Control(s)], holds[Control(s)])
  /\ Family(at[App(s)], at[Worker(s)], at[Control(s)])
  /\ holds[Queue(s)] \subseteq Conns

IInv == DescriptorTypes /\ ManagerKeeps /\ \A s \in Slots : SlotInv(s)

\* Nobody else has the end that tells a process of another's going: the worker and
\* the control process notice each other's, the control process the application's
\* and the manager's, the application the control process', and in CGI the worker
\* the application's.  An application that is being started has copies of the
\* manager's ends.
AppDone(s) == Gone(App(s)) \/ at[App(s)] \in {"wait", "returned"}
NoticedWhenGone ==
  \A s \in Slots :
    /\ at[Control(s)] = "run" /\ Gone(Worker(s)) => HungUp(P("work_ctl", s))
    /\ at[Control(s)] = "run" /\ AppDone(s) => HungUp(C("sock_ctl", s))
    /\ at[Control(s)] = "run" /\ mode = "varpool" /\ holds[Manager] = {}
         /\ (\A t \in Slots : at[App(t)] # "forked") => HungUp(C("ctrl", s))
    /\ at[App(s)] = "serving" /\ Gone(Control(s)) => HungUp(P("sock_ctl", s))
    /\ at[Worker(s)] = "run" /\ Gone(Control(s)) /\ (at[App(s)] = "serving" \/ AppDone(s))
         => HungUp(C("work_ctl", s))
    /\ at[Worker(s)] = "run" /\ mode = "cgi" /\ AppDone(s) => HungUp(C("work_dat", s))

-----------------------------------------------------------------------------
(* What a step leaves alone.                                               *)

LEMMA Who ==
  /\ Manager \in Procs /\ Procs \subseteq Holders
  /\ \A s \in Slots :
       /\ App(s) \in Procs /\ Worker(s) \in Procs /\ Control(s) \in Procs
       /\ Queue(s) \in Holders /\ Queue(s) \notin Procs
  /\ \A p \in Procs : p # Manager =>
       \E s \in Slots : p \in {App(s), Worker(s), Control(s)}
BY DEF Procs, Holders, Manager, App, Worker, Control, Queue

LEMMA Apart ==
  /\ \A s, t \in Slots :
       /\ App(s) # Worker(t) /\ App(s) # Control(t) /\ Worker(s) # Control(t)
       /\ App(s) # Queue(t) /\ Worker(s) # Queue(t) /\ Control(s) # Queue(t)
       /\ App(s) = App(t) => s = t
       /\ Worker(s) = Worker(t) => s = t
       /\ Control(s) = Control(t) => s = t
       /\ Queue(s) = Queue(t) => s = t
  /\ \A s \in Slots :
       Manager # App(s) /\ Manager # Worker(s) /\ Manager # Control(s) /\ Manager # Queue(s)
BY DEF Manager, App, Worker, Control, Queue

LEMMA AllEnds ==
  /\ \A s \in Slots, pair \in Pairs :
       P(pair, s) \in EndSet /\ C(pair, s) \in EndSet /\ Both(pair, s) \subseteq EndSet
  /\ Conns \subseteq EndSet /\ Socket \in EndSet
<1>1. \A s \in Slots, pair \in Pairs : Both(pair, s) \subseteq EndSet
  BY DEF EndSet
<1>2. \A s \in Slots, pair \in Pairs : P(pair, s) \in EndSet /\ C(pair, s) \in EndSet
  BY <1>1 DEF Both
<1> QED
  BY <1>1, <1>2 DEF EndSet

Places == AppPlaces \cup ChildPlaces \cup ManagerPlaces

\* A slot none of whose processes moves, or opens or closes anything.
LEMMA SlotKept ==
  ASSUME NEW s \in Slots, SlotInv(s), mode' = mode,
         \A p \in {App(s), Worker(s), Control(s)} : at'[p] = at[p] /\ holds'[p] = holds[p],
         holds'[Queue(s)] = holds[Queue(s)]
  PROVE  SlotInv(s)'
<1>1. /\ at[App(s)]' = at[App(s)] /\ at[Worker(s)]' = at[Worker(s)]
      /\ at[Control(s)]' = at[Control(s)]
      /\ holds[App(s)]' = holds[App(s)] /\ holds[Worker(s)]' = holds[Worker(s)]
      /\ holds[Control(s)]' = holds[Control(s)]
  BY DEF App, Worker, Control
<1>2. Listen(s)' = Listen(s) /\ Ctrls' = Ctrls
  BY DEF Listen, Ctrls
<1>3. AppFits(s, at[App(s)], holds[App(s)])'
  BY <1>1, <1>2 DEF SlotInv, AppFits
<1>4. WorkerFits(s, at[Worker(s)], holds[Worker(s)])'
  BY <1>1, <1>2 DEF SlotInv, WorkerFits
<1>5. ControlFits(s, at[Control(s)], holds[Control(s)])'
  BY <1>1, <1>2 DEF SlotInv, ControlFits
<1>6. Family(at[App(s)], at[Worker(s)], at[Control(s)])'
  BY <1>1 DEF SlotInv, Family
<1>7. (holds[Queue(s)] \subseteq Conns)'
  BY DEF SlotInv, Queue
<1> QED
  BY <1>3, <1>4, <1>5, <1>6, <1>7 DEF SlotInv

LEMMA ManagerKept ==
  ASSUME ManagerKeeps, mode' = mode, at'[Manager] = at[Manager],
         holds'[Manager] = holds[Manager]
  PROVE  ManagerKeeps'
BY DEF ManagerKeeps, Ctrls, Manager

\* A step of one process, of one slot.
LEMMA OneMoves ==
  ASSUME IInv, mode' = mode, NEW s \in Slots, NEW p \in {App(s), Worker(s), Control(s)},
         NEW to \in Places, NEW held \in SUBSET EndSet,
         at' = [at EXCEPT ![p] = to], holds' = [holds EXCEPT ![p] = held],
         p = App(s) => AppFits(s, to, held) /\ Family(to, at[Worker(s)], at[Control(s)]),
         p = Worker(s) => WorkerFits(s, to, held) /\ Family(at[App(s)], to, at[Control(s)]),
         p = Control(s) => ControlFits(s, to, held) /\ Family(at[App(s)], at[Worker(s)], to)
  PROVE  IInv'
<1>1. p \in Procs
  BY Who
<1>2. DescriptorTypes'
  BY <1>1, Who DEF IInv, DescriptorTypes, Places
<1>3. at'[p] = to /\ holds'[p] = held
  BY <1>1, Who DEF IInv, DescriptorTypes
<1>4. /\ \A q \in Procs : q # p => at'[q] = at[q]
      /\ \A q \in Holders : q # p => holds'[q] = holds[q]
  BY DEF IInv, DescriptorTypes
<1>5. ManagerKeeps'
  BY <1>4, Who, Apart, ManagerKept DEF IInv
<1>6. ASSUME NEW t \in Slots, t # s PROVE SlotInv(t)'
  <2>1. p # Queue(t) /\ \A q \in {App(t), Worker(t), Control(t)} : q # p
    BY <1>6, Apart
  <2>2. /\ \A q \in {App(t), Worker(t), Control(t)} : at'[q] = at[q] /\ holds'[q] = holds[q]
        /\ holds'[Queue(t)] = holds[Queue(t)]
    BY <1>4, <2>1, Who
  <2> QED
    BY <2>2, SlotKept DEF IInv
<1>7. SlotInv(s)'
  <2>1. Listen(s)' = Listen(s) /\ Ctrls' = Ctrls
    BY DEF Listen, Ctrls
  <2>2. SlotInv(s)
    BY DEF IInv
  <2>3. /\ App(s) # p => at'[App(s)] = at[App(s)] /\ holds'[App(s)] = holds[App(s)]
        /\ Worker(s) # p => at'[Worker(s)] = at[Worker(s)] /\ holds'[Worker(s)] = holds[Worker(s)]
        /\ Control(s) # p => at'[Control(s)] = at[Control(s)] /\ holds'[Control(s)] = holds[Control(s)]
        /\ holds'[Queue(s)] = holds[Queue(s)]
    BY <1>4, Who, Apart
  <2>4. App(s) # Worker(s) /\ App(s) # Control(s) /\ Worker(s) # Control(s)
    BY Apart
  <2>5. AppFits(s, at'[App(s)], holds'[App(s)])
    BY <1>3, <2>2, <2>3 DEF SlotInv
  <2>6. WorkerFits(s, at'[Worker(s)], holds'[Worker(s)])
    BY <1>3, <2>2, <2>3 DEF SlotInv
  <2>7. ControlFits(s, at'[Control(s)], holds'[Control(s)])
    BY <1>3, <2>2, <2>3 DEF SlotInv
  <2>8. Family(at'[App(s)], at'[Worker(s)], at'[Control(s)])
    BY <1>3, <2>2, <2>3, <2>4 DEF SlotInv
  <2>9. holds'[Queue(s)] \subseteq Conns
    BY <2>2, <2>3 DEF SlotInv
  <2> QED
    BY <2>1, <2>5, <2>6, <2>7, <2>8, <2>9
    DEF SlotInv, AppFits, WorkerFits, ControlFits, Family, App, Worker, Control, Queue
<1> QED
  BY <1>2, <1>5, <1>6, <1>7 DEF IInv

-----------------------------------------------------------------------------
(* The application.                                                        *)

LEMMA AppMoves ==
  ASSUME IInv, NEW s \in Slots, NEW from, NEW to \in Places, NEW held \in SUBSET EndSet,
         Step(App(s), from, to, held), mode' = mode,
         AppFits(s, to, held), Family(to, at[Worker(s)], at[Control(s)])
  PROVE  IInv'
BY OneMoves, Apart DEF Step

\* What was known of the application before the step.
LEMMA AppWas ==
  ASSUME IInv, NEW s \in Slots
  PROVE  /\ AppFits(s, at[App(s)], holds[App(s)])
         /\ Family(at[App(s)], at[Worker(s)], at[Control(s)])
         /\ holds[App(s)] \subseteq EndSet
BY Who DEF IInv, SlotInv, DescriptorTypes

LEMMA OpenPairIInv ==
  ASSUME IInv, NEW s \in Slots, NEW from, NEW to \in Places, NEW pair \in Pairs,
         OpenPair(s, from, to, pair),
         AppFits(s, to, holds[App(s)] \cup Both(pair, s)),
         Family(to, at[Worker(s)], at[Control(s)])
  PROVE  IInv'
<1>1. holds[App(s)] \cup Both(pair, s) \in SUBSET EndSet
  BY AppWas, AllEnds
<1> QED
  BY <1>1, AppMoves DEF OpenPair, Same

LEMMA NotOurs ==
  ASSUME NEW s \in Slots
  PROVE  Ours(s) = Work(s) \cup Both("sock_ctl", s)
BY DEF Ours, Work

\* Whatever it holds of its own is closed, and whoever it has not forked is none.
LEMMA CloseAllIInv ==
  ASSUME IInv, NEW s \in Slots, NEW from \in AppPlaces, NEW to \in {"wait", "returned"},
         CloseAll(s, from, to), mode' = mode,
         from \in {"begin", "begun", "fork", "sock", "fork2", "alloc", "reading"},
         to = "returned" => from \in {"begin", "begun", "fork"}
  PROVE  IInv'
<1>1. at[App(s)] = from
  BY DEF CloseAll, Step
<1>2. holds[App(s)] \ Ours(s) \in SUBSET EndSet
  BY AppWas
<1>3. AppFits(s, to, holds[App(s)] \ Ours(s))
  <2>1. (holds[App(s)] \ Conns) \subseteq {Listen(s)} \cup Work(s) \cup Both("sock_ctl", s)
    <3>1. CASE from \in {"begin", "begun", "fork"}
      BY <1>1, <3>1, AppWas DEF AppFits, Work
    <3>2. CASE from \in {"sock", "fork2"}
      BY <1>1, <3>2, AppWas DEF AppFits, Work, Both
    <3>3. CASE from \in {"alloc", "reading"}
      <4>1. from = "reading" => mode = "cgi"
        BY <1>1, AppWas DEF Family
      <4> QED
        BY <1>1, <3>3, <4>1, AppWas DEF AppFits, Work, Both
    <3> QED
      BY <3>1, <3>2, <3>3
  <2>2. (holds[App(s)] \ Ours(s)) \ Conns \subseteq {Listen(s)}
    BY <2>1, NotOurs
  <2> QED
    BY <2>2 DEF AppFits, AppPlaces
<1>4. Family(to, at[Worker(s)], at[Control(s)])
  BY <1>1, AppWas DEF Family
<1> QED
  BY <1>2, <1>3, <1>4, AppMoves DEF CloseAll, Places, AppPlaces

LEMMA OpenWorkIInv == ASSUME IInv, NEW s \in Slots, OpenWork(s) PROVE IInv'
<1>1. CASE mode # "cgi" /\ OpenPair(s, "begin", "begun", "work_ctl")
  <2>1. at[App(s)] = "begin"
    BY <1>1 DEF OpenPair, Step
  <2>2. AppFits(s, "begun", holds[App(s)] \cup Both("work_ctl", s))
    BY <2>1, AppWas DEF AppFits, AppPlaces
  <2>3. Family("begun", at[Worker(s)], at[Control(s)])
    BY <2>1, AppWas DEF Family
  <2> QED
    BY <1>1, <2>2, <2>3, OpenPairIInv DEF Places, AppPlaces, Pairs
<1>2. CASE mode = "cgi" /\ OpenPair(s, "begin", "fork", "work_dat")
  <2>1. at[App(s)] = "begin"
    BY <1>2 DEF OpenPair, Step
  <2>2. AppFits(s, "fork", holds[App(s)] \cup Both("work_dat", s))
    BY <2>1, AppWas DEF AppFits, AppPlaces, Work
  <2>3. Family("fork", at[Worker(s)], at[Control(s)])
    BY <2>1, AppWas DEF Family
  <2> QED
    BY <1>2, <2>2, <2>3, OpenPairIInv DEF Places, AppPlaces, Pairs
<1>3. CASE OpenPair(s, "begun", "fork", "work_dat")
  <2>1. at[App(s)] = "begun"
    BY <1>3 DEF OpenPair, Step
  <2>2. AppFits(s, "fork", holds[App(s)] \cup Both("work_dat", s))
    BY <2>1, AppWas DEF AppFits, AppPlaces, Work
  <2>3. Family("fork", at[Worker(s)], at[Control(s)])
    BY <2>1, AppWas DEF Family
  <2> QED
    BY <1>3, <2>2, <2>3, OpenPairIInv DEF Places, AppPlaces, Pairs
<1>4. CASE at[App(s)] \in {"begin", "begun"} /\ GiveUp(s, at[App(s)], "returned")
  BY <1>4, CloseAllIInv DEF GiveUp, AppPlaces
<1> QED
  BY <1>1, <1>2, <1>3, <1>4 DEF OpenWork

LEMMA CloseChildIInv == ASSUME IInv, NEW s \in Slots, CloseChild(s) PROVE IInv'
<1> DEFINE to == IF mode = "cgi" THEN "alloc" ELSE "sock"
           held == holds[App(s)] \ {C("work_dat", s), C("work_ctl", s)}
<1>1. at[App(s)] = "parent"
  BY DEF CloseChild, Step
<1>2. held \in SUBSET EndSet
  BY AppWas
<1>3. AppFits(s, to, held)
  <2>1. held \ Conns \subseteq {Listen(s), P("work_ctl", s), P("work_dat", s)}
    BY <1>1, AppWas DEF AppFits, Work, Both
  <2> QED
    BY <2>1 DEF AppFits, AppPlaces
<1>4. Family(to, at[Worker(s)], at[Control(s)])
  BY <1>1, AppWas DEF Family
<1> QED
  BY <1>2, <1>3, <1>4, AppMoves DEF CloseChild, Same, Places, AppPlaces

LEMMA OpenSockIInv == ASSUME IInv, NEW s \in Slots, OpenSock(s) PROVE IInv'
<1>1. CASE OpenPair(s, "sock", "fork2", "sock_ctl")
  <2>1. at[App(s)] = "sock"
    BY <1>1 DEF OpenPair, Step
  <2>2. AppFits(s, "fork2", holds[App(s)] \cup Both("sock_ctl", s))
    BY <2>1, AppWas DEF AppFits, AppPlaces
  <2>3. Family("fork2", at[Worker(s)], at[Control(s)])
    BY <2>1, AppWas DEF Family
  <2> QED
    BY <1>1, <2>2, <2>3, OpenPairIInv DEF Places, AppPlaces, Pairs
<1>2. CASE GiveUp(s, "sock", "wait")
  BY <1>2, CloseAllIInv DEF GiveUp, AppPlaces
<1> QED
  BY <1>1, <1>2 DEF OpenSock

LEMMA CloseControlIInv == ASSUME IInv, NEW s \in Slots, CloseControl(s) PROVE IInv'
<1> DEFINE held == holds[App(s)] \ {C("sock_ctl", s), P("work_ctl", s), Listen(s)}
<1>1. at[App(s)] = "parent2"
  BY DEF CloseControl, Step
<1>2. held \in SUBSET EndSet
  BY AppWas
<1>3. AppFits(s, "alloc", held)
  <2>1. held \ Conns \subseteq {P("work_dat", s), P("sock_ctl", s)}
    BY <1>1, AppWas DEF AppFits, Both
  <2>2. mode # "cgi"
    BY <1>1, AppWas DEF Family
  <2> QED
    BY <2>1, <2>2 DEF AppFits, AppPlaces
<1>4. Family("alloc", at[Worker(s)], at[Control(s)])
  BY <1>1, AppWas DEF Family
<1> QED
  BY <1>2, <1>3, <1>4, AppMoves DEF CloseControl, Same, Places, AppPlaces

LEMMA AllocIInv == ASSUME IInv, NEW s \in Slots, Alloc(s) PROVE IInv'
<1>1. CASE /\ Step(App(s), "alloc", IF mode = "cgi" THEN "reading" ELSE "serving", holds[App(s)])
           /\ Same
  <2> DEFINE to == IF mode = "cgi" THEN "reading" ELSE "serving"
  <2>1. at[App(s)] = "alloc"
    BY <1>1 DEF Step
  <2>2. AppFits(s, to, holds[App(s)])
    BY <2>1, AppWas DEF AppFits, AppPlaces
  <2>3. Family(to, at[Worker(s)], at[Control(s)])
    BY <2>1, AppWas DEF Family
  <2>4. holds[App(s)] \in SUBSET EndSet /\ to \in Places
    BY AppWas DEF Places, AppPlaces
  <2> QED
    BY <1>1, <2>2, <2>3, <2>4, AppMoves DEF Same
<1>2. CASE GiveUp(s, "alloc", "wait")
  BY <1>2, CloseAllIInv DEF GiveUp, AppPlaces
<1> QED
  BY <1>1, <1>2 DEF Alloc

LEMMA ReadRequestIInv == ASSUME IInv, NEW s \in Slots, ReadRequest(s) PROVE IInv'
BY CloseAllIInv DEF ReadRequest, Same, AppPlaces

LEMMA FreeIInv == ASSUME IInv, NEW s \in Slots, khttp_fcgi_free(s) PROVE IInv'
<1> DEFINE held == holds[App(s)] \ {P("sock_ctl", s), P("work_dat", s)}
<1>1. at[App(s)] = "serving"
  BY DEF khttp_fcgi_free, Step
<1>2. held \in SUBSET EndSet
  BY AppWas
<1>3. mode # "cgi"
  BY <1>1, AppWas DEF Family
<1>4. AppFits(s, "wait", held)
  BY <1>1, <1>3, AppWas DEF AppFits, AppPlaces
<1>5. Family("wait", at[Worker(s)], at[Control(s)])
  BY <1>1, AppWas DEF Family
<1> QED
  BY <1>2, <1>4, <1>5, AppMoves DEF khttp_fcgi_free, Same, Places, AppPlaces

\* A fork: the child gets a copy of what the application holds.
LEMMA ForkIInv ==
  ASSUME IInv, NEW s \in Slots, NEW p \in {Worker(s), Control(s)},
         NEW from, NEW to \in Places, Fork(App(s), from, to, p), mode' = mode,
         AppFits(s, to, holds[App(s)]),
         p = Worker(s) => /\ WorkerFits(s, "forked", holds[App(s)])
                          /\ Family(to, "forked", at[Control(s)]),
         p = Control(s) => /\ ControlFits(s, "forked", holds[App(s)])
                           /\ Family(to, at[Worker(s)], "forked")
  PROVE  IInv'
<1>1. p \in Procs /\ App(s) \in Procs /\ p # App(s)
  BY Who, Apart
<1>2. DescriptorTypes'
  BY <1>1, AppWas, Who DEF IInv, DescriptorTypes, Fork, Places, ChildPlaces
<1>3. at'[App(s)] = to /\ at'[p] = "forked" /\ holds'[p] = holds[App(s)]
  BY <1>1, Who DEF IInv, DescriptorTypes, Fork
<1>4. /\ \A q \in Procs : q # p /\ q # App(s) => at'[q] = at[q]
      /\ \A q \in Holders : q # p => holds'[q] = holds[q]
  BY DEF IInv, DescriptorTypes, Fork
<1>5. ManagerKeeps'
  BY <1>4, Who, Apart, ManagerKept DEF IInv
<1>6. ASSUME NEW t \in Slots, t # s PROVE SlotInv(t)'
  <2>1. p # Queue(t) /\ \A q \in {App(t), Worker(t), Control(t)} : q # p /\ q # App(s)
    BY <1>6, Apart
  <2>2. /\ \A q \in {App(t), Worker(t), Control(t)} : at'[q] = at[q] /\ holds'[q] = holds[q]
        /\ holds'[Queue(t)] = holds[Queue(t)]
    BY <1>4, <2>1, Who
  <2> QED
    BY <2>2, SlotKept DEF IInv
<1>7. SlotInv(s)'
  <2>1. Listen(s)' = Listen(s) /\ Ctrls' = Ctrls
    BY DEF Listen, Ctrls
  <2>2. SlotInv(s)
    BY DEF IInv
  <2>3. /\ holds'[App(s)] = holds[App(s)]
        /\ Worker(s) # p => at'[Worker(s)] = at[Worker(s)] /\ holds'[Worker(s)] = holds[Worker(s)]
        /\ Control(s) # p => at'[Control(s)] = at[Control(s)] /\ holds'[Control(s)] = holds[Control(s)]
        /\ holds'[Queue(s)] = holds[Queue(s)]
    BY <1>1, <1>4, Who, Apart
  <2>4. App(s) # Worker(s) /\ App(s) # Control(s) /\ Worker(s) # Control(s)
    BY Apart
  <2>5. AppFits(s, at'[App(s)], holds'[App(s)])
    BY <1>3, <2>3
  <2>6. WorkerFits(s, at'[Worker(s)], holds'[Worker(s)])
    BY <1>3, <2>2, <2>3 DEF SlotInv
  <2>7. ControlFits(s, at'[Control(s)], holds'[Control(s)])
    BY <1>3, <2>2, <2>3 DEF SlotInv
  <2>8. Family(at'[App(s)], at'[Worker(s)], at'[Control(s)])
    BY <1>3, <2>2, <2>3, <2>4 DEF SlotInv
  <2>9. holds'[Queue(s)] \subseteq Conns
    BY <2>2, <2>3 DEF SlotInv
  <2> QED
    BY SMTT(30), <2>1, <2>5, <2>6, <2>7, <2>8, <2>9
    DEF SlotInv, AppFits, WorkerFits, ControlFits, Family, App, Worker, Control, Queue
<1> QED
  BY <1>2, <1>5, <1>6, <1>7 DEF IInv

LEMMA ForkWorkerIInv == ASSUME IInv, NEW s \in Slots, ForkWorker(s) PROVE IInv'
<1>1. CASE Fork(App(s), "fork", "parent", Worker(s)) /\ Same
  <2>1. at[App(s)] = "fork"
    BY <1>1 DEF Fork
  <2>2. AppFits(s, "parent", holds[App(s)])
    BY <2>1, AppWas DEF AppFits, AppPlaces
  <2>3. WorkerFits(s, "forked", holds[App(s)])
    BY <2>1, AppWas DEF AppFits, WorkerFits, ChildPlaces
  <2>4. Family("parent", "forked", at[Control(s)])
    BY <2>1, AppWas DEF Family
  <2>5. Worker(s) # Control(s)
    BY Apart
  <2> QED
    BY <1>1, <2>2, <2>3, <2>4, <2>5, ForkIInv DEF Places, AppPlaces, Same
<1>2. CASE GiveUp(s, "fork", "returned")
  BY <1>2, CloseAllIInv DEF GiveUp, AppPlaces
<1> QED
  BY <1>1, <1>2 DEF ForkWorker

LEMMA ForkControlIInv == ASSUME IInv, NEW s \in Slots, ForkControl(s) PROVE IInv'
<1>1. CASE Fork(App(s), "fork2", "parent2", Control(s)) /\ Same
  <2>1. at[App(s)] = "fork2"
    BY <1>1 DEF Fork
  <2>2. AppFits(s, "parent2", holds[App(s)])
    BY <2>1, AppWas DEF AppFits, AppPlaces
  <2>3. ControlFits(s, "forked", holds[App(s)])
    BY <2>1, AppWas DEF AppFits, ControlFits, ChildPlaces
  <2>4. Family("parent2", at[Worker(s)], "forked")
    BY <2>1, AppWas DEF Family
  <2>5. Worker(s) # Control(s)
    BY Apart
  <2> QED
    BY <1>1, <2>2, <2>3, <2>4, <2>5, ForkIInv DEF Places, AppPlaces, Same
<1>2. CASE GiveUp(s, "fork2", "wait")
  BY <1>2, CloseAllIInv DEF GiveUp, AppPlaces
<1> QED
  BY <1>1, <1>2 DEF ForkControl

\* Waiting: what has exited holds nothing.
LEMMA WaitIInv == ASSUME IInv, NEW s \in Slots, kxwaitpid(s) PROVE IInv'
<1> DEFINE after(p) == IF at[p] # "none" THEN "reaped" ELSE at[p]
<1>1. at[App(s)] = "wait" /\ \A p \in {Worker(s), Control(s)} : at[p] \in {"none", "exited"}
  BY DEF kxwaitpid, Children
<1>2. /\ at'[App(s)] = "returned" /\ holds' = holds /\ mode' = mode
      /\ \A p \in {Worker(s), Control(s)} : at'[p] = after(p)
      /\ \A p \in Procs : p \notin {App(s), Worker(s), Control(s)} => at'[p] = at[p]
      /\ at' \in [Procs -> Places]
  BY Who, Apart DEF kxwaitpid, Reaped, Children, Same, IInv, DescriptorTypes, Places, AppPlaces
<1>3. DescriptorTypes' /\ ManagerKeeps'
  BY <1>2, Who, Apart, ManagerKept DEF IInv, DescriptorTypes, Places
<1>4. ASSUME NEW t \in Slots, t # s PROVE SlotInv(t)'
  <2>1. \A q \in {App(t), Worker(t), Control(t)} : q \notin {App(s), Worker(s), Control(s)}
    BY <1>4, Apart
  <2> QED
    BY <1>2, <2>1, Who, SlotKept DEF IInv
<1>5. SlotInv(s)'
  <2>1. SlotInv(s)
    BY DEF IInv
  <2>2. Listen(s)' = Listen(s) /\ Ctrls' = Ctrls
    BY <1>2 DEF Listen, Ctrls
  <2>3. AppFits(s, "returned", holds[App(s)])
    BY <1>1, <2>1 DEF SlotInv, AppFits, AppPlaces
  <2>4. WorkerFits(s, after(Worker(s)), holds[Worker(s)])
    BY <1>1, <2>1 DEF SlotInv, WorkerFits, ChildPlaces
  <2>5. ControlFits(s, after(Control(s)), holds[Control(s)])
    BY <1>1, <2>1 DEF SlotInv, ControlFits, ChildPlaces
  <2>6. Family("returned", after(Worker(s)), after(Control(s)))
    BY <1>1, <2>1 DEF SlotInv, Family
  <2> QED
    BY <1>2, <2>1, <2>2, <2>3, <2>4, <2>5, <2>6
    DEF SlotInv, AppFits, WorkerFits, ControlFits, Family, App, Worker, Control, Queue
<1> QED
  BY <1>3, <1>4, <1>5 DEF IInv

\* A process ends: the system closes what it held.
LEMMA ExitIInv ==
  ASSUME IInv, NEW s \in Slots, NEW p \in {App(s), Worker(s), Control(s)}, Exit(p),
         mode' = mode, at[p] \notin {"none", "exited", "reaped"},
         p \in {Worker(s), Control(s)} => at[App(s)] # "returned"
  PROVE  IInv'
<1>1. SlotInv(s)
  BY DEF IInv
<1>2. p = App(s) => AppFits(s, "exited", {}) /\ Family("exited", at[Worker(s)], at[Control(s)])
  BY <1>1 DEF SlotInv, AppFits, Family, AppPlaces
<1>3. p = Worker(s) => WorkerFits(s, "exited", {}) /\ Family(at[App(s)], "exited", at[Control(s)])
  BY <1>1 DEF SlotInv, WorkerFits, Family, ChildPlaces
<1>4. p = Control(s) => ControlFits(s, "exited", {}) /\ Family(at[App(s)], at[Worker(s)], "exited")
  BY <1>1 DEF SlotInv, ControlFits, Family, ChildPlaces
<1>5. /\ at' = [at EXCEPT ![p] = "exited"] /\ holds' = [holds EXCEPT ![p] = {}]
      /\ "exited" \in Places /\ {} \in SUBSET EndSet
  BY DEF Exit, Places, AppPlaces
<1> QED
  BY <1>2, <1>3, <1>4, <1>5, OneMoves

LEMMA AppExitsIInv == ASSUME IInv, NEW s \in Slots, AppExits(s) PROVE IInv'
<1>1. App(s) \notin {Worker(s), Control(s)}
  BY Apart
<1> QED
  BY <1>1, ExitIInv DEF AppExits, Same

LEMMA LibraryIInv == ASSUME IInv, NEW s \in Slots, Library(s) PROVE IInv'
BY OpenWorkIInv, ForkWorkerIInv, CloseChildIInv, OpenSockIInv, ForkControlIInv, CloseControlIInv,
   AllocIInv, ReadRequestIInv, FreeIInv, WaitIInv, AppExitsIInv DEF Library

-----------------------------------------------------------------------------
(* The worker and the control process.                                     *)

\* They have been waited for when the application returns.
LEMMA NotReturned ==
  ASSUME IInv, NEW s \in Slots, NEW p \in {Worker(s), Control(s)}, at[p] \in {"forked", "run"}
  PROVE  at[App(s)] # "returned"
BY AppWas DEF Family

LEMMA ChildWas ==
  ASSUME IInv, NEW s \in Slots
  PROVE  /\ WorkerFits(s, at[Worker(s)], holds[Worker(s)]) /\ holds[Worker(s)] \subseteq EndSet
         /\ ControlFits(s, at[Control(s)], holds[Control(s)]) /\ holds[Control(s)] \subseteq EndSet
         /\ Family(at[App(s)], at[Worker(s)], at[Control(s)])
BY Who DEF IInv, SlotInv, DescriptorTypes

LEMMA WorkerSetupIInv == ASSUME IInv, NEW s \in Slots, WorkerSetup(s) PROVE IInv'
<1> DEFINE held == holds[Worker(s)] \ {Listen(s), P("work_dat", s), P("work_ctl", s)}
<1>1. at[Worker(s)] = "forked"
  BY DEF WorkerSetup, Step
<1>2. CASE Step(Worker(s), "forked", "run", held) /\ Same
  <2>1. WorkerFits(s, "run", held)
    BY <1>1, ChildWas DEF WorkerFits, ChildPlaces, Work, Both
  <2>2. Family(at[App(s)], "run", at[Control(s)])
    BY <1>1, ChildWas DEF Family
  <2>3. held \in SUBSET EndSet
    BY ChildWas
  <2>4. /\ at' = [at EXCEPT ![Worker(s)] = "run"] /\ holds' = [holds EXCEPT ![Worker(s)] = held]
        /\ mode' = mode /\ "run" \in Places
    BY <1>2 DEF Step, Same, Places, ChildPlaces
  <2>5. Worker(s) # App(s) /\ Worker(s) # Control(s)
    BY Apart
  <2> QED
    BY <2>1, <2>2, <2>3, <2>4, <2>5, OneMoves
<1>3. CASE Fail(Worker(s))
  BY <1>1, <1>3, NotReturned, ExitIInv DEF Fail
<1> QED
  BY <1>2, <1>3 DEF WorkerSetup

LEMMA WorkerExitsIInv == ASSUME IInv, NEW s \in Slots, WorkerExits(s) PROVE IInv'
BY NotReturned, ExitIInv DEF WorkerExits, Same

LEMMA ControlSetupIInv == ASSUME IInv, NEW s \in Slots, ControlSetup(s) PROVE IInv'
<1> DEFINE held == holds[Control(s)] \ ControlCloses(s)
<1>1. at[Control(s)] = "forked"
  BY DEF ControlSetup, Step
<1>2. CASE Step(Control(s), "forked", "run", held) /\ Same
  <2>1. ControlFits(s, "run", held)
    BY <1>1, ChildWas DEF ControlFits, ChildPlaces, ControlCloses, Both
  <2>2. Family(at[App(s)], at[Worker(s)], "run")
    BY <1>1, ChildWas DEF Family
  <2>3. held \in SUBSET EndSet
    BY ChildWas
  <2>4. /\ at' = [at EXCEPT ![Control(s)] = "run"] /\ holds' = [holds EXCEPT ![Control(s)] = held]
        /\ mode' = mode /\ "run" \in Places
    BY <1>2 DEF Step, Same, Places, ChildPlaces
  <2>5. Control(s) # App(s) /\ Worker(s) # Control(s)
    BY Apart
  <2> QED
    BY <2>1, <2>2, <2>3, <2>4, <2>5, OneMoves
<1>3. CASE Fail(Control(s))
  BY <1>1, <1>3, NotReturned, ExitIInv DEF Fail
<1> QED
  BY <1>2, <1>3 DEF ControlSetup

LEMMA ControlExitsIInv == ASSUME IInv, NEW s \in Slots, ControlExits(s) PROVE IInv'
BY NotReturned, ExitIInv DEF ControlExits, Same

\* Any process but the manager may crash.
LEMMA DiesIInv == ASSUME IInv, NEW p \in Procs, Dies(p) PROVE IInv'
<1>1. PICK s \in Slots : p \in {App(s), Worker(s), Control(s)}
  BY Who DEF Dies
<1>2. p \in {Worker(s), Control(s)} => at[p] \in {"forked", "run"}
  BY ChildWas DEF Dies, Gone, WorkerFits, ControlFits, ChildPlaces
<1> QED
  BY <1>1, <1>2, NotReturned, ExitIInv DEF Dies, Fail, Gone

-----------------------------------------------------------------------------
(* The manager.                                                            *)

\* A step of the manager alone, which may open and close.
LEMMA ManagerMoves ==
  ASSUME IInv, mode' = mode, NEW to \in ManagerPlaces, NEW held \in SUBSET EndSet,
         at' = [at EXCEPT ![Manager] = to], holds' = [holds EXCEPT ![Manager] = held],
         held \subseteq {Socket} \cup Ctrls \cup Conns
  PROVE  IInv'
<1>1. DescriptorTypes'
  BY Who DEF IInv, DescriptorTypes
<1>2. ManagerKeeps'
  BY Who DEF IInv, DescriptorTypes, ManagerKeeps, Ctrls, Manager
<1>3. /\ \A q \in Procs : q # Manager => at'[q] = at[q]
      /\ \A q \in Holders : q # Manager => holds'[q] = holds[q]
  BY DEF IInv, DescriptorTypes
<1>4. ASSUME NEW t \in Slots PROVE SlotInv(t)'
  BY <1>3, Who, Apart, SlotKept DEF IInv
<1> QED
  BY <1>1, <1>2, <1>4 DEF IInv

LEMMA ManagerWas ==
  ASSUME IInv
  PROVE  holds[Manager] \in SUBSET EndSet /\ holds[Manager] \subseteq {Socket} \cup Ctrls \cup Conns
BY Who DEF IInv, DescriptorTypes, ManagerKeeps

LEMMA ManagerOnlyIInv ==
  ASSUME IInv, Run \/ Stop \/ TellApps
  PROVE  IInv'
<1>1. CASE Run \/ Stop
  <2>1. holds' = [holds EXCEPT ![Manager] = holds[Manager]]
    BY <1>1, Who DEF Run, Stop, IInv, DescriptorTypes
  <2>2. PICK to \in {"run", "out"} : at' = [at EXCEPT ![Manager] = to]
    BY <1>1 DEF Run, Stop
  <2> QED
    BY <1>1, <2>1, <2>2, ManagerWas, ManagerMoves DEF Run, Stop, Same, ManagerPlaces
<1>2. CASE TellApps
  <2>1. /\ at' = [at EXCEPT ![Manager] = "reaping"] /\ holds' = [holds EXCEPT ![Manager] = {}]
        /\ mode' = mode /\ "reaping" \in ManagerPlaces /\ {} \in SUBSET EndSet
    BY <1>2 DEF TellApps, Step, ManagerPlaces
  <2> QED
    BY <2>1, ManagerMoves
<1> QED
  BY <1>1, <1>2

\* What an application is started with: the socket, and its ends of the sockets.
LEMMA StartAppIInv == ASSUME IInv, NEW s \in Slots, StartApp(s) PROVE IInv'
<1> DEFINE held == holds[Manager] \cup (IF mode = "varpool" THEN Both("ctrl", s) ELSE {})
<1>1. at[App(s)] = "none" /\ mode # "cgi" /\ mode' = mode
  BY DEF StartApp, Started
<1>2. CASE at' = [at EXCEPT ![Manager] = "out"] /\ UNCHANGED holds
  <2>1. holds' = [holds EXCEPT ![Manager] = holds[Manager]]
    BY <1>2, Who DEF IInv, DescriptorTypes
  <2> QED
    BY <1>1, <1>2, <2>1, ManagerWas, ManagerMoves DEF ManagerPlaces
<1>3. CASE /\ at' = [at EXCEPT ![App(s)] = "forked"]
           /\ holds' = [holds EXCEPT ![Manager] = held \ {C("ctrl", s)}, ![App(s)] = held]
  <2>1. held \in SUBSET EndSet
    BY ManagerWas, AllEnds DEF Pairs
  <2>2. /\ at'[App(s)] = "forked" /\ holds'[App(s)] = held
        /\ at'[Manager] = at[Manager] /\ holds'[Manager] = held \ {C("ctrl", s)}
        /\ \A q \in Procs : q # App(s) => at'[q] = at[q]
        /\ \A q \in Holders : q # App(s) /\ q # Manager => holds'[q] = holds[q]
    BY <1>3, Who, Apart DEF IInv, DescriptorTypes
  <2>3. DescriptorTypes'
    BY <1>3, <2>1, Who DEF IInv, DescriptorTypes, AppPlaces
  <2>4. ManagerKeeps'
    <3>1. held \ {C("ctrl", s)} \subseteq {Socket} \cup Ctrls \cup Conns
      BY ManagerWas DEF Ctrls, Both
    <3> QED
      BY <1>1, <2>2, <3>1 DEF IInv, ManagerKeeps, Ctrls, Manager
  <2>5. ASSUME NEW t \in Slots, t # s PROVE SlotInv(t)'
    <3>1. /\ Queue(t) # App(s) /\ Queue(t) # Manager
          /\ \A q \in {App(t), Worker(t), Control(t)} : q # App(s) /\ q # Manager
      BY <2>5, Apart
    <3> QED
      BY <1>1, <2>2, <3>1, Who, SlotKept DEF IInv
  <2>6. SlotInv(s)'
    <3>1. SlotInv(s)
      BY DEF IInv
    <3>2. Listen(s)' = Listen(s) /\ Ctrls' = Ctrls
      BY <1>1 DEF Listen, Ctrls
    <3>3. held \ Conns \subseteq {Socket, Listen(s)} \cup Ctrls
      BY ManagerWas DEF Ctrls, Both, Listen
    <3>4. AppFits(s, "forked", held)
      BY <3>3 DEF AppFits, AppPlaces
    <3>5. Family("forked", at[Worker(s)], at[Control(s)])
      BY <1>1, <3>1 DEF SlotInv, Family
    <3>6. /\ Worker(s) # App(s) /\ Control(s) # App(s) /\ Queue(s) # App(s)
          /\ Worker(s) # Manager /\ Control(s) # Manager /\ Queue(s) # Manager
      BY Apart
    <3>7. /\ at'[Worker(s)] = at[Worker(s)] /\ holds'[Worker(s)] = holds[Worker(s)]
          /\ at'[Control(s)] = at[Control(s)] /\ holds'[Control(s)] = holds[Control(s)]
          /\ holds'[Queue(s)] = holds[Queue(s)]
      BY <2>2, <3>6, Who
    <3> QED
      BY <1>1, <2>2, <3>1, <3>2, <3>4, <3>5, <3>7
      DEF SlotInv, AppFits, WorkerFits, ControlFits, Family, App, Worker, Control, Queue
  <2> QED
    BY <2>3, <2>4, <2>5, <2>6 DEF IInv
<1> QED
  BY <1>2, <1>3 DEF StartApp

LEMMA ExecAppIInv == ASSUME IInv, NEW s \in Slots, ExecApp(s) PROVE IInv'
<1> DEFINE held == holds[App(s)] \ (IF mode = "varpool" THEN {P("ctrl", t) : t \in Slots} \cup {Socket}
                                    ELSE {})
<1>1. at[App(s)] = "forked"
  BY DEF ExecApp, Step
<1>2. held \in SUBSET EndSet
  BY AppWas
<1>3. AppFits(s, "begin", held)
  <2>1. held \ Conns \subseteq {Listen(s)}
    BY <1>1, AppWas DEF AppFits, Ctrls, Listen
  <2> QED
    BY <2>1 DEF AppFits, AppPlaces
<1>4. Family("begin", at[Worker(s)], at[Control(s)])
  BY <1>1, AppWas DEF Family
<1> QED
  BY <1>2, <1>3, <1>4, AppMoves DEF ExecApp, Same, Places, AppPlaces

\* Connections move: nothing else is opened or closed, and no process goes on.
LEMMA ConnectionsMove ==
  ASSUME IInv, mode' = mode, at' = at, holds' \in [Holders -> SUBSET EndSet],
         \A p \in Procs : holds'[p] \ Conns = holds[p] \ Conns,
         \A p \in Procs : at[p] \in {"none", "exited", "reaped"} /\ p # Manager => holds'[p] = holds[p],
         \A t \in Slots : holds'[Queue(t)] \subseteq Conns
  PROVE  IInv'
<1>1. DescriptorTypes'
  BY DEF IInv, DescriptorTypes
<1>2. ManagerKeeps'
  BY ManagerWas, Who DEF IInv, ManagerKeeps, Ctrls, Manager
<1>3. ASSUME NEW s \in Slots PROVE SlotInv(s)'
  <2>1. SlotInv(s)
    BY DEF IInv
  <2>2. Listen(s)' = Listen(s) /\ Ctrls' = Ctrls
    BY DEF Listen, Ctrls
  <2>3. \A p \in {App(s), Worker(s), Control(s)} :
          /\ holds'[p] \ Conns = holds[p] \ Conns
          /\ at[p] \in {"none", "exited", "reaped"} => holds'[p] = holds[p]
    BY Who, Apart
  <2>4. AppFits(s, at[App(s)], holds'[App(s)])
    BY <2>1, <2>3 DEF SlotInv, AppFits
  <2>5. WorkerFits(s, at[Worker(s)], holds'[Worker(s)])
    BY <2>1, <2>3 DEF SlotInv, WorkerFits
  <2>6. ControlFits(s, at[Control(s)], holds'[Control(s)])
    BY <2>1, <2>3 DEF SlotInv, ControlFits
  <2>7. AppFits(s, at[App(s)], holds[App(s)])'
    BY <2>2, <2>4 DEF AppFits, App
  <2>8. WorkerFits(s, at[Worker(s)], holds[Worker(s)])'
    BY <2>2, <2>5 DEF WorkerFits, Worker
  <2>9. ControlFits(s, at[Control(s)], holds[Control(s)])'
    BY <2>2, <2>6 DEF ControlFits, Control
  <2>10. Family(at[App(s)], at[Worker(s)], at[Control(s)])'
    BY <2>1 DEF SlotInv, Family, App, Worker, Control
  <2>11. (holds[Queue(s)] \subseteq Conns)'
    BY DEF Queue, Conns
  <2> QED
    BY <2>7, <2>8, <2>9, <2>10, <2>11 DEF SlotInv
<1> QED
  BY <1>1, <1>2, <1>3 DEF IInv

LEMMA HandIInv == ASSUME IInv, NEW s \in Slots, Hand(s) PROVE IInv'
<1>1. CASE HungUp(P("ctrl", s))
  BY <1>1, ManagerMoves DEF Hand, Exit, ManagerPlaces
<1>2. CASE ~HungUp(P("ctrl", s))
  <2>1. /\ holds' = [holds EXCEPT ![Manager] = @ \cup {Conn(s)}, ![Queue(s)] = {Conn(s)}]
        /\ mode' = mode /\ at' = at
    BY <1>2 DEF Hand
  <2>2. Conn(s) \in Conns /\ Conn(s) \in EndSet
    BY AllEnds DEF Conns
  <2>3. Manager # Queue(s)
    BY Apart
  <2>4. /\ holds' \in [Holders -> SUBSET EndSet]
        /\ holds'[Manager] = holds[Manager] \cup {Conn(s)}
        /\ holds'[Queue(s)] = {Conn(s)}
        /\ \A q \in Holders : q # Manager /\ q # Queue(s) => holds'[q] = holds[q]
    BY <2>1, <2>2, <2>3, Who DEF IInv, DescriptorTypes
  <2>5. \A p \in Procs : p # Queue(s)
    BY Who
  <2>6. \A t \in Slots : holds'[Queue(t)] \subseteq Conns
    BY <2>2, <2>4, Who, Apart DEF IInv, SlotInv
  <2> QED
    BY <2>1, <2>2, <2>4, <2>5, <2>6, Who, ConnectionsMove
<1> QED
  BY <1>1, <1>2

LEMMA TakeIInv == ASSUME IInv, NEW s \in Slots, Take(s) PROVE IInv'
<1>1. /\ holds' = [holds EXCEPT ![Control(s)] = @ \cup holds[Queue(s)], ![Queue(s)] = {}]
      /\ mode' = mode /\ at' = at /\ at[Control(s)] = "run"
  BY DEF Take, Same
<1>2. holds[Queue(s)] \subseteq Conns /\ holds[Queue(s)] \subseteq EndSet
  BY Who DEF IInv, SlotInv, DescriptorTypes
<1>3. Control(s) # Queue(s)
  BY Apart
<1>4. /\ holds' \in [Holders -> SUBSET EndSet]
      /\ holds'[Control(s)] = holds[Control(s)] \cup holds[Queue(s)]
      /\ holds'[Queue(s)] = {}
      /\ \A q \in Holders : q # Control(s) /\ q # Queue(s) => holds'[q] = holds[q]
  BY <1>1, <1>2, <1>3, Who DEF IInv, DescriptorTypes
<1>5. \A p \in Procs : p # Queue(s)
  BY Who
<1>6. \A t \in Slots : holds'[Queue(t)] \subseteq Conns
  BY <1>4, Who, Apart DEF IInv, SlotInv
<1> QED
  BY <1>1, <1>2, <1>4, <1>5, <1>6, Who, ConnectionsMove

LEMMA ReleaseIInv == ASSUME IInv, NEW s \in Slots, Release(s) PROVE IInv'
<1> DEFINE c == holds[Control(s)] \cap Conns
<1>1. /\ holds' = [holds EXCEPT ![Control(s)] = @ \ c, ![Manager] = @ \ c]
      /\ mode' = mode /\ at' = at /\ at[Control(s)] = "run"
  BY DEF Release, Same
<1>2. Control(s) # Manager
  BY Apart
<1>3. /\ holds' \in [Holders -> SUBSET EndSet]
      /\ holds'[Control(s)] = holds[Control(s)] \ c
      /\ holds'[Manager] = holds[Manager] \ c
      /\ \A q \in Holders : q # Control(s) /\ q # Manager => holds'[q] = holds[q]
  BY <1>1, <1>2, Who DEF IInv, DescriptorTypes
<1>4. \A t \in Slots : holds'[Queue(t)] \subseteq Conns
  BY <1>3, Who, Apart DEF IInv, SlotInv
<1> QED
  BY <1>1, <1>3, <1>4, Who, ConnectionsMove

LEMMA ReapAppsIInv == ASSUME IInv, ReapApps PROVE IInv'
<1> DEFINE after(p) == IF at[p] = "exited" THEN "reaped" ELSE at[p]
<1>1. /\ holds' = holds /\ mode' = mode
      /\ at' = [p \in Procs |-> IF p = Manager THEN "exited"
                                ELSE IF p[1] = "app" /\ at[p] = "exited" THEN "reaped" ELSE at[p]]
  BY DEF ReapApps, Same
<1>2. /\ at'[Manager] = "exited" /\ at' \in [Procs -> Places]
      /\ \A s \in Slots : /\ at'[App(s)] = after(App(s))
                          /\ at'[Worker(s)] = at[Worker(s)]
                          /\ at'[Control(s)] = at[Control(s)]
  <2>1. \A s \in Slots : App(s)[1] = "app" /\ Worker(s)[1] # "app" /\ Control(s)[1] # "app"
    BY DEF App, Worker, Control
  <2>2. at' \in [Procs -> Places]
    BY <1>1 DEF IInv, DescriptorTypes, Places, AppPlaces
  <2> QED
    BY <1>1, <2>1, <2>2, Who, Apart
<1>3. DescriptorTypes' /\ ManagerKeeps'
  BY <1>1, <1>2, ManagerWas DEF IInv, DescriptorTypes, ManagerKeeps, ManagerPlaces, Places, Ctrls, Manager
<1>4. ASSUME NEW s \in Slots PROVE SlotInv(s)'
  <2>1. SlotInv(s)
    BY DEF IInv
  <2>2. Listen(s)' = Listen(s) /\ Ctrls' = Ctrls
    BY <1>1 DEF Listen, Ctrls
  <2>3. AppFits(s, after(App(s)), holds[App(s)])
    BY <2>1 DEF SlotInv, AppFits, AppPlaces
  <2>4. Family(after(App(s)), at[Worker(s)], at[Control(s)])
    BY <2>1 DEF SlotInv, Family
  <2> QED
    BY SMTT(30), <1>1, <1>2, <2>1, <2>2, <2>3, <2>4
    DEF SlotInv, AppFits, WorkerFits, ControlFits, Family, App, Worker, Control, Queue
<1> QED
  BY <1>3, <1>4 DEF IInv

-----------------------------------------------------------------------------
LEMMA InitIInv == DInit => IInv
<1> SUFFICES ASSUME DInit PROVE IInv
  OBVIOUS
<1>1. DescriptorTypes
  BY AllEnds DEF DInit, DescriptorTypes, AppPlaces, ManagerPlaces
<1>2. ManagerKeeps
  BY Who DEF DInit, ManagerKeeps, ManagerPlaces, Manager
<1>3. ASSUME NEW s \in Slots PROVE SlotInv(s)
  <2>1. /\ at[App(s)] \in {"none", "begin"} /\ (at[App(s)] = "begin" => mode = "cgi")
        /\ at[Worker(s)] = "none" /\ at[Control(s)] = "none"
    BY Who, Apart DEF DInit, App, Worker, Control
  <2>2. /\ holds[App(s)] = {} /\ holds[Worker(s)] = {} /\ holds[Control(s)] = {}
        /\ holds[Queue(s)] = {}
    BY Who, Apart DEF DInit
  <2> QED
    BY <2>1, <2>2 DEF SlotInv, AppFits, WorkerFits, ControlFits, Family, AppPlaces, ChildPlaces
<1> QED
  BY <1>1, <1>2, <1>3 DEF IInv

LEMMA NextIInv == IInv /\ [DNext]_dvars => IInv'
<1> SUFFICES ASSUME IInv, [DNext]_dvars PROVE IInv'
  OBVIOUS
<1>1. ASSUME NEW s \in Slots,
             \/ Library(s) \/ WorkerSetup(s) \/ WorkerExits(s) \/ ControlSetup(s)
             \/ ControlExits(s) \/ StartApp(s) \/ ExecApp(s) \/ Hand(s) \/ Take(s) \/ Release(s)
      PROVE  IInv'
  BY <1>1, LibraryIInv, WorkerSetupIInv, WorkerExitsIInv, ControlSetupIInv, ControlExitsIInv,
     StartAppIInv, ExecAppIInv, HandIInv, TakeIInv, ReleaseIInv
<1>2. CASE \E p \in Procs : Dies(p)
  BY <1>2, DiesIInv
<1>3. CASE Run \/ Stop \/ TellApps \/ ReapApps
  BY <1>3, ManagerOnlyIInv, ReapAppsIInv
<1>4. CASE UNCHANGED dvars
  BY <1>4, SlotKept, ManagerKept DEF dvars, IInv, DescriptorTypes
<1> QED
  BY <1>1, <1>2, <1>3, <1>4 DEF DNext

\* Where every process is and what it holds there, whoever has failed or gone, with
\* any number of applications.
THEOREM DescriptorsInvariance == DSpec => []IInv
BY InitIInv, NextIInv, PTL DEF DSpec

-----------------------------------------------------------------------------
\* Every variable keeps its type: what anybody holds is a descriptor there is.
THEOREM TypeCorrect == DSpec => []DescriptorTypes
BY DescriptorsInvariance, PTL DEF IInv

\* Whose an end is.
LEMMA Users ==
  ASSUME NEW s
  PROVE  /\ User(C("work_ctl", s)) = Worker(s) /\ User(C("work_dat", s)) = Worker(s)
         /\ User(P("work_ctl", s)) = Control(s) /\ User(C("sock_ctl", s)) = Control(s)
         /\ User(C("ctrl", s)) = Control(s)
         /\ User(P("sock_ctl", s)) = App(s) /\ User(P("work_dat", s)) = App(s)
         /\ User(P("ctrl", s)) = Manager
BY DEF User, C, P

\* Once they run, each process holds no socket but the ones it uses, and an
\* application whose start has failed has closed and waited for everything.
THEOREM OnlyItsOwnHolds == DSpec => []OnlyItsOwn
<1>1. IInv => OnlyItsOwn
  <2> SUFFICES ASSUME IInv PROVE OnlyItsOwn
    OBVIOUS
  <2>1. ASSUME NEW p \in Procs, at[p] \in {"run", "serving"},
               NEW e \in holds[p] \ (Conns \cup {Socket})
        PROVE  User(e) = p
    <3>1. CASE p = Manager
      <4>1. e \in Ctrls
        BY <3>1, ManagerWas
      <4> QED
        BY <3>1, <4>1, Users DEF Ctrls
    <3>2. ASSUME NEW s \in Slots, p = App(s) PROVE User(e) = p
      <4>1. at[p] = "serving" /\ mode # "cgi"
        BY <2>1, <3>2, AppWas DEF AppFits, AppPlaces, Family
      <4>2. e \in {P("work_dat", s), P("sock_ctl", s)}
        BY <3>2, <4>1, AppWas DEF AppFits
      <4> QED
        BY <3>2, <4>2, Users
    <3>3. ASSUME NEW s \in Slots, p = Worker(s) PROVE User(e) = p
      <4>1. e \in {C("work_ctl", s), C("work_dat", s)}
        BY <2>1, <3>3, ChildWas DEF WorkerFits, ChildPlaces
      <4> QED
        BY <3>3, <4>1, Users
    <3>4. ASSUME NEW s \in Slots, p = Control(s) PROVE User(e) = p
      <4>1. e \in {Listen(s), P("work_ctl", s), C("sock_ctl", s)}
        BY <2>1, <3>4, ChildWas DEF ControlFits, ChildPlaces
      <4> QED
        BY <3>4, <4>1, Users DEF Listen
    <3> QED
      BY <3>1, <3>2, <3>3, <3>4, Who
  <2>2. ASSUME NEW s \in Slots, at[App(s)] = "returned"
        PROVE  holds[App(s)] \cap Ours(s) = {} /\ \A p \in Children(s) : at[p] = "reaped"
    <3>1. holds[App(s)] \subseteq {Listen(s)} \cup Conns
      BY <2>2, AppWas DEF AppFits
    <3>2. Listen(s) \notin Ours(s) /\ Conns \cap Ours(s) = {}
      BY NotOurs DEF Listen, Work, Both, Conns, Conn, Socket, C, P
    <3>3. {at[Worker(s)], at[Control(s)]} \subseteq {"none", "reaped"}
      BY <2>2, AppWas DEF Family
    <3> QED
      BY <3>1, <3>2, <3>3 DEF Children
  <2> QED
    BY <2>1, <2>2 DEF OnlyItsOwn
<1> QED
  BY <1>1, DescriptorsInvariance, PTL

\* Who can hold the ends of a slot's sockets: only the processes of the slot, and
\* those only where the invariant lets them.
LEMMA OnlyHere ==
  ASSUME IInv, NEW s \in Slots, NEW pair \in {"work_ctl", "work_dat", "sock_ctl"},
         NEW e \in Both(pair, s), NEW p \in Holders, e \in holds[p]
  PROVE  p \in {App(s), Worker(s), Control(s)}
<1>1. e \notin Conns /\ e # Socket /\ e \notin Ctrls
  BY DEF Both, C, P, Conns, Conn, Socket, Ctrls
<1>2. p # Manager
  BY <1>1, ManagerWas
<1>3. \A t \in Slots : p # Queue(t)
  BY <1>1 DEF IInv, SlotInv
<1>4. PICK t \in Slots : p \in {App(t), Worker(t), Control(t)}
  BY <1>2, <1>3, Who DEF Holders
<1>5. e \in Work(t) \cup Both("sock_ctl", t) \cup {Listen(t)}
  <2>1. CASE p = App(t)
    <3>1. at[p] \in AppPlaces
      BY <2>1, AppWas DEF AppFits
    <3> QED
      BY <1>1, <2>1, <3>1, AppWas DEF AppFits, AppPlaces, Family, Work, Both
  <2>2. CASE p = Worker(t)
    BY <1>1, <2>2, ChildWas DEF WorkerFits, ChildPlaces, Work, Both
  <2>3. CASE p = Control(t)
    BY <1>1, <2>3, ChildWas DEF ControlFits, ChildPlaces, Work, Both
  <2> QED
    BY <1>4, <2>1, <2>2, <2>3
<1>6. t = s
  BY <1>5 DEF Work, Both, C, P, Listen, Socket
<1> QED
  BY <1>4, <1>6

LEMMA GoneInTheEnd ==
  ASSUME IInv, NEW s \in Slots
  PROVE  /\ Gone(App(s)) => holds[App(s)] = {}
         /\ Gone(Worker(s)) => holds[Worker(s)] = {}
         /\ Gone(Control(s)) => holds[Control(s)] = {}
BY AppWas, ChildWas DEF Gone, AppFits, WorkerFits, ControlFits

\* Nobody can hold an end, if no process of the slot does.
LEMMA NobodyHolds ==
  ASSUME IInv, NEW s \in Slots, NEW pair \in {"work_ctl", "work_dat", "sock_ctl"}
  PROVE  /\ (\A p \in {App(s), Worker(s), Control(s)} : C(pair, s) \notin holds[p])
              => HungUp(P(pair, s))
         /\ (\A p \in {App(s), Worker(s), Control(s)} : P(pair, s) \notin holds[p])
              => HungUp(C(pair, s))
<1>1. Peer(P(pair, s)) = C(pair, s) /\ Peer(C(pair, s)) = P(pair, s)
  BY DEF Peer, P, C
<1>2. P(pair, s) \in Both(pair, s) /\ C(pair, s) \in Both(pair, s)
  BY DEF Both
<1> QED
  BY <1>1, <1>2, OnlyHere DEF HungUp

\* Once its processes run, whoever goes is noticed by those that wait for it: an end
\* that no process uses is held by none, so the sockets of the others are hung up.
THEOREM NoticedWhenGoneHolds == DSpec => []NoticedWhenGone
<1>1. ASSUME IInv, NEW s \in Slots, at[Control(s)] = "run"
      PROVE  /\ mode # "cgi"
             /\ holds[App(s)] \ Conns \subseteq
                  {Listen(s), P("work_ctl", s), P("work_dat", s)} \cup Both("sock_ctl", s)
             /\ holds[Control(s)] \ Conns \subseteq {Listen(s), P("work_ctl", s), C("sock_ctl", s)}
  <2>1. at[App(s)] \in AppPlaces \ {"none", "forked", "begin", "begun", "fork", "parent", "sock"}
        /\ mode # "cgi" /\ at[App(s)] # "reading"
    BY <1>1, AppWas DEF AppFits, Family
  <2>2. holds[App(s)] \ Conns \subseteq
          {Listen(s), P("work_ctl", s), P("work_dat", s)} \cup Both("sock_ctl", s)
    BY <1>1, <2>1, AppWas DEF AppFits, AppPlaces, Both
  <2> QED
    BY <1>1, <2>1, <2>2, ChildWas DEF ControlFits
<1>2. ASSUME IInv, NEW s \in Slots, AppDone(s)
      PROVE  holds[App(s)] \ Conns \subseteq {Listen(s)}
  BY <1>2, AppWas, GoneInTheEnd DEF AppDone, AppFits
<1>3. ASSUME IInv, NEW s \in Slots, NEW pair \in {"work_ctl", "work_dat", "sock_ctl"}
      PROVE  \A e \in Both(pair, s) :
               /\ e \notin Conns /\ e # Listen(s)
               /\ \A other \in {"work_ctl", "work_dat", "sock_ctl"} \ {pair} : e \notin Both(other, s)
  BY DEF Both, C, P, Conns, Conn, Socket, Listen
<1>4. \A pair, s : P(pair, s) # C(pair, s) /\ P(pair, s) \in Both(pair, s) /\ C(pair, s) \in Both(pair, s)
  BY DEF P, C, Both
<1>5. ASSUME IInv, NEW s \in Slots, at[Control(s)] = "run", Gone(Worker(s))
      PROVE  HungUp(P("work_ctl", s))
  BY <1>1, <1>3, <1>4, <1>5, GoneInTheEnd, NobodyHolds
<1>6. ASSUME IInv, NEW s \in Slots, at[Control(s)] = "run", AppDone(s)
      PROVE  HungUp(C("sock_ctl", s))
  <2>1. holds[Worker(s)] \ Conns \subseteq {Listen(s)} \cup Work(s)
    BY <1>6, ChildWas DEF WorkerFits, ChildPlaces, Work, Both
  <2>2. P("sock_ctl", s) \notin holds[Worker(s)]
    BY <2>1, <1>3, <1>4, <1>6 DEF Work
  <2>3. P("sock_ctl", s) \notin holds[App(s)]
    BY <1>2, <1>3, <1>4, <1>6
  <2>4. P("sock_ctl", s) \notin holds[Control(s)]
    BY <1>1, <1>3, <1>4, <1>6
  <2> QED
    BY <1>6, <2>2, <2>3, <2>4, NobodyHolds
<1>7. ASSUME IInv, NEW s \in Slots, mode = "varpool", holds[Manager] = {},
             \A t \in Slots : at[App(t)] # "forked"
      PROVE  HungUp(C("ctrl", s))
  <2>1. Peer(C("ctrl", s)) = P("ctrl", s)
    BY DEF Peer, C, P
  <2>2. P("ctrl", s) \notin Conns /\ P("ctrl", s) # Socket
        /\ \A t \in Slots : P("ctrl", s) # Listen(t) /\ P("ctrl", s) \notin Work(t)
                            /\ P("ctrl", s) \notin Both("sock_ctl", t)
    BY DEF C, P, Conns, Conn, Socket, Listen, Work, Both
  <2>3. ASSUME NEW t \in Slots PROVE P("ctrl", s) \notin holds[App(t)]
    <3>1. holds[App(t)] \ Conns \subseteq {Listen(t)} \cup Work(t) \cup Both("sock_ctl", t)
      <4>1. at[App(t)] \in AppPlaces
        BY <1>7, AppWas DEF AppFits
      <4> QED
        BY <1>7, <4>1, AppWas DEF AppFits, AppPlaces, Family, Work, Both
    <3> QED
      BY <2>2, <3>1
  <2>4. ASSUME NEW t \in Slots PROVE P("ctrl", s) \notin holds[Worker(t)]
    <3>1. holds[Worker(t)] \ Conns \subseteq {Listen(t)} \cup Work(t)
      BY <1>7, ChildWas DEF WorkerFits, ChildPlaces, Work, Both
    <3> QED
      BY <2>2, <3>1
  <2>5. ASSUME NEW t \in Slots PROVE P("ctrl", s) \notin holds[Control(t)]
    <3>1. holds[Control(t)] \ Conns \subseteq {Listen(t)} \cup Work(t) \cup Both("sock_ctl", t)
      BY <1>7, ChildWas DEF ControlFits, ChildPlaces, Work, Both
    <3> QED
      BY <2>2, <3>1
  <2>6. ASSUME NEW t \in Slots PROVE P("ctrl", s) \notin holds[Queue(t)]
    BY <1>7, <2>2 DEF IInv, SlotInv
  <2> QED
    BY <1>7, <2>1, <2>3, <2>4, <2>5, <2>6, Who DEF HungUp, Holders
<1>8. ASSUME IInv, NEW s \in Slots, at[App(s)] = "serving", Gone(Control(s))
      PROVE  HungUp(P("sock_ctl", s))
  <2>1. holds[Worker(s)] \ Conns \subseteq {Listen(s)} \cup Work(s)
    BY <1>8, ChildWas DEF WorkerFits, ChildPlaces, Work, Both
  <2>2. C("sock_ctl", s) \notin holds[Worker(s)]
    BY <2>1, <1>3, <1>4, <1>8 DEF Work
  <2>3. holds[App(s)] \ Conns \subseteq {P("work_dat", s), P("sock_ctl", s)}
    BY <1>8, AppWas DEF AppFits, Family
  <2>4. C("sock_ctl", s) \notin holds[App(s)]
    BY <2>3, <1>3, <1>4, <1>8
  <2> QED
    BY <1>8, <2>2, <2>4, GoneInTheEnd, NobodyHolds
<1>9. ASSUME IInv, NEW s \in Slots, at[Worker(s)] = "run", Gone(Control(s)),
             at[App(s)] = "serving" \/ AppDone(s)
      PROVE  HungUp(C("work_ctl", s))
  <2>1. holds[Worker(s)] \ Conns \subseteq {C("work_ctl", s), C("work_dat", s)}
    BY <1>9, ChildWas DEF WorkerFits
  <2>2. P("work_ctl", s) \notin holds[Worker(s)]
    BY <2>1, <1>3, <1>4, <1>9
  <2>3. holds[App(s)] \ Conns \subseteq {Listen(s), P("work_dat", s), P("sock_ctl", s)}
    BY <1>2, <1>9, AppWas DEF AppFits, Family
  <2>4. P("work_ctl", s) \notin holds[App(s)]
    BY <2>3, <1>3, <1>4, <1>9
  <2> QED
    BY <1>9, <2>2, <2>4, GoneInTheEnd, NobodyHolds
<1>10. ASSUME IInv, NEW s \in Slots, at[Worker(s)] = "run", mode = "cgi", AppDone(s)
       PROVE  HungUp(C("work_dat", s))
  <2>1. holds[Worker(s)] \ Conns \subseteq {C("work_ctl", s), C("work_dat", s)}
    BY <1>10, ChildWas DEF WorkerFits
  <2>2. P("work_dat", s) \notin holds[Worker(s)]
    BY <2>1, <1>3, <1>4, <1>10
  <2>3. P("work_dat", s) \notin holds[App(s)]
    BY <1>2, <1>3, <1>4, <1>10
  <2>4. holds[Control(s)] = {}
    BY <1>10, ChildWas DEF ControlFits, Family
  <2> QED
    BY <1>10, <2>2, <2>3, <2>4, NobodyHolds
<1>11. IInv => NoticedWhenGone
  BY <1>5, <1>6, <1>7, <1>8, <1>9, <1>10 DEF NoticedWhenGone
<1> QED
  BY <1>11, DescriptorsInvariance, PTL

=============================================================================

---------------------------- MODULE VarpoolProofs ----------------------------
(***************************************************************************)
(* Proofs about Varpool, for pools, bounds and numbers of processes of any *)
(* size.                                                                   *)
(*                                                                         *)
(* None of the invariants of Varpool is inductive by itself: that a slot   *)
(* freed by an answer is that of the worker found by the cookie needs the  *)
(* agreement of what the manager recorded with what the workers do, which  *)
(* needs that no two workers have the same process or connection, which    *)
(* needs to know the processes there are at all.  IInv puts this together. *)
(***************************************************************************)
EXTENDS Varpool, TLAPS, FiniteSetTheorems, SequenceTheorems

\* How the arrays, and the places in them, are related.
Sizes ==
  /\ MinPool <= minwsz
  /\ minwsz <= Len(ws)
  /\ Len(ws) <= MaxPool
  /\ InLoop \/ pc = "start" => Len(pfd) = Len(ws)
  /\ npfd <= Len(pfd)
  /\ 1 <= idx
  /\ pc = "start" => npfd = 0
  /\ pc = "accept" => npfd < Len(pfd)

\* Who the manager's children are, and that it knows each of them once.
Family ==
  ~Ended =>
    /\ \A p \in Pid :
         proc[p] # "none" <=> p \in slough \/ \E i \in 1..Len(ws) : ws[i].pid = p
    /\ \A i, j \in 1..Len(ws) : ws[i].pid = ws[j].pid => i = j \/ ws[i].pid = NoPid
    /\ InLoop \/ pc = "start" => \A i \in 1..Len(ws) : ws[i].pid \notin slough

\* What is left of a process that is not there, or about to end.
Remains ==
  ~Ended =>
    \A p \in Pid :
      /\ proc[p] = "none" => job[p] = NoConn /\ outb[p] = NoConn
      /\ proc[p] \in {"broken", "dead"} => job[p] = NoConn

\* While the initial workers are being started.
Starting ==
  pc = "start" =>
    /\ slough = {}
    /\ \A i \in 1..Len(ws) :
         /\ ws[i].fd = NoConn
         /\ ws[i].pid = NoPid <=> idx <= i
    /\ \A p \in Pid : job[p] = NoConn /\ outb[p] = NoConn

\* What the manager knows of the workers, in its main loop.
Records ==
  InLoop =>
    \A i \in 1..Len(ws) :
      /\ ws[i].pid # NoPid
      /\ ws[i].fd <= accepted
      /\ job[ws[i].pid] # NoConn => job[ws[i].pid] = ws[i].fd
      /\ outb[ws[i].pid] \in Conn =>
           outb[ws[i].pid] = ws[i].fd /\ job[ws[i].pid] = NoConn
      /\ \A j \in 1..Len(ws) : ws[i].fd = ws[j].fd => i = j \/ ws[i].fd = NoConn

\* What it polls.
Slots ==
  InLoop =>
    /\ \A i \in 1..Len(ws) :
         ws[i].fd # NoConn => \E k \in 1..npfd : pfd[k].pid = ws[i].pid
    /\ \A k \in 1..npfd :
         \E i \in 1..Len(ws) : ws[i].fd # NoConn /\ ws[i].pid = pfd[k].pid
    /\ \A k, l \in 1..npfd : pfd[k].pid = pfd[l].pid => k = l

IInv ==
  TypeOK /\ Sizes /\ Family /\ Remains /\ Starting /\ Records /\ Slots
    /\ NoChildLeft


USE PoolAssumption

-----------------------------------------------------------------------------
(* Sequences *)

\* A function on 1..n is a sequence of length n.
LEMMA FunctionIsSeq ==
  ASSUME NEW S, NEW n \in Nat, NEW f \in [1..n -> S]
  PROVE  f \in Seq(S) /\ Len(f) = n
<1>1. f \in Seq(S)
  BY SeqDef
<1>2. Len(f) \in Nat /\ DOMAIN f = 1..Len(f)
  BY <1>1, LenProperties
<1>3. 1..n = 1..Len(f)
  BY <1>2
<1> QED
  BY <1>1, <1>2, <1>3

\* What TypeOK says of the arrays, element by element.
LEMMA Arrays ==
  ASSUME TypeOK
  PROVE  /\ Len(ws) \in Nat /\ DOMAIN ws = 1..Len(ws)
         /\ \A i \in 1..Len(ws) : ws[i] \in Worker
         /\ Len(pfd) \in Nat /\ DOMAIN pfd = 1..Len(pfd)
         /\ \A k \in 1..Len(pfd) : pfd[k] \in PollFd
  BY LenProperties, ElementOfSeq DEF TypeOK

\* The family is the same as long as the workers have the processes they had.
LEMMA FamilyKept ==
  ASSUME Family, ~Ended, UNCHANGED <<slough, proc>>, Len(ws') = Len(ws),
         InLoop' \/ pc' = "start" => InLoop \/ pc = "start",
         \A j \in 1..Len(ws) : ws'[j].pid = ws[j].pid
  PROVE  Family'
<1>1. ASSUME NEW q \in Pid
      PROVE  proc'[q] # "none" <=> q \in slough' \/ \E j \in 1..Len(ws') : ws'[j].pid = q
  <2>1. (\E j \in 1..Len(ws') : ws'[j].pid = q) <=> \E j \in 1..Len(ws) : ws[j].pid = q
    OBVIOUS
  <2>2. proc[q] # "none" <=> q \in slough \/ \E j \in 1..Len(ws) : ws[j].pid = q
    BY DEF Family
  <2> QED
    BY <2>1, <2>2
<1>2. \A i, j \in 1..Len(ws') :
        ws'[i].pid = ws'[j].pid => i = j \/ ws'[i].pid = NoPid
  BY DEF Family
<1>3. InLoop' \/ pc' = "start" => \A i \in 1..Len(ws') : ws'[i].pid \notin slough'
  BY DEF Family
<1> QED
  BY <1>1, <1>2, <1>3 DEF Family

-----------------------------------------------------------------------------
(* The initial states *)

LEMMA InitIInv == Init => IInv
<1> SUFFICES ASSUME Init PROVE IInv
  OBVIOUS
<1> USE PoolAssumption, ProcsAssumption, BoundAssumption
<1>1. \A i \in 1..MinPool : NewWorker(NoPid) \in Worker
  BY DEF NewWorker, Worker, NoPid, NoConn
<1>2. ws \in [1..MinPool -> Worker]
  BY <1>1 DEF Init
<1>3. ws \in Seq(Worker) /\ Len(ws) = MinPool
  BY <1>2, FunctionIsSeq
<1>4. pfd \in [1..MinPool -> PollFd]
  BY DEF Init, NewPollFd, PollFd, NoPid
<1>5. pfd \in Seq(PollFd) /\ Len(pfd) = MinPool
  BY <1>4, FunctionIsSeq
<1>6. TypeOK
  <2>1. accepting \in BOOLEAN /\ listenReady \in BOOLEAN /\ listening \in BOOLEAN
    BY Zenon DEF Init
  <2>2. /\ proc \in [Pid -> ProcState]
        /\ job \in [Pid -> Conn \cup {NoConn}]
        /\ outb \in [Pid -> Conn \cup {NoConn, BadCookie}]
    BY DEF Init, ProcState
  <2> QED
    BY <1>3, <1>5, <2>1, <2>2 DEF Init, TypeOK, PC
<1>7. \A i \in 1..Len(ws) : ws[i].fd = NoConn /\ ws[i].pid = NoPid
  BY <1>3 DEF Init, NewWorker
<1>8. Sizes
  BY <1>3, <1>5 DEF Init, Sizes
<1>9. Family
  <2>1. \A p \in Pid : proc[p] = "none" /\ p \notin slough /\ p # NoPid
    BY DEF Init, Pid, NoPid
  <2>2. slough = {}
    BY DEF Init
  <2> QED
    BY <1>7, <2>1, <2>2 DEF Family
<1>10. Remains /\ NoChildLeft /\ Records /\ Slots
  BY DEF Init, Remains, NoChildLeft, Records, Slots, InLoop
<1>11. Starting
  BY <1>7 DEF Init, Starting
<1> QED
  BY <1>6, <1>8, <1>9, <1>10, <1>11 DEF IInv

\* What is polled depends on who the workers are, and on their connections.
LEMMA SlotsKept ==
  ASSUME Slots, InLoop' => InLoop, Len(ws') = Len(ws), npfd' = npfd,
         \A i \in 1..Len(ws) : ws'[i].pid = ws[i].pid /\ ws'[i].fd = ws[i].fd,
         \A k \in 1..npfd : pfd'[k].pid = pfd[k].pid
  PROVE  Slots'
<1> SUFFICES ASSUME InLoop' PROVE Slots'
  BY DEF Slots
<1>1. \A i \in 1..Len(ws) :
        ws'[i].fd # NoConn => \E k \in 1..npfd : pfd'[k].pid = ws'[i].pid
  <2> SUFFICES ASSUME NEW i \in 1..Len(ws), ws'[i].fd # NoConn
               PROVE  \E k \in 1..npfd : pfd'[k].pid = ws'[i].pid
    OBVIOUS
  <2>1. PICK k \in 1..npfd : pfd[k].pid = ws[i].pid
    BY DEF Slots
  <2> QED
    BY <2>1
<1>2. \A k \in 1..npfd :
        \E i \in 1..Len(ws) : ws'[i].fd # NoConn /\ ws'[i].pid = pfd'[k].pid
  <2> SUFFICES ASSUME NEW k \in 1..npfd
               PROVE  \E i \in 1..Len(ws) :
                        ws'[i].fd # NoConn /\ ws'[i].pid = pfd'[k].pid
    OBVIOUS
  <2>1. PICK i \in 1..Len(ws) : ws[i].fd # NoConn /\ ws[i].pid = pfd[k].pid
    BY DEF Slots
  <2> QED
    BY <2>1
<1>3. \A k, l \in 1..npfd : pfd'[k].pid = pfd'[l].pid => k = l
  <2> SUFFICES ASSUME NEW k \in 1..npfd, NEW l \in 1..npfd,
                      pfd'[k].pid = pfd'[l].pid
               PROVE  k = l
    OBVIOUS
  <2>1. pfd[k].pid = pfd[l].pid
    OBVIOUS
  <2> QED
    BY <2>1 DEF Slots
<1> QED
  BY <1>1, <1>2, <1>3 DEF Slots

-----------------------------------------------------------------------------
(* Steps that only move the manager on *)

LEMMA ControlStep ==
  ASSUME IInv, UNCHANGED <<ws, slough, pfd, npfd, minwsz, listenReady>>,
         UNCHANGED <<flags, osVars, procVars, bounds>>,
         accepting' \in BOOLEAN,
         ~Ended, pc' \in PC \ {"start", "exited", "killed"},
         rc' \in Int, idx' \in Nat, 1 <= idx',
         InLoop' => InLoop \/ (pc = "start" /\ idx > Len(ws)),
         pc' = "accept" => npfd < Len(pfd)
  PROVE  IInv'
<1> USE DEF osVars, procVars, bounds
<1>1. TypeOK'
  BY DEF IInv, TypeOK
<1>2. Sizes'
  BY DEF IInv, Sizes
<1>3. Family' /\ Remains' /\ Starting' /\ NoChildLeft'
  BY DEF IInv, Family, Remains, Starting, NoChildLeft, Ended
<1>4. Records'
  <2>1. CASE InLoop
    BY <2>1 DEF IInv, Records
  <2>2. CASE pc = "start" /\ idx > Len(ws)
    <3>1. \A i \in 1..Len(ws) : ws[i].pid # NoPid /\ ws[i].fd = NoConn
      BY <2>2, Arrays DEF IInv, Starting, TypeOK
    <3>2. \A i \in 1..Len(ws) : ws[i].pid \in Pid
      BY <3>1, Arrays DEF IInv, Worker
    <3>3. \A p \in Pid : job[p] = NoConn /\ outb[p] = NoConn
      BY <2>2 DEF IInv, Starting
    <3>4. NoConn <= accepted /\ NoConn \notin Conn
      BY DEF IInv, TypeOK, NoConn, Conn
    <3> QED
      BY <3>1, <3>2, <3>3, <3>4 DEF Records
  <2> QED
    BY <2>1, <2>2 DEF Records
<1>5. Slots'
  <2>1. CASE InLoop
    BY <2>1 DEF IInv, Slots
  <2>2. CASE pc = "start" /\ idx > Len(ws)
    BY <2>2 DEF IInv, Slots, Starting, Sizes
  <2> QED
    BY <2>1, <2>2 DEF Slots
<1> QED
  BY <1>1, <1>2, <1>3, <1>4, <1>5 DEF IInv

\* The actions of the manager that only choose where to go, or whether to
\* accept.
ControlOnly ==
  \/ StartFails \/ Started \/ HandleStop \/ HandleChldNoSlough \/ HandleHup
  \/ NoSignal \/ ShrinkNot \/ SloughFull \/ ReleaseHup \/ ReleaseSkip
  \/ ReleaseEof \/ Released \/ NothingToAccept \/ RateLimit \/ GrowFails
  \/ GrowNot \/ AcceptError

LEMMA ControlOnlyIInv == IInv /\ ControlOnly => IInv'
<1> SUFFICES ASSUME IInv, ControlOnly PROVE IInv'
  OBVIOUS
<1> USE DEF PC, Ended, InLoop, GotoOut, PollAgain, ToRelease, poolVars
<1>1. rc \in Int /\ idx \in Nat /\ 1 <= idx /\ accepting \in BOOLEAN
  BY DEF IInv, TypeOK, Sizes
<1>2. CASE StartFails \/ HandleStop \/ HandleChldNoSlough \/ HandleHup
  BY <1>1, <1>2, ControlStep
     DEF StartFails, HandleStop, HandleChldNoSlough, HandleHup
<1>3. CASE SloughFull \/ ReleaseHup \/ ReleaseEof \/ GrowFails \/ AcceptError
  BY <1>1, <1>3, ControlStep
     DEF SloughFull, ReleaseHup, ReleaseEof, GrowFails, AcceptError, Releasing
<1>4. CASE Started
  BY <1>1, <1>4, ControlStep DEF Started
<1>5. CASE NoSignal
  BY <1>1, <1>5, ControlStep DEF NoSignal
<1>6. CASE ShrinkNot
  BY <1>1, <1>6, ControlStep DEF ShrinkNot
<1>7. CASE ReleaseSkip
  BY <1>1, <1>7, ControlStep DEF ReleaseSkip, Releasing
<1>8. CASE Released \/ NothingToAccept
  BY <1>1, <1>8, ControlStep DEF Released, NothingToAccept
<1>10. CASE RateLimit
  <2>1. accepting' \in BOOLEAN
    BY <1>10, Zenon DEF RateLimit
  <2>2. /\ UNCHANGED <<ws, slough, pfd, npfd, minwsz, listenReady>>
        /\ UNCHANGED <<flags, osVars, procVars, bounds>>
        /\ pc' = "poll" /\ pc = "listen" /\ rc' = 0 /\ idx' = 1
    BY <1>10 DEF RateLimit
  <2> QED
    BY <1>1, <2>1, <2>2, ControlStep
<1>9. CASE GrowNot
  <2>1. npfd < Len(pfd)
    BY <1>9, Arrays DEF IInv, TypeOK, Sizes, GrowNot, AllBusy
  <2> QED
    BY <1>1, <1>9, <2>1, ControlStep DEF GrowNot
<1> QED
  BY <1>2, <1>3, <1>4, <1>5, <1>6, <1>7, <1>8, <1>9, <1>10 DEF ControlOnly

-----------------------------------------------------------------------------
(* Clients, workers, the operator, and time *)

\* What depends on the manager's own variables only.
LEMMA Undisturbed ==
  ASSUME IInv, UNCHANGED <<poolVars, ctlVars>>
  PROVE  Sizes' /\ Slots'
<1> USE DEF poolVars, ctlVars
<1>1. Sizes'
  BY DEF InLoop, IInv, Sizes
<1>2. Slots'
  BY DEF IInv, Slots, InLoop
<1> QED
  BY <1>1, <1>2

\* Neither clients nor signals touch the workers.
LEMMA OutsideIInv ==
  ASSUME IInv, UNCHANGED <<poolVars, ctlVars, accepted, procVars>>, TypeOK'
  PROVE  IInv'
<1> USE DEF poolVars, ctlVars, procVars
<1>1. Sizes' /\ Slots'
  BY Undisturbed
<1>2. Family' /\ Remains' /\ Starting' /\ NoChildLeft'
  BY DEF InLoop, IInv, Family, Remains, Starting, NoChildLeft, Ended
<1>3. Records'
  BY DEF IInv, Records, InLoop
<1> QED
  BY <1>1, <1>2, <1>3 DEF IInv

LEMMA ClientOrOperatorIInv ==
  IInv /\ (Connect \/ SendTerm \/ SendHup \/ UNCHANGED vars) => IInv'
<1> SUFFICES ASSUME IInv, Connect \/ SendTerm \/ SendHup \/ UNCHANGED vars
             PROVE  IInv'
  OBVIOUS
<1> USE BoundAssumption
    DEF IInv, vars, poolVars, ctlVars, osVars, procVars, bounds
<1>1. CASE Connect
  <2>1. TypeOK'
    BY <1>1 DEF TypeOK, Connect
  <2> QED
    BY <1>1, <2>1, OutsideIInv DEF Connect
<1>2. CASE SendTerm
  <2>1. TypeOK'
    BY <1>2 DEF TypeOK, SendTerm, Signals
  <2> QED
    BY <1>2, <2>1, OutsideIInv DEF SendTerm
<1>3. CASE SendHup
  <2>1. TypeOK'
    BY <1>3 DEF TypeOK, SendHup, Signals
  <2> QED
    BY <1>3, <2>1, OutsideIInv DEF SendHup
<1>4. CASE UNCHANGED vars
  <2>1. TypeOK'
    BY <1>4 DEF TypeOK
  <2> QED
    BY <1>4, <2>1, OutsideIInv
<1> QED
  BY <1>1, <1>2, <1>3, <1>4

\* A worker finishes, or answers with a wrong cookie.
LEMMA AnswerIInv ==
  ASSUME NEW p \in Pid, IInv, Finish(p) \/ Babble(p)
  PROVE  IInv'
<1> USE DEF IInv, ctlVars, poolVars, osVars, bounds
<1>1. proc[p] \in {"run", "told"} /\ job[p] # NoConn /\ pc # "start"
  BY DEF Finish, Babble, Starting
<1>2. /\ UNCHANGED <<poolVars, ctlVars, osVars, proc>>
      /\ \/ /\ job' = [job EXCEPT ![p] = NoConn]
            /\ \/ outb' = [outb EXCEPT ![p] = job[p]]
               \/ outb' = [outb EXCEPT ![p] = outb[p]]
         \/ job' = job /\ outb' = [outb EXCEPT ![p] = BadCookie]
  BY DEF Finish, Babble
<1>3. TypeOK'
  <2>1. job[p] \in Conn \cup {NoConn} /\ outb[p] \in Conn \cup {NoConn, BadCookie}
    BY DEF TypeOK
  <2>2. /\ job' \in [Pid -> Conn \cup {NoConn}]
        /\ outb' \in [Pid -> Conn \cup {NoConn, BadCookie}]
    BY <1>2, <2>1 DEF TypeOK
  <2>3. crashes' \in Nat /\ hups' \in Nat /\ terms' \in Nat
    BY DEF Finish, Babble, TypeOK
  <2> QED
    BY <1>2, <2>2, <2>3 DEF TypeOK
<1>4. Sizes' /\ Slots'
  BY <1>2, Undisturbed
<1>5. Family' /\ Starting' /\ NoChildLeft'
  BY <1>1, <1>2 DEF InLoop, Family, Starting, NoChildLeft, Ended
<1>6. Remains'
  BY <1>1, <1>2 DEF Remains, TypeOK, Ended
<1>7. Records'
  <2> SUFFICES ASSUME InLoop', NEW i \in 1..Len(ws)
               PROVE  /\ job'[ws[i].pid] # NoConn => job'[ws[i].pid] = ws[i].fd
                      /\ outb'[ws[i].pid] \in Conn =>
                           /\ outb'[ws[i].pid] = ws[i].fd
                           /\ job'[ws[i].pid] = NoConn
    BY <1>2 DEF Records, InLoop
  <2>1. ws[i].pid \in Pid
    BY <1>2, Arrays DEF Records, InLoop, Worker
  <2>2. BadCookie \notin Conn
    BY BoundAssumption DEF BadCookie, Conn
  <2>3. CASE ws[i].pid = p
    BY <1>1, <1>2, <2>1, <2>2, <2>3 DEF Records, InLoop, TypeOK
  <2>4. CASE ws[i].pid # p
    BY <1>2, <2>1, <2>4 DEF Records, InLoop, TypeOK
  <2> QED
    BY <2>3, <2>4
<1> QED
  BY <1>3, <1>4, <1>5, <1>6, <1>7

\* A worker crashes or exits.
LEMMA EndOfWorkerIInv ==
  ASSUME NEW p \in Pid, IInv, WorkerCrash(p) \/ WorkerExit(p)
  PROVE  IInv'
<1> USE DEF IInv, ctlVars, poolVars
<1>1. /\ UNCHANGED <<poolVars, ctlVars, listening, held, arrived, accepted, outb>>
      /\ job' = [job EXCEPT ![p] = NoConn]
      /\ proc[p] # "none"
  BY DEF WorkerCrash, WorkerExit, osVars
<1>2. \E s \in {"none", "broken", "dead"} :
        /\ proc' = [proc EXCEPT ![p] = s]
        /\ s = "none" => Ended
  BY DEF WorkerCrash, WorkerExit
<1>3. TypeOK'
  <2>1. job' \in [Pid -> Conn \cup {NoConn}] /\ proc' \in [Pid -> ProcState]
    BY <1>1, <1>2 DEF TypeOK, ProcState
  <2>2. pending' \in SUBSET Signals
    <3>1. pending' = pending \/ pending' = pending \cup {"CHLD"}
      BY DEF WorkerCrash, WorkerExit, osVars
    <3>2. pending \in SUBSET Signals /\ "CHLD" \in Signals
      BY DEF TypeOK, Signals
    <3> QED
      BY <3>1, <3>2
  <2>3. crashes' \in Nat /\ terms' \in Nat /\ hups' \in Nat
    <3>1. crashes' \in {crashes, crashes + 1} /\ UNCHANGED <<terms, hups>>
      BY DEF WorkerCrash, WorkerExit, bounds
    <3>2. crashes \in Nat /\ terms \in Nat /\ hups \in Nat
      BY DEF TypeOK
    <3> QED
      BY <3>1, <3>2
  <2> QED
    BY <1>1, <2>1, <2>2, <2>3 DEF TypeOK
<1>4. Sizes' /\ Slots'
  BY <1>1, Undisturbed
<1>5. Family' /\ Remains'
  BY <1>1, <1>2 DEF InLoop, Family, Remains, Ended, TypeOK
<1>6. Starting' /\ NoChildLeft'
  BY <1>1, <1>2 DEF Starting, NoChildLeft, TypeOK
<1>7. Records'
  <2> SUFFICES ASSUME InLoop', NEW i \in 1..Len(ws)
               PROVE  /\ job'[ws[i].pid] # NoConn => job'[ws[i].pid] = ws[i].fd
                      /\ outb[ws[i].pid] \in Conn =>
                           /\ outb[ws[i].pid] = ws[i].fd
                           /\ job'[ws[i].pid] = NoConn
    BY <1>1 DEF Records, InLoop
  <2>1. ws[i].pid \in Pid
    BY <1>1, Arrays DEF Records, InLoop, Worker
  <2> QED
    BY <1>1, <2>1 DEF Records, InLoop, TypeOK
<1> QED
  BY <1>3, <1>4, <1>5, <1>6, <1>7

\* A worker's idle time goes by.
LEMMA AgeIInv ==
  ASSUME NEW i \in DOMAIN ws, IInv, Age(i)
  PROVE  IInv'
<1> USE DEF IInv
<1> DEFINE w == [ws[i] EXCEPT !.last = "old"]
<1>1. i \in 1..Len(ws) /\ ws[i] \in Worker
  BY Arrays
<1>2. w \in Worker /\ w.pid = ws[i].pid /\ w.fd = ws[i].fd
  BY <1>1 DEF Worker
<1>3. ws' = [ws EXCEPT ![i] = w]
  BY DEF Age
<1> HIDE DEF w
<1>4. /\ ws' \in Seq(Worker)
      /\ Len(ws') = Len(ws)
      /\ \A j \in 1..Len(ws) : ws'[j] = IF j = i THEN w ELSE ws[j]
  <2>1. ws \in Seq(Worker)
    BY DEF TypeOK
  <2> QED
    BY <1>1, <1>2, <1>3, <2>1, ExceptSeq
<1>5. /\ Len(ws') = Len(ws)
      /\ \A j \in 1..Len(ws) : ws'[j].pid = ws[j].pid /\ ws'[j].fd = ws[j].fd
  BY <1>2, <1>4
<1>6. UNCHANGED <<slough, pfd, npfd, minwsz, accepting, listenReady, ctlVars,
                  osVars, procVars, bounds>>
  BY DEF Age
<1> USE DEF ctlVars, osVars, procVars, bounds
<1>7. TypeOK'
  BY <1>4, <1>6 DEF TypeOK
<1>8. Sizes'
  BY <1>5, <1>6 DEF InLoop, Sizes
<1>9. Family'
  BY <1>5, <1>6 DEF InLoop, Family, Ended
<1>10. Remains' /\ NoChildLeft'
  BY <1>6 DEF Remains, Ended, NoChildLeft
<1>11. Starting'
  BY <1>5, <1>6 DEF Starting
<1>12. Records'
  <2> SUFFICES ASSUME InLoop, NEW j \in 1..Len(ws), NEW k \in 1..Len(ws)
               PROVE  /\ ws[j].pid # NoPid
                      /\ ws[j].fd <= accepted
                      /\ job[ws[j].pid] # NoConn => job[ws[j].pid] = ws[j].fd
                      /\ outb[ws[j].pid] \in Conn =>
                           outb[ws[j].pid] = ws[j].fd /\ job[ws[j].pid] = NoConn
                      /\ ws[j].fd = ws[k].fd => j = k \/ ws[j].fd = NoConn
    BY <1>5, <1>6, Zenon DEF Records, InLoop
  <2> QED
    BY DEF Records
<1>13. Slots'
  BY <1>5, <1>6, SlotsKept DEF InLoop
<1> QED
  BY <1>7, <1>8, <1>9, <1>10, <1>11, <1>12, <1>13

-----------------------------------------------------------------------------
(* Starting and polling *)

LEMMA StartWorkerIInv == IInv /\ StartWorker => IInv'
<1> SUFFICES ASSUME IInv, StartWorker PROVE IInv'
  OBVIOUS
<1> USE DEF IInv
<1>1. PICK p \in Pid : Fork(p) /\ ws' = [ws EXCEPT ![idx] = NewWorker(p)]
  BY DEF StartWorker
<1>2. /\ pc = "start" /\ idx \in 1..Len(ws) /\ idx' = idx + 1
      /\ UNCHANGED <<slough, pfd, npfd, minwsz, accepting, listenReady, pc, rc,
                     flags, osVars, job, outb, bounds>>
  BY DEF StartWorker, TypeOK, Sizes
<1> USE DEF osVars, bounds
<1>3. NewWorker(p) \in Worker /\ NewWorker(p).pid = p /\ NewWorker(p).fd = NoConn
  BY DEF NewWorker, Worker
<1>4. /\ ws' \in Seq(Worker)
      /\ Len(ws') = Len(ws)
      /\ \A j \in 1..Len(ws) : ws'[j] = IF j = idx THEN NewWorker(p) ELSE ws[j]
  BY <1>1, <1>2, <1>3, ExceptSeq DEF TypeOK
<1>5. /\ proc[p] = "none" /\ proc' = [proc EXCEPT ![p] = "run"]
      /\ p # NoPid
  BY <1>1 DEF Fork, Pid, NoPid
<1>6. /\ slough = {}
      /\ \A j \in 1..Len(ws) : ws[j].fd = NoConn /\ (ws[j].pid = NoPid <=> idx <= j)
      /\ \A q \in Pid : job[q] = NoConn /\ outb[q] = NoConn
  BY <1>2 DEF Starting
<1>7. TypeOK'
  BY <1>2, <1>4, <1>5 DEF TypeOK, ProcState
<1>8. Sizes'
  BY <1>2, <1>4 DEF Sizes
<1>9. Family'
  <2>1. \A q \in Pid : proc[q] # "none" <=> \E i \in 1..Len(ws) : ws[i].pid = q
    BY <1>2, <1>6 DEF Family, Ended
  <2>2. \A i \in 1..Len(ws) : i # idx => ws[i].pid # p
    BY <2>1, <1>5
  <2>3. \A q \in Pid : proc'[q] # "none" <=> \E i \in 1..Len(ws) : ws'[i].pid = q
    <3> SUFFICES ASSUME NEW q \in Pid
                 PROVE  proc'[q] # "none" <=> \E i \in 1..Len(ws) : ws'[i].pid = q
      OBVIOUS
    <3>1. CASE q = p
      BY <1>2, <1>3, <1>4, <1>5, <3>1 DEF TypeOK
    <3>2. CASE q # p
      <4>1. q # NoPid /\ ws[idx].pid = NoPid
        BY <1>2, <1>6 DEF Pid, NoPid
      <4>2. \A i \in 1..Len(ws) : ws'[i].pid = q <=> ws[i].pid = q
        BY <3>2, <4>1, <1>3, <1>4
      <4> QED
        BY <3>2, <4>2, <2>1, <1>5 DEF TypeOK
    <3> QED
      BY <3>1, <3>2
  <2>4. \A i, j \in 1..Len(ws) :
          ws'[i].pid = ws'[j].pid => i = j \/ ws'[i].pid = NoPid
    BY <2>2, <1>2, <1>3, <1>4 DEF Family, Ended
  <2> QED
    BY <2>3, <2>4, <1>2, <1>4, <1>6 DEF Family
<1>10. Remains'
  BY <1>2, <1>5, <1>6 DEF Remains
<1>11. Starting'
  BY <1>2, <1>3, <1>4, <1>5, <1>6 DEF Starting
<1>12. Records' /\ Slots' /\ NoChildLeft'
  BY <1>2 DEF Records, Slots, NoChildLeft, InLoop
<1> QED
  BY <1>7, <1>8, <1>9, <1>10, <1>11, <1>12

LEMMA PollIInv == IInv /\ (Poll \/ PollInterrupted) => IInv'
<1> SUFFICES ASSUME IInv, Poll \/ PollInterrupted PROVE IInv'
  OBVIOUS
<1> USE DEF IInv, osVars, procVars, bounds
<1>1. /\ pc = "poll" /\ pc' = "signals"
      /\ flags' = flags \cup pending /\ pending' = {}
      /\ UNCHANGED <<ws, slough, npfd, minwsz, accepting, idx, listening, held,
                     arrived, accepted, procVars, bounds>>
  BY DEF Poll, PollInterrupted, Deliver
<1>2. \A k \in 1..Len(pfd) : Readiness(pfd[k].pid) \in {"none", "in", "hup"}
  BY DEF Readiness
<1>3. /\ Polled \in [1..Len(pfd) -> PollFd]
      /\ \A k \in 1..Len(pfd) : Polled[k].pid = pfd[k].pid
  BY <1>2, Arrays DEF Polled, PollFd
<1>4. /\ pfd' \in Seq(PollFd)
      /\ Len(pfd') = Len(pfd)
      /\ \A k \in 1..Len(pfd) : pfd'[k].pid = pfd[k].pid
  <2>1. CASE pfd' = Polled
    BY <2>1, <1>3, FunctionIsSeq, Arrays
  <2>2. CASE pfd' = pfd
    BY <2>2 DEF TypeOK
  <2> QED
    BY <2>1, <2>2 DEF Poll, PollInterrupted
<1>5. listenReady' \in BOOLEAN
  <2>1. Backlog \in BOOLEAN
    BY DEF Backlog
  <2>2. listenReady \in BOOLEAN
    BY DEF TypeOK
  <2>3. ListenPolled \in BOOLEAN
    BY <2>1, <2>2, Zenon DEF ListenPolled
  <2> QED
    BY <2>2, <2>3, Zenon DEF Poll, PollInterrupted
<1>6. rc' \in Int
  <2>1. NumReady \in Int
    <3>1. IsFiniteSet(1..npfd)
      BY FS_Interval DEF TypeOK
    <3>2. Cardinality({k \in 1..npfd : Readiness(pfd[k].pid) # "none"}) \in Nat
      BY <3>1, FS_Subset, FS_CardinalityType
    <3> QED
      BY <3>2 DEF NumReady
  <2> QED
    BY <2>1 DEF Poll, PollInterrupted
<1>7. TypeOK'
  BY <1>1, <1>4, <1>5, <1>6 DEF TypeOK, PC
<1>8. Sizes'
  BY <1>1, <1>4 DEF InLoop, Sizes
<1>9. Family' /\ Remains' /\ Starting' /\ NoChildLeft'
  BY <1>1 DEF InLoop, Family, Remains, Starting, NoChildLeft, Ended
<1>10. Records'
  BY <1>1 DEF Records, InLoop
<1>11. Slots'
  <2>1. \A k \in 1..npfd : k \in 1..Len(pfd)
    BY Arrays DEF Sizes, TypeOK
  <2>2. \A k \in 1..npfd : pfd'[k].pid = pfd[k].pid
    BY <2>1, <1>4
  <2>3. \A i \in 1..Len(ws) : ws'[i].pid = ws[i].pid /\ ws'[i].fd = ws[i].fd
    BY <1>1
  <2> QED
    BY <2>2, <2>3, <1>1, SlotsKept DEF InLoop
<1> QED
  BY <1>7, <1>8, <1>9, <1>10, <1>11

LEMMA PollFailsIInv == IInv /\ PollFails => IInv'
<1> SUFFICES ASSUME IInv, PollFails PROVE IInv'
  OBVIOUS
<1> USE DEF IInv, osVars, procVars, poolVars, bounds
<1>1. /\ pc = "poll" /\ pc' = "out" /\ rc' = -1
      /\ flags' = flags \cup pending /\ pending' = {}
      /\ UNCHANGED <<poolVars, idx, listening, held, arrived, accepted, procVars, bounds>>
  BY DEF PollFails, Deliver
<1>2. TypeOK'
  BY <1>1 DEF TypeOK, PC
<1>3. Sizes' /\ Family'
  BY <1>1 DEF Sizes, Family, InLoop, Ended
<1>4. Remains' /\ Starting' /\ NoChildLeft' /\ Records' /\ Slots'
  BY <1>1 DEF Remains, Starting, NoChildLeft, Records, Slots, InLoop, Ended
<1> QED
  BY <1>2, <1>3, <1>4

\* Before the first worker is started there is none.
LEMMA NoArraysIInv == IInv /\ NoArrays => IInv'
<1> SUFFICES ASSUME IInv, NoArrays PROVE IInv'
  OBVIOUS
<1> USE DEF IInv, osVars, procVars, poolVars, bounds
<1>1. /\ pc = "start" /\ pc' = "exited" /\ idx = 1 /\ held' = {} /\ listening' = FALSE
      /\ UNCHANGED <<poolVars, rc, idx, flags, pending, arrived, accepted, procVars,
                     bounds>>
  BY DEF NoArrays
<1>2. TypeOK'
  <2>1. listening' \in BOOLEAN
    BY <1>1, Zenon
  <2> QED
    BY <1>1, <2>1 DEF TypeOK, PC
<1>3. \A p \in Pid : proc[p] = "none"
  <2>1. slough = {} /\ \A i \in 1..Len(ws) : ws[i].pid = NoPid
    BY <1>1, Arrays DEF Starting
  <2> QED
    BY <1>1, <2>1 DEF Family, Ended, Pid, NoPid
<1>4. Sizes' /\ Family' /\ NoChildLeft'
  BY <1>1, <1>3 DEF Sizes, Family, NoChildLeft, InLoop, Ended
<1>5. Remains' /\ Starting' /\ Records' /\ Slots'
  BY <1>1 DEF Remains, Starting, Records, Slots, InLoop, Ended
<1> QED
  BY <1>2, <1>4, <1>5

-----------------------------------------------------------------------------
(* Waiting for processes *)

\* What is left of the processes in S after they were waited for.
LEMMA Reaped ==
  ASSUME NEW S \in SUBSET Pid, TypeOK, Reap(S)
  PROVE  /\ pending' \in SUBSET Signals
         /\ proc' \in [Pid -> ProcState]
         /\ outb' \in [Pid -> Conn \cup {NoConn, BadCookie}]
         /\ job' = job
         /\ \A p \in S : proc'[p] = "none" /\ outb'[p] = NoConn
         /\ \A p \in Pid \ S : proc'[p] = proc[p] /\ outb'[p] = outb[p]
<1> USE DEF Reap, TypeOK
<1>1. pending' \in SUBSET Signals
  BY DEF AfterWait
<1>2. proc' \in [Pid -> ProcState]
  BY DEF ProcState
<1>3. outb' \in [Pid -> Conn \cup {NoConn, BadCookie}]
  OBVIOUS
<1> QED
  BY <1>1, <1>2, <1>3

LEMMA HandleChldWorkerIInv == IInv /\ HandleChldWorker => IInv'
<1> SUFFICES ASSUME IInv, HandleChldWorker PROVE IInv'
  OBVIOUS
<1> USE DEF IInv, GotoOut
<1>1. PICK i \in 1..Len(ws) : /\ proc[ws[i].pid] = "dead"
                              /\ ws' = [ws EXCEPT ![i].pid = NoPid]
                              /\ Reap({ws[i].pid})
  BY Arrays DEF HandleChldWorker, HasDied
<1>2. /\ pc = "signals" /\ pc' = "out"
      /\ UNCHANGED <<rc, idx, slough, pfd, npfd, minwsz, accepting, listenReady,
                     flags, listening, held, arrived, accepted, bounds>>
  BY DEF HandleChldWorker
<1> DEFINE p == ws[i].pid
           w == [ws[i] EXCEPT !.pid = NoPid]
<1>3. p \in Pid /\ p # NoPid
  BY <1>2, Arrays DEF Records, InLoop, Worker
<1>4. w \in Worker /\ w.pid = NoPid
  BY Arrays DEF Worker
<1>5. ws' = [ws EXCEPT ![i] = w]
  BY <1>1
<1> HIDE DEF w
<1>6. /\ ws' \in Seq(Worker)
      /\ Len(ws') = Len(ws)
      /\ \A j \in 1..Len(ws) : ws'[j] = IF j = i THEN w ELSE ws[j]
  BY <1>4, <1>5, ExceptSeq DEF TypeOK
<1>7. /\ pending' \in SUBSET Signals
      /\ proc' \in [Pid -> ProcState]
      /\ outb' \in [Pid -> Conn \cup {NoConn, BadCookie}]
      /\ job' = job
      /\ proc'[p] = "none" /\ outb'[p] = NoConn
      /\ \A q \in Pid \ {p} : proc'[q] = proc[q] /\ outb'[q] = outb[q]
  <2>1. {p} \in SUBSET Pid
    BY <1>3
  <2> QED
    BY <1>1, <2>1, Reaped
<1>8. TypeOK'
  BY <1>2, <1>6, <1>7 DEF TypeOK, PC, bounds
<1>9. Sizes'
  BY <1>2, <1>6 DEF InLoop, Sizes
<1>10. Family'
  <2>1. /\ \A j \in 1..Len(ws) : j # i => ws[j].pid # p
        /\ p \notin slough
    BY <1>2, <1>3 DEF InLoop, Family, Ended
  <2>2. ASSUME NEW q \in Pid
        PROVE  proc'[q] # "none" <=>
                 q \in slough \/ \E j \in 1..Len(ws) : ws'[j].pid = q
    <3>1. q # NoPid
      BY DEF Pid, NoPid
    <3>2. CASE q = p
      BY <1>4, <1>6, <1>7, <2>1, <3>1, <3>2
    <3>3. CASE q # p
      <4>1. \A j \in 1..Len(ws) : ws'[j].pid = q <=> ws[j].pid = q
        BY <1>4, <1>6, <3>1, <3>3
      <4> QED
        BY <1>2, <1>7, <3>3, <4>1 DEF Family, Ended
    <3> QED
      BY <3>2, <3>3
  <2>3. \A j, k \in 1..Len(ws) :
          ws'[j].pid = ws'[k].pid => j = k \/ ws'[j].pid = NoPid
    BY <1>2, <1>4, <1>6 DEF Family, Ended
  <2> QED
    BY <1>2, <1>6, <2>2, <2>3 DEF InLoop, Family
<1>11. Remains'
  BY <1>1, <1>2, <1>3, <1>7 DEF Remains, Ended
<1>12. Starting' /\ Records' /\ Slots' /\ NoChildLeft'
  BY <1>2 DEF Starting, Records, Slots, NoChildLeft, InLoop
<1> QED
  BY <1>8, <1>9, <1>10, <1>11, <1>12

LEMMA HandleChldSloughIInv == IInv /\ HandleChldSlough => IInv'
<1> SUFFICES ASSUME IInv, HandleChldSlough PROVE IInv'
  OBVIOUS
<1> USE DEF IInv
<1> DEFINE S == Dead(slough)
<1>1. /\ pc = "signals" /\ pc' = "shrink"
      /\ flags' \in SUBSET Signals
      /\ slough' = slough \ S
      /\ Reap(S)
      /\ rc' \in Int
      /\ UNCHANGED <<ws, pfd, npfd, minwsz, accepting, listenReady, idx,
                     listening, held, arrived, accepted, bounds>>
  BY PoolAssumption DEF HandleChldSlough, ChldServed, TypeOK, PidRc
<1>2. S \in SUBSET Pid /\ S \subseteq slough
  BY DEF Dead, TypeOK
<1>3. \A p \in S : proc[p] = "dead"
  BY DEF Dead
<1> HIDE DEF S
<1>4. /\ pending' \in SUBSET Signals
      /\ proc' \in [Pid -> ProcState]
      /\ outb' \in [Pid -> Conn \cup {NoConn, BadCookie}]
      /\ job' = job
      /\ \A p \in S : proc'[p] = "none" /\ outb'[p] = NoConn
      /\ \A p \in Pid \ S : proc'[p] = proc[p] /\ outb'[p] = outb[p]
  BY <1>1, <1>2, Reaped
<1>5. \A i \in 1..Len(ws) : ws[i].pid \in Pid \ S
  BY <1>1, <1>2, Arrays DEF Records, Family, InLoop, Ended, Worker
<1>6. TypeOK'
  BY <1>1, <1>4 DEF TypeOK, PC, bounds
<1>7. Sizes'
  BY <1>1 DEF InLoop, Sizes
<1>8. Family'
  <2>1. ASSUME NEW q \in Pid
        PROVE  proc'[q] # "none" <=>
                 q \in slough' \/ \E j \in 1..Len(ws) : ws[j].pid = q
    <3>1. CASE q \in S
      BY <1>1, <1>4, <1>5, <3>1
    <3>2. CASE q \notin S
      BY <1>1, <1>4, <3>2 DEF Family, Ended
    <3> QED
      BY <3>1, <3>2
  <2> QED
    BY <1>1, <2>1 DEF InLoop, Family, Ended
<1>9. Remains'
  BY <1>1, <1>2, <1>3, <1>4 DEF Remains, Ended
<1>10. Records'
  BY <1>1, <1>4, <1>5 DEF Records, InLoop
<1>11. Slots' /\ Starting' /\ NoChildLeft'
  BY <1>1 DEF Slots, Starting, NoChildLeft, InLoop
<1> QED
  BY <1>6, <1>7, <1>8, <1>9, <1>10, <1>11

LEMMA OutIInv == IInv /\ Out => IInv'
<1> SUFFICES ASSUME IInv, Out PROVE IInv'
  OBVIOUS
<1> USE DEF IInv
<1>1. /\ pc = "out" /\ pc' = "wait" /\ proc' = TellPool
      /\ UNCHANGED <<poolVars, rc, idx, flags, pending, held, arrived, accepted,
                     job, outb, bounds>>
  BY DEF Out
<1> USE DEF poolVars, bounds
<1>2. /\ proc' \in [Pid -> ProcState]
      /\ \A p \in Pid : proc'[p] = proc[p] \/ (proc[p] = "run" /\ proc'[p] = "told")
  BY <1>1 DEF TypeOK, TellPool, ProcState
<1>3. listening' \in BOOLEAN
  <2>1. ("HUP" \in flags) \in BOOLEAN
    OBVIOUS
  <2> QED
    BY <2>1, Zenon DEF Out, WantsRestart
<1>4. TypeOK'
  BY <1>1, <1>2, <1>3 DEF TypeOK, PC
<1>5. Sizes' /\ Starting' /\ Records' /\ Slots' /\ NoChildLeft'
  BY <1>1 DEF Sizes, Starting, Records, Slots, NoChildLeft, InLoop
<1>6. Family' /\ Remains'
  BY <1>1, <1>2 DEF InLoop, Family, Remains, Ended
<1> QED
  BY <1>4, <1>5, <1>6

\* Nothing is left when all children have been waited for.
LEMMA NothingLeft ==
  ASSUME IInv, pc = "wait", Waited
  PROVE  /\ pending' \in SUBSET Signals
         /\ proc' = [p \in Pid |-> "none"]
         /\ outb' \in [Pid -> Conn \cup {NoConn, BadCookie}]
         /\ job' = job
         /\ \A p \in Pid : job[p] = NoConn /\ outb'[p] = NoConn
<1> USE DEF IInv
<1>1. Reap(Children) /\ \A p \in Children : proc[p] = "dead"
  BY DEF Waited, Dead
<1>2. \A i \in 1..Len(ws) : ws[i].pid \in Pid \cup {NoPid}
  BY Arrays DEF Worker
<1>3. Children \in SUBSET Pid
  BY <1>2, Arrays DEF Children, PoolPids, TypeOK
<1>4. \A p \in Pid \ Children : proc[p] = "none"
  <2> SUFFICES ASSUME NEW p \in Pid, proc[p] # "none" PROVE p \in Children
    OBVIOUS
  <2>1. p \in slough \/ \E i \in 1..Len(ws) : ws[i].pid = p
    BY DEF Family, Ended
  <2>2. p # NoPid
    BY DEF Pid, NoPid
  <2> QED
    BY <2>1, <2>2, Arrays DEF Children, PoolPids
<1>5. /\ pending' \in SUBSET Signals
      /\ proc' \in [Pid -> ProcState]
      /\ outb' \in [Pid -> Conn \cup {NoConn, BadCookie}]
      /\ job' = job
      /\ \A p \in Children : proc'[p] = "none" /\ outb'[p] = NoConn
      /\ \A p \in Pid \ Children : proc'[p] = proc[p] /\ outb'[p] = outb[p]
  BY <1>1, <1>3, Reaped
<1>6. \A p \in Pid : job[p] = NoConn /\ outb'[p] = NoConn /\ proc'[p] = "none"
  BY <1>1, <1>4, <1>5 DEF Remains, Ended
<1> QED
  BY <1>5, <1>6

LEMMA ExitIInv == IInv /\ Exit => IInv'
<1> SUFFICES ASSUME IInv, Exit PROVE IInv'
  OBVIOUS
<1>1. /\ pc = "wait" /\ Waited /\ pc' = "exited" /\ held' = {} /\ slough' = {}
      /\ UNCHANGED <<ws, pfd, npfd, minwsz, accepting, listenReady, rc, idx,
                     flags, listening, arrived, accepted, bounds>>
  BY DEF Exit, Waited
<1>2. /\ pending' \in SUBSET Signals
      /\ proc' = [p \in Pid |-> "none"]
      /\ outb' \in [Pid -> Conn \cup {NoConn, BadCookie}]
      /\ job' = job
  BY <1>1, NothingLeft
<1>3. TypeOK'
  BY <1>1, <1>2 DEF IInv, TypeOK, PC, ProcState, bounds
<1>4. Sizes'
  BY <1>1 DEF InLoop, IInv, Sizes
<1>5. Family' /\ Remains' /\ Starting' /\ Records' /\ Slots' /\ NoChildLeft'
  BY <1>1, <1>2
     DEF Family, Remains, Starting, Records, Slots, NoChildLeft, InLoop, Ended
<1> QED
  BY <1>3, <1>4, <1>5 DEF IInv

LEMMA RestartIInv == IInv /\ Restart => IInv'
<1> SUFFICES ASSUME IInv, Restart PROVE IInv'
  OBVIOUS
<1> USE PoolAssumption
<1>1. /\ pc = "wait" /\ Waited /\ pc' = "start" /\ slough' = {}
      /\ minwsz' = Len(ws) /\ ws' = Blank(Len(ws))
      /\ pfd' = [k \in 1..Len(ws) |-> NewPollFd]
      /\ npfd' = 0 /\ rc' = 0 /\ idx' = 1 /\ flags' = {}
      /\ UNCHANGED <<listening, held, arrived, accepted, bounds>>
  BY DEF Restart, Waited
<1>2. accepting' \in BOOLEAN /\ listenReady' \in BOOLEAN
  BY Zenon DEF Restart
<1>3. /\ pending' \in SUBSET Signals
      /\ proc' = [p \in Pid |-> "none"]
      /\ outb' \in [Pid -> Conn \cup {NoConn, BadCookie}]
      /\ job' = job
      /\ \A p \in Pid : job[p] = NoConn /\ outb'[p] = NoConn
  BY <1>1, NothingLeft
<1>4. Len(ws) \in Nat
  BY Arrays DEF IInv
<1>5. NewWorker(NoPid) \in Worker /\ NewPollFd \in PollFd
  BY DEF NewWorker, Worker, NewPollFd, PollFd
<1>6. ws' \in Seq(Worker) /\ Len(ws') = Len(ws)
  <2>1. ws' \in [1..Len(ws) -> Worker]
    BY <1>1, <1>5 DEF Blank
  <2> QED
    BY <2>1, <1>4, FunctionIsSeq
<1>7. \A i \in 1..Len(ws) : ws'[i].pid = NoPid /\ ws'[i].fd = NoConn
  BY <1>1 DEF Blank, NewWorker
<1>8. pfd' \in Seq(PollFd) /\ Len(pfd') = Len(ws)
  <2>1. pfd' \in [1..Len(ws) -> PollFd]
    BY <1>1, <1>5
  <2> QED
    BY <2>1, <1>4, FunctionIsSeq
<1>9. TypeOK'
  BY <1>1, <1>2, <1>3, <1>4, <1>6, <1>8 DEF IInv, TypeOK, PC, ProcState, bounds
<1>10. Sizes'
  BY <1>1, <1>4, <1>6, <1>8 DEF IInv, Sizes, TypeOK
<1>11. Family'
  <2>1. \A p \in Pid : proc'[p] = "none" /\ p # NoPid
    BY <1>3 DEF Pid, NoPid
  <2> QED
    BY <2>1, <1>1, <1>6, <1>7 DEF Family
<1>12. Remains' /\ Records' /\ Slots' /\ NoChildLeft'
  BY <1>1, <1>3 DEF Remains, Records, Slots, NoChildLeft, InLoop
<1>13. Starting'
  BY <1>1, <1>3, <1>6, <1>7 DEF Starting
<1> QED
  BY <1>9, <1>10, <1>11, <1>12, <1>13 DEF IInv

-----------------------------------------------------------------------------
(* Growing and shrinking *)

LEMMA GrowIInv == IInv /\ Grow => IInv'
<1> SUFFICES ASSUME IInv, Grow PROVE IInv'
  OBVIOUS
<1> USE DEF IInv, osVars, bounds
<1>1. PICK p \in Pid : /\ proc[p] = "none" /\ proc' = [proc EXCEPT ![p] = "run"]
                       /\ ws' = Append(ws, NewWorker(p))
                       /\ pfd' = Append(pfd, NewPollFd)
  BY DEF Grow, Fork
<1>2. /\ pc = "listen" /\ pc' = "accept" /\ npfd = Len(pfd)
      /\ Len(ws) + 1 <= MaxPool
      /\ UNCHANGED <<slough, npfd, minwsz, accepting, listenReady, rc, idx,
                     flags, osVars, job, outb, bounds>>
  BY DEF Grow, AllBusy, RoomToGrow
<1> DEFINE n == Len(ws)
<1>3. n \in Nat /\ Len(pfd) = n
  BY <1>2, Arrays DEF InLoop, Sizes
<1>4. NewWorker(p) \in Worker /\ NewWorker(p).pid = p /\ NewWorker(p).fd = NoConn
  BY DEF NewWorker, Worker
<1>5. /\ ws' \in Seq(Worker) /\ Len(ws') = n + 1
      /\ \A i \in 1..n : ws'[i] = ws[i]
      /\ ws'[n + 1] = NewWorker(p)
  BY <1>1, <1>4, AppendProperties DEF TypeOK
<1>6. NewPollFd \in PollFd
  BY DEF NewPollFd, PollFd
<1>7. /\ pfd' \in Seq(PollFd) /\ Len(pfd') = n + 1
      /\ \A k \in 1..n : pfd'[k] = pfd[k]
  BY <1>1, <1>3, <1>6, AppendProperties DEF TypeOK
<1>8. /\ p # NoPid /\ p \notin slough
      /\ \A i \in 1..n : ws[i].pid # p
      /\ job[p] = NoConn /\ outb[p] = NoConn
  BY <1>1, <1>2 DEF Family, Remains, Ended, Pid, NoPid
<1> HIDE DEF n
<1>9. TypeOK'
  BY <1>1, <1>2, <1>5, <1>7 DEF TypeOK, PC, ProcState
<1>10. Sizes'
  BY <1>2, <1>3, <1>5, <1>7 DEF Sizes, TypeOK, n
<1>11. Family'
  <2>1. ASSUME NEW q \in Pid
        PROVE  proc'[q] # "none" <=>
                 q \in slough \/ \E j \in 1..(n + 1) : ws'[j].pid = q
    <3>1. CASE q = p
      BY <1>1, <1>3, <1>4, <1>5, <3>1 DEF TypeOK
    <3>2. CASE q # p
      <4>1. (\E j \in 1..(n + 1) : ws'[j].pid = q)
              <=> \E j \in 1..n : ws[j].pid = q
        BY <1>3, <1>4, <1>5, <3>2
      <4>2. proc'[q] = proc[q]
        BY <1>1, <3>2 DEF TypeOK
      <4> QED
        BY <1>2, <4>1, <4>2 DEF Family, Ended, n
    <3> QED
      BY <3>1, <3>2
  <2>2. \A i, j \in 1..(n + 1) :
          ws'[i].pid = ws'[j].pid => i = j \/ ws'[i].pid = NoPid
    BY <1>2, <1>3, <1>4, <1>5, <1>8 DEF Family, Ended, n
  <2>3. \A i \in 1..(n + 1) : ws'[i].pid \notin slough
    BY <1>2, <1>3, <1>4, <1>5, <1>8 DEF InLoop, Family, Ended, n
  <2> QED
    BY <1>2, <1>5, <2>1, <2>2, <2>3 DEF Family
<1>12. Remains'
  BY <1>1, <1>2, <1>8 DEF Remains, Ended, TypeOK
<1>13. Records'
  <2>1. NoConn <= accepted /\ NoConn \notin Conn
    BY DEF TypeOK, NoConn, Conn
  <2> SUFFICES ASSUME NEW i \in 1..(n + 1)
               PROVE  /\ ws'[i].pid # NoPid
                      /\ ws'[i].fd <= accepted
                      /\ job[ws'[i].pid] # NoConn => job[ws'[i].pid] = ws'[i].fd
                      /\ outb[ws'[i].pid] \in Conn =>
                           outb[ws'[i].pid] = ws'[i].fd /\ job[ws'[i].pid] = NoConn
                      /\ \A j \in 1..(n + 1) :
                           ws'[i].fd = ws'[j].fd => i = j \/ ws'[i].fd = NoConn
    BY <1>2, <1>5 DEF Records
  <2>2. CASE i = n + 1
    BY <1>3, <1>4, <1>5, <1>8, <2>1, <2>2
  <2>3. CASE i \in 1..n
    <3>1. ws'[i] = ws[i]
      BY <1>5, <2>3
    <3>2. \A j \in 1..(n + 1) :
            ws'[i].fd = ws'[j].fd => i = j \/ ws'[i].fd = NoConn
      <4> SUFFICES ASSUME NEW j \in 1..(n + 1), ws'[i].fd = ws'[j].fd
                   PROVE  i = j \/ ws'[i].fd = NoConn
        OBVIOUS
      <4>1. CASE j = n + 1
        BY <1>4, <1>5, <4>1
      <4>2. CASE j \in 1..n
        <5>1. ws'[j] = ws[j]
          BY <1>5, <4>2
        <5>2. ws[i].fd = ws[j].fd => i = j \/ ws[i].fd = NoConn
          BY <1>2, <2>3, <4>2 DEF Records, InLoop, n
        <5> QED
          BY <3>1, <5>1, <5>2
      <4> QED
        BY <1>3, <4>1, <4>2
    <3> QED
      BY <1>2, <2>3, <3>1, <3>2 DEF Records, InLoop, n
  <2> QED
    BY <1>3, <2>2, <2>3
<1>14. Slots'
  <2>1. /\ \A i \in 1..n : ws[i].fd # NoConn => \E k \in 1..n : pfd[k].pid = ws[i].pid
        /\ \A k \in 1..n : \E i \in 1..n : ws[i].fd # NoConn /\ ws[i].pid = pfd[k].pid
        /\ \A k, l \in 1..n : pfd[k].pid = pfd[l].pid => k = l
    BY <1>2, <1>3 DEF Slots, InLoop, n
  <2>2. \A i \in 1..(n + 1) :
          ws'[i].fd # NoConn => \E k \in 1..n : pfd'[k].pid = ws'[i].pid
    <3> SUFFICES ASSUME NEW i \in 1..(n + 1), ws'[i].fd # NoConn
                 PROVE  \E k \in 1..n : pfd'[k].pid = ws'[i].pid
      OBVIOUS
    <3>1. i \in 1..n
      BY <1>3, <1>4, <1>5
    <3>2. PICK k \in 1..n : pfd[k].pid = ws[i].pid
      BY <1>5, <2>1, <3>1
    <3> QED
      BY <1>5, <1>7, <3>1, <3>2
  <2>3. \A k \in 1..n :
          \E i \in 1..(n + 1) : ws'[i].fd # NoConn /\ ws'[i].pid = pfd'[k].pid
    <3> SUFFICES ASSUME NEW k \in 1..n
                 PROVE  \E i \in 1..(n + 1) :
                          ws'[i].fd # NoConn /\ ws'[i].pid = pfd'[k].pid
      OBVIOUS
    <3>1. PICK i \in 1..n : ws[i].fd # NoConn /\ ws[i].pid = pfd[k].pid
      BY <2>1
    <3> QED
      BY <1>3, <1>5, <1>7, <3>1
  <2>4. \A k, l \in 1..n : pfd'[k].pid = pfd'[l].pid => k = l
    BY <1>7, <2>1
  <2>5. npfd' = n
    BY <1>2, <1>3
  <2> QED
    BY <1>5, <2>2, <2>3, <2>4, <2>5 DEF Slots
<1>15. Starting' /\ NoChildLeft'
  BY <1>2 DEF Starting, NoChildLeft
<1> QED
  BY <1>9, <1>10, <1>11, <1>12, <1>13, <1>14, <1>15

LEMMA ShrinkIInv == IInv /\ Shrink => IInv'
<1> SUFFICES ASSUME IInv, Shrink PROVE IInv'
  OBVIOUS
<1> USE DEF IInv, osVars, bounds
<1> DEFINE n == Len(ws)
           m == n - 1
           p == ws[n].pid
<1>1. n \in Nat /\ Len(pfd) = n /\ minwsz \in Nat /\ minwsz < n /\ 1 < n
  BY Arrays DEF InLoop, Sizes, Shrink, MayShrink, ShrinkAsserts, TypeOK
<1>2. n \in 1..n /\ m \in Nat /\ m + 1 = n
  BY <1>1
<1>3. /\ ws[n].fd = NoConn /\ p # NoPid /\ pfd[n].pid = NoPid
      /\ slough' = slough \cup {p}
      /\ proc' = [proc EXCEPT ![p] = IF @ = "run" THEN "told" ELSE @]
      /\ ws' = SubSeq(ws, 1, m) /\ pfd' = SubSeq(pfd, 1, m)
  BY <1>1 DEF Shrink, MayShrink, ShrinkAsserts, LastWorker, LetGo, IsIdle
<1>4. /\ pc = "shrink" /\ pc' \in {"poll", "release"}
      /\ rc' \in Int /\ idx' \in Nat /\ 1 <= idx'
      /\ UNCHANGED <<npfd, minwsz, accepting, listenReady, flags, osVars, job,
                     outb, bounds>>
  BY DEF Shrink, ToRelease, PollAgain, TypeOK, Sizes
<1>5. p \in Pid
  BY <1>2, <1>3, Arrays DEF Worker
<1>6. /\ ws' \in Seq(Worker) /\ Len(ws') = m
      /\ \A i \in 1..m : ws'[i] = ws[i]
  <2>1. \A i \in 1..m : ws[i] \in Worker
    BY <1>2, Arrays
  <2> QED
    BY <1>1, <1>2, <1>3, <2>1, SubSeqProperties
<1>7. /\ pfd' \in Seq(PollFd) /\ Len(pfd') = m
      /\ \A k \in 1..m : pfd'[k] = pfd[k]
  <2>1. \A k \in 1..m : pfd[k] \in PollFd
    BY <1>1, <1>2, Arrays
  <2> QED
    BY <1>1, <1>2, <1>3, <2>1, SubSeqProperties
<1>8. npfd \in Nat /\ npfd <= m
  <2>1. npfd \in Nat /\ npfd <= n
    BY <1>1 DEF TypeOK, Sizes
  <2>2. npfd # n
    BY <1>2, <1>3, <1>4 DEF Slots, Records, InLoop
  <2> QED
    BY <1>1, <2>1, <2>2
<1>9. \A i \in 1..m : i \in 1..n /\ i # n /\ ws[i].pid # p
  BY <1>1, <1>2, <1>3, <1>4 DEF Family, Ended
<1> HIDE DEF n, m, p
<1>10. TypeOK'
  BY <1>3, <1>4, <1>5, <1>6, <1>7 DEF TypeOK, PC, ProcState
<1>11. Sizes'
  BY <1>1, <1>2, <1>4, <1>6, <1>7, <1>8, PoolAssumption DEF Sizes, n
<1>12. Family'
  <2>1. /\ \A q \in Pid :
             proc[q] # "none" <=> q \in slough \/ \E i \in 1..n : ws[i].pid = q
        /\ \A i, j \in 1..n : ws[i].pid = ws[j].pid => i = j \/ ws[i].pid = NoPid
        /\ \A i \in 1..n : ws[i].pid \notin slough
    BY <1>4 DEF InLoop, Family, Ended, n
  <2>2. ASSUME NEW q \in Pid
        PROVE  proc'[q] # "none" <=>
                 q \in slough' \/ \E i \in 1..m : ws'[i].pid = q
    <3>1. proc'[q] # "none" <=> proc[q] # "none"
      BY <1>3, <1>5 DEF TypeOK
    <3>2. (\E i \in 1..n : ws[i].pid = q)
            <=> q = p \/ \E i \in 1..m : ws'[i].pid = q
      BY <1>2, <1>6, <1>9 DEF p
    <3> QED
      BY <1>3, <2>1, <3>1, <3>2
  <2>3. \A i, j \in 1..m : ws'[i].pid = ws'[j].pid => i = j \/ ws'[i].pid = NoPid
    BY <1>6, <1>9, <2>1
  <2>4. \A i \in 1..m : ws'[i].pid \notin slough'
    BY <1>3, <1>6, <1>9, <2>1
  <2> QED
    BY <1>6, <2>2, <2>3, <2>4 DEF Family
<1>13. Remains'
  BY <1>3, <1>4, <1>5 DEF Remains, Ended, TypeOK
<1>14. Records'
  <2>1. \A i \in 1..m :
          /\ ws'[i].pid # NoPid
          /\ ws'[i].fd <= accepted
          /\ job[ws'[i].pid] # NoConn => job[ws'[i].pid] = ws'[i].fd
          /\ outb[ws'[i].pid] \in Conn =>
               outb[ws'[i].pid] = ws'[i].fd /\ job[ws'[i].pid] = NoConn
    BY <1>4, <1>6, <1>9 DEF Records, InLoop, n
  <2>2. \A i, j \in 1..m :
          ws'[i].fd = ws'[j].fd => i = j \/ ws'[i].fd = NoConn
    BY <1>4, <1>6, <1>9 DEF Records, InLoop, n
  <2> QED
    BY <1>4, <1>6, <2>1, <2>2 DEF Records
<1>15. Slots'
  <2>1. /\ \A i \in 1..n : ws[i].fd # NoConn => \E k \in 1..npfd : pfd[k].pid = ws[i].pid
        /\ \A k \in 1..npfd : \E i \in 1..n : ws[i].fd # NoConn /\ ws[i].pid = pfd[k].pid
        /\ \A k, l \in 1..npfd : pfd[k].pid = pfd[l].pid => k = l
    BY <1>4 DEF Slots, InLoop, n
  <2>2. \A k \in 1..npfd : pfd'[k] = pfd[k]
    BY <1>2, <1>7, <1>8
  <2>3. \A i \in 1..m :
          ws'[i].fd # NoConn => \E k \in 1..npfd : pfd'[k].pid = ws'[i].pid
    BY <1>6, <1>9, <2>1, <2>2
  <2>4. \A k \in 1..npfd :
          \E i \in 1..m : ws'[i].fd # NoConn /\ ws'[i].pid = pfd'[k].pid
    <3> SUFFICES ASSUME NEW k \in 1..npfd
                 PROVE  \E i \in 1..m : ws'[i].fd # NoConn /\ ws'[i].pid = pfd'[k].pid
      OBVIOUS
    <3>1. PICK i \in 1..n : ws[i].fd # NoConn /\ ws[i].pid = pfd[k].pid
      BY <2>1
    <3>2. i \in 1..m
      BY <1>1, <1>2, <1>3, <3>1
    <3> QED
      BY <1>6, <2>2, <3>1, <3>2
  <2>5. \A k, l \in 1..npfd : pfd'[k].pid = pfd'[l].pid => k = l
    BY <2>1, <2>2
  <2> QED
    BY <1>4, <1>6, <2>3, <2>4, <2>5 DEF Slots
<1>16. Starting' /\ NoChildLeft'
  BY <1>4 DEF Starting, NoChildLeft
<1> QED
  BY <1>10, <1>11, <1>12, <1>13, <1>14, <1>15, <1>16

\* The worker let go is in the slough, and perhaps in the pool as well.
LEMMA ShrinkNoMemoryIInv == IInv /\ ShrinkNoMemory => IInv'
<1> SUFFICES ASSUME IInv, ShrinkNoMemory PROVE IInv'
  OBVIOUS
<1> USE DEF IInv, osVars, bounds
<1> DEFINE n == Len(ws)
           m == n - 1
           p == ws[n].pid
<1>1. n \in Nat /\ minwsz \in Nat /\ minwsz < n /\ 1 < n
  BY Arrays DEF Sizes, ShrinkNoMemory, MayShrink, ShrinkAsserts, TypeOK
<1>2. n \in 1..n /\ m \in Nat /\ m + 1 = n
  BY <1>1
<1>3. /\ p # NoPid
      /\ slough' = slough \cup {p}
      /\ proc' = [proc EXCEPT ![p] = IF @ = "run" THEN "told" ELSE @]
      /\ ws' = ws \/ ws' = SubSeq(ws, 1, m)
  BY <1>1 DEF ShrinkNoMemory, MayShrink, ShrinkAsserts, LastWorker, LetGo
<1>4. /\ pc = "shrink" /\ pc' = "out"
      /\ UNCHANGED <<pfd, npfd, minwsz, accepting, listenReady, rc, idx, flags, osVars, job,
                     outb, bounds>>
  BY DEF ShrinkNoMemory, GotoOut
<1>5. p \in Pid
  BY <1>2, <1>3, Arrays DEF Worker
<1>6. /\ ws' \in Seq(Worker) /\ (Len(ws') = m \/ Len(ws') = n)
      /\ \A i \in 1..Len(ws') : i \in 1..n /\ ws'[i] = ws[i]
  <2>1. CASE ws' = ws
    BY <2>1 DEF TypeOK
  <2>2. CASE ws' = SubSeq(ws, 1, m)
    <3>1. \A i \in 1..m : i \in 1..n /\ ws[i] \in Worker
      BY <1>2, Arrays
    <3> QED
      BY <1>1, <1>2, <2>2, <3>1, SubSeqProperties
  <2> QED
    BY <1>3, <2>1, <2>2
<1> HIDE DEF n, m, p
<1>7. \A i \in 1..n : i \in 1..Len(ws') \/ i = n
  BY <1>1, <1>2, <1>6
<1>8. TypeOK'
  BY <1>3, <1>4, <1>5, <1>6 DEF TypeOK, PC, ProcState
<1>9. Sizes'
  BY <1>1, <1>2, <1>4, <1>6, PoolAssumption DEF Sizes, InLoop, n
<1>10. Family'
  <2>1. /\ \A q \in Pid :
             proc[q] # "none" <=> q \in slough \/ \E i \in 1..n : ws[i].pid = q
        /\ \A i, j \in 1..n : ws[i].pid = ws[j].pid => i = j \/ ws[i].pid = NoPid
    BY <1>4 DEF Family, Ended, n
  <2>2. ASSUME NEW q \in Pid
        PROVE  proc'[q] # "none" <=>
                 q \in slough' \/ \E i \in 1..Len(ws') : ws'[i].pid = q
    <3>1. proc'[q] # "none" <=> proc[q] # "none"
      BY <1>3, <1>5 DEF TypeOK
    <3>2. q = p \/ (\E i \in 1..n : ws[i].pid = q)
            <=> q = p \/ \E i \in 1..Len(ws') : ws'[i].pid = q
      BY <1>6, <1>7 DEF p
    <3>3. \E i \in 1..n : ws[i].pid = p
      BY <1>2 DEF p
    <3> QED
      BY <1>3, <2>1, <3>1, <3>2, <3>3
  <2>3. \A i, j \in 1..Len(ws') :
          ws'[i].pid = ws'[j].pid => i = j \/ ws'[i].pid = NoPid
    BY <1>6, <2>1
  <2> QED
    BY <1>4, <2>2, <2>3 DEF Family, InLoop
<1>11. Remains'
  BY <1>3, <1>4, <1>5 DEF Remains, Ended, TypeOK
<1>12. Records' /\ Slots' /\ Starting' /\ NoChildLeft'
  BY <1>4 DEF Records, Slots, Starting, NoChildLeft, InLoop
<1> QED
  BY <1>8, <1>9, <1>10, <1>11, <1>12

-----------------------------------------------------------------------------
(* Handing a connection to a worker *)

\* What taking connection accepted + 1 for worker i does to the arrays.
LEMMA Taken ==
  ASSUME NEW i \in 1..Len(ws), IInv, TakeConn(i)
  PROVE  /\ accepted' = accepted + 1 /\ accepted' \in 0..arrived
         /\ accepted' \in Conn
         /\ ws[i].fd = NoConn /\ ws[i].pid \in Pid
         /\ ws' \in Seq(Worker) /\ Len(ws') = Len(ws)
         /\ \A j \in 1..Len(ws) : ws'[j].pid = ws[j].pid
         /\ ws'[i].fd = accepted'
         /\ \A j \in 1..Len(ws) : j # i => ws'[j].fd = ws[j].fd
         /\ npfd' = npfd + 1 /\ npfd' \in 1..Len(pfd)
         /\ pfd' \in Seq(PollFd) /\ Len(pfd') = Len(pfd)
         /\ pfd'[npfd'].pid = ws[i].pid
         /\ \A k \in 1..npfd : pfd'[k].pid = pfd[k].pid
<1> USE DEF IInv
<1> DEFINE w == [ws[i] EXCEPT !.fd = accepted + 1]
           s == [pfd[npfd + 1] EXCEPT !.pid = ws[i].pid]
<1>1. accepted' = accepted + 1 /\ accepted' \in 0..arrived /\ accepted' \in Conn
  <2>1. accepted' = accepted + 1 /\ accepted < arrived
    BY DEF TakeConn, Backlog
  <2>2. accepted \in Nat /\ arrived \in Nat /\ arrived <= MaxConn
    BY BoundAssumption DEF TypeOK
  <2> QED
    BY <2>1, <2>2, BoundAssumption DEF Conn
<1>2. pc = "accept" /\ ws[i].fd = NoConn
  BY DEF TakeConn, IsIdle
<1>3. ws[i].pid \in Pid
  BY <1>2, Arrays DEF Records, InLoop, Worker
<1>4. npfd \in Nat /\ npfd < Len(pfd) /\ Len(pfd) \in Nat
  BY <1>2, Arrays DEF Sizes, TypeOK
<1>5. npfd + 1 \in 1..Len(pfd) /\ npfd' = npfd + 1
  BY <1>4 DEF TakeConn
<1>6. w \in Worker /\ w.pid = ws[i].pid /\ w.fd = accepted'
  BY <1>1, Arrays DEF Worker
<1>7. s \in PollFd /\ s.pid = ws[i].pid
  BY <1>3, <1>5, Arrays DEF PollFd
<1>8. ws' = [ws EXCEPT ![i] = w] /\ pfd' = [pfd EXCEPT ![npfd + 1] = s]
  BY DEF TakeConn
<1> HIDE DEF w, s
<1>9. /\ ws' \in Seq(Worker) /\ Len(ws') = Len(ws)
      /\ \A j \in 1..Len(ws) : ws'[j] = IF j = i THEN w ELSE ws[j]
  BY <1>6, <1>8, ExceptSeq DEF TypeOK
<1>10. /\ pfd' \in Seq(PollFd) /\ Len(pfd') = Len(pfd)
       /\ \A k \in 1..Len(pfd) : pfd'[k] = IF k = npfd + 1 THEN s ELSE pfd[k]
  BY <1>5, <1>7, <1>8, ExceptSeq DEF TypeOK
<1>11. \A k \in 1..npfd : k \in 1..Len(pfd) /\ k # npfd + 1
  BY <1>4
<1> QED
  BY <1>1, <1>2, <1>3, <1>5, <1>6, <1>7, <1>9, <1>10, <1>11

LEMMA AcceptIInv == IInv /\ Accept => IInv'
<1> SUFFICES ASSUME IInv, Accept PROVE IInv'
  OBVIOUS
<1> USE DEF IInv
<1>1. PICK i \in 1..Len(ws) :
        /\ TakeConn(i)
        /\ ~Disconnected(ws[i].pid)
        /\ job' = [job EXCEPT ![ws[i].pid] = accepted + 1]
        /\ held' = held \cup {accepted + 1}
        /\ PollAgain
        /\ UNCHANGED <<proc, listening>>
  BY Arrays DEF Accept
<1> DEFINE p == ws[i].pid
           c == accepted'
<1>2. /\ c = accepted + 1 /\ c \in 0..arrived /\ c \in Conn
      /\ ws[i].fd = NoConn /\ p \in Pid
      /\ ws' \in Seq(Worker) /\ Len(ws') = Len(ws)
      /\ \A j \in 1..Len(ws) : ws'[j].pid = ws[j].pid
      /\ ws'[i].fd = c
      /\ \A j \in 1..Len(ws) : j # i => ws'[j].fd = ws[j].fd
      /\ npfd' = npfd + 1 /\ npfd' \in 1..Len(pfd)
      /\ pfd' \in Seq(PollFd) /\ Len(pfd') = Len(pfd)
      /\ pfd'[npfd'].pid = p
      /\ \A k \in 1..npfd : pfd'[k].pid = pfd[k].pid
  BY <1>1, Taken
<1>3. /\ pc = "accept" /\ pc' = "poll" /\ rc' = 0 /\ idx' = 1
      /\ UNCHANGED <<slough, minwsz, accepting, listenReady, flags, pending,
                     arrived, outb, bounds, proc, listening>>
      /\ job' = [job EXCEPT ![p] = c] /\ held' = held \cup {c}
  BY <1>1, <1>2 DEF TakeConn, PollAgain
<1> USE DEF bounds
<1>4. proc[p] \notin {"none", "broken", "dead"}
  BY <1>1, <1>2, <1>3 DEF Family, Disconnected, Ended
<1> HIDE DEF p, c
<1>5. TypeOK'
  <2>1. job' \in [Pid -> Conn \cup {NoConn}] /\ held' \in SUBSET Conn
    BY <1>2, <1>3 DEF TypeOK
  <2>2. npfd' \in 0..MaxPool /\ accepted' \in 0..arrived
    BY <1>2, <1>3, Arrays DEF InLoop, Sizes, c
  <2> QED
    BY <1>2, <1>3, <2>1, <2>2 DEF TypeOK, PC
<1>6. Sizes'
  BY <1>2, <1>3, Arrays DEF InLoop, Sizes
<1>7. Family'
  <2>1. ~Ended
    BY <1>3 DEF Ended
  <2> QED
    BY <1>2, <1>3, <2>1, FamilyKept DEF InLoop
<1>8. Remains'
  BY <1>2, <1>3, <1>4 DEF Remains, Ended, TypeOK
<1>9. Records'
  <2>1. \A j \in 1..Len(ws) : j # i => ws[j].pid # p
    BY <1>2, <1>3 DEF Family, Ended, p, Pid, NoPid
  <2>2. NoConn \notin Conn
    BY DEF NoConn, Conn
  <2>3. accepted \in Nat
    BY DEF TypeOK
  <2>4. \A j \in 1..Len(ws) : j # i => ws'[j].fd <= c /\ ws'[j].fd # c
    <3> SUFFICES ASSUME NEW j \in 1..Len(ws), j # i
                 PROVE  ws'[j].fd <= c /\ ws'[j].fd # c
      OBVIOUS
    <3>1. ws[j].fd <= accepted /\ ws[j].fd \in Int
      BY <1>3, Arrays DEF Records, InLoop, Worker, Conn, NoConn
    <3>2. ws'[j].fd = ws[j].fd /\ c = accepted + 1
      BY <1>2
    <3> QED
      BY <3>1, <3>2, <2>3
  <2>5. \A j \in 1..Len(ws) : ws'[j].fd <= c
    BY <1>2, <2>3, <2>4
  <2>6. ASSUME NEW j \in 1..Len(ws)
        PROVE  /\ ws[j].pid # NoPid
               /\ job'[ws[j].pid] # NoConn => job'[ws[j].pid] = ws'[j].fd
               /\ outb[ws[j].pid] \in Conn =>
                    outb[ws[j].pid] = ws'[j].fd /\ job'[ws[j].pid] = NoConn
    <3>1. /\ ws[j].pid # NoPid
          /\ job[ws[j].pid] # NoConn => job[ws[j].pid] = ws[j].fd
          /\ outb[ws[j].pid] \in Conn =>
               outb[ws[j].pid] = ws[j].fd /\ job[ws[j].pid] = NoConn
      BY <1>3 DEF Records, InLoop
    <3>2. ws[j].pid \in Pid
      BY <3>1, Arrays DEF Worker
    <3>3. CASE j = i
      BY <1>2, <1>3, <2>2, <3>1, <3>3 DEF TypeOK, p
    <3>4. CASE j # i
      BY <1>2, <1>3, <2>1, <3>1, <3>2, <3>4 DEF TypeOK
    <3> QED
      BY <3>3, <3>4
  <2>7. ASSUME NEW j \in 1..Len(ws), NEW k \in 1..Len(ws), ws'[j].fd = ws'[k].fd
        PROVE  j = k \/ ws'[j].fd = NoConn
    <3>1. ws[j].fd = ws[k].fd => j = k \/ ws[j].fd = NoConn
      BY <1>3 DEF Records, InLoop
    <3> QED
      BY <1>2, <2>4, <2>7, <3>1
  <2> QED
    BY <1>2, <1>3, <2>5, <2>6, <2>7 DEF Records, c
<1>10. Slots'
  <2>1. /\ \A j \in 1..Len(ws) :
             ws[j].fd # NoConn => \E k \in 1..npfd : pfd[k].pid = ws[j].pid
        /\ \A k \in 1..npfd :
             \E j \in 1..Len(ws) : ws[j].fd # NoConn /\ ws[j].pid = pfd[k].pid
        /\ \A k, l \in 1..npfd : pfd[k].pid = pfd[l].pid => k = l
    BY <1>3 DEF Slots, InLoop
  <2>2. npfd \in Nat /\ npfd' = npfd + 1
    BY <1>2 DEF TypeOK
  <2>3. \A j \in 1..Len(ws) :
          ws'[j].fd # NoConn => \E k \in 1..npfd' : pfd'[k].pid = ws'[j].pid
    <3> SUFFICES ASSUME NEW j \in 1..Len(ws), ws'[j].fd # NoConn
                 PROVE  \E k \in 1..npfd' : pfd'[k].pid = ws'[j].pid
      OBVIOUS
    <3>1. CASE j = i
      BY <1>2, <2>2, <3>1 DEF p
    <3>2. CASE j # i
      <4>1. PICK k \in 1..npfd : pfd[k].pid = ws[j].pid
        BY <1>2, <2>1, <3>2
      <4> QED
        BY <1>2, <2>2, <4>1
    <3> QED
      BY <3>1, <3>2
  <2>4. \A k \in 1..npfd : pfd'[k].pid # p
    <3> SUFFICES ASSUME NEW k \in 1..npfd, pfd'[k].pid = p PROVE FALSE
      OBVIOUS
    <3>1. PICK j \in 1..Len(ws) : ws[j].fd # NoConn /\ ws[j].pid = pfd[k].pid
      BY <2>1
    <3>2. ws[j].pid = ws[i].pid /\ j # i
      BY <1>2, <3>1 DEF p
    <3> QED
      BY <1>2, <1>3, <3>2 DEF Family, Ended, p, Pid, NoPid
  <2>5. \A k \in 1..npfd' :
          \E j \in 1..Len(ws) : ws'[j].fd # NoConn /\ ws'[j].pid = pfd'[k].pid
    <3> SUFFICES ASSUME NEW k \in 1..npfd'
                 PROVE  \E j \in 1..Len(ws) :
                          ws'[j].fd # NoConn /\ ws'[j].pid = pfd'[k].pid
      OBVIOUS
    <3>1. CASE k = npfd'
      BY <1>2, <3>1 DEF p, NoConn, Conn
    <3>2. CASE k \in 1..npfd
      <4>1. PICK j \in 1..Len(ws) : ws[j].fd # NoConn /\ ws[j].pid = pfd[k].pid
        BY <2>1, <3>2
      <4> QED
        BY <1>2, <3>2, <4>1
    <3> QED
      BY <2>2, <3>1, <3>2
  <2>6. \A k, l \in 1..npfd' : pfd'[k].pid = pfd'[l].pid => k = l
    <3> SUFFICES ASSUME NEW k \in 1..npfd', NEW l \in 1..npfd',
                        pfd'[k].pid = pfd'[l].pid
                 PROVE  k = l
      OBVIOUS
    <3>1. k \in 1..npfd \/ k = npfd'
      BY <2>2
    <3>2. l \in 1..npfd \/ l = npfd'
      BY <2>2
    <3> QED
      BY <1>2, <2>1, <2>4, <3>1, <3>2
  <2> QED
    BY <1>2, <2>3, <2>5, <2>6 DEF Slots
<1>11. Starting' /\ NoChildLeft'
  BY <1>3 DEF Starting, NoChildLeft
<1> QED
  BY <1>5, <1>6, <1>7, <1>8, <1>9, <1>10, <1>11

LEMMA AcceptFailsIInv == IInv /\ AcceptFails => IInv'
<1> SUFFICES ASSUME IInv, AcceptFails PROVE IInv'
  OBVIOUS
<1> USE DEF IInv
<1>1. PICK i \in 1..Len(ws) :
        /\ TakeConn(i)
        /\ \/ /\ held' = held \cup {accepted + 1}
              /\ GotoOut
              /\ UNCHANGED <<proc, listening>>
           \/ /\ Killed
              /\ UNCHANGED <<rc, idx>>
        /\ UNCHANGED job
  BY Arrays DEF AcceptFails
<1>2. /\ accepted' = accepted + 1 /\ accepted' \in 0..arrived
      /\ accepted' \in Conn
      /\ ws' \in Seq(Worker) /\ Len(ws') = Len(ws)
      /\ \A j \in 1..Len(ws) : ws'[j].pid = ws[j].pid
      /\ npfd' \in 1..Len(pfd)
      /\ pfd' \in Seq(PollFd) /\ Len(pfd') = Len(pfd)
  BY <1>1, Taken
<1>3. /\ pc = "accept"
      /\ UNCHANGED <<slough, minwsz, accepting, listenReady, flags, pending,
                     arrived, outb, bounds, job, rc, idx>>
      /\ \/ /\ pc' = "out" /\ held' = held \cup {accepted'}
            /\ UNCHANGED <<proc, listening>>
         \/ /\ pc' = "killed" /\ held' = {} /\ listening' = FALSE
            /\ proc' \in [Pid -> ProcState]
  <2>1. Killed => proc' \in [Pid -> ProcState]
    BY DEF Killed, ProcState, TypeOK
  <2> QED
    BY <1>1, <1>2, <2>1 DEF TakeConn, GotoOut, Killed
<1> USE DEF bounds
<1>4. TypeOK'
  <2>1. held' \in SUBSET Conn /\ proc' \in [Pid -> ProcState]
    BY <1>2, <1>3 DEF TypeOK
  <2>2. listening' \in BOOLEAN
    BY <1>3 DEF TypeOK
  <2>3. npfd' \in 0..MaxPool
    BY <1>2, <1>3, Arrays DEF InLoop, Sizes
  <2> QED
    BY <1>2, <1>3, <2>1, <2>2, <2>3 DEF TypeOK, PC
<1>5. Sizes'
  BY <1>2, <1>3, Arrays DEF InLoop, Sizes
<1>6. Family' /\ Remains'
  <2>1. CASE pc' = "killed"
    BY <2>1 DEF Family, Remains, Ended
  <2>2. CASE UNCHANGED proc
    <3>1. Family'
      <4>1. ~Ended
        BY <1>3 DEF Ended
      <4> QED
        BY <1>2, <1>3, <2>2, <4>1, FamilyKept DEF InLoop
    <3>2. Remains'
      BY <1>3, <2>2 DEF Remains, Ended
    <3> QED
      BY <3>1, <3>2
  <2> QED
    BY <1>3, <2>1, <2>2
<1>7. Starting' /\ Records' /\ Slots' /\ NoChildLeft'
  BY <1>3 DEF Starting, Records, Slots, NoChildLeft, InLoop
<1> QED
  BY <1>4, <1>5, <1>6, <1>7

-----------------------------------------------------------------------------
(* Releasing a worker *)

\* The slot freed is that of the worker the cookie belongs to.
LEMMA CookieOwner ==
  ASSUME IInv, Releasing, outb[pfd[idx].pid] # NoConn
  PROVE  /\ idx \in 1..npfd
         /\ pfd[idx].pid \in Pid
         /\ \A i \in 1..Len(ws) :
              ws[i].fd = outb[pfd[idx].pid] =>
                /\ ws[i].pid = pfd[idx].pid
                /\ job[ws[i].pid] = NoConn
                /\ ws[i].fd \in Conn
<1> USE DEF IInv
<1> DEFINE p == pfd[idx].pid
<1>1. pc = "release" /\ InLoop /\ idx \in 1..npfd
  BY DEF Releasing, InLoop, Sizes, TypeOK
<1>2. PICK o \in 1..Len(ws) : ws[o].fd # NoConn /\ ws[o].pid = p
  BY <1>1 DEF Slots
<1>3. p \in Pid
  BY <1>1, <1>2, Arrays DEF Records, Worker
<1>4. ASSUME NEW i \in 1..Len(ws), ws[i].fd = outb[p]
      PROVE  ws[i].pid = p /\ job[ws[i].pid] = NoConn /\ ws[i].fd \in Conn
  <2>1. outb[p] \in Conn
    BY <1>4, Arrays DEF Worker
  <2>2. outb[p] = ws[o].fd /\ job[p] = NoConn
    BY <1>1, <1>2, <2>1 DEF Records
  <2>3. i = o
    BY <1>1, <1>2, <1>4, <2>2 DEF Records
  <2> QED
    BY <1>2, <1>4, <2>1, <2>2, <2>3
<1> QED
  BY <1>1, <1>3, <1>4

LEMMA ReleaseIInv == IInv /\ Release => IInv'
<1> SUFFICES ASSUME IInv, Release PROVE IInv'
  OBVIOUS
<1> USE DEF IInv
<1> DEFINE p == pfd[idx].pid
           c == outb[p]
<1>1. /\ pc = "release" /\ Releasing /\ c # NoConn
      /\ outb' = [outb EXCEPT ![p] = NoConn]
      /\ UNCHANGED <<slough, minwsz, listenReady, flags, pending, listening,
                     arrived, accepted, proc, job, bounds>>
  BY DEF Release, Releasing
<1> USE DEF bounds
<1>2. /\ idx \in 1..npfd /\ p \in Pid
      /\ \A i \in 1..Len(ws) :
           ws[i].fd = c => ws[i].pid = p /\ job[p] = NoConn /\ ws[i].fd \in Conn
  BY <1>1, CookieOwner
<1>3. outb' \in [Pid -> Conn \cup {NoConn, BadCookie}]
  BY <1>1, <1>2 DEF TypeOK
<1>4. Starting' /\ NoChildLeft' /\ Remains'
  <2>1. pc' \in {"release", "out"}
    BY <1>1 DEF Release, GotoOut
  <2> QED
    BY <1>1, <1>2, <2>1 DEF Starting, NoChildLeft, Remains, Ended, TypeOK
<1>5. CASE GotoOut /\ UNCHANGED <<ws, held, pfd, npfd, accepting>>
  <2> USE <1>5 DEF GotoOut
  <2>1. TypeOK'
    BY <1>1, <1>3 DEF TypeOK, PC
  <2>2. Sizes' /\ Family' /\ Records' /\ Slots'
    BY <1>1 DEF Sizes, Family, Records, Slots, InLoop, Ended
  <2> QED
    BY <1>4, <2>1, <2>2
<1>6. ASSUME NEW i \in 1..Len(ws),
             ws[i].fd = c,
             ws' = [ws EXCEPT ![i].fd = NoConn, ![i].last = "recent"],
             held' = CloseConn(ws[i].fd),
             pfd' = FreeSlot(idx),
             npfd' = npfd - 1,
             accepting' = AcceptingAfterRelease,
             rc' = rc - 1,
             UNCHANGED <<pc, idx>>
      PROVE  IInv'
  <2> DEFINE w == [ws[i] EXCEPT !.fd = NoConn, !.last = "recent"]
             s == [pfd[npfd] EXCEPT !.pid = NoPid]
             n == npfd - 1
             From(k) == IF k = idx THEN npfd ELSE k
  <2>1. ws[i].pid = p /\ job[p] = NoConn
    BY <1>2, <1>6
  <2>2. w \in Worker /\ w.pid = ws[i].pid /\ w.fd = NoConn
    BY Arrays DEF Worker
  <2>3. ws' = [ws EXCEPT ![i] = w]
    BY <1>6
  <2>4. npfd \in Nat /\ idx \in Nat /\ 1 <= idx /\ idx <= npfd /\ npfd <= Len(pfd)
    BY <1>2 DEF TypeOK, Sizes
  <2>5. npfd \in 1..Len(pfd) /\ idx \in 1..Len(pfd) /\ n \in Nat
    BY <2>4, Arrays
  <2>6. s \in PollFd /\ pfd[npfd] \in PollFd
    BY <2>5, Arrays DEF PollFd
  <2>7. pfd' = [[pfd EXCEPT ![idx] = pfd[npfd]] EXCEPT ![npfd] = s]
    BY <1>6 DEF FreeSlot
  <2> HIDE DEF w, s
  <2>8. /\ ws' \in Seq(Worker) /\ Len(ws') = Len(ws)
        /\ \A j \in 1..Len(ws) : ws'[j] = IF j = i THEN w ELSE ws[j]
    BY <2>2, <2>3, ExceptSeq DEF TypeOK
  <2>9. /\ pfd' \in Seq(PollFd) /\ Len(pfd') = Len(pfd)
        /\ \A k \in 1..n : pfd'[k].pid = pfd[From(k)].pid
    <3> DEFINE t == [pfd EXCEPT ![idx] = pfd[npfd]]
    <3>1. /\ t \in Seq(PollFd) /\ Len(t) = Len(pfd)
          /\ \A k \in 1..Len(pfd) : t[k] = IF k = idx THEN pfd[npfd] ELSE pfd[k]
      <4>1. pfd \in Seq(PollFd)
        BY DEF TypeOK
      <4> QED
        BY <2>5, <2>6, <4>1, ExceptSeq
    <3>2. pfd' = [t EXCEPT ![npfd] = s]
      BY <2>7
    <3> HIDE DEF t
    <3>3. /\ pfd' \in Seq(PollFd) /\ Len(pfd') = Len(pfd)
          /\ \A k \in 1..Len(pfd) : pfd'[k] = IF k = npfd THEN s ELSE t[k]
      BY <2>5, <2>6, <3>1, <3>2, ExceptSeq
    <3>4. \A k \in 1..n : k \in 1..Len(pfd) /\ k # npfd
      BY <2>4, Arrays
    <3> QED
      BY <3>1, <3>3, <3>4
  <2>10. \A k \in 1..n : From(k) \in 1..npfd /\ From(k) # idx
    BY <2>4
  <2>11. TypeOK'
    <3>1. held' \in SUBSET Conn /\ rc' \in Int /\ npfd' \in 0..MaxPool
      <4>1. held \in SUBSET Conn /\ rc \in Int /\ npfd \in 0..MaxPool
        BY DEF TypeOK
      <4>2. held' \in SUBSET Conn
        BY <1>6, <4>1 DEF CloseConn
      <4>3. rc' \in Int /\ npfd' \in 0..MaxPool
        BY <1>6, <2>4, <4>1
      <4> QED
        BY <4>2, <4>3
    <3>2. accepting' \in BOOLEAN
      BY <1>6, Zenon DEF AcceptingAfterRelease
    <3> QED
      BY <1>1, <1>3, <1>6, <2>8, <2>9, <3>1, <3>2 DEF TypeOK
  <2>12. Sizes'
    BY <1>1, <1>6, <2>4, <2>8, <2>9, Arrays DEF InLoop, Sizes
  <2>13. \A j \in 1..Len(ws) : ws'[j].pid = ws[j].pid
    BY <2>2, <2>8
  <2>14. /\ ws'[i].fd = NoConn
         /\ \A j \in 1..Len(ws) : j # i => ws'[j].fd = ws[j].fd
    BY <2>2, <2>8
  <2>15. Family'
    BY <1>1, <1>6, <2>8, <2>13 DEF InLoop, Family, Ended
  <2>16. \A j \in 1..Len(ws) : j # i => ws[j].pid # p
    BY <1>1, <1>2, <2>1 DEF Family, Ended, Pid, NoPid
  <2>17. Records'
    <3> SUFFICES ASSUME NEW j \in 1..Len(ws)
                 PROVE  /\ ws[j].pid # NoPid
                        /\ ws'[j].fd <= accepted
                        /\ job[ws[j].pid] # NoConn => job[ws[j].pid] = ws'[j].fd
                        /\ outb'[ws[j].pid] \in Conn =>
                             outb'[ws[j].pid] = ws'[j].fd /\ job[ws[j].pid] = NoConn
                        /\ \A k \in 1..Len(ws) :
                             ws'[j].fd = ws'[k].fd => j = k \/ ws'[j].fd = NoConn
      BY <1>1, <1>6, <2>8, <2>13 DEF Records
    <3>1. /\ ws[j].pid # NoPid
          /\ ws[j].fd <= accepted
          /\ job[ws[j].pid] # NoConn => job[ws[j].pid] = ws[j].fd
          /\ outb[ws[j].pid] \in Conn =>
               outb[ws[j].pid] = ws[j].fd /\ job[ws[j].pid] = NoConn
          /\ \A k \in 1..Len(ws) :
               ws[j].fd = ws[k].fd => j = k \/ ws[j].fd = NoConn
      BY <1>1 DEF Records, InLoop
    <3>2. ws[j].pid \in Pid
      BY <3>1, Arrays DEF Worker
    <3>3. NoConn <= accepted /\ NoConn \notin Conn
      BY DEF TypeOK, NoConn, Conn
    <3>4. CASE j = i
      BY <1>1, <1>2, <2>1, <2>14, <3>1, <3>3, <3>4 DEF TypeOK
    <3>5. CASE j # i
      <4>1. outb'[ws[j].pid] = outb[ws[j].pid]
        BY <1>1, <2>16, <3>2, <3>5 DEF TypeOK
      <4>2. \A k \in 1..Len(ws) :
              ws'[j].fd = ws'[k].fd => j = k \/ ws'[j].fd = NoConn
        BY <2>14, <3>1, <3>5
      <4> QED
        BY <2>14, <3>1, <3>5, <4>1, <4>2
    <3> QED
      BY <3>4, <3>5
  <2>18. Slots'
    <3>1. /\ \A j \in 1..Len(ws) :
               ws[j].fd # NoConn => \E k \in 1..npfd : pfd[k].pid = ws[j].pid
          /\ \A k \in 1..npfd :
               \E j \in 1..Len(ws) : ws[j].fd # NoConn /\ ws[j].pid = pfd[k].pid
          /\ \A k, l \in 1..npfd : pfd[k].pid = pfd[l].pid => k = l
      BY <1>1 DEF Slots, InLoop
    <3>2. \A j \in 1..Len(ws) :
            ws'[j].fd # NoConn => \E k \in 1..n : pfd'[k].pid = ws'[j].pid
      <4> SUFFICES ASSUME NEW j \in 1..Len(ws), ws'[j].fd # NoConn
                   PROVE  \E k \in 1..n : pfd'[k].pid = ws'[j].pid
        OBVIOUS
      <4>1. j # i /\ ws[j].fd # NoConn
        BY <2>14
      <4>2. PICK k \in 1..npfd : pfd[k].pid = ws[j].pid
        BY <3>1, <4>1
      <4>3. k # idx
        BY <2>16, <4>1, <4>2
      <4>4. CASE k = npfd
        <5>1. idx \in 1..n /\ From(idx) = k
          BY <2>4, <4>3, <4>4
        <5> QED
          BY <2>9, <2>13, <4>2, <5>1
      <4>5. CASE k # npfd
        <5>1. k \in 1..n /\ From(k) = k
          BY <2>4, <4>3, <4>5
        <5> QED
          BY <2>9, <2>13, <4>2, <5>1
      <4> QED
        BY <4>4, <4>5
    <3>3. \A k \in 1..n :
            \E j \in 1..Len(ws) : ws'[j].fd # NoConn /\ ws'[j].pid = pfd'[k].pid
      <4> SUFFICES ASSUME NEW k \in 1..n
                   PROVE  \E j \in 1..Len(ws) :
                            ws'[j].fd # NoConn /\ ws'[j].pid = pfd'[k].pid
        OBVIOUS
      <4>1. From(k) \in 1..npfd /\ From(k) # idx
        BY <2>10
      <4>2. PICK j \in 1..Len(ws) :
              ws[j].fd # NoConn /\ ws[j].pid = pfd[From(k)].pid
        BY <3>1, <4>1
      <4>3. pfd[From(k)].pid # p
        BY <1>2, <3>1, <4>1
      <4>4. j # i
        BY <2>1, <4>2, <4>3
      <4> QED
        BY <2>9, <2>13, <2>14, <4>2, <4>4
    <3>4. \A k, l \in 1..n : pfd'[k].pid = pfd'[l].pid => k = l
      <4> SUFFICES ASSUME NEW k \in 1..n, NEW l \in 1..n, pfd'[k].pid = pfd'[l].pid
                   PROVE  k = l
        OBVIOUS
      <4>1. From(k) \in 1..npfd /\ From(l) \in 1..npfd
        BY <2>10
      <4>2. pfd[From(k)].pid = pfd[From(l)].pid
        BY <2>9
      <4>3. From(k) = From(l)
        BY <3>1, <4>1, <4>2
      <4> QED
        BY <2>4, <4>3
    <3>5. npfd' = n /\ Len(ws') = Len(ws)
      BY <1>6, <2>8
    <3> HIDE DEF n
    <3> QED
      BY <3>2, <3>3, <3>4, <3>5 DEF Slots
  <2> QED
    BY <1>4, <2>11, <2>12, <2>15, <2>17, <2>18
<1> QED
  BY <1>5, <1>6, Arrays DEF Release, HasCookie

-----------------------------------------------------------------------------
(* The theorems *)

LEMMA NextIInv == IInv /\ [Next]_vars => IInv'
<1> SUFFICES ASSUME IInv, [Next]_vars PROVE IInv'
  OBVIOUS
<1>1. CASE ControlOnly
  BY <1>1, ControlOnlyIInv
<1>2. CASE StartWorker
  BY <1>2, StartWorkerIInv
<1>3. CASE Poll \/ PollInterrupted
  BY <1>3, PollIInv
<1>4. CASE HandleChldWorker
  BY <1>4, HandleChldWorkerIInv
<1>5. CASE HandleChldSlough
  BY <1>5, HandleChldSloughIInv
<1>6. CASE Shrink
  BY <1>6, ShrinkIInv
<1>7. CASE Release
  BY <1>7, ReleaseIInv
<1>8. CASE Grow
  BY <1>8, GrowIInv
<1>9. CASE Accept
  BY <1>9, AcceptIInv
<1>10. CASE AcceptFails
  BY <1>10, AcceptFailsIInv
<1>11. CASE Out
  BY <1>11, OutIInv
<1>12. CASE Restart
  BY <1>12, RestartIInv
<1>13. CASE Exit
  BY <1>13, ExitIInv
<1>14. CASE Connect \/ SendTerm \/ SendHup \/ UNCHANGED vars
  BY <1>14, ClientOrOperatorIInv
<1>15. ASSUME NEW p \in Pid, Finish(p) \/ Babble(p)
       PROVE  IInv'
  BY <1>15, AnswerIInv
<1>16. ASSUME NEW p \in Pid, WorkerCrash(p) \/ WorkerExit(p)
       PROVE  IInv'
  BY <1>16, EndOfWorkerIInv
<1>17. ASSUME NEW i \in DOMAIN ws, Age(i)
       PROVE  IInv'
  BY <1>17, AgeIInv
<1>21. CASE PollFails \/ NoArrays \/ ShrinkNoMemory
  BY <1>21, PollFailsIInv, NoArraysIInv, ShrinkNoMemoryIInv
<1>18. CASE Over
  BY <1>14, <1>18 DEF Over
<1>19. CASE Manager
  BY <1>1, <1>2, <1>3, <1>4, <1>5, <1>6, <1>7, <1>8, <1>9, <1>10, <1>11,
     <1>12, <1>13, <1>19, <1>21 DEF Manager, ControlOnly
<1>20. CASE Environment
  BY <1>14, <1>15, <1>16, <1>17, <1>20 DEF Environment
<1> QED
  BY <1>14, <1>18, <1>19, <1>20 DEF Next

\* IInv holds in every state of the manager.
THEOREM Invariance == Spec => []IInv
  BY InitIInv, NextIInv, PTL DEF Spec

\* Every variable keeps its type: the indices stay inside the arrays, and
\* cookies and descriptors are of connections that were accepted.
THEOREM TypeCorrect == Spec => []TypeOK
<1>1. IInv => TypeOK
  BY DEF IInv
<1> QED
  BY <1>1, Invariance, PTL

\* The pool is never smaller than -n nor larger than -N asks for, whatever
\* the sequence of growing, shrinking and restarting.
THEOREM PoolSizeHolds == Spec => []PoolSize
<1>1. IInv => PoolSize
  <2> SUFFICES ASSUME IInv PROVE MinPool <= Len(ws) /\ Len(ws) <= MaxPool
    BY DEF PoolSize
  <2>1. /\ MinPool <= minwsz /\ minwsz <= Len(ws) /\ Len(ws) <= MaxPool
        /\ minwsz \in Nat /\ Len(ws) \in Nat
    BY Arrays DEF IInv, Sizes, TypeOK
  <2> QED
    BY <2>1, PoolAssumption
<1> QED
  BY <1>1, Invariance, PTL

\* The slots in use are those of the busy workers, each of them once, however
\* slots are taken, freed and moved, and workers added and let go.
THEOREM PolledAreBusyHolds == Spec => []PolledAreBusy
<1>1. IInv => PolledAreBusy
  <2> SUFFICES ASSUME IInv, InLoop PROVE PolledAreBusy
    BY DEF PolledAreBusy
  <2>1. Len(pfd) = Len(ws) /\ npfd <= Len(pfd) /\ DOMAIN ws = 1..Len(ws)
    BY Arrays DEF IInv, Sizes
  <2>2. /\ \A i \in 1..Len(ws) :
             ws[i].fd # NoConn => \E k \in 1..npfd : pfd[k].pid = ws[i].pid
        /\ \A k \in 1..npfd :
             \E i \in 1..Len(ws) : ws[i].fd # NoConn /\ ws[i].pid = pfd[k].pid
        /\ \A k, l \in 1..npfd : pfd[k].pid = pfd[l].pid => k = l
    BY DEF IInv, Slots
  <2> QED
    BY <2>1, <2>2 DEF PolledAreBusy, IsBusy
<1> QED
  BY <1>1, Invariance, PTL

\* What the manager recorded of a worker is what the worker does or has just
\* done, and no two workers share a process or a connection: an answer is
\* always taken for the worker that gave it.
THEOREM WorkersAgreeHolds == Spec => []WorkersAgree
<1>1. IInv => WorkersAgree
  <2> SUFFICES ASSUME IInv, InLoop PROVE WorkersAgree
    BY DEF WorkersAgree
  <2>1. DOMAIN ws = 1..Len(ws)
    BY Arrays DEF IInv
  <2>2. \A i \in 1..Len(ws) :
          /\ ws[i].pid # NoPid
          /\ job[ws[i].pid] # NoConn => job[ws[i].pid] = ws[i].fd
          /\ outb[ws[i].pid] \in Conn =>
               outb[ws[i].pid] = ws[i].fd /\ job[ws[i].pid] = NoConn
          /\ \A j \in 1..Len(ws) : ws[i].fd = ws[j].fd => i = j \/ ws[i].fd = NoConn
    BY DEF IInv, Records
  <2>3. /\ \A i, j \in 1..Len(ws) :
             ws[i].pid = ws[j].pid => i = j \/ ws[i].pid = NoPid
        /\ \A i \in 1..Len(ws) : ws[i].pid \notin slough
    BY DEF IInv, Family, InLoop, Ended
  <2> QED
    BY <2>1, <2>2, <2>3 DEF WorkersAgree, IsBusy
<1> QED
  BY <1>1, Invariance, PTL

\* No process is left behind when the manager exits.
THEOREM NoChildLeftHolds == Spec => []NoChildLeft
<1>1. IInv => NoChildLeft
  BY DEF IInv
<1> QED
  BY <1>1, Invariance, PTL

-----------------------------------------------------------------------------
(* What the manager owes its clients and the operator.  That its books are *)
(* right is IInv; the invariants here say which connections are open, when *)
(* none is accepted, and what may have made the manager give up.           *)

\* The processes let go work on nothing: they were idle, and get nothing more.
SloughIdle == ~Ended => \A p \in slough : job[p] = NoConn

\* No SIGHUP, no restart: what is open is what the workers were given.
NoHupYet ==
  hups = 0 =>
    /\ "HUP" \notin pending
    /\ "HUP" \notin flags
    /\ InLoop \/ pc = "start" =>
         held = {ws[i].fd : i \in 1..Len(ws)} \ {NoConn}

\* Accepting ends when the pool is full and busy.
Limited ==
  /\ pc = "start" => accepting
  /\ InLoop /\ ~accepting =>
       Len(ws) = MaxPool /\ \A i \in 1..Len(ws) : ws[i].fd # NoConn

\* The slots that are not in use are empty.
FreeSlots ==
  InLoop \/ pc = "start" =>
    \A k \in 1..Len(pfd) : npfd < k => pfd[k].pid = NoPid

\* A worker beyond the minimum is there because there was a connection for it:
\* it has it, has had one, or is about to get its first.
Seasoned ==
  /\ pc = "start" => minwsz = Len(ws)
  /\ InLoop =>
       \A i \in 1..Len(ws) :
         \/ i <= minwsz
         \/ ws[i].fd # NoConn
         \/ ws[i].last # "never"
         \/ pc = "accept" /\ \A j \in 1..(i - 1) : ws[j].fd # NoConn

\* poll fails because of a signal only, and serving it leaves another result.
Results ==
  /\ InLoop /\ pc # "signals" => rc >= 0
  /\ pc = "signals" /\ rc < 0 => flags # {}

\* As long as no worker crashes, those of the pool run, nothing tells otherwise,
\* they write nothing but their cookies, and a SIGCHLD says that a process of the
\* slough has died.
PoolRuns ==
  InLoop \/ pc = "start" =>
    \A i \in 1..Len(ws) : ws[i].pid # NoPid => proc[ws[i].pid] = "run"
NoHangup == \A k \in 1..Len(pfd) : pfd[k].re # "hup"
Honest == \A p \in Pid : outb[p] # BadCookie
SomeDead == \E p \in Pid : proc[p] = "dead"
Deaths ==
  /\ ~Ended /\ "CHLD" \in pending => SomeDead
  /\ pc = "start" => "CHLD" \notin flags
  /\ InLoop /\ "CHLD" \in flags => pc = "signals" /\ SomeDead
Orderly == crashes = 0 => PoolRuns /\ NoHangup /\ Honest /\ Deaths

-----------------------------------------------------------------------------
(* How the arrays change *)

\* The worker that wrote its cookie back is idle again, and nothing else is; or
\* the manager gives up because of a wrong cookie.
LEMMA Freed ==
  ASSUME IInv, Release
  PROVE  \/ /\ pc' = "out"
            /\ \A i \in 1..Len(ws) : ws[i].fd # outb[pfd[idx].pid]
            /\ UNCHANGED <<ws, held, pfd, npfd, accepting, rc, idx>>
         \/ \E i \in 1..Len(ws) :
              /\ ws[i].fd \in Conn /\ ws[i].pid = pfd[idx].pid
              /\ job[ws[i].pid] = NoConn
              /\ Len(ws') = Len(ws)
              /\ ws'[i].pid = ws[i].pid /\ ws'[i].fd = NoConn /\ ws'[i].last = "recent"
              /\ \A j \in 1..Len(ws) : j # i => ws'[j] = ws[j]
              /\ held' = held \ {ws[i].fd}
              /\ Len(pfd') = Len(pfd) /\ npfd' = npfd - 1
              /\ \A k \in 1..Len(pfd) :
                   /\ pfd'[k].re \in {pfd[k].re, pfd[npfd].re}
                   /\ npfd <= k => pfd'[k].pid \in {pfd[k].pid, NoPid}
                   /\ npfd = k => pfd'[k].pid = NoPid
              /\ npfd \in 1..Len(pfd)
              /\ accepting'
              /\ rc > 0 /\ rc' = rc - 1
              /\ UNCHANGED <<pc, idx>>
<1> USE DEF IInv
<1> DEFINE c == outb[pfd[idx].pid]
<1>1. Releasing /\ c # NoConn
  BY DEF Release
<1>2. /\ idx \in 1..npfd
      /\ \A i \in 1..Len(ws) :
           ws[i].fd = c =>
             ws[i].pid = pfd[idx].pid /\ job[ws[i].pid] = NoConn /\ ws[i].fd \in Conn
  BY <1>1, CookieOwner
<1>3. CASE GotoOut /\ UNCHANGED <<ws, held, pfd, npfd, accepting>>
             /\ \A i \in DOMAIN ws : ~HasCookie(i, c)
  BY <1>3, Arrays DEF GotoOut, HasCookie
<1>4. ASSUME NEW i \in 1..Len(ws),
             ws[i].fd = c,
             ws' = [ws EXCEPT ![i].fd = NoConn, ![i].last = "recent"],
             held' = CloseConn(ws[i].fd),
             pfd' = FreeSlot(idx),
             npfd' = npfd - 1,
             accepting' = AcceptingAfterRelease,
             rc' = rc - 1,
             UNCHANGED <<pc, idx>>
      PROVE  /\ ws[i].fd \in Conn /\ ws[i].pid = pfd[idx].pid
             /\ job[ws[i].pid] = NoConn
             /\ Len(ws') = Len(ws)
             /\ ws'[i].pid = ws[i].pid /\ ws'[i].fd = NoConn /\ ws'[i].last = "recent"
             /\ \A j \in 1..Len(ws) : j # i => ws'[j] = ws[j]
             /\ held' = held \ {ws[i].fd}
             /\ Len(pfd') = Len(pfd) /\ npfd' = npfd - 1
             /\ \A k \in 1..Len(pfd) :
                  /\ pfd'[k].re \in {pfd[k].re, pfd[npfd].re}
                  /\ npfd <= k => pfd'[k].pid \in {pfd[k].pid, NoPid}
                  /\ npfd = k => pfd'[k].pid = NoPid
             /\ npfd \in 1..Len(pfd)
             /\ accepting'
             /\ rc > 0 /\ rc' = rc - 1
  <2> DEFINE w == [ws[i] EXCEPT !.fd = NoConn, !.last = "recent"]
             s == [pfd[npfd] EXCEPT !.pid = NoPid]
             t == [pfd EXCEPT ![idx] = pfd[npfd]]
  <2>1. w \in Worker /\ w.pid = ws[i].pid /\ w.fd = NoConn /\ w.last = "recent"
    BY Arrays DEF Worker
  <2>2. ws' = [ws EXCEPT ![i] = w]
    BY <1>4
  <2>3. npfd \in 1..Len(pfd) /\ idx \in 1..Len(pfd)
    BY <1>2, Arrays DEF TypeOK, Sizes
  <2>4. /\ s \in PollFd /\ s.pid = NoPid /\ s.re = pfd[npfd].re
        /\ pfd[npfd] \in PollFd
    BY <2>3, Arrays DEF PollFd
  <2>5. pfd' = [t EXCEPT ![npfd] = s]
    BY <1>4 DEF FreeSlot
  <2> HIDE DEF w, s
  <2>6. Len(ws') = Len(ws) /\ \A j \in 1..Len(ws) : ws'[j] = IF j = i THEN w ELSE ws[j]
    BY <2>1, <2>2, ExceptSeq DEF TypeOK
  <2>7. /\ t \in Seq(PollFd) /\ Len(t) = Len(pfd)
        /\ \A k \in 1..Len(pfd) : t[k] = IF k = idx THEN pfd[npfd] ELSE pfd[k]
    <3>1. pfd \in Seq(PollFd)
      BY DEF TypeOK
    <3> QED
      BY <2>3, <2>4, <3>1, ExceptSeq
  <2> HIDE DEF t
  <2>8. /\ Len(pfd') = Len(pfd)
        /\ \A k \in 1..Len(pfd) : pfd'[k] = IF k = npfd THEN s ELSE t[k]
    BY <2>3, <2>4, <2>5, <2>7, ExceptSeq
  <2>9. ASSUME NEW k \in 1..Len(pfd)
        PROVE  /\ pfd'[k].re \in {pfd[k].re, pfd[npfd].re}
               /\ npfd <= k => pfd'[k].pid \in {pfd[k].pid, NoPid}
               /\ npfd = k => pfd'[k].pid = NoPid
    <3>1. npfd <= k /\ k = idx => k = npfd
      BY <1>2, <2>3, Arrays
    <3> QED
      BY <2>4, <2>7, <2>8, <3>1
  <2>10. rc > 0
    BY <1>1 DEF Releasing
  <2> QED
    BY <1>2, <1>4, <2>1, <2>3, <2>6, <2>8, <2>9, <2>10 DEF CloseConn, AcceptingAfterRelease
<1>5. CASE \E i \in DOMAIN ws :
              /\ HasCookie(i, c)
              /\ ws' = [ws EXCEPT ![i].fd = NoConn, ![i].last = "recent"]
              /\ held' = CloseConn(ws[i].fd)
              /\ pfd' = FreeSlot(idx)
              /\ npfd' = npfd - 1
              /\ accepting' = AcceptingAfterRelease
              /\ rc' = rc - 1
              /\ UNCHANGED <<pc, idx>>
  <2>1. PICK i \in 1..Len(ws) :
              /\ HasCookie(i, c)
              /\ ws' = [ws EXCEPT ![i].fd = NoConn, ![i].last = "recent"]
              /\ held' = CloseConn(ws[i].fd)
              /\ pfd' = FreeSlot(idx)
              /\ npfd' = npfd - 1
              /\ accepting' = AcceptingAfterRelease
              /\ rc' = rc - 1
              /\ UNCHANGED <<pc, idx>>
    BY <1>5, Arrays
  <2>2. ws[i].fd = c
    BY <2>1 DEF HasCookie
  <2> QED
    BY <1>4, <2>1, <2>2
<1>6. \/ GotoOut /\ UNCHANGED <<ws, held, pfd, npfd, accepting>>
           /\ \A i \in DOMAIN ws : ~HasCookie(i, c)
      \/ \E i \in DOMAIN ws :
              /\ HasCookie(i, c)
              /\ ws' = [ws EXCEPT ![i].fd = NoConn, ![i].last = "recent"]
              /\ held' = CloseConn(ws[i].fd)
              /\ pfd' = FreeSlot(idx)
              /\ npfd' = npfd - 1
              /\ accepting' = AcceptingAfterRelease
              /\ rc' = rc - 1
              /\ UNCHANGED <<pc, idx>>
  BY DEF Release
<1> QED
  BY <1>3, <1>5, <1>6

\* A worker was started for a connection that all others are too busy for.
LEMMA Grown ==
  ASSUME IInv, Grow
  PROVE  /\ pc = "listen" /\ pc' = "accept" /\ npfd = Len(ws)
         /\ Len(ws) \in Nat /\ Len(ws') = Len(ws) + 1 /\ Len(pfd') = Len(ws) + 1
         /\ \A i \in 1..Len(ws) : ws'[i] = ws[i] /\ pfd'[i] = pfd[i]
         /\ ws'[Len(ws) + 1].fd = NoConn
         /\ pfd'[Len(ws) + 1] = NewPollFd
         /\ \E p \in Pid : /\ ws'[Len(ws) + 1].pid = p /\ proc[p] = "none"
                           /\ proc' = [proc EXCEPT ![p] = "run"]
<1> USE DEF IInv
<1>1. PICK p \in Pid : /\ proc[p] = "none" /\ proc' = [proc EXCEPT ![p] = "run"]
                       /\ ws' = Append(ws, NewWorker(p))
                       /\ pfd' = Append(pfd, NewPollFd)
  BY DEF Grow, Fork
<1>2. pc = "listen" /\ pc' = "accept" /\ npfd = Len(pfd)
  BY DEF Grow, AllBusy
<1>3. Len(ws) \in Nat /\ Len(pfd) = Len(ws)
  BY <1>2, Arrays DEF Sizes, InLoop
<1>4. NewWorker(p) \in Worker /\ NewWorker(p).pid = p /\ NewWorker(p).fd = NoConn
  BY DEF NewWorker, Worker
<1>5. NewPollFd \in PollFd
  BY DEF NewPollFd, PollFd
<1>6. /\ Len(ws') = Len(ws) + 1 /\ ws'[Len(ws) + 1] = NewWorker(p)
      /\ \A i \in 1..Len(ws) : ws'[i] = ws[i]
  BY <1>1, <1>4, AppendProperties DEF TypeOK
<1>7. /\ Len(pfd') = Len(pfd) + 1 /\ pfd'[Len(pfd) + 1] = NewPollFd
      /\ \A k \in 1..Len(pfd) : pfd'[k] = pfd[k]
  BY <1>1, <1>5, AppendProperties DEF TypeOK
<1> QED
  BY <1>1, <1>2, <1>3, <1>4, <1>6, <1>7

\* The last worker, which is idle, was let go.
LEMMA Shrunk ==
  ASSUME IInv, Shrink
  PROVE  /\ pc = "shrink" /\ pc' \in {"poll", "release"}
         /\ Len(ws) \in Nat /\ 1 < Len(ws) /\ minwsz < Len(ws)
         /\ Len(ws') = Len(ws) - 1 /\ Len(pfd') = Len(ws) - 1 /\ Len(pfd) = Len(ws)
         /\ \A i \in 1..(Len(ws) - 1) :
              i \in 1..Len(ws) /\ ws'[i] = ws[i] /\ pfd'[i] = pfd[i]
         /\ ws[Len(ws)].fd = NoConn
         /\ ws[Len(ws)].pid \in Pid /\ job[ws[Len(ws)].pid] = NoConn
         /\ \A i \in 1..(Len(ws) - 1) : ws[i].pid # ws[Len(ws)].pid
         /\ slough' = slough \cup {ws[Len(ws)].pid}
         /\ proc' = [proc EXCEPT ![ws[Len(ws)].pid] = IF @ = "run" THEN "told" ELSE @]
<1> USE DEF IInv
<1> DEFINE n == Len(ws)
           m == n - 1
<1>1. n \in Nat /\ Len(pfd) = n /\ minwsz \in Nat /\ minwsz < n /\ 1 < n
  BY Arrays DEF Sizes, InLoop, Shrink, MayShrink, ShrinkAsserts, TypeOK
<1>2. n \in 1..n /\ m \in Nat
  BY <1>1
<1>3. /\ ws[n].fd = NoConn
      /\ slough' = slough \cup {ws[n].pid}
      /\ proc' = [proc EXCEPT ![ws[n].pid] = IF @ = "run" THEN "told" ELSE @]
      /\ ws' = SubSeq(ws, 1, m) /\ pfd' = SubSeq(pfd, 1, m)
  BY <1>1 DEF Shrink, MayShrink, LastWorker, LetGo, IsIdle
<1>4. pc = "shrink" /\ pc' \in {"poll", "release"}
  BY DEF Shrink, ToRelease, PollAgain
<1>5. Len(ws') = m /\ \A i \in 1..m : ws'[i] = ws[i]
  <2>1. \A i \in 1..m : ws[i] \in Worker
    BY <1>1, Arrays
  <2> QED
    BY <1>1, <1>2, <1>3, <2>1, SubSeqProperties
<1>6. Len(pfd') = m /\ \A k \in 1..m : pfd'[k] = pfd[k]
  <2>1. \A k \in 1..m : pfd[k] \in PollFd
    BY <1>1, Arrays
  <2> QED
    BY <1>1, <1>2, <1>3, <2>1, SubSeqProperties
<1>7. ws[n].pid \in Pid /\ job[ws[n].pid] = NoConn
  BY <1>2, <1>3, <1>4, Arrays DEF Records, InLoop, Worker
<1>8. \A i \in 1..m : i \in 1..n /\ i # n
  BY <1>1
<1>9. \A i \in 1..m : ws[i].pid # ws[n].pid
  BY <1>2, <1>4, <1>7, <1>8 DEF Family, Ended, Pid, NoPid
<1> QED
  BY <1>1, <1>3, <1>4, <1>5, <1>6, <1>7, <1>8, <1>9

\* A worker was idle for long.
LEMMA Aged ==
  ASSUME NEW i \in DOMAIN ws, IInv, Age(i)
  PROVE  /\ Len(ws') = Len(ws)
         /\ \A j \in 1..Len(ws) :
              /\ ws'[j].pid = ws[j].pid /\ ws'[j].fd = ws[j].fd
              /\ ws[j].last # "never" => ws'[j].last # "never"
<1> USE DEF IInv
<1> DEFINE w == [ws[i] EXCEPT !.last = "old"]
<1>1. i \in 1..Len(ws) /\ ws[i] \in Worker
  BY Arrays
<1>2. w \in Worker /\ w.pid = ws[i].pid /\ w.fd = ws[i].fd /\ w.last = "old"
  BY <1>1 DEF Worker
<1>3. ws' = [ws EXCEPT ![i] = w]
  BY DEF Age
<1> HIDE DEF w
<1>4. Len(ws') = Len(ws) /\ \A j \in 1..Len(ws) : ws'[j] = IF j = i THEN w ELSE ws[j]
  BY <1>1, <1>2, <1>3, ExceptSeq DEF TypeOK
<1>5. ASSUME NEW j \in 1..Len(ws)
      PROVE  /\ ws'[j].pid = ws[j].pid /\ ws'[j].fd = ws[j].fd
             /\ ws[j].last # "never" => ws'[j].last # "never"
  <2>1. CASE j = i
    BY <1>2, <1>4, <2>1
  <2>2. CASE j # i
    BY <1>4, <2>2
  <2> QED
    BY <2>1, <2>2
<1> QED
  BY <1>4, <1>5

\* What a restart begins with.
LEMMA Restarted ==
  ASSUME IInv, Restart
  PROVE  /\ pc = "wait" /\ pc' = "start" /\ slough' = {} /\ flags' = {} /\ npfd' = 0
         /\ "HUP" \in flags
         /\ minwsz' = Len(ws) /\ Len(ws) \in Nat
         /\ Len(ws') = Len(ws) /\ Len(pfd') = Len(ws)
         /\ \A i \in 1..Len(ws) : ws'[i] = NewWorker(NoPid) /\ pfd'[i] = NewPollFd
<1>1. /\ pc = "wait" /\ pc' = "start" /\ slough' = {} /\ flags' = {} /\ npfd' = 0
      /\ "HUP" \in flags
      /\ minwsz' = Len(ws) /\ ws' = Blank(Len(ws))
      /\ pfd' = [k \in 1..Len(ws) |-> NewPollFd]
  BY DEF Restart, Waited, WantsRestart
<1>2. Len(ws) \in Nat
  BY Arrays DEF IInv
<1>3. NewWorker(NoPid) \in Worker /\ NewPollFd \in PollFd
  BY DEF NewWorker, Worker, NewPollFd, PollFd
<1>4. Len(ws') = Len(ws)
  <2>1. ws' \in [1..Len(ws) -> Worker]
    BY <1>1, <1>3 DEF Blank
  <2> QED
    BY <2>1, <1>2, FunctionIsSeq
<1>5. Len(pfd') = Len(ws)
  <2>1. pfd' \in [1..Len(ws) -> PollFd]
    BY <1>1, <1>3
  <2> QED
    BY <2>1, <1>2, FunctionIsSeq
<1> QED
  BY <1>1, <1>2, <1>4, <1>5 DEF Blank

\* One of the initial workers was started.
LEMMA StartedOne ==
  ASSUME IInv, StartWorker
  PROVE  /\ pc = "start" /\ pc' = "start" /\ Len(ws') = Len(ws)
         /\ \A j \in 1..Len(ws) : ws'[j].fd = NoConn /\ ws[j].fd = NoConn
         /\ \E p \in Pid :
              /\ proc[p] = "none" /\ proc' = [proc EXCEPT ![p] = "run"]
              /\ \A j \in 1..Len(ws) : ws'[j].pid \in {ws[j].pid, p}
<1> USE DEF IInv
<1>1. PICK p \in Pid : /\ proc[p] = "none" /\ proc' = [proc EXCEPT ![p] = "run"]
                       /\ ws' = [ws EXCEPT ![idx] = NewWorker(p)]
  BY DEF StartWorker, Fork
<1>2. pc = "start" /\ pc' = "start" /\ idx \in 1..Len(ws)
  BY Arrays DEF StartWorker, Sizes, TypeOK
<1>3. NewWorker(p) \in Worker /\ NewWorker(p).pid = p /\ NewWorker(p).fd = NoConn
  BY DEF NewWorker, Worker
<1>4. /\ Len(ws') = Len(ws)
      /\ \A j \in 1..Len(ws) : ws'[j] = IF j = idx THEN NewWorker(p) ELSE ws[j]
  BY <1>1, <1>2, <1>3, ExceptSeq DEF TypeOK
<1>5. \A j \in 1..Len(ws) : ws[j].fd = NoConn
  BY <1>2 DEF Starting
<1> QED
  BY <1>1, <1>2, <1>3, <1>4, <1>5

-----------------------------------------------------------------------------
(* Counting *)

LEMMA Interval ==
  ASSUME NEW n \in Nat
  PROVE  IsFiniteSet(1..n) /\ Cardinality(1..n) = n
<1>1. 1 \in Int /\ n \in Int
  OBVIOUS
<1>2. IsFiniteSet(1..n) /\ Cardinality(1..n) = IF 1 > n THEN 0 ELSE n - 1 + 1
  BY ONLY <1>1, FS_Interval
<1> QED
  BY <1>2

\* With every slot in use, every worker is busy: each slot is that of another
\* one.
LEMMA FullIsBusy ==
  ASSUME IInv, InLoop, npfd = Len(pfd)
  PROVE  \A i \in 1..Len(ws) : ws[i].fd # NoConn
<1> USE DEF IInv
<1> DEFINE n == Len(ws)
           Busy == {i \in 1..n : ws[i].fd # NoConn}
           Owner(k, i) == ws[i].fd # NoConn /\ ws[i].pid = pfd[k].pid
           f == [k \in 1..n |-> CHOOSE i \in 1..n : Owner(k, i)]
<1>1. n \in Nat /\ npfd = n
  BY Arrays DEF Sizes
<1>2. \A k \in 1..n : f[k] \in Busy /\ ws[f[k]].pid = pfd[k].pid
  <2> SUFFICES ASSUME NEW k \in 1..n
               PROVE  f[k] \in Busy /\ ws[f[k]].pid = pfd[k].pid
    OBVIOUS
  <2>1. \E i \in 1..n : Owner(k, i)
    BY <1>1 DEF Slots
  <2>2. f[k] \in 1..n /\ Owner(k, f[k])
    BY <2>1, Zenon
  <2> QED
    BY <2>2
<1> HIDE DEF f
<1>3. \A k, l \in 1..n : f[k] = f[l] => k = l
  <2> SUFFICES ASSUME NEW k \in 1..n, NEW l \in 1..n, f[k] = f[l]
               PROVE  k = l
    OBVIOUS
  <2>1. pfd[k].pid = pfd[l].pid
    BY <1>2
  <2>2. k \in 1..npfd /\ l \in 1..npfd
    BY <1>1
  <2> QED
    BY <2>1, <2>2 DEF Slots
<1>4. IsFiniteSet(1..n) /\ Cardinality(1..n) = n
  BY <1>1, Interval
<1>5. Busy \subseteq 1..n
  OBVIOUS
<1> HIDE DEF Busy
<1>6. IsFiniteSet(Busy) /\ Cardinality(Busy) <= n /\ (Cardinality(Busy) = n => Busy = 1..n)
  BY <1>4, <1>5, FS_Subset
<1>7. f \in [1..n -> Busy]
  BY <1>2 DEF f
<1>8. ~(Cardinality(Busy) < n)
  BY <1>3, <1>4, <1>6, <1>7, FS_PigeonHole
<1>9. Busy = 1..n
  <2>1. Cardinality(Busy) \in Nat
    BY <1>6, FS_CardinalityType
  <2> QED
    BY <1>1, <1>6, <1>8, <2>1
<1> QED
  BY <1>9 DEF Busy

\* With a slot free, some worker is idle: the busy ones are in other slots.
LEMMA SomeIdle ==
  ASSUME IInv, InLoop, npfd < Len(pfd)
  PROVE  \E i \in 1..Len(ws) : ws[i].fd = NoConn
<1> USE DEF IInv
<1> SUFFICES ASSUME \A i \in 1..Len(ws) : ws[i].fd # NoConn
             PROVE  FALSE
  OBVIOUS
<1> DEFINE n == Len(ws)
           f == [i \in 1..n |-> CHOOSE k \in 1..npfd : pfd[k].pid = ws[i].pid]
<1>1. n \in Nat /\ npfd \in Nat /\ npfd < n
  BY Arrays DEF Sizes, TypeOK
<1>2. \A i \in 1..n : f[i] \in 1..npfd /\ pfd[f[i]].pid = ws[i].pid
  <2> SUFFICES ASSUME NEW i \in 1..n
               PROVE  f[i] \in 1..npfd /\ pfd[f[i]].pid = ws[i].pid
    OBVIOUS
  <2>1. \E k \in 1..npfd : pfd[k].pid = ws[i].pid
    BY DEF Slots
  <2> QED
    BY <2>1, Zenon
<1> HIDE DEF f
<1>3. \A i, j \in 1..n : f[i] = f[j] => i = j
  BY <1>2 DEF Family, Records, InLoop, Ended
<1>4. /\ IsFiniteSet(1..n) /\ Cardinality(1..n) = n
      /\ IsFiniteSet(1..npfd) /\ Cardinality(1..npfd) = npfd
  BY <1>1, Interval
<1>5. f \in [1..n -> 1..npfd]
  BY <1>2 DEF f
<1>6. \E i, j \in 1..n : i # j /\ f[i] = f[j]
  BY <1>1, <1>4, <1>5, FS_PigeonHole
<1> QED
  BY <1>3, <1>6

-----------------------------------------------------------------------------
(* Steps of the environment, and of the manager while it only decides *)

\* What clients, workers, the operator and time leave alone.
LEMMA EnvironmentKeeps ==
  ASSUME IInv, Environment \/ Over \/ UNCHANGED vars
  PROVE  /\ UNCHANGED <<slough, pfd, npfd, minwsz, accepting, listenReady, ctlVars,
                        held, accepted>>
         /\ Len(ws') = Len(ws)
         /\ \A j \in 1..Len(ws) :
              /\ ws'[j].pid = ws[j].pid /\ ws'[j].fd = ws[j].fd
              /\ ws[j].last # "never" => ws'[j].last # "never"
<1> USE DEF vars, poolVars, ctlVars, osVars, procVars
<1>1. CASE Connect \/ SendTerm \/ SendHup \/ Over \/ UNCHANGED vars
  BY <1>1 DEF Connect, SendTerm, SendHup, Over
<1>2. ASSUME NEW p \in Pid, Finish(p) \/ Babble(p) \/ WorkerExit(p) \/ WorkerCrash(p)
      PROVE  UNCHANGED <<ws, slough, pfd, npfd, minwsz, accepting, listenReady, ctlVars,
                         held, accepted>>
  BY <1>2 DEF Finish, Babble, WorkerExit, WorkerCrash
<1>3. ASSUME NEW i \in DOMAIN ws, Age(i)
      PROVE  /\ UNCHANGED <<slough, pfd, npfd, minwsz, accepting, listenReady, ctlVars,
                            held, accepted>>
             /\ Len(ws') = Len(ws)
             /\ \A j \in 1..Len(ws) :
                  /\ ws'[j].pid = ws[j].pid /\ ws'[j].fd = ws[j].fd
                  /\ ws[j].last # "never" => ws'[j].last # "never"
  <2>1. UNCHANGED <<slough, pfd, npfd, minwsz, accepting, listenReady, ctlVars,
                    held, accepted>>
    BY <1>3 DEF Age
  <2> QED
    BY <1>3, <2>1, Aged
<1> QED
  BY <1>1, <1>2, <1>3 DEF Environment

\* The steps that leave both arrays, the processes and the connections alone, or
\* end the manager's loop.
LEMMA ControlKeeps ==
  ASSUME ControlOnly
  PROVE  /\ UNCHANGED <<ws, slough, pfd, npfd, minwsz, listenReady, flags, osVars,
                        procVars, bounds>>
         /\ ~Ended /\ ~Ended'
         /\ InLoop' => InLoop \/ Started
         /\ pc' # "start" \/ pc' = pc
<1> USE DEF ControlOnly, poolVars, InLoop, GotoOut, PollAgain, ToRelease, Ended, Releasing
<1>1. CASE StartFails \/ Started \/ HandleStop \/ HandleChldNoSlough \/ HandleHup
  BY <1>1 DEF StartFails, Started, HandleStop, HandleChldNoSlough, HandleHup
<1>2. CASE NoSignal \/ ShrinkNot \/ SloughFull
  BY <1>2 DEF NoSignal, ShrinkNot, SloughFull
<1>3. CASE ReleaseHup \/ ReleaseSkip \/ ReleaseEof \/ Released
  BY <1>3 DEF ReleaseHup, ReleaseSkip, ReleaseEof, Released
<1>4. CASE NothingToAccept \/ RateLimit \/ GrowFails \/ GrowNot \/ AcceptError
  BY <1>4 DEF NothingToAccept, RateLimit, GrowFails, GrowNot, AcceptError
<1> QED
  BY <1>1, <1>2, <1>3, <1>4

\* Failures of poll, calloc and reallocarray.
GivesUp == NoArrays \/ PollFails \/ ShrinkNoMemory

\* They end the loop: nothing is accepted, released or lost, and at most a worker
\* with no connection joins the slough.
LEMMA GivenUp ==
  ASSUME IInv, GivesUp
  PROVE  /\ CallsMayFail
         /\ ~Ended /\ pc' \in {"out", "exited"}
         /\ UNCHANGED <<pfd, accepted, job, outb, bounds>>
         /\ flags' \subseteq flags \cup pending /\ pending' \subseteq pending
         /\ held' = held \/ pc' = "exited"
         /\ \A p \in slough' : p \in slough \/ job[p] = NoConn
         /\ \A p \in Pid : proc[p] = "dead" => proc'[p] = "dead"
<1> USE DEF IInv, osVars, procVars, poolVars, Ended
<1>1. CASE NoArrays
  BY <1>1 DEF NoArrays
<1>2. CASE PollFails
  BY <1>2 DEF PollFails, Deliver
<1>3. CASE ShrinkNoMemory
  <2> DEFINE p == LetGo.pid
  <2>1. /\ CallsMayFail /\ pc = "shrink" /\ pc' = "out" /\ IsIdle(LastWorker) /\ Len(ws) > minwsz
        /\ UNCHANGED <<pfd, accepted, job, outb, bounds, flags, pending, held>>
        /\ slough' = slough \cup {p}
        /\ proc' = [proc EXCEPT ![p] = IF @ = "run" THEN "told" ELSE @]
    BY <1>3 DEF ShrinkNoMemory, GotoOut, MayShrink
  <2>2. Len(ws) \in 1..Len(ws)
    BY <2>1, Arrays, PoolAssumption DEF Sizes, TypeOK
  <2>3. job[p] = NoConn
    BY <2>1, <2>2 DEF Records, InLoop, IsIdle, LastWorker, LetGo
  <2>4. \A q \in Pid : proc[q] = "dead" => proc'[q] = "dead"
    BY <2>1 DEF TypeOK
  <2> HIDE DEF p
  <2> QED
    BY <2>1, <2>3, <2>4
<1> QED
  BY <1>1, <1>2, <1>3 DEF GivesUp

\* What the next step may be.
LEMMA Steps ==
  ASSUME [Next]_vars
  PROVE  \/ ControlOnly
         \/ StartWorker \/ Poll \/ PollInterrupted
         \/ HandleChldWorker \/ HandleChldSlough \/ Shrink \/ Release \/ Grow
         \/ Accept \/ AcceptFails \/ Out \/ Restart \/ Exit
         \/ GivesUp
         \/ Environment \/ Over \/ UNCHANGED vars
  BY DEF Next, Manager, ControlOnly, GivesUp

-----------------------------------------------------------------------------
(* The invariants, one by one *)

LEMMA SloughIdleKept == IInv /\ SloughIdle /\ [Next]_vars => SloughIdle'
<1> SUFFICES ASSUME IInv, SloughIdle, [Next]_vars PROVE SloughIdle'
  OBVIOUS
<1>1. ASSUME Ended' \/ (~Ended /\ slough' \subseteq slough /\ job' = job)
      PROVE  SloughIdle'
  BY <1>1 DEF SloughIdle
<1>2. CASE ControlOnly
  BY <1>1, <1>2, ControlKeeps DEF procVars
<1>3. CASE StartWorker \/ Poll \/ PollInterrupted \/ Grow \/ Release
  BY <1>1, <1>3 DEF StartWorker, Poll, PollInterrupted, Grow, Release, Releasing, procVars, Ended
<1>4. CASE HandleChldWorker \/ HandleChldSlough \/ Out
  <2>1. slough' \subseteq slough /\ job' = job /\ pc \in {"signals", "out"}
    BY <1>4 DEF HandleChldWorker, HandleChldSlough, Reap, Out, poolVars
  <2> QED
    BY <1>1, <2>1 DEF Ended
<1>9. CASE AcceptFails
  <2>1. slough' = slough /\ job' = job /\ pc = "accept"
    BY <1>9 DEF AcceptFails, TakeConn
  <2> QED
    BY <1>1, <2>1 DEF Ended
<1>5. CASE Restart \/ Exit
  BY <1>1, <1>5 DEF Restart, Exit, Waited, Reap, Ended
<1>6. CASE Shrink
  BY <1>6, Shrunk DEF SloughIdle, Ended, Shrink
<1>7. CASE Accept
  <2>1. PICK i \in 1..Len(ws) : TakeConn(i) /\ job' = [job EXCEPT ![ws[i].pid] = accepted + 1]
    BY <1>7, Arrays DEF Accept, IInv
  <2>2. pc = "accept" /\ slough' = slough
    BY <2>1 DEF TakeConn
  <2>3. ws[i].pid \notin slough
    BY <2>2 DEF IInv, Family, InLoop, Ended
  <2> QED
    BY <2>1, <2>2, <2>3 DEF SloughIdle, Ended, IInv, TypeOK
<1>8. CASE Environment \/ Over \/ UNCHANGED vars
  <2>1. slough' = slough /\ pc' = pc
    BY <1>8, EnvironmentKeeps DEF ctlVars
  <2>2. \A p \in Pid : job'[p] \in {job[p], NoConn}
    <3>1. CASE job' = job
      BY <3>1
    <3>2. ASSUME NEW p \in Pid, job' = [job EXCEPT ![p] = NoConn]
          PROVE  \A q \in Pid : job'[q] \in {job[q], NoConn}
      BY <3>2 DEF IInv, TypeOK
    <3>3. job' = job \/ \E p \in Pid : job' = [job EXCEPT ![p] = NoConn]
      BY <1>8
         DEF Environment, Connect, Finish, Babble, WorkerExit, WorkerCrash, SendTerm, SendHup,
             Age, Over, vars, procVars
    <3> QED
      BY <3>1, <3>2, <3>3
  <2> QED
    BY <2>1, <2>2 DEF SloughIdle, Ended, IInv, TypeOK
<1>10. CASE GivesUp
  BY <1>10, GivenUp DEF SloughIdle, Ended
<1> QED
  BY <1>2, <1>3, <1>4, <1>5, <1>6, <1>7, <1>8, <1>9, <1>10, Steps

LEMMA FreeSlotsKept == IInv /\ FreeSlots /\ [Next]_vars => FreeSlots'
<1> SUFFICES ASSUME IInv, FreeSlots, [Next]_vars, InLoop' \/ pc' = "start",
                    NEW k \in 1..Len(pfd'), npfd' < k
             PROVE  pfd'[k].pid = NoPid
  BY DEF FreeSlots
<1> USE DEF IInv
<1>1. /\ npfd \in Nat /\ Len(pfd) \in Nat /\ k \in Nat /\ npfd <= Len(pfd)
      /\ InLoop => Len(pfd) = Len(ws)
  BY Arrays DEF TypeOK, Sizes
<1>2. ASSUME InLoop \/ pc = "start", UNCHANGED <<pfd, npfd>>
      PROVE  pfd'[k].pid = NoPid
  BY <1>2 DEF FreeSlots
<1>3. CASE ControlOnly
  <2>1. InLoop \/ pc = "start"
    BY <1>3, ControlKeeps DEF Started
  <2> QED
    BY <1>2, <1>3, <2>1, ControlKeeps
<1>4. CASE StartWorker
  BY <1>2, <1>4 DEF StartWorker
<1>5. CASE Poll \/ PollInterrupted
  <2>1. pc = "poll" /\ npfd' = npfd /\ (pfd' = Polled \/ pfd' = pfd)
    BY <1>5 DEF Poll, PollInterrupted
  <2>2. CASE pfd' = pfd
    BY <1>2, <2>1, <2>2 DEF InLoop
  <2>3. CASE pfd' = Polled
    <3>1. pfd' = [l \in 1..Len(pfd) |->
                    IF l <= npfd THEN [pfd[l] EXCEPT !.re = Readiness(pfd[l].pid)]
                                 ELSE pfd[l]]
      BY <2>3, Arrays DEF Polled
    <3>2. pfd' \in Seq(PollFd) /\ Len(pfd') = Len(pfd)
      <4>1. \A l \in 1..Len(pfd) : Readiness(pfd[l].pid) \in {"none", "in", "hup"}
        BY DEF Readiness
      <4>2. pfd' \in [1..Len(pfd) -> PollFd]
        BY <3>1, <4>1, Arrays DEF PollFd
      <4> QED
        BY <1>1, <4>2, FunctionIsSeq
    <3>3. k \in 1..Len(pfd) /\ ~(k <= npfd)
      BY <1>1, <2>1, <3>2
    <3>4. pfd'[k] = pfd[k]
      BY <3>1, <3>3
    <3> QED
      BY <1>1, <2>1, <3>3, <3>4 DEF FreeSlots, InLoop
  <2> QED
    BY <2>1, <2>2, <2>3
<1>6. CASE HandleChldWorker \/ Out \/ Exit
  BY <1>6 DEF HandleChldWorker, GotoOut, Out, Exit, InLoop
<1>7. CASE HandleChldSlough
  BY <1>2, <1>7 DEF HandleChldSlough, InLoop
<1>8. CASE Shrink
  <2>1. k \in 1..(Len(ws) - 1) /\ npfd' = npfd /\ InLoop
    BY <1>8, Shrunk DEF Shrink, InLoop
  <2> QED
    BY <1>1, <1>8, <2>1, Shrunk DEF FreeSlots
<1>9. CASE Release
  <2>1. /\ Len(pfd') = Len(pfd) /\ npfd' = npfd - 1
        /\ npfd <= k => pfd'[k].pid \in {pfd[k].pid, NoPid}
        /\ npfd = k => pfd'[k].pid = NoPid
    BY <1>9, Freed DEF InLoop
  <2>2. InLoop
    BY <1>9 DEF Release, Releasing, InLoop
  <2>3. npfd <= k
    BY <1>1, <2>1
  <2> QED
    BY <1>1, <2>1, <2>2, <2>3 DEF FreeSlots
<1>10. CASE Grow
  <2>1. npfd' = npfd /\ k = Len(ws) + 1
    BY <1>1, <1>10, Grown DEF Grow
  <2> QED
    BY <1>10, <2>1, Grown DEF NewPollFd
<1>11. CASE Accept \/ AcceptFails
  <2>1. PICK i \in 1..Len(ws) : TakeConn(i)
    BY <1>11, Arrays DEF Accept, AcceptFails
  <2>2. InLoop /\ npfd' = npfd + 1 /\ Len(pfd') = Len(pfd) /\ npfd + 1 \in 1..Len(pfd)
    BY <2>1, Taken DEF InLoop, TakeConn
  <2>3. pfd' = [pfd EXCEPT ![npfd + 1].pid = ws[i].pid]
    BY <2>1 DEF TakeConn
  <2>4. k \in 1..Len(pfd) /\ npfd < k /\ k # npfd + 1
    BY <1>1, <2>2
  <2>5. pfd'[k] = pfd[k]
    BY <2>2, <2>3, <2>4, Arrays
  <2> QED
    BY <2>2, <2>4, <2>5 DEF FreeSlots
<1>12. CASE Restart
  <2>1. k \in 1..Len(ws)
    BY <1>12, Restarted
  <2> QED
    BY <1>12, <2>1, Restarted DEF NewPollFd
<1>13. CASE Environment \/ Over \/ UNCHANGED vars
  BY <1>2, <1>13, EnvironmentKeeps DEF ctlVars, InLoop
<1>14. CASE GivesUp
  BY <1>14, GivenUp DEF InLoop
<1> QED
  BY <1>3, <1>4, <1>5, <1>6, <1>7, <1>8, <1>9, <1>10, <1>11, <1>12, <1>13, <1>14, Steps

LEMMA LimitedKept == IInv /\ Limited /\ [Next]_vars => Limited'
<1> SUFFICES ASSUME IInv, Limited, [Next]_vars PROVE Limited'
  OBVIOUS
<1> USE DEF IInv
<1>1. Len(ws) \in Nat /\ Len(ws) <= MaxPool /\ MaxPool \in Nat
  BY PoolAssumption, Arrays DEF Sizes
<1>2. ASSUME accepting' \/ ~(InLoop' \/ pc' = "start")
      PROVE  Limited'
  BY <1>2 DEF Limited, InLoop
<1>3. ASSUME InLoop' <=> InLoop, pc' = "start" <=> pc = "start", accepting' = accepting,
             Len(ws') = Len(ws), \A j \in 1..Len(ws) : ws'[j].fd = ws[j].fd
      PROVE  Limited'
  BY <1>3 DEF Limited
<1>4. CASE RateLimit
  <2>1. InLoop /\ npfd = Len(pfd) /\ ws' = ws /\ pc' = "poll" /\ ~(Len(ws) + 1 <= MaxPool)
    BY <1>4 DEF RateLimit, AllBusy, RoomToGrow, InLoop, PollAgain
  <2>2. Len(ws) = MaxPool
    BY <1>1, <2>1
  <2> QED
    BY <2>1, <2>2, FullIsBusy DEF Limited
<1>5. CASE ControlOnly /\ ~RateLimit
  <2>1. accepting' = accepting
    <3>1. CASE StartFails \/ Started \/ HandleStop \/ HandleChldNoSlough \/ HandleHup
      BY <3>1 DEF StartFails, Started, HandleStop, HandleChldNoSlough, HandleHup, poolVars
    <3>2. CASE NoSignal \/ ShrinkNot \/ SloughFull \/ ReleaseHup \/ ReleaseSkip
      BY <3>2 DEF NoSignal, ShrinkNot, SloughFull, ReleaseHup, ReleaseSkip, poolVars
    <3>3. CASE ReleaseEof \/ Released \/ NothingToAccept \/ GrowFails \/ GrowNot \/ AcceptError
      BY <3>3 DEF ReleaseEof, Released, NothingToAccept, GrowFails, GrowNot, AcceptError, poolVars
    <3> QED
      BY <1>5, <3>1, <3>2, <3>3 DEF ControlOnly
  <2>2. ws' = ws /\ (InLoop' => InLoop \/ Started) /\ (pc' = "start" => pc = "start")
    BY <1>5, ControlKeeps
  <2>3. Started => accepting
    BY DEF Started, Limited
  <2> QED
    BY <2>1, <2>2, <2>3 DEF Limited
<1>6. CASE StartWorker
  BY <1>6, StartedOne DEF StartWorker, Limited, InLoop
<1>7. CASE Poll \/ PollInterrupted \/ HandleChldSlough
  <2>1. /\ InLoop /\ InLoop' /\ accepting' = accepting /\ ws' = ws
        /\ pc # "start" /\ pc' # "start"
    BY <1>7 DEF Poll, PollInterrupted, HandleChldSlough, InLoop
  <2> QED
    BY <1>3, <2>1
<1>8. CASE HandleChldWorker \/ Out \/ Exit \/ AcceptFails
  BY <1>2, <1>8 DEF HandleChldWorker, GotoOut, Out, Exit, AcceptFails, Killed, InLoop
<1>9. CASE Restart
  BY <1>2, <1>9 DEF Restart
<1>10. CASE Shrink
  <2>1. InLoop /\ pc' # "start" /\ Len(ws) \in 1..Len(ws) /\ ws[Len(ws)].fd = NoConn
    BY <1>1, <1>10, Shrunk DEF InLoop
  <2>2. accepting
    BY <2>1 DEF Limited
  <2> QED
    BY <1>2, <1>10, <2>2 DEF Shrink
<1>11. CASE Release
  <2>1. accepting' \/ pc' = "out"
    BY <1>11, Freed
  <2> QED
    BY <1>2, <2>1 DEF InLoop
<1>12. CASE Grow
  BY <1>2, <1>12 DEF Grow
<1>13. CASE Accept
  <2>1. PICK i \in 1..Len(ws) : TakeConn(i)
    BY <1>13, Arrays DEF Accept
  <2>2. InLoop /\ ws[i].fd = NoConn /\ accepting' = accepting
    BY <2>1, Taken DEF TakeConn, InLoop
  <2>3. accepting
    BY <2>2 DEF Limited
  <2> QED
    BY <1>2, <2>2, <2>3
<1>14. CASE Environment \/ Over \/ UNCHANGED vars
  BY <1>3, <1>14, EnvironmentKeeps DEF ctlVars, InLoop
<1>15. CASE GivesUp
  BY <1>2, <1>15, GivenUp DEF InLoop
<1> QED
  BY <1>4, <1>5, <1>6, <1>7, <1>8, <1>9, <1>10, <1>11, <1>12, <1>13, <1>14, <1>15, Steps

LEMMA NoHupYetKept == IInv /\ NoHupYet /\ [Next]_vars => NoHupYet'
<1> SUFFICES ASSUME IInv, NoHupYet, [Next]_vars, hups' = 0 PROVE NoHupYet'
  BY DEF NoHupYet
<1> USE DEF IInv
<1> DEFINE Fds == {ws[i].fd : i \in 1..Len(ws)} \ {NoConn}
<1>1. hups = 0
  <2>1. hups \in Nat
    BY DEF TypeOK
  <2>2. hups' = hups \/ hups' = hups + 1
    <3>1. CASE ControlOnly
      BY <3>1, ControlKeeps DEF bounds
    <3>2. CASE Environment \/ Over \/ UNCHANGED vars
      BY <3>2 DEF Environment, Connect, Finish, Babble, WorkerExit, WorkerCrash, SendTerm, SendHup,
                  Age, Over, vars, bounds
    <3>3. CASE StartWorker \/ Poll \/ PollInterrupted \/ HandleChldWorker \/ HandleChldSlough
      BY <3>3 DEF StartWorker, Poll, PollInterrupted, HandleChldWorker, HandleChldSlough, bounds
    <3>4. CASE Shrink \/ Release \/ Grow \/ Out \/ Restart \/ Exit
      BY <3>4 DEF Shrink, Release, Grow, Out, Restart, Exit, bounds
    <3>5. CASE Accept \/ AcceptFails
      BY <3>5 DEF Accept, AcceptFails, TakeConn, bounds
    <3>6. CASE GivesUp
      BY <3>6, GivenUp DEF bounds
    <3> QED
      BY <3>1, <3>2, <3>3, <3>4, <3>5, <3>6, Steps
  <2> QED
    BY <2>1, <2>2
<1>2. "HUP" \notin pending /\ "HUP" \notin flags /\ (InLoop \/ pc = "start" => held = Fds)
  BY <1>1 DEF NoHupYet
<1>3. ASSUME "HUP" \notin pending', "HUP" \notin flags', ~(InLoop' \/ pc' = "start")
      PROVE  NoHupYet'
  BY <1>3 DEF NoHupYet
<1>4. ASSUME "HUP" \notin pending', "HUP" \notin flags',
             InLoop' \/ pc' = "start" => InLoop \/ pc = "start",
             held' = held, Len(ws') = Len(ws), \A j \in 1..Len(ws) : ws'[j].fd = ws[j].fd
      PROVE  NoHupYet'
  <2>1. {ws'[i].fd : i \in 1..Len(ws')} = {ws[i].fd : i \in 1..Len(ws)}
    BY <1>4
  <2> QED
    BY <1>2, <1>4, <2>1 DEF NoHupYet
<1>5. CASE ControlOnly
  <2>1. /\ ws' = ws /\ pending' = pending /\ flags' = flags /\ held' = held
        /\ InLoop' => InLoop \/ Started
        /\ pc' = "start" => pc = "start"
    BY <1>5, ControlKeeps DEF osVars
  <2> QED
    BY <1>2, <1>4, <2>1 DEF Started
<1>6. CASE StartWorker
  <2>1. pending' = pending /\ flags' = flags /\ held' = held /\ pc = "start"
    BY <1>6 DEF StartWorker, osVars
  <2> QED
    BY <1>2, <1>4, <1>6, <2>1, StartedOne
<1>7. CASE Poll \/ PollInterrupted
  <2>1. /\ pending' = {} /\ flags' = flags \cup pending /\ held' = held /\ pc = "poll" /\ ws' = ws
    BY <1>7 DEF Poll, PollInterrupted, Deliver
  <2> QED
    BY <1>2, <1>4, <2>1 DEF InLoop
<1>8. CASE HandleChldWorker \/ Out \/ Exit
  <2>1. pending' \subseteq pending /\ flags' = flags /\ pc' \in {"out", "wait", "exited"}
    <3>1. \A S : AfterWait(S) \subseteq pending
      BY DEF AfterWait
    <3> QED
      BY <1>8, <3>1 DEF HandleChldWorker, GotoOut, Out, Exit, Waited, Reap
  <2> QED
    BY <1>2, <1>3, <2>1 DEF InLoop
<1>9. CASE AcceptFails
  <2>1. pending' = pending /\ flags' = flags /\ pc' \in {"out", "killed"}
    BY <1>9 DEF AcceptFails, TakeConn, GotoOut, Killed
  <2> QED
    BY <1>2, <1>3, <2>1 DEF InLoop
<1>10. CASE HandleChldSlough
  <2>1. pending' \subseteq pending /\ flags' \subseteq flags /\ pc = "signals"
        /\ ws' = ws /\ held' = held
    <3>1. \A S : AfterWait(S) \subseteq pending
      BY DEF AfterWait
    <3> QED
      BY <1>10, <3>1 DEF HandleChldSlough, Reap, ChldServed
  <2> QED
    BY <1>2, <1>4, <2>1 DEF InLoop
<1>11. CASE Restart
  BY <1>2, <1>11, Restarted
<1>12. CASE Shrink
  <2> DEFINE n == Len(ws)
  <2>1. /\ InLoop /\ pending' = pending /\ flags' = flags /\ held' = held
        /\ n \in Nat /\ 1 < n /\ Len(ws') = n - 1 /\ ws[n].fd = NoConn
        /\ \A i \in 1..(n - 1) : i \in 1..n /\ ws'[i] = ws[i]
    BY <1>12, Shrunk DEF Shrink, InLoop, osVars
  <2>2. \A i \in 1..n : i = n \/ i \in 1..(n - 1)
    BY <2>1
  <2> HIDE DEF n
  <2>3. Fds = {ws'[i].fd : i \in 1..(n - 1)} \ {NoConn}
    BY <2>1, <2>2 DEF n
  <2> QED
    BY <1>2, <2>1, <2>3 DEF NoHupYet
<1>13. CASE Grow
  <2> DEFINE n == Len(ws)
  <2>1. /\ InLoop /\ pending' = pending /\ flags' = flags /\ held' = held
        /\ n \in Nat /\ Len(ws') = n + 1 /\ ws'[n + 1].fd = NoConn
        /\ \A i \in 1..n : ws'[i] = ws[i]
    BY <1>13, Grown DEF Grow, InLoop, osVars
  <2>2. (n + 1 \in 1..(n + 1)) /\ \A i \in 1..(n + 1) : i = n + 1 \/ i \in 1..n
    BY <2>1
  <2>3. \A i \in 1..n : i \in 1..(n + 1)
    BY <2>1
  <2> HIDE DEF n
  <2>4. Fds = {ws'[i].fd : i \in 1..(n + 1)} \ {NoConn}
    BY <2>1, <2>2, <2>3 DEF n
  <2> QED
    BY <1>2, <2>1, <2>4 DEF NoHupYet
<1>14. CASE Accept
  <2>1. PICK i \in 1..Len(ws) : TakeConn(i) /\ held' = held \cup {accepted + 1}
    BY <1>14, Arrays DEF Accept
  <2>2. /\ InLoop /\ pending' = pending /\ flags' = flags
        /\ Len(ws') = Len(ws) /\ ws[i].fd = NoConn /\ ws'[i].fd = accepted + 1
        /\ accepted + 1 \in Conn
        /\ \A j \in 1..Len(ws) : j # i => ws'[j].fd = ws[j].fd
    BY <2>1, Taken DEF TakeConn, InLoop
  <2>4. accepted + 1 # NoConn
    BY <2>2, BoundAssumption DEF Conn, NoConn
  <2>3. {ws'[j].fd : j \in 1..Len(ws)} \ {NoConn} = Fds \cup {accepted + 1}
    BY <2>2, <2>4
  <2> QED
    BY <1>2, <2>1, <2>2, <2>3 DEF NoHupYet
<1>15. CASE Release
  <2>1. pending' = pending /\ flags' = flags /\ pc = "release"
    BY <1>15 DEF Release, Releasing
  <2>2. CASE pc' = "out"
    BY <1>2, <1>3, <2>1, <2>2 DEF InLoop
  <2>3. CASE pc' # "out"
    <3>1. PICK i \in 1..Len(ws) :
              /\ ws[i].fd \in Conn /\ ws'[i].fd = NoConn /\ Len(ws') = Len(ws)
              /\ \A j \in 1..Len(ws) : j # i => ws'[j] = ws[j]
              /\ held' = held \ {ws[i].fd}
      BY <1>15, <2>3, Freed
    <3>2. ws[i].fd # NoConn /\ \A j \in 1..Len(ws) : j # i => ws[j].fd # ws[i].fd
      BY <2>1, <3>1 DEF Records, InLoop, Conn, NoConn
    <3>3. {ws'[j].fd : j \in 1..Len(ws)} \ {NoConn} = Fds \ {ws[i].fd}
      BY <3>1, <3>2
    <3> QED
      BY <1>2, <2>1, <3>1, <3>3 DEF NoHupYet, InLoop
  <2> QED
    BY <2>2, <2>3
<1>16. CASE Environment \/ Over \/ UNCHANGED vars
  <2>1. "HUP" \notin pending'
    <3>1. CASE SendHup
      BY <1>1, <3>1 DEF SendHup
    <3>2. CASE ~SendHup
      BY <1>2, <1>16, <3>2
         DEF Environment, Connect, Finish, Babble, WorkerExit, WorkerCrash, SendTerm, Age,
             Over, vars, osVars
    <3> QED
      BY <3>1, <3>2
  <2> QED
    BY <1>2, <1>4, <1>16, <2>1, EnvironmentKeeps DEF ctlVars, InLoop
<1>17. CASE GivesUp
  BY <1>2, <1>3, <1>17, GivenUp DEF InLoop
<1> QED
  BY <1>5, <1>6, <1>7, <1>8, <1>9, <1>10, <1>11, <1>12, <1>13, <1>14, <1>15, <1>16, <1>17, Steps

LEMMA SeasonedKept == IInv /\ Seasoned /\ [Next]_vars => Seasoned'
<1> SUFFICES ASSUME IInv, Seasoned, [Next]_vars PROVE Seasoned'
  OBVIOUS
<1> USE DEF IInv
<1>1. ASSUME InLoop' => InLoop, pc' = "start" => pc = "start", minwsz' = minwsz,
             pc = "accept" => pc' = "accept",
             Len(ws') = Len(ws),
             \A j \in 1..Len(ws) : /\ ws'[j].fd = ws[j].fd
                                   /\ ws[j].last # "never" => ws'[j].last # "never"
      PROVE  Seasoned'
  <2> SUFFICES ASSUME InLoop', NEW i \in 1..Len(ws)
               PROVE  \/ i <= minwsz
                      \/ ws'[i].fd # NoConn
                      \/ ws'[i].last # "never"
                      \/ pc' = "accept" /\ \A j \in 1..(i - 1) : ws'[j].fd # NoConn
    BY <1>1 DEF Seasoned
  <2>1. \A j \in 1..(i - 1) : j \in 1..Len(ws)
    BY Arrays
  <2> QED
    BY <1>1, <2>1 DEF Seasoned
<1>2. CASE ~InLoop' /\ pc' # "start"
  BY <1>2 DEF Seasoned
<1>3. CASE ControlOnly
  <2>1. CASE Started
    BY <2>1, Arrays DEF Started, poolVars, PollAgain, Seasoned, InLoop
  <2>2. CASE ~Started
    <3>1. /\ ws' = ws /\ minwsz' = minwsz
          /\ InLoop' => InLoop
          /\ pc' = "start" => pc = "start"
      BY <1>3, <2>2, ControlKeeps
    <3>2. pc # "accept" \/ ~InLoop'
      BY <1>3
         DEF ControlOnly, StartFails, HandleStop, HandleChldNoSlough, HandleHup, NoSignal, ShrinkNot,
             SloughFull, ReleaseHup, ReleaseSkip, ReleaseEof, Released, NothingToAccept,
             RateLimit, GrowFails, GrowNot, AcceptError, GotoOut, Started, Releasing, InLoop
    <3> QED
      BY <1>1, <1>2, <3>1, <3>2, ControlKeeps
  <2> QED
    BY <2>1, <2>2
<1>4. CASE StartWorker
  BY <1>4, StartedOne DEF StartWorker, Seasoned, InLoop
<1>5. CASE Poll \/ PollInterrupted \/ HandleChldSlough
  <2>1. ws' = ws /\ minwsz' = minwsz /\ InLoop /\ pc # "accept" /\ pc' # "start"
    BY <1>5 DEF Poll, PollInterrupted, HandleChldSlough, InLoop
  <2> QED
    BY <1>1, <2>1
<1>6. CASE HandleChldWorker \/ Out \/ Exit \/ AcceptFails
  BY <1>2, <1>6 DEF HandleChldWorker, GotoOut, Out, Exit, AcceptFails, Killed, InLoop
<1>7. CASE Restart
  BY <1>7, Restarted DEF Seasoned, InLoop
<1>8. CASE Shrink
  <2>1. /\ pc = "shrink" /\ minwsz' = minwsz /\ pc' # "start"
        /\ \A i \in 1..Len(ws') : i \in 1..Len(ws) /\ ws'[i] = ws[i]
    BY <1>8, Shrunk DEF Shrink
  <2> QED
    BY <2>1 DEF Seasoned, InLoop
<1>9. CASE Release
  <2>1. minwsz' = minwsz /\ pc = "release"
    BY <1>9 DEF Release, Releasing
  <2>2. CASE pc' = "out"
    BY <1>2, <2>2 DEF InLoop
  <2>3. CASE pc' # "out"
    <3>1. PICK i \in 1..Len(ws) :
              /\ ws'[i].last = "recent" /\ Len(ws') = Len(ws) /\ pc' = pc
              /\ \A j \in 1..Len(ws) : j # i => ws'[j] = ws[j]
      BY <1>9, <2>3, Freed
    <3> QED
      BY <2>1, <3>1 DEF Seasoned, InLoop
  <2> QED
    BY <2>2, <2>3
<1>10. CASE Grow
  <2>1. InLoop /\ minwsz' = minwsz /\ npfd = Len(pfd)
    BY <1>10 DEF Grow, AllBusy, InLoop
  <2>2. \A i \in 1..Len(ws) : ws[i].fd # NoConn
    BY <2>1, FullIsBusy
  <2>3. \A i \in 1..Len(ws') :
           \/ i \in 1..Len(ws) /\ ws'[i].fd # NoConn
           \/ \A j \in 1..(i - 1) : ws'[j].fd # NoConn
    BY <1>10, <2>2, Grown
  <2> QED
    BY <1>10, <2>1, <2>3, Grown DEF Seasoned
<1>11. CASE Accept
  <2>1. PICK i \in 1..Len(ws) : TakeConn(i) /\ pc' = "poll"
    BY <1>11, Arrays DEF Accept, PollAgain
  <2>2. /\ pc = "accept" /\ minwsz' = minwsz /\ Len(ws') = Len(ws)
        /\ ws'[i].fd \in Conn
        /\ ws[i].fd = NoConn
        /\ \A j \in 1..Len(ws) : j # i => ws'[j].fd = ws[j].fd
    BY <2>1, Taken DEF TakeConn
  <2>3. ws' = [ws EXCEPT ![i].fd = accepted + 1] /\ \A j \in 1..(i - 1) : ws[j].fd # NoConn
    BY <2>1 DEF TakeConn, IsBusy
  <2> SUFFICES ASSUME NEW j \in 1..Len(ws)
               PROVE  j <= minwsz \/ ws'[j].fd # NoConn \/ ws'[j].last # "never"
    BY <2>1, <2>2 DEF Seasoned
  <2>4. CASE j = i
    BY <2>2, <2>4, BoundAssumption DEF Conn, NoConn
  <2>5. CASE j # i
    <3>1. ws'[j] = ws[j]
      BY <2>3, <2>5, Arrays
    <3>2. CASE j < i
      BY <2>3, <3>1, <3>2, Arrays
    <3>3. CASE i < j
      <4>1. i \in 1..(j - 1)
        BY <3>3, Arrays
      <4>2. \/ j <= minwsz
            \/ ws[j].fd # NoConn
            \/ ws[j].last # "never"
            \/ \A k \in 1..(j - 1) : ws[k].fd # NoConn
        BY <2>2 DEF Seasoned, InLoop
      <4> QED
        BY <2>2, <3>1, <4>1, <4>2
    <3> QED
      BY <2>5, <3>2, <3>3, Arrays
  <2> QED
    BY <2>4, <2>5
<1>12. CASE Environment \/ Over \/ UNCHANGED vars
  <2>1. pc' = pc /\ minwsz' = minwsz
    BY <1>12, EnvironmentKeeps DEF ctlVars
  <2> QED
    BY <1>1, <1>12, <2>1, EnvironmentKeeps DEF InLoop
<1>13. CASE GivesUp
  BY <1>2, <1>13, GivenUp DEF InLoop
<1> QED
  BY <1>3, <1>4, <1>5, <1>6, <1>7, <1>8, <1>9, <1>10, <1>11, <1>12, <1>13, Steps

LEMMA ResultsKept == IInv /\ Results /\ [Next]_vars => Results'
<1> SUFFICES ASSUME IInv, Results, [Next]_vars PROVE Results'
  OBVIOUS
<1> USE DEF IInv
<1>1. rc \in Int
  BY DEF TypeOK
<1>2. ASSUME ~InLoop' \/ (InLoop' /\ pc' # "signals" /\ rc' >= 0)
      PROVE  Results'
  BY <1>2 DEF Results, InLoop
<1>3. CASE StartWorker \/ HandleChldWorker \/ Out \/ Restart \/ Exit \/ AcceptFails
  BY <1>2, <1>3
     DEF StartWorker, HandleChldWorker, GotoOut, Out, Restart, Exit, AcceptFails, Killed, InLoop
<1>4. CASE StartFails \/ HandleStop \/ HandleChldNoSlough \/ HandleHup \/ SloughFull
  BY <1>2, <1>4
     DEF StartFails, HandleStop, HandleChldNoSlough, HandleHup, SloughFull, GotoOut, InLoop
<1>5. CASE ReleaseHup \/ ReleaseEof \/ GrowFails \/ AcceptError
  BY <1>2, <1>5 DEF ReleaseHup, ReleaseEof, GrowFails, AcceptError, GotoOut, InLoop
<1>6. CASE Started \/ NothingToAccept \/ RateLimit \/ Accept
  BY <1>2, <1>6 DEF Started, NothingToAccept, RateLimit, Accept, PollAgain, InLoop
<1>7. CASE NoSignal
  BY <1>1, <1>2, <1>7 DEF NoSignal, Results, InLoop
<1>8. CASE ShrinkNot \/ Shrink
  BY <1>1, <1>2, <1>8 DEF ShrinkNot, Shrink, ToRelease, PollAgain, Results, InLoop
<1>9. CASE ReleaseSkip \/ Released \/ GrowNot \/ Grow
  BY <1>1, <1>2, <1>9
     DEF ReleaseSkip, Releasing, Released, GrowNot, Grow, Results, InLoop
<1>10. CASE HandleChldSlough
  <2>1. rc' = PidRc \/ rc' = 0
    BY <1>10 DEF HandleChldSlough
  <2>2. rc' >= 0
    BY <2>1, PoolAssumption DEF PidRc
  <2> QED
    BY <1>2, <1>10, <2>2 DEF HandleChldSlough, InLoop
<1>11. CASE Release
  <2>1. pc' = "out" \/ (pc' = "release" /\ rc > 0 /\ rc' = rc - 1)
    BY <1>11, Freed DEF Release, Releasing
  <2> QED
    BY <1>1, <1>2, <2>1 DEF InLoop
<1>12. CASE Poll \/ PollInterrupted
  <2>1. NumReady \in Int /\ NumReady >= 0
    <3>1. IsFiniteSet(1..npfd)
      BY FS_Interval DEF TypeOK
    <3>2. Cardinality({k \in 1..npfd : Readiness(pfd[k].pid) # "none"}) \in Nat
      BY <3>1, FS_Subset, FS_CardinalityType
    <3> QED
      BY <3>2 DEF NumReady
  <2>2. pc' = "signals" /\ (rc' = NumReady \/ flags' # {})
    BY <1>12 DEF Poll, PollInterrupted, Deliver
  <2> QED
    BY <2>1, <2>2 DEF Results
<1>13. CASE Environment \/ Over \/ UNCHANGED vars
  BY <1>13, EnvironmentKeeps DEF ctlVars, Results, InLoop
<1>14. CASE GivesUp
  BY <1>2, <1>14, GivenUp DEF InLoop
<1> QED
  BY <1>3, <1>4, <1>5, <1>6, <1>7, <1>8, <1>9, <1>10, <1>11, <1>12, <1>13, <1>14, Steps
     DEF ControlOnly

-----------------------------------------------------------------------------
(* Without crashes *)

\* The number of crashes only grows.
LEMMA NoCrash ==
  ASSUME IInv, [Next]_vars, crashes' = 0
  PROVE  crashes = 0 /\ \A p \in Pid : ~Babble(p) /\ ~WorkerCrash(p)
<1> USE DEF IInv
<1>1. crashes \in Nat
  BY DEF TypeOK
<1>2. \A p \in Pid : ~Babble(p) /\ ~WorkerCrash(p)
  BY <1>1 DEF Babble, WorkerCrash
<1>3. crashes' = crashes
  <2>1. CASE ControlOnly
    BY <2>1, ControlKeeps DEF bounds
  <2>2. CASE Environment \/ Over \/ UNCHANGED vars
    BY <1>2, <2>2 DEF Environment, Connect, Finish, WorkerExit, SendTerm, SendHup, Age, Over,
                      vars, bounds
  <2>3. CASE StartWorker \/ Poll \/ PollInterrupted \/ HandleChldWorker \/ HandleChldSlough
    BY <2>3 DEF StartWorker, Poll, PollInterrupted, HandleChldWorker, HandleChldSlough, bounds
  <2>4. CASE Shrink \/ Release \/ Grow \/ Out \/ Restart \/ Exit
    BY <2>4 DEF Shrink, Release, Grow, Out, Restart, Exit, bounds
  <2>5. CASE Accept \/ AcceptFails
    BY <2>5 DEF Accept, AcceptFails, TakeConn, bounds
  <2>6. CASE GivesUp
    BY <2>6, GivenUp DEF bounds
  <2> QED
    BY <2>1, <2>2, <2>3, <2>4, <2>5, <2>6, Steps
<1> QED
  BY <1>2, <1>3

\* Then every worker in the loop's array is a process that runs.
LEMMA Running ==
  ASSUME IInv, PoolRuns, InLoop
  PROVE  \A i \in 1..Len(ws) : /\ ws[i].pid \in Pid /\ proc[ws[i].pid] = "run"
                               /\ ~Disconnected(ws[i].pid) /\ ~HasDied(i)
  BY Arrays DEF IInv, PoolRuns, Records, Worker, Disconnected, HasDied

\* What does not touch the processes and the slots.
LEMMA OrderlyControl == IInv /\ Orderly /\ ControlOnly => Orderly'
<1> SUFFICES ASSUME IInv, Orderly, ControlOnly, crashes = 0
             PROVE  (PoolRuns /\ NoHangup /\ Honest /\ Deaths)'
  BY ControlKeeps DEF Orderly, bounds
<1>1. PoolRuns /\ NoHangup /\ Honest /\ Deaths
  BY DEF Orderly
<1>2. /\ UNCHANGED <<ws, pfd, flags, pending, proc, outb>> /\ ~Ended
      /\ InLoop' => InLoop \/ Started
      /\ pc' = "start" => pc = "start"
  BY ControlKeeps DEF osVars, procVars
<1>3. InLoop' => "CHLD" \notin flags
  <2>1. CASE NoSignal
    BY <2>1 DEF NoSignal
  <2>2. CASE Started
    BY <1>1, <2>2 DEF Started, Deaths
  <2>3. CASE ~NoSignal /\ ~Started /\ InLoop'
    <3>1. pc # "signals"
      BY <2>3
         DEF ControlOnly, StartFails, HandleStop, HandleChldNoSlough, HandleHup, ShrinkNot,
             SloughFull, ReleaseHup, ReleaseSkip, ReleaseEof, Released, NothingToAccept,
             RateLimit, GrowFails, GrowNot, AcceptError, Releasing, GotoOut, InLoop
    <3> QED
      BY <1>1, <1>2, <2>3, <3>1 DEF Deaths
  <2> QED
    BY <2>1, <2>2, <2>3
<1>4. PoolRuns'
  BY <1>1, <1>2 DEF PoolRuns, Started
<1>5. NoHangup' /\ Honest'
  BY <1>1, <1>2 DEF NoHangup, Honest
<1>6. Deaths'
  BY <1>1, <1>2, <1>3 DEF Deaths, SomeDead, InLoop
<1> QED
  BY <1>4, <1>5, <1>6

LEMMA OrderlyPoll == IInv /\ Orderly /\ (Poll \/ PollInterrupted) => Orderly'
<1> SUFFICES ASSUME IInv, Orderly, Poll \/ PollInterrupted, crashes = 0
             PROVE  (PoolRuns /\ NoHangup /\ Honest /\ Deaths)'
  BY DEF Orderly, Poll, PollInterrupted, bounds
<1> USE DEF IInv
<1>1. PoolRuns /\ NoHangup /\ Honest /\ Deaths
  BY DEF Orderly
<1>2. /\ pc = "poll" /\ pc' = "signals" /\ flags' = flags \cup pending /\ pending' = {}
      /\ UNCHANGED <<ws, npfd, proc, outb>>
      /\ pfd' = pfd \/ pfd' = Polled
  BY DEF Poll, PollInterrupted, Deliver, procVars
<1>3. PoolRuns' /\ Honest'
  BY <1>1, <1>2 DEF PoolRuns, Honest, InLoop
<1>4. NoHangup'
  <2>1. CASE pfd' = pfd
    BY <1>1, <2>1 DEF NoHangup
  <2>2. CASE pfd' = Polled
    <3> DEFINE Re(k) == IF k <= npfd THEN Readiness(pfd[k].pid) ELSE pfd[k].re
    <3>1. \A k \in 1..Len(pfd) : k <= npfd => Readiness(pfd[k].pid) \in {"none", "in"}
      <4> SUFFICES ASSUME NEW k \in 1..npfd
                   PROVE  Readiness(pfd[k].pid) \in {"none", "in"}
        BY Arrays DEF Sizes, TypeOK
      <4>1. PICK i \in 1..Len(ws) : ws[i].pid = pfd[k].pid
        BY <1>2 DEF Slots, InLoop
      <4>2. ~Disconnected(pfd[k].pid)
        BY <1>1, <1>2, <4>1, Running DEF InLoop
      <4> QED
        BY <4>2 DEF Readiness
    <3>2. pfd' = [k \in 1..Len(pfd) |->
                    IF k <= npfd THEN [pfd[k] EXCEPT !.re = Readiness(pfd[k].pid)]
                                 ELSE pfd[k]]
      BY <2>2, Arrays DEF Polled
    <3>3. pfd' \in [1..Len(pfd) -> PollFd]
      BY <3>1, <3>2, Arrays DEF PollFd
    <3>4. Len(pfd') = Len(pfd)
      BY <3>3, FunctionIsSeq, Arrays
    <3> SUFFICES ASSUME NEW k \in 1..Len(pfd) PROVE pfd'[k].re # "hup"
      BY <3>4 DEF NoHangup
    <3>5. CASE k <= npfd
      <4>1. pfd'[k] = [pfd[k] EXCEPT !.re = Readiness(pfd[k].pid)] /\ pfd[k] \in PollFd
        BY <3>2, <3>5, Arrays
      <4>2. Readiness(pfd[k].pid) # "hup"
        BY <3>1, <3>5
      <4> HIDE DEF Readiness
      <4> QED
        BY <4>1, <4>2 DEF PollFd
    <3>6. CASE ~(k <= npfd)
      BY <1>1, <3>2, <3>6 DEF NoHangup
    <3> QED
      BY <3>5, <3>6
  <2> QED
    BY <1>2, <2>1, <2>2
<1>5. Deaths'
  BY <1>1, <1>2 DEF Deaths, SomeDead, InLoop, Ended
<1> QED
  BY <1>3, <1>4, <1>5

\* waitpid(2) for the processes in S, the only ones that are dead, takes back
\* the SIGCHLD that says so.
LEMMA SignalTakenBack ==
  ASSUME WaitClearsPending, NEW S, S \subseteq Pid, Reap(S),
         \A p \in Pid : proc[p] = "dead" => p \in S,
         "CHLD" \in pending => SomeDead
  PROVE  "CHLD" \notin pending'
<1>1. Dead(Pid) \subseteq S
  BY DEF Dead
<1>2. "CHLD" \in pending => S # {}
  BY DEF SomeDead
<1> QED
  BY <1>1, <1>2 DEF Reap, AfterWait

LEMMA OrderlyChld ==
  ASSUME WaitClearsPending, IInv, Orderly, HandleChldWorker \/ HandleChldSlough
  PROVE  Orderly'
<1> SUFFICES ASSUME crashes = 0
             PROVE  (PoolRuns /\ NoHangup /\ Honest /\ Deaths)'
  BY DEF Orderly, HandleChldWorker, HandleChldSlough, bounds
<1> USE DEF IInv
<1>1. PoolRuns /\ NoHangup /\ Honest /\ Deaths
  BY DEF Orderly
<1>2. InLoop
  BY DEF HandleChldWorker, HandleChldSlough, InLoop
<1>3. \A i \in 1..Len(ws) : ws[i].pid \in Pid /\ proc[ws[i].pid] = "run" /\ ~HasDied(i)
  BY <1>1, <1>2, Running
<1>4. HandleChldSlough
  BY <1>3, Arrays DEF HandleChldWorker
<1>5. /\ pc' = "shrink" /\ flags' = flags \ {"CHLD"} /\ Reap(Dead(slough))
      /\ UNCHANGED <<ws, pfd>>
  BY <1>4 DEF HandleChldSlough, ChldServed
<1>6. Dead(slough) \in SUBSET Pid
  BY DEF Dead, TypeOK
<1>7. /\ \A p \in Dead(slough) : proc'[p] = "none" /\ outb'[p] = NoConn
      /\ \A p \in Pid \ Dead(slough) : proc'[p] = proc[p] /\ outb'[p] = outb[p]
  BY <1>5, <1>6, Reaped
<1>8. \A p \in Pid : proc[p] = "dead" => p \in Dead(slough)
  BY <1>2, <1>3 DEF Family, Ended, InLoop, Dead
<1>9. "CHLD" \notin pending'
  BY <1>1, <1>2, <1>5, <1>6, <1>8, SignalTakenBack DEF Deaths, Ended, InLoop
<1>10. PoolRuns'
  BY <1>3, <1>5, <1>7 DEF PoolRuns, Dead
<1>11. NoHangup'
  BY <1>1, <1>5 DEF NoHangup
<1>12. Honest'
  BY <1>1, <1>7, BoundAssumption DEF Honest, NoConn, BadCookie
<1>13. Deaths'
  BY <1>5, <1>9 DEF Deaths
<1> QED
  BY <1>10, <1>11, <1>12, <1>13

LEMMA OrderlyFork == IInv /\ Orderly /\ (StartWorker \/ Grow) => Orderly'
<1> SUFFICES ASSUME IInv, Orderly, StartWorker \/ Grow, crashes = 0
             PROVE  (PoolRuns /\ NoHangup /\ Honest /\ Deaths)'
  BY DEF Orderly, StartWorker, Grow, bounds
<1> USE DEF IInv
<1>1. PoolRuns /\ NoHangup /\ Honest /\ Deaths
  BY DEF Orderly
<1>2. /\ flags' = flags /\ pending' = pending /\ outb' = outb /\ pc # "signals"
      /\ InLoop \/ pc = "start"
      /\ ~Ended
  BY DEF StartWorker, Grow, osVars, InLoop, Ended
<1>3. PICK p \in Pid : /\ proc[p] = "none" /\ proc' = [proc EXCEPT ![p] = "run"]
                       /\ \A j \in 1..Len(ws') :
                            ws'[j].pid = p \/ (j \in 1..Len(ws) /\ ws'[j].pid = ws[j].pid)
  <2>1. CASE StartWorker
    BY <2>1, StartedOne
  <2>2. CASE Grow
    BY <2>2, Grown
  <2> QED
    BY <2>1, <2>2
<1>4. \A q \in Pid : proc[q] # "none" => proc'[q] = proc[q]
  BY <1>3 DEF TypeOK
<1>5. PoolRuns'
  <2> SUFFICES ASSUME NEW j \in 1..Len(ws'), ws'[j].pid # NoPid
               PROVE  proc'[ws'[j].pid] = "run"
    BY DEF PoolRuns
  <2>1. CASE ws'[j].pid = p
    BY <1>3, <2>1 DEF TypeOK
  <2>2. CASE ws'[j].pid # p
    <3>1. j \in 1..Len(ws) /\ ws'[j].pid = ws[j].pid
      BY <1>3, <2>2
    <3>2. ws[j].pid \in Pid
      BY <3>1, Arrays DEF Worker
    <3>3. proc[ws[j].pid] = "run"
      BY <1>1, <1>2, <3>1 DEF PoolRuns
    <3> QED
      BY <1>4, <3>1, <3>2, <3>3
  <2> QED
    BY <2>1, <2>2
<1>6. NoHangup'
  <2>1. CASE StartWorker
    BY <1>1, <2>1 DEF StartWorker, NoHangup
  <2>2. CASE Grow
    <3>1. \A k \in 1..Len(pfd') : k = Len(ws) + 1 \/ k \in 1..Len(ws)
      BY <2>2, Grown
    <3>2. Len(pfd) = Len(ws)
      BY <2>2, Grown DEF Sizes, InLoop
    <3> QED
      BY <1>1, <2>2, <3>1, <3>2, Grown DEF NoHangup, NewPollFd
  <2> QED
    BY <2>1, <2>2
<1>7. Honest'
  BY <1>1, <1>2 DEF Honest
<1>8. Deaths'
  <2>1. SomeDead => SomeDead'
    BY <1>4 DEF SomeDead
  <2>2. InLoop /\ "CHLD" \in flags => FALSE
    BY <1>1, <1>2 DEF Deaths
  <2>3. "CHLD" \notin flags
    BY <1>1, <1>2, <2>2 DEF Deaths
  <2> QED
    BY <1>1, <1>2, <2>1, <2>3 DEF Deaths
<1> QED
  BY <1>5, <1>6, <1>7, <1>8

LEMMA OrderlyShrink == IInv /\ Orderly /\ Shrink => Orderly'
<1> SUFFICES ASSUME IInv, Orderly, Shrink, crashes = 0
             PROVE  (PoolRuns /\ NoHangup /\ Honest /\ Deaths)'
  BY DEF Orderly, Shrink, bounds
<1> USE DEF IInv
<1>1. PoolRuns /\ NoHangup /\ Honest /\ Deaths
  BY DEF Orderly
<1> DEFINE p == ws[Len(ws)].pid
<1>2. /\ flags' = flags /\ pending' = pending /\ outb' = outb /\ pc = "shrink"
      /\ pc' \in {"poll", "release"}
      /\ p \in Pid /\ proc' = [proc EXCEPT ![p] = IF @ = "run" THEN "told" ELSE @]
  BY Shrunk DEF Shrink, osVars
<1>3. /\ \A q \in Pid : q # p => proc'[q] = proc[q]
      /\ proc[p] # "run" => proc'[p] = proc[p]
  BY <1>2 DEF TypeOK
<1>4. /\ \A i \in 1..Len(ws') : /\ i \in 1..Len(ws) /\ ws'[i] = ws[i] /\ pfd'[i] = pfd[i]
                                /\ ws[i].pid # p
      /\ Len(pfd') = Len(ws') /\ Len(pfd) = Len(ws)
  BY Shrunk
<1>5. PoolRuns'
  BY <1>1, <1>2, <1>3, <1>4, Running DEF PoolRuns, InLoop
<1>6. NoHangup'
  BY <1>1, <1>4 DEF NoHangup
<1>7. Honest'
  BY <1>1, <1>2 DEF Honest
<1>8. Deaths'
  <2>1. SomeDead => SomeDead'
    BY <1>3 DEF SomeDead
  <2> QED
    BY <1>1, <1>2, <2>1 DEF Deaths, Ended, InLoop
<1> QED
  BY <1>5, <1>6, <1>7, <1>8

LEMMA OrderlyRelease == IInv /\ Orderly /\ Release => Orderly'
<1> SUFFICES ASSUME IInv, Orderly, Release, crashes = 0
             PROVE  (PoolRuns /\ NoHangup /\ Honest /\ Deaths)'
  BY DEF Orderly, Release, bounds
<1> USE DEF IInv
<1>1. PoolRuns /\ NoHangup /\ Honest /\ Deaths
  BY DEF Orderly
<1>2. /\ pc = "release" /\ pc' \in {"release", "out"}
      /\ flags' = flags /\ pending' = pending /\ proc' = proc
      /\ outb' = [outb EXCEPT ![pfd[idx].pid] = NoConn]
  BY DEF Release, Releasing, GotoOut
<1>3. Honest'
  BY <1>1, <1>2, BoundAssumption DEF Honest, NoConn, BadCookie, TypeOK
<1>4. Deaths'
  BY <1>1, <1>2 DEF Deaths, SomeDead, InLoop, Ended
<1>5. CASE UNCHANGED <<ws, pfd>>
  BY <1>1, <1>2, <1>3, <1>4, <1>5 DEF PoolRuns, NoHangup, InLoop
<1>6. CASE ~UNCHANGED <<ws, pfd>>
  <2>1. PICK i \in 1..Len(ws) :
              /\ Len(ws') = Len(ws) /\ ws'[i].pid = ws[i].pid
              /\ \A j \in 1..Len(ws) : j # i => ws'[j] = ws[j]
              /\ Len(pfd') = Len(pfd)
              /\ \A k \in 1..Len(pfd) : pfd'[k].re \in {pfd[k].re, pfd[npfd].re}
              /\ npfd \in 1..Len(pfd)
    BY <1>6, Freed
  <2>2. \A j \in 1..Len(ws) : ws'[j].pid = ws[j].pid
    BY <2>1
  <2>3. PoolRuns'
    BY <1>1, <1>2, <2>1, <2>2 DEF PoolRuns, InLoop
  <2>4. NoHangup'
    BY <1>1, <2>1 DEF NoHangup
  <2> QED
    BY <1>3, <1>4, <2>3, <2>4
<1> QED
  BY <1>5, <1>6

LEMMA OrderlyAccept == IInv /\ Orderly /\ (Accept \/ AcceptFails) => Orderly'
<1> SUFFICES ASSUME IInv, Orderly, Accept \/ AcceptFails, crashes = 0
             PROVE  (PoolRuns /\ NoHangup /\ Honest /\ Deaths)'
  BY DEF Orderly, Accept, AcceptFails, TakeConn, bounds
<1> USE DEF IInv
<1>1. PoolRuns /\ NoHangup /\ Honest /\ Deaths
  BY DEF Orderly
<1>2. PICK i \in 1..Len(ws) : TakeConn(i)
  BY Arrays DEF Accept, AcceptFails
<1>3. /\ pc = "accept" /\ flags' = flags /\ pending' = pending /\ outb' = outb
      /\ pfd' = [pfd EXCEPT ![npfd + 1].pid = ws[i].pid]
  BY <1>2 DEF TakeConn
<1>4. \A j \in 1..Len(ws) : ~Disconnected(ws[j].pid)
  BY <1>1, <1>3, Running DEF InLoop
<1>5. pc' = "poll" /\ proc' = proc
  BY <1>4, Arrays DEF Accept, AcceptFails, PollAgain
<1>6. PoolRuns'
  BY <1>1, <1>2, <1>3, <1>5, Taken DEF PoolRuns, InLoop
<1>7. NoHangup'
  <2>1. Len(pfd') = Len(pfd)
    BY <1>2, Taken
  <2>2. \A k \in 1..Len(pfd) : pfd'[k].re = pfd[k].re
    BY <1>3, Arrays DEF PollFd
  <2> QED
    BY <1>1, <2>1, <2>2 DEF NoHangup
<1>8. Honest' /\ Deaths'
  BY <1>1, <1>3, <1>5 DEF Honest, Deaths, SomeDead, InLoop, Ended
<1> QED
  BY <1>6, <1>7, <1>8

LEMMA OrderlyEnd ==
  ASSUME WaitClearsPending, IInv, Orderly, Out \/ Restart \/ Exit
  PROVE  Orderly'
<1> SUFFICES ASSUME crashes = 0
             PROVE  (PoolRuns /\ NoHangup /\ Honest /\ Deaths)'
  BY DEF Orderly, Out, Restart, Exit, bounds
<1> USE DEF IInv
<1>1. PoolRuns /\ NoHangup /\ Honest /\ Deaths
  BY DEF Orderly
<1>2. CASE Out
  <2>1. /\ pc = "out" /\ pc' = "wait"
        /\ pending' = pending /\ outb' = outb /\ pfd' = pfd /\ proc' = TellPool
    BY <1>2 DEF Out, poolVars
  <2>2. SomeDead => SomeDead'
    BY <2>1 DEF SomeDead, TellPool
  <2> QED
    BY <1>1, <2>1, <2>2 DEF PoolRuns, NoHangup, Honest, Deaths, InLoop, Ended
<1>3. CASE Restart \/ Exit
  <2>1. pc = "wait" /\ Waited
    BY <1>3 DEF Restart, Exit, Waited
  <2>2. \A p \in Pid : outb'[p] = NoConn
    BY <2>1, NothingLeft
  <2>3. Honest'
    BY <2>2, BoundAssumption DEF Honest, NoConn, BadCookie
  <2>4. CASE Exit
    BY <1>1, <2>3, <2>4 DEF Exit, PoolRuns, NoHangup, Deaths, InLoop, Ended
  <2>5. CASE Restart
    <3>1. PoolRuns'
      BY <2>5, Restarted DEF PoolRuns, NewWorker
    <3>2. NoHangup'
      BY <2>5, Restarted DEF NoHangup, NewPollFd
    <3>3. "CHLD" \notin pending'
      <4>1. Reap(Children) /\ \A p \in Pid : proc[p] = "dead" => p \in Children
        <5>1. \A p \in Pid : proc[p] # "none" => p \in Children
          <6> SUFFICES ASSUME NEW p \in Pid, proc[p] # "none" PROVE p \in Children
            OBVIOUS
          <6>1. p \in slough \/ \E i \in 1..Len(ws) : ws[i].pid = p
            BY <2>1 DEF Family, Ended
          <6>2. p # NoPid
            BY DEF Pid, NoPid
          <6> QED
            BY <6>1, <6>2, Arrays DEF Children, PoolPids
        <5> QED
          BY <2>1, <5>1 DEF Waited
      <4>2. Children \subseteq Pid
        <5>1. \A j \in 1..Len(ws) : ws[j].pid \in Pid \cup {NoPid}
          BY Arrays DEF Worker
        <5> QED
          BY <5>1, Arrays DEF Children, PoolPids, TypeOK
      <4> QED
        BY <1>1, <2>1, <4>1, <4>2, SignalTakenBack DEF Deaths, Ended
    <3>4. Deaths'
      BY <2>5, <3>3, Restarted DEF Deaths, InLoop
    <3> QED
      BY <2>3, <3>1, <3>2, <3>4
  <2> QED
    BY <1>3, <2>4, <2>5
<1> QED
  BY <1>2, <1>3

LEMMA OrderlyEnvironment ==
  IInv /\ Orderly /\ [Next]_vars /\ (Environment \/ Over \/ UNCHANGED vars) => Orderly'
<1> SUFFICES ASSUME IInv, Orderly, [Next]_vars, Environment \/ Over \/ UNCHANGED vars,
                    crashes' = 0
             PROVE  (PoolRuns /\ NoHangup /\ Honest /\ Deaths)'
  BY DEF Orderly
<1> USE DEF IInv
<1>1. crashes = 0 /\ \A p \in Pid : ~Babble(p) /\ ~WorkerCrash(p)
  BY NoCrash
<1>2. PoolRuns /\ NoHangup /\ Honest /\ Deaths
  BY <1>1 DEF Orderly
<1>3. /\ pfd' = pfd /\ pc' = pc /\ flags' = flags /\ Len(ws') = Len(ws)
      /\ \A j \in 1..Len(ws) : ws'[j].pid = ws[j].pid
  BY EnvironmentKeeps DEF ctlVars
<1>4. NoHangup'
  BY <1>2, <1>3 DEF NoHangup
<1>5. ASSUME UNCHANGED <<proc, outb>>, pending' \subseteq pending \cup {"TERM", "HUP"}
      PROVE  PoolRuns' /\ Honest' /\ Deaths'
  BY <1>2, <1>3, <1>5 DEF PoolRuns, Honest, Deaths, SomeDead, InLoop, Ended
<1>6. CASE Connect \/ SendTerm \/ SendHup \/ (\E i \in DOMAIN ws : Age(i)) \/ Over \/ UNCHANGED vars
  <2>1. UNCHANGED <<proc, outb>> /\ pending' \subseteq pending \cup {"TERM", "HUP"}
    BY <1>6 DEF Connect, SendTerm, SendHup, Age, Over, vars, osVars, procVars
  <2> QED
    BY <1>4, <1>5, <2>1
<1>7. ASSUME NEW p \in Pid, Finish(p)
      PROVE  PoolRuns' /\ Honest' /\ Deaths'
  <2>1. /\ proc' = proc /\ pending' = pending
        /\ outb' = [outb EXCEPT ![p] = IF proc[p] = "run" THEN job[p] ELSE @]
    BY <1>7 DEF Finish, osVars
  <2>2. job[p] # BadCookie
    BY BoundAssumption DEF TypeOK, Conn, NoConn, BadCookie
  <2>3. Honest'
    BY <1>2, <2>1, <2>2 DEF Honest, TypeOK
  <2> QED
    BY <1>2, <1>3, <2>1, <2>3 DEF PoolRuns, Deaths, SomeDead, InLoop, Ended
<1>8. ASSUME NEW p \in Pid, WorkerExit(p)
      PROVE  PoolRuns' /\ Honest' /\ Deaths'
  <2>1. /\ proc[p] \in {"told", "broken"} /\ outb' = outb
        /\ proc' = [proc EXCEPT ![p] = IF Ended THEN "none" ELSE "dead"]
    BY <1>8 DEF WorkerExit
  <2>2. \A q \in Pid : q # p => proc'[q] = proc[q]
    BY <2>1 DEF TypeOK
  <2>3. PoolRuns'
    <3> SUFFICES ASSUME InLoop \/ pc = "start", NEW i \in 1..Len(ws), ws[i].pid # NoPid
                 PROVE  proc'[ws[i].pid] = "run"
      BY <1>3 DEF PoolRuns, InLoop
    <3>1. ws[i].pid \in Pid /\ proc[ws[i].pid] = "run"
      BY <1>2, Arrays DEF PoolRuns, Worker
    <3> QED
      BY <2>1, <2>2, <3>1
  <2>4. ~Ended => SomeDead'
    BY <2>1 DEF SomeDead, TypeOK
  <2>5. Deaths'
    BY <1>2, <1>3, <2>4 DEF Deaths, InLoop, Ended
  <2> QED
    BY <1>2, <2>1, <2>3, <2>5 DEF Honest
<1> QED
  BY <1>1, <1>4, <1>6, <1>7, <1>8 DEF Environment

LEMMA OrderlyGivesUp == IInv /\ Orderly /\ GivesUp => Orderly'
<1> SUFFICES ASSUME IInv, Orderly, GivesUp, crashes = 0
             PROVE  (PoolRuns /\ NoHangup /\ Honest /\ Deaths)'
  BY GivenUp DEF Orderly, bounds
<1>1. PoolRuns /\ NoHangup /\ Honest /\ Deaths
  BY DEF Orderly
<1>2. PoolRuns' /\ NoHangup' /\ Honest'
  BY <1>1, GivenUp DEF PoolRuns, NoHangup, Honest, InLoop
<1>3. Deaths'
  BY <1>1, GivenUp DEF Deaths, SomeDead, InLoop
<1> QED
  BY <1>2, <1>3

LEMMA OrderlyKept ==
  ASSUME WaitClearsPending
  PROVE  IInv /\ Orderly /\ [Next]_vars => Orderly'
  BY OrderlyControl, OrderlyPoll, OrderlyChld, OrderlyFork, OrderlyShrink, OrderlyRelease,
     OrderlyAccept, OrderlyEnd, OrderlyGivesUp, OrderlyEnvironment, Steps

\* Whatever leads out of the loop is a reason.
LEMMA ReasonKept ==
  ASSUME WaitClearsPending
  PROVE  IInv /\ Orderly /\ OnlyWithReason /\ [Next]_vars => OnlyWithReason'
<1> SUFFICES ASSUME IInv, Orderly, OnlyWithReason, [Next]_vars PROVE OnlyWithReason'
  OBVIOUS
<1>0. crashes' \in Nat
  <2>1. IInv'
    BY NextIInv
  <2> QED
    BY <2>1 DEF IInv, TypeOK
<1> SUFFICES ASSUME pc' = "out", {"TERM", "HUP"} \cap flags' = {}, crashes' = 0,
                    ~CallsMayFail, ~(Cardinality(slough') >= SloughMax')
             PROVE  FALSE
  <2>1. ASSUME ~(crashes' > 0) PROVE crashes' = 0
    BY <1>0, <2>1
  <2> QED
    BY <2>1 DEF OnlyWithReason
<1> USE DEF IInv
<1>1. crashes = 0 /\ \A p \in Pid : ~Babble(p) /\ ~WorkerCrash(p)
  BY NoCrash
<1>2. PoolRuns /\ NoHangup /\ Honest /\ Deaths
  BY <1>1 DEF Orderly
<1>3. CASE StartFails \/ GrowFails \/ AcceptError \/ SloughFull
  <2>1. slough' = slough /\ SloughMax' = SloughMax
    BY <1>3 DEF StartFails, GrowFails, AcceptError, SloughFull, poolVars, SloughMax
  <2> QED
    BY <1>3, <2>1 DEF StartFails, GrowFails, AcceptError, SloughFull
<1>4. CASE HandleStop \/ HandleHup
  BY <1>4 DEF HandleStop, HandleHup
<1>5. CASE HandleChldNoSlough
  <2>1. InLoop /\ "CHLD" \in flags /\ slough = {}
    BY <1>5 DEF HandleChldNoSlough, InLoop
  <2>2. PICK p \in Pid : proc[p] = "dead"
    BY <1>2, <2>1 DEF Deaths, SomeDead
  <2>3. PICK i \in 1..Len(ws) : ws[i].pid = p
    BY <2>1, <2>2 DEF Family, InLoop, Ended
  <2> QED
    BY <1>2, <2>1, <2>2, <2>3, Running
<1>6. CASE HandleChldWorker
  <2>1. InLoop
    BY <1>6 DEF HandleChldWorker, InLoop
  <2> QED
    BY <1>2, <1>6, <2>1, Running, Arrays DEF HandleChldWorker
<1>7. CASE ReleaseHup
  <2>1. idx \in 1..Len(pfd)
    BY <1>7, Arrays DEF ReleaseHup, Releasing, TypeOK, Sizes
  <2> QED
    BY <1>2, <1>7, <2>1 DEF ReleaseHup, NoHangup
<1>8. CASE ReleaseEof
  <2>1. InLoop /\ idx \in 1..npfd
    BY <1>8 DEF ReleaseEof, Releasing, InLoop, TypeOK, Sizes
  <2>2. PICK i \in 1..Len(ws) : ws[i].pid = pfd[idx].pid
    BY <2>1 DEF Slots
  <2> QED
    BY <1>2, <1>8, <2>1, <2>2, Running DEF ReleaseEof
<1>9. CASE Release
  <2>1. InLoop /\ idx \in 1..npfd /\ outb[pfd[idx].pid] # NoConn
    BY <1>9 DEF Release, Releasing, InLoop, TypeOK, Sizes
  <2>2. \A i \in 1..Len(ws) : ws[i].fd # outb[pfd[idx].pid]
    BY <1>9, Freed DEF Release, Releasing
  <2>3. PICK i \in 1..Len(ws) : ws[i].pid = pfd[idx].pid
    BY <2>1 DEF Slots
  <2>4. ws[i].pid \in Pid
    BY <2>1, <2>3, Arrays DEF Records, Worker
  <2>5. outb[ws[i].pid] \in Conn
    BY <1>2, <2>1, <2>3, <2>4 DEF Honest, TypeOK
  <2>6. outb[ws[i].pid] = ws[i].fd
    BY <2>1, <2>5 DEF Records
  <2> QED
    BY <2>2, <2>3, <2>6
<1>10. CASE AcceptFails
  <2>1. InLoop
    BY <1>10 DEF AcceptFails, TakeConn, InLoop
  <2> QED
    BY <1>2, <1>10, <2>1, Running, Arrays DEF AcceptFails
<1>11. CASE Environment \/ Over \/ UNCHANGED vars
  <2>1. pc' = pc /\ flags' = flags /\ slough' = slough /\ SloughMax' = SloughMax
    BY <1>11, EnvironmentKeeps DEF ctlVars, SloughMax
  <2> QED
    BY <1>1, <2>1 DEF OnlyWithReason
<1>12. CASE NoSignal \/ ShrinkNot \/ ReleaseSkip \/ Released \/ GrowNot
  BY <1>12
     DEF NoSignal, ShrinkNot, ToRelease, PollAgain, ReleaseSkip, Releasing, Released, GrowNot
<1>13. CASE Started \/ NothingToAccept \/ RateLimit \/ Accept
  BY <1>13 DEF Started, NothingToAccept, RateLimit, Accept, PollAgain
<1>14. CASE StartWorker \/ Poll \/ PollInterrupted \/ HandleChldSlough \/ Shrink
  BY <1>14, Shrunk DEF StartWorker, Poll, PollInterrupted, HandleChldSlough
<1>15. CASE Grow \/ Out \/ Restart \/ Exit
  BY <1>15 DEF Grow, Out, Restart, Exit
<1>16. CASE GivesUp
  BY <1>16, GivenUp
<1> QED
  BY <1>3, <1>4, <1>5, <1>6, <1>7, <1>8, <1>9, <1>10, <1>11, <1>12, <1>13, <1>14, <1>15, <1>16,
     Steps
     DEF ControlOnly


-----------------------------------------------------------------------------
(* The initial states *)

LEMMA InitService ==
  Init => SloughIdle /\ NoHupYet /\ Limited /\ FreeSlots /\ Seasoned /\ Results
            /\ Orderly /\ OnlyWithReason
<1> SUFFICES ASSUME Init
             PROVE  SloughIdle /\ NoHupYet /\ Limited /\ FreeSlots /\ Seasoned /\ Results
                      /\ Orderly /\ OnlyWithReason
  OBVIOUS
<1> USE PoolAssumption
<1>1. pc = "start" /\ slough = {} /\ pending = {} /\ flags = {} /\ held = {}
      /\ minwsz = MinPool
  BY DEF Init
<1>2. accepting
  BY Zenon DEF Init
<1>3. IInv
  BY InitIInv
<1>4. Len(ws) = MinPool
  <2>1. ws \in [1..MinPool -> {NewWorker(NoPid)}]
    BY DEF Init
  <2> QED
    BY <2>1, FunctionIsSeq
<1>5. Len(pfd) = MinPool /\ \A k \in 1..Len(pfd) : pfd[k] = NewPollFd
  <2>1. pfd \in [1..MinPool -> {NewPollFd}]
    BY DEF Init
  <2>2. Len(pfd) = MinPool
    BY <2>1, FunctionIsSeq
  <2> QED
    BY <2>1, <2>2
<1>6. \A i \in 1..Len(ws) : ws[i].fd = NoConn /\ ws[i].pid = NoPid
  BY <1>4 DEF Init, NewWorker
<1>7. SloughIdle
  BY <1>1 DEF SloughIdle
<1>8. NoHupYet
  BY <1>1, <1>6 DEF NoHupYet
<1>9. Limited /\ Seasoned /\ Results
  BY <1>1, <1>2, <1>4 DEF Limited, Seasoned, Results, InLoop
<1>10. FreeSlots
  BY <1>5 DEF FreeSlots, NewPollFd
<1>11. Orderly
  <2>1. \A p \in Pid : outb[p] # BadCookie
    BY BoundAssumption DEF Init, NoConn, BadCookie
  <2>2. NoHangup
    BY <1>5 DEF NoHangup, NewPollFd
  <2> QED
    BY <1>1, <1>6, <2>1, <2>2 DEF Orderly, PoolRuns, Honest, Deaths, InLoop
<1>12. OnlyWithReason
  BY <1>1 DEF OnlyWithReason
<1> QED
  BY <1>7, <1>8, <1>9, <1>10, <1>11, <1>12

-----------------------------------------------------------------------------
(* What the manager owes its clients *)

\* A client waits in the backlog only while the pool is full and busy, and the
\* manager forgets no descriptor of a connection (kfcgi.c:591, 616-622): for
\* pools of every size, however connections, answers, growing and shrinking follow
\* each other.
THEOREM KeepsNoneWaitingHolds == Spec => []KeepsNoneWaiting
<1> DEFINE Inv == IInv /\ Limited /\ NoHupYet
<1>1. Init => Inv
  BY InitIInv, InitService
<1>2. Inv /\ [Next]_vars => Inv'
  BY NextIInv, LimitedKept, NoHupYetKept
<1>3. Inv => KeepsNoneWaiting
  <2> SUFFICES ASSUME Inv, InLoop PROVE RateLimitedOnlyWhenFull /\ HeldAreActive
    BY DEF KeepsNoneWaiting
  <2>1. DOMAIN ws = 1..Len(ws)
    BY Arrays DEF IInv
  <2>2. RateLimitedOnlyWhenFull
    BY <2>1 DEF Limited, RateLimitedOnlyWhenFull, IsBusy
  <2>3. HeldAreActive
    BY <2>1 DEF NoHupYet, HeldAreActive
  <2> QED
    BY <2>2, <2>3
<1> QED
  BY <1>1, <1>2, <1>3, PTL DEF Spec

\* Nobody works on the connection that an answer releases: not the worker that
\* answered, not another of the pool, whose connections differ, and not one that
\* was let go.
LEMMA ReleasedIsDone ==
  ASSUME IInv, SloughIdle, Release, NEW c \in held, c \notin held', NEW p \in Pid
  PROVE  job[p] # c
<1> USE DEF IInv
<1>1. InLoop /\ ~Ended
  BY DEF Release, Releasing, InLoop, Ended
<1>2. PICK i \in 1..Len(ws) : /\ ws[i].fd \in Conn /\ job[ws[i].pid] = NoConn
                              /\ held' = held \ {ws[i].fd}
  BY Freed
<1>3. c = ws[i].fd /\ c # NoConn
  BY <1>2, BoundAssumption DEF Conn, NoConn
<1>4. CASE proc[p] = "none"
  BY <1>1, <1>3, <1>4 DEF Remains
<1>5. CASE p \in slough
  BY <1>1, <1>3, <1>5 DEF SloughIdle
<1>6. ASSUME NEW j \in 1..Len(ws), ws[j].pid = p
      PROVE  job[p] # c
  BY <1>1, <1>2, <1>3, <1>6 DEF Records
<1> QED
  BY <1>1, <1>4, <1>5, <1>6 DEF Family

\* The manager closes its copy of a connection only when no worker is at work on
\* it (kfcgi.c:577-597), so that a client never sees the end of the stream
\* while its answer is being written.
THEOREM ReleasedWhenDoneHolds == Spec => ReleasedWhenDone
<1> DEFINE Inv == IInv /\ SloughIdle
           Done == \A c \in held \ held' : Ended' \/ \A p \in Pid : job[p] # c
<1>1. Init => Inv
  BY InitIInv, InitService
<1>2. Inv /\ [Next]_vars => Inv'
  BY NextIInv, SloughIdleKept
<1>3. Inv /\ [Next]_vars => [Done]_vars
  <2> SUFFICES ASSUME Inv, [Next]_vars, NEW c \in held, c \notin held', ~Ended', NEW p \in Pid
               PROVE  job[p] # c
    OBVIOUS
  <2>1. CASE Release
    BY <2>1, ReleasedIsDone
  <2>2. CASE ControlOnly
    BY <2>2, ControlKeeps DEF osVars
  <2>3. CASE Environment \/ Over \/ UNCHANGED vars
    BY <2>3, EnvironmentKeeps
  <2>4. CASE StartWorker \/ Poll \/ PollInterrupted \/ HandleChldWorker \/ HandleChldSlough
    BY <2>4
       DEF StartWorker, Poll, PollInterrupted, HandleChldWorker, HandleChldSlough, osVars
  <2>5. CASE Shrink \/ Grow \/ Out \/ Restart
    BY <2>5 DEF Shrink, Grow, Out, Restart, osVars
  <2>6. CASE Accept \/ AcceptFails \/ Exit
    BY <2>6 DEF Accept, AcceptFails, Killed, Exit, Ended
  <2>7. CASE GivesUp
    BY <2>7, GivenUp DEF Ended
  <2> QED
    BY <2>1, <2>2, <2>3, <2>4, <2>5, <2>6, <2>7, Steps
<1>4. ReleasedWhenDone <=> [][Done]_vars
  BY DEF ReleasedWhenDone
<1> QED
  BY <1>1, <1>2, <1>3, <1>4, PTL DEF Spec

-----------------------------------------------------------------------------
(* What the manager owes the operator *)

\* No assertion of varpool fails (kfcgi.c:485-494, 551, 681), as long as there is
\* a worker to begin with: the last worker of a grown pool, whose slot is not in
\* use when it is idle, has always had a connection, and there is an idle worker
\* for whoever is accepted.
THEOREM AssertsHoldHolds == ASSUME MinPool >= 1 PROVE Spec => []AssertsHold
<1> DEFINE Inv == IInv /\ Seasoned /\ FreeSlots /\ Results
<1>1. Init => Inv
  BY InitIInv, InitService
<1>2. Inv /\ [Next]_vars => Inv'
  BY NextIInv, SeasonedKept, FreeSlotsKept, ResultsKept
<1>3. Inv => AssertsHold
  <2> SUFFICES ASSUME Inv PROVE AssertsHold
    OBVIOUS
  <2>1. /\ Len(ws) \in Nat /\ DOMAIN ws = 1..Len(ws) /\ Len(pfd) \in Nat
        /\ InLoop => Len(pfd) = Len(ws)
        /\ MinPool <= minwsz /\ minwsz \in Nat /\ npfd \in Nat /\ npfd <= Len(pfd)
    BY Arrays DEF IInv, Sizes, TypeOK
  <2>2. ASSUME pc = "shrink", Len(ws) > minwsz
        PROVE  /\ IsBusy(LastWorker) \/ LastWorker.last # "never"
               /\ Len(ws) > 1
    <3>1. InLoop /\ Len(ws) \in 1..Len(ws) /\ ~(Len(ws) <= minwsz) /\ Len(ws) > 1
      BY <2>1, <2>2, PoolAssumption DEF InLoop
    <3> QED
      BY <2>2, <3>1 DEF Seasoned, IsBusy, LastWorker
  <2>3. ASSUME pc = "shrink", MayShrink
        PROVE  LastWorker.pid # NoPid /\ pfd[Len(pfd)].pid = NoPid
    <3>1. InLoop /\ Len(ws) \in 1..Len(ws) /\ ws[Len(ws)].fd = NoConn
      BY <2>1, <2>3, PoolAssumption DEF InLoop, MayShrink, IsIdle, LastWorker
    <3>2. LastWorker.pid # NoPid
      BY <3>1 DEF LastWorker, IInv, Records
    <3>3. npfd < Len(pfd)
      <4>1. npfd # Len(pfd)
        BY <3>1, FullIsBusy
      <4>2. npfd \in Nat /\ Len(pfd) \in Nat /\ npfd <= Len(pfd)
        BY <2>1
      <4> QED
        BY <4>1, <4>2, SMT
    <3>4. pfd[Len(pfd)].pid = NoPid
      BY <2>1, <3>1, <3>3 DEF FreeSlots
    <3> QED
      BY <3>2, <3>4
  <2>4. pc = "shrink" => ShrinkAsserts
    BY <2>2, <2>3 DEF ShrinkAsserts, Results, InLoop
  <2>5. ASSUME pc = "accept" PROVE \E i \in DOMAIN ws : IsIdle(ws[i])
    <3>1. InLoop /\ npfd < Len(pfd)
      BY <2>5 DEF InLoop, IInv, Sizes
    <3> QED
      BY <2>1, <3>1, SomeIdle DEF IsIdle
  <2> QED
    BY <2>4, <2>5 DEF AssertsHold
<1> QED
  BY <1>1, <1>2, <1>3, PTL DEF Spec

\* Where waiting for a child takes back its SIGCHLD, the manager never takes the
\* exit of a worker it let go for a crash (kfcgi.c:415-447): as long as no
\* worker crashes and no system call fails, it ends when it is told to, or when
\* the slough is full.
THEOREM OnlyWithReasonHolds == ASSUME WaitClearsPending PROVE Spec => []OnlyWithReason
<1> DEFINE Inv == IInv /\ Orderly /\ OnlyWithReason
<1>1. Init => Inv
  BY InitIInv, InitService
<1>2. Inv /\ [Next]_vars => Inv'
  BY NextIInv, OrderlyKept, ReasonKept
<1>3. Inv => OnlyWithReason
  OBVIOUS
<1> QED
  BY <1>1, <1>2, <1>3, PTL DEF Spec

=============================================================================

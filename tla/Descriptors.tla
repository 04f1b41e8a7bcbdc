------------------------------- MODULE Descriptors -------------------------------
(***************************************************************************)
(* Who holds which descriptor.  A process notices that another has gone    *)
(* when nobody holds the other end of their socket any more, and a fork    *)
(* copies everything its parent holds: so starting and stopping depend on  *)
(* what each process closes.  This is the start and the end of a CGI       *)
(* request (khttp_parsex in src/kcgi.c), of a FastCGI application with its *)
(* worker and its control process (khttp_fcgi_initx and khttp_fcgi_free in *)
(* src/fcgi.c), and of such applications under the manager (varpool_start  *)
(* and varpool in src/kfcgi.c).                                            *)
(***************************************************************************)
EXTENDS Integers, FiniteSets

CONSTANTS
  Slots,      \* applications, as indices of the manager's array
  First,      \* those that the variable pool has from the start (-n)
  Modes,      \* subset of {"cgi", "fixed", "varpool"}
  MaxEvents   \* bound: connections, calls that fail and processes that crash

VARIABLES
  mode,
  at,       \* where each process is
  holds,    \* the descriptors of each process, or on their way to one
  told,     \* applications that were sent a SIGTERM
  conns,    \* connections accepted so far
  failures  \* so far

dvars == <<mode, at, holds, told, conns, failures>>

Manager == <<"manager", 0>>
App(s) == <<"app", s>>
Worker(s) == <<"worker", s>>
Control(s) == <<"control", s>>
Queue(s) == <<"queue", s>>     \* descriptors in the manager's socket to a slot
Procs == {Manager} \cup UNION {{App(s), Worker(s), Control(s)} : s \in Slots}
Holders == Procs \cup {Queue(s) : s \in Slots}

P(pair, s) == <<pair, s, "PARENT">>
C(pair, s) == <<pair, s, "CHILD">>
Both(pair, s) == {P(pair, s), C(pair, s)}
Peer(e) == IF e[3] = "PARENT" THEN C(e[1], e[2]) ELSE P(e[1], e[2])
Conn(s) == <<"conn", s, "ACCEPTED">>     \* the connection that a slot serves
Conns == {Conn(s) : s \in Slots}
Socket == <<"socket", 0, "LISTENING">>

\* Where the application gets its connections: fdfiled or fdaccept.
Listen(s) == IF mode = "varpool" THEN C("ctrl", s) ELSE Socket

HungUp(e) == \A p \in Holders : Peer(e) \notin holds[p]
Gone(p) == at[p] \in {"none", "exited", "reaped"}

DInit ==
  /\ mode \in Modes
  /\ at = [p \in Procs |-> IF p = Manager /\ mode # "cgi" THEN "start"
                           ELSE IF p[1] = "app" /\ mode = "cgi" THEN "begin" ELSE "none"]
  /\ holds = [p \in Holders |-> IF p = Manager /\ mode # "cgi" THEN {Socket} ELSE {}]
  /\ told = {} /\ conns = 0 /\ failures = 0

Step(p, from, to, held) ==
  /\ at[p] = from
  /\ at' = [at EXCEPT ![p] = to]
  /\ holds' = [holds EXCEPT ![p] = held]

\* The parent goes on holding what it holds, the child gets a copy of it.
Fork(p, from, to, child) ==
  /\ at[p] = from
  /\ at' = [at EXCEPT ![p] = to, ![child] = "forked"]
  /\ holds' = [holds EXCEPT ![child] = holds[p]]

Fails == conns + failures < MaxEvents /\ failures' = failures + 1
Same == UNCHANGED <<mode, told, conns, failures>>

-----------------------------------------------------------------------------
(* The application in khttp_fcgi_initx or khttp_parsex.                    *)

\* kxsocketpair, which closes both if one cannot be made non-blocking; on
\* failure the caller closes everything of its own.
Ours(s) == UNION {Both(pair, s) : pair \in {"work_ctl", "work_dat", "sock_ctl"}}

OpenPair(s, from, to, pair) == Step(App(s), from, to, holds[App(s)] \cup Both(pair, s)) /\ Same

CloseAll(s, from, to) == Step(App(s), from, to, holds[App(s)] \ Ours(s))
GiveUp(s, from, to) == CloseAll(s, from, to) /\ Fails /\ UNCHANGED <<mode, told, conns>>

OpenWork(s) ==
  \/ mode # "cgi" /\ OpenPair(s, "begin", "begun", "work_ctl")
  \/ mode = "cgi" /\ OpenPair(s, "begin", "fork", "work_dat")
  \/ OpenPair(s, "begun", "fork", "work_dat")
  \/ at[App(s)] \in {"begin", "begun"} /\ GiveUp(s, at[App(s)], "returned")

ForkWorker(s) ==
  \/ Fork(App(s), "fork", "parent", Worker(s)) /\ Same
  \/ GiveUp(s, "fork", "returned")

CloseChild(s) ==
  /\ Step(App(s), "parent", IF mode = "cgi" THEN "alloc" ELSE "sock",
          holds[App(s)] \ {C("work_dat", s), C("work_ctl", s)})
  /\ Same

OpenSock(s) ==
  \/ OpenPair(s, "sock", "fork2", "sock_ctl")
  \/ GiveUp(s, "sock", "wait")

ForkControl(s) ==
  \/ Fork(App(s), "fork2", "parent2", Control(s)) /\ Same
  \/ GiveUp(s, "fork2", "wait")

CloseControl(s) ==
  /\ Step(App(s), "parent2", "alloc",
          holds[App(s)] \ {C("sock_ctl", s), P("work_ctl", s), Listen(s)})
  /\ Same

\* The allocations that come last.
Alloc(s) ==
  \/ Step(App(s), "alloc", IF mode = "cgi" THEN "reading" ELSE "serving", holds[App(s)]) /\ Same
  \/ GiveUp(s, "alloc", "wait")

\* khttp_parsex has read all, or as much as it could make sense of.
ReadRequest(s) == CloseAll(s, "reading", "wait") /\ Same

\* khttp_fcgi_free: after khttp_fcgi_parse has told of a SIGTERM or of the end of
\* the control process.
khttp_fcgi_free(s) ==
  /\ s \in told \/ HungUp(P("sock_ctl", s))
  /\ Step(App(s), "serving", "wait", holds[App(s)] \ {P("sock_ctl", s), P("work_dat", s)})
  /\ Same

\* kxwaitpid of the worker and of the control process, if they were forked.
Children(s) == {p \in {Worker(s), Control(s)} : at[p] # "none"}
Reaped(s) == [p \in Procs |-> IF p \in Children(s) THEN "reaped" ELSE at[p]]

kxwaitpid(s) ==
  /\ at[App(s)] = "wait" /\ \A p \in Children(s) : at[p] = "exited"
  /\ at' = [Reaped(s) EXCEPT ![App(s)] = "returned"]
  /\ UNCHANGED holds /\ Same

Exit(p) == at' = [at EXCEPT ![p] = "exited"] /\ holds' = [holds EXCEPT ![p] = {}]

Fail(p) == Exit(p) /\ Fails /\ UNCHANGED <<mode, told, conns>>

AppExits(s) == at[App(s)] = "returned" /\ Exit(App(s)) /\ Same

Library(s) ==
  \/ OpenWork(s) \/ ForkWorker(s) \/ CloseChild(s) \/ OpenSock(s) \/ ForkControl(s)
  \/ CloseControl(s) \/ Alloc(s) \/ ReadRequest(s) \/ khttp_fcgi_free(s) \/ kxwaitpid(s)
  \/ AppExits(s)

-----------------------------------------------------------------------------
(* The worker and the control process.                                     *)

\* What the worker closes before it enters its sandbox, which may fail.
WorkerSetup(s) ==
  \/ /\ Step(Worker(s), "forked", "run",
             holds[Worker(s)] \ {Listen(s), P("work_dat", s), P("work_ctl", s)})
     /\ Same
  \/ at[Worker(s)] = "forked" /\ Fail(Worker(s))

\* It is done when its socket is hung up, or in CGI when it has written all that
\* the application reads.
WorkerExits(s) ==
  /\ at[Worker(s)] = "run"
  /\ IF mode = "cgi" THEN at[App(s)] = "reading" \/ HungUp(C("work_dat", s))
     ELSE HungUp(C("work_ctl", s))
  /\ Exit(Worker(s)) /\ Same

\* A mutant: the application's end of its own socket stays open.
ControlCloses_NotSock(s) == {P("work_dat", s)}
ControlCloses(s) == {P("work_dat", s), P("sock_ctl", s)}

ControlSetup(s) ==
  \/ Step(Control(s), "forked", "run", holds[Control(s)] \ ControlCloses(s)) /\ Same
  \/ at[Control(s)] = "forked" /\ Fail(Control(s))

\* The application, the manager or (during a request) the worker has gone.
ControlExits(s) ==
  /\ at[Control(s)] = "run"
  /\ \/ HungUp(C("sock_ctl", s)) \/ HungUp(P("work_ctl", s))
     \/ mode = "varpool" /\ HungUp(C("ctrl", s))
  /\ Exit(Control(s)) /\ Same

Dies(p) == p # Manager /\ ~Gone(p) /\ Fail(p)

-----------------------------------------------------------------------------
(* The manager.                                                            *)

\* varpool_start, or the fork of fixedpool: the first ones, and another one when
\* there is a connection and all serve one.
Started == {s \in Slots : at[App(s)] # "none"}
Initial == IF mode = "fixed" THEN Slots ELSE First
AllBusy == {s \in Slots : Conn(s) \in holds[Manager]} = Started

StartApp(s) ==
  /\ mode # "cgi" /\ s \notin Started
  /\ \/ at[Manager] = "start" /\ s \in Initial
     \/ mode = "varpool" /\ at[Manager] = "run" /\ AllBusy /\ conns + failures < MaxEvents
  /\ LET held == holds[Manager] \cup (IF mode = "varpool" THEN Both("ctrl", s) ELSE {})
     IN \/ /\ at' = [at EXCEPT ![App(s)] = "forked"]
           /\ holds' = [holds EXCEPT ![Manager] = held \ {C("ctrl", s)}, ![App(s)] = held]
           /\ UNCHANGED failures
        \/ at' = [at EXCEPT ![Manager] = "out"] /\ Fails /\ UNCHANGED holds
  /\ UNCHANGED <<mode, told, conns>>

Run ==
  /\ at[Manager] = "start" /\ Initial \subseteq Started
  /\ at' = [at EXCEPT ![Manager] = "run"]
  /\ UNCHANGED holds /\ Same

\* "Close out all current descriptors": the manager's ends of the sockets and the
\* one it listens on, before execv.
ExecApp(s) ==
  /\ Step(App(s), "forked", "begin",
          holds[App(s)] \ (IF mode = "varpool" THEN {P("ctrl", t) : t \in Slots} \cup {Socket} ELSE {}))
  /\ Same

\* A connection, handed to a slot that has none; then the control process takes
\* it and closes it after the application has; then the manager closes its own.
\* Sending to a slot that has gone raises a SIGPIPE in the manager.
Hand(s) ==
  /\ mode = "varpool" /\ at[Manager] = "run" /\ conns + failures < MaxEvents
  /\ s \in Started /\ Conn(s) \notin holds[Manager]
  /\ conns' = conns + 1
  /\ IF HungUp(P("ctrl", s))
     THEN Exit(Manager)
     ELSE /\ holds' = [holds EXCEPT ![Manager] = @ \cup {Conn(s)}, ![Queue(s)] = {Conn(s)}]
          /\ UNCHANGED at
  /\ UNCHANGED <<mode, told, failures>>

Take(s) ==
  /\ at[Control(s)] = "run" /\ holds[Queue(s)] # {}
  /\ holds' = [holds EXCEPT ![Control(s)] = @ \cup holds[Queue(s)], ![Queue(s)] = {}]
  /\ UNCHANGED <<at>> /\ Same

Release(s) ==
  /\ at[Control(s)] = "run" /\ at[Manager] = "run" /\ holds[Control(s)] \cap Conns # {}
  /\ LET c == holds[Control(s)] \cap Conns
     IN holds' = [holds EXCEPT ![Control(s)] = @ \ c, ![Manager] = @ \ c]
  /\ UNCHANGED <<at>> /\ Same

\* A signal, or a worker that has gone; what is queued to that is dropped.
Stop ==
  /\ at[Manager] = "run"
  /\ at' = [at EXCEPT ![Manager] = "out"]
  /\ UNCHANGED <<holds>> /\ Same

\* out: the manager closes, and tells its applications.
TellApps ==
  /\ Step(Manager, "out", "reaping", {})
  /\ told' = Started
  /\ UNCHANGED <<mode, conns, failures>>

ReapApps ==
  /\ at[Manager] = "reaping" /\ \A s \in Slots : Gone(App(s))
  /\ at' = [p \in Procs |-> IF p = Manager THEN "exited"
                            ELSE IF p[1] = "app" /\ at[p] = "exited" THEN "reaped" ELSE at[p]]
  /\ UNCHANGED <<holds>> /\ Same

DNext ==
  \/ \E s \in Slots : \/ Library(s) \/ WorkerSetup(s) \/ WorkerExits(s) \/ ControlSetup(s)
                      \/ ControlExits(s) \/ StartApp(s) \/ ExecApp(s) \/ Hand(s) \/ Take(s)
                      \/ Release(s)
  \/ \E p \in Procs : Dies(p)
  \/ Run \/ Stop \/ TellApps \/ ReapApps

\* Every process goes on; none has to crash, to be told to stop or to be given
\* anything to do.
WorkerGoesOn == \E s \in Slots : WorkerSetup(s) \/ WorkerExits(s)
ControlGoesOn == \E s \in Slots : ControlSetup(s) \/ ControlExits(s)
AppGoesOn == \E s \in Slots : ExecApp(s) \/ Library(s)
ManagerGoesOn == Run \/ (\E s \in Slots : StartApp(s)) \/ TellApps \/ ReapApps

DSpec ==
  /\ DInit /\ [][DNext]_dvars
  /\ WF_dvars(WorkerGoesOn) /\ WF_dvars(ControlGoesOn) /\ WF_dvars(AppGoesOn)
  /\ WF_dvars(ManagerGoesOn)

-----------------------------------------------------------------------------
User(e) ==
  LET s == e[2]
  IN CASE e = C("work_ctl", s) -> Worker(s)
       [] e = C("work_dat", s) -> Worker(s)
       [] e = P("work_ctl", s) -> Control(s)
       [] e = C("sock_ctl", s) -> Control(s)
       [] e = C("ctrl", s) -> Control(s)
       [] e = P("sock_ctl", s) -> App(s)
       [] e = P("work_dat", s) -> App(s)
       [] OTHER -> Manager

\* Once they run, each process holds no socket but the ones it uses, so that the
\* others notice when it goes; an application whose start has failed holds
\* none, and has waited for every process that it forked (fcgi.c:412-541,
\* kcgi.c:980-1107, kfcgi.c:249-297).
OnlyItsOwn ==
  /\ \A p \in Procs : at[p] \in {"run", "serving"} =>
       \A e \in holds[p] \ (Conns \cup {Socket}) : User(e) = p
  /\ \A s \in Slots : at[App(s)] = "returned" =>
       holds[App(s)] \cap Ours(s) = {} /\ \A p \in Children(s) : at[p] = "reaped"

\* A request comes to its end, an application that has ended leaves neither of
\* its processes behind, and once the manager has been told to stop, or has
\* crashed, everything ends, whoever has failed (fcgi.c:344-357,
\* kfcgi.c:694-740).
Ending(s) == mode = "cgi" \/ at[Manager] \in {"out", "exited"} \/ at[App(s)] = "exited"
Over(s) ==
  /\ \A p \in {App(s), Worker(s), Control(s)} : Gone(p)
  /\ at[Manager] \notin {"out", "reaping"}

=============================================================================

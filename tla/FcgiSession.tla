----------------------------- MODULE FcgiSession -----------------------------
(***************************************************************************)
(* One FastCGI worker of kfcgi(8): the three processes khttp_fcgi_initx    *)
(* leaves behind (src/fcgi.c, src/child.c) and the way a connection takes  *)
(* through them.                                                           *)
(*                                                                         *)
(*   manager --filed--> control --c2w--> worker                            *)
(*      ^                 |  ^  <--w2c--   |                               *)
(*      +----acked--------+  |             | w2a                           *)
(*                      c2a| |a2c          v                               *)
(*                         +-+---------- application                       *)
(*                                                                         *)
(* The control process gets a connection from the manager and copies what  *)
(* the client sends to the sandboxed worker, in frames that begin with     *)
(* their size; a frame of size zero says that there is no more.  When the  *)
(* worker has read a full request it acknowledges it, the control process  *)
(* passes the connection to the application, and the worker sends the      *)
(* application what it parsed.  The application answers the client, then   *)
(* gives the request identifier back to the control process, which gives   *)
(* the manager's cookie back.                                              *)
(*                                                                         *)
(* A program that is not run by a manager of that kind accepts connections *)
(* by itself, from a socket that it may share with others of its kind: it  *)
(* has nobody to give a cookie back to.                                    *)
(*                                                                         *)
(* A connection's number stands for its cookies and its request            *)
(* identifier.  What a client sends is a sequence of tokens: the header    *)
(* and the body of each FastCGI record, without their contents.            *)
(***************************************************************************)
EXTENDS Integers, Sequences, FiniteSets

CONSTANTS
  Streams,    \* what clients may send before they close the connection
  MaxConn,    \* bound: connections handed out by the manager
  MaxTerm,    \* bound: SIGTERMs sent to the application
  MaxNoMem    \* bound: times khttp_fcgi_parse runs out of memory

\* "bgn", "bgnb":  header and body of FCGI_BEGIN_REQUEST
\* "prm", "prmb":  header and body of FCGI_PARAMS
\* "in", "inb":    header and body of FCGI_STDIN with contents
\* "end":          header of the last FCGI_STDIN, without contents or padding
\* "endp", "pad":  header of the last FCGI_STDIN with padding, and the padding
\* "bad":          a header the worker does not expect
Token == {"bgn", "bgnb", "prm", "prmb", "in", "inb", "end", "endp", "pad",
          "bad"}

ASSUME SessionAssumption ==
  /\ Streams \subseteq Seq(Token)
  /\ MaxConn \in Nat
  /\ MaxTerm \in Nat
  /\ MaxNoMem \in Nat

Conn == 1..MaxConn
NoConn == 0

VARIABLES
  managed,  \* whether connections come from a manager (fdfiled) or from the
            \* listening socket (fdaccept)
  handed,   \* connections handed out by the manager, or made: 1..handed
  filed,    \* connection in the manager's socket to control, or in the
            \* backlog of the listening socket, or NoConn
  acked,    \* connections whose cookie was written back, or that were closed
  mgrOpen,  \* whether nobody stops the program; for a manager, this is to have
            \* its end of the socket open
  toSend,   \* tokens the client of connection "handed" will still send
  net,      \* tokens it sent that were not read yet
  hup,      \* whether it closed the connection
  cpc,      \* control process: part of kfcgi_control being run
  cur,      \* connection it works on, or NoConn
  c2w,      \* messages from control to worker
  w2c,      \* messages from worker to control
  c2a,      \* connections passed from control to application
  a2c,      \* request identifiers from application to control
  w2a,      \* requests parsed, from worker to application
  wpc,      \* worker: part of kworker_fcgi_child being run
  wbuf,     \* tokens read from frames and not used yet
  wcookie,  \* the cookie it got
  wsrc,     \* connection whose request it reads
  apc,      \* application: part of khttp_fcgi_parse and its loop being run
  afd,      \* connection it has open, or NoConn
  adata,    \* connection whose request it was sent
  sigterm,  \* whether a SIGTERM is pending for it
  terms, nomem  \* how much of each bound is used

mgrVars == <<managed, handed, filed, acked, mgrOpen>>
netVars == <<toSend, net, hup>>
ctlVars == <<cpc, cur>>
chans == <<c2w, w2c, c2a, a2c, w2a>>
workVars == <<wpc, wbuf, wcookie, wsrc>>
appVars == <<apc, afd, adata, sigterm, terms, nomem>>
vars == <<mgrVars, netVars, ctlVars, chans, workVars, appVars>>

CookieMsg(c) == [t |-> "cookie", c |-> c, toks |-> <<>>]
Frame(c, toks) == [t |-> "frame", c |-> c, toks |-> toks]
WorkMsg == [t : {"cookie", "frame"}, c : Conn, toks : Seq(Token)]

\* The worker's reply: "bad" is a zero return code and nothing else.
BadCode == [ok |-> FALSE, cookie |-> NoConn, rid |-> NoConn]
Success(c, r) == [ok |-> TRUE, cookie |-> c, rid |-> r]

ControlPC == {"idle", "accept", "push", "verify", "pass", "wait", "recover", "exited"}
WorkerPC == {"cookie", "bgn", "bgnb", "hdr", "prmb", "sthdr", "inb", "pad",
             "reply", "trailer", "send", "exited", "crashed"}
AppPC == {"wait", "parse", "serve", "free", "exited"}

TypeOK ==
  /\ managed \in BOOLEAN
  /\ handed \in 0..MaxConn
  /\ filed \in Conn \cup {NoConn}
  /\ acked \in SUBSET Conn
  /\ mgrOpen \in BOOLEAN
  /\ toSend \in Seq(Token) /\ net \in Seq(Token) /\ hup \in BOOLEAN
  /\ cpc \in ControlPC
  /\ cur \in Conn \cup {NoConn}
  /\ c2w \in Seq(WorkMsg)
  /\ w2c \in Seq([ok : BOOLEAN, cookie : Conn \cup {NoConn},
                  rid : Conn \cup {NoConn}])
  /\ c2a \in Seq(Conn) /\ a2c \in Seq(Conn) /\ w2a \in Seq(Conn)
  /\ wpc \in WorkerPC
  /\ wbuf \in Seq(Token)
  /\ wcookie \in Conn \cup {NoConn} /\ wsrc \in Conn \cup {NoConn}
  /\ apc \in AppPC
  /\ afd \in Conn \cup {NoConn} /\ adata \in Conn \cup {NoConn}
  /\ sigterm \in BOOLEAN
  /\ terms \in 0..MaxTerm
  /\ nomem \in 0..MaxNoMem

Init ==
  /\ managed \in BOOLEAN
  /\ handed = 0 /\ filed = NoConn /\ acked = {} /\ mgrOpen = TRUE
  /\ toSend = <<>> /\ net = <<>> /\ hup = FALSE
  /\ cpc = "idle" /\ cur = NoConn
  /\ c2w = <<>> /\ w2c = <<>> /\ c2a = <<>> /\ a2c = <<>> /\ w2a = <<>>
  /\ wpc = "cookie" /\ wbuf = <<>> /\ wcookie = NoConn /\ wsrc = NoConn
  /\ apc = "wait" /\ afd = NoConn /\ adata = NoConn
  /\ sigterm = FALSE /\ terms = 0 /\ nomem = 0

\* Who is gone, with its ends of the channels.
ControlGone == cpc = "exited"
WorkerGone == wpc \in {"exited", "crashed"}
AppClosed == apc \in {"free", "exited"}

-----------------------------------------------------------------------------
(* The manager and the client *)

\* varpool hands a worker one connection at a time.  When the control process
\* is gone its write fails instead.  Without varpool a client connects, whether
\* the program is being stopped or not; the next one comes after it.
Hand ==
  /\ mgrOpen \/ ~managed
  /\ cpc # "exited"
  /\ handed < MaxConn
  /\ acked = 1..handed
  /\ handed' = handed + 1
  /\ filed' = handed + 1
  /\ \E s \in Streams : toSend' = s
  /\ net' = <<>>
  /\ hup' = FALSE
  /\ UNCHANGED <<managed, acked, mgrOpen, ctlVars, chans, workVars, appVars>>

\* Another program with the same listening socket accepts the connection.
TakenElsewhere ==
  /\ ~managed
  /\ filed # NoConn
  /\ filed' = NoConn
  /\ handed' = handed - 1
  /\ UNCHANGED <<managed, acked, mgrOpen, netVars, ctlVars, chans, workVars,
                 appVars>>

\* The manager stops the worker: it closes the socket and sends a SIGTERM.
MgrStop ==
  /\ mgrOpen
  /\ terms < MaxTerm
  /\ mgrOpen' = FALSE
  /\ sigterm' = TRUE
  /\ terms' = terms + 1
  /\ UNCHANGED <<managed, handed, filed, acked, netVars, ctlVars, chans, workVars,
                 apc, afd, adata, nomem>>

ClientSend ==
  /\ toSend # <<>>
  /\ net' = Append(net, Head(toSend))
  /\ toSend' = Tail(toSend)
  /\ UNCHANGED <<hup, mgrVars, ctlVars, chans, workVars, appVars>>

ClientClose ==
  /\ handed > 0
  /\ toSend = <<>>
  /\ ~hup
  /\ hup' = TRUE
  /\ UNCHANGED <<toSend, net, mgrVars, ctlVars, chans, workVars, appVars>>

-----------------------------------------------------------------------------
(* The control process: kfcgi_control *)

ControlExit ==
  /\ cpc' = "exited"
  /\ cur' = NoConn

\* The application is looked at first, then the manager (fcgi.c:124).
ControlStop ==
  /\ cpc = "idle"
  /\ AppClosed \/ (managed /\ filed = NoConn /\ ~mgrOpen)
  /\ ControlExit
  /\ UNCHANGED <<mgrVars, netVars, chans, workVars, appVars>>

\* poll(2) reports a client.
ControlPoll ==
  /\ cpc = "idle"
  /\ ~managed
  /\ ~AppClosed
  /\ filed # NoConn
  /\ cpc' = "accept"
  /\ UNCHANGED <<cur, mgrVars, netVars, chans, workVars, appVars>>

\* accept(2) finds that somebody else was faster: the socket does not block.
NobodyThere_waits == FALSE
NobodyThere == filed = NoConn

ControlAgain ==
  /\ cpc = "accept"
  /\ NobodyThere
  /\ cpc' = "idle"
  /\ UNCHANGED <<cur, mgrVars, netVars, chans, workVars, appVars>>

\* poll(2), accept(2) or the read of what the client sent fails, as it does when
\* a client resets its connection.  Nothing of the connection is read any more.
ControlFails ==
  /\ cpc \in {"idle", "accept", "push"}
  /\ ControlExit
  /\ toSend' = <<>> /\ net' = <<>> /\ hup' = TRUE
  /\ UNCHANGED <<mgrVars, chans, workVars, appVars>>

\* Take a connection and write its cookie to the worker.
ControlTake ==
  /\ \/ cpc = "idle" /\ managed /\ ~AppClosed
     \/ cpc = "accept"
  /\ filed # NoConn
  /\ IF WorkerGone
     THEN ControlExit /\ UNCHANGED c2w
     ELSE /\ cpc' = "push"
          /\ cur' = filed
          /\ c2w' = Append(c2w, CookieMsg(filed))
  /\ filed' = NoConn
  /\ UNCHANGED <<managed, handed, acked, mgrOpen, netVars, w2c, c2a, a2c, w2a,
                 workVars, appVars>>

\* The worker has replied: end the request with an empty frame.
EndFrame(c) == Append(c2w, Frame(c, <<>>))

ControlEnd ==
  /\ cpc = "push"
  /\ w2c # <<>>
  /\ ~WorkerGone
  /\ c2w' = EndFrame(cur)
  /\ cpc' = "verify"
  /\ UNCHANGED <<cur, w2c, c2a, a2c, w2a, mgrVars, netVars, workVars, appVars>>

\* One read(2) of what the client sent makes a frame.
ControlPush ==
  /\ cpc = "push"
  /\ w2c = <<>>
  /\ ~WorkerGone
  /\ \E n \in 1..Len(net) :
       /\ c2w' = Append(c2w, Frame(cur, SubSeq(net, 1, n)))
       /\ net' = SubSeq(net, n + 1, Len(net))
  /\ UNCHANGED <<toSend, hup, ctlVars, w2c, c2a, a2c, w2a, mgrVars, workVars,
                 appVars>>

\* The client has closed the connection: read(2) returns zero, and that size
\* is the whole frame.
HupFrame_andEnd(c) == Append(EndFrame(c), Frame(c, <<>>))
HupFrame(c) == Append(c2w, Frame(c, <<>>))

ControlHup ==
  /\ cpc = "push"
  /\ w2c = <<>>
  /\ ~WorkerGone
  /\ net = <<>>
  /\ hup
  /\ c2w' = HupFrame(cur)
  /\ cpc' = "verify"
  /\ UNCHANGED <<cur, w2c, c2a, a2c, w2a, mgrVars, netVars, workVars, appVars>>

\* The worker's end is closed: a write or a read fails.
ControlLost ==
  /\ cpc \in {"push", "verify"}
  /\ WorkerGone
  /\ cpc = "verify" => w2c = <<>>
  /\ ControlExit
  /\ UNCHANGED <<mgrVars, netVars, chans, workVars, appVars>>

\* Without a request there is nothing to pass, but the manager is told.
AfterRefusal_notTold == "idle"
AfterRefusal == "recover"

\* The worker is sane when it gives the cookie back.
ControlVerify ==
  /\ cpc = "verify"
  /\ w2c # <<>>
  /\ w2c' = Tail(w2c)
  /\ IF ~Head(w2c).ok
     THEN cpc' = AfterRefusal /\ UNCHANGED cur
     ELSE IF Head(w2c).cookie # cur THEN ControlExit
     ELSE cpc' = "pass" /\ UNCHANGED cur
  /\ UNCHANGED <<c2w, c2a, a2c, w2a, mgrVars, netVars, workVars, appVars>>

\* Pass the connection and the request identifier to the application.
ControlPass ==
  /\ cpc = "pass"
  /\ IF AppClosed
     THEN ControlExit /\ UNCHANGED c2a
     ELSE cpc' = "wait" /\ c2a' = Append(c2a, cur) /\ UNCHANGED cur
  /\ UNCHANGED <<c2w, w2c, a2c, w2a, mgrVars, netVars, workVars, appVars>>

\* Wait until the application gives the identifier back.
ControlDone_early == cpc = "wait"
ControlDone == cpc = "wait" /\ a2c # <<>>

ControlWait ==
  /\ ControlDone
  /\ a2c' = IF a2c = <<>> THEN a2c ELSE Tail(a2c)
  /\ IF a2c # <<>> /\ Head(a2c) # cur
     THEN ControlExit
     ELSE cpc' = "recover" /\ UNCHANGED cur
  /\ UNCHANGED <<c2w, w2c, c2a, w2a, mgrVars, netVars, workVars, appVars>>

ControlWaitLost ==
  /\ cpc = "wait"
  /\ a2c = <<>>
  /\ AppClosed
  /\ ControlExit
  /\ UNCHANGED <<mgrVars, netVars, chans, workVars, appVars>>

\* recover: give the manager, if there is one, its cookie back and close the
\* connection.
ControlRecover ==
  /\ cpc = "recover"
  /\ IF mgrOpen \/ ~managed
     THEN /\ acked' = acked \cup {cur}
          /\ cpc' = "idle"
          /\ cur' = NoConn
     ELSE ControlExit /\ UNCHANGED acked
  /\ UNCHANGED <<managed, handed, filed, mgrOpen, netVars, chans, workVars, appVars>>

-----------------------------------------------------------------------------
(* The worker: kworker_fcgi_child *)

\* The loop starts over; what is left in the buffer is dropped.
LeftInBuffer_kept == wbuf
LeftInBuffer == <<>>

NextRequest ==
  /\ wpc' = "cookie"
  /\ wbuf' = LeftInBuffer
  /\ wcookie' = NoConn
  /\ wsrc' = NoConn

\* Read the cookie.  Whatever comes next is taken for it.
WorkerCookie ==
  /\ wpc = "cookie"
  /\ c2w # <<>>
  /\ wcookie' = Head(c2w).c
  /\ c2w' = Tail(c2w)
  /\ wpc' = "bgn"
  /\ UNCHANGED <<wbuf, wsrc, w2c, c2a, a2c, w2a, mgrVars, netVars, ctlVars,
                 appVars>>

Reading == wpc \in {"bgn", "bgnb", "hdr", "prmb", "sthdr", "inb", "pad"}

\* kworker_fcgi_read gets another frame.
WorkerFill ==
  /\ Reading
  /\ wbuf = <<>>
  /\ c2w # <<>>
  /\ Head(c2w).toks # <<>>
  /\ wbuf' = Head(c2w).toks
  /\ wsrc' = Head(c2w).c
  /\ c2w' = Tail(c2w)
  /\ UNCHANGED <<wpc, wcookie, w2c, c2a, a2c, w2a, mgrVars, netVars, ctlVars,
                 appVars>>

\* Which part of the request follows when a token was read, for the tokens
\* expected in each part: kworker_fcgi_begin, kworker_fcgi_params,
\* kworker_fcgi_stdin.
StdinNext(tok) ==
  CASE tok = "in" -> "inb"
    [] tok = "end" -> "reply"
    [] tok = "endp" -> "pad"
    [] OTHER -> "exited"

AfterToken(tok) ==
  CASE wpc = "bgn" -> IF tok = "bgn" THEN "bgnb" ELSE "exited"
    [] wpc = "bgnb" -> "hdr"
    [] wpc = "hdr" -> IF tok = "prm" THEN "prmb" ELSE StdinNext(tok)
    [] wpc = "prmb" -> "hdr"
    [] wpc = "sthdr" -> StdinNext(tok)
    [] wpc = "inb" -> "sthdr"
    [] wpc = "pad" -> "reply"

WorkerToken ==
  /\ Reading
  /\ wbuf # <<>>
  /\ wpc' = AfterToken(Head(wbuf))
  /\ wbuf' = Tail(wbuf)
  /\ UNCHANGED <<wcookie, wsrc, chans, mgrVars, netVars, ctlVars, appVars>>

\* An empty frame: the client is gone.  The worker says so and goes on with
\* the next request.
HupParts == {"bgn", "hdr", "prmb", "sthdr"}

WorkerHup ==
  /\ wpc \in HupParts
  /\ wbuf = <<>>
  /\ c2w # <<>>
  /\ Head(c2w).toks = <<>>
  /\ c2w' = Tail(c2w)
  /\ w2c' = Append(w2c, BadCode)
  /\ NextRequest
  /\ UNCHANGED <<c2a, a2c, w2a, mgrVars, netVars, ctlVars, appVars>>

\* kworker_fcgi_begin and kworker_fcgi_stdin do not look whether there was
\* anything to read.  The former reads the body's flags and the latter copies
\* the contents from address zero; without contents the latter takes the
\* padding as read.
WorkerHupBody ==
  /\ wpc \in {"bgnb", "inb", "pad"}
  /\ wbuf = <<>>
  /\ c2w # <<>>
  /\ Head(c2w).toks = <<>>
  /\ c2w' = Tail(c2w)
  /\ wpc' = IF wpc = "pad" THEN "reply" ELSE "crashed"
  /\ UNCHANGED <<wbuf, wcookie, wsrc, w2c, c2a, a2c, w2a, mgrVars, netVars,
                 ctlVars, appVars>>

\* Acknowledge the request with the cookie and the request identifier.
WorkerReply ==
  /\ wpc = "reply"
  /\ IF ControlGone
     THEN wpc' = "exited" /\ UNCHANGED w2c
     ELSE wpc' = "trailer" /\ w2c' = Append(w2c, Success(wcookie, wsrc))
  /\ UNCHANGED <<wbuf, wcookie, wsrc, c2w, c2a, a2c, w2a, mgrVars, netVars,
                 ctlVars, appVars>>

\* The request must be followed by an empty frame.
WorkerTrailer ==
  /\ wpc = "trailer"
  /\ c2w # <<>>
  /\ c2w' = Tail(c2w)
  /\ wpc' = IF Head(c2w).toks = <<>> THEN "send" ELSE "exited"
  /\ UNCHANGED <<wbuf, wcookie, wsrc, w2c, c2a, a2c, w2a, mgrVars, netVars,
                 ctlVars, appVars>>

\* Send the parsed request to the application.
WorkerSend ==
  /\ wpc = "send"
  /\ IF AppClosed
     THEN wpc' = "exited" /\ UNCHANGED <<w2a, wbuf, wcookie, wsrc>>
     ELSE w2a' = Append(w2a, wsrc) /\ NextRequest
  /\ UNCHANGED <<c2w, w2c, c2a, a2c, mgrVars, netVars, ctlVars, appVars>>

\* The control process has closed its end.
WorkerEof ==
  /\ Reading \/ wpc \in {"cookie", "trailer"}
  /\ wbuf = <<>> \/ ~Reading
  /\ c2w = <<>>
  /\ ControlGone
  /\ wpc' = "exited"
  /\ UNCHANGED <<wbuf, wcookie, wsrc, chans, mgrVars, netVars, ctlVars,
                 appVars>>

-----------------------------------------------------------------------------
(* The application: khttp_fcgi_parse, khttp_free, khttp_fcgi_free *)

\* fcgi_waitread: a SIGTERM goes first, then a connection, then the end of
\* the control process.  The application frees its resources and exits.
AppWait ==
  /\ apc = "wait"
  /\ \/ /\ sigterm
        /\ apc' = "free"
        /\ UNCHANGED <<c2a, afd>>
     \/ /\ ~sigterm
        /\ c2a # <<>>
        /\ apc' = "parse"
        /\ afd' = Head(c2a)
        /\ c2a' = Tail(c2a)
     \/ /\ ~sigterm
        /\ c2a = <<>>
        /\ ControlGone
        /\ apc' = "free"
        /\ UNCHANGED <<c2a, afd>>
  /\ UNCHANGED <<adata, sigterm, terms, nomem, c2w, w2c, a2c, w2a, mgrVars, netVars,
                 ctlVars, workVars>>

\* kworker_parent has read all the worker sent.
AppParse ==
  /\ apc = "parse"
  /\ w2a # <<>>
  /\ apc' = "serve"
  /\ adata' = Head(w2a)
  /\ w2a' = Tail(w2a)
  /\ UNCHANGED <<afd, sigterm, terms, nomem, c2w, w2c, c2a, a2c, mgrVars, netVars,
                 ctlVars, workVars>>

RunOut ==
  /\ nomem < MaxNoMem
  /\ nomem' = nomem + 1

\* A read from a worker that is gone ends.
NoMoreComes_notSeen == FALSE
NoMoreComes == w2a = <<>> /\ WorkerGone

\* kworker_parent gets no more from the worker, or no memory for what it got:
\* the connection is closed and nothing is said to the control process.  The
\* application gives up.
AppParseFails ==
  /\ apc = "parse"
  /\ \/ NoMoreComes /\ UNCHANGED nomem
     \/ w2a # <<>> /\ RunOut
  /\ apc' = "free"
  /\ afd' = NoConn
  /\ UNCHANGED <<adata, sigterm, terms, chans, mgrVars, netVars, ctlVars,
                 workVars>>

\* There is no memory for the request before kworker_parent is called:
\* khttp_fcgi_parse closes the connection and returns KCGI_OK.  The identifier
\* is not given back: the worker's data for it is still to come.
Abandoned_givenBack(c) == Append(a2c, c)
Abandoned(c) == a2c

AppNoMemory ==
  /\ RunOut
  /\ apc = "parse"
  /\ apc' = "serve"
  /\ afd' = NoConn
  /\ a2c' = Abandoned(afd)
  /\ UNCHANGED <<adata, sigterm, terms, c2w, w2c, c2a, w2a, mgrVars, netVars,
                 ctlVars, workVars>>

\* An application that answers a request without a connection does not
\* survive it.
AppDies ==
  /\ apc = "serve"
  /\ afd = NoConn
  /\ apc' = "exited"
  /\ UNCHANGED <<afd, adata, sigterm, terms, nomem, chans, mgrVars, netVars, ctlVars,
                 workVars>>

\* khttp_free: close the connection, then give the identifier back, if there
\* is a connection.
GivesBack == ~ControlGone /\ afd # NoConn

AppFinish ==
  /\ apc = "serve"
  /\ apc' = "wait"
  /\ afd' = NoConn
  /\ adata' = NoConn
  /\ a2c' = IF GivesBack THEN Append(a2c, afd) ELSE a2c
  /\ UNCHANGED <<sigterm, terms, nomem, c2w, w2c, c2a, w2a, mgrVars, netVars,
                 ctlVars, workVars>>

\* khttp_fcgi_free has closed its channels and waits for its children.
AppExit ==
  /\ apc = "free"
  /\ WorkerGone
  /\ ControlGone
  /\ apc' = "exited"
  /\ UNCHANGED <<afd, adata, sigterm, terms, nomem, chans, mgrVars, netVars, ctlVars,
                 workVars>>

Gone == apc = "exited"

-----------------------------------------------------------------------------

Control ==
  \/ ControlStop \/ ControlPoll \/ ControlAgain \/ ControlTake
  \/ ControlEnd \/ ControlPush \/ ControlHup \/ ControlLost
  \/ ControlVerify \/ ControlPass \/ ControlWait \/ ControlWaitLost
  \/ ControlRecover

Work ==
  \/ WorkerCookie \/ WorkerFill \/ WorkerToken \/ WorkerHup \/ WorkerHupBody
  \/ WorkerReply \/ WorkerTrailer \/ WorkerSend \/ WorkerEof

App == AppWait \/ AppParse \/ AppParseFails \/ AppFinish \/ AppExit

NoMemory == AppNoMemory \/ AppDies

Next == Hand \/ TakenElsewhere \/ MgrStop \/ ClientSend \/ ClientClose
          \/ Control \/ ControlFails \/ Work \/ App \/ NoMemory

Spec == Init /\ [][Next]_vars

\* The three processes run, and clients do not stall: what they have to send
\* they send, and then they close the connection.
FairSpec ==
  /\ Spec
  /\ WF_vars(Control)
  /\ WF_vars(Work)
  /\ WF_vars(App)
  /\ WF_vars(ClientSend)
  /\ WF_vars(ClientClose)

-----------------------------------------------------------------------------
(* What must hold *)

\* The application answers a connection with the request that came in on it:
\* the descriptor comes from the control process and the request from the
\* worker, over two sockets and with nothing in common to compare
\* (khttp_fcgi_parse).
Paired == apc = "serve" => adata = afd

\* A new request starts at its cookie: nothing an earlier client sent, or that
\* ended its request, is still on its way to the worker, whatever the order in
\* which the worker replied and the client closed (kworker_fcgi_child takes
\* the first four bytes it gets for a cookie).
StartsAtCookie ==
  wpc = "cookie" => wbuf = <<>> /\ (c2w # <<>> => Head(c2w).t = "cookie")

\* The manager gets a cookie back, and may hand out the next connection, only
\* when neither the application nor any channel still has something of the
\* connection it stands for (kfcgi_control, recover).
ReturnedWhenDone ==
  \A c \in acked :
    /\ c \notin {filed, cur, afd, adata}
    /\ \A i \in DOMAIN c2w : c2w[i].c # c
    /\ \A i \in DOMAIN w2c : w2c[i].cookie # c
    /\ \A s \in {c2a, a2c, w2a} : \A i \in DOMAIN s : s[i] # c

\* A connection handed out comes back, or the worker's control process is
\* gone and the manager sees that; unless there was no memory for it.  One that a
\* client made with the program itself is accepted by it or by another.
ComesBack ==
  \A c \in Conn :
    handed = c ~> c \in acked \/ handed < c \/ ControlGone \/ nomem > 0

\* When the manager stops the worker, its three processes exit.  When one of
\* them dies the others do not go on without it, except that after a memory
\* failure the control process waits for an answer nobody will give.  Nobody has
\* to connect for it: a process that shares its socket with others does not wait
\* in accept(2) for a client somebody else took.
Ends ==
  /\ ~mgrOpen ~> (Gone /\ ControlGone /\ WorkerGone)
  /\ WorkerGone ~> Gone \/ nomem > 0
  /\ ControlGone ~> Gone /\ WorkerGone

-----------------------------------------------------------------------------
(* What the three processes promise the manager: see RequestBroker *)

phase ==
  [c \in Conn |->
     IF c > handed \/ (c = filed /\ ~managed) THEN "new"
     ELSE IF apc = "serve" /\ afd = c THEN "serving"
     ELSE IF c \in acked /\ afd # c THEN "done"
     ELSE IF c = cur /\ (cpc = "recover" \/ (cpc = "wait" /\ a2c # <<>>))
          THEN "returning"
     ELSE IF c = cur \/ (c = filed /\ ~ControlGone) THEN "given"
     ELSE "lost"]

Broker == INSTANCE RequestBroker

\* Every step is one a broker may take, or none.
ImplementsBroker == Broker!Spec

=============================================================================

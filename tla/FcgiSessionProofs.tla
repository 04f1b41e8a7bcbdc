--------------------------- MODULE FcgiSessionProofs ---------------------------
(***************************************************************************)
(* Proofs about FcgiSession, whatever the clients send, for any number of  *)
(* connections, SIGTERMs and failing allocations.                          *)
(*                                                                         *)
(* Three processes that share no memory agree on one connection because at *)
(* any time all that is on its way between them belongs to the last one    *)
(* that was handed out.  Counted, Owned and Framed say this of the         *)
(* connections and channels, and Stage says how far the worker and the     *)
(* application may be for each place in the control process.               *)
(***************************************************************************)
EXTENDS FcgiSession, TLAPS, SequenceTheorems

AppAway == apc \in {"wait", "free", "exited"} /\ afd = NoConn /\ adata = NoConn

WorkerAtCookie == wpc = "cookie" /\ c2w = <<>>

\* Nothing of any connection is in the three processes.
AtRest ==
  /\ cpc \in {"idle", "accept", "exited"}
  /\ WorkerAtCookie \/ (ControlGone /\ WorkerGone)
  /\ c2w = <<>> /\ w2c = <<>> /\ c2a = <<>> /\ a2c = <<>> /\ w2a = <<>>
  /\ AppAway

\* The manager has all connections back but, perhaps, the last.  That one, as
\* long as it waits, and none otherwise, is in nobody's hands.
Counted ==
  /\ acked = 1..handed \/ (handed > 0 /\ acked = 1..(handed - 1))
  /\ filed \in {NoConn, handed}
  /\ filed # NoConn => handed > 0 /\ acked = 1..(handed - 1)
  /\ filed # NoConn \/ acked = 1..handed => AtRest
  /\ cpc \in {"idle", "accept"} => filed # NoConn \/ acked = 1..handed
  /\ cur = IF cpc \in {"idle", "accept", "exited"} THEN NoConn ELSE handed

\* What the worker and the channels have is of the last connection.
Owned ==
  /\ \A i \in DOMAIN c2w : c2w[i].c = handed
  /\ \A i \in DOMAIN w2c : w2c[i] \in {BadCode, Success(handed, handed)}
  /\ \A s \in {c2a, a2c, w2a} : \A i \in DOMAIN s : s[i] = handed
  /\ wpc # "cookie" /\ ~WorkerGone =>
       /\ wcookie = handed
       /\ wpc # "bgn" \/ wbuf # <<>> => wsrc = handed

\* A cookie comes first and is followed by frames; an empty one is the last.
Framed ==
  /\ wpc = "cookie" => wbuf = <<>> /\ (c2w # <<>> => Head(c2w).t = "cookie")
  /\ wpc = "send" => c2w = <<>>
  /\ \A i \in DOMAIN c2w : c2w[i].t = "cookie" => i = 1 /\ (wpc = "cookie" \/ WorkerGone)
  /\ \A i \in DOMAIN c2w : c2w[i].t = "frame" /\ c2w[i].toks = <<>> => i = Len(c2w)

\* The worker has acknowledged the request: the request is not lost before the
\* worker is, and then it never reaches the application.
Acknowledged ==
  \/ (wpc \in {"trailer", "send"} \/ WorkerGone) /\ w2a = <<>>
  \/ WorkerAtCookie /\ w2a = <<handed>>

\* The application has it.
Received == WorkerAtCookie /\ w2a = <<>>

BeforePass == AppAway /\ c2a = <<>> /\ a2c = <<>>

StagePush ==
  /\ BeforePass /\ w2a = <<>>
  /\ \A i \in DOMAIN c2w : c2w[i].t = "frame" => c2w[i].toks # <<>>
  /\ w2c \in {<<>>, <<Success(handed, handed)>>}
  /\ w2c = <<>> => wpc \notin {"trailer", "send"}
  /\ w2c # <<>> => wpc = "trailer" \/ WorkerGone
  /\ wpc = "cookie" => c2w # <<>>

StageVerify ==
  /\ BeforePass
  /\ \/ w2c = <<>> /\ w2a = <<>> /\ wpc \notin {"trailer", "send"}
          /\ (wpc = "cookie" => c2w # <<>>)
     \/ w2c = <<BadCode>> /\ Received
     \/ w2c = <<Success(handed, handed)>> /\ Acknowledged

StageWait ==
  /\ w2c = <<>>
  /\ \/ c2a = <<handed>> /\ AppAway /\ a2c = <<>> /\ Acknowledged
     \/ c2a = <<>> /\ apc = "parse" /\ afd = handed /\ adata = NoConn
          /\ a2c = <<>> /\ Acknowledged
     \/ c2a = <<>> /\ apc = "serve" /\ afd = handed /\ adata = handed
          /\ a2c = <<>> /\ Received
     \/ c2a = <<>> /\ AppAway /\ a2c = <<handed>> /\ Received
     \/ c2a = <<>> /\ apc \in {"wait", "free", "serve", "exited"}
          /\ afd = NoConn /\ adata = NoConn /\ a2c = <<>>
          /\ Acknowledged

Stage ==
  /\ cpc = "push" => StagePush
  /\ cpc = "verify" => StageVerify
  /\ cpc = "pass" => BeforePass /\ w2c = <<>> /\ Acknowledged
  /\ cpc = "wait" => StageWait
  /\ cpc = "recover" => BeforePass /\ w2c = <<>> /\ Received
  /\ cpc = "exited" => AppAway /\ a2c = <<>> /\ (apc = "wait" => c2a = <<>>)

IInv == TypeOK /\ Counted /\ Owned /\ Framed /\ Stage

-----------------------------------------------------------------------------
(* Sequences *)

\* A channel with one message.
LEMMA OneMessage ==
  ASSUME NEW x
  PROVE  /\ Append(<<>>, x) = <<x>>
         /\ <<x>> # <<>>
         /\ Len(<<x>>) = 1 /\ DOMAIN <<x>> = {1} /\ <<x>>[1] = x
         /\ Head(<<x>>) = x /\ Tail(<<x>>) = <<>>
OBVIOUS

\* What is left when the first message was taken.
LEMMA Rest ==
  ASSUME NEW S, NEW s \in Seq(S), s # <<>>
  PROVE  /\ Head(s) \in S /\ Head(s) = s[1] /\ 1 \in DOMAIN s
         /\ Tail(s) \in Seq(S)
         /\ Len(s) \in Nat \ {0} /\ Len(Tail(s)) = Len(s) - 1
         /\ \A i \in DOMAIN Tail(s) : i + 1 \in DOMAIN s /\ Tail(s)[i] = s[i + 1]
         /\ Len(s) = 1 => Tail(s) = <<>>
         /\ DOMAIN s = 1..Len(s)
<1>1. /\ Head(s) \in S /\ Tail(s) \in Seq(S) /\ Len(Tail(s)) = Len(s) - 1
      /\ \A i \in 1..Len(Tail(s)) : Tail(s)[i] = s[i + 1]
  BY HeadTailProperties
<1>2. Len(s) \in Nat \ {0} /\ DOMAIN s = 1..Len(s) /\ Head(s) = s[1]
  BY LenProperties, EmptySeq
<1>3. DOMAIN Tail(s) = 1..Len(Tail(s))
  BY <1>1, LenProperties
<1>4. ASSUME Len(s) = 1 PROVE Tail(s) = <<>>
  <2>1. Len(Tail(s)) = 0
    BY <1>1, <1>4
  <2> QED
    BY <1>1, <2>1, EmptySeq
<1> QED
  BY <1>1, <1>2, <1>3, <1>4

\* A message more.
LEMMA OneMore ==
  ASSUME NEW S, NEW s \in Seq(S), NEW x \in S
  PROVE  /\ Append(s, x) \in Seq(S) /\ Append(s, x) # <<>>
         /\ Len(Append(s, x)) = Len(s) + 1 /\ Len(s) \in Nat
         /\ DOMAIN s = 1..Len(s)
         /\ DOMAIN Append(s, x) = 1..(Len(s) + 1)
         /\ \A i \in 1..Len(s) : Append(s, x)[i] = s[i]
         /\ Append(s, x)[Len(s) + 1] = x
         /\ Head(Append(s, x)) = IF s = <<>> THEN x ELSE Head(s)
<1>1. /\ Append(s, x) \in Seq(S) /\ Append(s, x) # <<>>
      /\ Len(Append(s, x)) = Len(s) + 1
      /\ \A i \in 1..Len(s) : Append(s, x)[i] = s[i]
      /\ Append(s, x)[Len(s) + 1] = x
  BY AppendProperties
<1>2. Len(s) \in Nat /\ DOMAIN s = 1..Len(s)
  BY LenProperties
<1>3. DOMAIN Append(s, x) = 1..(Len(s) + 1)
  BY <1>1, LenProperties
<1>4. Head(Append(s, x)) = Append(s, x)[1]
  OBVIOUS
<1>5. CASE s = <<>>
  BY <1>5, <1>1, <1>2, <1>4
<1>6. CASE s # <<>>
  <2>1. Len(s) >= 1 /\ Head(s) = s[1]
    BY <1>6, <1>2, EmptySeq
  <2> QED
    BY <2>1, <1>1, <1>2, <1>3, <1>4, <1>6
<1> QED
  BY <1>1, <1>2, <1>3, <1>5, <1>6

-----------------------------------------------------------------------------
(* The types *)

LEMMA InitTypeOK == SessionAssumption /\ Init => TypeOK
<1> SUFFICES ASSUME SessionAssumption, Init PROVE TypeOK
  OBVIOUS
<1>1. managed \in BOOLEAN /\ mgrOpen \in BOOLEAN /\ hup \in BOOLEAN /\ sigterm \in BOOLEAN
  BY Zenon DEF Init
<1> QED
  BY <1>1 DEF Init, TypeOK, SessionAssumption, Conn, NoConn, ControlPC, WorkerPC, AppPC

LEMMA MessageTypes ==
  ASSUME NEW c \in Conn, NEW toks \in Seq(Token)
  PROVE  CookieMsg(c) \in WorkMsg /\ Frame(c, toks) \in WorkMsg
BY DEF CookieMsg, Frame, WorkMsg

LEMMA TypeKept == SessionAssumption /\ TypeOK /\ Counted /\ Owned /\ [Next]_vars => TypeOK'
<1> SUFFICES ASSUME SessionAssumption, TypeOK, Counted, Owned, [Next]_vars PROVE TypeOK'
  OBVIOUS
<1> USE DEF TypeOK, mgrVars, netVars, ctlVars, chans, workVars, appVars
<1>0. <<>> \in Seq(Token)
  OBVIOUS
<1>1. CASE Hand
  <2>1. handed' \in 0..MaxConn /\ filed' \in Conn \cup {NoConn}
    BY <1>1 DEF Hand, Conn, SessionAssumption
  <2>2. toSend' \in Seq(Token)
    BY <1>1 DEF Hand, SessionAssumption
  <2>3. hup' \in BOOLEAN /\ net' = <<>>
    BY <1>1, Zenon DEF Hand
  <2>4. UNCHANGED <<managed, acked, mgrOpen, ctlVars, chans, workVars, appVars>>
    BY <1>1 DEF Hand
  <2> QED
    BY <1>0, <2>1, <2>2, <2>3, <2>4
<1>2. CASE TakenElsewhere
  BY <1>2 DEF TakenElsewhere, Counted, SessionAssumption
<1>3. CASE MgrStop
  <2>1. mgrOpen' \in BOOLEAN /\ sigterm' \in BOOLEAN
    BY <1>3, Zenon DEF MgrStop
  <2> QED
    BY <1>3, <2>1 DEF MgrStop, SessionAssumption
<1>4. CASE ClientSend
  <2>1. Append(net, Head(toSend)) \in Seq(Token) /\ Tail(toSend) \in Seq(Token)
    BY <1>4, Rest, OneMore DEF ClientSend
  <2> QED
    BY <1>4, <2>1 DEF ClientSend
<1>5. CASE ClientClose
  <2>1. hup' \in BOOLEAN
    BY <1>5, Zenon DEF ClientClose
  <2> QED
    BY <1>5, <2>1 DEF ClientClose
<1>6. CASE ControlStop \/ ControlPoll \/ ControlAgain \/ ControlLost \/ ControlWaitLost
  <2>1. cpc' \in ControlPC /\ cur' \in Conn \cup {NoConn}
    BY <1>6 DEF ControlStop, ControlPoll, ControlAgain, ControlLost, ControlWaitLost,
                ControlExit, ControlPC
  <2>2. UNCHANGED <<mgrVars, netVars, chans, workVars, appVars>>
    BY <1>6 DEF ControlStop, ControlPoll, ControlAgain, ControlLost, ControlWaitLost
  <2> QED
    BY <2>1, <2>2
<1>7. CASE ControlFails
  <2>1. hup' \in BOOLEAN
    BY <1>7, Zenon DEF ControlFails
  <2> QED
    BY <1>0, <1>7, <2>1 DEF ControlFails, ControlExit, ControlPC
<1>8. CASE ControlTake
  <2>1. filed \in Conn /\ CookieMsg(filed) \in WorkMsg
    BY <1>8, MessageTypes DEF ControlTake
  <2>2. Append(c2w, CookieMsg(filed)) \in Seq(WorkMsg)
    BY <2>1, OneMore
  <2>3. c2w' \in Seq(WorkMsg) /\ cpc' \in ControlPC /\ cur' \in Conn \cup {NoConn}
    BY <1>8, <2>1, <2>2 DEF ControlTake, ControlExit, ControlPC
  <2>4. UNCHANGED <<managed, handed, acked, mgrOpen, netVars, w2c, c2a, a2c, w2a,
                    workVars, appVars>> /\ filed' = NoConn
    BY <1>8 DEF ControlTake
  <2> QED
    BY <2>3, <2>4
<1>9. CASE ControlEnd \/ ControlPush \/ ControlHup
  <2>0. cur \in Conn
    <3>1. cpc = "push"
      BY <1>9 DEF ControlEnd, ControlPush, ControlHup
    <3> QED
      BY <3>1 DEF Counted, NoConn, Conn, AtRest
  <2>1. \A toks \in Seq(Token) : Append(c2w, Frame(cur, toks)) \in Seq(WorkMsg)
    BY <2>0, MessageTypes, OneMore
  <2>2. c2w' \in Seq(WorkMsg) /\ net' \in Seq(Token)
    <3>1. CASE ControlEnd \/ ControlHup
      BY <3>1, <2>1, <1>0 DEF ControlEnd, ControlHup, EndFrame, HupFrame
    <3>2. CASE ControlPush
      <4>1. PICK n \in 1..Len(net) :
              /\ c2w' = Append(c2w, Frame(cur, SubSeq(net, 1, n)))
              /\ net' = SubSeq(net, n + 1, Len(net))
        BY <3>2 DEF ControlPush
      <4>2. SubSeq(net, 1, n) \in Seq(Token) /\ SubSeq(net, n + 1, Len(net)) \in Seq(Token)
        BY SubSeqProperties, LenProperties
      <4> QED
        BY <4>1, <4>2, <2>1
    <3> QED
      BY <1>9, <3>1, <3>2
  <2>3. cpc' \in ControlPC
    BY <1>9 DEF ControlEnd, ControlPush, ControlHup, ControlPC
  <2>4. UNCHANGED <<toSend, hup, cur, w2c, c2a, a2c, w2a, mgrVars, workVars, appVars>>
    BY <1>9 DEF ControlEnd, ControlPush, ControlHup
  <2> QED
    BY <2>2, <2>3, <2>4
<1>10. CASE ControlVerify
  <2>1. Tail(w2c) \in Seq([ok : BOOLEAN, cookie : Conn \cup {NoConn}, rid : Conn \cup {NoConn}])
    BY <1>10, Rest DEF ControlVerify
  <2>2. cpc' \in ControlPC /\ cur' \in Conn \cup {NoConn}
    BY <1>10 DEF ControlVerify, ControlExit, ControlPC, AfterRefusal
  <2> QED
    BY <1>10, <2>1, <2>2 DEF ControlVerify
<1>11. CASE ControlPass
  <2>0. cpc = "pass"
    BY <1>11 DEF ControlPass
  <2>1. cur \in Conn
    BY <2>0 DEF Counted, NoConn, Conn, AtRest
  <2>2. c2a' \in Seq(Conn)
    <3>1. Append(c2a, cur) \in Seq(Conn)
      BY <2>1, OneMore
    <3> QED
      BY <1>11, <3>1 DEF ControlPass
  <2>3. cpc' \in ControlPC /\ cur' \in Conn \cup {NoConn}
    BY <1>11 DEF ControlPass, ControlExit, ControlPC
  <2> QED
    BY <1>11, <2>2, <2>3 DEF ControlPass
<1>12. CASE ControlWait
  <2>1. a2c' \in Seq(Conn)
    BY <1>12, Rest DEF ControlWait
  <2>2. cpc' \in ControlPC /\ cur' \in Conn \cup {NoConn}
    BY <1>12 DEF ControlWait, ControlExit, ControlPC
  <2> QED
    BY <1>12, <2>1, <2>2 DEF ControlWait
<1>13. CASE ControlRecover
  <2>0. cpc = "recover"
    BY <1>13 DEF ControlRecover
  <2>1. cur \in Conn
    BY <2>0 DEF Counted, NoConn, Conn, AtRest
  <2>2. acked' \in SUBSET Conn /\ cpc' \in ControlPC /\ cur' \in Conn \cup {NoConn}
    BY <1>13, <2>1 DEF ControlRecover, ControlExit, ControlPC
  <2> QED
    BY <1>13, <2>2 DEF ControlRecover
<1>14. CASE WorkerCookie \/ WorkerFill
  <2>1. c2w # <<>>
    BY <1>14 DEF WorkerCookie, WorkerFill
  <2>2. Tail(c2w) \in Seq(WorkMsg) /\ Head(c2w) \in WorkMsg
    BY <2>1, Rest
  <2>3. Head(c2w).c \in Conn /\ Head(c2w).toks \in Seq(Token)
    BY <2>2 DEF WorkMsg
  <2>4. c2w' = Tail(c2w) /\ UNCHANGED <<w2c, c2a, a2c, w2a, mgrVars, netVars, ctlVars, appVars>>
    BY <1>14 DEF WorkerCookie, WorkerFill
  <2>5. wpc' \in WorkerPC /\ wbuf' \in Seq(Token) /\ wcookie' \in Conn \cup {NoConn}
        /\ wsrc' \in Conn \cup {NoConn}
    BY <1>14, <2>3 DEF WorkerCookie, WorkerFill, WorkerPC
  <2> QED
    BY <2>2, <2>4, <2>5
<1>15. CASE WorkerToken
  <2>1. AfterToken(Head(wbuf)) \in WorkerPC
    BY <1>15 DEF WorkerToken, Reading, AfterToken, StdinNext, WorkerPC
  <2>2. Tail(wbuf) \in Seq(Token)
    BY <1>15, Rest DEF WorkerToken
  <2> QED
    BY <1>15, <2>1, <2>2 DEF WorkerToken
<1>16. CASE WorkerHup
  <2>1. Tail(c2w) \in Seq(WorkMsg)
    BY <1>16, Rest DEF WorkerHup
  <2>2. BadCode \in [ok : BOOLEAN, cookie : Conn \cup {NoConn}, rid : Conn \cup {NoConn}]
    BY DEF BadCode
  <2>3. Append(w2c, BadCode)
          \in Seq([ok : BOOLEAN, cookie : Conn \cup {NoConn}, rid : Conn \cup {NoConn}])
    BY <2>2, OneMore
  <2> QED
    BY <1>0, <1>16, <2>1, <2>3 DEF WorkerHup, NextRequest, LeftInBuffer, WorkerPC
<1>17. CASE WorkerHupBody \/ WorkerTrailer
  <2>1. c2w' \in Seq(WorkMsg)
    <3>1. c2w # <<>> /\ c2w' = Tail(c2w)
      BY <1>17 DEF WorkerHupBody, WorkerTrailer
    <3> QED
      BY <3>1, Rest
  <2>2. wpc' \in WorkerPC
    BY <1>17 DEF WorkerHupBody, WorkerTrailer, WorkerPC
  <2>3. UNCHANGED <<wbuf, wcookie, wsrc, w2c, c2a, a2c, w2a, mgrVars, netVars, ctlVars,
                    appVars>>
    BY <1>17 DEF WorkerHupBody, WorkerTrailer
  <2> QED
    BY <2>1, <2>2, <2>3
<1>18. CASE WorkerReply
  <2>1. Success(wcookie, wsrc)
          \in [ok : BOOLEAN, cookie : Conn \cup {NoConn}, rid : Conn \cup {NoConn}]
    BY DEF Success
  <2>2. w2c' \in Seq([ok : BOOLEAN, cookie : Conn \cup {NoConn}, rid : Conn \cup {NoConn}])
    <3>1. w2c' = w2c \/ w2c' = Append(w2c, Success(wcookie, wsrc))
      BY <1>18 DEF WorkerReply
    <3>2. Append(w2c, Success(wcookie, wsrc))
            \in Seq([ok : BOOLEAN, cookie : Conn \cup {NoConn}, rid : Conn \cup {NoConn}])
      BY <2>1, OneMore
    <3> QED
      BY <3>1, <3>2
  <2>3. wpc' \in WorkerPC
    BY <1>18 DEF WorkerReply, WorkerPC
  <2> QED
    BY <1>18, <2>2, <2>3 DEF WorkerReply
<1>19. CASE WorkerEof
  BY <1>19 DEF WorkerEof, WorkerPC
<1>20. CASE AppWait
  <2>1. c2a # <<>> => Tail(c2a) \in Seq(Conn) /\ Head(c2a) \in Conn
    BY Rest
  <2>2. apc' \in AppPC /\ c2a' \in Seq(Conn) /\ afd' \in Conn \cup {NoConn}
    BY <1>20, <2>1 DEF AppWait, AppPC
  <2> QED
    BY <1>20, <2>2 DEF AppWait
<1>21. CASE AppParse
  <2>1. Tail(w2a) \in Seq(Conn) /\ Head(w2a) \in Conn
    BY <1>21, Rest DEF AppParse
  <2> QED
    BY <1>21, <2>1 DEF AppParse, AppPC
<1>22. CASE AppParseFails
  BY <1>22 DEF AppParseFails, RunOut, AppPC, SessionAssumption
<1>23. CASE AppNoMemory
  BY <1>23 DEF AppNoMemory, RunOut, Abandoned, AppPC, SessionAssumption
<1>24. CASE AppDies \/ AppExit
  BY <1>24 DEF AppDies, AppExit, AppPC
<1>25. CASE AppFinish
  <2>1. a2c' \in Seq(Conn)
    BY <1>25, OneMore DEF AppFinish, GivesBack
  <2> QED
    BY <1>25, <2>1 DEF AppFinish, AppPC
<1>26. CASE WorkerSend
  <2>1. wpc = "send"
    BY <1>26 DEF WorkerSend
  <2>2. wsrc = handed /\ handed > 0
    BY <2>1 DEF Counted, Owned, AtRest, WorkerAtCookie, WorkerGone
  <2>3. Append(w2a, wsrc) \in Seq(Conn)
    BY <2>2, OneMore DEF Conn
  <2> QED
    BY <1>0, <1>26, <2>3 DEF WorkerSend, NextRequest, LeftInBuffer, WorkerPC
<1>27. CASE UNCHANGED vars
  BY <1>27 DEF vars
<1> QED
  BY <1>1, <1>2, <1>3, <1>4, <1>5, <1>6, <1>7, <1>8, <1>9, <1>10, <1>11, <1>12, <1>13, <1>14,
     <1>15, <1>16, <1>17, <1>18, <1>19, <1>20, <1>21, <1>22, <1>23, <1>24, <1>25, <1>26,
     <1>27
     DEF Next, Control, Work, App, NoMemory

-----------------------------------------------------------------------------
(* The connections *)

Where == Counted /\ Owned /\ Framed /\ Stage

LEMMA InitWhere == Init => Where
<1> SUFFICES ASSUME Init PROVE Where
  OBVIOUS
<1>1. AtRest
  BY DEF Init, AtRest, WorkerAtCookie, AppAway
<1>2. Counted
  BY <1>1 DEF Init, Counted, NoConn
<1>3. Owned
  BY DEF Init, Owned, WorkerGone
<1>4. Framed
  BY DEF Init, Framed
<1>5. Stage
  BY DEF Init, Stage
<1> QED
  BY <1>2, <1>3, <1>4, <1>5 DEF Where

\* While the last connection is in the three processes nobody else has it.
LEMMA Busy ==
  ASSUME TypeOK, Counted, ~AtRest
  PROVE  /\ handed \in 1..MaxConn /\ handed \in Nat \ {0} /\ handed # NoConn
         /\ filed = NoConn
         /\ acked = 1..(handed - 1) /\ acked # 1..handed
<1>1. filed = NoConn /\ acked # 1..handed
  BY DEF Counted
<1>2. handed > 0 /\ acked = 1..(handed - 1) /\ handed \in 0..MaxConn
  BY <1>1 DEF Counted, TypeOK
<1> QED
  BY <1>1, <1>2 DEF NoConn

\* The control process has it, unless it waits for one or is gone.
LEMMA BusyControl ==
  ASSUME TypeOK, Counted, cpc \in {"push", "verify", "pass", "wait", "recover"}
  PROVE  ~AtRest /\ cur = handed
BY DEF AtRest, Counted

\* A step within the three processes that starts or ends nothing.
LEMMA CountedKept ==
  ASSUME TypeOK, Counted, UNCHANGED mgrVars, AtRest => AtRest',
         cpc' \in {"idle", "accept"} => cpc \in {"idle", "accept"},
         cur' = IF cpc' \in {"idle", "accept", "exited"} THEN NoConn ELSE handed
  PROVE  Counted'
BY DEF Counted, mgrVars

-----------------------------------------------------------------------------
(* The manager and the client *)

LEMMA HandWhere == TypeOK /\ Where /\ Hand => Where'
<1> SUFFICES ASSUME TypeOK, Where, Hand PROVE Where'
  OBVIOUS
<1>1. AtRest /\ cpc \in {"idle", "accept"} /\ handed \in Nat
  BY DEF Where, Counted, Hand, AtRest, TypeOK
<1>2. /\ UNCHANGED <<ctlVars, chans, workVars, appVars>>
      /\ acked' = 1..handed /\ handed' = handed + 1 /\ filed' = handed + 1
  BY DEF Hand
<1>3. AtRest'
  BY <1>1, <1>2 DEF AtRest, WorkerAtCookie, WorkerGone, ControlGone, AppAway, ctlVars, chans,
                    workVars, appVars
<1>4. Counted'
  BY <1>1, <1>2, <1>3 DEF Counted, Where, ctlVars, NoConn
<1>5. c2w' = <<>> /\ w2c' = <<>> /\ c2a' = <<>> /\ a2c' = <<>> /\ w2a' = <<>>
      /\ wpc' = "cookie" /\ wbuf' = <<>> /\ cpc' \in {"idle", "accept"}
  BY <1>1, <1>2 DEF AtRest, WorkerAtCookie, ControlGone, Where, Framed, chans, workVars, ctlVars
<1>6. Owned' /\ Framed' /\ Stage'
  BY <1>5 DEF Owned, Framed, Stage
<1> QED
  BY <1>4, <1>6 DEF Where

LEMMA TakenElsewhereWhere == TypeOK /\ Where /\ TakenElsewhere => Where'
<1> SUFFICES ASSUME TypeOK, Where, TakenElsewhere PROVE Where'
  OBVIOUS
<1>1. AtRest /\ handed \in Nat \ {0} /\ acked = 1..(handed - 1)
  BY DEF Where, Counted, TakenElsewhere, TypeOK
<1>2. /\ UNCHANGED <<ctlVars, chans, workVars, appVars>>
      /\ acked' = 1..(handed - 1) /\ handed' = handed - 1 /\ filed' = NoConn
  BY <1>1 DEF TakenElsewhere
<1>3. AtRest'
  BY <1>1, <1>2 DEF AtRest, WorkerAtCookie, WorkerGone, ControlGone, AppAway, ctlVars, chans,
                    workVars, appVars
<1>4. Counted'
  <2>1. cur' = NoConn
    BY <1>1, <1>2 DEF Where, Counted, AtRest, ctlVars
  <2> QED
    BY <1>1, <1>2, <1>3, <2>1 DEF Counted, AtRest
<1>5. c2w' = <<>> /\ w2c' = <<>> /\ c2a' = <<>> /\ a2c' = <<>> /\ w2a' = <<>>
      /\ ((wpc' = "cookie" /\ wbuf' = <<>>) \/ WorkerGone')
      /\ cpc' \in {"idle", "accept", "exited"} /\ AppAway'
  BY <1>1, <1>2, <1>3 DEF AtRest, WorkerAtCookie, WorkerGone, Where, Framed, chans, workVars,
                          ctlVars
<1>6. Owned' /\ Framed' /\ Stage'
  BY <1>5 DEF Owned, Framed, Stage, WorkerGone
<1> QED
  BY <1>4, <1>6 DEF Where

\* Nothing of this says anything about what is between the client and the
\* control process, or about signals.
LEMMA OutsideWhere ==
  ASSUME TypeOK, Where,
         UNCHANGED <<managed, handed, filed, acked, ctlVars, chans, workVars, apc, afd, adata>>
  PROVE  Where'
<1> USE DEF ctlVars, chans, workVars
<1>1. AtRest' = AtRest /\ BeforePass' = BeforePass /\ Acknowledged' = Acknowledged
      /\ Received' = Received
  BY DEF AtRest, BeforePass, Acknowledged, Received, WorkerAtCookie, WorkerGone, ControlGone,
         AppAway
<1>2. Counted' /\ Owned' /\ Framed'
  BY <1>1 DEF Where, Counted, Owned, Framed, WorkerGone
<1>3. StagePush' = StagePush /\ StageVerify' = StageVerify /\ StageWait' = StageWait
  BY <1>1, Zenon DEF StagePush, StageVerify, StageWait, AppAway, WorkerGone
<1>4. Stage'
  BY <1>1, <1>3 DEF Where, Stage, AppAway
<1> QED
  BY <1>2, <1>4 DEF Where

-----------------------------------------------------------------------------
(* The control process *)

\* The control process goes from where it has no connection to where it has none,
\* or it is gone.
LEMMA ControlIdleWhere ==
  ASSUME TypeOK, Where, ControlStop \/ ControlPoll \/ ControlAgain
  PROVE  Where'
<1>1. AtRest /\ cpc \in {"idle", "accept"} /\ cur = NoConn
  BY DEF ControlStop, ControlPoll, ControlAgain, Where, Counted
<1>2. /\ UNCHANGED <<mgrVars, netVars, chans, workVars, appVars>>
      /\ cpc' \in {"idle", "accept", "exited"} /\ cur' = NoConn
  BY <1>1 DEF ControlStop, ControlPoll, ControlAgain, ControlExit
<1>3. AtRest'
  BY <1>1, <1>2 DEF AtRest, WorkerAtCookie, WorkerGone, ControlGone, AppAway, chans, workVars,
                    appVars
<1>4. Counted'
  BY <1>1, <1>2, <1>3, CountedKept DEF Where
<1>5. Owned' /\ Framed'
  BY <1>2 DEF Where, Owned, Framed, WorkerGone, mgrVars, chans, workVars
<1>6. Stage'
  BY <1>2, <1>3 DEF Stage, AtRest
<1> QED
  BY <1>4, <1>5, <1>6 DEF Where

LEMMA ControlFailsWhere ==
  ASSUME TypeOK, Where, ControlFails
  PROVE  Where'
<1>1. /\ UNCHANGED <<mgrVars, chans, workVars, appVars>>
      /\ cpc \in {"idle", "accept", "push"} /\ cpc' = "exited" /\ cur' = NoConn
  BY DEF ControlFails, ControlExit
<1>2. AtRest => AtRest'
  BY <1>1 DEF AtRest, WorkerAtCookie, WorkerGone, ControlGone, AppAway, chans, workVars,
              appVars
<1>3. Counted'
  BY <1>1, <1>2, CountedKept DEF Where
<1>4. Owned' /\ Framed'
  BY <1>1 DEF Where, Owned, Framed, WorkerGone, mgrVars, chans, workVars
<1>5. AppAway /\ a2c = <<>> /\ c2a = <<>>
  BY <1>1 DEF Where, Counted, AtRest, Stage, StagePush, BeforePass
<1>6. Stage'
  BY <1>1, <1>5 DEF Stage, AppAway, appVars, chans
<1> QED
  BY <1>3, <1>4, <1>6 DEF Where

\* The end of the control process while it has a connection.
LEMMA ControlGivesUpWhere ==
  ASSUME TypeOK, Where, ControlExit, UNCHANGED <<mgrVars, c2w, c2a, a2c, w2a, workVars, appVars>>,
         w2c' = w2c \/ w2c' = <<>>,
         cpc \in {"push", "verify", "pass", "wait", "recover"},
         AppAway, a2c = <<>>, apc = "wait" => c2a = <<>>
  PROVE  Where'
<1>1. cpc' = "exited" /\ cur' = NoConn
  BY DEF ControlExit
<1>2. Counted'
  BY <1>1, CountedKept, BusyControl DEF Where
<1>3. Owned' /\ Framed'
  BY <1>1 DEF Where, Owned, Framed, WorkerGone, mgrVars, chans, workVars
<1>4. Stage'
  BY <1>1 DEF Stage, AppAway, appVars, chans
<1> QED
  BY <1>2, <1>3, <1>4 DEF Where

LEMMA ControlTakeWhere ==
  ASSUME TypeOK, Where, ControlTake
  PROVE  Where'
<1>1. AtRest /\ cpc \in {"idle", "accept"} /\ cur = NoConn
      /\ filed = handed /\ filed \in Conn /\ handed \in Nat \ {0} /\ acked = 1..(handed - 1)
  BY DEF ControlTake, Where, Counted, TypeOK
<1>2. wpc = "cookie" /\ wbuf = <<>> /\ ~WorkerGone
  BY <1>1 DEF AtRest, WorkerAtCookie, WorkerGone, ControlGone, Where, Framed
<1>3. /\ cpc' = "push" /\ cur' = handed
      /\ c2w' = <<CookieMsg(handed)>>
      /\ filed' = NoConn
      /\ UNCHANGED <<handed, acked, w2c, c2a, a2c, w2a, workVars, appVars>>
  BY <1>1, <1>2, OneMessage DEF ControlTake, AtRest
<1>4. acked' # 1..handed'
  <2>1. handed \in 1..handed /\ handed \notin 1..(handed - 1)
    BY <1>1
  <2> QED
    BY <1>1, <1>3, <2>1
<1>5. Counted'
  BY <1>1, <1>3, <1>4 DEF Counted, NoConn
<1>6. \A i \in DOMAIN c2w' : i = 1 /\ c2w'[i] = CookieMsg(handed)
  BY <1>3, OneMessage
<1>7. Owned'
  BY <1>1, <1>2, <1>3, <1>6 DEF Owned, AtRest, CookieMsg, workVars
<1>8. Framed'
  BY <1>1, <1>2, <1>3, <1>6, OneMessage DEF Framed, CookieMsg, workVars
<1>9. Stage'
  BY <1>1, <1>2, <1>3, <1>6, OneMessage
     DEF Stage, StagePush, BeforePass, AppAway, AtRest, CookieMsg, workVars, appVars
<1> QED
  BY <1>5, <1>7, <1>8, <1>9 DEF Where

\* A frame more for the worker.
LEMMA FrameAdded ==
  ASSUME TypeOK, Where, cpc = "push", ~WorkerGone, NEW toks \in Seq(Token),
         c2w' = Append(c2w, Frame(cur, toks)),
         UNCHANGED <<handed, w2c, c2a, a2c, w2a, workVars>>
  PROVE  /\ Owned' /\ Framed' /\ c2w' # <<>>
         /\ toks # <<>> =>
              \A i \in DOMAIN c2w' : c2w'[i].t = "frame" => c2w'[i].toks # <<>>
<1>1. StagePush /\ ~AtRest /\ cur = handed /\ handed \in Conn
  BY BusyControl, Busy DEF Where, Stage, Conn
<1>2. Frame(cur, toks) \in WorkMsg
  BY <1>1, MessageTypes
<1>3. /\ c2w' # <<>> /\ Len(c2w) \in Nat /\ Len(c2w') = Len(c2w) + 1
      /\ DOMAIN c2w = 1..Len(c2w) /\ DOMAIN c2w' = 1..(Len(c2w) + 1)
      /\ \A i \in 1..Len(c2w) : c2w'[i] = c2w[i]
      /\ c2w'[Len(c2w) + 1] = Frame(handed, toks)
      /\ c2w # <<>> => Head(c2w') = Head(c2w)
  BY SMTT(30), <1>1, <1>2, OneMore DEF TypeOK
<1>4. Frame(handed, toks).t = "frame" /\ Frame(handed, toks).c = handed
      /\ Frame(handed, toks).toks = toks
  BY DEF Frame
<1>5. Owned'
  <2>1. \A i \in DOMAIN c2w' : c2w'[i].c = handed
    BY <1>3, <1>4 DEF Where, Owned
  <2> QED
    BY <2>1 DEF Where, Owned, workVars, WorkerGone
<1>6. Framed'
  <2>1. wpc = "cookie" => c2w # <<>>
    BY <1>1 DEF StagePush
  <2>2. wpc = "cookie" => wbuf = <<>> /\ Head(c2w').t = "cookie"
    BY <2>1, <1>3 DEF Where, Framed
  <2>3. wpc # "send"
    BY <1>1 DEF StagePush, WorkerGone
  <2>4. \A i \in DOMAIN c2w' : c2w'[i].t = "cookie" => i = 1 /\ wpc = "cookie"
    <3>1. \A i \in 1..Len(c2w) : c2w[i].t = "cookie" => i = 1 /\ wpc = "cookie"
      BY <1>3 DEF Where, Framed
    <3> QED
      BY <1>3, <1>4, <3>1
  <2>5. \A i \in DOMAIN c2w' : c2w'[i].t = "frame" /\ c2w'[i].toks = <<>> => i = Len(c2w')
    <3>1. \A i \in 1..Len(c2w) : c2w[i].t = "frame" => c2w[i].toks # <<>>
      BY <1>1, <1>3 DEF StagePush
    <3> QED
      BY <1>3, <3>1
  <2> QED
    BY <2>2, <2>3, <2>4, <2>5 DEF Framed, workVars
<1>7. ASSUME toks # <<>>
      PROVE  \A i \in DOMAIN c2w' : c2w'[i].t = "frame" => c2w'[i].toks # <<>>
  <2>1. \A i \in 1..Len(c2w) : c2w[i].t = "frame" => c2w[i].toks # <<>>
    BY <1>1, <1>3 DEF StagePush
  <2> QED
    BY <1>3, <1>4, <1>7, <2>1
<1> QED
  BY <1>3, <1>5, <1>6, <1>7

LEMMA ControlPushWhere ==
  ASSUME TypeOK, Where, ControlPush
  PROVE  Where'
<1>1. PICK n \in 1..Len(net) : c2w' = Append(c2w, Frame(cur, SubSeq(net, 1, n)))
  BY DEF ControlPush
<1>2. SubSeq(net, 1, n) \in Seq(Token) /\ SubSeq(net, 1, n) # <<>>
  <2>1. net \in Seq(Token) /\ Len(net) \in Nat
    BY LenProperties DEF TypeOK
  <2>2. SubSeq(net, 1, n) \in Seq(Token) /\ Len(SubSeq(net, 1, n)) = n
    BY <2>1, SubSeqProperties
  <2> QED
    BY <2>2, EmptySeq
<1>3. /\ cpc = "push" /\ cpc' = "push" /\ cur' = cur /\ w2c = <<>> /\ ~WorkerGone
      /\ UNCHANGED <<mgrVars, w2c, c2a, a2c, w2a, workVars, appVars>>
  BY DEF ControlPush, ctlVars
<1>4. /\ Owned' /\ Framed' /\ c2w' # <<>>
      /\ \A i \in DOMAIN c2w' : c2w'[i].t = "frame" => c2w'[i].toks # <<>>
  <2>1. UNCHANGED <<handed, w2c, c2a, a2c, w2a, workVars>>
    BY <1>3 DEF mgrVars
  <2> QED
    BY <1>1, <1>2, <1>3, <2>1, FrameAdded
<1>5. Counted'
  BY <1>3, CountedKept, BusyControl DEF Where
<1>6. StagePush'
  <2>1. StagePush
    BY <1>3 DEF Where, Stage
  <2> QED
    BY <1>3, <1>4, <2>1 DEF StagePush, BeforePass, AppAway, WorkerGone, mgrVars, workVars,
                            appVars
<1>7. Stage'
  BY <1>3, <1>6 DEF Stage
<1> QED
  BY <1>4, <1>5, <1>7 DEF Where

LEMMA ControlEndsRequestWhere ==
  ASSUME TypeOK, Where, ControlEnd \/ ControlHup
  PROVE  Where'
<1>1. /\ cpc = "push" /\ cpc' = "verify" /\ cur' = cur /\ ~WorkerGone
      /\ c2w' = Append(c2w, Frame(cur, <<>>))
      /\ UNCHANGED <<mgrVars, w2c, c2a, a2c, w2a, workVars, appVars>>
  BY DEF ControlEnd, ControlHup, EndFrame, HupFrame
<1>2. Owned' /\ Framed' /\ c2w' # <<>>
  <2>1. UNCHANGED <<handed, w2c, c2a, a2c, w2a, workVars>> /\ <<>> \in Seq(Token)
    BY <1>1 DEF mgrVars
  <2> QED
    BY <1>1, <2>1, FrameAdded
<1>3. Counted'
  BY <1>1, CountedKept, BusyControl DEF Where
<1>4. StageVerify'
  <2>1. StagePush
    BY <1>1 DEF Where, Stage
  <2> QED
    BY <1>1, <1>2, <2>1 DEF StagePush, StageVerify, BeforePass, AppAway, Acknowledged,
                            WorkerGone, mgrVars, workVars, appVars
<1>5. Stage'
  BY <1>1, <1>4 DEF Stage
<1> QED
  BY <1>2, <1>3, <1>5 DEF Where

LEMMA ControlLostWhere ==
  ASSUME TypeOK, Where, ControlLost
  PROVE  Where'
<1>1. cpc \in {"push", "verify"} /\ ControlExit
      /\ UNCHANGED <<mgrVars, chans, workVars, appVars>>
  BY DEF ControlLost
<1>2. AppAway /\ a2c = <<>> /\ c2a = <<>>
  BY <1>1 DEF Where, Stage, StagePush, StageVerify, BeforePass
<1> QED
  BY <1>1, <1>2, ControlGivesUpWhere DEF chans

LEMMA ControlVerifyWhere ==
  ASSUME TypeOK, Where, ControlVerify
  PROVE  Where'
<1>1. /\ cpc = "verify" /\ w2c # <<>> /\ w2c' = Tail(w2c)
      /\ UNCHANGED <<c2w, c2a, a2c, w2a, mgrVars, workVars, appVars>>
  BY DEF ControlVerify
<1>2. StageVerify /\ ~AtRest /\ cur = handed /\ handed # NoConn
  BY <1>1, BusyControl, Busy DEF Where, Stage
<1>3. w2c' = <<>>
  BY <1>1, <1>2, OneMessage DEF StageVerify
<1>4. Owned' /\ Framed'
  BY <1>1, <1>3 DEF Where, Owned, Framed, WorkerGone, mgrVars, workVars
<1>5. CASE w2c = <<BadCode>>
  <2>1. ~Head(w2c).ok
    BY <1>5, OneMessage DEF BadCode
  <2>2. cpc' = "recover" /\ cur' = cur
    BY <2>1 DEF ControlVerify, AfterRefusal
  <2>3. BadCode # Success(handed, handed) /\ <<BadCode>> # <<Success(handed, handed)>>
    BY DEF BadCode, Success
  <2>4. BeforePass /\ Received
    BY <1>1, <1>2, <1>5, <2>3 DEF StageVerify
  <2>5. Stage'
    BY <1>1, <1>3, <2>2, <2>4 DEF Stage, BeforePass, Received, WorkerAtCookie, AppAway,
                                  workVars, appVars
  <2>6. Counted'
    BY <1>1, <1>2, <2>2, CountedKept DEF Where
  <2> QED
    BY <1>4, <2>5, <2>6 DEF Where
<1>6. CASE w2c = <<Success(handed, handed)>>
  <2>1. Head(w2c).ok /\ Head(w2c).cookie = cur
    BY <1>2, <1>6, OneMessage DEF Success
  <2>2. cpc' = "pass" /\ cur' = cur
    BY <2>1 DEF ControlVerify
  <2>3. BadCode # Success(handed, handed) /\ <<BadCode>> # <<Success(handed, handed)>>
    BY DEF BadCode, Success
  <2>4. BeforePass /\ Acknowledged
    BY <1>1, <1>2, <1>6, <2>3 DEF StageVerify
  <2>5. Stage'
    BY <1>1, <1>3, <2>2, <2>4 DEF Stage, BeforePass, Acknowledged, WorkerAtCookie, WorkerGone,
                                  AppAway, mgrVars, workVars, appVars
  <2>6. Counted'
    BY <1>1, <1>2, <2>2, CountedKept DEF Where
  <2> QED
    BY <1>4, <2>5, <2>6 DEF Where
<1> QED
  BY <1>1, <1>2, <1>5, <1>6 DEF StageVerify

LEMMA ControlPassWhere ==
  ASSUME TypeOK, Where, ControlPass
  PROVE  Where'
<1>1. /\ cpc = "pass" /\ UNCHANGED <<c2w, w2c, a2c, w2a, mgrVars, workVars, appVars>>
  BY DEF ControlPass
<1>2. BeforePass /\ w2c = <<>> /\ Acknowledged /\ ~AtRest /\ cur = handed
  BY <1>1, BusyControl DEF Where, Stage
<1>3. CASE AppClosed
  <2>1. ControlExit /\ c2a' = c2a
    BY <1>3 DEF ControlPass
  <2> QED
    BY <1>1, <1>2, <2>1, ControlGivesUpWhere DEF BeforePass
<1>4. CASE ~AppClosed
  <2>1. cpc' = "wait" /\ c2a' = <<handed>> /\ cur' = cur
    BY <1>2, <1>4 DEF ControlPass, BeforePass
  <2>2. Counted'
    BY <1>1, <1>2, <2>1, CountedKept DEF Where
  <2>3. \A i \in DOMAIN c2a' : c2a'[i] = handed
    BY <2>1, OneMessage
  <2>4. Owned' /\ Framed'
    BY <1>1, <2>1, <2>3 DEF Where, Owned, Framed, WorkerGone, mgrVars, workVars
  <2>5. StageWait'
    BY <1>1, <1>2, <2>1 DEF StageWait, BeforePass, Acknowledged, WorkerAtCookie, WorkerGone,
                            AppAway, mgrVars, workVars, appVars
  <2>6. Stage'
    BY <2>1, <2>5 DEF Stage
  <2> QED
    BY <2>2, <2>4, <2>6 DEF Where
<1> QED
  BY <1>3, <1>4

LEMMA ControlWaitWhere ==
  ASSUME TypeOK, Where, ControlWait
  PROVE  Where'
<1>1. /\ cpc = "wait" /\ a2c # <<>> /\ a2c' = Tail(a2c)
      /\ UNCHANGED <<c2w, w2c, c2a, w2a, mgrVars, workVars, appVars>>
  BY DEF ControlWait, ControlDone
<1>2. ~AtRest /\ cur = handed
  BY <1>1, BusyControl DEF Where
<1>3. /\ w2c = <<>> /\ c2a = <<>> /\ AppAway /\ a2c = <<handed>> /\ Received
  BY <1>1 DEF Where, Stage, StageWait
<1>4. a2c' = <<>> /\ Head(a2c) = handed
  BY <1>1, <1>3, OneMessage
<1>5. cpc' = "recover" /\ cur' = cur
  BY <1>1, <1>2, <1>4 DEF ControlWait
<1>6. Counted'
  BY <1>1, <1>2, <1>5, CountedKept DEF Where
<1>7. Owned' /\ Framed'
  BY <1>1, <1>4 DEF Where, Owned, Framed, WorkerGone, mgrVars, workVars
<1>8. Stage'
  BY <1>1, <1>3, <1>4, <1>5 DEF Stage, BeforePass, Received, WorkerAtCookie, AppAway, workVars,
                                appVars
<1> QED
  BY <1>6, <1>7, <1>8 DEF Where

LEMMA ControlWaitLostWhere ==
  ASSUME TypeOK, Where, ControlWaitLost
  PROVE  Where'
<1>1. cpc = "wait" /\ a2c = <<>> /\ AppClosed /\ ControlExit
      /\ UNCHANGED <<mgrVars, chans, workVars, appVars>>
  BY DEF ControlWaitLost
<1>2. AppAway
  BY <1>1 DEF Where, Stage, StageWait, AppAway, AppClosed
<1>3. apc # "wait"
  BY <1>1 DEF AppClosed
<1> QED
  BY <1>1, <1>2, <1>3, ControlGivesUpWhere DEF chans

LEMMA ControlRecoverWhere ==
  ASSUME TypeOK, Where, ControlRecover
  PROVE  Where'
<1>1. /\ cpc = "recover"
      /\ UNCHANGED <<managed, handed, filed, mgrOpen, chans, workVars, appVars>>
  BY DEF ControlRecover
<1>2. BeforePass /\ w2c = <<>> /\ Received /\ ~AtRest /\ cur = handed
      /\ handed \in Nat \ {0} /\ filed = NoConn /\ acked = 1..(handed - 1)
  BY <1>1, BusyControl, Busy DEF Where, Stage
<1>3. CASE mgrOpen \/ ~managed
  <2>1. acked' = acked \cup {handed} /\ cpc' = "idle" /\ cur' = NoConn
    BY <1>2, <1>3 DEF ControlRecover
  <2>2. acked' = 1..handed
    BY <1>2, <2>1
  <2>3. AtRest'
    BY <1>1, <1>2, <2>1 DEF AtRest, BeforePass, Received, WorkerAtCookie, AppAway, chans,
                            workVars, appVars
  <2>4. Counted'
    BY <1>1, <1>2, <2>1, <2>2, <2>3 DEF Counted, NoConn
  <2>5. Owned' /\ Framed'
    BY <1>1 DEF Where, Owned, Framed, WorkerGone, chans, workVars
  <2>6. Stage'
    BY <2>1 DEF Stage
  <2> QED
    BY <2>4, <2>5, <2>6 DEF Where
<1>4. CASE ~(mgrOpen \/ ~managed)
  <2>1. ControlExit /\ acked' = acked
    BY <1>4 DEF ControlRecover
  <2> QED
    BY <1>1, <1>2, <2>1, ControlGivesUpWhere DEF BeforePass, mgrVars, chans
<1> QED
  BY <1>3, <1>4

-----------------------------------------------------------------------------
(* The worker *)

\* As long as it is not gone it has no more than one connection in its hands, and
\* none before its cookie came.
LEMMA WorkerBusy ==
  ASSUME TypeOK, Where, ~WorkerGone, wpc # "cookie" \/ c2w # <<>>
  PROVE  ~AtRest /\ handed \in Nat \ {0} /\ handed # NoConn /\ handed \in Conn
BY Busy DEF AtRest, WorkerAtCookie, Where, Conn

\* The worker takes a message.
LEMMA Taken ==
  ASSUME TypeOK, Where, c2w # <<>>, c2w' = Tail(c2w)
  PROVE  /\ Head(c2w) \in WorkMsg /\ Head(c2w).c = handed
         /\ wpc # "cookie" /\ ~WorkerGone => Head(c2w).t = "frame"
         /\ \A i \in DOMAIN c2w' : c2w'[i].c = handed /\ c2w'[i].t = "frame"
         /\ \A i \in DOMAIN c2w' : c2w'[i].toks = <<>> => i = Len(c2w')
         /\ Head(c2w).t = "frame" /\ Head(c2w).toks = <<>> => c2w' = <<>>
         /\ (\A i \in DOMAIN c2w : c2w[i].t = "frame" => c2w[i].toks # <<>>) =>
               \A i \in DOMAIN c2w' : c2w'[i].t = "frame" => c2w'[i].toks # <<>>
<1>1. /\ Head(c2w) \in WorkMsg /\ Head(c2w) = c2w[1] /\ 1 \in DOMAIN c2w
      /\ Tail(c2w) \in Seq(WorkMsg)
      /\ Len(c2w) \in Nat \ {0} /\ Len(Tail(c2w)) = Len(c2w) - 1
      /\ \A i \in DOMAIN Tail(c2w) : i + 1 \in DOMAIN c2w /\ Tail(c2w)[i] = c2w[i + 1]
      /\ Len(c2w) = 1 => Tail(c2w) = <<>>
  BY Rest DEF TypeOK
<1>2. DOMAIN c2w' = 1..Len(c2w') /\ \A i \in DOMAIN c2w' : c2w'[i] \in WorkMsg
  BY <1>1, LenProperties, ElementOfSeq
<1>3. \A m \in WorkMsg : m.t \in {"cookie", "frame"}
  BY DEF WorkMsg
<1>4. \A i \in DOMAIN c2w' : c2w'[i].c = handed
  BY <1>1 DEF Where, Owned
<1>5. \A i \in DOMAIN c2w' : c2w'[i].t = "frame"
  <2> SUFFICES ASSUME NEW i \in DOMAIN c2w', c2w'[i].t = "cookie" PROVE FALSE
    BY <1>2, <1>3
  <2>1. i + 1 \in DOMAIN c2w /\ c2w[i + 1].t = "cookie" /\ i \in 1..Len(c2w')
    BY <1>1, <1>2
  <2>2. i + 1 = 1
    BY <2>1 DEF Where, Framed
  <2> QED
    BY <2>1, <2>2
<1>6. \A i \in DOMAIN c2w' : c2w'[i].toks = <<>> => i = Len(c2w')
  <2> SUFFICES ASSUME NEW i \in DOMAIN c2w', c2w'[i].toks = <<>> PROVE i = Len(c2w')
    OBVIOUS
  <2>1. i + 1 \in DOMAIN c2w /\ c2w[i + 1].t = "frame" /\ c2w[i + 1].toks = <<>>
        /\ i \in 1..Len(c2w')
    BY <1>1, <1>2, <1>5
  <2>2. i + 1 = Len(c2w)
    BY <2>1 DEF Where, Framed
  <2> QED
    BY <1>1, <2>1, <2>2
<1>7. Head(c2w).t = "frame" /\ Head(c2w).toks = <<>> => c2w' = <<>>
  BY <1>1 DEF Where, Framed
<1>8. wpc # "cookie" /\ ~WorkerGone => Head(c2w).t = "frame"
  BY <1>1, <1>3 DEF Where, Framed
<1>9. Head(c2w).c = handed
  BY <1>1 DEF Where, Owned
<1> QED
  BY <1>1, <1>4, <1>5, <1>6, <1>7, <1>8, <1>9

\* A step of the worker in which the control process has its connection.
LEMMA WorkerCounted ==
  ASSUME TypeOK, Where, ~AtRest, UNCHANGED <<mgrVars, ctlVars>>
  PROVE  Counted'
<1>1. cur' = IF cpc' \in {"idle", "accept", "exited"} THEN NoConn ELSE handed
  BY DEF Where, Counted, ctlVars
<1> QED
  BY <1>1, CountedKept DEF Where, ctlVars

LEMMA WorkerCookieWhere ==
  ASSUME TypeOK, Where, WorkerCookie
  PROVE  Where'
<1>1. /\ wpc = "cookie" /\ c2w # <<>> /\ c2w' = Tail(c2w)
      /\ wpc' = "bgn" /\ wcookie' = Head(c2w).c /\ wbuf' = wbuf
      /\ UNCHANGED <<w2c, c2a, a2c, w2a, mgrVars, ctlVars, appVars>>
  BY DEF WorkerCookie
<1>2. ~WorkerGone /\ ~AtRest
  BY <1>1, WorkerBusy DEF WorkerGone
<1>3. Counted'
  BY <1>1, <1>2, WorkerCounted
<1>4. /\ Head(c2w).c = handed
      /\ \A i \in DOMAIN c2w' : c2w'[i].c = handed /\ c2w'[i].t = "frame"
      /\ \A i \in DOMAIN c2w' : c2w'[i].toks = <<>> => i = Len(c2w')
  BY <1>1, Taken
<1>5. wbuf' = <<>>
  BY <1>1 DEF Where, Framed
<1>6. Owned'
  BY <1>1, <1>4, <1>5 DEF Where, Owned, mgrVars
<1>7. Framed'
  BY <1>1, <1>4 DEF Framed
<1>8. Stage'
  <2>1. cpc = "push" => StagePush'
    BY <1>1, <1>2, Taken DEF Where, Stage, StagePush, BeforePass, AppAway, WorkerGone, mgrVars,
                             appVars
  <2>2. cpc = "verify" => StageVerify'
    BY <1>1, <1>2 DEF Where, Stage, StageVerify, BeforePass, AppAway, Received, Acknowledged,
                      WorkerAtCookie, WorkerGone, mgrVars, appVars
  <2>3. cpc \notin {"pass", "wait", "recover"}
    BY <1>1, <1>2 DEF Where, Stage, StageWait, Received, Acknowledged, WorkerAtCookie
  <2>4. cpc = "exited" => AppAway' /\ a2c' = <<>> /\ (apc' = "wait" => c2a' = <<>>)
    BY <1>1 DEF Where, Stage, AppAway, appVars
  <2> QED
    BY <1>1, <2>1, <2>2, <2>3, <2>4 DEF Stage, ctlVars
<1> QED
  BY <1>3, <1>6, <1>7, <1>8 DEF Where

\* While it reads a request the control process sends that, or its end, or is gone.
LEMMA WhileReading ==
  ASSUME TypeOK, Where, Reading \/ wpc = "reply"
  PROVE  /\ ~AtRest /\ ~WorkerGone /\ handed # NoConn
         /\ cpc \in {"push", "verify", "exited"}
         /\ cpc = "push" => StagePush /\ w2c = <<>>
         /\ cpc = "verify" => BeforePass /\ w2c = <<>> /\ w2a = <<>>
         /\ cpc = "exited" => AppAway /\ a2c = <<>> /\ (apc = "wait" => c2a = <<>>)
         /\ wcookie = handed
         /\ wpc # "bgn" \/ wbuf # <<>> => wsrc = handed
<1>1. ~WorkerGone /\ wpc \notin {"cookie", "trailer", "send"}
  BY DEF Reading, WorkerGone
<1>2. ~AtRest /\ handed # NoConn
  BY <1>1, WorkerBusy
<1>3. cpc \notin {"idle", "accept"}
  BY <1>2 DEF Where, Counted
<1>4. cpc \notin {"pass", "wait", "recover"}
  BY <1>1 DEF Where, Stage, StageWait, Received, Acknowledged, WorkerAtCookie
<1>5. cpc \in {"push", "verify", "exited"}
  BY <1>3, <1>4 DEF TypeOK, ControlPC
<1>6. cpc = "push" => StagePush /\ w2c = <<>>
  BY <1>1 DEF Where, Stage, StagePush
<1>7. cpc = "verify" => BeforePass /\ w2c = <<>> /\ w2a = <<>>
  BY <1>1 DEF Where, Stage, StageVerify, Received, Acknowledged, WorkerAtCookie
<1>8. cpc = "exited" => AppAway /\ a2c = <<>> /\ (apc = "wait" => c2a = <<>>)
  BY DEF Where, Stage
<1>9. wcookie = handed /\ (wpc # "bgn" \/ wbuf # <<>> => wsrc = handed)
  BY <1>1 DEF Where, Owned
<1> QED
  BY <1>1, <1>2, <1>5, <1>6, <1>7, <1>8, <1>9

\* It goes on reading, or it gives up.
LEMMA ReadingWhere ==
  ASSUME TypeOK, Where, Reading \/ wpc = "reply",
         wpc' \notin {"cookie", "trailer", "send"},
         wpc' \in {"exited", "crashed"} \/
           (wcookie' = wcookie /\ (wpc' # "bgn" \/ wbuf' # <<>> => wsrc' = handed)),
         c2w' = c2w \/ (c2w # <<>> /\ c2w' = Tail(c2w)),
         UNCHANGED <<w2c, c2a, a2c, w2a, mgrVars, ctlVars, appVars>>
  PROVE  Where'
<1>1. Counted'
  BY WhileReading, WorkerCounted
<1>2. /\ \A i \in DOMAIN c2w' : c2w'[i].c = handed
      /\ \A i \in DOMAIN c2w' :
           c2w'[i].t = "cookie" => i = 1 /\ (wpc' = "cookie" \/ WorkerGone')
      /\ \A i \in DOMAIN c2w' : c2w'[i].t = "frame" /\ c2w'[i].toks = <<>> => i = Len(c2w')
  <2>1. CASE c2w' = c2w
    <3>1. \A i \in DOMAIN c2w : c2w[i].t # "cookie"
      BY WhileReading DEF Where, Framed, Reading
    <3> QED
      BY <2>1, <3>1 DEF Where, Owned, Framed
  <2>2. CASE c2w # <<>> /\ c2w' = Tail(c2w)
    BY <2>2, Taken
  <2> QED
    BY <2>1, <2>2
<1>3. Owned'
  BY <1>2, WhileReading DEF Where, Owned, WorkerGone, mgrVars
<1>4. Framed'
  BY <1>2 DEF Framed
<1>5. ASSUME cpc = "push" PROVE StagePush'
  <2>1. StagePush /\ w2c = <<>>
    BY <1>5, WhileReading
  <2>2. \A i \in DOMAIN c2w' : c2w'[i].t = "frame" => c2w'[i].toks # <<>>
    BY <2>1, Taken DEF StagePush
  <2> QED
    BY <2>1, <2>2 DEF StagePush, BeforePass, AppAway, mgrVars, appVars
<1>6. cpc = "verify" => StageVerify'
  BY WhileReading DEF StageVerify, BeforePass, AppAway, appVars
<1>7. cpc = "exited" => AppAway' /\ a2c' = <<>> /\ (apc' = "wait" => c2a' = <<>>)
  BY WhileReading DEF AppAway, appVars
<1>8. Stage'
  BY <1>5, <1>6, <1>7, WhileReading DEF Stage, ctlVars
<1> QED
  BY <1>1, <1>3, <1>4, <1>8 DEF Where

LEMMA WorkerFillWhere ==
  ASSUME TypeOK, Where, WorkerFill
  PROVE  Where'
<1>1. /\ Reading /\ c2w # <<>> /\ c2w' = Tail(c2w) /\ wsrc' = Head(c2w).c
      /\ UNCHANGED <<wpc, wcookie, w2c, c2a, a2c, w2a, mgrVars, ctlVars, appVars>>
  BY DEF WorkerFill
<1>2. wsrc' = handed
  BY <1>1, Taken
<1>3. wpc' \notin {"cookie", "trailer", "send"}
  BY <1>1 DEF Reading
<1> QED
  BY <1>1, <1>2, <1>3, ReadingWhere

LEMMA WorkerTokenWhere ==
  ASSUME TypeOK, Where, WorkerToken
  PROVE  Where'
<1>1. /\ Reading /\ wbuf # <<>> /\ wpc' = AfterToken(Head(wbuf))
      /\ UNCHANGED <<wcookie, wsrc, chans, mgrVars, ctlVars, appVars>>
  BY DEF WorkerToken
<1>2. wsrc = handed
  BY <1>1, WhileReading
<1>3. wpc' \notin {"cookie", "trailer", "send"}
  BY <1>1 DEF Reading, AfterToken, StdinNext
<1>4. UNCHANGED <<c2w, w2c, c2a, a2c, w2a>>
  BY <1>1 DEF chans
<1> QED
  BY <1>1, <1>2, <1>3, <1>4, ReadingWhere

LEMMA WorkerHupBodyWhere ==
  ASSUME TypeOK, Where, WorkerHupBody
  PROVE  Where'
<1>1. /\ wpc \in {"bgnb", "inb", "pad"} /\ c2w # <<>> /\ c2w' = Tail(c2w)
      /\ wpc' \in {"reply", "crashed"}
      /\ UNCHANGED <<wbuf, wcookie, wsrc, w2c, c2a, a2c, w2a, mgrVars, ctlVars, appVars>>
  BY DEF WorkerHupBody
<1>2. Reading
  BY <1>1 DEF Reading
<1>3. wsrc' = handed
  BY <1>1, <1>2, WhileReading
<1> QED
  BY <1>1, <1>2, <1>3, ReadingWhere

\* The request ends before its time.  Nothing but its end was still to be read.
LEMMA WorkerHupWhere ==
  ASSUME TypeOK, Where, WorkerHup
  PROVE  Where'
<1>1. /\ wpc \in HupParts /\ c2w # <<>> /\ Head(c2w).toks = <<>> /\ c2w' = Tail(c2w)
      /\ w2c' = Append(w2c, BadCode)
      /\ wpc' = "cookie" /\ wbuf' = <<>>
      /\ UNCHANGED <<c2a, a2c, w2a, mgrVars, ctlVars, appVars>>
  BY DEF WorkerHup, NextRequest, LeftInBuffer
<1>2. Reading
  BY <1>1 DEF HupParts, Reading
<1>3. Head(c2w).t = "frame" /\ c2w' = <<>> /\ 1 \in DOMAIN c2w /\ Head(c2w) = c2w[1]
  <2>1. Head(c2w).t = "frame"
    BY <1>1, <1>2, WhileReading, Taken DEF Reading
  <2>2. 1 \in DOMAIN c2w /\ Head(c2w) = c2w[1]
    BY <1>1, Rest DEF TypeOK
  <2> QED
    BY <1>1, <2>1, <2>2, Taken
<1>4. cpc \in {"verify", "exited"}
  BY <1>1, <1>2, <1>3, WhileReading DEF StagePush
<1>5. Counted'
  BY <1>1, <1>2, WhileReading, WorkerCounted
<1>6. Owned'
  <2>1. /\ Len(w2c) \in Nat /\ DOMAIN w2c = 1..Len(w2c)
        /\ DOMAIN w2c' = 1..(Len(w2c) + 1)
        /\ \A i \in 1..Len(w2c) : w2c'[i] = w2c[i]
        /\ w2c'[Len(w2c) + 1] = BadCode
    <3>1. BadCode \in [ok : BOOLEAN, cookie : Conn \cup {NoConn}, rid : Conn \cup {NoConn}]
      BY DEF BadCode
    <3> QED
      BY <1>1, <3>1, OneMore DEF TypeOK
  <2>2. \A i \in DOMAIN w2c' : w2c'[i] \in {BadCode, Success(handed, handed)}
    BY <2>1 DEF Where, Owned
  <2> QED
    BY <1>1, <1>3, <2>2 DEF Where, Owned, mgrVars
<1>7. Framed'
  BY <1>1, <1>3 DEF Framed
<1>8. cpc = "verify" => StageVerify'
  BY <1>1, <1>2, <1>3, WhileReading, OneMessage
     DEF StageVerify, BeforePass, AppAway, Received, WorkerAtCookie, appVars
<1>9. cpc = "exited" => AppAway' /\ a2c' = <<>> /\ (apc' = "wait" => c2a' = <<>>)
  BY <1>1, <1>2, WhileReading DEF AppAway, appVars
<1>10. Stage'
  BY <1>1, <1>4, <1>8, <1>9 DEF Stage, ctlVars
<1> QED
  BY <1>5, <1>6, <1>7, <1>10 DEF Where

LEMMA WorkerReplyWhere ==
  ASSUME TypeOK, Where, WorkerReply
  PROVE  Where'
<1>1. wpc = "reply"
      /\ UNCHANGED <<wbuf, wcookie, wsrc, c2w, c2a, a2c, w2a, mgrVars, ctlVars, appVars>>
  BY DEF WorkerReply
<1>2. CASE ControlGone
  <2>1. wpc' = "exited" /\ w2c' = w2c
    BY <1>2 DEF WorkerReply
  <2> QED
    BY <1>1, <2>1, ReadingWhere
<1>3. CASE ~ControlGone
  <2>1. wpc' = "trailer" /\ w2c' = Append(w2c, Success(wcookie, wsrc))
    BY <1>3 DEF WorkerReply
  <2>2. w2c = <<>> /\ wcookie = handed /\ wsrc = handed /\ ~AtRest
        /\ cpc \in {"push", "verify"}
    BY <1>1, <1>3, WhileReading DEF ControlGone
  <2>3. w2c' = <<Success(handed, handed)>>
    BY <2>1, <2>2
  <2>4. Counted'
    BY <1>1, <2>2, WorkerCounted
  <2>5. \A i \in DOMAIN w2c' : w2c'[i] = Success(handed, handed)
    BY <2>3, OneMessage
  <2>6. Owned' /\ Framed'
    BY <1>1, <2>1, <2>2, <2>5 DEF Where, Owned, Framed, WorkerGone, mgrVars
  <2>7. cpc = "push" => StagePush'
    BY <1>1, <2>1, <2>3, WhileReading, OneMessage
       DEF StagePush, BeforePass, AppAway, mgrVars, appVars
  <2>8. cpc = "verify" => StageVerify'
    BY <1>1, <2>1, <2>3, WhileReading
       DEF StageVerify, BeforePass, AppAway, Acknowledged, mgrVars, appVars
  <2>9. Stage'
    BY <1>1, <2>2, <2>7, <2>8 DEF Stage, ctlVars
  <2> QED
    BY <2>4, <2>6, <2>9 DEF Where
<1> QED
  BY <1>2, <1>3

\* The worker has acknowledged the request and is still there: the control process
\* and the application go on, and whatever becomes of the worker now they have to
\* cope with.
LEMMA WhileAcknowledging ==
  ASSUME TypeOK, Where, wpc \in {"trailer", "send"}
  PROVE  /\ ~AtRest /\ ~WorkerGone /\ handed # NoConn /\ handed \in Conn
         /\ cpc \in {"push", "verify", "pass", "wait", "exited"}
         /\ cpc = "push" => wpc = "trailer" /\ StagePush
         /\ cpc \in {"verify", "pass", "wait"} => w2a = <<>>
         /\ wcookie = handed /\ wsrc = handed
<1>1. ~WorkerGone /\ wpc # "cookie" /\ wpc # "bgn"
  BY DEF WorkerGone
<1>2. ~AtRest /\ handed # NoConn /\ handed \in Conn
  BY <1>1, WorkerBusy
<1>3. cpc \notin {"idle", "accept", "recover"}
  BY <1>1, <1>2 DEF Where, Counted, Stage, Received, WorkerAtCookie
<1>4. cpc = "push" => wpc = "trailer" /\ StagePush
  BY <1>1 DEF Where, Stage, StagePush
<1>5. cpc \in {"verify", "pass", "wait"} => w2a = <<>>
  BY <1>1 DEF Where, Stage, StageVerify, StageWait, Acknowledged, Received, WorkerAtCookie
<1>6. wcookie = handed /\ wsrc = handed
  BY <1>1 DEF Where, Owned
<1> QED
  BY <1>1, <1>2, <1>3, <1>4, <1>5, <1>6 DEF TypeOK, ControlPC

\* What it does next keeps its part of the bargain.
LEMMA AcknowledgedWhere ==
  ASSUME TypeOK, Where, wpc \in {"trailer", "send"}, Owned', Framed',
         UNCHANGED <<w2c, c2a, a2c, mgrVars, ctlVars, appVars>>,
         cpc = "push" => StagePush',
         cpc \in {"verify", "pass", "wait"} => Acknowledged'
  PROVE  Where'
<1>1. Counted'
  BY WhileAcknowledging, WorkerCounted
<1>2. ASSUME cpc = "verify" PROVE StageVerify'
  <2>1. BeforePass /\ w2c = <<Success(handed, handed)>>
    BY <1>2 DEF Where, Stage, StageVerify, Received, WorkerAtCookie
  <2> QED
    BY <1>2, <2>1 DEF StageVerify, BeforePass, AppAway, mgrVars, appVars
<1>3. ASSUME cpc = "wait" PROVE StageWait'
  <2>1. StageWait /\ ~Received
    BY <1>3 DEF Where, Stage, Received, WorkerAtCookie
  <2> QED
    BY <1>3, <2>1 DEF StageWait, AppAway, mgrVars, appVars
<1>4. cpc = "pass" => BeforePass' /\ w2c' = <<>> /\ Acknowledged'
  BY DEF Where, Stage, BeforePass, AppAway, appVars
<1>5. cpc = "exited" => AppAway' /\ a2c' = <<>> /\ (apc' = "wait" => c2a' = <<>>)
  BY DEF Where, Stage, AppAway, appVars
<1>6. Stage'
  BY <1>2, <1>3, <1>4, <1>5, WhileAcknowledging DEF Stage, ctlVars
<1> QED
  BY <1>1, <1>6 DEF Where

LEMMA WorkerTrailerWhere ==
  ASSUME TypeOK, Where, WorkerTrailer
  PROVE  Where'
<1>1. /\ wpc = "trailer" /\ c2w # <<>> /\ c2w' = Tail(c2w)
      /\ wpc' = IF Head(c2w).toks = <<>> THEN "send" ELSE "exited"
      /\ UNCHANGED <<wbuf, wcookie, wsrc, w2c, c2a, a2c, w2a, mgrVars, ctlVars, appVars>>
  BY DEF WorkerTrailer
<1>2. /\ Head(c2w).t = "frame" /\ 1 \in DOMAIN c2w /\ Head(c2w) = c2w[1]
      /\ \A i \in DOMAIN c2w' : c2w'[i].c = handed /\ c2w'[i].t = "frame"
      /\ \A i \in DOMAIN c2w' : c2w'[i].toks = <<>> => i = Len(c2w')
      /\ Head(c2w).toks = <<>> => c2w' = <<>>
  <2>1. 1 \in DOMAIN c2w /\ Head(c2w) = c2w[1]
    BY <1>1, Rest DEF TypeOK
  <2>2. wpc # "cookie" /\ ~WorkerGone
    BY <1>1 DEF WorkerGone
  <2> QED
    BY <1>1, <2>1, <2>2, Taken
<1>3. Owned'
  BY <1>1, <1>2, WhileAcknowledging DEF Where, Owned, mgrVars
<1>4. Framed'
  BY <1>1, <1>2 DEF Framed
<1>5. ASSUME cpc = "push" PROVE StagePush'
  <2>1. StagePush /\ w2c # <<>>
    BY <1>1, <1>5, WhileAcknowledging DEF StagePush
  <2>2. wpc' = "exited"
    BY <1>1, <1>2, <2>1 DEF StagePush
  <2>3. \A i \in DOMAIN c2w' : c2w'[i].t = "frame" => c2w'[i].toks # <<>>
    BY <1>1, <2>1, Taken DEF StagePush
  <2> QED
    BY <1>1, <2>1, <2>2, <2>3 DEF StagePush, BeforePass, AppAway, WorkerGone, mgrVars, appVars
<1>6. cpc \in {"verify", "pass", "wait"} => Acknowledged'
  BY <1>1, WhileAcknowledging DEF Acknowledged, WorkerGone
<1> QED
  BY <1>1, <1>3, <1>4, <1>5, <1>6, AcknowledgedWhere

LEMMA WorkerSendWhere ==
  ASSUME TypeOK, Where, WorkerSend
  PROVE  Where'
<1>1. wpc = "send" /\ c2w = <<>> /\ UNCHANGED <<c2w, w2c, c2a, a2c, mgrVars, ctlVars, appVars>>
  BY DEF WorkerSend, Where, Framed
<1>2. cpc # "push" /\ wsrc = handed /\ handed \in Conn
  BY <1>1, WhileAcknowledging
<1>3. CASE AppClosed
  <2>1. wpc' = "exited" /\ UNCHANGED <<w2a, wbuf, wcookie, wsrc>>
    BY <1>3 DEF WorkerSend
  <2>2. Owned' /\ Framed'
    BY <1>1, <2>1 DEF Where, Owned, Framed, WorkerGone, mgrVars
  <2>3. cpc \in {"verify", "pass", "wait"} => Acknowledged'
    BY <1>1, <2>1, WhileAcknowledging DEF Acknowledged, WorkerGone
  <2> QED
    BY <1>1, <1>2, <2>2, <2>3, AcknowledgedWhere
<1>4. CASE ~AppClosed
  <2>1. w2a' = Append(w2a, handed) /\ wpc' = "cookie" /\ wbuf' = <<>>
    BY <1>2, <1>4 DEF WorkerSend, NextRequest, LeftInBuffer
  <2>2. \A i \in DOMAIN w2a' : w2a'[i] = handed
    <3>1. /\ DOMAIN w2a = 1..Len(w2a) /\ Len(w2a) \in Nat
          /\ DOMAIN w2a' = 1..(Len(w2a) + 1)
          /\ \A i \in 1..Len(w2a) : w2a'[i] = w2a[i]
          /\ w2a'[Len(w2a) + 1] = handed
      BY <1>2, <2>1, OneMore DEF TypeOK
    <3> QED
      BY <3>1 DEF Where, Owned
  <2>3. Owned' /\ Framed'
    BY <1>1, <2>1, <2>2 DEF Where, Owned, Framed, WorkerGone, mgrVars
  <2>4. ASSUME cpc \in {"verify", "pass", "wait"} PROVE Acknowledged'
    <3>1. w2a = <<>>
      BY <1>1, <2>4, WhileAcknowledging
    <3>2. w2a' = <<handed>>
      BY <2>1, <3>1
    <3> QED
      BY <1>1, <2>1, <3>2 DEF Acknowledged, WorkerAtCookie, mgrVars
  <2> QED
    BY <1>1, <1>2, <2>3, <2>4, AcknowledgedWhere
<1> QED
  BY <1>3, <1>4

LEMMA WorkerEofWhere ==
  ASSUME TypeOK, Where, WorkerEof
  PROVE  Where'
<1>1. /\ c2w = <<>> /\ cpc = "exited" /\ wpc' = "exited"
      /\ UNCHANGED <<wbuf, wcookie, wsrc, chans, mgrVars, ctlVars, appVars>>
  BY DEF WorkerEof, ControlGone
<1>2. AtRest => AtRest'
  BY <1>1 DEF AtRest, AppAway, ControlGone, WorkerGone, chans, ctlVars, appVars
<1>3. Counted'
  BY <1>1, <1>2, CountedKept DEF Where, Counted, ctlVars
<1>4. Owned' /\ Framed'
  BY <1>1 DEF Where, Owned, Framed, WorkerGone, chans, mgrVars
<1>5. Stage'
  BY <1>1 DEF Where, Stage, AppAway, chans, ctlVars, appVars
<1> QED
  BY <1>3, <1>4, <1>5 DEF Where

-----------------------------------------------------------------------------
(* The application *)

\* The application does something that concerns neither the worker nor, at the
\* time, the control process.
LEMMA AppAwayWhere ==
  ASSUME TypeOK, Where, AppAway, AppAway',
         apc' = "wait" => apc = "wait" /\ c2a' = c2a,
         UNCHANGED <<afd, adata, chans, mgrVars, ctlVars, workVars>>
  PROVE  Where'
<1> USE DEF chans, ctlVars, workVars
<1>1. AtRest' = AtRest
  BY DEF AtRest, WorkerAtCookie, WorkerGone, ControlGone
<1>2. Counted'
  BY <1>1 DEF Where, Counted, mgrVars
<1>3. Owned' /\ Framed'
  BY DEF Where, Owned, Framed, WorkerGone, mgrVars
<1>4. /\ BeforePass' = BeforePass /\ Received' = Received
      /\ Acknowledged' = Acknowledged
  BY DEF BeforePass, Received, Acknowledged, WorkerAtCookie, WorkerGone, mgrVars
<1>5. (cpc = "push" => StagePush') /\ (cpc = "verify" => StageVerify')
  BY <1>4 DEF Where, Stage, StagePush, StageVerify, WorkerGone, mgrVars
<1>6. cpc = "wait" => StageWait'
  BY <1>4 DEF Where, Stage, StageWait, AppAway, mgrVars
<1>7. Stage'
  BY <1>4, <1>5, <1>6 DEF Where, Stage
<1> QED
  BY <1>2, <1>3, <1>7 DEF Where

\* The application has a connection, or had it: the control process waits.
LEMMA AppWorks ==
  ASSUME TypeOK, Where, apc \in {"parse", "serve"}
  PROVE  cpc = "wait" /\ StageWait /\ ~AtRest /\ cur = handed /\ handed # NoConn
<1>1. ~AppAway
  BY DEF AppAway
<1>2. ~AtRest
  BY <1>1 DEF AtRest
<1>3. cpc = "wait"
  BY <1>1, <1>2 DEF Where, Counted, Stage, StagePush, StageVerify, BeforePass, TypeOK, ControlPC
<1> QED
  BY <1>2, <1>3, Busy DEF Where, Counted, Stage

\* It does something about it.
LEMMA AppWorksWhere ==
  ASSUME TypeOK, Where, cpc = "wait", StageWait', Owned',
         UNCHANGED <<c2w, w2c, mgrVars, ctlVars, workVars>>
  PROVE  Where'
<1>1. Counted'
  BY BusyControl, CountedKept DEF Where, Counted, ctlVars
<1>2. Framed'
  BY DEF Where, Framed, WorkerGone, workVars
<1>3. Stage'
  BY DEF Stage, ctlVars
<1> QED
  BY <1>1, <1>2, <1>3 DEF Where

LEMMA AppWaitWhere ==
  ASSUME TypeOK, Where, AppWait
  PROVE  Where'
<1>1. apc = "wait" /\ UNCHANGED <<adata, c2w, w2c, a2c, w2a, mgrVars, ctlVars, workVars>>
  BY DEF AppWait
<1>2. AppAway
  <2>1. cpc = "wait" => AppAway
    BY <1>1 DEF Where, Stage, StageWait, AppAway
  <2> QED
    BY <2>1 DEF Where, Counted, AtRest, Stage, StagePush, StageVerify, BeforePass, TypeOK,
                ControlPC
<1>3. CASE apc' = "free" /\ UNCHANGED <<c2a, afd>>
  <2>1. AppAway'
    BY <1>1, <1>2, <1>3 DEF AppAway
  <2> QED
    BY <1>1, <1>2, <1>3, <2>1, AppAwayWhere DEF chans
<1>4. CASE c2a # <<>> /\ apc' = "parse" /\ afd' = Head(c2a) /\ c2a' = Tail(c2a)
  <2>1. cpc = "wait"
    BY <1>1, <1>4 DEF Where, Counted, AtRest, Stage, StagePush, StageVerify, BeforePass, TypeOK,
                      ControlPC
  <2>2. c2a = <<handed>> /\ a2c = <<>> /\ Acknowledged /\ w2c = <<>>
    BY <1>4, <2>1 DEF Where, Stage, StageWait
  <2>3. afd' = handed /\ c2a' = <<>> /\ adata' = NoConn
    BY <1>1, <1>2, <1>4, <2>2, OneMessage DEF AppAway
  <2>4. StageWait'
    BY <1>1, <1>4, <2>2, <2>3 DEF StageWait, Acknowledged, WorkerAtCookie, WorkerGone, workVars,
                                  mgrVars
  <2>5. Owned'
    BY <1>1, <2>3 DEF Where, Owned, WorkerGone, workVars, mgrVars
  <2> QED
    BY <1>1, <2>1, <2>4, <2>5, AppWorksWhere
<1> QED
  BY <1>3, <1>4 DEF AppWait

LEMMA AppParseWhere ==
  ASSUME TypeOK, Where, AppParse
  PROVE  Where'
<1>1. /\ apc = "parse" /\ apc' = "serve" /\ w2a # <<>>
      /\ adata' = Head(w2a) /\ w2a' = Tail(w2a)
      /\ UNCHANGED <<afd, c2w, w2c, c2a, a2c, mgrVars, ctlVars, workVars>>
  BY DEF AppParse
<1>2. /\ cpc = "wait" /\ w2c = <<>> /\ c2a = <<>> /\ a2c = <<>> /\ afd = handed
      /\ Acknowledged
  BY <1>1, AppWorks DEF StageWait, AppAway
<1>3. WorkerAtCookie /\ w2a = <<handed>>
  BY <1>1, <1>2 DEF Acknowledged
<1>4. adata' = handed /\ w2a' = <<>>
  BY <1>1, <1>3, OneMessage
<1>5. StageWait'
  BY <1>1, <1>2, <1>3, <1>4 DEF StageWait, Received, WorkerAtCookie, workVars, mgrVars
<1>6. Owned'
  BY <1>1, <1>4 DEF Where, Owned, WorkerGone, workVars, mgrVars
<1> QED
  BY <1>1, <1>2, <1>5, <1>6, AppWorksWhere

\* The application lets go of the connection without having the request, and
\* without a word to anybody.
LEMMA AppDropsWhere ==
  ASSUME TypeOK, Where, apc = "parse", apc' \in {"serve", "free"}, afd' = NoConn,
         UNCHANGED <<adata, chans, mgrVars, ctlVars, workVars>>
  PROVE  Where'
<1>1. /\ cpc = "wait" /\ w2c = <<>> /\ c2a = <<>> /\ a2c = <<>> /\ adata = NoConn
      /\ Acknowledged
  BY AppWorks DEF StageWait, AppAway
<1>2. StageWait'
  BY <1>1 DEF StageWait, Acknowledged, WorkerAtCookie, WorkerGone, chans, workVars, mgrVars
<1>3. Owned'
  BY DEF Where, Owned, WorkerGone, chans, workVars, mgrVars
<1> QED
  BY <1>1, <1>2, <1>3, AppWorksWhere DEF chans

LEMMA AppFinishWhere ==
  ASSUME TypeOK, Where, AppFinish
  PROVE  Where'
<1>1. /\ apc = "serve" /\ apc' = "wait" /\ afd' = NoConn /\ adata' = NoConn
      /\ a2c' = IF GivesBack THEN Append(a2c, afd) ELSE a2c
      /\ UNCHANGED <<c2w, w2c, c2a, w2a, mgrVars, ctlVars, workVars>>
  BY DEF AppFinish
<1>2. cpc = "wait" /\ StageWait /\ handed # NoConn
  BY <1>1, AppWorks
<1>3. CASE afd = NoConn
  <2>1. a2c' = a2c
    BY <1>1, <1>3 DEF GivesBack
  <2>2. StageWait'
    BY <1>1, <1>2, <1>3, <2>1 DEF StageWait, AppAway, Acknowledged, WorkerAtCookie, WorkerGone,
                                  workVars, mgrVars
  <2>3. Owned'
    BY <1>1, <2>1 DEF Where, Owned, WorkerGone, workVars, mgrVars
  <2> QED
    BY <1>1, <1>2, <2>2, <2>3, AppWorksWhere
<1>4. CASE afd # NoConn
  <2>1. w2c = <<>> /\ c2a = <<>> /\ afd = handed /\ a2c = <<>> /\ Received
    BY <1>1, <1>2, <1>4 DEF StageWait, AppAway
  <2>2. a2c' = <<handed>>
    BY <1>1, <1>2, <1>4, <2>1 DEF GivesBack, ControlGone
  <2>3. StageWait'
    BY <1>1, <2>1, <2>2 DEF StageWait, AppAway, Received, WorkerAtCookie, workVars, mgrVars
  <2>4. \A i \in DOMAIN a2c' : a2c'[i] = handed
    BY <2>2, OneMessage
  <2>5. Owned'
    BY <1>1, <2>4 DEF Where, Owned, WorkerGone, workVars, mgrVars
  <2> QED
    BY <1>1, <1>2, <2>3, <2>5, AppWorksWhere
<1> QED
  BY <1>3, <1>4

LEMMA AppDiesWhere ==
  ASSUME TypeOK, Where, AppDies
  PROVE  Where'
<1>1. /\ apc = "serve" /\ afd = NoConn /\ apc' = "exited"
      /\ UNCHANGED <<afd, adata, chans, mgrVars, ctlVars, workVars>>
  BY DEF AppDies
<1>2. cpc = "wait" /\ StageWait /\ handed # NoConn
  BY <1>1, AppWorks
<1>3. StageWait'
  BY <1>1, <1>2 DEF StageWait, AppAway, Acknowledged, WorkerAtCookie, WorkerGone, chans,
                    workVars, mgrVars
<1>4. Owned'
  BY <1>1 DEF Where, Owned, WorkerGone, chans, workVars, mgrVars
<1> QED
  BY <1>1, <1>2, <1>3, <1>4, AppWorksWhere DEF chans

LEMMA AppExitWhere ==
  ASSUME TypeOK, Where, AppExit
  PROVE  Where'
<1>1. /\ apc = "free" /\ apc' = "exited"
      /\ UNCHANGED <<afd, adata, chans, mgrVars, ctlVars, workVars>>
  BY DEF AppExit
<1>2. AppAway
  <2>1. cpc = "wait" => AppAway
    BY <1>1 DEF Where, Stage, StageWait, AppAway
  <2> QED
    BY <2>1 DEF Where, Counted, AtRest, Stage, StagePush, StageVerify, BeforePass, TypeOK,
                ControlPC
<1>3. AppAway'
  BY <1>1, <1>2 DEF AppAway
<1> QED
  BY <1>1, <1>2, <1>3, AppAwayWhere

-----------------------------------------------------------------------------
(* All steps *)

LEMMA ControlWhere == ASSUME TypeOK, Where, Control PROVE Where'
BY ControlIdleWhere, ControlTakeWhere, ControlEndsRequestWhere, ControlPushWhere,
   ControlLostWhere, ControlVerifyWhere, ControlPassWhere, ControlWaitWhere,
   ControlWaitLostWhere, ControlRecoverWhere DEF Control

LEMMA WorkWhere == ASSUME TypeOK, Where, Work PROVE Where'
BY WorkerCookieWhere, WorkerFillWhere, WorkerTokenWhere, WorkerHupWhere, WorkerHupBodyWhere,
   WorkerReplyWhere, WorkerTrailerWhere, WorkerSendWhere, WorkerEofWhere DEF Work

LEMMA AppWhere == ASSUME TypeOK, Where, App \/ NoMemory PROVE Where'
<1>1. CASE AppParseFails
  <2>1. /\ apc = "parse" /\ apc' = "free" /\ afd' = NoConn
        /\ UNCHANGED <<adata, chans, mgrVars, ctlVars, workVars>>
    BY <1>1 DEF AppParseFails
  <2> QED
    BY <2>1, AppDropsWhere
<1>2. CASE AppNoMemory
  <2>1. /\ apc = "parse" /\ apc' = "serve" /\ afd' = NoConn
        /\ UNCHANGED <<adata, chans, mgrVars, ctlVars, workVars>>
    BY <1>2 DEF AppNoMemory, Abandoned, chans
  <2> QED
    BY <2>1, AppDropsWhere
<1> QED
  BY <1>1, <1>2, AppWaitWhere, AppParseWhere, AppFinishWhere, AppDiesWhere, AppExitWhere
     DEF App, NoMemory

LEMMA NextIInv == SessionAssumption /\ IInv /\ [Next]_vars => IInv'
<1> SUFFICES ASSUME SessionAssumption, IInv, [Next]_vars PROVE IInv'
  OBVIOUS
<1>1. TypeOK /\ Where
  BY DEF IInv, Where
<1>2. TypeOK'
  BY TypeKept DEF IInv
<1>3. Where'
  <2>1. CASE Hand \/ TakenElsewhere
    BY <1>1, <2>1, HandWhere, TakenElsewhereWhere
  <2>2. CASE MgrStop \/ ClientSend \/ ClientClose \/ UNCHANGED vars
    <3>1. UNCHANGED <<managed, handed, filed, acked, ctlVars, chans, workVars, apc, afd, adata>>
      BY <2>2 DEF MgrStop, ClientSend, ClientClose, vars, mgrVars, appVars
    <3> QED
      BY <1>1, <3>1, OutsideWhere
  <2>3. CASE Control \/ ControlFails
    BY <1>1, <2>3, ControlWhere, ControlFailsWhere
  <2>4. CASE Work
    BY <1>1, <2>4, WorkWhere
  <2>5. CASE App \/ NoMemory
    BY <1>1, <2>5, AppWhere
  <2> QED
    BY <2>1, <2>2, <2>3, <2>4, <2>5 DEF Next
<1> QED
  BY <1>2, <1>3 DEF IInv, Where

\* The invariant that everything else follows from: see above.
THEOREM SessionInvariance == Spec => []IInv
<1>1. Init => IInv
  BY InitTypeOK, InitWhere, SessionAssumption DEF IInv, Where
<1>2. IInv /\ [Next]_vars => IInv'
  BY NextIInv, SessionAssumption
<1> QED
  BY <1>1, <1>2, PTL DEF Spec

-----------------------------------------------------------------------------
(* What follows *)

\* The application never has anything but of the last connection.
LEMMA AppOwner ==
  ASSUME IInv
  PROVE  afd \in {NoConn, handed} /\ adata \in {NoConn, handed}
<1>1. CASE apc \in {"parse", "serve"}
  <2>1. StageWait
    BY <1>1, AppWorks DEF IInv, Where
  <2> QED
    BY <1>1, <2>1 DEF StageWait, AppAway
<1>2. CASE apc \notin {"parse", "serve"}
  BY <1>2 DEF IInv, Counted, AtRest, Stage, StagePush, StageVerify, StageWait, BeforePass,
              AppAway, TypeOK, ControlPC
<1> QED
  BY <1>1, <1>2

\* The application never answers a connection with the request that came in on
\* another one, although it gets the two over different sockets: khttp_fcgi_parse.
THEOREM PairedHolds == Spec => []Paired
<1>1. IInv => Paired
  <2> SUFFICES ASSUME IInv, apc = "serve" PROVE adata = afd
    BY DEF Paired
  <2>1. TypeOK /\ Where
    BY DEF IInv, Where
  <2>2. StageWait
    BY <2>1, AppWorks
  <2> QED
    BY <2>2 DEF StageWait, AppAway
<1> QED
  BY <1>1, SessionInvariance, PTL

\* What the worker takes for a cookie is one: the frame that ends a request is never
\* left for the next, nor is a byte of a client's: kworker_fcgi_child.
THEOREM StartsAtCookieHolds == Spec => []StartsAtCookie
<1>1. IInv => StartsAtCookie
  BY DEF IInv, Framed, StartsAtCookie
<1> QED
  BY <1>1, SessionInvariance, PTL

\* A cookie that the manager has back stands for nothing that is still under way:
\* "recover" in kfcgi_control.
THEOREM ReturnedWhenDoneHolds == Spec => []ReturnedWhenDone
<1>1. IInv => ReturnedWhenDone
  <2> SUFFICES ASSUME IInv, NEW c \in acked
               PROVE  /\ c \notin {filed, cur, afd, adata}
                      /\ \A i \in DOMAIN c2w : c2w[i].c # c
                      /\ \A i \in DOMAIN w2c : w2c[i].cookie # c
                      /\ \A s \in {c2a, a2c, w2a} : \A i \in DOMAIN s : s[i] # c
    BY DEF ReturnedWhenDone
  <2>1. c \in 1..handed /\ c # NoConn /\ handed \in Nat
    BY DEF IInv, TypeOK, Counted, NoConn
  <2>2. CASE AtRest
    <3>1. filed # c
      BY <2>1 DEF IInv, Counted
    <3> QED
      BY <2>1, <2>2, <3>1 DEF AtRest, AppAway, IInv, Counted
  <2>3. CASE ~AtRest
    <3>1. handed \in Nat \ {0} /\ filed = NoConn /\ acked = 1..(handed - 1)
      BY <2>3, Busy DEF IInv
    <3>2. c # handed
      BY <3>1
    <3>3. cur \in {NoConn, handed}
      BY DEF IInv, Counted
    <3>4. afd \in {NoConn, handed} /\ adata \in {NoConn, handed}
      BY AppOwner
    <3>5. \A i \in DOMAIN w2c : w2c[i].cookie # c
      <4>1. BadCode.cookie # c /\ Success(handed, handed).cookie # c
        BY <2>1, <3>2 DEF BadCode, Success
      <4> QED
        BY <4>1 DEF IInv, Owned
    <3>6. \A i \in DOMAIN c2w : c2w[i].c # c
      BY <3>2 DEF IInv, Owned
    <3>7. \A s \in {c2a, a2c, w2a} : \A i \in DOMAIN s : s[i] # c
      BY <3>2 DEF IInv, Owned
    <3> QED
      BY <2>1, <3>1, <3>2, <3>3, <3>4, <3>5, <3>6, <3>7
  <2> QED
    BY <2>2, <2>3
<1> QED
  BY <1>1, SessionInvariance, PTL

-----------------------------------------------------------------------------
(* The broker *)

\* Where the last connection is.
Last ==
  IF filed = handed THEN IF ~managed THEN "new" ELSE IF ControlGone THEN "lost" ELSE "given"
  ELSE IF handed \in acked THEN "done"
  ELSE IF cpc = "wait" /\ apc = "serve" /\ afd = handed THEN "serving"
  ELSE IF cpc = "recover" \/ (cpc = "wait" /\ a2c # <<>>) THEN "returning"
  ELSE IF cpc = "exited" THEN "lost" ELSE "given"

\* The others are still to come, or are done with.
Phases ==
  /\ phase = [c \in Conn |-> phase[c]]
  /\ \A c \in Conn :
       phase[c] = IF c > handed THEN "new" ELSE IF c < handed THEN "done" ELSE Last

LEMMA PhaseOf == IInv => Phases
<1> SUFFICES ASSUME IInv PROVE Phases
  OBVIOUS
<1>1. phase = [c \in Conn |-> phase[c]]
  BY DEF phase
<1>2. ASSUME NEW c \in Conn, c > handed PROVE phase[c] = "new"
  BY <1>2 DEF phase
<1>3. TypeOK /\ Counted /\ handed \in Nat /\ Conn = 1..MaxConn
  BY DEF IInv, TypeOK, Conn
<1>4. ASSUME NEW c \in Conn, c < handed PROVE phase[c] = "done"
  <2>1. c # handed /\ c # NoConn /\ c \in Nat \ {0}
    BY <1>3, <1>4 DEF NoConn
  <2>2. c \in acked
    BY <1>3, <1>4, <2>1 DEF Counted
  <2>3. afd # c /\ filed # c
    BY <1>3, <2>1, AppOwner DEF Counted
  <2>4. ~(c > handed)
    BY <1>3, <1>4, <2>1
  <2> QED
    BY <2>2, <2>3, <2>4 DEF phase
<1>5. ASSUME handed \in Conn PROVE phase[handed] = Last
  <2>0. ~(handed > handed) /\ handed # NoConn
    BY <1>3, <1>5 DEF NoConn
  <2>1. apc = "serve" => cpc = "wait" /\ StageWait /\ ~AtRest
    BY AppWorks DEF IInv, Where
  <2>2. CASE filed = handed
    <3>1. AtRest /\ handed \notin acked
      BY <1>3, <2>0, <2>2 DEF Counted
    <3>2. cur = NoConn /\ apc # "serve" /\ cpc # "wait" /\ cpc # "recover"
      BY <1>3, <3>1 DEF AtRest, AppAway, Counted
    <3> QED
      BY <1>5, <2>0, <2>2, <3>1, <3>2 DEF phase, Last
  <2>3. CASE filed # handed /\ handed \in acked
    <3>1. AtRest
      BY <1>3, <2>3 DEF Counted
    <3>2. apc # "serve" /\ afd # handed
      BY <2>0, <3>1 DEF AtRest, AppAway
    <3> QED
      BY <1>5, <2>0, <2>3, <3>2 DEF phase, Last
  <2>4. CASE filed # handed /\ handed \notin acked
    <3>1. cpc \notin {"idle", "accept"}
      BY <1>3, <1>5, <2>0, <2>4 DEF Counted
    <3>2. cur = IF cpc = "exited" THEN NoConn ELSE handed
      BY <1>3, <3>1 DEF Counted
    <3> QED
      BY <1>5, <2>0, <2>1, <2>4, <3>1, <3>2 DEF phase, Last, ControlGone
  <2> QED
    BY <2>2, <2>3, <2>4
<1>6. \A c \in Conn : c > handed \/ c < handed \/ c = handed
  BY <1>3
<1> QED
  BY <1>1, <1>2, <1>4, <1>5, <1>6 DEF Phases

Moves == {<<"new", "given">>, <<"given", "returning">>, <<"given", "serving">>,
          <<"serving", "returning">>, <<"returning", "done">>, <<"given", "lost">>,
          <<"returning", "lost">>}

\* A step after which the last connection is where a broker may have moved it.
LEMMA LastMoves ==
  ASSUME IInv, IInv', handed' = handed, Last' = Last \/ <<Last, Last'>> \in Moves
  PROVE  [Broker!Next]_phase
<1>1. handed \in Nat /\ Conn = 1..MaxConn
  BY DEF IInv, TypeOK, Conn
<1>0. Phases /\ Phases'
  BY PhaseOf, PTL
<1>2. \A c \in Conn : c # handed => phase'[c] = phase[c]
  BY <1>0, <1>1 DEF Phases, Conn
<1>3. CASE handed \notin Conn \/ Last' = Last
  <2>1. \A c \in Conn : phase'[c] = phase[c]
    BY <1>2, <1>3, <1>0 DEF Phases
  <2>2. phase' = phase
    BY <2>1, <1>0 DEF Phases
  <2> QED
    BY <2>2
<1>4. CASE handed \in Conn /\ <<Last, Last'>> \in Moves
  <2>1. phase[handed] = Last /\ phase'[handed] = Last'
    BY <1>0, <1>1, <1>4 DEF Phases, Conn
  <2>2. phase' = [phase EXCEPT ![handed] = Last']
    BY <1>2, <1>4, <2>1, <1>0 DEF Phases
  <2>3. \A d \in Conn : d < handed => phase[d] = "done"
    BY <1>1, <1>0 DEF Phases
  <2>4. handed \in Broker!Conn /\ Broker!Conn = Conn
    BY <1>4 DEF Broker!Conn, Conn
  <2>5. /\ Last = "new" /\ Last' = "given" => Broker!Give(handed)
        /\ Last = "given" /\ Last' = "returning" => Broker!Refuse(handed)
        /\ Last = "given" /\ Last' = "serving" => Broker!Serve(handed)
        /\ Last = "serving" /\ Last' = "returning" => Broker!Finish(handed)
        /\ Last = "returning" /\ Last' = "done" => Broker!Return(handed)
        /\ Last \in {"given", "returning"} /\ Last' = "lost" => Broker!Lose(handed)
    BY <2>1, <2>2, <2>3, <2>4 DEF Broker!Give, Broker!Refuse, Broker!Serve, Broker!Finish,
                                  Broker!Return, Broker!Lose, Broker!Move
  <2>6. Broker!Next
    BY <1>4, <2>4, <2>5 DEF Moves, Broker!Next
  <2> QED
    BY <2>6
<1> QED
  BY <1>3, <1>4

\* Most steps leave alone what says where the last connection is.
LEMMA LastStays ==
  ASSUME UNCHANGED <<handed, filed, managed, acked, cpc, apc, afd, a2c>>
  PROVE  Last' = Last
BY DEF Last, ControlGone

LEMMA ControlMoves ==
  ASSUME IInv, IInv', Control \/ ControlFails
  PROVE  handed' = handed /\ (Last' = Last \/ <<Last, Last'>> \in Moves)
<1> USE DEF Last, Moves, ControlGone
<1>1. TypeOK /\ Where /\ handed \in Nat
  BY DEF IInv, Where, TypeOK
<1>2. cpc \in {"idle", "accept"} => filed = handed \/ handed \in acked
  <2>1. cpc \in {"idle", "accept"} => filed = handed \/ acked = 1..handed
    BY DEF IInv, Counted
  <2>2. handed # NoConn => handed \in 1..handed
    BY <1>1 DEF NoConn
  <2>3. handed = NoConn => filed = handed
    BY DEF IInv, Counted, NoConn
  <2> QED
    BY <2>1, <2>2, <2>3
<1>3. cpc \in {"push", "verify", "pass", "wait", "recover"} =>
        filed # handed /\ handed \notin acked /\ cur = handed
  <2>1. ASSUME cpc \in {"push", "verify", "pass", "wait", "recover"}
        PROVE  filed = NoConn /\ handed # NoConn /\ acked = 1..(handed - 1) /\ cur = handed
    BY <1>1, <2>1, BusyControl, Busy DEF Where
  <2> QED
    BY <1>1, <2>1
<1>4. CASE ControlStop \/ ControlPoll \/ ControlAgain \/ ControlFails
  <2>1. /\ cpc \in {"idle", "accept", "push"} /\ cpc' \in {"idle", "accept", "exited"}
        /\ cpc = "push" => cpc' = "exited"
        /\ UNCHANGED <<mgrVars, chans, appVars>>
    BY <1>4 DEF ControlStop, ControlPoll, ControlAgain, ControlFails, ControlExit
  <2> QED
    BY <1>2, <1>3, <2>1 DEF mgrVars, appVars, chans
<1>5. CASE ControlTake
  <2>1. /\ filed = handed /\ handed # NoConn /\ handed \notin acked /\ ~WorkerGone
        /\ cpc \in {"idle", "accept"}
    <3>1. filed = handed /\ handed # NoConn /\ acked = 1..(handed - 1) /\ AtRest
          /\ cpc \in {"idle", "accept"}
      BY <1>5 DEF ControlTake, IInv, Counted, NoConn
    <3>2. ~WorkerGone
      BY <3>1 DEF AtRest, WorkerAtCookie, WorkerGone
    <3> QED
      BY <1>1, <3>1, <3>2
  <2>2. cpc' = "push"
    BY <1>5, <2>1 DEF ControlTake
  <2>3. filed' = NoConn /\ UNCHANGED <<handed, acked, managed>>
    BY <1>5 DEF ControlTake
  <2> QED
    BY <2>1, <2>2, <2>3
<1>6. CASE ControlEnd \/ ControlPush \/ ControlHup \/ ControlVerify \/ ControlLost
  <2>1. /\ cpc \in {"push", "verify"}
        /\ cpc' \in {"push", "verify", "pass", "recover", "exited"}
        /\ UNCHANGED <<mgrVars, appVars>>
    BY <1>6 DEF ControlEnd, ControlPush, ControlHup, ControlVerify, ControlLost, ControlExit,
                AfterRefusal, ctlVars
  <2> QED
    BY <1>3, <2>1 DEF mgrVars, appVars
<1>7. CASE ControlPass
  <2>1. /\ cpc = "pass" /\ cpc' \in {"wait", "exited"}
        /\ UNCHANGED <<a2c, mgrVars, appVars>>
    BY <1>7 DEF ControlPass, ControlExit
  <2>2. a2c = <<>> /\ apc # "serve"
    BY <2>1 DEF IInv, Stage, BeforePass, AppAway
  <2> QED
    BY <1>3, <2>1, <2>2 DEF mgrVars, appVars
<1>8. CASE ControlWait \/ ControlWaitLost
  <2>1. /\ cpc = "wait" /\ cpc' \in {"recover", "exited"}
        /\ UNCHANGED <<mgrVars, appVars>>
    BY <1>8 DEF ControlWait, ControlWaitLost, ControlDone, ControlExit
  <2>2. a2c # <<>> => apc # "serve"
    BY <2>1 DEF IInv, Stage, StageWait, AppAway
  <2>3. a2c = <<>> => apc # "serve" /\ cpc' = "exited"
    BY <1>8 DEF ControlWait, ControlWaitLost, ControlDone, ControlExit, AppClosed
  <2> QED
    BY <1>3, <2>1, <2>2, <2>3 DEF mgrVars, appVars
<1>9. CASE ControlRecover
  <2>1. /\ cpc = "recover" /\ cpc' \in {"idle", "exited"}
        /\ cpc' = "idle" => acked' = acked \cup {cur}
        /\ cpc' = "exited" => acked' = acked
        /\ UNCHANGED <<managed, handed, filed, appVars>>
    BY <1>9 DEF ControlRecover, ControlExit
  <2> QED
    BY <1>3, <2>1 DEF appVars
<1> QED
  BY <1>4, <1>5, <1>6, <1>7, <1>8, <1>9 DEF Control

LEMMA AppMoves ==
  ASSUME IInv, IInv', App \/ NoMemory
  PROVE  handed' = handed /\ (Last' = Last \/ <<Last, Last'>> \in Moves)
<1> USE DEF Last, Moves, ControlGone
<1>1. TypeOK /\ Where
  BY DEF IInv, Where
<1>2. UNCHANGED <<mgrVars, ctlVars>>
  BY DEF App, NoMemory, AppWait, AppParse, AppParseFails, AppFinish, AppExit, AppNoMemory, AppDies
<1>3. CASE AppWait \/ AppExit \/ AppDies
  <2>1. apc = "serve" => afd = NoConn
    BY <1>3 DEF AppWait, AppExit, AppDies
  <2>2. apc' # "serve" /\ a2c' = a2c
    BY <1>3 DEF AppWait, AppExit, AppDies, chans
  <2>3. apc = "serve" => handed # NoConn
    BY <1>1, AppWorks
  <2> QED
    BY <1>2, <2>1, <2>2, <2>3 DEF mgrVars, ctlVars
<1>4. CASE AppParseFails \/ AppNoMemory
  <2>1. apc = "parse" /\ a2c' = a2c /\ afd' = NoConn
    BY <1>4 DEF AppParseFails, AppNoMemory, Abandoned, chans
  <2>2. handed # NoConn
    BY <1>1, <2>1, AppWorks
  <2> QED
    BY <1>2, <2>1, <2>2 DEF mgrVars, ctlVars
<1>5. CASE AppParse
  <2>1. apc = "parse" /\ apc' = "serve" /\ UNCHANGED <<a2c, afd>>
    BY <1>5 DEF AppParse
  <2>2. cpc = "wait" /\ a2c = <<>> /\ afd = handed
    BY <1>1, <2>1, AppWorks DEF StageWait, AppAway
  <2> QED
    BY <1>2, <2>1, <2>2 DEF mgrVars, ctlVars
<1>6. CASE AppFinish
  <2>1. apc = "serve" /\ apc' = "wait" /\ cpc = "wait" /\ handed # NoConn
    BY <1>1, <1>6, AppWorks DEF AppFinish
  <2>2. a2c' = IF afd # NoConn THEN Append(a2c, afd) ELSE a2c
    BY <1>6, <2>1 DEF AppFinish, GivesBack
  <2>3. afd \in {NoConn, handed}
    BY AppOwner
  <2>4. afd # NoConn => a2c = <<>> /\ a2c' # <<>>
    <3>1. afd # NoConn => a2c = <<>>
      BY <1>1, <2>1, AppWorks DEF StageWait, AppAway
    <3>2. afd # NoConn => a2c' = <<afd>>
      BY <2>2, <3>1
    <3> QED
      BY <3>1, <3>2, OneMessage
  <2> QED
    BY <1>2, <2>1, <2>2, <2>3, <2>4 DEF mgrVars, ctlVars
<1> QED
  BY <1>3, <1>4, <1>5, <1>6 DEF App, NoMemory

\* A connection handed over is one given when it comes from a manager; one that
\* waits in the backlog may still go to another program.
LEMMA HandMoves == ASSUME IInv, IInv', Hand PROVE [Broker!Next]_phase
<1>1. /\ handed \in Nat /\ handed < MaxConn /\ MaxConn \in Nat /\ Conn = 1..MaxConn
      /\ cpc # "exited" /\ acked = 1..handed
      /\ handed' = handed + 1 /\ filed' = handed' /\ UNCHANGED <<cpc, managed>>
  BY SessionAssumption DEF Hand, IInv, TypeOK, Conn, ctlVars
<1>2. Phases /\ Phases'
  BY PhaseOf, PTL
<1>3. handed \in Conn => phase[handed] = "done"
  <2>1. handed \in Conn => filed # handed /\ handed \in acked
    BY <1>1 DEF IInv, Counted, NoConn
  <2> QED
    BY <1>1, <1>2, <2>1 DEF Phases, Last
<1>4. \A c \in Conn : c < handed' => phase[c] = "done" /\ phase'[c] = "done"
  BY <1>1, <1>2, <1>3 DEF Phases, Conn
<1>5. \A c \in Conn : c > handed' => phase[c] = "new" /\ phase'[c] = "new"
  BY <1>1, <1>2 DEF Phases, Conn
<1>6. handed' \in Conn /\ phase[handed'] = "new"
  BY <1>1, <1>2 DEF Phases, Conn
<1>7. phase'[handed'] = IF managed THEN "given" ELSE "new"
  BY <1>1, <1>2, <1>6 DEF Phases, Last, ControlGone, Conn
<1>8. \A c \in Conn : c # handed' => phase'[c] = phase[c]
  BY <1>1, <1>4, <1>5
<1>9. phase' = [phase EXCEPT ![handed'] = phase'[handed']]
  BY <1>2, <1>6, <1>8 DEF Phases, Conn
<1>10. CASE managed
  <2>1. Broker!Give(handed')
    BY <1>4, <1>6, <1>7, <1>9, <1>10 DEF Broker!Give, Broker!Move, Broker!Conn, Conn
  <2> QED
    BY <1>6, <2>1 DEF Broker!Next, Broker!Conn, Conn
<1>11. CASE ~managed
  <2>1. phase' = phase
    BY <1>2, <1>6, <1>7, <1>8, <1>11 DEF Phases, Conn
  <2> QED
    BY <2>1
<1> QED
  BY <1>10, <1>11

LEMMA TakenElsewhereMoves == ASSUME IInv, IInv', TakenElsewhere PROVE phase' = phase
<1>1. /\ handed \in Nat \ {0} /\ Conn = 1..MaxConn
      /\ ~managed /\ filed = handed /\ acked = 1..(handed - 1)
      /\ handed' = handed - 1 /\ filed' = NoConn /\ acked' = acked
  BY DEF TakenElsewhere, IInv, TypeOK, Counted, Conn
<1>2. Phases /\ Phases'
  BY PhaseOf, PTL
<1>3. handed \in Conn => phase[handed] = "new" /\ phase'[handed] = "new"
  BY <1>1, <1>2 DEF Phases, Last, Conn
<1>4. handed' \in Conn => phase[handed'] = "done" /\ phase'[handed'] = "done"
  <2>1. handed' \in Conn => filed' # handed' /\ handed' \in acked'
    BY <1>1 DEF NoConn
  <2> QED
    BY <1>1, <1>2, <2>1 DEF Phases, Last, Conn
<1>5. \A c \in Conn : phase'[c] = phase[c]
  BY <1>1, <1>2, <1>3, <1>4 DEF Phases, Conn
<1> QED
  BY <1>2, <1>5 DEF Phases, Conn

\* What the three processes promise the manager they keep: every step of theirs is
\* one that RequestBroker allows, or none that it can see.
THEOREM BrokerImplemented == Spec => ImplementsBroker
<1>1. Init => Broker!Init
  <2> SUFFICES ASSUME Init PROVE phase = [c \in Conn |-> "new"]
    BY DEF Broker!Init, Broker!Conn, Conn
  <2>1. \A c \in Conn : c > handed
    BY DEF Init, Conn
  <2> QED
    BY <2>1 DEF phase
<1>2. IInv /\ IInv' /\ [Next]_vars => [Broker!Next]_phase
  <2> SUFFICES ASSUME IInv, IInv', [Next]_vars PROVE [Broker!Next]_phase
    OBVIOUS
  <2>1. CASE Hand
    BY <2>1, HandMoves
  <2>2. CASE TakenElsewhere
    BY <2>2, TakenElsewhereMoves
  <2>3. CASE MgrStop \/ ClientSend \/ ClientClose \/ Work \/ UNCHANGED vars
    <3>1. UNCHANGED <<handed, filed, managed, acked, cpc, apc, afd, a2c>>
      BY <2>3 DEF MgrStop, ClientSend, ClientClose, Work, WorkerCookie, WorkerFill, WorkerToken,
                  WorkerHup, WorkerHupBody, WorkerReply, WorkerTrailer, WorkerSend, WorkerEof,
                  vars, mgrVars, ctlVars, chans, appVars
    <3> QED
      BY <3>1, LastStays, LastMoves
  <2>4. CASE Control \/ ControlFails
    BY <2>4, ControlMoves, LastMoves
  <2>5. CASE App \/ NoMemory
    BY <2>5, AppMoves, LastMoves
  <2> QED
    BY <2>1, <2>2, <2>3, <2>4, <2>5 DEF Next
<1> QED
  BY <1>1, <1>2, SessionInvariance, PTL DEF Spec, ImplementsBroker, Broker!Spec

\* A connection is taken when all before it are done with: the worker has never two,
\* and after one that was lost it takes no other.
OneAtATime ==
  \A c, d \in Conn : c < d /\ phase[d] # "new" => phase[c] = "done"

THEOREM OneAtATimeHolds == Spec => []OneAtATime
<1>1. IInv => OneAtATime
  <2> SUFFICES ASSUME IInv, NEW c \in Conn, NEW d \in Conn, c < d, phase[d] # "new"
               PROVE  phase[c] = "done"
    BY DEF OneAtATime
  <2>1. handed \in Nat /\ c \in Nat /\ d \in Nat
    BY DEF IInv, TypeOK, Conn
  <2> QED
    BY <2>1, PhaseOf DEF Phases
<1> QED
  BY <1>1, SessionInvariance, PTL

=============================================================================

---------------------------- MODULE RequestBroker ----------------------------
(***************************************************************************)
(* What a worker of kfcgi(8) promises its manager, without the processes   *)
(* that keep the promise (see FcgiSession): connections are taken one at a *)
(* time and in order, each is served at most once, a connection is         *)
(* returned when its service is over, one that is being served is never    *)
(* given up, and after one is lost no other is taken.                      *)
(***************************************************************************)
EXTENDS Integers

CONSTANT MaxConn  \* bound: connections handed out

Conn == 1..MaxConn

VARIABLE phase  \* where each connection is

Phase == {"new", "given", "serving", "returning", "done", "lost"}

TypeOK == phase \in [Conn -> Phase]

Init == phase = [c \in Conn |-> "new"]

Move(c, from, to) ==
  /\ phase[c] = from
  /\ phase' = [phase EXCEPT ![c] = to]

\* The manager hands a connection over when it has all others back.
Give(c) ==
  /\ \A d \in Conn : d < c => phase[d] = "done"
  /\ Move(c, "new", "given")

\* Its client sent no request, or a request the application gets to see.
Refuse(c) == Move(c, "given", "returning")
Serve(c) == Move(c, "given", "serving")
Finish(c) == Move(c, "serving", "returning")

Return(c) == Move(c, "returning", "done")

\* The processes give up and close the connection.
Lose(c) == Move(c, "given", "lost") \/ Move(c, "returning", "lost")

Next ==
  \E c \in Conn :
    Give(c) \/ Refuse(c) \/ Serve(c) \/ Finish(c) \/ Return(c) \/ Lose(c)

Spec == Init /\ [][Next]_phase

=============================================================================

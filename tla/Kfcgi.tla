---------------------------------- MODULE Kfcgi ----------------------------------
(***************************************************************************)
(* The start of kfcgi(8) (main in src/kfcgi.c): from its options to the    *)
(* pool, with a socket that listens, in a jail and without privileges.     *)
(* The pools are Varpool and Fixedpool.                                    *)
(***************************************************************************)
EXTENDS Integers

CONSTANTS
  Counts,     \* what -n and -N may be
  Backlogs    \* what -l may be

\* What strtonum accepts.
KfcgiAssumption == Counts \subseteq Nat /\ Backlogs \subseteq Nat \ {0}

VARIABLES
  opts,   \* the options: -n, -N, -l, -r, and the users of -u and -U
  stage,     \* the step that comes next
  fd,     \* the socket
  file,   \* who owns the file of the socket: "stale", one of an earlier manager
  creds,  \* the user, the group and the root directory of the process
  pool    \* the arguments of varpool or fixedpool

kvars == <<opts, stage, fd, file, creds, pool>>

Absent == -1    \* an option that is not given
Options ==
  [n : Counts, N : Counts \cup {Absent}, l : Backlogs \cup {Absent}, r : BOOLEAN,
   u : {"none", "www"}, U : {"none", "www", "root"}]
NoPool == [varp |-> FALSE, wsz |-> 0, maxwsz |-> 0, lsz |-> 0]

KInit ==
  /\ opts \in Options
  /\ stage = "getopt" /\ fd = "none" /\ pool = NoPool
  /\ file \in {"none", "stale"}
  /\ creds = [uid |-> "root", gid |-> "root", jailed |-> FALSE]

\* The maximum counts in a pool that varies only; equal to the minimum, it makes
\* the pool a fixed one.
Bounded == opts.r /\ opts.N # Absent
Refused == Bounded /\ opts.N < opts.n

Variable_Always == opts.r
Variable == opts.r /\ ~(Bounded /\ opts.N = opts.n)

Maximum == IF Bounded THEN opts.N ELSE opts.n * 2
Backlog ==
  IF opts.l # Absent THEN opts.l ELSE (IF Variable THEN Maximum ELSE opts.n) * 2

-----------------------------------------------------------------------------
Go(from, to) == stage = from /\ stage' = to

\* An error: the process closes the socket and exits.
Quit(from) ==
  /\ Go(from, "failed")
  /\ fd' = IF fd = "none" THEN fd ELSE "closed"
  /\ UNCHANGED <<opts, creds, pool>>
Leave(from) == Quit(from) /\ UNCHANGED file

\* In the jail the path of the socket may be that of another file.
LeaveUnlinked(from) == Quit(from) /\ file' \in {file, "none"}

Getopt ==
  \/ Leave("getopt")
  \/ Refused /\ Leave("getopt")
  \/ /\ ~Refused
     /\ Go("getopt", IF Backlog = 0 THEN "aborted" ELSE "getpwnam")
     /\ pool' = [varp |-> Variable, wsz |-> opts.n, maxwsz |-> Maximum, lsz |-> Backlog]
     /\ UNCHANGED <<opts, fd, file, creds>>

\* The users, and the length of the path of the socket.
Getpwnam ==
  \/ Leave("getpwnam")
  \/ Go("getpwnam", "socket") /\ UNCHANGED <<opts, fd, file, creds, pool>>

OpenSocket ==
  \/ Leave("socket")
  \/ Go("socket", "unlink") /\ fd' = "open" /\ UNCHANGED <<opts, file, creds, pool>>

Unlink ==
  \/ Leave("unlink")
  \/ Go("unlink", "bind") /\ file' = "none" /\ UNCHANGED <<opts, fd, creds, pool>>

Bind ==
  \/ Leave("bind")
  \/ /\ file = "none"
     /\ Go("bind", "chown")
     /\ fd' = "bound" /\ file' = creds.uid
     /\ UNCHANGED <<opts, creds, pool>>

Chown ==
  \/ opts.u # "none" /\ Leave("chown")
  \/ /\ opts.u # "none" => creds.uid = "root"
     /\ Go("chown", "listen")
     /\ file' = IF opts.u = "none" THEN file ELSE opts.u
     /\ UNCHANGED <<opts, fd, creds, pool>>

ListenOn ==
  \/ Leave("listen")
  \/ Go("listen", "chroot") /\ fd' = "listening" /\ UNCHANGED <<opts, file, creds, pool>>

\* chroot and chdir.
Chroot ==
  \/ Leave("chroot") \/ LeaveUnlinked("chroot")
  \/ /\ creds.uid = "root"
     /\ Go("chroot", IF opts.U = "none" THEN "calloc" ELSE "setgid")
     /\ creds' = [creds EXCEPT !.jailed = TRUE]
     /\ UNCHANGED <<opts, fd, file, pool>>

Setgid ==
  \/ Leave("setgid")
  \/ /\ creds.uid = "root"
     /\ Go("setgid", "setuid")
     /\ creds' = [creds EXCEPT !.gid = opts.U]
     /\ UNCHANGED <<opts, fd, file, pool>>

Setuid ==
  \/ Leave("setuid")
  \/ /\ creds.uid = "root"
     /\ Go("setuid", "regain")
     /\ creds' = [creds EXCEPT !.uid = opts.U]
     /\ UNCHANGED <<opts, fd, file, pool>>

\* It must not be able to become root again.
Regain ==
  \/ creds.uid = "root" /\ Leave("regain")
  \/ creds.uid # "root" /\ Go("regain", "calloc") /\ UNCHANGED <<opts, fd, file, creds, pool>>

Calloc ==
  \/ Leave("calloc")
  \/ Go("calloc", "daemon") /\ UNCHANGED <<opts, fd, file, creds, pool>>

\* With -d daemon(3) is not called, and cannot fail.
Daemon ==
  \/ LeaveUnlinked("daemon")
  \/ Go("daemon", "pool") /\ UNCHANGED <<opts, fd, file, creds, pool>>

KNext ==
  \/ Getopt \/ Getpwnam \/ OpenSocket \/ Unlink \/ Bind \/ Chown \/ ListenOn \/ Chroot \/ Setgid
  \/ Setuid \/ Regain \/ Calloc \/ Daemon

KSpec == KInit /\ [][KNext]_kvars

-----------------------------------------------------------------------------
\* The pool starts as it was asked for: in the jail, as the user of -U and its
\* group, on a socket that listens and has the owner of -u; a variable pool
\* has room above its minimum, which varpool relies on (Varpool's
\* PoolAssumption), unless it is asked for none; a pool asked to vary is fixed
\* only if it could not; and unless -l says otherwise the backlog has a place
\* for every worker (kfcgi.c:972-1117).  What has failed does not listen.
StartsAsAsked ==
  /\ stage = "pool" =>
       /\ fd = "listening" /\ creds.jailed
       /\ file = IF opts.u = "none" THEN "root" ELSE opts.u
       /\ LET user == IF opts.U = "none" THEN "root" ELSE opts.U
          IN creds.uid = user /\ creds.gid = user
       /\ opts.U # "root" /\ pool.wsz = opts.n
       /\ pool.varp => opts.r /\ (pool.wsz < pool.maxwsz \/ opts.n = 0)
       /\ ~pool.varp /\ opts.r => opts.N = opts.n
       /\ opts.l = Absent => pool.lsz > 0 /\ pool.lsz >= pool.wsz
       /\ pool.varp /\ opts.l = Absent => pool.lsz >= pool.maxwsz
  /\ stage = "failed" => fd \in {"none", "closed"}

=============================================================================

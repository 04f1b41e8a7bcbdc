-------------------------------- MODULE Request --------------------------------
(***************************************************************************)
(* A CGI request (khttp_parsex in src/kcgi.c): a sandboxed worker parses   *)
(* and validates the fields and cookies and sends them through a socket;   *)
(* the parent reads them, hangs them into lists by key, and waits for the  *)
(* worker.  Later the application may invalidate pairs (kutil_invalidate). *)
(*                                                                         *)
(* What the worker makes of the request's text is its input here: the      *)
(* pairs of the form and of the cookies.  The environment and the headers, *)
(* of which the parent makes copies, are one message.                      *)
(***************************************************************************)
EXTENDS Integers, Sequences, FiniteSets, SequencesExt

CONSTANTS
  Checked,      \* the application's keys that have a validator
  Unchecked,    \* and those that have none
  Offsets,      \* where a validator may let the parsed string begin
  MaxFields,    \* bound: fields
  MaxCookies,   \* bound: cookies
  MaxWire,      \* messages that fit into the socket
  MaxParentNoMem      \* bound: allocations of the parent that fail

Arrays == {"fields", "cookies"}

RequestAssumption ==
  /\ Checked \cap Unchecked = {}
  /\ "keysz" \notin Checked \cup Unchecked
  /\ Offsets \subseteq Nat
  /\ MaxWire \in Nat \ {0}
  /\ {MaxFields, MaxCookies, MaxParentNoMem} \subseteq Nat

VARIABLES
  input,    \* the pairs as they are in the request
  todo,     \* messages the worker has not sent
  wire,     \* messages in the socket
  worker,   \* "running", "exited" (EXIT_SUCCESS) or "failed"
  parent,   \* "starting", "reading", "bucketing", "read", "closed" (in
            \* kxwaitpid) or "returned"
  er,       \* what khttp_parsex returns
  nomem,    \* how many allocations have failed
  pairs,    \* the arrays "fields" and "cookies"
  bucketed, \* how many pairs of each array have been looked at for the lists
  map,      \* the first pair of each list: fieldmap, fieldnmap, ...
  next      \* the next pair of each pair

rvars ==
  <<input, todo, wire, worker, parent, er, nomem, pairs, bucketed, map, next>>

MaxPairs == [fields |-> MaxFields, cookies |-> MaxCookies]

Keys == Checked \cup Unchecked
keysz == "keysz"    \* the position of a key that is not the application's

\* A pair is known by its array and index.
Ref == UNION {{a} \X (1..MaxPairs[a]) : a \in Arrays}
NULL == <<"NULL", 0>>

\* The lists of an array: of the pairs that are valid or unchecked, and of
\* those that are invalid.
Map == [fields |-> "fieldmap", cookies |-> "cookiemap"]
NMap == [fields |-> "fieldnmap", cookies |-> "cookienmap"]
Lists == (Range(Map) \cup Range(NMap)) \X Keys

States == {"KPAIR_UNCHECKED", "KPAIR_VALID", "KPAIR_INVALID"}
\* "s" is where the parsed string begins in the value: zero if there is none.
IsPair(p) ==
  /\ p \in [key : Keys \cup {keysz}, state : States, s : Int]
  /\ p.state # "KPAIR_VALID" => p.s = 0

\* What a field or a cookie of the request may be.
Inputs ==
  {i \in [key : Keys \cup {keysz}, valid : BOOLEAN, offset : Offsets] :
     /\ i.key \notin Checked => i.valid /\ i.offset = 0
     /\ ~i.valid => i.offset = 0}

RTypeOK ==
  /\ Len(wire) <= MaxWire
  /\ \A i \in DOMAIN wire : IsPair(wire[i].pair)
  /\ worker \in {"running", "exited", "failed"}
  /\ parent \in {"starting", "reading", "bucketing", "read", "closed", "returned"}
  /\ er \in {"OK", "FORM", "ENOMEM"}
  /\ nomem \in 0..MaxParentNoMem
  /\ \A a \in Arrays :
       /\ Len(pairs[a]) <= MaxPairs[a]
       /\ \A i \in DOMAIN pairs[a] : IsPair(pairs[a][i])
  /\ bucketed \in [Arrays -> Nat]
  /\ map \in [Lists -> Ref \cup {NULL}]
  /\ next \in [Ref -> Ref \cup {NULL}]

-----------------------------------------------------------------------------
(* The worker *)

\* output: the validator of the key, if there is one.  The parsed string is
\* sent as the difference that the parent adds to its copy of the value.
State(i) ==
  CASE i.key \notin Checked            -> "KPAIR_UNCHECKED"
    [] i.key \in Checked /\ i.valid    -> "KPAIR_VALID"
    [] i.key \in Checked /\ ~i.valid   -> "KPAIR_INVALID"

Diff(i) == 0 - i.offset

Parsed(i) == [key |-> i.key, state |-> State(i),
              s |-> IF State(i) = "KPAIR_VALID" THEN Diff(i) ELSE 0]

NoPair == [key |-> keysz, state |-> "KPAIR_UNCHECKED", s |-> 0]
Message(type) == [type |-> type, array |-> "fields", pair |-> NoPair]

\* kworker_child: environment, fields, cookies, and an end.
PairMessages(a) ==
  [i \in DOMAIN input[a] |-> [type |-> "pair", array |-> a, pair |-> Parsed(input[a][i])]]

Messages ==
  <<Message("head")>> \o PairMessages("fields") \o PairMessages("cookies")
    \o <<Message("last")>>

RInit ==
  /\ \E f \in BoundedSeq(Inputs, MaxFields), c \in BoundedSeq(Inputs, MaxCookies) :
       input = [fields |-> f, cookies |-> c]
  /\ todo = Messages
  /\ wire = <<>>
  /\ worker = "running"
  /\ parent = "starting"
  /\ er = "OK"
  /\ nomem = 0
  /\ pairs = [a \in Arrays |-> <<>>]
  /\ bucketed = [a \in Arrays |-> 0]
  /\ map = [l \in Lists |-> NULL]
  /\ next = [r \in Ref |-> NULL]

\* The parent has not closed its end of the socket.
Listening_tillReturn == parent # "returned"
Listening == parent \in {"starting", "reading", "bucketing", "read"}

WorkerSend ==
  /\ worker = "running" /\ todo # <<>>
  /\ IF Listening
     THEN /\ Len(wire) < MaxWire
          /\ wire' = Append(wire, Head(todo))
          /\ todo' = Tail(todo)
          /\ UNCHANGED worker
     ELSE worker' = "failed" /\ UNCHANGED <<wire, todo>>
  /\ UNCHANGED <<input, parent, er, nomem, pairs, bucketed, map, next>>

WorkerExit ==
  /\ worker = "running" /\ todo = <<>>
  /\ worker' = "exited"
  /\ UNCHANGED <<input, todo, wire, parent, er, nomem, pairs, bucketed, map, next>>

\* An allocation fails, or the validator crashes; in the middle of a message
\* or between two.
WorkerCrash ==
  /\ worker = "running"
  /\ worker' = "failed"
  /\ \/ UNCHANGED wire
     \/ /\ Listening /\ todo # <<>> /\ Len(wire) < MaxWire
        /\ wire' = Append(wire, Message("part"))
  /\ UNCHANGED <<input, todo, parent, er, nomem, pairs, bucketed, map, next>>

-----------------------------------------------------------------------------
(* The parent *)

\* kworker_parent returns an error.
Fail(e) == parent' = "read" /\ er' = e /\ UNCHANGED pairs

\* It has all there is to read.
Done == parent' = "bucketing" /\ UNCHANGED <<er, pairs>>

ReadMessage ==
  /\ parent = "reading" /\ wire # <<>>
  /\ wire' = Tail(wire)
  /\ LET m == Head(wire)
     IN  \/ m.type = "head" /\ UNCHANGED <<parent, er, pairs>>
         \/ /\ m.type = "pair"
            /\ pairs' = [pairs EXCEPT ![m.array] = Append(@, m.pair)]
            /\ UNCHANGED <<parent, er>>
         \/ m.type = "last" /\ Done
         \/ m.type = "part" /\ Fail("FORM")
  /\ UNCHANGED <<input, todo, worker, nomem, bucketed, map, next>>

\* No memory for what is read.
ReadNoMemory ==
  /\ parent = "reading" /\ wire # <<>> /\ Head(wire).type \in {"head", "pair"}
  /\ nomem < MaxParentNoMem
  /\ nomem' = nomem + 1
  /\ wire' = Tail(wire)
  /\ Fail("ENOMEM")
  /\ UNCHANGED <<input, todo, worker, bucketed, map, next>>

\* The end of the stream is allowed where a pair may begin (eofok).
HeadRead == todo = <<>> \/ Head(todo).type # "head"
ReadEnd ==
  /\ parent = "reading" /\ wire = <<>> /\ worker # "running"
  /\ IF HeadRead THEN Done ELSE Fail("FORM")
  /\ UNCHANGED <<input, todo, wire, worker, nomem, bucketed, map, next>>

\* The lists are allocated, after the worker was forked, or nothing is read.
Start ==
  /\ parent = "starting"
  /\ parent' = "reading"
  /\ UNCHANGED <<input, todo, wire, worker, er, nomem, pairs, bucketed, map, next>>

StartNoMemory ==
  /\ parent = "starting"
  /\ nomem < MaxParentNoMem
  /\ nomem' = nomem + 1
  /\ Fail("ENOMEM")
  /\ UNCHANGED <<input, todo, wire, worker, bucketed, map, next>>

\* In front of list "l" of the lists "t".
Push(t, l, ref) == [map  |-> [t.map EXCEPT ![l] = ref],
                    next |-> [t.next EXCEPT ![ref] = t.map[l]]]

ListOf(a, pair) ==
  <<IF pair.state # "KPAIR_INVALID" THEN Map[a] ELSE NMap[a], pair.key>>

AllBucketed(a) == bucketed[a] = Len(pairs[a])

\* A round of the two last loops of kworker_parent: the pairs whose key is the
\* application's go into the lists, one after the other.
Bucket(a) ==
  /\ parent = "bucketing" /\ ~AllBucketed(a)
  /\ a = "cookies" => AllBucketed("fields")
  /\ bucketed' = [bucketed EXCEPT ![a] = @ + 1]
  /\ LET i == bucketed'[a]
         p == pairs[a][i]
         t == Push([map |-> map, next |-> next], ListOf(a, p), <<a, i>>)
     IN  IF p.key = keysz THEN UNCHANGED <<map, next>>
         ELSE map' = t.map /\ next' = t.next
  /\ UNCHANGED <<input, todo, wire, worker, parent, er, nomem, pairs>>

\* kworker_parent returns KCGI_OK.
AllRead ==
  /\ parent = "bucketing" /\ \A a \in Arrays : AllBucketed(a)
  /\ parent' = "read"
  /\ UNCHANGED <<input, todo, wire, worker, er, nomem, pairs, bucketed, map, next>>

\* The socket is closed before the worker is waited for, error or not.
Close ==
  /\ parent = "read"
  /\ parent' = "closed"
  /\ UNCHANGED <<input, todo, wire, worker, er, nomem, pairs, bucketed, map, next>>

\* kxwaitpid: the worker must have ended well.
Waited_NotLooked == "OK"
Waited == IF worker = "exited" THEN "OK" ELSE "FORM"

\* khttp_parsex returns; if there was an error, without any pair.
Wait ==
  /\ parent = "closed" /\ worker # "running"
  /\ parent' = "returned"
  /\ er' = IF er = "OK" THEN Waited ELSE er
  /\ IF er' = "OK" THEN UNCHANGED <<pairs, map, next>>
     ELSE /\ pairs' = [a \in Arrays |-> <<>>]
          /\ map' = [l \in Lists |-> NULL]
          /\ next' = [r \in Ref |-> NULL]
  /\ UNCHANGED <<input, todo, wire, worker, nomem, bucketed>>

-----------------------------------------------------------------------------
(* The application *)

\* The pairs of the list that begins with "first".
Closed(S) == \A r \in S : next[r] # NULL => next[r] \in S
Reach(first) ==
  {r \in Ref : \A S \in SUBSET Ref : Closed(S) /\ first \in S \cup {NULL} => r \in S}

\* kutil_invalidate takes a pair out of list "l" and puts it in front of the
\* list "n" of invalid pairs.
Unlink(l, ref) ==
  IF map[l] = ref
  THEN [map |-> [map EXCEPT ![l] = next[ref]], next |-> next]
  ELSE LET last == CHOOSE r \in Reach(map[l]) : next[r] = ref
       IN  [map |-> map, next |-> [next EXCEPT ![last] = next[ref]]]

MoveTo_fieldnmap(a, k) == <<"fieldnmap", k>>
MoveTo(a, k) == <<NMap[a], k>>

\* Whether the pair is in the array's list of its key.
Found(a, ref) == ref \in Reach(map[<<Map[a], pairs[ref[1]][ref[2]].key>>])

Invalid(p) == [p EXCEPT !.state = "KPAIR_INVALID", !.s = 0]

kutil_invalidate ==
  /\ parent = "returned" /\ er = "OK"
  /\ \E ref \in {r \in Ref : r[2] <= Len(pairs[r[1]])} :
       LET p == pairs[ref[1]][ref[2]]
           Moved(a) == Push(Unlink(<<Map[a], p.key>>, ref), MoveTo(a, p.key), ref)
           t == CASE p.key # keysz /\ Found("fields", ref) -> Moved("fields")
                  [] p.key # keysz /\ ~Found("fields", ref) /\ Found("cookies", ref)
                       -> Moved("cookies")
                  [] OTHER -> [map |-> map, next |-> next]
       IN  /\ pairs' = [pairs EXCEPT ![ref[1]][ref[2]] = Invalid(@)]
           /\ map' = t.map
           /\ next' = t.next
  /\ UNCHANGED <<input, todo, wire, worker, parent, er, nomem, bucketed>>

RequestOver ==
  /\ parent = "returned" /\ worker # "running"
  /\ UNCHANGED rvars

Worker == WorkerSend \/ WorkerExit
Parent ==
  \/ Start \/ StartNoMemory \/ ReadMessage \/ ReadNoMemory \/ ReadEnd
  \/ (\E a \in Arrays : Bucket(a)) \/ AllRead \/ Close \/ Wait

RNext == Worker \/ WorkerCrash \/ Parent \/ kutil_invalidate \/ RequestOver

\* Two processes that run.
RFairness == WF_rvars(Worker) /\ WF_rvars(Parent)

RSpec == RInit /\ [][RNext]_rvars /\ RFairness

-----------------------------------------------------------------------------
(* Properties *)

Of(a, k, states) ==
  {<<a, i>> : i \in {j \in DOMAIN pairs[a] :
                       pairs[a][j].key = k /\ pairs[a][j].state \in states}}

Succeeded == parent = "returned" /\ er = "OK"

\* Every pair with a known key is in one list, that of its array, its key and
\* its state; a list of pairs that are not invalid has the last of the request
\* first, and one of invalid pairs ends, however many were invalidated in
\* whatever order (parent.c:362-397, kcgi.c:1110-1167).
ListsHoldPairs ==
  Succeeded =>
    \A a \in Arrays, k \in Keys :
      LET valid == Reach(map[<<Map[a], k>>])
          invalid == Reach(map[<<NMap[a], k>>])
      IN  /\ valid = Of(a, k, {"KPAIR_VALID", "KPAIR_UNCHECKED"})
          /\ invalid = Of(a, k, {"KPAIR_INVALID"})
          /\ \A r \in valid : next[r] # NULL => next[r][2] < r[2]
          /\ \A r \in invalid : r \notin Reach(next[r])

\* khttp_parse succeeds only with all the pairs of the request, in order,
\* although the end of the stream may come between any two; if it does not,
\* there are none (kcgi.c:1091-1107).
KeysOf(seq) == [i \in DOMAIN seq |-> seq[i].key]
AllOrNothing ==
  parent = "returned" =>
    \A a \in Arrays :
      KeysOf(pairs[a]) =
        IF er = "OK" THEN KeysOf(input[a]) ELSE <<>>

\* khttp_parse returns: the worker is never left writing to a parent that waits
\* for it to end (kcgi.c:1091-1103).
HasReturned == parent = "returned"

=============================================================================

--------------------------------- MODULE Storage ---------------------------------
(***************************************************************************)
(* The memory of a request (struct kreq of src/kcgi.h): what khttp_parsex  *)
(* and kworker_parent allocate while they read what the worker sends, any  *)
(* step of which may fail, and what kreq_free frees.                       *)
(*                                                                         *)
(* A pointer is where it is kept and the block it points to.  "kp" is the  *)
(* pair that is being read, whose pointers are copied into an array.       *)
(***************************************************************************)
EXTENDS Integers, Sequences, SequencesExt

CONSTANTS
  MaxEnvs, MaxReqs,    \* bounds: variables, headers
  MaxInputs             \* bound: fields and cookies

VARIABLES
  shape,   \* what the worker sends
  pc,      \* the step that is next
  state,   \* "reading", "parsed", "refused" (an error was returned), "freed"
           \* (by the application), "crashed" or "aborted"
  ptrs,    \* pointers that are not NULL
  sizes,   \* envsz and reqsz
  heap,    \* blocks allocated and not freed
  twice    \* whether some block was freed after it had been

vars == <<shape, pc, state, ptrs, sizes, heap, twice>>

Kinds == {"none", "basic", "bearer", "digest", "unknown"}
Arrays == {"fields", "cookies"}
KpFields == {"key", "val", "file", "ctype", "xcode"}

-----------------------------------------------------------------------------
(* The steps: a place gets a block of its own from "calloc", "malloc" and  *)
(* "word" (fullreadword), and nothing is allocated for a "number".         *)

Step(op, place) == [op |-> op, place |-> place]
Number == Step("number", <<>>)
Word(name) == Step("word", <<name>>)
Words(names) == [i \in DOMAIN names |-> Word(names[i])]

\* khttp_parsex, before anything is read, with keys.
ParseSteps ==
  <<Step("calloc", <<"kdata">>), Step("calloc", <<"cookiemap">>),
    Step("calloc", <<"cookienmap">>), Step("calloc", <<"fieldmap">>),
    Step("calloc", <<"fieldnmap">>)>>

\* The number of variables or headers, their array, and then each of them, a
\* header with its number before it.
ListSteps(list, n) ==
  <<Step("size", <<list>>)>>
    \o (IF n = 0 THEN <<>> ELSE <<Step("calloc", <<list>>)>>)
    \o FlattenSeq([i \in 1..n |->
         (IF list = "reqs" THEN <<Number>> ELSE <<>>)
           \o <<Step("word", <<list, i, "key">>), Step("word", <<list, i, "val">>)>>])

\* kworker_auth_parent.
AuthSteps(kind, authorised) ==
  <<Number>>
    \o (IF kind \in {"none", "unknown"} THEN <<>> ELSE <<Number>>)
    \o (IF ~authorised \/ kind \in {"none", "unknown"} THEN <<>>
        ELSE IF kind = "digest"
        THEN <<Number, Number>>
               \o Words(<<"user", "uri", "realm", "nonce", "cnonce", "response">>)
               \o <<Number, Word("opaque")>>
        ELSE <<Word("basic response")>>)

RestSteps(md5) ==
  <<Number>> \o Words(<<"remote", "fullpath", "suffix", "pagename", "path", "pname", "host">>)
    \o <<Number, Number>>
    \o (IF md5 THEN <<Step("malloc", <<"digest">>), Number>> ELSE <<>>)

\* input: kp is cleared, then read; a mutant reads the type of the input first.
InputSteps_TypeFirst == <<Number, Step("clear", <<>>)>>
InputSteps == <<Step("clear", <<>>), Number>>

\* One pair, and what becomes of it.
PairSteps(array) ==
  InputSteps
    \o <<Step("word", <<"kp", "key">>), Step("word", <<"kp", "val">>), Number,
         Step("word", <<"kp", "file">>), Step("word", <<"kp", "ctype">>), Number,
         Step("word", <<"kp", "xcode">>), Step("expand", <<array>>)>>

Steps ==
  ParseSteps
    \o ListSteps("envs", shape.envs) \o ListSteps("reqs", shape.reqs)
    \o <<Number, Number>> \o AuthSteps(shape.auth, shape.authorised) \o RestSteps(shape.md5)
    \o FlattenSeq([i \in DOMAIN shape.pairs |-> PairSteps(shape.pairs[i])])
    \o InputSteps

Init ==
  /\ shape \in [envs : 0..MaxEnvs, reqs : 0..MaxReqs, auth : Kinds, authorised : BOOLEAN,
                md5 : BOOLEAN, pairs : BoundedSeq(Arrays, MaxInputs)]
  /\ pc = 1 /\ state = "reading"
  /\ ptrs = {} /\ sizes = [envs |-> 0, reqs |-> 0] /\ heap = {} /\ twice = FALSE

-----------------------------------------------------------------------------
(* Reading                                                                 *)

At(op) == state = "reading" /\ pc <= Len(Steps) /\ Steps[pc].op \in op
Place == Steps[pc].place
Goes == pc' = pc + 1 /\ UNCHANGED <<shape, state, twice>>

\* A block is known by the step that allocated it.
Allocates ==
  /\ At({"calloc", "malloc", "word"})
  /\ heap' = heap \cup {pc}
  /\ ptrs' = ptrs \cup {<<Place, pc>>}
  /\ Goes /\ UNCHANGED sizes

ReadsNumber ==
  /\ At({"number", "size"})
  /\ sizes' = IF Steps[pc].op = "size" THEN [sizes EXCEPT ![Place[1]] = shape[Place[1]]] ELSE sizes
  /\ Goes /\ UNCHANGED <<ptrs, heap>>

InKp(p) == p[1][1] = "kp"

Clears ==
  /\ At({"clear"})
  /\ ptrs' = {p \in ptrs : ~InKp(p)}
  /\ Goes /\ UNCHANGED <<sizes, heap>>

\* kpair_expand gives the array another block, and the pair is copied.
Expands ==
  /\ At({"expand"})
  /\ LET old == {p \in ptrs : p[1] = Place}
     IN /\ heap' = (heap \ {p[2] : p \in old}) \cup {pc}
        /\ ptrs' = (ptrs \ old) \cup {<<Place, pc>>}
                     \cup {<<<<Place[1], pc, p[1][2]>>, p[2]>> : p \in {q \in ptrs : InKp(q)}}
  /\ Goes /\ UNCHANGED sizes

-----------------------------------------------------------------------------
(* Freeing                                                                 *)

\* free(3) of all that a set of pointers, each used once, points to.
Free(set) ==
  /\ heap' = heap \ {p[2] : p \in set}
  /\ twice' = (twice \/ \E p \in set : p[2] \notin heap \/ \E q \in set \ {p} : p[2] = q[2])

DigestFields == {"user", "uri", "realm", "nonce", "cnonce", "response", "opaque"}

\* What kreq_free frees: of the credentials, which share a union, those that
\* their type says are there; not the array of variables, but what it points to.
Freed(p) ==
  LET place == p[1]
  IN CASE place = <<"envs">> \/ place[1] = "kp" -> FALSE
       [] place[1] \in DigestFields -> shape.auth = "digest"
       [] place[1] = "basic response" -> shape.auth \in {"basic", "bearer"}
       [] OTHER -> TRUE

\* It goes through the arrays by their sizes, whether or not they are there.
NoArray(list) == sizes[list] > 0 /\ \A p \in ptrs : p[1] # <<list>>
NoArrays == NoArray("envs") \/ NoArray("reqs")

\* "out" in kworker_parent and "err" in khttp_parsex; before kworker_parent, the
\* latter only.
Out(ok) ==
  LET inParent == pc > Len(ParseSteps)
  IN /\ IF inParent /\ ok THEN state' = "aborted" /\ UNCHANGED <<heap, twice>>
        ELSE IF NoArrays THEN state' = "crashed" /\ UNCHANGED <<heap, twice>>
        ELSE state' = "refused" /\ Free({p \in ptrs : Freed(p) \/ (inParent /\ InKp(p))})
     /\ ptrs' = {} /\ UNCHANGED <<shape, pc, sizes>>

\* The stream ends, or there is no memory; for the digest, "ke" has not been set
\* then.
Fails == At({"calloc", "malloc", "word", "number", "size", "expand"})
           /\ Out(Steps[pc].op = "malloc")

Done ==
  /\ state = "reading" /\ pc > Len(Steps)
  /\ state' = "parsed"
  \* kworker_parent's kp is gone.
  /\ ptrs' = {p \in ptrs : ~InKp(p)}
  /\ UNCHANGED <<shape, pc, sizes, heap, twice>>

\* khttp_free, khttp_child_free, and khttp_parsex if the worker has failed.
KreqFree ==
  /\ state = "parsed"
  /\ state' \in {"freed", "refused"}
  /\ Free({p \in ptrs : Freed(p)})
  /\ ptrs' = {} /\ UNCHANGED <<shape, pc, sizes>>

Over == state \notin {"reading", "parsed"} /\ UNCHANGED vars
Next == Allocates \/ ReadsNumber \/ Clears \/ Expands \/ Fails \/ Done \/ KreqFree \/ Over
Spec == Init /\ [][Next]_vars

-----------------------------------------------------------------------------
(* Properties *)

\* Whichever step fails, and if none does, all that was allocated is freed but
\* the array of variables, which kreq_free forgets (kcgi.c:907-912) although the
\* manual of khttp_free has it "free the resources of req"; and nothing twice,
\* although the pair that is read last has been copied (parent.c:323-331,
\* kcgi.c:881-941, 1101-1107).
FreedOnce ==
  /\ ~twice
  /\ state \in {"refused", "freed"} => \A block \in heap : Steps[block].place = <<"envs">>

=============================================================================

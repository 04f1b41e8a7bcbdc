---------------------------------- MODULE Wire ----------------------------------
(***************************************************************************)
(* What the worker writes to the parent with fullwrite and fullwriteword   *)
(* (src/wrappers.c): numbers and words, in an order that only the code of  *)
(* the two fixes.                                                          *)
(***************************************************************************)
EXTENDS Words

Null == <<-1>>     \* a null pointer where a string may be

Num(n) == [kind |-> "number", number |-> n, word |-> <<>>]

\* A null pointer is written as the empty word.
Word(s) == [kind |-> "word", number |-> 0, word |-> IF s = Null THEN <<>> ELSE s]

\* The reader takes as many bytes as what it expects has: if that is not what
\* was written, what follows is not in step any more.
InStep(wire, kinds) ==
  Len(wire) >= Len(kinds) /\ \A i \in 1..Len(kinds) : wire[i].kind = kinds[i]

=============================================================================

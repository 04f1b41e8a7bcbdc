-------------------------------- MODULE Writer ---------------------------------
(***************************************************************************)
(* What the JSON, XML and HTML writers (KJson, KXml, KHtml) have in        *)
(* common: a stack of open scopes, writes that may fail, and an observer   *)
(* that reads what is written.                                             *)
(*                                                                         *)
(* A write that fails loses bytes: from there on nothing is said of what   *)
(* is written ("lost"), only of the writer.                                *)
(***************************************************************************)
EXTENDS Sequences, SequencesExt

CONSTANTS
  Bottom,       \* the stack of an empty document
  Start,        \* the reader before anything is written
  Read(_, _)    \* the reader after one more piece of what is written

VARIABLES
  stack,    \* the open scopes
  open,     \* between the writer's "open" and "close": arg # NULL
  er,       \* what the last call returned
  given,    \* the text the application gave last
  read      \* the reader; read.at is "lost" after a failed write, read.open
            \* the scopes it knows, read.text the text it has read last

vars == <<stack, open, er, given, read>>

Lost == [Start EXCEPT !.at = "lost"]

Begin(s, o, e, g, r) == s = Bottom /\ o = TRUE /\ e = "OK" /\ g = <<>> /\ r = Start
Init == Begin(stack, open, er, given, read)

\* Another document, after the last was closed.
OpenAgain == ~open /\ Begin(stack', open', er', given', read')

ReadAll(out) ==
  FoldLeft(LAMBDA r, c : IF r.at = "lost" THEN r ELSE Read(r, c), read, out)

\* All of "out" is written, and the stack becomes "done"; or a write fails,
\* and it becomes one of "failed".
Write(out, text, done, failed) ==
  \/ /\ er' = "OK"
     /\ stack' = done
     /\ read' = ReadAll(out)
     /\ given' = IF read.at = "lost" THEN <<>> ELSE text
  \/ /\ out # <<>>
     /\ er' = "SYSTEM"
     /\ stack' \in failed
     /\ read' = Lost
     /\ given' = <<>>

Refuse(e) == er' = e /\ UNCHANGED <<stack, read, given>>

-----------------------------------------------------------------------------
(* Properties *)

\* After a successful close, nothing is left open in what was written.
ClosedComplete == ~open /\ er = "OK" /\ read.at # "lost" => read.open = <<>>

\* Text is read as it was given, whatever characters it has.
TextKept == read.at # "lost" => read.text = given

\* A call that is refused writes nothing, not even a part, and changes no
\* scope: the application may go on with another.
Untouched == er' \in {"WRITER", "ENOMEM"} => UNCHANGED <<stack, read>>

=============================================================================

--------------------------------- MODULE KHtml ---------------------------------
(***************************************************************************)
(* The HTML writer (src/kcgihtml.c): a stack of open elements, of which    *)
(* void elements and instructions are never part.                          *)
(*                                                                         *)
(* As in KJson, what is written is read by an observer, here by the syntax *)
(* of tags, attributes, text and character references.  It passes over the *)
(* white space of pretty-printing, which may be in the content only.       *)
(***************************************************************************)
EXTENDS Integers, Sequences, SequencesExt

CONSTANTS
  Flow, Phrase, Void, Instruction,  \* the elements of each kind (enum htype)
  StackMax,     \* KHTML_STACK_MAX
  MaxText       \* bound: characters of a text, and between two tags

VARIABLES
  stack,    \* elems[0..elemsz-1]
  open,     \* between khtml_open and khtml_close
  er,       \* what the last call returned
  given,    \* the text since the last tag began
  read,     \* the reader: "at" where it is, the elements "open", the "text"
            \* since the last tag began, the tag's "elem"
  pretty,   \* opts: KHTML_PRETTY
  newln

layout == <<pretty, newln>>

\* The elements, of which only those that have an end are ever open.
tags == [Flow |-> Flow, Phrase |-> Phrase, Void |-> Void, Instruction |-> Instruction]
Elems == UNION Range(tags)
IsScope(elem) == elem \notin tags.Void \cup tags.Instruction

\* The attributes, and the entities by their numbers in hexadecimal: some of
\* those the library has.
attrs == {"id", "title"}
entities == [c \in {"<", ">", "&", "\"", "Eacute"} |->
               CASE c = "<" -> "3c" [] c = ">" -> "3e" [] c = "&" -> "26"
                 [] c = "\"" -> "22" [] c = "Eacute" -> "c9"]

Char == {"a", "<", ">", "&", "\"", "'"}
Text == BoundedSeq(Char, MaxText)

\* The references to characters a document of the library has.
Code == entities @@ ("'" :> "27")

-----------------------------------------------------------------------------
(* The reader *)

Start == [at |-> "content", open |-> <<>>, text |-> <<>>, elem |-> "", in |-> ""]

\* The end of a tag that begins an element.
Began(r) == [r EXCEPT !.at = "content", !.elem = "",
                      !.open = IF IsScope(r.elem) THEN Append(@, r.elem) ELSE @]

Read(r, c) ==
  CASE r.at \in {"content", "value"} /\ c = "&#x" ->
         [r EXCEPT !.at = "code", !.in = r.at]
    [] r.at = "code" /\ c \in Range(Code) ->
         [r EXCEPT !.at = "semicolon",
                   !.text = Append(@, CHOOSE d \in DOMAIN Code : Code[d] = c)]
    [] r.at = "semicolon" /\ c = ";" -> [r EXCEPT !.at = r.in, !.in = ""]
    [] r.at = "content" /\ c \in {"a", ">", "\"", "'"} ->
         [r EXCEPT !.text = Append(@, c)]
    [] r.at = "value" /\ c \in {"a", "<", ">", "'"} ->
         [r EXCEPT !.text = Append(@, c)]
    [] r.at = "value" /\ c = "\"" -> [r EXCEPT !.at = "tag"]
    [] r.at = "content" /\ c \in {"\n", "  "} -> r
    [] r.at = "content" /\ c = "<" -> [r EXCEPT !.at = "start", !.text = <<>>]
    [] r.at = "content" /\ c = "</" -> [r EXCEPT !.at = "end", !.text = <<>>]
    [] r.at = "start" /\ c \in Elems -> [r EXCEPT !.at = "tag", !.elem = c]
    [] r.at = "tag" /\ c = " " -> [r EXCEPT !.at = "attribute"]
    [] r.at = "attribute" /\ c \in attrs -> [r EXCEPT !.at = "equals"]
    [] r.at = "equals" /\ c = "=\"" -> [r EXCEPT !.at = "value"]
    [] r.at = "tag" /\ c = ">" -> Began(r)
    [] r.at = "tag" /\ c = "/" /\ r.elem \in Void -> [r EXCEPT !.at = "slash"]
    [] r.at = "slash" /\ c = ">" -> Began(r)
    [] r.at = "end" /\ r.open # <<>> /\ c = Last(r.open) ->
         [r EXCEPT !.at = "end tag", !.open = Front(@)]
    [] r.at = "end tag" /\ c = ">" -> [r EXCEPT !.at = "content"]
    [] OTHER -> [r EXCEPT !.at = "wrong"]

-----------------------------------------------------------------------------
(* The writer *)

INSTANCE Writer WITH Bottom <- <<>>

TypeOK ==
  /\ stack \in Seq(Flow \cup Phrase)
  /\ Len(stack) <= StackMax
  /\ open \in BOOLEAN
  /\ er \in {"OK", "SYSTEM", "ENOMEM"}
  /\ given \in Seq(DOMAIN Code \cup {"a"})
  /\ read.open \in Seq(Flow \cup Phrase)
  /\ newln => pretty

elemsz == Len(stack)

\* khtml_entity and khtml_ncr, which khtml_putc uses too.
Reference(c) == <<"&#x", Code[c], ";">>
Encode(c) == IF c \in DOMAIN Code THEN Reference(c) ELSE <<c>>
Encoded(text) == FlattenSeq([i \in DOMAIN text |-> Encode(text[i])])

\* khtml_putc, khtml_write, and all that end there.  Text leaves newln alone.
khtml_write ==
  \E t \in Text :
    /\ Len(given \o t) <= MaxText
    /\ Write(Encoded(t), given \o t, stack, {stack})
    /\ UNCHANGED <<open, layout>>

khtml_entity ==
  \E e \in DOMAIN entities :
    /\ Len(given) < MaxText
    /\ Write(Reference(e), Append(given, e), stack, {stack})
    /\ UNCHANGED <<open, layout>>

\* khtml_flow_open and khtml_flow_close: what is written before and after a
\* tag, inside sz elements; n is newln before it.
FlowOpen(elem, sz, n) ==
  IF ~pretty THEN <<>>
  ELSE (IF elem \in tags.Flow /\ ~n THEN <<"\n">> ELSE <<>>)
         \o (IF n \/ elem \in tags.Flow THEN [i \in 1..sz |-> "  "] ELSE <<>>)

Breaks(elem) == pretty /\ elem \in tags.Flow \cup tags.Instruction
FlowClose(elem) == IF Breaks(elem) THEN <<"\n">> ELSE <<>>

\* newln after a tag, before which it was n: if a write failed, that depends
\* on which.
Laid(elem, n) ==
  /\ newln' \in IF er' = "OK" THEN {Breaks(elem)}
                ELSE {FALSE, n, pretty /\ elem \in tags.Flow}
  /\ UNCHANGED pretty

\* khtml_attr, khtml_attrx, khtml_elem.
Full(elem) == IsScope(elem) /\ elemsz >= StackMax

Attributes(vals) ==
  FlattenSeq([i \in DOMAIN vals |->
                <<" ", vals[i].name, "=\"">> \o Encoded(vals[i].text) \o <<"\"">>])

\* At most one attribute, of one character.
Values == {<<>>} \cup {<<v>> : v \in [name : attrs, text : BoundedSeq(Char, 1)]}

khtml_attr ==
  /\ \E elem \in Elems, vals \in Values :
       IF Full(elem) THEN Refuse("ENOMEM") /\ UNCHANGED layout
       ELSE /\ Write(FlowOpen(elem, elemsz, newln) \o <<"<", elem>> \o Attributes(vals)
                       \o (IF elem \in tags.Void THEN <<"/">> ELSE <<>>) \o <<">">>
                       \o FlowClose(elem),
                     FlattenSeq([i \in DOMAIN vals |-> vals[i].text]),
                     IF IsScope(elem) THEN Append(stack, elem) ELSE stack,
                     {stack})
            /\ Laid(elem, newln)
  /\ UNCHANGED open

\* khtml_closeelem: every element is off the stack before its tag is written.
Closed(sz) == IF sz = 0 \/ sz > elemsz THEN elemsz ELSE sz

CloseElem(sz) ==
  LET elems == SubSeq(Reverse(stack), 1, Closed(sz))
      Kept(n) == SubSeq(stack, 1, elemsz - n)
      Newln(n) == IF n = 1 THEN newln ELSE Breaks(elems[n - 1])
      Ended(n) == FlowOpen(elems[n], elemsz - n, Newln(n))
                    \o <<"</", elems[n], ">">> \o FlowClose(elems[n])
  IN  /\ Write(FlattenSeq([n \in DOMAIN elems |-> Ended(n)]),
               IF elems = <<>> THEN given ELSE <<>>,
               Kept(Len(elems)), {Kept(n) : n \in 1..Len(elems)})
      /\ IF elems = <<>> THEN UNCHANGED layout
         ELSE \E n \in DOMAIN elems : stack' = Kept(n) /\ Laid(elems[n], Newln(n))

khtml_closeelem == (\E sz \in 0..StackMax + 1 : CloseElem(sz)) /\ UNCHANGED open

\* khtml_closeto: down to what khtml_elemat has returned.

CloseTo(pos) ==
  IF pos >= elemsz THEN er' = "OK" /\ UNCHANGED <<stack, read, given, layout>>
                   ELSE CloseElem(elemsz - pos)

khtml_closeto == (\E pos \in 0..StackMax : CloseTo(pos)) /\ UNCHANGED open

\* khtml_close lets go of the writer even if that failed.
khtml_close == CloseElem(0) /\ open' = FALSE

khtml_open == OpenAgain /\ pretty' \in BOOLEAN /\ newln' = FALSE

BeginHtml == Init /\ pretty \in BOOLEAN /\ newln = FALSE

Next ==
  \/ open /\ khtml_write
  \/ open /\ khtml_entity
  \/ open /\ khtml_attr
  \/ open /\ khtml_closeelem
  \/ open /\ khtml_closeto
  \/ open /\ khtml_close
  \/ khtml_open

Spec == BeginHtml /\ [][Next]_<<vars, layout>>

-----------------------------------------------------------------------------
(* Properties *)

\* Every end tag is that of the innermost element, void elements have none,
\* and the elements that are open are those on the stack
\* (kcgihtml.c:524-739).
WellFormed == read.at # "lost" => read.at = "content" /\ read.open = stack

=============================================================================

--------------------------------- MODULE KXml ----------------------------------
(***************************************************************************)
(* The XML writer (src/kcgixml.c): a stack of open elements.               *)
(*                                                                         *)
(* As in KJson, what is written is read by an observer, here by the        *)
(* productions of XML 1.0 for tags, attributes and character data.         *)
(***************************************************************************)
EXTENDS Integers, Sequences, SequencesExt

CONSTANTS
  Elems,        \* element names: elems[0..elemsz-1]
  StackMax,     \* KXML_STACK_MAX
  MaxText       \* bound: characters of a text, and between two tags

VARIABLES
  stack,    \* stack[0..stackpos-1]
  open,     \* between kxml_open and kxml_close
  er,       \* what the last call returned
  given,    \* the text since the last tag began
  read      \* the reader: "at" where it is, the elements "open", the "text"
            \* since the last tag began

Char == {"a", "<", ">", "\"", "&"}
Text == BoundedSeq(Char, MaxText)

\* An index that is not below elemsz.
NoElem == "elemsz"

Entity == [c \in {"<", ">", "\"", "&"} |->
             CASE c = "<"  -> "&lt;"
               [] c = ">"  -> "&gt;"
               [] c = "\"" -> "&quot;"
               [] c = "&"  -> "&amp;"]

-----------------------------------------------------------------------------
(* The reader *)

Start == [at |-> "content", open |-> <<>>, text |-> <<>>]

Read(r, c) ==
  CASE r.at \in {"content", "value"} /\ c \in Range(Entity) ->
         [r EXCEPT !.text = Append(@, CHOOSE d \in DOMAIN Entity : Entity[d] = c)]
    [] r.at = "content" /\ c \in {"a", ">", "\""} -> [r EXCEPT !.text = Append(@, c)]
    [] r.at = "content" /\ c = "<" -> [r EXCEPT !.at = "start", !.text = <<>>]
    [] r.at = "content" /\ c = "</" -> [r EXCEPT !.at = "end", !.text = <<>>]
    [] r.at = "start" /\ c \in Elems ->
         [r EXCEPT !.at = "tag", !.open = Append(@, c)]
    [] r.at = "tag" /\ c = " " -> [r EXCEPT !.at = "attribute"]
    [] r.at = "attribute" /\ c = "key" -> [r EXCEPT !.at = "equals"]
    [] r.at = "equals" /\ c = "=\"" -> [r EXCEPT !.at = "value"]
    [] r.at = "value" /\ c = "\"" -> [r EXCEPT !.at = "tag"]
    [] r.at = "value" /\ c \in {"a", ">"} -> [r EXCEPT !.text = Append(@, c)]
    [] r.at = "tag" /\ c = ">" -> [r EXCEPT !.at = "content"]
    [] r.at = "tag" /\ c = " />" ->
         [r EXCEPT !.at = "content", !.open = Front(@)]
    [] r.at = "end" /\ r.open # <<>> /\ c = Last(r.open) ->
         [r EXCEPT !.at = "end tag", !.open = Front(@)]
    [] r.at = "end tag" /\ c = ">" -> [r EXCEPT !.at = "content"]
    [] OTHER -> [r EXCEPT !.at = "wrong"]

-----------------------------------------------------------------------------
(* The writer *)

INSTANCE Writer WITH Bottom <- <<>>

TypeOK ==
  /\ stack \in Seq(Elems)
  /\ Len(stack) <= StackMax
  /\ open \in BOOLEAN
  /\ er \in {"OK", "SYSTEM", "ENOMEM", "WRITER"}
  /\ given \in Seq(Char)
  /\ read.open \in Seq(Elems)

stackpos == Len(stack)

\* kxml_putc
Encode(c) == IF c \in DOMAIN Entity THEN Entity[c] ELSE c
Encoded(text) == [i \in DOMAIN text |-> Encode(text[i])]

\* kxml_putc, kxml_puts, kxml_write
kxml_write ==
  \E t \in Text :
    /\ Len(given \o t) <= MaxText
    /\ Write(Encoded(t), given \o t, stack, {stack})

Attributes(vals) ==
  FlattenSeq([i \in DOMAIN vals |->
                <<" ", "key", "=\"">> \o Encoded(vals[i]) \o <<"\"">>])

\* What all four functions check before they write.
Full == stackpos >= StackMax
Checked(elem, step) ==
  IF Full THEN Refuse("ENOMEM")
  ELSE IF elem = NoElem THEN Refuse("WRITER")
  ELSE step

Values == {<<>>} \cup {<<v>> : v \in Text}

\* kxml_push, and kxml_pushattrs, which has pushed the element when the last
\* write of all fails.
kxml_pushattrs ==
  \E elem \in Elems \cup {NoElem}, vals \in Values :
    Checked(elem, Write(<<"<", elem>> \o Attributes(vals) \o <<">">>,
                        FlattenSeq(vals), Append(stack, elem),
                        {stack, Append(stack, elem)}))

\* kxml_pushnull, kxml_pushnullattrs
kxml_pushnullattrs ==
  \E elem \in Elems \cup {NoElem}, vals \in Values :
    Checked(elem, Write(<<"<", elem>> \o Attributes(vals) \o <<" />">>,
                        FlattenSeq(vals), stack, {stack}))

\* kxml_pop_inner: the element is off the stack before its name is written.
EndTag_outermost(elem) == <<"</", stack[1], ">">>
EndTag(elem) == <<"</", elem, ">">>

kxml_pop ==
  IF stackpos = 0 THEN Refuse("WRITER")
  ELSE Write(EndTag(Last(stack)), <<>>, Front(stack), {stack, Front(stack)})

\* kxml_popall

PopAll ==
  LET elems == Reverse(stack)
  IN  Write(FlattenSeq([i \in DOMAIN elems |-> EndTag(elems[i])]),
            IF elems = <<>> THEN given ELSE <<>>, <<>>,
            {SubSeq(stack, 1, n) : n \in 0..Len(stack)})

kxml_popall == PopAll /\ UNCHANGED open

\* kxml_close lets go of the writer even if that failed.
kxml_close == PopAll /\ open' = FALSE

kxml_open == OpenAgain

Next ==
  \/ open /\ kxml_write /\ UNCHANGED open
  \/ open /\ kxml_pushattrs /\ UNCHANGED open
  \/ open /\ kxml_pushnullattrs /\ UNCHANGED open
  \/ open /\ kxml_pop /\ UNCHANGED open
  \/ open /\ kxml_popall
  \/ open /\ kxml_close
  \/ kxml_open

Spec == Init /\ [][Next]_vars

-----------------------------------------------------------------------------
(* Properties *)

\* What is written is well-formed: every end tag is that of the innermost
\* element, and the elements that are open are those on the stack
\* (kcgixml.c:63-84, 237-260).
WellFormed == read.at # "lost" => read.at = "content" /\ read.open = stack

=============================================================================

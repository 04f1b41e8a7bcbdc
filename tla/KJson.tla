--------------------------------- MODULE KJson ---------------------------------
(***************************************************************************)
(* The JSON writer (src/kcgijson.c).  An application opens and closes      *)
(* arrays, objects and strings in any order it likes; the writer refuses   *)
(* what does not fit.                                                      *)
(*                                                                         *)
(* What it writes is read, character by character, by the grammar of RFC   *)
(* 8259: "read" is the state of that reader, an observer that is not in    *)
(* the code.  A write that fails loses bytes: from there on nothing is     *)
(* said of what is written ("lost"), only of the writer.                   *)
(*                                                                         *)
(* Spaces and the digits of numbers are left out.                          *)
(***************************************************************************)
EXTENDS Integers, Sequences, SequencesExt

CONSTANTS
  StackMax,     \* KJSON_STACK_MAX
  MaxKey,       \* bound: characters of a key
  MaxText       \* bound: characters of a string

VARIABLES
  stack,    \* stack[0..stackpos]: type, and whether elements > 0
  open,     \* between kjson_open and kjson_close: arg # NULL
  er,       \* what the last call returned
  given,    \* the text of the last string
  read      \* the reader: "at" what it expects, the scopes "open", whether
            \* the string is a "key", the "text" of the last string

Char == {"a", "\"", "\\", "/", "control"}
Text == BoundedSeq(Char, MaxText)

\* A key, or no key.
NULL == <<>>
Keys == {NULL} \cup {<<text>> : text \in BoundedSeq(Char, MaxKey)}

Root == [type |-> "root", elements |-> FALSE]
NewScope(type) == [type |-> type, elements |-> FALSE]

-----------------------------------------------------------------------------
(* The reader *)

Start == [at |-> "value", open |-> <<>>, key |-> FALSE, text |-> <<>>]

ExpectsValue(r) == r.at \in {"value", "value or ]"}
ExpectsKey(r) == r.at \in {"key", "key or }"}
In(r, type) == r.open # <<>> /\ Last(r.open) = type

ReadInString(r, c) ==
  CASE c = "\""  -> [r EXCEPT !.at = IF r.key THEN "colon" ELSE "next"]
    [] c = "\\"  -> [r EXCEPT !.at = "escape"]
    [] c = "\\u00XX" -> [r EXCEPT !.text = Append(@, "control")]
    [] c = "control" -> [r EXCEPT !.at = "wrong"]
    [] OTHER     -> [r EXCEPT !.text = Append(@, c)]

Read(r, c) ==
  CASE r.at = "string" -> ReadInString(r, c)
    [] r.at = "escape" /\ c \in {"\"", "\\", "/"} ->
         [r EXCEPT !.at = "string", !.text = Append(@, c)]
    [] c = "scalar" /\ ExpectsValue(r) -> [r EXCEPT !.at = "next"]
    [] c = "\"" /\ (ExpectsValue(r) \/ ExpectsKey(r)) ->
         [r EXCEPT !.at = "string", !.key = ExpectsKey(r), !.text = <<>>]
    [] c = "[" /\ ExpectsValue(r) ->
         [r EXCEPT !.at = "value or ]", !.open = Append(@, "array")]
    [] c = "{" /\ ExpectsValue(r) ->
         [r EXCEPT !.at = "key or }", !.open = Append(@, "object")]
    [] c = "]" /\ In(r, "array") /\ r.at \in {"value or ]", "next"} ->
         [r EXCEPT !.at = "next", !.open = Front(@)]
    [] c = "}" /\ In(r, "object") /\ r.at \in {"key or }", "next"} ->
         [r EXCEPT !.at = "next", !.open = Front(@)]
    [] c = "," /\ r.at = "next" ->
         [r EXCEPT !.at = IF In(r, "object") THEN "key" ELSE "value"]
    [] c = ":" /\ r.at = "colon" -> [r EXCEPT !.at = "value"]
    [] OTHER -> [r EXCEPT !.at = "wrong"]

-----------------------------------------------------------------------------
(* The writer *)

INSTANCE Writer WITH Bottom <- <<Root>>

TypeOK ==
  /\ Len(stack) \in 1..StackMax
  /\ \A i \in DOMAIN stack :
       /\ stack[i].type \in {"root", "array", "object", "string"}
       /\ stack[i].type = "root" <=> i = 1
       /\ stack[i].elements \in BOOLEAN
  /\ open \in BOOLEAN
  /\ er \in {"OK", "SYSTEM", "ENOMEM", "WRITER"}
  /\ given \in Text
  /\ read.open \in Seq({"array", "object"})

stackpos == Len(stack) - 1
Top == Last(stack)

\* kjson_write: control characters as \u00XX; quotes, backslashes and slashes
\* behind a backslash.
Encode(c) ==
  CASE c = "control"              -> <<"\\u00XX">>
    [] c \in {"\"", "\\", "/"}    -> <<"\\", c>>
    [] OTHER                      -> <<c>>
Encoded(text) == FlattenSeq([i \in DOMAIN text |-> Encode(text[i])])
Quoted(text) == <<"\"">> \o Encoded(text) \o <<"\"">>

\* kjson_check: keys in objects, and only there; nothing in a string.
Allowed(key) ==
  CASE Top.type = "string"             -> FALSE
    [] Top.type = "object"             -> key # NULL
    [] Top.type \in {"root", "array"}  -> key = NULL

Before(key) ==
  (IF Top.elements THEN <<",">> ELSE <<>>)
    \o (IF key # NULL THEN Quoted(key[1]) \o <<":">> ELSE <<>>)

Counted == [stack EXCEPT ![Len(stack)].elements = TRUE]

\* An element, of which "out" is what follows the key.
Element(key, out, text, done) ==
  IF Allowed(key) THEN Write(Before(key) \o out, text, done, {Counted})
                  ELSE Refuse("WRITER")

KeyText(key) == IF key # NULL THEN key[1] ELSE given

\* kjson_puttrustedp, and all that end there: numbers, null, booleans.
kjson_puttrustedp ==
  \E key \in Keys : Element(key, <<"scalar">>, KeyText(key), Counted)

\* kjson_putstringp of a NULL string does nothing.
kjson_putstringp ==
  \/ \E key \in Keys, val \in Text : Element(key, Quoted(val), val, Counted)
  \/ er' = "OK" /\ UNCHANGED <<stack, read, given>>

\* kjson_arrayp_open, kjson_objp_open, kjson_stringp_open.
Full == stackpos >= StackMax - 1

Open(type, bracket, key) ==
  LET pushed == Append(Counted, NewScope(type))
      text == IF type = "string" THEN <<>> ELSE KeyText(key)
  IN  IF Full THEN Refuse("ENOMEM")
              ELSE Element(key, <<bracket>>, text, pushed)

kjson_arrayp_open == \E key \in Keys : Open("array", "[", key)
kjson_objp_open == \E key \in Keys : Open("object", "{", key)
kjson_stringp_open == \E key \in Keys : Open("string", "\"", key)

\* kjson_array_close, kjson_obj_close, kjson_string_close.
Closes(type) == stackpos > 0 /\ Top.type = type
Close(type, bracket) ==
  IF Closes(type) THEN Write(<<bracket>>, given, Front(stack), {stack})
                  ELSE Refuse("WRITER")

kjson_array_close == Close("array", "]")
kjson_obj_close == Close("object", "}")
kjson_string_close == Close("string", "\"")

\* kjson_string_write, and all that end there.
kjson_string_write ==
  \E t \in Text :
    /\ Len(given \o t) <= MaxText
    /\ IF Top.type = "string"
       THEN Write(Encoded(t), given \o t, stack, {stack})
       ELSE Refuse("WRITER")

\* kjson_close closes what is open, as long as it can, and lets go of the
\* writer in any case.
Closer(type) == CASE type = "array" -> <<"]">>
                  [] type = "object" -> <<"}">>
                  [] type = "string" -> <<"\"">>

kjson_close ==
  LET scopes == Reverse(Tail(stack))
      out == FlattenSeq([i \in DOMAIN scopes |-> Closer(scopes[i].type)])
  IN  /\ Write(out, given, SubSeq(stack, 1, 1),
               {SubSeq(stack, 1, n) : n \in 2..Len(stack)})
      /\ open' = FALSE

\* kjson_open: another document.
kjson_open == OpenAgain

Call ==
  \/ kjson_puttrustedp \/ kjson_putstringp
  \/ kjson_arrayp_open \/ kjson_objp_open \/ kjson_stringp_open
  \/ kjson_array_close \/ kjson_obj_close \/ kjson_string_close
  \/ kjson_string_write

Next ==
  \/ open /\ Call /\ UNCHANGED open
  \/ open /\ kjson_close
  \/ kjson_open

Spec == Init /\ [][Next]_vars

-----------------------------------------------------------------------------
(* Properties *)

\* What the reader expects if the innermost scope is "scope".
Expects(scope) ==
  CASE scope.type = "string" -> "string"
    [] scope.type # "string" /\ scope.elements -> "next"
    [] scope.type = "array" /\ ~scope.elements -> "value or ]"
    [] scope.type = "object" /\ ~scope.elements -> "key or }"
    [] scope.type = "root" /\ ~scope.elements -> "value"

Scopes == SelectSeq(stack, LAMBDA s : s.type \in {"array", "object"})

\* Whatever the application calls, what is written is the beginning of valid
\* JSON (values separated by commas, at the root), and the reader is where the
\* writer thinks it is (kcgijson.c:142-172).
WellFormed ==
  read.at # "lost" =>
    /\ read.at = Expects(Top)
    /\ read.open = [i \in DOMAIN Scopes |-> Scopes[i].type]

=============================================================================

------------------------------ MODULE MC_Library -------------------------------
(***************************************************************************)
(* TLC's instance of the parts of the library that work on their own: the  *)
(* writers, the parsers and what carries a request's head, the dates, the  *)
(* validators, the templates and the log.  "which" is the part a behaviour *)
(* is about; the dates are extended, and in the behaviours of the others   *)
(* the clock stands; the others share the variables v1, v2, ..., and       *)
(* nothing else.                                                           *)
(***************************************************************************)
EXTENDS Dates

CONSTANTS
  StackMax, MaxText,    \* of the writers: scopes above the document, text
  MaxForm,              \* of the parsers: the longest text of delimiters
  MaxTemplate, MaxRuns, MaxPuts,    \* of the templates: the longest text, calls
  MaxMessage,           \* of the log
  MaxValue, MaxChecks   \* of the validators

ASSUME LibraryAssumption ==
  /\ {StackMax, MaxText, MaxRuns, MaxChecks, Span} \subseteq Nat \ {0}
  /\ {MaxForm, MaxTemplate, MaxPuts, MaxMessage, MaxValue} \subseteq Nat

ASSUME DatesAssumption /\ BoundsAssumption

VARIABLES which, v1, v2, v3, v4, v5, v6, v7

Upto(S, n) == UNION {[1..k -> S] : k \in 0..n}

-----------------------------------------------------------------------------
(* The writers: stack, open, er, given, read.                              *)

J == INSTANCE KJson
  WITH stack <- v1, open <- v2, er <- v3, given <- v4, read <- v5,
       StackMax <- StackMax + 1, MaxKey <- 1
X == INSTANCE KXml
  WITH stack <- v1, open <- v2, er <- v3, given <- v4, read <- v5, Elems <- {"e", "f"}
H == INSTANCE KHtml
  WITH stack <- v1, open <- v2, er <- v3, given <- v4, read <- v5,
       pretty <- v6, newln <- v7, Flow <- {"div"}, Phrase <- {"b"}, Void <- {"br"}, Instruction <- {"!DOCTYPE"}

-----------------------------------------------------------------------------
(* The parsers, and the head of a request.                                 *)

FormCases == INSTANCE FormCases
Forms == INSTANCE Forms
  WITH call <- v1, pos <- v2, frames <- v3, sent <- v4, done <- v5,
       Calls <- FormCases!FormCalls, MimeTypes <- FormCases!FormTypes

HeadCases == INSTANCE HeadCases
WebRecords(params, lost) == HeadCases!WebRecords(params, lost)
MD5(s) == HeadCases!Md5(s)
Request == INSTANCE Head
  WITH client <- v1, server <- v2, envs <- v3, wire <- v4, calls <- v5, req <- v6, at <- v7,
       Clients <- HeadCases!HeadClients, WebRecords <- WebRecords, MD5 <- MD5, BUFSIZ <- 140,
       kmethods <- <<<<HeadCases!POST>>, <<HeadCases!GET>>, <<HeadCases!OPTIONS>>>>,
       krequs <- <<<<HeadCases!HTTP_, HeadCases!Authorization>>,
                   <<HeadCases!HTTP_, HeadCases!HostName>>>>,
       Pages <- <<<<97>>>>, DefPage <- 0,
       SuffixMap <- <<[name |-> <<97>>, mime |-> 0]>>, DefMime <- 0, MimesCount <- 1

-----------------------------------------------------------------------------
(* The dates, and the validators.  The starts are shortly before the first *)
(* of March of the years -400, 0, 1600, 1900, 1972, 2000, 2100 and 2400,   *)
(* before the epoch and before the year 10000.                             *)

DateStarts == {-865700, -719600, -135200, -25620, -100, 700, 10900, 47420, 157000, 2932800}

FirstYear == -8144

\* Some values are longer: 64 and 65, a leap day and two that are none, the last
\* day before 1582 and the first of it, and an address that is too long.
Values ==
  Upto({NUL, SP, 49, Minus, Dot, At, 65}, MaxValue)
    \cup {<<54, 52>>, <<54, 53>>, <<54, 52, SP>>, <<50, 48, 48, 48, 45, 48, 50, 45, 50, 57>>,
          <<49, 57, 48, 48, 45, 48, 50, 45, 50, 57>>, <<49, 53, 56, 49, 45, 49, 50, 45, 51, 49>>, <<49, 53, 56, 50, 45, 48, 49, 45, 48, 49>>,
          <<65, 64, 65, 65, 65, 65, 65>>,
          <<SP, 65, 64, 65, SP>>}

\* A pair of a form with parts, and one that has no type of its own.
Mimes == {[file |-> <<65>>, ctype |-> <<66>>, ctypepos |-> 0, xcode |-> <<67>>],
          [file |-> <<-1>>, ctype |-> <<-1>>, ctypepos |-> 1, xcode |-> <<-1>>]}

Pairs == INSTANCE Pairs
  WITH given <- v1, pair <- v2, kind <- v3, checks <- v4, at <- v5, wire <- v6,
       Mimes <- Mimes, keysz <- 1, mimesz <- 1,
       IntMax <- 1000

-----------------------------------------------------------------------------
(* The templates, with one key that is empty, and the log.                 *)

Value(n) == IF n = 1 THEN <<>> ELSE <<At, At>>
Fallback(key) == <<60>> \o key \o <<62>>

\* Every short text, and unknown sequences: alone, before a known one, and with
\* the beginning of one or an escaped pair within.
TemplateTexts ==
  LET pair == <<At, At>>
      known == pair \o <<107>> \o pair
  IN Upto({At, Backslash, 107}, MaxTemplate)
       \cup {pair \o <<120>> \o pair \o rest : rest \in {<<>>, known, <<107>> \o pair}}
       \cup {pair \o <<Backslash>> \o known}

Template == INSTANCE Template
  WITH call <- v1, i <- v2, at <- v3, buf <- v4, er <- v5, start <- v6, runs <- v7,
       Texts <- TemplateTexts, Keys <- <<<<107>>, <<>>>>,
       Value <- Value, Fallback <- Fallback, GrowSize <- 3

Log == INSTANCE Log
  WITH stream <- v1, file <- v2, said <- v3, calls <- v4, exited <- v5,
       Messages <- Upto({NUL, 7, LF, TAB, 65, 1}, MaxMessage), Remotes <- {<<>>, <<65>>},
       Idents <- {<<>>, <<66, LF>>}, Error <- <<69, 69>>, MaxCalls <- 1

-----------------------------------------------------------------------------
\* The variables a part does not have.
From1 == <<v1, v2, v3, v4, v5, v6, v7>>
From6 == <<v6, v7>>

\* A behaviour of one part: the clock stands in that of another than the dates.
ClockStands == now = [day |-> 0, sec |-> 0] /\ left = Span
Begins(part, I) == which = part /\ I /\ ClockStands
Goes(part, A) == which = part /\ A /\ UNCHANGED <<which, clockvars>>

Init ==
  \/ Begins("json", J!Init) /\ v6 = 0 /\ v7 = 0
  \/ Begins("xml", X!Init) /\ v6 = 0 /\ v7 = 0
  \/ Begins("html", H!BeginHtml)
  \/ Begins("forms", Forms!Init) /\ v6 = 0 /\ v7 = 0
  \/ Begins("head", Request!Init)
  \/ Begins("pairs", Pairs!Init) /\ v7 = 0
  \/ Begins("template", Template!Init)
  \/ Begins("log", Log!Init) /\ v6 = 0 /\ v7 = 0
  \/ which = "dates" /\ ClockInit /\ v1 = 0 /\ v2 = 0 /\ v3 = 0 /\ v4 = 0 /\ v5 = 0 /\ v6 = 0 /\ v7 = 0

Next ==
  \/ Goes("json", J!Next) /\ UNCHANGED From6
  \/ Goes("xml", X!Next) /\ UNCHANGED From6
  \/ Goes("html", H!Next)
  \/ Goes("forms", Forms!Next) /\ UNCHANGED From6
  \/ Goes("head", Request!Next)
  \/ Goes("pairs", Pairs!Next) /\ UNCHANGED v7
  \/ Goes("template", Template!Next)
  \/ Goes("log", Log!Next) /\ UNCHANGED From6
  \/ which = "dates" /\ Tomorrow /\ UNCHANGED <<which, From1>>

Writers == {"json", "xml", "html"}
vars == <<which, now, left, v1, v2, v3, v4, v5, v6, v7>>
Spec == Init /\ [][Next]_vars

-----------------------------------------------------------------------------
(* Properties, beside ImplementsCalendar of the dates *)

\* Whatever the application calls, what is written is the beginning of a
\* document, and the reader is where the writer thinks it is: in JSON, at
\* a place where the next thing is what may be put next (kcgijson.c:142-172);
\* in XML and HTML, in the elements on the stack, every end tag being that of
\* the innermost (kcgixml.c:63-84, 237-260, kcgihtml.c:573-739).  Strings,
\* texts and attributes are read as they were given, whatever characters they
\* have (kcgijson.c:75-117, kcgixml.c:105-129, kcgihtml.c:796-823), and a close
\* that succeeded leaves nothing open (kcgijson.c:42-69).
WellFormed ==
  /\ which = "json" => J!WellFormed /\ J!TextKept /\ J!ClosedComplete
  /\ which = "xml" => X!WellFormed /\ X!TextKept /\ X!ClosedComplete
  /\ which = "html" => H!WellFormed /\ H!TextKept /\ H!ClosedComplete

\* A call does its work or nothing: a refused call of a writer writes nothing and
\* changes no scope (kcgijson.c:317-336, kcgixml.c:67-73, kcgihtml.c:647-653),
\* and a call that logs makes one line of the log, which lacks its end if, and only
\* if, the message has a character that the code makes no room for, against what
\* its manual says (logging.c:48-170, man/kutil_log.3:198-218).
CallsWhole ==
  [][/\ (which \in Writers) => J!Untouched
     /\ which = "log" => Log!OneMoreLine]_vars

\* The pairs of a form come as the client encoded them; of a broken form only
\* pieces, in order, none of them twice; and an item of a query that is broken
\* costs no other (child.c:613-1046).
FormsKept ==
  which = "forms" => Forms!SentAsEncoded /\ Forms!PiecesInOrder /\ Forms!ItemByItem

\* The application gets the request the client sent, and the same by CGI as by
\* FastCGI, or none if the parameters broke off (kcgiregress.c:407-563,
\* child.c:1056-1650, 1850-2009, parent.c:185-330).  As the code has it, and other than
\* it says, empty headers are not disallowed (child.c:1053), names are not in lower
\* case (man/khttp_parse.3:480-485), and a record that breaks off within the length
\* of a name is no error (child.c:1888).
RequestAsSent == which = "head" => Request!RequestAsSent

\* Only the password that credentials were made with validates, and nothing
\* does if something of them is missing (httpauth.c:253-330, auth.c:73-290).
PasswordTells == which = "head" => Request!PasswordTells

\* A value is what its bytes mean: a date read back is the time it was made
\* from, and a pair is accepted if its manual says so and parsed to what came,
\* whichever validators saw it before (datetime.c:98-203, 475-579, kcgi.c:1194-1385).
\* Three disagreements with the documentation are in it as the code has them: dates
\* before 1582 are accepted and a NUL ends an unsigned number (kvalid_string(3)),
\* and what a pair does not have is "" and not NULL (kcgi.h:378-381).
ValuesMeant ==
  /\ which = "dates" => DatesInverse
  /\ which = "pairs" => Pairs!ParsedIsMeant /\ Pairs!AcceptsAsDocumented /\ Pairs!TakenAsSent

\* A template writes what its manual says, or a beginning of it, after what was
\* in the buffer, and never more than the buffer holds (template.c:58-170,
\* kcgi.c:1387-1427); left out are the texts of the next property's finding.
TemplateExpands == which = "template" => Template!TemplateExpands

\* khttp_template's manual on any text: a key sequence that is not known "is
\* passed unchanged" (man/khttp_template.3:110-113).  The code passes one
\* character of it and reads the rest as text (template.c:156-167).
UnknownUnchanged == Template!AsManual
TemplateAlone == Begins("template", Template!Init) /\ [][Next]_vars

=============================================================================

# kcgi: models, checks and proofs

kcgi is a C library for CGI and FastCGI programs, with kfcgi(8), a manager of
FastCGI worker processes.  This directory holds TLA+ modules that model it, from
the processes, signals and sockets down to the parsers, writers and dates, the
TLC configurations that check them on small instances, and proofs, checked by
TLAPS, of theorems about instances of any size.

All references of the form `file.c:n` are to the sources beside this directory.

## 1. The system

### Processes

    clients ──connect──> listening socket
                               │ accept
                     ┌─────────▼─────────┐
                     │ kfcgi, the manager │  varpool (-r) or fixedpool
                     └─────────┬─────────┘
             descriptor + cookie│ ▲ cookie
                     ┌──────────▼─┴─────┐
                     │ control process  │  kfcgi_control (fcgi.c), one per
                     └───┬──────────┬───┘  FastCGI program
    cookie, then the bytes│ ▲ cookie │ ▲ request id, then nothing
     the client sent      │ │ + id   │ │ descriptor (down), id (up)
              ┌──────────▼─┴──┐  ┌──▼─┴──────────────┐
              │ worker        │  │ application        │  khttp_fcgi_parse,
              │ (sandboxed)   ├──► fields, then "end" │  khttp_fcgi_free
              └───────────────┘  └────────────────────┘
               kworker_fcgi_child   kworker_parent

The manager knows the control process as "its worker": it forks and executes
the program, whose khttp_fcgi_init forks the other two processes.  A CGI
program has the worker and the application only (khttp_parse), for one request.

### The way of a request

    client's bytes ─> environment ─> head and pairs ─> words on a socket
       (Head: the harness as web   (Head, Forms: the    (Transport, Wire)
        server; FcgiSession)        worker's parsers)          │
                                                               ▼
    response <─ output buffer <─ writers, templates <─ struct kreq: lists of
      (Output)                   (KJson, KXml, KHtml,    pairs, validators
                                  Template)              (Request, Pairs, Storage)

### Components, their state, and what makes them correct

| Component | Source | State | Operations | Hard behaviour | Correct when |
|---|---|---|---|---|---|
| Variable-pool manager | kfcgi.c, varpool | worker array (process, descriptor, cookie, age), polled sockets, slough, minimum size, accepting, three signal flags | start, poll, stop, chld, hup, shrink, release, rate-limit, grow, accept, stop/wait/restart | signals at any poll; workers answer in any order; arrays change under a loop; a worker told to exit exits much later; stale revents | slots match workers; a descriptor is closed when, and only when, its worker is done; it gives up only for a reason; it leaves no child; every connection is served; it shrinks back; it stops |
| Fixed-pool manager | kfcgi.c, fixedpool | worker array, three flags | start, suspend, stop, wait, restart | signals that come while it stops the workers | the same without the descriptors |
| Start of the manager | kfcgi.c, main | options, socket, credentials | from getopt to the pool | privileges and root change in the middle; numbers that default to each other | the pool that was asked for, on a socket that listens, without privileges |
| Control process | fcgi.c, kfcgi_control | current connection, cookie | accept/receive, pump bytes to the worker, hand the descriptor to the application, wait for it, close, return the cookie | the client hangs up at any byte; the worker abandons the request; the application is still writing | request, descriptor and cookie stay together |
| FastCGI worker | child.c, kworker_fcgi_* | stream from control, partial record | cookie, BEGIN_REQUEST, PARAMS, STDIN, output, acknowledge | the stream ends inside a record | the stream is at a cookie again whatever was abandoned |
| Application side | fcgi.c, parent.c | descriptor, request | khttp_fcgi_parse, khttp_fcgi_free | two sockets that are matched by an id; memory failures; SIGTERM | as above |
| Descriptors | fcgi.c, kcgi.c, kfcgi.c | who holds which end | the forks and closes of start and end | a copy that is not closed hides a death | nobody holds what is not his own |
| Request parser | child.c | place in the text, nested parts, environment | environment, head, queries, cookies, text, urlencoded, multipart | nested parts, boundaries, repeated names, broken encodings | what is output is what was sent |
| Request receiver | parent.c, kcgi.c, httpauth.c | struct kreq, its memory, lists of pairs by key and state | kworker_parent, kutil_invalidate, kreq_free | wire integers from the other process; any allocation fails | the request as sent, all of it or none; lists partition the pairs; memory freed once |
| Validators | kcgi.c | bytes and parsed value of a pair | kvalid_* | trimming in place, limits of integers, run twice | the value its bytes mean |
| Output buffer | output.c | state of the response, buffer, gzip stream | khttp_head, khttp_body, khttp_write, kcgi_writer_* | draining between headers and body; record sizes; failure in the middle | headers before body; bytes in order; every FastCGI record well formed |
| JSON, XML, HTML writers | kcgijson.c, kcgixml.c, kcgihtml.c | stack of open elements | open, close, put | close without open, stack limit, a failed write | what is written is balanced, and read as it was given |
| Templates, buffers | template.c, kcgi.c | place in the text, growing buffer | khttp_templatex_buf, kcgi_buf_write | markers that overlap, are escaped or cut off | what template.c's manual says, or a beginning of it |
| Authorisation | httpauth.c, auth.c | token position | parse, validate | fields in any order, missing, quoted | only the right password validates |
| Dates | datetime.c | none | to and from seconds | leap years before and after the epoch | the calendar |
| URLs | kcgi.c | none | encode, decode, assemble | malformed escapes | decoding undoes encoding |
| Sockets | wrappers.c | bytes under way | fullread, fullwrite, words, descriptors | short reads, signals, either side gone | whole items or an error |
| Log | logging.c | the stream | kutil_* | characters to escape | one line for one call, of what was said |
| Test harness | kcgiregress.c | test, broker, script | fork, listen, run, relay | any of three processes or the client ends | the script's response, and an end |

Not modelled: the sandboxes (system calls that limit the worker, no state of
their own), and the vendored compatibility layer but for the four functions of
`CString` and `Datetime`.  PROJECT.json lists every component with its status.

## 2. Modules

| Module | Models | Lines of the source |
|---|---|---|
| `Varpool` | the variable-pool manager, its workers, the clients, signals and time | kfcgi.c 158-766 |
| `VarpoolProofs` | theorems about `Varpool`: that its books are right, and what clients and the operator can rely on | |
| `Fixedpool` | the fixed-pool manager | kfcgi.c 768-880 |
| `Kfcgi` | the start of the manager | kfcgi.c 884-1130 |
| `ProcessProofs` | theorems about `Kfcgi`, `Fixedpool` and `Descriptors` | |
| `RequestBroker` | abstract: a connection at a time, handed to the application at most once and returned once | fcgi.c |
| `FcgiSession` | control, worker and application, with the byte streams between them cut at the units the readers read | fcgi.c, child.c 1675-2285, parts of parent.c and output.c |
| `FcgiSessionProofs` | theorems about `FcgiSession`, and that it implements `RequestBroker` | |
| `MC_FcgiSession` | the client streams that TLC uses | |
| `Descriptors` | who holds which end of which socket, from start to end | fcgi.c 344-566, kcgi.c 974-1107, kfcgi.c 208-297 |
| `Transport` | words, numbers and descriptors byte by byte through a socket | wrappers.c 144-631 |
| `TransportProofs` | theorems about `Transport` | |
| `Harness` | the test, its broker, the script and the client | kcgiregress.c 60-330, 568-1213 |
| `HarnessProofs` | theorems about `Harness` | |
| `MC_Processes` | one of `Transport`, `Harness`, `Descriptors`, `Fixedpool`, `Kfcgi` | |
| `Request` | a CGI request: worker, parent, lists of pairs, invalidation | kcgi.c 955-1167, parent.c, child.c 227-318 and 1627-1664 |
| `RequestProofs` | theorems about `Request` | |
| `Storage` | the memory of a request | parent.c 40-408, kcgi.c 881-1107, httpauth.c 368-417 |
| `Output` | the state of a response: headers, body, buffer, compression, FastCGI records | output.c |
| `OutputProofs` | theorems about `Output` | |
| `MC_Request` | one of `Request`, `Storage`, `Output` | |
| `Head` | a request's head: harness, worker, wire, parent | kcgiregress.c 322-558, child.c 1049-1664 and 1850-2009, parent.c 204-330 |
| `HeadCases` | the clients of `Head`, and what is to be told of them | |
| `Forms` | the parsers of queries, cookies and bodies | child.c 208-1047 |
| `FormCases` | the clients of `Forms` | |
| `Auth` | authorisation headers and their validation | httpauth.c, auth.c |
| `Pairs` | one pair: validators in the worker, the wire, validators in the parent | child.c 234-318, parent.c 40-179 |
| `Valid` | the validators | kcgi.c 1187-1393 |
| `Datetime` | the conversions of dates | datetime.c |
| `Calendar` | abstract: the civil calendar, day after day | |
| `Dates` | a clock read through `Datetime`; implements `Calendar` | datetime.c |
| `DatesProofs` | theorems about `Dates`: that it does, and that a date is read back as its time | |
| `Url` | percent-encoding and URLs | kcgi.c 426-880 |
| `Writer` | what the three writers share: a stack, a reader of what was written, failures | kcgijson.c, kcgixml.c, kcgihtml.c |
| `KJson`, `KXml`, `KHtml` | the writers, each with the grammar that reads it | the same |
| `Template`, `Buffer` | templates, written to a growing buffer | template.c, kcgi.c 1395-1466 |
| `Log` | the log | logging.c |
| `CString`, `Words`, `Wire` | strings, words that are only compared as a whole, what fullwrite puts on a socket | compats.c, wrappers.c |
| `MC_Library` | one of the writers, `Forms`, `Head`, `Dates`, `Pairs`, `Template`, `Log` | |

An MC module that puts several parts together has a variable `which`, chosen at
the start: a behaviour is about one part, the others stay where they begin, and
each property is about one of them.  `MC_Processes`, `MC_Request` and
`MC_Library` EXTEND the parts that theorems are about, so that the properties TLC
checks and the ones that are proved are the same definitions; this is why the
names of an initial predicate, a next-state relation and a specification have a
prefix there (`TSpec`, `DSpec`, `FSpec`, `KSpec`, `HSpec`, `OSpec`, `RSpec`,
`ClockSpec`).  The other parts are instances whose variables are those of the MC
module.

### Varpool

One variable per variable of `varpool` that outlives an iteration (`ws`,
`pfd`, `npfd` for `pfdsz - 1`, `minwsz`, `accepting`, `rc`, the flags `stop`,
`chld` and `hup`), `pc` for the place in the function, and variables for the
operating system: pending signals, the state of each process, the cookie in
each control socket, the backlog.  There is one action per branch of the
function; the comment at the head of the module draws the control flow.
Indices start at one.  A sloughed process is kept in a set; the order of the
array only decides which waitpid(2) is the last, and its result, which stays in
`rc`, is chosen accordingly (`HandleChldSlough`).  A cookie is represented by
the connection it was drawn for.  Time is the age of the last deschedule:
never, recent or old.

Two constants name what differs between systems and matters: whether waitpid(2)
discards a pending SIGCHLD when no other child is waitable
(`WaitClearsPending`: POSIX says so, Linux does not), and what an interrupted
poll(2) leaves in `revents` (`EintrKeepsRevents`).

Where `CallsMayFail`, fork, poll, accept and the allocations fail: the manager
stops (`NoArrays`, `StartFails`, `PollFails`, `ShrinkNoMemory`, `GrowFails`,
`AcceptError`).  Left out: close and kill failing on a descriptor and a child that
the manager does have, and the numbers of descriptors (see `Descriptors`).

### Fixedpool, Kfcgi

The manager of a fixed pool sleeps in sigsuspend(2); its signals are blocked
otherwise.  `BlockedDflDropped` says whether a blocked signal with default
action "ignore" stays pending (it may, in POSIX; it does on Linux).  `Kfcgi` is
a sequence of steps, each of which may fail; numbers are small, and the
properties speak of what the pool is started with.

### FcgiSession and RequestBroker

A client's stream is a sequence of units: the pieces (header, body, padding)
that the readers of child.c read at once.  Control moves units from the
connection to the worker; the worker's readers consume them and go on, abandon
the request or crash, as the code does for each record; the application waits
for the descriptor and the end of the fields.  `cpc`, `wpc` and `apc` carry the
place in the respective loop.  `managed` says where connections come from: a
manager (`Hand`, `MgrStop`), or the listening socket, which the workers of a
fixed pool share: then another may take a client that poll(2) has reported
(`TakenElsewhere`, `ControlAgain`).
`RequestBroker` states what the three promise the manager: a connection is
taken, may be given to the application once, and is returned once, before the
next one is taken.  `FcgiSession` implements it under the mapping in
`Broker`, checked as the property `ImplementsBroker`.

### Descriptors, Transport, Harness

In `Descriptors` a process is a place in the function it runs and the set of
sockets it holds; fork copies the set, a message with a descriptor adds to
another's.  A socket is closed when nobody holds its end, and only then does
the process at the other one read the end of the stream.  So a close(2) that is
forgotten shows as a process that waits for ever (`AllEnd`) and, at once, in
`OnlyItsOwn`.

`Transport` has a writer that goes through a script of items and a reader that
expects the same, with a socket of three bytes between them.  A size is one
digit of base three; reads and writes take what the kernel gives, a signal may
interrupt poll(2), and either process may go away at any step.

`Harness` is three processes and a client.  What the script writes is a
sequence of tokens (a header's name, its words, the end of a line, a byte of the
body), cut by reads at any token.  The client may leave before the answer, and the
broker may run out of memory, in CGI as in FastCGI.  In CGI the broker then waits
for a script whose pipe it still holds: `AllEnd` names that place (`Deserted`), and
`harness_bad_cgi` shows that it is reached.  `Translates` says what a response has to
be for an output: every header line whole and once, the status line first, the
body as it was.  `ResponseKept` says it of the outputs whose status is in a place
of its own (`StatusApart`): the first line is not empty, "Status:" begins a line,
only once, and is not the last header line of several.  Outside of these the
harness does not keep the response, see the differences below.

### Request, Storage, Output

In `Request` worker and parent are two processes with a bounded socket between
them.  The input of the worker is a sequence of pairs as the request has them;
`Parsed` is what output() makes of one.  The parent's arrays and lists are
modelled as they are: `map` holds the first pair of each list and `next` the
next, because kutil_invalidate takes pairs out of the middle of a list; what a
list holds is what is reached along `next` (`Reach`).  A step of `Bucket` is one
round of the loops that hang the pairs into the lists, and `bucketed` says how
far they are.  The environment and the headers are one message.

`Storage` is the same call as a list of allocations: which pointer is set by
which step, what is copied, and what kreq_free goes through.  Any step may fail.
A block is known by the step that allocated it.

In `Output` one application calls khttp_head, khttp_body, khttp_body_compress,
khttp_write and the ends of a request (khttp_free, khttp_child_free) in any
order that the assertions of output.c allow; the refused ones are errors of
their own.  Bytes are numbered in the order the application gave them and pass
through the gzip stream, the buffer and FastCGI records to the connection; a
failure of a write or of an allocation loses what was in the buffer.  Bounds:
the size of the buffer (0 or 2), of a record (2, standing for 65535 or the size
of a stream), the alignment of the padding (8, as in the code), of one write (3)
and of all writes (8), one failure of each kind.  Two records and a remainder
fit into one write, and a write may overflow the buffer, fill it exactly or fit.

### Head, Forms, Auth

A character is its code; a word that the library only compares (the name of a
header, a method) is one symbol above 127.  `HeadCases` has clients with each
method, with and without a body, a query, cookies, credentials of each kind
(missing fields, wrong passwords, fields in another order), repeated headers and
malformed heads; it says, from the protocol and not from the code, what is to be
told of each (`told`).  The web server is the regression harness, for CGI with a
head in the environment, for FastCGI with records; `RequestAsSent` compares what
the application gets at the end with `told`, so it covers the whole way and the
agreement of worker and parent on the order of the words.  Another server (`web`)
puts all parameters into one record with lengths of four bytes, and a broken one
cuts it off: the last byte for every client, and, for a client with two headers
(`CutClients`), at each byte of either, within its lengths, its name and its value.

`FormCases` encodes lists of pairs by the rules of each encoding, breaks
multipart forms by taking out one byte, and has all short texts over the
delimiters.  A step of `Forms` is one pass of a parser's loop.  `FormsKept`
compares what is sent with the list that was encoded; of broken texts it says
that only pieces of them come, in order, none twice.

### Pairs, Valid, Dates

`Pairs` follows the bytes of one pair: a validator in the worker changes them in
place and sets the parsed value; they cross the socket with a difference of
pointers; the application may then run another validator on what is left.
Integers are bounded by 1000 in place of 2^63, doubles are their text's value.
`Dates` lets a clock run over the ends of February around each kind of year,
before and after the epoch, to the end of what the numbers hold, and compares
with `Calendar`, which has no epoch and no division.

### Writer, KJson, KXml, KHtml, Template, Log

An application calls the functions in any order.  What a function writes is a
sequence of characters that stand for themselves or for a class, and is read,
character by character, by a reader of the grammar: `read` is an observer that
is not in the code.  The variable `given` holds the text as the application
gave it, `read.text` as a browser or parser would get it.  A write that fails
cuts the text off, and from there on (`Lost`) the properties speak of the
writer only.  The stack limit is a constant; 3 reaches every case of opening,
closing and refusing at the limit.  `KHtml` has pretty-printing: the reader
passes over line breaks and indentation in content, and nowhere else.

`Template` runs over all texts of up to five characters of the marker, the
backslash and a key, and over longer ones with a key that is unknown, on a buffer
that something may have been written to.  `Expansion` is the manual's reading of a
text, which takes an unknown sequence as a whole; the code takes one character of it
and goes on behind that.  `Log` runs over messages of up to three characters; `said`
is an observer, the message before it is filtered.

## 3. What TLC checks

| Run | Question | Instance |
|---|---|---|
| `varpool_safety` | Are the books right, and does the manager give up only for a reason? | -n 1 -N 2, 4 connections, one crash or wrong cookie, one SIGTERM, one SIGHUP, POSIX waitpid, BSD poll |
| `varpool_live` | Is every connection served, does the pool shrink back, does a SIGTERM end the manager, is no death missed? | 3 connections, one crash, one SIGTERM, one SIGHUP and failing system calls at any point; accept(2) blocks when nobody connects, and `revents` may be left from an interrupted poll(2) |
| `fcgi_session` | Do request, descriptor and cookie stay together, does every connection come back, does everything stop? | 2 connections, from a manager or the listening socket, each whole, closed early, reset or malformed; one memory failure; one stop |
| `processes` | Does what crosses a socket arrive whole, does a test see the script's response, does every process hold only its own sockets, is the pool started as asked, does the fixed pool keep its promises, and do all of them end? | 3 items (words, numbers, an empty one, descriptors) over a socket of 3 bytes with one signal; 6 outputs of a script, 3 tokens in the pipe, CGI and FastCGI, a client and a broker that may go at any step in both; 2 applications, 2 connections or failures; 3 workers, a crash, a SIGTERM, two SIGHUPs; options with counts 0 to 3 |
| `request` | All pairs or none, each in its list; does khttp_parse return; is its memory freed once; are headers before the body, bytes in order, records well formed, and nothing lost in silence? | 3 fields, 1 cookie, one key with and one without a validator, 2 messages in the socket, one failing allocation; one variable, one header, 2 inputs, each kind of credentials, any step failing; 8 bytes in writes of at most 3 |
| `library` | Is what is written valid and read as it was given; do forms, heads, credentials, dates, values, templates and log lines come out as they went in; do dates follow the calendar? | stacks of 3 (JSON: one more), texts of 2 characters; the clients of `HeadCases` and `FormCases`, texts of delimiters up to 4; clocks of 200 days; values of up to 3 bytes and chosen longer ones, 2 validators; templates of 5 characters and chosen longer ones, on an empty and on a filled buffer; messages of 3 characters, of those the log escapes with and without room for it, and others |

Two workers in the pool, three connections (four where the slough is to fill)
and four process identifiers are enough for every case of the manager: all busy
and full, a slot freed in the middle (the first of two), the last slot freed, a
connection waiting in the backlog while rate-limited, a worker let go while
another is still exiting, a restart of a grown pool, and the reuse of a process
identifier.  A third worker adds permutations of these; the proofs cover them.
One crash, stop and restart each, at any point, meet every action; a second
crash finds the manager already stopping.  Two connections of a session are the
smallest number for which leftovers of one can be taken for the other, and two
applications the smallest for which one can inherit from another.  Three items
put one whole item before and behind every other; a socket of three bytes cuts
every size and every word.  A clock of 200 days meets each end of February and
of the century in its neighbourhood.

Violations, each of a sentence of the documentation or a comment:

| Run | Shows |
|---|---|
| `varpool_bad_chld` | where waitpid(2) does not take back a pending SIGCHLD (Linux), two workers let go that exit one after the other end the manager, in normal operation |
| `varpool_bad_restart` | a SIGHUP can end the manager: man/kfcgi.8 says it restarts all workers |
| `fcgi_bad_wedge` | a client that hangs up inside the padding of the last record leaves all three processes waiting for each other |
| `varpool_bad_term` | a SIGTERM that is delivered together with a SIGHUP is forgotten: man/kfcgi.8 has it stop the server |
| `harness_bad_cgi` | when a client of a CGI test leaves early, its broker waits for the script and the script for the broker, and the test never returns |
| `template_bad_unknown` | an unknown key sequence is not passed unchanged, as man/khttp_template.3 says, if an escaped pair or a known sequence begins within it |

`fcgi_session` leaves out clients that hang up inside the padding of the last
record and `varpool_safety` has the waitpid(2) of POSIX, because of these.  The
other passing runs leave the cases in and their properties name them:
`TermStops` a SIGTERM and a SIGHUP that are both flagged after one wakeup, `AllEnd`
a CGI broker and script that wait for each other (`Deserted`) and a fixed pool
that has both flags (`StopForgotten`), `TemplateExpands` the texts with a mark within
an unknown sequence (`MarkInUnknown`).  All properties of `varpool_live` also name
`InAccept`, the manager waiting in accept(2) for a client that does not come
(kfcgi.c:665): it is reached with stale `revents` and is deaf to everything.  That
accept(2) may fail there (`AcceptError`) does not help, as nothing is assumed to make
it fail.  `Served` names a connection that was open when the manager
was restarted, too, which it never closes (`LeftOpen`).

Where the documentation and the code disagree on the very thing that a property
of a passing run is about, the property is exactly what the code does, with the
disagreement stated at its definition:

- `RequestAsSent` (`Head`): a header without a value arrives, where the comment at
  child.c:1053 has "Disallow zero-length values as per RFC 3875, 4.1.18"; names
  arrive in title case, as that comment says, where man/khttp_parse.3:480-485 has
  "all lowercase"; parameters that break off within the four bytes of the length of
  a name are no error (the `return 0` at child.c:1888 is KCGI_OK, the four like it
  return KCGI_FORM), and the request has those before.
- `ValuesMeant` (`Pairs`): kvalid_date takes dates before 1582 (`EarlyDate`), where
  man/kvalid_string.3:85 has "Dates before 1582 are not accepted"; kvalid_uint and
  kvalid_bit take the number before a NUL (`EndsAtNul`), where lines 127-130 have
  kvalid_uint "the same as kvalid_int", which refuses such a value; what a
  pair does not have is an empty string, where kcgi.h:378-381 has "(or NULL)"; and an
  address with white space before it, validated in the worker, comes out as a
  string that begins before the value (`GoesAstray`; the difference sent at
  child.c:299 is negative), in spite of the assertions at child.c:297-298.
  Otherwise a validator accepts what its manual says and nothing else.
- `CallsWhole` (`Log`): a message with \a, \b, \f or \v loses its newline, where
  man/kutil_log.3:198-218 has it escaped, and "with a trailing newline": the code makes room for
  the growing of \n, \r and \t only (logging.c:91-104), and writes over the end of
  its memory (`Overrun`; the allocator may notice, `Abort`).
- `ReturnsAndFrees` (`Storage`): the array of a request's variables is not freed
  (kcgi.c:907-912), where man/khttp_free.3:38-46 has "free the resources of req".

Deadlock checking is off where the system may stop: the manager blocks in
accept(2) with stale `revents` and no client (`varpool_safety`, `varpool_live`), fixedpool
sleeps until a signal comes, the processes of a session, a socket or a test
exit, and a parser, a start or a template is at its end.  The liveness
properties say when they must not.

### Other differences between the code and its documentation

They were found while modelling and have no run of their own.

Manager: a SIGHUP ends a fixed pool, too, where a blocked signal is kept although its
default is to be ignored and waitpid(2) does not take it back (Linux), for all
that the comment at kfcgi.c:841 says "Suppress child exit signals whilst we kill
them" (`Fixedpool` with both constants FALSE violates `OnlyWithReason`); when reallocarray fails while the pool shrinks, a worker is
both let go and still in the array (kfcgi.c:520; `ShrinkNoMemory`), and its
socket is closed twice; a restart makes the current
size the new minimum; a worker started later inherits the manager's copies of
open connections (the comment at kfcgi.c:271 says "Close out all current
descriptors"); a worker that
dies between poll(2) and sendmsg(2) kills the manager by SIGPIPE; the manager
exits with status 0 after failures; `-n 0` reaches `assert(lsz)` (kfcgi.c:983)
and, with `-r` and `-l`, starts a pool of none, and with `-r` and `-N` fails
`assert(wsz > 1)` (kfcgi.c:486) after the first connection, while kfcgi.8 wants at least one
and gives another default than the code's 5; errors after bind(2) leave the
socket's file, and the unlink after chroot(2) uses the path inside the jail.

FastCGI: a client that hangs up inside the body of FCGI_BEGIN_REQUEST or
FCGI_STDIN ends the worker (child.c:1784, 1817: a result that is not looked at),
although the comment at child.c:2046-2050 says that it keeps listening
(`fcgi_session` has such clients, and shows that the session ends); when memory
runs out early in khttp_fcgi_parse (fcgi.c:679), kerr is still the KCGI_OK of
fcgi_waitread and the caller gets a request with kdata NULL, where
man/khttp_fcgi_parse.3:50-54 calls for khttp_free "if and only if the return value is
KCGI_OK"; extending01.xml
tells the control process to close the descriptor and then return the cookie,
fcgi.c:319-326 does the opposite; the comment at fcgi.c:74 says "If the current
FastCGI connection closes, abandon it and wait for the next", but when it is
reset, as a TCP connection may be, read(2) fails, the control process exits
(fcgi.c:218), and so does the worker (`ControlFails`); khttp_fcgi_init(3) names KCGI_HUP and
KCGI_ENFILE, which it never returns; a SIGTERM stays blocked after it failed.

Request: a memory failure in the middle of a request ends the application, while
the comment at kcgi.c:1018-1020 says that all errors "properly free up our
memory": envsz and reqsz are read before their arrays are allocated, so that
kreq_free goes through arrays that are NULL (parent.c:221, 251; state "crashed"
of `Storage`), and if the digest cannot be allocated the assertion at
parent.c:401 fails ("aborted"); an invalid state, type or position, which only a broken worker sends,
gives -1 with KCGI_OK in input() and so the assertion of parent.c:401; a cookie
without a value swallows the name of the next, where the comment at child.c:697
would leave it out and go on; the bound on years at datetime.c:117 takes years
whose seconds do not fit.

Response: Accept-Encoding "gzip;q=0.0" selects compression, although the
comment speaks of a non-zero quality (output.c:545-555); a FastCGI record that a
failing write cut off may be followed by more records; a JSON root takes more
than one value; text does not reset the line state of a pretty HTML document, so
that white space may come between it and the next tag (kcgihtml.c:517-548, whose
comment says "if we're at a newline").

Harness: a "Status:" line that is the last of several header lines loses its line
end, and the header before it follows on the line of the status: the loop at
kcgiregress.c:841-856 copies the status up to the end of the headers and writes
no line end, so "A: b", "Status: 404" becomes "HTTP/1.1 404A: b" (`Response`;
`StatusApart` leaves these outputs out of `ResponseKept`); the word "Status:"
inside another header's value is taken for the status as well;
a script whose head has no end gives an empty response in CGI and yet a
success; dochild_prepare returns 0 after a failing fcntl(2), although its
comment says -1.

### Fairness

`Varpool!Fairness`: weak fairness of the manager as a whole (it is one running
thread) except where it waits in accept(2) for a client (`~InAccept /\ Manager`), of each worker's finishing and exiting, and of time.  Clients, crashes
and the operator's signals are never fair.  In `Fixedpool` the manager and the
exits of processes that were told are weakly fair (in `MC_Processes`, the same of
`OfFixedpool`).  In `FcgiSession` each of
the three processes is weakly fair as a whole, and so are a client's sending
what it has to send and closing; that a client connects, that its connection is
reset, that another process takes it, that memory runs out, or that an operator
stops the session is not.  In `Request` worker and parent are weakly fair, the worker's crash and
failing allocations are not.  In `Transport` the two processes are, in `Harness`
the test (whose client is part of it), the broker and the script, in
`Descriptors` worker, control, application and manager, each as long as it does
not wait; none of the failures is.  `Output`, `Storage` and everything in
`MC_Library` are sequential: their properties are safety properties.


## 4. What is proved

`VarpoolProofs` proves, for every value of the constants allowed by the named
assumptions of `Varpool` (room to grow, natural bounds, enough process
identifiers):

- `TypeCorrect`: `Spec => []TypeOK`
- `PoolSizeHolds`: `Spec => []PoolSize`
- `PolledAreBusyHolds`: `Spec => []PolledAreBusy`
- `WorkersAgreeHolds`: `Spec => []WorkersAgree`
- `NoChildLeftHolds`: `Spec => []NoChildLeft`

They all follow from one inductive invariant, `IInv`, which TLC checked on the
instance of `varpool_safety` before it was proved.  It is needed because the
manager finds the worker to release by its cookie but frees the slot the answer
came from: that these belong together (`CookieOwner`) rests on `Records` (the
manager's record of a worker is what the worker does, and records are distinct)
and `Slots` (a slot in use is a busy worker's), these on `Family` (the
processes there are, are known once, in the pool or the slough: so a forked
process is new), and that on `Remains` (nothing is left of a process that was
waited for) and `Starting` (the state between a restart and the loop).  There is
one lemma per action of the manager that changes the pool, one for all that only
move it on (`ControlOnlyIInv`), one for each failure that ends the loop in the
middle of a change (`PollFailsIInv`, `NoArraysIInv`, `ShrinkNoMemoryIInv`), and
four for its environment.

Its second half goes on from `IInv`, one invariant for each theorem, again checked
by TLC first:

- `KeepsNoneWaitingHolds`: `Spec => []KeepsNoneWaiting`, from `Limited` (where
  accepting ends, and that nobody turns it on or gets idle without the other) and
  `NoHupYet` (what is open is what the workers were given).
- `ReleasedWhenDoneHolds`: `Spec => ReleasedWhenDone`, an action property, from
  `SloughIdle` (a process let go works on nothing) and `Family`: every process
  is one of the pool, of the slough, or not there.
- `AssertsHoldHolds`: `Spec => []AssertsHold` under `MinPool >= 1`, from `Seasoned`
  (a worker beyond the minimum has had a connection or is about to get its
  first), `FreeSlots`, `Results`, and two counting arguments: with all slots in
  use every worker is busy (`FullIsBusy`), with a slot free one is idle
  (`SomeIdle`).  The hypothesis is needed: kfcgi.c:920 takes `-n 0`.
- `OnlyWithReasonHolds`: `Spec => []OnlyWithReason` under `WaitClearsPending`, from
  `Orderly`: without a crash the workers of the pool run, no socket hangs up, and a
  SIGCHLD, pending or delivered, means that a process of the slough is dead.
  Without the hypothesis the property fails: that is `varpool_bad_chld`.

`ProcessProofs` is about the other processes around an application.  The start of the
manager, for counts and backlogs of any size that strtonum(3) lets through
(`KfcgiAssumption`), and whichever step fails:

- `StartsAsAskedHolds`: `KSpec => []StartsAsAsked`.  `StartInv` says for each step how far
  the socket (`SocketInv`), its file (`FileInv`), the credentials (`CredsInv`) and the
  arguments of the pool (`PoolInv`) have come; that the backlog has a place for
  every worker is arithmetic over the options that were not refused.

The fixed pool, for any number of workers, under `FixedAssumption`:

- `NoneLeftHolds`: `FSpec => []NoneLeft`, and `FixedInvariance` with the invariant it
  follows from (`FixedInv`).
- `FixedOnlyWithReasonHolds`: `FSpec => []OnlyWithReason` under `QuietRestart`: a blocked
  SIGCHLD with its default disposition is dropped, or waiting takes it back.
  `Quiet` says where a SIGCHLD may then be pending before the first crash.
- `PoolKeptHolds`: both, under `QuietRestart`, as the run `processes` checks them.

The descriptors, for any number of applications and any kind of program:

- `DescriptorsInvariance`: `DSpec => []IInv`; `SlotInv` lists for each place of each
  process what it may hold, and what must be there already or gone by then.
- `OnlyItsOwnHolds`: `DSpec => []OnlyItsOwn`, the invariant of the run `processes`.
- `NoticedWhenGoneHolds`: once a process is gone, nobody else holds the end that its
  peer listens to, so that the peer sees the end of the stream.  Only an
  application that is being started has copies of the manager's ends.
- `TypeCorrect`.

`FcgiSessionProofs` is about every set of client streams, not only those of
`MC_FcgiSession`, and about sessions with and without a manager, with every reset,
memory failure and stop:

- `SessionInvariance`: `Spec => []IInv`, of five parts.  `Counted` is the heart: of the
  connections, at most one is on its way, and the places of control, worker and
  application say in which channel its descriptor, its id and its
  acknowledgement are.  `Owned` says whose each thing is, `Framed` that the stream
  to the worker is the rest of one connection behind its cookie, and `Stage`
  which places the three may be in at the same time.
- `PairedHolds`, `StartsAtCookieHolds`, `ReturnedWhenDoneHolds`: the three invariants of
  the run `fcgi_session`.
- `BrokerImplemented`: `Spec => ImplementsBroker`.  The initial states are mapped to
  initial states, and under `IInv` every action changes the phase of at most one
  connection, in a way that `RequestBroker` allows: one lemma for each kind of
  action (`HandMoves`, `TakenElsewhereMoves`, `ControlMoves`, `AppMoves`; the worker
  and the clients move nothing).
- `OneAtATimeHolds`: what the broker promises, in terms of the phases: a connection
  is taken when all before it are done with.

`TransportProofs`, under `TransportAssumption` (sizes of a socket and a digit that are
not zero, items that the code writes: a word whose length fits its two digits
and before which the stream may not end, as the readers of words never allow it;
a descriptor that comes with at least a byte, as recvmsg(2) wants it):

- `TransportInvariance`: `TSpec => []IInv`.  The bytes under way, together with what the
  reader has of its item, are what is left of that item, the whole items after
  it, and what the writer has written of its own (`Stream`); the places in the
  two loops (`WriterWhere`, `ReaderWhere`) say how much that is, and `AtEnd`
  that an end of the stream that is taken for a good one lies between two items.
- `WholeItemsHolds`: `TSpec => []WholeItems`, for every script, every size of the socket
  and every cut of reads and writes by the kernel.

`OutputProofs`, for any sizes of the buffer, the records, the padding, the writes and
the whole response, and any number of failures:

- `OutputInvariance`: `OSpec => []IInv`.  `Queue`: what is on the wire, in the compressor
  and in the buffer is, in this order, rising; `Buffer`: what may be in the buffer
  with which other parts; `Loss`: what is missing was lost by a failure that the
  application was told; `Modes`: which state, encoding and compressor go together;
  `Freed`: what remains when it is over.  An operator of `Output` returns a set of
  results, so there is one lemma for each operator (it keeps `Sound`, and what it
  may change), and the actions follow from these.
- `OrderedHolds`, `NoSilentLossHolds`, `HeadThenBodyHolds`, `FramedHolds`: the four
  invariants of the run `request` about the response.

`RequestProofs`, for any keys and validators, any numbers of fields and cookies, any
socket, and a worker or an allocation that fails anywhere, under
`RequestAssumption`:

- `RequestInvariance`: `RSpec => []IInv`.  `Stream` says, while the parent reads, that the
  messages are those it has read, those in the socket and those the worker will
  send, and perhaps a part of one behind them; `Kept` and `Outcome` what this means
  for the pairs, `Hanging` for the lists.  Lists are pointers, so `Shaped` says of
  them, with a pair before each pair and a rank that grows along a list as
  witnesses: two lists share nothing, nothing outside points to anything, and
  the valid ones go backwards in the request.  `PushShape`, `UnlinkFirst` and
  `UnlinkLater` are what the statements of the code do to such lists, and
  `ReachMembers` says that walking along one finds what is in it; it takes the
  least rank that would be missed, because induction over a list is not to be
  had (`Least`, from the theorem that a well-founded set has minimal elements).
- `AllOrNothingHolds` and `ListsHoldPairsHolds`: the two invariants of the run `request`
  about the request, the latter after any sequence of calls of kutil_invalidate.
- `TypeCorrect`: `RSpec => []RTypeOK`.

`HarnessProofs`, for every set of outputs (sequences of words of any length), CGI and
FastCGI, a pipe of any size, and clients and brokers that may go at any time,
under `HarnessAssumption`:

- `HarnessInvariance`: `HSpec => []HInv`.  What the script has said is what the broker
  has buffered and what the pipe still holds (`Reading`); once the head is out, the
  answer and the pipe together are the response to what was said (`Relaying`), whose
  head no longer depends on what is said later (`ResponseOfMore`); and a broker
  that succeeds had all of it, or its client had gone (`Returned`).  `Listening`
  says when a script that has ended has said everything.
- `ResponseKeptHolds`: `HSpec => []ResponseKept`.  The rest is about `Response` alone,
  for outputs of any length (`ResponseTranslates`): the lines of a text are where
  its line ends are (`LinesAre`), a status line in front and its removal elsewhere
  add and take one line (`LinesInFront`, `TurnedLines`), the headers end at the
  same place of the text behind (`TurnedHead`), and the body is what follows.
  `StatusApart` is used in three places: the first line is not empty, else the head
  ends before it begins; the status begins a line, else the rest of the line in
  front of it has no end; and not the last of several, for the same reason.

`DatesProofs`, for every set of starts, before and after the epoch, and every span:

- `CalendarImplemented`: `ClockSpec => ImplementsCalendar`, and `DatesImplementCalendar`:
  `ClockSpec => Civil!Spec`, the refinement of `Calendar`.  `khttp_gmtime_r` divides
  days into eras of 400 years, an era into years that begin in March, and a year
  into months, with formulas that are not the inverse of anything in the code.
  `OnePlace` shows that a day is in one era, year and month only, `EraIs`,
  `YearOfDay` and `MonthRange` that the formulas find it, `PlaceGoes` what the
  next place is, and `MonthLength` and `FebruaryLength` that a month is as long as
  the calendar has it.  There is no bound on the days: the numbers of khttp_gmtime_r
  are all smaller than the 64-bit time they come from.
- `NumbersAreReadBack`: `ClockSpec => []ReadBackInBounds`: for a day whose seconds fit
  and a year that is accepted, the numbers of its date give the time back, in the
  interfaces with 64-bit numbers and with ints and in those of before, and of the
  days of a month only those it has are accepted.  This is `NumbersReadBack`, the
  half of `DatesInverse` (in `ValuesMeant`) that is about numbers, here with every
  integer for a day where the run has six.  The loops of
  khttp_mktime over years have a closed form (`YearLoopIs`, `DaysToYearIs`): the
  number of leap years among `n` is counted by induction on `n` (`LeapsCounted`),
  an era at a stride has 97 (`LeapsOfEra`); `DayNumberIs` puts it next to the place
  of the day.  A day that does not fit is no time of the program, and a year that is
  not accepted is refused by design; both are hypotheses of the property.

All assumptions are evaluated by TLC on the instances of the runs.

Model-checked only:

- What depends on fairness: `AllEnd`, the returning of khttp_parse in
  `ReturnsAndFrees`, and the liveness properties of `varpool_live` and `fcgi_session`.
- What a recursive definition computes over a text, which needs induction over
  sequences and is out of the prover's reach: the texts of the writers
  (`WellFormed`), forms (`FormsKept`), heads (`RequestAsSent`), credentials
  (`PasswordTells`), values and dates read back from text (`ValuesMeant`, of which
  the numbers are proved), templates
  (`TemplateExpands`), the log and the refused calls of the writers (`CallsWhole`).
- The memory of a request (`Storage`), a list of steps that TLC goes through whole:
  nothing in it has a size.

## 5. Not modelled, and what is left

Not modelled: the sandboxes (pledge, Capsicum, seccomp, sandbox_init: what the
system refuses after them is not visible in the library), zlib (a compressed
body is one token for what it was made of), compats.c but for strlcpy, strlcat,
strtonum and memmem, and the wording of messages.  MD5 is a constant operator:
the properties ask of it what every hash has.  Allocation failures are modelled where the code
goes on after them: in the request (`Storage`, `Request`), the FastCGI
processes and the manager's pool; the worker exits on any.

In this order:

1. The bookkeeping of the writers (the stack of open elements and what is open in
   the text) apart from the characters, which are recursive.
2. Several sessions of `FcgiSession` under one `Fixedpool` or `Varpool`, in place
   of the environment that each has now.

Liveness, the refinement's fairness and everything that needs induction over
data stay with TLC; over numbers it can be had from the theorem on well-founded
sets, as `Least` of `RequestProofs`, `LeastPlace` of `HarnessProofs` and `LeapsCounted` of
`DatesProofs` show.

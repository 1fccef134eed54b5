# A verification development for zmqlog

zmqlog is a small C++ logging library over ZeroMQ. A process makes one *collector*
(`zlogpull`), which receives log messages over tcp, ipc and inproc and prints them, and any
number of *loggers* (`zlog`), which format a message and push it to a collector, their own
process's or another's. The library is in `lib/`; `bin/` holds a demonstration program and the
option parser `optionparser.h` for programs with a command line, `ini/` a copy of the inih parser
that is built beside it.

The modules here model the program as TLA+ state machines, check them with TLC on small
instances, and prove safety properties of the collector, of the logger, of their handshake, of a whole
process of them, of the ini parser and of the option parser for all instances with TLAPS.

## 1. Inventory

### The collector, `zlogpull` (lib/zlogpull.cpp, lib/zlogpull.h)

*State.* Four ZeroMQ sockets in one context (`m_tcp`, `m_ipc`, `m_inp` of type PULL, `m_ctl`
of type REP) with their endpoints, the flag `m_run`, a pipe, and the future `m_fut` of the
worker thread.

*Operations.* The constructor makes the pipe and the endpoints and launches `run()` with
`std::async`. `start()` launches it again after a `stop()`. `stop()` clears the flag, writes
a byte to the pipe, waits for the future and unbinds the sockets. The destructor calls
`stop()` and closes. `run()` binds the sockets, polls them and the pipe in a zmqpp reactor
while the flag is set, and calls a handler per readable item: `in_tcp`, `in_ipc`, `in_inp`
(receive and print), `in_ctl` (receive a request, reply with an endpoint), `poll_reset` (read
a byte of the pipe).

*Hard behaviour.* Two threads over a flag, a pipe and a future, without a lock; handlers that
test the flag in the middle of a dispatch round; bytes that stay in the pipe; a bind, an unbind
or an `async()` that throws half-way; sockets that go from thread to thread; stop and start with
messages waiting.

*Correct when* `stop()` returns, whatever arrives; the sockets belong to one thread at a time;
a stopped collector holds no endpoint; no in-process message is lost or reordered by a restart;
and nothing but a failed bind or launch makes `stop()` throw.

### The logger, `zlog<LOCK>` (lib/zlog.h)

*State.* A PUSH socket, its own context (unused by in-process loggers), a format buffer `m_fmt`
and a lock, `std::mutex` for `zlogmt` and the empty `null_lock_t` for `zlogst`.

*Operations.* One constructor connects to a collector of the same process by its inproc endpoint.
The other one asks the collector on this host, by a request to its control socket, for the endpoint
to connect to. `debug()` and `trace()` call `log()`: lock, format into the buffer, send without
waiting, clear the buffer.

*Hard behaviour.* Threads that share buffer and socket; an exception between the lock and
`clear()`; a full send queue; a request to a collector that is being stopped; a context
terminated with loggers alive.

*Correct when* every message is the whole text of one call, calls of a thread leave in order and
at most once, one that threw never leaves, a call that has the lock ends whatever the collector does, and no
way out of `log()` keeps the lock.

### The ini parser, `ini_parse_stream` and `INIReader` (ini/)

*State.* The line counter, the section in force, the last name, the number of the first error; the map
of `INIReader` from keys to values.

*Operations.* A loop over what `fgets` reads into a buffer of 200 characters: comment, continuation of the
last value, section, name and value. `INIReader`'s handler joins section and name to one key and collects
values; `Get`, `GetInteger`, ... look up.

*Hard behaviour.* State that outlives lines, buffers shorter than lines and names, comments and spaces cut in
place, keys made of two strings.

*Correct when* the handler gets stripped names and values under the right section and name, and the map answers
for each entry with its values and no others.

### The option parser, `Stats`, `Parser` and `Option` (bin/optionparser.h)

*State.* The caller's arrays `options[]` and `buffer[]`, in which parsed options are linked to lists; the
counts of `Stats`; in `Parser` the number of options, the arguments that are no options and the error flag; the
argument vector itself, which is reordered in place.

*Operations.* `Stats::add()` counts what a vector will need, `Parser::parse()` stores it. Both run
`Parser::workhorse()` with an action of their own: a loop over the arguments and in it a loop over a group of short
options. An option and its detached argument are rotated in front of the arguments skipped so far. `Option` has the
list operations.

*Hard behaviour.* Rotations while the vector is read; pointers computed before a loop and used in it; two parses into
the same arrays, the second of which looks for the place to go on; a full buffer; names that match by abbreviation;
lists closed by tagged pointers.

*Correct when* what `Stats` counts suffices, lists and buffer agree, options and arguments keep their order and none
is used twice or lost, and every call ends.

### The usage printer, `printUsage` (bin/optionparser.h)

*State.* An iterator over the tables, rows and parts of the help texts; the widths of the columns; two line wrappers,
each a ring buffer of lines that wait; the cursor `x`.

*Operations.* For each table: determine the column widths, again with a smaller threshold until they fit; then write
the rows part by part, the last column through one line wrapper, interjections through the other, and at the end of a row
flush both.

*Hard behaviour.* Three kinds of separators and cells of different heights; a loop that must make progress; lines that
wait for their turn between those of other columns; a ring buffer that fills up; a cursor that is kept by hand.

*Correct when* the parts come in the documented order, each begins at its tab stop, no text is lost, repeated or out of
order, lines keep to the width, and the search for widths ends.

### The rest

| Part | Files | What it does | State |
|---|---|---|---|
| worker | lib/zlogworker.* | receive loop on a DEALER socket; no caller | none between messages |
| message type | lib/zlogmsg.* | zmqpp message with a timestamp setter; no caller | none |
| utilities | lib/zutils.h, lib/macrodef.h | uuid, endpoints, printing macros | none |
| demonstration | bin/main.cpp | a static collector, an ipc logger, one call of `debug` | none |

Components meet in these places: loggers send to the collector's PULL sockets; a network logger
exchanges one request and one reply with the control socket while it is constructed; an
in-process logger lives in the collector's context and is therefore bound to its lifetime; the
owner and the worker of a collector share `m_run`, the pipe and the future.

## 2. Modules

| Module | Content |
|---|---|
| `ZLogPull` | the collector: both threads, the sockets, the handlers, and peers that send at any time |
| `ZLog` | a connected logger and the threads that call it |
| `ZLogFrontend` | the collectors of one host, which contend for its ports, and the loggers that ask them for an endpoint |
| `ZmqLog` | a collector and the loggers of its process, to the end of the context they share |
| `LogStream` | abstract: what a logger promises its callers; `ZLog` and `ZmqLog` implement it |
| `LogService` | abstract: what a collector promises its peers; `ZLogPull` and `ZmqLog` implement it |
| `IniParser`, `INIReader` | the parser as a machine over lines; the map it fills |
| `OptionList`, `OptionParser` | the ring lists; `Stats` and `Parser` over two argument vectors |
| `ArgumentOrder` | abstract: how a vector may be reordered; `OptionParser` implements it for each of its vectors |
| `ScreenText`, `LineWrapper`, `UsageParts` | text on the screen; the line wrapper with its ring buffer; the iterator over the help texts |
| `UsagePrinter` | `printUsage()`, which uses these three |
| `LineQueue` | abstract: a line wrapper is a queue; `UsagePrinter` implements it for each of its two |
| `ZLogPullProofs`, `ZLogProofs`, `ZLogFrontendProofs`, `ZmqLogProofs`, `IniProofs`, `OptionParserProofs`, `CommandLineProofs`, `UsageProofs` | the theorems; `CommandLineProofs` builds on `OptionParserProofs` |
| `MC*` | instances for TLC |

`ZmqLog` does not instantiate `ZLog` and `ZLogPull`: each of them is shown to implement its promise, and `ZmqLog` is built
from actions as coarse as the promises, which it is shown to keep for each logger and for the collector together.

### ZLogPull

| Variable | Code |
|---|---|
| `owner`, `inDtor`, `unbinding` | where the owner is in `stop()` and the destructor, lines 82-104 |
| `m_run`, `m_pipe` | the flag; the number of bytes in the pipe |
| `worker`, `binding`, `ready` | where `run()` is, lines 106-139; `worker = "done"` is a ready `m_fut` |
| `bound`, `linked` | which of the sockets are bound; whether in-process peers are attached to `m_inp` |
| `inbox`, `requests`, `printed`, `answers` | what sockets have received, what handlers did with it |
| `arrivals`, `sessions`, `fault` | history |

Actions have the names of the functions they model. A function that another thread can interrupt
is cut where it matters: `stop(d)` is the test of the flag and its reset (lines 85-87), then come
`poll_cancel`, `fut_wait` and one `unbind` for each socket; `run()` is one `bind_next` or
`bind_throws` per bind, `test_run` for the loop condition, `poll`, and for each handler `enter`, its test of
`m_run`, and the rest of it (`in_pull`, `in_ctl`, `poll_reset`) as a second action: the flag may change
between the two. The second is one action because nobody but the worker uses the sockets or reads the pipe while
it runs, which `SocketsHandedOver` states. `unbind` of a socket that is not bound
throws; out of `stop()` that only skips the rest, out of the destructor it aborts.

ZeroMQ is modelled from how the code uses it. Each PULL socket receives over connections, each in
order. A network peer must reconnect when a socket is bound again and its old messages may be
discarded, so a launch of `run()` opens a new connection and `unbind` may empty the queues. An
in-process peer keeps its connection over unbind and bind, and can connect before the first bind.
The reactor dispatches the items its last poll reported in the order they were added.

A failing `async()` in the constructor leaves no object and is not a state of the model.

### ZLog

`pc[t]` is the line of `log()` that thread `t` is at; `lock`, `m_fmt` and `queue` are `m_lock`,
`m_fmt` and the send queue of `m_push`. A text is written in two fragments, so that an exception of
`write()` can leave one of them. `send` is `ZMQ_DONTWAIT`: it drops the message when the queue is
full. `ctx_term` is the end of the context the socket lives in, after which `send` throws. `Leave` is
the destructor of the `unique_lock`. With `LOCK = "null_lock_t"` one thread uses the logger, as its
name says; the code does not enforce it and the module assumes it.

Refinement: `Stream` instantiates `LogStream`, where a call is open until `send` has decided over it and settled
until it returns, and the stream is what was received and what is queued.

### ZLogFrontend

Each collector is cut at its binds, its unbinds and its control handler, `Shape` being what of `ZLogPull` it keeps. The
tcp port and the control port are fixed numbers of the host: `bind` throws (`bind_throws`) while another collector has the
port. The bind of a socket in `Fallible` may also throw for reasons of the host, such as an ipc file that cannot be made. A launch for
which `async()` finds no thread binds nothing and is left to `ZLogPull`. The ipc endpoint is named after the collector, since it is made once, in the constructor. A request carries the session
of the connection it came over, because a `REP` socket drops the reply to a connection that is closed. `kill` is the end of
a process at any point, with the replies on their way. `zlog`, `Deliver` and `receive` are the constructor of a logger;
`tcp` and `inproc` loggers end in an exception at once.

### ZmqLog

`call`, `send`, `throws`, `return` are a logger's `log()`, `in_inp` is the handler; the queue of a logger is `emitted` after
`taken`. `start`, `bind_inp`, `bind_throws` and `stop` are the collector with its failures: `async()` may throw out of `start()`, and the
collector then runs without a worker; a bind before that of `m_inp` may throw, and then `m_inp` is not bound in this session; a
bind after it may. `attached` are the loggers that `m_inp` has accepted, as it does with all when it is bound and with later ones at once; an
in-process connection lasts over unbind and bind, and a logger that is not attached queues. After a fault `stop()` throws, which leaves
a stopped collector, or aborts the process if it was called by the destructor (`abort`).

`destroy`, `close`, `ctx_term` and `term_returns` are the destructor: its `stop()`, the sockets, then the context, whose termination makes calls
on its sockets fail and waits until the last one is closed. `Mine` are the loggers that the destroying thread itself holds: it
cannot give them up while it waits.

Two simplifications. `Capacity` is one number for the two high water marks of a connection and for the one of a logger that is not connected
yet, and an attached and a waiting logger alike drop when it is reached. Once the sockets of the collector are closed a send drops the message,
also that of a logger that was never attached and would queue it: nobody will receive it either way.

### IniParser and INIReader

A line is a sequence of `Characters`, one-letter strings. One step is one turn of the loop over what `fgets` read: a line, or a part of one
that is longer than the buffer. `skip`, `continuation`, `section_line` and `pair` are the branches of the loop; the configuration
is the default of `ini.h`. `INIReader` adds `_values` and runs
`ValueHandler` in the step in which the parser calls it. `InFile` reads from the calls, without keys, what `Get()` should answer:
`Join` takes the values of the entry one after the other and passes over those of others.

### OptionList and OptionParser

A memory maps addresses (`opt(i)`, `buf(k)`) to objects; a link is an address with its tag. `call` counts the four calls
of the documented use: `Stats::add()` for the vector of defaults and for the user's, then `parse()` for both. `pc`, `pos`,
`numargs`, `nonops`, `param`, `short` and `single` are the locals of `workhorse()`; `argv` holds, as numbers, the order
that the vectors have been given. One action is one way round a loop: `nonoption`, `stop_at_nonoption`, `terminator`,
`option` and `end` for the outer one, `end_of_group`, `drop`, `illegal` and `accept` for the inner one. `Here` is all that a turn
depends on (the argument, how much of it is read and what stands next), `Turn` what it finds there, `Status` what the check says of it. Since the vector is reordered, positions are those of the present vector, and a
pointer into text names the argument, not its place. `Settings` are the parameters the caller chooses, also those that differ
between `Stats` and `Parser`; with `bufmax = -1` the buffer has the size that `Stats` gave. Which of them may differ then is said
by `CallsMatch`, after "The calls to Stats methods must match the later calls to Parser methods" (optionparser.h:953): a `Parser` with `gnu`
is not given what a POSIX `Stats` has counted, which stops at the first argument that is no option. The other way round is
allowed, by the note at line 1100.

### UsageParts, LineWrapper and UsagePrinter

Text is a sequence of code points, so that a character can be one or two columns wide and one to four bytes long;
`update_length` and `process` decode UTF-8 to just this. The iterator is a record and its operations are functions. `pc` is
the place in `printUsage()`: `restart`, `measure_row`, `measure` and `measured` are the search for widths, `layout` the tab
stops and the treatment of the last column. `indent` moves to the column of a part, which `left_part` writes, `postpone`
leaves for later or `wrapped_part` hands to a line wrapper; `wrap` and `end_process` are `process()`, `own_line` and
`last_own_line` the last column on lines of its own, `flush`, `flush_line` and `end_flush` the flush of a wrapper. `out` is all
that has been written.

## 3. What TLC checks

| Run | Instance | Question |
|---|---|---|
| `collector` | 3 sessions, 1 message per socket, pipe of 3 bytes, every network bind and every restart may fail | is the start/stop/destroy protocol safe, does `stop()` return, and is `IInv`, which the proofs use, invariant |
| `collector_traffic` | 2 sessions, 2 messages per socket, tcp may fail to bind | `LogService`: what a stop in the middle of a round does to waiting messages, none of them lost, repeated or reordered |
| `collector_turns` | 1 session, 3 messages per socket that may all wait at once, 1 control request | how often is a socket that waits overtaken by each other one |
| `logger` | 2 threads with 3 calls each on a `zlogmt`, formatting may throw, a queue of 2 | `IInv` of the proofs, whole texts, order, calls end, is a thread locked out; `LogStream` |
| `frontend` | 2 collectors with 2 sessions each, crashes, ipc binds may fail, 2 loggers | `IInv` of the proofs, who has which port, who answers, how requests get lost, does a constructor end |
| `system` | 2 loggers, one of them the destroying thread's, one thread, 3 calls each, queue of 2, collector started twice, every bind and the second `async()` may fail | `IInv` of the proofs, order from call to print, which loggers are heard, what holds the destructor up; `LogStream` and `LogService` |
| `ini` | all files of up to 3 lines of 15 forms and up to 4 lines with look-alike entries; lines and names fit the buffers | what the handler gets, what `Get()` answers |
| `ini_names` | names longer than `prev_name` | violated: a continuation line is reported under a cut name |
| `ini_integer` | values that are a number only in front | violated: `GetInteger()` takes them |
| `options` | 2 vectors of defaults, all user vectors of up to 3 arguments of 12 forms, the empty argument among them, 3 tables, 3 settings | do the arrays of `Stats` suffice, do lists and buffer agree, what becomes of each argument, does each step lead on; `ArgumentOrder` |
| `usage` | one and two tables, cells of 6 forms, up to 4 columns of which 3 are printed, 4 widths, a ring buffer of 4 | is the text complete and in its place, does the search for widths end; `LineQueue` |
| `usage_cursor` | the same | violated: `indent()` back to column 0 leaves `x` where it was |

The three violated runs are disagreements of the code with its headers, which PROJECT.json quotes under `findings`.

The bounds. Three sessions let a byte of the first stay in the pipe over the second and meet the third,
and a failed session be followed by a good one and by another. The pipe holds exactly as many bytes as
there are launches: the theorem `CancelDoesNotBlock` shows that this is enough, and the assumption
`MaxSessions <= PipeCap` says how far it goes. In the program it is the kernel's pipe (64 KiB), and a
collector that is stopped that often without its worker ever polling would indeed block. Two messages of a
connection are what order needs. The three of `collector_turns` let a socket have one more waiting than the two turns it may
have before another, and so starve it if a handler went on receiving (the mutant of that run does); its `Bounded` leaves
out what comes after `stop()`, when the handlers do nothing, and more than one control request. In the logger a queue shorter than the number of calls lets it
overflow, and three calls per thread let a call meet the remains of two calls of its own thread and of
the other's. Two collectors are what a port can be contended by; with two sessions each, one can lose a port, find it
free again and meet the other one's `stop()`. Two in-process loggers let one be released or held while the other is in
use, and be made before and after `m_inp` is bound; two starts let a session that failed be followed by one that does not. Proofs remove the bounds of the safety properties of `collector`, `collector_traffic`, `logger`, `frontend`, `system` and `ini`, and
of what `options` asks about the sizes of the arrays, the order of the vectors and progress. The parser keeps nothing but section, name
and error from line to line, so that three lines (set, in between, use) exercise it, and its buffers are scaled down with the lines.
Three arguments of a vector let an option with a detached argument come behind one that is no option, which is the longest
rotation, and the defaults bring options into the arrays before; the sizes of the second setting exceed a `bufmax` of 2. The forms
of arguments are those that the conditions of `workhorse()` tell apart. The ring buffer of the line wrapper is scaled from 16
lines to 4 and the number of columns from 8 to 3, so that both overflow; the four widths have everything fit, wrap, go to its own line and fail to fit at all.

Fairness. `ZLogPull` assumes that the worker and a call that has begun are scheduled (`WF`): they are
threads of the operating system and nothing in the code makes them wait but what the guards say. Nothing
is assumed of the owner's decisions or of the peers. `ZLog` assumes the same of each call; it does
not assume that a waiting thread gets a mutex that others take again and again, so `CallEnds` is about a call that has it, and about
one that waits when the other threads have no more calls to make.
`ZLogFrontend` assumes that a collector's worker and its `stop()` go on, that a constructor goes on, and that a
connection to a bound control port comes about (ZeroMQ retries); `HandshakeEnds` adds as its premise that some collector goes
on answering, since an owner may stop every one of them. `ZmqLog` assumes that the binding worker, begun calls and the
destructor go on (`WF`), and nothing of those who hold loggers: `DestructorEnds` says that it ends, with its process or without, unless
somebody keeps a logger that is idle.

## 4. What is proved

For all values of the constants that satisfy each module's `ConstantsAssumption`:

| Module | Theorem | Property |
|---|---|---|
| `ZLogPullProofs` | `Inductive` | `[]IInv` |
| | `WakeupKept` | `[]NoLostWakeup` |
| | `HandedOver` | `[]SocketsHandedOver` |
| | `NoEndpointLeft` | `[]StoppedHoldsNoEndpoint` |
| | `AbortNeedsFault` | `[]AbortOnlyAfterFault` |
| | `FlagIsRight` | `[]FlagTellsWorker` |
| | `CancelDoesNotBlock` | `[]CancelNeverBlocks` |
| | `SingleRun` | `OneRunAtATime` |
| | `ImplementsService` | `KeepsService`, that is `Service!Spec` |
| `ZLogProofs` | `Inductive` | `[]IInv` |
| | `MessagesWhole` | `[]WholeTexts` |
| | `CallsInOrder` | `[]ThreadOrder` |
| | `MutualExclusion` | `[]Exclusive` |
| | `LockReleased` | `[]LockHeldInside` |
| | `ImplementsStream` | `KeepsStream`, that is `Stream!Spec` |
| `ZLogFrontendProofs` | `Inductive` | `[]IInv` |
| | `ControlMeansAll` | `[]ControlServesAll` |
| | `NoSplitPorts` | `[]PortsTogether` |
| | `CompleteAnswers` | `OnlyCompleteAnswers` |
| | `LostWithPort` | `LostOnlyWithPort` |
| `ZmqLogProofs` | `Inductive` | `[]IInv` |
| | `EndToEndOrder` | `[]PrintedInOrder` |
| | `EveryLoggerHeard` | `[]AllHeard` |
| | `ImplementsService` | `KeepsService`, that is `Service!Spec` |
| | `ImplementsStreams` | `KeepsStreams`, that is `Stream(l)!Spec` for each logger |
| `IniProofs` | `Inductive` | `[]IInv` |
| | `SameNameOnContinuation` | `[](NamesFit => ContinuationKeepsName)` |
| | `StrippedIfNamesFit` | `[](NamesFit => Stripped)` |
| | `AnswersFile` | `[]GetAnswersFile`, of `ReaderSpec` |
| `OptionParserProofs` | `Inductive` | `[]TypeOK` |
| | `AlwaysAdvances` | `Advances` |
| | `ImplementsOrder` | `KeepsOrder`, that is `Order(n)!Spec` for both vectors |
| `CommandLineProofs` | `StatsSuffices` | `[]BufferSuffices` |
| | `CommandLineKept` | `[]CommandLine` |
| | `ListsKept` | `[]ListsFollowBuffer` |
| `UsageProofs` | `EmptyAndFull` | `buf_empty()` and `buf_full()` in terms of the queue |
| | `StorePuts`, `NextTakes` | `buf_store()` and `buf_next()` as operations of the queue |
| | `OutputKeepsLines` | `output()`: no line is lost at a full buffer |
| | `PrinterSane` | `[]Sane`, the inductive invariant of `printUsage()` |
| | `QueuesKept` | `KeepsQueues`, that is `Queue(w)!Spec` for both wrappers |
| | `SearchNarrows` | `Narrows` |
| | `PartsAligned` | `[]Aligned` |
| | `PartsOrdered` | `[]PartsInOrder` |

The collector. `Phases` says who may move: the flag is set only outside calls, and a worker that serves
is a worker whose flag is set or whom `stop()` is about to wake. From it alone follows that the owner
touches sockets only after the worker. `WakeBytes` counts: every launch is good for one byte, which is
still due while the flag is set, hence there is room for it. `NoLostWakeup` is inductive with these: the
worker enters its poll only if it saw the flag set, that is, before `stop()` has written, and it leaves the
poll when it takes a byte. `BoundShape` is needed for faults: the bound sockets are always a span
of `BindOrder`, its first part while the worker runs and its last part while `stop()` unbinds, and a
span that is not complete has a fault behind it. Therefore `stop()` throws at the first socket that is
not bound, and then nothing after it is bound either. The refinement of `LogService` needs that handlers run only while the
life of the collector is "running", and that `unbind` empties no queue of in-process peers: then `in_pull` prints the
oldest message of a connection, a launch opens the next, and a stop may drop those of network peers and no others.

The logger. `LockShape` gives the buffer to one thread at a time: with a mutex by the owner, with `null_lock_t` by the assumption
that there is one caller. `BufferShape` says what the buffer holds: between `write` and `clear` the text of the call in progress
behind remains of calls that threw, else remains only. Sending it therefore adds one whole text. `SentEarlier` is what order
needs: a thread that has not sent its present call has sent only earlier ones. `ThrownEarlier` says the same of the calls that threw, so that
what is sent is none of them. The refinement follows: `send` appends the
number of the call to the stream or meets a full queue, and taking a message moves it within the stream.

The handshake. `Shape` says, for each phase of a collector, which sockets it holds: the part of `BindOrder` before its
position while it binds, a first part of it while it serves (all of it unless a bind failed), a first part of the rest while
it unbinds. The control socket is last in that order, so who has it has all; with `PortOwners`, one owner per port, the two
ports cannot be in two hands but while one of them unbinds. `LostWithPort` says that a request for an endpoint gets lost only in a
step in which its collector gives up the control port or dies.

The composition. `Earlier` relates what a logger has sent to the number of its calls: what a thread has sent is of calls before
the one in progress, or of that one once it is settled. With `CallCounted` (a call in progress has been counted) a message that
is sent is later than all of its thread that wait or were printed; `EmittedInOrder` keeps that for the queue, `PrintedBeforeWaiting` for what
crosses from the queue to the printed. `NoneBeforeStart` is there because a logger is made from a collector. `InpAccepts` says that
a worker without a fault has bound `m_inp`, and that while it is bound all loggers are attached; `AllHeard` follows. The two
refinements hold for the same state: `taken` divides what a logger emitted into what the collector has and what it waits for.

The ini parser. `ContinuesLastCall` says that `prev_name` is the name of the last call, cut to the buffer, and that the section has
not changed since; `ContinuesCall` is the same for the calls made. Hence the hypothesis of the next two theorems: as long as no name was
too long for its buffer (`NamesFit`), the cut is none. Without it they are false, which `ini_names` shows. `AnswersFile` needs no hypothesis. Its core is that `MakeKey` tells entries apart: names
hold no `=` (`NoSignInName`), and lower case makes none of other characters (`LowerAssumption`), so the last `=` of a key is the one
that joins it. The values of a key are then a fold over the calls, which goes by induction over their number; the induction is drawn
from the well-foundedness of the natural numbers, in a form that needs no operator as a parameter.

The option parser. `TypeOK` is inductive as it stands: it says that each vector is a permutation of what was given and
that `pos`, `nonops` and `numargs` fit together, so every argument and character that a turn looks at exists. `RotationTakes` is the
lemma about `shift()`: one or two rotations over any number of skipped arguments put what was taken before what was left and
change nothing else. With it each turn is a step of `ArgumentOrder`, and a step on for `Rank`.

The sizes that `Stats` gives. `Stats` and `Parser` read the same vector, but `Stats` has reordered it before `Parser` reads it, so that they
meet its arguments in different order. The proof keeps for each vector a *diary* of `Stats`: the set of places it was at, each with the
number of arguments taken so far, what a turn sees there (`Here`) and what was counted by then. `Closes` says that each entry is followed by
the one a turn at it leads to; `LeftOut` says what is in the vector now, that the arguments taken come first and then those that were
passed over. This is what `Stats` writes (`Writing`, `Written`). `Parser` then is `At` an entry of the diary and has stored no more than was
counted there, or it has come to where only arguments that are no options are left (`Spent`). There is one place where the two
part: if the last option of a vector takes an argument that is not there, then after reordering there may be one, the first that was
passed over. `OutcomeWithMore` says that a turn with a next argument accepts whatever it accepts without, so that `Parser` stores
no more even then, and is spent. `Sized`, `Filled` and `Counted` tie this to the memory: `options[]` is longer than every index, the
slots in use are a first part of `buffer[]`, and `op_count` is at most what was counted. `LinkIs` and `AppendIs` show that the links of the
lists, whatever they are, never change which slots are in use. `CallsMatch` is used where `Parser` passes over an argument
that is no option: then `Stats` has not stopped there.

The command line. `InPlace` says how far from its given order a vector can be: an argument that stands before one given earlier stands
before one that is no option (`Ahead`), and what has been passed over is no option. So a turn, which is at an option, is at
an argument given later than all that were taken. `BeenAt` and `TakenIn` say where parse() has been: in earlier calls, in the arguments
taken, and in the group that it is in up to `param`. They only grow (`StillBeen`). `BufferIs` keeps for each option in the buffer that its name was
found in such a place and its separate argument was taken, and for each two that the first was given before the second and that they share no
argument; `NewIs` is the step, that what a turn finds is behind all of them. `RestIs` says the same of the arguments handed over at the end of a
call, and that they are in order, for which the diary is needed (`RestSorted`): what `Stats` did not come to see is as it was given, what it passed over
keeps its order, and `Parser` ends either with only such arguments left or where `Stats` ended. `Handed` says that everything taken was an
option, the argument of a stored option, or a `--`, in front of whatever was given behind it, which `parse()` therefore hands over (`Ending`); with the
rest it gives that nothing is lost. That needs room for
every option found, so `NothingLost` is about arrays of the size that `Stats` gave, and `RoomLeft` of the proof above is used.

The lists. What the program sees of a list is found by following links, from an object to the end of its ring. `Linked` says of a memory that
its objects are in rings: which ring each is in, which place it has there, and that its two links are those of that place, with the mark
where a ring closes. A function that follows links then comes one place nearer to an end with each link, and what it returns is found by
descent on the place (`LinksAre` and what follows it); this needs no induction over the data, only that a ring is finite. `Lists`
is the invariant: the rings of `options[]` hold, for each index, the options of the buffer that have it, in its order (`Follows`), and the unused slots are rings
of themselves. Storing an option puts its slot at the end of the ring of its index and leaves the others as they are (`Longer`), or makes
it the first, which `options[]` then holds a copy of. It uses `Sized`, `Filled` and `Counted` of the proof above: the slot and the entry exist,
and the slot is not in use.

The usage printer. `Waiting` reads the ring buffer as a queue; the first four theorems say what each operation does to it, for every size of
the buffer: it is full with one slot less than it has, and a store into a full one writes the first line out. What `printUsage()`
does with the two wrappers is a step of `LineQueue` because they are empty between the rows, where `layout` replaces them (`Emptied`):
a row ends with a flush of both. The iterator has to be `Inside` its help text for the texts to be texts; `Placed` and `AtText`
say where it may be in each phase. Most of that is `LoopIs`, about the loop of `next()`: a function that is
defined by its own values is the one that the loop computes only if the loop ends. It does, since with each turn the rest gets smaller (`Left`): the rounds
through the row that are left to the target line, times the length of the text, and what is left of the text. `FittingIs` shows that a line can be broken off,
at a width of two or more, which is the least a constructor sets. `Narrowing` is what the search for widths needs: the widths that a turn has noted are
smaller than its threshold, so their maximum, which is the next one, is smaller too, unless it is 0; and then the tab stop of
the last column is 0, which no screen is too narrow for.

That parts are aligned is a second invariant, `Laid`, on top of `Sane`. `CursorTracked` does not hold: after `indent()` to column 0 the code may think
that the cursor is further right than it is. `Synced` says that this is harmless: either `x` is the cursor, or the tab stop is 0 and `x` is more than
the width of any column, so that `indent()` breaks the line at the next column, which puts both right. For that a part that is longer than its column is
wide has to be longer than every column (`Fitted`), which is how the search for widths leaves it: what it left out was as wide as the
threshold, and what it noted was smaller (`Measured`, with `Narrowing`). It did so for the parts that it met; that the pass that prints meets no others is
why `Laid` speaks of sets of parts: a set that has the first part of the table and for each part what `next()` or `nextRow()` makes of it (`Goes`)
has all parts of both passes, also those that the last column on lines of its own goes through again, since `restartRow()` leads back to the first
part of the row. `NextCell` adds that column `c + 1` follows column `c` only behind a `\t` or `\v`, so that the part before it was one of the table.

That parts come in order is a third, `Ordering`, on top of both. A part of a row is given by three numbers that `next()` counts itself: the column,
the line in the cell, and `max_line_in_block`, by which it decides whether to go through the row once more. `Ordered` says what they count:
the part lies in a cell (`Span`) that has as many `\t` in front of it as `col` says, with as many `\v` before `ptr` as `line_in_block`
says, and either begins the target line or, the cell being too short, is the empty text at its end (`At`). `Deep` is what makes the end right: `max_line_in_block` is at least the
depth of every cell gone through so far, which from the second lines on are all, and no more than that of some cell; with the second half left out an
iterator could go on through a row that has no such line. The property itself speaks of `Pieces`, which number the separators of a text
in another way, by how many are before each. `PieceAt` and `PieceHas` join the two: the piece between two neighbouring separators has the
number of separators in front of it. This counts (`Times`, a cardinality) where one would otherwise go by induction over the text.

Only model-checked:

* Liveness, which needs `ENABLED` and is out of the prover's reach: `StopReturns`, `CallEnds`, `HandshakeEnds` and
  `DestructorEnds`.
* `TakesTurns`, over what is counted by a monitor in `MCZLogPullTurns` and is no state of the program.
* `TextPrinted` and `Fits` of the usage printer. The first is about the letters that come out in the end and how those of a cell are selected
  from the output, the second about the cursor behind every line that is wrapped; both need what selecting from, or summing over,
  a text gives when it is put together piece by piece at every break, which is induction over data.
* The three violated properties, of course; `SameNameOnContinuation` and `StrippedIfNamesFit` say when two of them would hold.

## 5. Not modelled, and why

* The values of `m_run` as seen by another core: the flag is `volatile`, one thread writes it, and a read
  returns its present value in the model. A delayed read is an interleaving with a later step of the worker.
* Two owners that call `start()` and `stop()` at once: the class has no lock for it and no caller does it.
* The text of messages, and everything printed besides the messages.
* How loggers reconnect to an ipc endpoint whose process is gone: ZeroMQ retries for ever, the code does nothing.
* The private context of a network logger: the code sets no linger, and closing it waits for as long as the peer is away.
* `zlogworker`, `zlogmsg`, `zutils`, `macrodef.h`: without state of their own, and without a caller but for names.
* `INIReader::GetReal` and `GetBoolean`, the lookup again; `ini_parse` opening its file; lines longer than the buffer, which
  `ini.h` excludes by its `INI_MAX_LINE`, and which count as several.
* In `optionparser.h`: malformed UTF-8 (a start byte of 0xFF makes the argument of `__builtin_clz` zero); the guards against
  0x7fffffff options; an `argc` greater than the vector, which the code corrects; the adapters that write the usage to streams,
  files and functions. The note at line 1100, that a vector reordered by `Stats` need not be reordered again, does not hold if `Stats`
  stops at an argument that is refused; the settings of `options` include it and nothing of what is checked depends on it.

## 6. Plan

1. The ipc connection of a logger over the crash and the stop of its collector, composed with `ZLogFrontend`.
2. A declarative reading of a whole ini file to compare the calls of the handler with.

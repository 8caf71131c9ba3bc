# TLA+ models of the STOMP server and client

This directory holds a verification development for the STOMP publish/subscribe
system of `src/Assignment3`: a Java server (`server/`) that runs either with one
thread for each client or as a reactor over a thread pool, and a C++ client
(`client/`).  The modules model the code, TLC checks them on small instances,
and TLAPS proves theorems about them for instances of every size.

## The system

| component | state it keeps | operations |
|---|---|---|
| **Registry** `ConnectionsImpl`, `User` | `clients` (id -> handler), `users` (name -> User), `subscribtions` (channel -> HashSet of ids), `msgCounter`; in a User: password, `isLoggedIn`, `idToChannel`; in a handler: its User | `addConnection`, `login`, `logout`/`disconnect`, `subscribe`, `unsubscribe`, `send` to a connection or to a channel, `closeConnection` |
| **Protocol handler** `StompMessagingProtocolImpl`, `FrameUtil` | `connectionId`, `shouldTerminate` | `start`, `process` and the handlers of CONNECT, SUBSCRIBE, UNSUBSCRIBE, SEND, DISCONNECT, `handleError` |
| **Thread-per-client server** `BaseServer`, `BlockingConnectionHandler` | a socket and a thread for each client | accept, read loop, `send`, `close` |
| **Reactor** `Reactor`, `NonBlockingConnectionHandler` | selector, `selectorTasks`, `connectIdCounter`; for each handler a channel, its key's interest operations and `writeQueue` | `serve`, `handleAccept`, `handleReadWrite`, `continueRead`, `continueWrite`, `send`, `updateInterestedOps` |
| **Thread pool** `ActorThreadPool` | `playingNow`, the pending tasks of each actor, the executor's queue | `submit`, `execute`, `complete`, `shutdown` |
| **Frame codec** `STOMPEncoderDecoder`, `StompFrame` | the bytes of the frame being read | `decodeNextByte`, `encode` |
| **Client** `StompClient`, `StompProtocol` | `connectionHandler`, `channels_map`, `events_map`, `loggedUser`, `channelName`, `logout_Id`, the next receipt and subscription ids; one mutex | login, join, exit, report, summary, logout on the keyboard thread; CONNECTED, MESSAGE, RECEIPT, ERROR on the reader thread |
| **Connection handler** `ConnectionHandler` | a socket | `connect`, `sendLine`, `getLine`, `close` |
| **Events** `event.cpp`, the end of `StompProtocol.cpp` | the reports of each user and channel | reading an event file, writing and reading the body of a report, summaries |
| **Echo client** `echoClient.cpp` | a socket | a loop of line and answer over a `ConnectionHandler` |

How they interact.  A connection's bytes go through the codec to `process`, on
the connection's own thread or in a task of the pool.  `process` reads and writes
the registry, which all connections share and which takes no lock: every call on
a `ConcurrentHashMap` is atomic, a method makes several of them, and the set of a
channel is a plain `HashSet`.  Frames go out through `send` of the *receiver's*
handler, called on the *sender's* thread.  In the reactor that call queues the
frame, queues a task for the selector thread and wakes it; the selector thread
writes it.  The selector thread and the pool meet in `submit`/`complete` too.
In the client a frame of the server is read and processed on the reader thread,
which holds the mutex meanwhile; a command is processed on the keyboard thread,
which never takes it.  Both use the one `StompProtocol` and the globals beside it.

What is hard, and tested by nothing in the repository:

* every pair of registry methods on different threads (check then act in
  `checkLogin`/`login`; a subscription that is two entries in two maps; a loop
  over a `HashSet` that others change);
* what is left when a method ends in the middle: `logout` takes a connection out
  of its channels one by one, exceptions end a thread or only a task, a client
  hangs up;
* the hand-over between the pool's threads and the selector thread: lost
  wakeups, a channel that closes while its key is in use, a first task that runs
  before or after the rest of `handleAccept`;
* the order of a connection's tasks, and that a task that throws or arrives late
  strands no other;
* the two threads of the client: a handler deleted under its user, a teardown of
  five assignments that a new login overtakes, a mutex left locked by an exception,
  the receipt of a logout among those of other commands;
* a report on its way: read from a file, sorted, written as lines, relayed,
  read back by a parser that looks for ':' everywhere, sorted again and cut;
* bytes: partial reads and writes, a connection that ends in the middle of a frame,
  a decoder whose state outlives a frame.

`PROJECT.json` lists each of these with its line under `hazards`.

## The modules

| module | what it is |
|---|---|
| `ConnectionsImpl` | the registry: one operator for each atomic step of its methods |
| `StompServer` | `process`, its handlers and the life of a connection, composed of those steps; EXTENDS `ConnectionsImpl` |
| `StompServerProperties` | what the server promises |
| `MCStompServer` | the instances of `StompServer` |
| `StompServerProofs` | type correctness of `StompServer`, theorems about its subscriptions |
| `StompServerSafety` | theorems about the messages and answers of `StompServer`; EXTENDS `StompServerProofs` |
| `ActorThreadPool` | the pool, with the monitors of the actors, the executor's queue and the selector thread that calls `submit` |
| `SerialActors` | the abstract specification of the pool: a first in first out executor, one task at a time for each actor |
| `ActorThreadPoolProofs` | theorems about `ActorThreadPool`, and that it implements `SerialActors` |
| `Reactor` | the selector loop with accept, reading, writing and closing, and the tasks that make it write |
| `ReactorProofs` | theorems about `Reactor` |
| `MCActorThreadPool`, `MCReactor` | their instances |
| `ServerSession` | one connection as its client sees it: the socket's two directions and the server's answers |
| `StompClient` | the two threads of the client; EXTENDS `ServerSession` |
| `StompClientProofs` | theorems about `StompClient`: types, subscription ids, receipts, and what a session keeps |
| `EmergencyEvents` | the files, frames, parsers and summaries of events, pure definitions |
| `EventPipeline` | reporters, the relay, and a client that records and summarises; EXTENDS `EmergencyEvents` |
| `EventPipelineProofs` | theorems about `EventPipeline`: reports, summaries, the constructor from a body |
| `FrameChannel` | the abstract specification of `sendLine` and `getLine`: a channel of whole lines |
| `ConnectionHandler` | `sendLine` and `getLine` down to the bytes; implements `FrameChannel` |
| `HandlerUsers` | the two programs that use a `ConnectionHandler`: the threads of `StompClient` and the echo client; EXTENDS `ConnectionHandler` |
| `HandlerProofs` | theorems about `HandlerUsers` |
| `StompCodec` | `decodeNextByte` on a stream of frames, as the client writes them |
| `StompCodecProofs` | theorem about `StompCodec` |
| `MCStompClient`, `MCEventPipeline`, `MCHandlerUsers`, `MCStompCodec` | their instances |

### StompServer

A connection is a process.  `pc[c]` says between which two accesses to the
registry it stands; `frame`, `user`, `todo` and `msg` are the local variables that
live across one.  A step is one access to the shared state with the local
computation around it, in the order of the code; the labels carry the names of
the methods.  Two processes interleave at every such step.  The process is the
connection's thread in the thread-per-client server, whose `serve` gives every connection an
id of its own (`Accept`); an exception, and an ERROR, end the thread.

The reactor runs the same handlers, one task of a connection at a time (`OneTaskPerActor`), but
`StompServer` is not a model of it: two of its connections can be started with one id (`PersonalId`
of `Reactor`, run `ReactorIds`).  The second `addConnection` then takes the first one's place in the
map, and answers and messages for one go to the other.  So nothing that is checked or proved
of `StompServer` is claimed of the reactor.

Data is reduced to what the checks tell apart.  A frame is its command, whether
it asks for a receipt, and the values of the headers the handlers read, with
`None` for a missing header, or a set of headers that fails the first checks of
`handleConnect`; `NaN` is an id that `Integer.parseInt` refuses.  Channels are
named after the leading "/" has gone.  A MESSAGE keeps its sender and the number
of the SEND for its body.  Things to know when reading it next to the code:

* `out[c]` is the sequence of frames handed to `send` of c's handler, in order.
* A User object is a pair of the connection that created it and its name: a
  connection creates at most one for a name, since the map has one afterwards.
* A `HashSet` iterator is the elements it has yet to return and whether the set
  has changed since; `next` throws if it has.  A change that changes nothing
  leaves the iterator valid, as in Java.
* An update of a `HashSet` that overlaps another one may be lost (`Overlaps`), as it can without a
  lock: a connection that is about to change a set while another one is may find its change undone.
  Other outcomes of that race are left out: a corrupted table, and the loss of entries nobody was changing when the
  table is resized, which Java does at the 13th subscriber of a channel.
* `torn` is a history variable, which no step reads: the pairs of connection and channel whose
  last update was lost, or was an UNSUBSCRIBE of one of two ids.  An update that is neither takes its pair out again.
* `logout` takes one snapshot of the user's channels.  The iterator of a
  `ConcurrentHashMap` is weakly consistent; only a second session under the same
  name could change the map during the loop.
* The lookup of a receiver's subscription id and the message counter are one
  step (`GetSubId`); nobody else can tell them apart, because the counter only
  numbers messages.
* `EndOfStream` is also what a closed channel looks like to the process.

### ActorThreadPool

`monitor`, `playingNow`, `pending` and `workQueue` are the pool's; each thread has a
`pc` in `submit`, `execute` or `complete`.  `synchronized (actor)` is taken and
given back where the code does, each in a step of its own: the executor can take a job while the thread that queued it is
still inside `submit` (`LeaveSubmit`) or `complete` (`LeaveComplete`), so that the next task of an actor may begin beside the end of
`complete` for the last one, but never beside a task.  The `WeakHashMap` of pending queues is behind a
readers-writer lock of its own, whose critical sections are single operations of
the map: they are part of the steps that make them.  Tasks are numbered in the
order of their `submit`.  Some tasks throw: `EndTask` is the `finally`.
`shutdownNow` may come at any point, and takes jobs out of the executor's queue.

### Reactor

`spc` is the selector thread's position in `serve`: `select`, `selectorTasks`, the
selected keys one by one, and inside a key the reads of shared state that
`handleReadWrite`, `continueRead` and `continueWrite` make one after the other.  A
key is its handler's `interest` (empty before `register`) and is cancelled when its
channel is not `open`.  `ppc[h]` is the position of the task that runs for handler
h; the queue `tasks[h]` is what `SerialActors` promises.  `send` is three steps, as in
the code: `writeQueue.add`, `selectorTasks.add`, `wakeup`.  A frame is the unit of
reading and writing, so `full[h]` (the client has not read the last frame) stands for
a socket buffer that takes no more.  What a frame does is reduced to what it makes the
reactor do: a publish sends a MESSAGE to some connection and a RECEIPT to its own,
a bad frame sends an ERROR and closes.  `myId[h]` is the id that the first task read from `connectIdCounter`; in between other connections may be
counted, and a second one be given the same.  The buffers of `BUFFER_POOL` are not modelled:
a buffer is leased on the selector thread, used by one task and given back at its end.
The clients, and the operating system's sockets, are external: they connect, send,
read and go away.

### ServerSession and StompClient

`kpc` and `spc` are where the keyboard thread and the reader thread stand.  A step of a
thread is one access to what both use (`connectionHandler`, `logout_Id`,
`channels_map`, `events_map`, `loggedUser`, the socket); what only one of them uses
(`receipt_Id`, `subscription_Id`, `channelName`, the frame in its hands) goes with it.
`cmd`, `left` and `out` are the command, the events still to send and the frame of the
keyboard thread; `frame` that of the reader.  `connectionHandler` is 0 or the number of the
login that made it, so that `kptr` and `sptr`, the `this` of a `sendLine` or `getLine` that has
begun, tell whether it was deleted meanwhile.

`name` is the user the connection was made for, which is the one the server knows; it is compared with the name the client
puts on its reports (`ReportsSigned`), a global that outlives a session.

What C++ leaves undefined is a choice.  A null handler crashes (`NullHandler`).  A deleted
one (`Dangling`) crashes, or fails like a closed socket.  Two accesses to a map or a string at once
(`Racing`) crash, or happen one after the other.  Locking the mutex a second time blocks.
The pointer `connectionHandler` itself is read and written whole, as on the machines this is
built for.  So `crashed` is an outcome, and a property that ends in `crashed` is about the rest.

`ServerSession` answers a frame with what `StompServer` answers when nobody else uses the
name: one step for a frame, since of the handler's steps only the order of the answers is seen
here.  `MayRefuse` lets it refuse a login (wrong password, name in use) and the
operating system a connection; `MayDie` lets it close the socket, with or without the loss
of what it has sent.  Others publish on the client's channels at any time.  A text is reduced to what
`process` tells apart: plain, a date `std::stoi` refuses, a text with ERROR or CONNECTED in it.

### EmergencyEvents and EventPipeline

A text is a sequence of lines, a line is its key and value around the first ':' or no key,
and the length of a line matters only for the limit of 27 characters.  `ParseLine` is one turn of the loop
of `processMessageFrame` with its flags, `BodyLine` one of the constructor of `Event` from a
body.  `std::sort` may leave equal elements in any order: `SortsOf` is the set of its
results.  Dates are small numbers; a value of general information is a JSON string, taken as
it is, or another value, printed by `dump`.  A parser that has thrown reads no further line; the step that
would (`ReadLine`) is disabled.  `EventPipeline` interleaves reporters, the relay, the
reader's loop line by line, and summaries.  The connection of a reporter in `MayBreak` may break at any time (`Break`): `sendLine`
fails from then on, the loop goes on, and `sent`, what the server has relayed, falls behind `next`.
A summary is three steps of the keyboard thread, which takes no lock: the command, the lookup in `events_map`, and
the copy with all that follows it on the copy (`Ask`, `FindEvents`, `Summarise`).  A step of the reader that changes what a step looks at
(`Races`) leaves it a choice: the client crashes, a lookup finds nobody, a copy is torn.

The constructor splits a line at every ':' and takes a value only if that leaves two pieces (`BodyValue`).

### ConnectionHandler, HandlerUsers, FrameChannel

`write_some` moves any part of what `sendBytes` has left, `getBytes` reads one byte as
`getFrameAscii` asks, and the network hands on any part of what it holds.  It may break and take bytes
in flight with it, and the kernel may take bytes for a broken connection.  `sent` and `got` are the lines for which
`sendLine` and `getLine` reached their end; with `broken` they are the variables of `FrameChannel`.
`ConnectionHandler` has the operations, `HandlerUsers` the programs that call them.  `main` is `"threads"`
for `StompClient`, whose two threads send and read side by side, or the place in the loop of the echo client,
where one thread does one after the other.

### StompCodec

A byte is a newline, a colon, the null byte or a word, which stands for a run of others.
`stream` is what is still to be decoded, and `decodeNextByte` takes one byte; `bytes` is the buffer
up to `len`.  The frames are written as `StompProtocol.cpp` writes them.

## The runs

| run | instance | question |
|---|---|---|
| `Personal` | thread per client; c1 as ann and c2 as bob, one channel, two subscription ids, lost updates; 3 and 4 frames | message ids, order, fan-out, answers, and the agreement of the two halves of a subscription, when clients have names of their own |
| `SharedName` | thread per client; both clients as ann, lost updates; c1 publishes and disconnects (3 frames), c2 sends any frame, also those that are refused and a wrong password (2 frames) | what holds even when two sessions share a User; every frame with a receipt is answered or the connection ends |
| `Pool` | 2 actors, 2 threads, the selector, 4 tasks, shutdown | mutual exclusion, no stranded task, implements `SerialActors` with its fairness |
| `Selector` | 2 connections; h1 publishes or errs (1 frame) and may go away, h2 listens | no lost wakeup; every frame is written |
| `CarefulUser` | 2 users, 2 channels, 6 commands, each typed when the last one's answers are processed, no channel joined twice; others publish up to 2 messages | the client when its threads have no reason to meet |
| `HastyUser` | 2 users, 2 channels, 4 commands at any time (a join without a channel among them), refusals, a server that dies, reports with ERROR in them, 1 message of others | ids, names on reports, receipts and messages whatever the timing and after undefined behaviour; logouts end |
| `Reports` | 2 reporters, each with any of 5 files of up to 2 events, one with a connection that may break; summaries at any time; 4 remarks that look like other lines | a report from file to summary; the constructor of `Event` from a body |
| `ByteStream` | 3 lines of 0 to 3 characters, a connection that may break, both programs | implements `FrameChannel` with its fairness; line and answer stay in step |
| `Codec` | streams of up to 3 frames of 4 kinds | what comes out is what went in |
| `DoubleLogin`, `SelectorDies`, `ReactorIds` | two clients that log in under one name; two connections on the reactor, one of which may err | a statement of a document or comment that the code breaks |

Why the bounds are enough.  A race in the registry needs two processes; three
frames are what it takes to log in, subscribe and publish (or unsubscribe, or disconnect), a
fourth is for the second id of a channel.  A subscriber set of two distinguishes an iterator at its
first, second and last element.  In `Pool` a second task of an actor meets the
`complete` of the first on another thread, a third waits in its queue, and the other
actor keeps a thread of its own busy; four tasks contain all three.  In `Selector`
one publish puts two frames into the same queue when the publisher is its own
subscriber, so that a full socket, a write that ends in the middle of the queue and
a frame that comes at each step of `continueWrite` all occur.  A hasty user needs four
commands for the window of the teardown: login, join, logout, and the next login or report that comes before the reader
is done; a careful one has six, so that the second session joins and reports too.  Two channels are
what it takes to share an id, two users to lose or keep a name.  Two events of one time make an unstable sort visible.  The descriptions
have 25, 26 and 27 characters and none, on both sides of the limit when two newlines have been added, and one city has a ':' in it.  A line of two characters can be cut in the text and before its delimiter, and the
answers "ba" and "bab" tell an exact "bye" from one with a character more; three
lines put one in the sender's hands, one on its way and one in the reader's.  Three frames give the
decoder a frame with headers, one without, and one more to show what they left behind.

All bounds: `MaxFrames` (frames each client sends) in `StompServer` and `Reactor`,
`MaxTasks` in `ActorThreadPool`, `MaxCommands` (commands typed) in `StompClient`,
`MaxMessages` (messages of a session at which others publish no more) in `ServerSession`, `MaxLines` in
`ConnectionHandler`, `MaxFrames` (frames of the stream) in `StompCodec`; reporters have one file each,
and a summary may be asked for at any time, as often as anybody likes.  They stand in the guards of the actions that
consume them, and nowhere else.  Deadlock is checked in every run but those of `EventPipeline`
and `StompCodec`, which end when all is reported or decoded; `Quiet`, `Rest`
and `Ended` are the states in which the system waits for a client or user.

Fairness.  `SharedName` asks for weak fairness of each connection's thread, which the
scheduler of the JVM gives: a step of a process is never disabled by another one
(nothing in the registry blocks).  Clients owe nothing.  `Pool` asks it of the pool's
threads and of a `submit` that has begun, as the code's threads run when they hold or
can take a monitor.  `Selector` asks it of the selector thread, of the tasks (that is
`EveryTaskRuns` of the pool) and of clients that read what they are sent: a client
that never reads keeps its frames in the queue for ever, and the code means it to.
`HastyUser` asks it of the two threads, which the scheduler runs, and of a server that
answers while it is up; the user need not type.  `Reports` asks it of the reader and of
each reporter, once it has a file.  `ByteStream` asks it of the threads, the network and the
peer; the network may break at any time, and nobody has to type.

What the passing runs show, beside their names in `StompServerProperties`:

* Message ids are unique; a subscriber gets one sender's messages in order and
  once; when the loop over a channel ends without an exception everybody in the
  set got the message; answers come in the order of the frames, and nothing but
  messages follows an ERROR.
* With names of their own, whatever `HashSet` updates are lost and whichever of its ids a connection gives up,
  a connection in a channel's set has an id for it but inside its own `subscribe`/`unsubscribe`, and the
  other way round; after `logout` nothing is left; a receipt for SUBSCRIBE is true.  Each but for a pair of connection and channel
  that is `torn`: its own last update of that set was lost, or was the UNSUBSCRIBE of one of two ids.  So the damage
  reaches no other connection and no other channel, and the next update repairs it.
* The write hand-over loses no wakeup: in the two windows of `continueWrite` (the
  queue found empty twice, then `OP_READ` set) a frame that comes in between has a
  task behind it in `selectorTasks` that sets both operations again.

* A careful user is safe: no interleaving is left in which the threads meet, and what
  the client believes of its channels, its user and its reports is true.
* A hasty one keeps four things, also after races that went unnoticed: no subscription id
  is ever used for two channels, a report never carries the name of another session (but none at all when a late
  teardown has cleared the name of a session it was not about), a logout ends on its own receipt, when everything sent before it has been
  processed, and no message of a session is missed or left over from the one before.
* Reports without a ':' in their description arrive as sent, by user and in order,
  whatever order two reporters' frames come in, and wherever a connection breaks; a summary that no report of its user has overtaken
  counts, lists and cuts exactly these.
* However bytes are cut up, `sendLine` and `getLine` are a channel of whole lines, and the echo
  client types a line only when the one before has its own answer.
* The decoder needs no reset: neither its buffer nor its current header reaches another frame,
  as long as every header line has exactly one ':'.

The departures.  Three have a run and an entry in `findings`, with the lines and quotations: two
connections log in under one user (`DoubleLogin`), two connections of the reactor are started with one id
(`ReactorIds`), as `connectIdCounter` is read in the first task and advanced by the selector thread, and the selector thread dies of a
CancelledKeyException when a connection's close task meets the selector at that connection's key
(`SelectorDies`).  The others have no run of their own; the models contain them, and a property that denies
one of them fails in the instance named here.

* In `SharedName`: MESSAGEs with subscription -1; a SEND that ends in a ConcurrentModificationException;
  a client that hangs up stays subscribed and logged in; a subscription lost in a `HashSet`.
* In `CarefulUser`, with `MayRefuse`: the keyboard thread sets `connectionHandler` back to null after a refused connection,
  when the reader may already be about to use it, so `ClientSurvives` fails.
* In `HastyUser`: a logout and a summary each race with the other thread; a join enters a channel of the last
  session; a login loses its name; join without a channel joins the last one; a report with ERROR in it ends
  the session; with `MayDie`, a server that closes the connection is not noticed, the handler stays.  With `"badDate"` among
  the `Texts`, the mutex stays locked and the reader hangs.
* In `Reports`: a summary that a report of its user overtakes may kill the client, find nobody or be torn; a report whose `sendLine`
  fails is skipped, and the loop goes on with the next.  With a ':' in a description the line is lost from it.  Dates in quotes, as in the examples, are
  refused; 26 characters are cut like 28; the unused constructor loses a city, name or user with a ':' in it, reads the description whole, and enters the line
  `description:` itself in general information, under `escription`.
* In `ByteStream`: the echo client drops the last character of an answer, so that it takes "byeX" for "bye" and
  ends of an empty answer with an exception.
* In `Codec`, with a header that has two colons: the decoder loses its first part.  The server's
  own frames (`StompFrame.toString`) have no blank line before the body; its own decoder would not read them.

Others need no interleaving to be seen: SEND and SUBSCRIBE without a
destination throw before the check that would answer them; the receipt of
DISCONNECT is sent before the logout; the user stays linked to the handler after
DISCONNECT; UNSUBSCRIBE of one of two ids for a channel silences both; after an
IOException `continueWrite` loops for ever.

## The proofs

TLAPS checks every step; the assumptions are the named ASSUMEs on the constants
(`NoneAssumption`, `ParameterAssumption`, `PoolAssumption`, `ReactorAssumption`,
`SessionAssumption`, `ClientAssumption`, `HandlerAssumption`, `CodecAssumption`, `FilesAssumption`,
`StringsAssumption`), which TLC evaluates on every run.  `StringsAssumption` is about strings, whose characters the
provers do not see: different dates have different digits, taking the `/` off a destination gives the channel back, a key
behind its tab is none of the known ones, and `trim` gives it back.

`StompServerProofs` proves `TypeCorrect`: `Spec => []TypeOK` for any number of
connections, names, channels, ids and frames.  TypeOK alone is not inductive:
`SubIdsOf(userOf[c], ...)` and `MapId(userOf[c], ...)` apply to a User, and nothing in
TypeOK says that c has one when it stands at such a step.  `Operands` says it: at
every step that uses them the frame has a channel, an id or a name, the
connection's handler has a User, `user` is one, and the name is in the map at `reuse`.
`Typed == TypeOK /\ Operands` is inductive because `userOf` and `users` only grow
(`Grows`) and a process changes no local variable of another (`OnlyLocal`);
`OthersOperands` carries the operands of the other connections over a step.  There is
one lemma for each operator of the registry (its type) and one for each group of
actions.

`ActorThreadPoolProofs` proves `TypeCorrect`, `MutualExclusion` and `NothingStranded`.
The invariant counts tokens: while the pool is open an actor that is playing has
exactly one of a queued job, a busy thread and a `submit` between its `playingNow.add` and
`execute` (`OneToken`), only the owner of a monitor stands in its critical section
(`Monitors`), and a task is pending only for an actor that is playing
(`NoneStranded`).

`SerialRefined` is the refinement of `SerialActors` without its fairness (the property `SerialExecution`).  An actor's queue in
the abstract executor is its job in the work queue, if it has one, and what is pending behind it (`InWorkQueue(a) \o pending[a]`); what it
runs is the `current` task of the thread that is busy with it.  By `OneToken` that job and that thread are the only ones, which is what
makes the mapping a function (`JobInQueue`, `RunningTask`).  `execute` and the
`add` to a pending queue are a Submit, for an actor at its first job has nothing pending (a job the executor rejects after `shutdownNow` shows
nothing).  A thread that takes a job is a Start, the end of a task a Finish.  The drain of `complete` moves the head of `pending` into the work queue,
where the mapping sees it still, or after a shutdown drops it.  Entering and leaving the monitor shows nothing.
`Runs` adds that a busy thread has a
task until it ends.

`StompServerSafety` proves `MessageIdsDistinct`, `SenderOrderKept` and `NobodyLeftOut`, with no assumption
on names or on the set of a channel.  The first two rest on `MailInv`, which says what the
processes hold that no MESSAGE shows yet.  For the ids: an id that was drawn and not
yet sent is below the counter (`UsedBelow`, `DrawnFresh`), in no MESSAGE, and in the hands
of one process (`DrawnDistinct`).  For the order: `Owed(c)` is the set of connections that
may yet get the message of the frame c processes, all of them before the loop begins and
the rest of the iterator afterwards; whatever a connection has got from c is from this
frame or an earlier one (`FromThePast`), from an earlier one if it is still owed
(`OwedIsNew`), and the iterator does not return the receiver again (`OwedOnce`).  Steps
outside the loop of `send` change none of this (`Calm`).  `NobodyLeftOut` (the property
`FanoutComplete`) rests on `FanInv`: while the iterator of a loop has noticed no change, each open
connection in the set is still to come, is the receiver in hand, or has the message (`Covered`).  A step of
another process either leaves the set alone or is noticed by the iterator (`Unnoticed`), and a connection
cannot be opened into a set a loop has already passed, since one that is not accepted yet is in no
set (`NewInNoSet`).

`StompServerProofs` also proves `NoGhosts`, `LogoutLeavesNothing`, `ReceiptIsTrue` and
`SubscriptionsDeliver` (the properties `NoGhostSubscription`, `LogoutForgets`, `ReceiptMeansSubscribed` and
`SubscriptionDelivers`) under `PersonalNames`, clients with names of their own, for any number of ids for a channel and with
updates of the `HashSet`s that racing ones lose.  Without `PersonalNames` they are
false: two sessions of one User write one map.  `FrameInv` says
that the frame in hand is one the client may send and belongs to the handler the process stands in,
`OwnerInv` that a connection's User was created by itself under its own name, so that no other process
writes its map.  `PairInv` relates the two halves through every window, up to what is `torn`: the id of a SUBSCRIBE is
free until it is mapped, and the set has the connection by then, or has lost it (`AddingAt`, `Reached`); what a process has yet to
leave is in `todo` (`LeavingAt`); a connection that is in a set and not torn has an id for it (`Ghost`, `NoGhostAt`), and
one with an id is reached but during the sweep of `logout` (`DeliveredAt`); nothing is there before the first login (`NothingBefore`).  An UNSUBSCRIBE that
leaves another id behind marks its pair (`OtherIds`).  Each step of a process
leaves the pairs of the others alone (`OthersPairs`) and keeps its own (`Agrees`); most change none at all (`Inert`).

`StompServerSafety` also proves `AnswersOrdered`, the property `AnswersInOrder`.  A
connection's answers are for frames so far (`ForThePast`); until the handler reaches its
answer they are for earlier frames, and at the receipt only CONNECTED may have come for
this one (`NoneYet`); a DISCONNECT gets an ERROR only if it asks for no receipt
(`OneForDisconnect`); and a connection that has got an ERROR has left the map, or is on
its way through the logout to `close` (`ErrorCloses`), where `send` begins to drop what is
for it.  All steps but three are a `Move` that answers nothing: the process receives a
frame, goes on before its answer, logs out or is done.  The three that answer,
`Connected`, `SendError` and `handleReceipt`, share `AnswerStep`.

`ReactorProofs` proves `TypeCorrect` and `NoWakeupLost`.  The types need `Links` and
`Counted`: the selector only handles keys of accepted connections, nothing refers to one
that was not accepted, its first task is the one that starts its protocol, and
`connectIdCounter` is the number of accepted connections but for one at the step before
`connectIdCounter++`; this is what keeps a task from using an id that is not there.
`WakeupInv` then says who sees to a frame (`Watched`), that a task in `selectorTasks` the
selector has not seen comes with a wakeup (`TasksAnnounced`), and that `register` meets a
key without operations (`NotYetRegistered`), so that it takes no `OP_WRITE` back.

`StompClientProofs` proves `TypeCorrect` for the client: any users, channels, commands and
bounds.  TypeOK is not inductive: a SUBSCRIBE carries `channelName`, which is `None` at first, and the server
enters it in `subs`.  `NamedInv` says that a command which needs a channel has one when it starts
(`CommandNamed`), that the SUBSCRIBE in the keyboard's hands names it until it is entered in `channels_map`
(`OutNamed`), and so does every SUBSCRIBE on its way (`QueueNamed`).

It also proves `SubscriptionIdsNeverShared` and `LogoutsAreGraceful`, both
through every step the undefined behaviour leaves possible.  `IdsInv` extends the ids in use
by the one of the SUBSCRIBE the keyboard thread holds (`PendingId`), and says that
all are below `subscription_Id`; every step but `JoinAt` moves ids between these places or drops
them, and `JoinAt` takes a known channel's own id or a fresh one.  `ReceiptsInv` orders receipts: those
the server has not read are increasing and below `receipt_Id` (`QueueOrdered`), answers in the socket
and in the reader's hands are below them (`AnswersBelow`), and the frame in the keyboard's hands
is above (`AskingAbove`).  So when the answer the reader compares is `logout_Id`, whatever is
still in the queue was asked for later.

`SummariesComplete` is `NothingMissed` for any number of messages, sessions and commands, with a server that may
refuse and may die, if `ReadableReports` holds: no report has a date that `std::stoi` refuses or a text with
`CONNECTED` in it.  `process` throws such a report away, and the property is false without the assumption; a text with `ERROR` in
it ends the session instead and is allowed.  `NothingMissed` says nothing of a client without a connection nor of one in the
middle of a teardown, and both are where the next session starts.  `LinkInv` says a socket is open only under a handler that is
not just being made, so no frame is in process while the user logs in; `StoreInv` that without a connection
nothing is stored once `events_map` is cleared, and that a session opened while the teardown of the last one
is still clearing has all its messages in the socket, where the clearing does not reach.  `ReportsInv` carries the
assumption, and the channel of every MESSAGE, from the command to the vector.

`ReportsAreSigned` is `ReportsSigned` for any user, server and reports: the name on a report is that of the
connection it goes out on, or, for a user who does not wait, none.  `loggedUser` is written by the keyboard thread when the CONNECT is out and cleared
by the reader at the end of a teardown, which a hasty user's next login may overtake.  `Signed` follows the name from the command
(`LoggingIn`) to `loggedUser`, to the frame in the keyboard's hands (`Sending`) and to the queue.  That the name is not missing
for a careful user needs `WaitingInv`: a command starts with nothing on its way to the server (`OneAtATime`), and the teardown of the last session is
over before a socket opens (`TornDownAlone`).

The other two theorems about the client are for a user who waits for the answers and joins no channel twice (`Careful`).

`CarefulChannelsAgree` is `ChannelsAgree`, the client's `channels_map` and the server's table, with a server that may refuse a login or die, if no
report has `ERROR` in it (`NoErrorReports`): `process` takes a text with that word for an ERROR and ends the session while the server
still has the subscriptions, and TLC finds the property false then.  `TablesInv` equates the two tables through
every window: what the server will have once it has read its queue (`ToBeSubs`) is what the client will have once its
hands are empty (`ToBeNoted`).  That holds only if nothing the careful user sends is refused (`AcceptedInv`), and if no frame
ends the session under a command: `CalmInv` says none is on its way while one runs, `LogoutInv` that the only one that
may come is the receipt of a DISCONNECT that is still expected, and `ErrorsClose` that an ERROR of the server comes with the end of the socket.

`CarefulClientSurvives` is `ClientSurvives` if also no login is refused (`NoRefusals`) and no summary is asked for
(`NoSummaries`).  Both are needed: a refused login resets the handler the reader holds, and a summary iterates over the vectors
the reader inserts into; TLC finds a crash without either, and without each of the other two hypotheses.  `HandlerInv` says that the reader's
pointer is the handler of the session whenever it dereferences one, and that the keyboard drops no handler; the
reader's own reset comes when the keyboard is at its prompt, by `CalmInv`.

`HandlerProofs` proves `TypeCorrect`, `LinesAreWhole` and `StaysInStep` for any alphabet, any lines and any
number of them.  `Typed` adds to TypeOK that the bytes a sender has left are text, or the one
delimiter (`Sender`).  `FlowInv` is about all bytes that are on their way: some sequence F begins with the part of a
line the reader has, then come the bytes in the socket and those at the peer (`Carried`), and F is the
lines that were sent and not yet read, each with its delimiter at a cut, and then text without one (`Stream`).
While the connection lasts nothing of F is lost, and its end is what the sender has written of its
line (`Whole`); a break takes bytes off the end of what is carried, and F may stay longer than that.  Each operation changes
F in one place: `write_some` puts text or a delimiter behind it (`StreamText`, `StreamLine`), `getFrameAscii` at a
delimiter takes the first line off it (`FirstDelimiter`, `StreamTail`), all others leave it alone.  So the line that is
returned is the next one that was sent, which is the step `GetLine` of `FrameChannel`.  For the echo client `LoopInv` counts
the lines begun, sent and answered at each place of the loop; when they are equal F is empty, and so is the wire.

`StompCodecProofs` proves `FramesComeOut`, the property `RoundTrip`, for any number of frames of any length.  The hypothesis `ReadableFrames` says
what the decoder can read: a command, names and values without the delimiter that ends them, names that differ, no empty value, a body
without the null byte.  It is no idle one: a second colon, an empty value and a repeated name each lose data.  TLC evaluates it for the frames of
the run (`ClientFramesReadable`).  `CodecInv` says where the decoder stands: in a command, a name, a value, behind
the headers, in a body, or at the end (`InCommand`, `InName`, `InValue`, `BehindHeaders`, `InBody`, `AllRead`).  At each place the stream is the rest of the
piece in hand, its delimiter and what follows, and the buffer with that rest is the piece.  The stream is a `FlattenSeq`, so the proof
needs that its first piece can be taken off (`FlattenCons`).  The library defines it by a recursive function, whose
existence we get by induction over a set of numbers, the least number outside it being contradictory (`SetInduction`); no operator is passed to a theorem.

`EventPipelineProofs` proves the three safety properties of events, for any users, files and descriptions of any length.
`ConstructorReadsHolds` has no hypothesis; the property itself leaves out a user, city or name with a ':'.  `ReportsArriveHolds` and `SummaryFaithfulHolds` assume `PlainDescriptions`, no ':'
in a description, without which both are false: `processMessageFrame` takes such a line for a field or for general
information.  TLC evaluates it for the files of the run (`FilesArePlain`).
The proof first lays a frame out (`Framed`, `Laid`): the four lines of the header, the five fields, one line for each key of
general information the event has, and its text.  `Parsed` says what the parser has at each line of it: in the first
nine the fields read so far, then the general information of the lines so far (`InfoRead`), then a prefix of the text.
`ParseStep` takes it from one line to the next and `ReadAs` is its end.  That needs
the reader's cases to exclude each other, so what `ParseLine` and `BodyLine` do with a parser that has thrown stands
before the cases.
The inductive invariant is `IInv`.  `Reporting` is about the reporters: `next` is within the events, which are not touched once
one is sent.  `Relaying` counts what a connection has relayed: all that was sent while it stands, some first reports afterwards.
`Arriving` is about the connection (`Flowing`): every frame on the socket is that of some report, user by user
the reports after the one the reader took last and up to `sent`, in order and without a gap (`Queued`); the process is somewhere in
the frame of the report after those kept (`Processing`); and what is kept of a user was read of the first
reports (`KeptOf`).
A summary is computed from a permutation of what is kept (`Orders`), so each of its counts
is the number of events in a set of positions (`SumCounts`, `CountOne`), and a permutation keeps that number (`Permuted`).  `Asking` says that what
is copied was found in the map.  `SummaryRight` carries the result over later
steps: more may be sent, but what was summarised stays.
A constructed event is the last value of a recursive function over the lines of the body: its value is fixed by induction
over a set of numbers (`ReadingExists`, `BuildAll`).

Left to TLC: liveness under fairness (`EveryFrameAnswered`, `EveryTaskRuns`, `EveryFrameWritten`,
`LogoutCompletes`, `AllReported`, `AnswersCome`) and with it the fairness in the two refinements, which are
out of the prover's reach; and the three properties that runs show violated.  Every invariant that a passing run checks is
proved, those that need a hypothesis under it.

## Not modelled, and what could come next

* `json.hpp` (nlohmann/json, vendored in one header of 24640 lines): third-party code; its use is `Convertible`
  and `InfoOf`.  It is most of the lines of the repository.
* `StompServer.java` picks a server by its argument ; the interfaces in `api` and `srv`
  have no behaviour of their own.
* Blocking writes of the thread-per-client server: a slow client holds up whoever sends to it.
* Formatting of logs and of local time (`epochToDate`), charsets, the growth of buffers, and the sockets' inner
  workings beyond what `ConnectionHandler` says of them.

* The protocol handlers under the shared ids of the reactor (`PersonalId`).

If the development goes on: an abstract specification of the channels (a SEND reaches, once, those who
were subscribed throughout) with `StompServer` shown to implement it.

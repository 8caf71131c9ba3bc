------------------------------- MODULE Reactor -------------------------------
(***************************************************************************)
(* The reactor: one selector thread accepts connections, reads their bytes *)
(* and writes their frames; the threads of the pool process what was read, *)
(* one task at a time for each connection, in order (ActorThreadPool).     *)
(* A thread of the pool asks the selector thread to write through the write*)
(* queue of a NonBlockingConnectionHandler, the queue selectorTasks and    *)
(* wakeup.                                                                 *)
(*                                                                         *)
(* What the frames mean is module StompServer's.  Here a frame from a      *)
(* client makes its task send a MESSAGE to a connection and a RECEIPT to   *)
(* its own ("publish"), or an ERROR, and close the connection ("bad").     *)
(* A frame is the unit of reading and writing: chan.write takes one whole  *)
(* frame when the client has read the last one, and nothing otherwise.     *)
(***************************************************************************)
EXTENDS Naturals, Sequences, FiniteSets

CONSTANTS
  Handler,     \* the connections, each with its handler and its client
  None,
  Sends,       \* the frames each client may send
  MaxFrames,   \* bound on the frames each client sends
  MayLeave     \* the clients that may go away

Inputs  == {"publish", "bad"}
Work    == Inputs \cup {"receipt"}
Reply   == [publish |-> "MESSAGE", receipt |-> "RECEIPT", bad |-> "ERROR"]
Outputs == {"MESSAGE", "RECEIPT", "ERROR"}
Ops     == {"READ", "WRITE"}
ConnId  == 0 .. Cardinality(Handler)

ASSUME ReactorAssumption ==
  /\ IsFiniteSet(Handler) /\ None \notin Handler \cup ConnId
  /\ Sends \in [Handler -> SUBSET Inputs]
  /\ MaxFrames \in Nat
  /\ MayLeave \subseteq Handler

VARIABLES
  \* the selector thread
  spc,            \* where it stands
  cur,            \* the handler whose key it handles
  selected,       \* the ready operations of the keys select returned
  selectorTasks,  \* handlers whose key is to get READ and WRITE; None: no key
  woken,          \* wakeup was called since the last select
  connectIdCounter,
  \* the handlers
  open,           \* the channel is open
  interest,       \* the operations its key is registered for, {} before that
  writeQueue,
  terminated,     \* protocol.shouldTerminate
  \* the pool, and the part of ConnectionsImpl that finds a handler
  tasks,          \* the tasks of each handler that have not begun
  ppc,            \* where the task of each handler stands
  todo,           \* the frames it has yet to process
  dest,           \* the handler it sends a frame to
  myId,           \* the id the handler's protocol was started with
  clients,        \* connection id -> handler
  \* the clients
  peer, sent, inbox,
  full            \* a written frame the client has not read

selVars    == <<spc, cur, selected, woken, connectIdCounter>>
chanVars   == <<open, interest>>
poolVars   == <<ppc, todo, dest, myId, clients>>
clientVars == <<peer, sent, inbox, full>>
vars == <<selVars, selectorTasks, chanVars, writeQueue, terminated, tasks,
          poolVars, clientVars>>

TaskOf == [kind : {"start", "read", "close"}, frames : Seq(Inputs)]

TypeOK ==
  /\ spc \in {"tasks", "keys", "count", "register", "readable",
              "writable", "ready", "write", "check", "decide", "dead"}
  /\ cur \in Handler \cup {None}
  /\ selected \in [Handler -> SUBSET (Ops \cup {"ACCEPT"})]
  /\ selectorTasks \in Seq(Handler \cup {None})
  /\ woken \in BOOLEAN
  /\ connectIdCounter \in ConnId
  /\ open \in [Handler -> BOOLEAN]
  /\ interest \in [Handler -> SUBSET Ops]
  /\ writeQueue \in [Handler -> Seq(Outputs)]
  /\ terminated \in [Handler -> BOOLEAN]
  /\ tasks \in [Handler -> Seq(TaskOf)]
  /\ ppc \in [Handler -> {"rest", "addConnection", "send", "update", "wakeup",
                          "closeConnection", "terminate"}]
  /\ todo \in [Handler -> Seq(Work)]
  /\ dest \in [Handler -> Handler \cup {None}]
  /\ myId \in [Handler -> ConnId \cup {None}]
  /\ clients \in [ConnId -> Handler \cup {None}]
  /\ peer \in [Handler -> {"none", "waiting", "here", "gone"}]
  /\ sent \in [Handler -> 0..MaxFrames]
  /\ inbox \in [Handler -> Seq(Inputs)]
  /\ full \in [Handler -> BOOLEAN]

Init ==
  /\ spc = "keys" /\ cur = None
  /\ selected = [h \in Handler |-> {}]
  /\ selectorTasks = <<>> /\ woken = FALSE /\ connectIdCounter = 0
  /\ open = [h \in Handler |-> FALSE]
  /\ interest = [h \in Handler |-> {}]
  /\ writeQueue = [h \in Handler |-> <<>>]
  /\ terminated = [h \in Handler |-> FALSE]
  /\ tasks = [h \in Handler |-> <<>>]
  /\ ppc = [h \in Handler |-> "rest"]
  /\ todo = [h \in Handler |-> <<>>]
  /\ dest = [h \in Handler |-> None]
  /\ myId = [h \in Handler |-> None]
  /\ clients = [i \in ConnId |-> None]
  /\ peer = [h \in Handler |-> "none"]
  /\ sent = [h \in Handler |-> 0]
  /\ inbox = [h \in Handler |-> <<>>]
  /\ full = [h \in Handler |-> FALSE]

-----------------------------------------------------------------------------
(* The selector thread: select, selectorTasks, the selected keys *)

Step(from, to) == spc = from /\ spc' = to

\* The operations a select would report for the key of h.
Ready(h) ==
  IF peer[h] = "waiting" THEN {"ACCEPT"}
  ELSE {op \in interest[h] :
          /\ open[h]
          /\ \/ peer[h] = "gone"
             \/ op = "READ" /\ inbox[h] # <<>>
             \/ op = "WRITE" /\ ~full[h]}

\* The loop over the selected keys is over.
KeysDone == spc = "keys" /\ \A h \in Handler : selected[h] = {}

\* select returns when it was woken up or a key is ready.
Select ==
  /\ KeysDone /\ spc' = "tasks"
  /\ \/ woken
     \/ \E h \in Handler : Ready(h) # {}
  /\ woken' = FALSE
  /\ selected' = [h \in Handler |-> Ready(h)]
  /\ UNCHANGED <<cur, connectIdCounter, selectorTasks, chanVars, writeQueue,
                 terminated, tasks, poolVars, clientVars>>

\* runSelectionThreadTasks: key.interestOps throws when there is no key, and
\* when its channel has been closed.
Valid(h) == h # None /\ open[h]

RunTask ==
  /\ selectorTasks # <<>>
  /\ selectorTasks' = Tail(selectorTasks)
  /\ LET h == Head(selectorTasks) IN
       \/ /\ Valid(h) /\ Step("tasks", "tasks")
          /\ interest' = [interest EXCEPT ![h] = Ops]
       \/ ~Valid(h) /\ Step("tasks", "dead") /\ interest' = interest
  /\ UNCHANGED <<cur, selected, woken, connectIdCounter, open, writeQueue,
                 terminated, tasks, poolVars, clientVars>>

TasksDone ==
  /\ selectorTasks = <<>> /\ Step("tasks", "keys")
  /\ UNCHANGED <<cur, selected, woken, connectIdCounter, selectorTasks, chanVars,
                 writeQueue, terminated, tasks, poolVars, clientVars>>

\* The next key of the set, in any order; one that is not valid is skipped.
NextKey(h) ==
  /\ selected[h] \cap Ops # {}
  /\ \/ open[h] /\ Step("keys", "readable") /\ cur' = h /\ selected' = selected
     \/ /\ ~open[h] /\ Step("keys", "keys") /\ cur' = cur
        /\ selected' = [selected EXCEPT ![h] = {}]
  /\ UNCHANGED <<woken, connectIdCounter, selectorTasks, chanVars, writeQueue,
                 terminated, tasks, poolVars, clientVars>>

\* handleAccept, once for the key of the server socket: the task is submitted,
\* the counter goes up, the channel is registered.
handleAccept(h) ==
  /\ "ACCEPT" \in selected[h] /\ Step("keys", "count") /\ cur' = h
  /\ selected' = [g \in Handler |-> selected[g] \ {"ACCEPT"}]
  /\ peer' = [peer EXCEPT ![h] = "here"]
  /\ open' = [open EXCEPT ![h] = TRUE]
  /\ tasks' = [tasks EXCEPT ![h] = Append(@, [kind |-> "start", frames |-> <<>>])]
  /\ UNCHANGED <<woken, connectIdCounter, selectorTasks, interest, writeQueue,
                 terminated, poolVars, sent, inbox, full>>

CountConnection ==
  /\ Step("count", "register")
  /\ connectIdCounter' = connectIdCounter + 1
  /\ UNCHANGED <<cur, selected, woken, selectorTasks, chanVars, writeQueue,
                 terminated, tasks, poolVars, clientVars>>

Register ==
  /\ Step("register", IF open[cur] THEN "keys" ELSE "dead") /\ cur' = None
  /\ interest' = [interest EXCEPT ![cur] = {"READ"}]
  /\ UNCHANGED <<selected, woken, connectIdCounter, selectorTasks, open,
                 writeQueue, terminated, tasks, poolVars, clientVars>>

-----------------------------------------------------------------------------
(* handleReadWrite, continueRead and continueWrite *)

KeyDone ==
  /\ spc' = "keys" /\ cur' = None
  /\ selected' = [selected EXCEPT ![cur] = {}]

OnKey(pc) == spc' = pc /\ UNCHANGED <<cur, selected>>

\* Mutant: at the end of the stream the null task is submitted as well.
SubmitNull ==
  \/ /\ inbox[cur] # <<>> /\ open' = open
     /\ tasks' = [tasks EXCEPT ![cur] =
                    Append(@, [kind |-> "read", frames |-> inbox[cur]])]
     /\ inbox' = [inbox EXCEPT ![cur] = <<>>]
  \/ /\ inbox[cur] = <<>> /\ open' = [open EXCEPT ![cur] = FALSE]
     /\ tasks' = [tasks EXCEPT ![cur] = Append(@, None)] /\ inbox' = inbox

\* continueRead and submit; the end of the stream closes the channel.
continueRead ==
  \/ /\ inbox[cur] # <<>> /\ open' = open
     /\ tasks' = [tasks EXCEPT ![cur] =
                    Append(@, [kind |-> "read", frames |-> inbox[cur]])]
     /\ inbox' = [inbox EXCEPT ![cur] = <<>>]
  \/ /\ inbox[cur] = <<>> /\ open' = [open EXCEPT ![cur] = FALSE]
     /\ UNCHANGED <<tasks, inbox>>

\* The first look at the ready operations throws when the channel has been
\* closed since isValid.
Readable ==
  /\ spc = "readable"
  /\ \/ ~open[cur] /\ OnKey("dead") /\ UNCHANGED <<open, tasks, inbox>>
     \/ /\ open[cur] /\ "READ" \notin selected[cur] /\ OnKey("writable")
        /\ UNCHANGED <<open, tasks, inbox>>
     \/ /\ open[cur] /\ "READ" \in selected[cur] /\ OnKey("writable")
        /\ continueRead
  /\ UNCHANGED <<woken, connectIdCounter, selectorTasks, interest, writeQueue,
                 terminated, poolVars, peer, sent, full>>

\* The key is looked at again, in two calls: isValid, then isWritable, which
\* throws when the channel has been closed in between.
StillValid ==
  /\ spc = "writable"
  /\ \/ open[cur] /\ OnKey("ready")
     \/ ~open[cur] /\ KeyDone
  /\ UNCHANGED <<woken, connectIdCounter, selectorTasks, chanVars, writeQueue,
                 terminated, tasks, poolVars, clientVars>>

Writable ==
  /\ spc = "ready"
  /\ \/ ~open[cur] /\ OnKey("dead")
     \/ open[cur] /\ "WRITE" \in selected[cur] /\ OnKey("write")
     \/ open[cur] /\ "WRITE" \notin selected[cur] /\ KeyDone
  /\ UNCHANGED <<woken, connectIdCounter, selectorTasks, chanVars, writeQueue,
                 terminated, tasks, poolVars, clientVars>>

\* One round of the loop of continueWrite.  After an IOException the loop
\* goes on, with a closed channel and the same frame at the head.  A client
\* that is gone may be noticed at any write.
WriteFrame ==
  /\ spc = "write" /\ writeQueue[cur] # <<>>
  /\ \/ /\ ~open[cur] \/ peer[cur] = "gone"
        /\ OnKey("write") /\ open' = [open EXCEPT ![cur] = FALSE]
        /\ UNCHANGED <<writeQueue, full>>
     \/ /\ open[cur] /\ full[cur] /\ KeyDone
        /\ UNCHANGED <<open, writeQueue, full>>
     \/ /\ open[cur] /\ ~full[cur] /\ OnKey("write") /\ open' = open
        /\ writeQueue' = [writeQueue EXCEPT ![cur] = Tail(@)]
        /\ full' = [full EXCEPT ![cur] = TRUE]
  /\ UNCHANGED <<woken, connectIdCounter, selectorTasks, interest, terminated,
                 tasks, poolVars, peer, sent, inbox>>

WritesDone ==
  /\ spc = "write" /\ writeQueue[cur] = <<>> /\ OnKey("check")
  /\ UNCHANGED <<woken, connectIdCounter, selectorTasks, chanVars, writeQueue,
                 terminated, tasks, poolVars, clientVars>>

\* The second look at the queue: a frame may have come since.
CheckEmpty ==
  /\ spc = "check"
  /\ \/ writeQueue[cur] = <<>> /\ OnKey("decide")
     \/ writeQueue[cur] # <<>> /\ KeyDone
  /\ UNCHANGED <<woken, connectIdCounter, selectorTasks, chanVars, writeQueue,
                 terminated, tasks, poolVars, clientVars>>

Decide ==
  /\ spc = "decide"
  /\ \/ /\ terminated[cur] /\ KeyDone
        /\ open' = [open EXCEPT ![cur] = FALSE] /\ interest' = interest
     \/ /\ ~terminated[cur] /\ open[cur] /\ KeyDone
        /\ interest' = [interest EXCEPT ![cur] = {"READ"}] /\ open' = open
     \/ /\ ~terminated[cur] /\ ~open[cur] /\ OnKey("dead")
        /\ UNCHANGED chanVars
  /\ UNCHANGED <<woken, connectIdCounter, selectorTasks, writeQueue, terminated,
                 tasks, poolVars, clientVars>>

-----------------------------------------------------------------------------
(* The tasks of a handler, on threads of the pool *)

Go(p, from, to) == ppc[p] = from /\ ppc' = [ppc EXCEPT ![p] = to]

\* execute takes the first task of the handler, once its last one is over.
Takes(p, kind) ==
  /\ ppc[p] = "rest" /\ todo[p] = <<>>
  /\ tasks[p] # <<>> /\ Head(tasks[p]).kind = kind
  /\ tasks' = [tasks EXCEPT ![p] = Tail(@)]

\* The task of handleAccept reads connectIdCounter twice, when it runs.
Start(p) ==
  /\ Takes(p, "start") /\ Go(p, "rest", "addConnection")
  /\ myId' = [myId EXCEPT ![p] = connectIdCounter]
  /\ UNCHANGED <<selVars, selectorTasks, chanVars, writeQueue, terminated, todo,
                 dest, clients, clientVars>>

addConnection(p) ==
  /\ Go(p, "addConnection", "rest")
  /\ clients' = [clients EXCEPT ![connectIdCounter] = p]
  /\ UNCHANGED <<selVars, selectorTasks, chanVars, writeQueue, terminated, tasks,
                 todo, dest, myId, clientVars>>

\* The task of continueRead, with the frames of its buffer.
Decode(p) ==
  /\ Takes(p, "read") /\ todo' = [todo EXCEPT ![p] = Head(tasks[p]).frames]
  /\ UNCHANGED <<selVars, selectorTasks, chanVars, writeQueue, terminated, ppc,
                 dest, myId, clients, clientVars>>

\* The task of closeConnection.
close(p) ==
  /\ Takes(p, "close") /\ open' = [open EXCEPT ![p] = FALSE]
  /\ UNCHANGED <<selVars, selectorTasks, interest, writeQueue, terminated,
                 poolVars, clientVars>>

\* What is published goes to the id of a connection that has sent a frame,
\* everything else to the sender's own id.
Receivers(p) ==
  IF Head(todo[p]) = "publish"
  THEN {clients[myId[h]] :
          h \in {g \in Handler : myId[g] # None /\ interest[g] # {}}} \ {None}
  ELSE {clients[myId[p]]} \ {None}

\* The work that is left when the first frame, or its part, is done.
Remaining(p) ==
  (IF Head(todo[p]) = "publish" THEN <<"receipt">> ELSE <<>>) \o Tail(todo[p])

\* The next frame of the buffer: it is sent to a receiver, or there is none.
process(p) ==
  /\ ppc[p] = "rest" /\ todo[p] # <<>>
  /\ \/ \E h \in Receivers(p) : Go(p, "rest", "send")
          /\ dest' = [dest EXCEPT ![p] = h] /\ todo' = todo
     \/ /\ Head(todo[p]) = "publish" \/ Receivers(p) = {}
        /\ Head(todo[p]) # "bad" /\ ppc' = ppc
        /\ todo' = [todo EXCEPT ![p] = Remaining(p)] /\ dest' = dest
     \/ /\ Head(todo[p]) = "bad" /\ Receivers(p) = {}
        /\ Go(p, "rest", "closeConnection") /\ UNCHANGED <<todo, dest>>
  /\ UNCHANGED <<selVars, selectorTasks, chanVars, writeQueue, terminated, tasks,
                 myId, clients, clientVars>>

\* send, its three calls: writeQueue.add, selectorTasks.add, wakeup.  A channel
\* that is not registered yet has no key.
send(p) ==
  /\ Go(p, "send", "update")
  /\ writeQueue' = [writeQueue EXCEPT ![dest[p]] =
                      Append(@, Reply[Head(todo[p])])]
  /\ UNCHANGED <<selVars, selectorTasks, chanVars, terminated, tasks, todo, dest,
                 myId, clients, clientVars>>

\* Mutant: the thread of the pool sets the interest itself.
SetInterest(p) ==
  /\ Go(p, "update", "wakeup")
  /\ interest' = [interest EXCEPT ![dest[p]] = Ops]
  /\ UNCHANGED <<selVars, selectorTasks, open, writeQueue, terminated, tasks, todo,
                 dest, myId, clients, clientVars>>

updateInterestedOps(p) ==
  /\ Go(p, "update", "wakeup")
  /\ selectorTasks' = Append(selectorTasks,
                       IF interest[dest[p]] = {} THEN None ELSE dest[p])
  /\ UNCHANGED <<selVars, chanVars, writeQueue, terminated, tasks, todo, dest, myId,
                 clients, clientVars>>

\* send returns: the frame is done, or the connection is closed next.
Sent(p) ==
  /\ ppc[p] = "wakeup"
  /\ dest' = [dest EXCEPT ![p] = None]
  /\ \/ /\ Head(todo[p]) = "bad"
        /\ Go(p, "wakeup", "closeConnection") /\ todo' = todo
     \/ /\ Head(todo[p]) # "bad" /\ Go(p, "wakeup", "rest")
        /\ todo' = [todo EXCEPT ![p] = Remaining(p)]
  /\ UNCHANGED <<spc, cur, selected, connectIdCounter, selectorTasks, chanVars,
                 writeQueue, terminated, tasks, myId, clients, clientVars>>

\* Mutant: no wakeup.
NoWakeup(p) == Sent(p) /\ woken' = woken

wakeup(p) == Sent(p) /\ woken' = TRUE

\* The handler is taken from the map and told to close; there is none when
\* an earlier frame has closed the connection: NullPointerException.
closeConnection(p) ==
  /\ ppc[p] = "closeConnection"
  /\ LET h == clients[myId[p]] IN
       IF h = None
       THEN /\ Go(p, "closeConnection", "rest")
            /\ todo' = [todo EXCEPT ![p] = <<>>] /\ UNCHANGED <<tasks, clients>>
       ELSE /\ Go(p, "closeConnection", "terminate")
            /\ tasks' = [tasks EXCEPT ![h] =
                           Append(@, [kind |-> "close", frames |-> <<>>])]
            /\ clients' = [clients EXCEPT ![myId[p]] = None]
            /\ todo' = todo
  /\ UNCHANGED <<selVars, selectorTasks, chanVars, writeQueue, terminated, dest,
                 myId, clientVars>>

Terminate(p) ==
  /\ Go(p, "terminate", "rest")
  /\ terminated' = [terminated EXCEPT ![p] = TRUE]
  /\ todo' = [todo EXCEPT ![p] = Tail(@)]
  /\ UNCHANGED <<selVars, selectorTasks, chanVars, writeQueue, tasks, dest, myId,
                 clients, clientVars>>

-----------------------------------------------------------------------------
(* The clients *)

ServerUnchanged ==
  UNCHANGED <<selVars, selectorTasks, chanVars, writeQueue, terminated, tasks,
              poolVars>>

Connect(h) ==
  /\ peer[h] = "none" /\ peer' = [peer EXCEPT ![h] = "waiting"]
  /\ ServerUnchanged /\ UNCHANGED <<sent, inbox, full>>

Transmit(h) ==
  /\ peer[h] = "here" /\ sent[h] < MaxFrames
  /\ \E f \in Sends[h] : inbox' = [inbox EXCEPT ![h] = Append(@, f)]
  /\ sent' = [sent EXCEPT ![h] = @ + 1]
  /\ ServerUnchanged /\ UNCHANGED <<peer, full>>

Drain(h) ==
  /\ peer[h] = "here" /\ full[h] /\ full' = [full EXCEPT ![h] = FALSE]
  /\ ServerUnchanged /\ UNCHANGED <<peer, sent, inbox>>

GoAway(h) ==
  /\ h \in MayLeave /\ peer[h] = "here" /\ peer' = [peer EXCEPT ![h] = "gone"]
  /\ \E rest \in {inbox[h], <<>>} : inbox' = [inbox EXCEPT ![h] = rest]
  /\ ServerUnchanged /\ UNCHANGED <<sent, full>>

-----------------------------------------------------------------------------
Selecting ==
  \/ Select \/ RunTask \/ TasksDone \/ CountConnection \/ Register
  \/ Readable \/ StillValid \/ Writable \/ WriteFrame \/ WritesDone \/ CheckEmpty \/ Decide
  \/ \E h \in Handler : NextKey(h) \/ handleAccept(h)

Task(p) ==
  \/ Start(p) \/ addConnection(p) \/ Decode(p) \/ close(p) \/ process(p)
  \/ send(p) \/ updateInterestedOps(p) \/ wakeup(p) \/ closeConnection(p)
  \/ Terminate(p)

Client(h) == Connect(h) \/ Transmit(h) \/ Drain(h) \/ GoAway(h)

\* Nothing is left to do until a client does something.
Quiet ==
  /\ \/ spc = "dead"
     \/ KeysDone /\ ~woken /\ \A h \in Handler : Ready(h) = {}
  /\ \A h \in Handler : ppc[h] = "rest" /\ todo[h] = <<>> /\ tasks[h] = <<>>
  /\ UNCHANGED vars

Next == Selecting \/ Quiet \/ \E h \in Handler : Task(h) \/ Client(h)

Spec == Init /\ [][Next]_vars

\* The selector thread and the tasks of the pool are scheduled, and clients
\* read what they are sent.
FairSpec ==
  /\ Spec
  /\ WF_vars(Selecting)
  /\ \A h \in Handler : WF_vars(Task(h)) /\ WF_vars(Drain(h))

-----------------------------------------------------------------------------
(* Properties *)

\* A frame in a write queue is never forgotten by the selector: its key wants
\* to write and the selector is not about to take that back, or a task that
\* sets it is in selectorTasks, or the thread that added the frame is about to
\* add that task.  And select never sleeps on such a task.
NoLostWakeup ==
  /\ \A h \in Handler : open[h] /\ writeQueue[h] # <<>> =>
       \/ "WRITE" \in interest[h] /\ ~(spc = "decide" /\ cur = h)
       \/ \E i \in DOMAIN selectorTasks : selectorTasks[i] \in {h, None}
       \/ \E p \in Handler : ppc[p] = "update" /\ dest[p] = h
       \/ spc = "dead"
  /\ KeysDone /\ selectorTasks # <<>> =>
       \/ woken
       \/ \E p \in Handler : ppc[p] = "wakeup"

\* As long as no connection ends and the selector thread lives, every frame
\* that is queued is written.
Over == \/ spc = "dead"
        \/ \E h \in Handler : peer[h] = "gone" \/ (myId[h] # None /\ ~open[h])

EveryFrameWritten == \A h \in Handler :
  writeQueue[h] # <<>> ~> writeQueue[h] = <<>> \/ Over

\* The id a protocol is started with is the connection's own: no two handlers
\* are given one id.  The task of handleAccept reads the counter when it runs.
PersonalId == \A g, h \in Handler : g # h /\ myId[g] # None => myId[g] # myId[h]

\* The main loop goes on handling clients whatever one of them does.
SelectorSurvives == spc # "dead"
=============================================================================

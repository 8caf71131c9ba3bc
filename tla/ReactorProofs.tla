---------------------------- MODULE ReactorProofs ----------------------------
(***************************************************************************)
(* The reactor, for any number of connections: its types, and that no      *)
(* frame is left in a write queue without somebody who will see to it.     *)
(***************************************************************************)
EXTENDS Reactor, FiniteSetTheorems, SequenceTheorems, TLAPS

Accepted == {h \in Handler : peer[h] \in {"here", "gone"}}

KeySteps == {"count", "register", "readable", "writable", "ready", "write",
             "check", "decide"}

\* The selector thread handles keys of accepted connections.
KeyInHand == spc \in KeySteps => cur \in Accepted

Selection == \A h \in Handler :
  /\ "ACCEPT" \in selected[h] => peer[h] = "waiting"
  /\ selected[h] \cap Ops # {} => h \in Accepted

\* Every accepted connection has been counted, but for one at "count".
Counted ==
  connectIdCounter + (IF spc = "count" THEN 1 ELSE 0) = Cardinality(Accepted)

\* Nothing refers to a connection that has not been accepted.
Untouched == \A h \in Handler \ Accepted :
  /\ ~open[h] /\ interest[h] = {} /\ writeQueue[h] = <<>>
  /\ tasks[h] = <<>>
  /\ myId[h] = None
  /\ \A i \in ConnId : clients[i] # h
  /\ \A p \in Handler : dest[p] # h

\* The first task of a connection is the one that starts its protocol.
StartFirst == \A h \in Accepted :
  myId[h] = None => tasks[h] # <<>> /\ Head(tasks[h]).kind = "start"

\* What a task needs at its steps.
TaskOperands == \A p \in Handler :
  /\ ppc[p] \in {"send", "update"} => dest[p] \in Handler
  /\ ppc[p] \notin {"rest", "addConnection"} => todo[p] # <<>>
  /\ todo[p] # <<>> \/ ppc[p] = "addConnection" => myId[p] \in ConnId

Links == KeyInHand /\ Selection /\ Untouched /\ StartFirst /\ TaskOperands

Typed == TypeOK /\ Counted /\ Links

-----------------------------------------------------------------------------
(* Sequences and cardinalities *)

\* Appending to a queue does not change what is first in it.
LEMMA AppendFirst ==
  ASSUME NEW S, NEW s \in Seq(S), NEW e \in S
  PROVE  /\ Append(s, e) \in Seq(S) /\ Append(s, e) # <<>>
         /\ Head(Append(s, e)) = IF s = <<>> THEN e ELSE Head(s)
<1>1. Append(s, e) \in Seq(S) /\ Append(s, e) # <<>>
  BY AppendProperties
<1>2. CASE s = <<>>
  BY <1>1, <1>2
<1>3. CASE s # <<>>
  <2>1. Len(s) \in Nat /\ Len(s) > 0
    BY <1>3, LenProperties, EmptySeq
  <2>2. Append(s, e)[1] = s[1]
    BY <2>1, AppendProperties
  <2> QED
    BY <1>1, <1>3, <2>2, HeadTailProperties
<1> QED
  BY <1>2, <1>3

LEMMA InputsAreWork == Seq(Inputs) \subseteq Seq(Work)
<1> SUFFICES ASSUME NEW s \in Seq(Inputs) PROVE s \in Seq(Work)
  OBVIOUS
<1>1. Len(s) \in Nat /\ s \in [1..Len(s) -> Inputs]
  BY LenProperties
<1>2. s \in [1..Len(s) -> Work]
  BY <1>1 DEF Work
<1> QED
  BY <1>1, <1>2, IsASeq

LEMMA AcceptedFinite ==
  /\ IsFiniteSet(Accepted) /\ Cardinality(Accepted) \in Nat
  /\ Cardinality(Handler) \in Nat
  /\ Cardinality(Accepted) <= Cardinality(Handler)
<1>1. Accepted \subseteq Handler
  BY DEF Accepted
<1> QED
  BY <1>1, ReactorAssumption, FS_Subset, FS_CardinalityType

\* A connection enters Accepted when it is accepted and stays there.
LEMMA AcceptedGrows ==
  ASSUME NEW h \in Handler, TypeOK, peer[h] = "waiting",
         peer' = [peer EXCEPT ![h] = "here"]
  PROVE  /\ Accepted' = Accepted \cup {h}
         /\ Cardinality(Accepted') = Cardinality(Accepted) + 1
<1>1. Accepted' = Accepted \cup {h} /\ h \notin Accepted
  BY DEF Accepted, TypeOK
<1> QED
  BY <1>1, AcceptedFinite, FS_AddElement

-----------------------------------------------------------------------------
LEMMA TypedInit == Init => Typed
<1> SUFFICES ASSUME Init PROVE Typed
  OBVIOUS
<1> USE ReactorAssumption DEF Init
<1>1. 0 \in ConnId
  BY AcceptedFinite DEF ConnId
<1>2. TypeOK
  BY <1>1 DEF TypeOK
<1>3. Accepted = {}
  BY DEF Accepted
<1>4. Counted
  BY <1>3, FS_EmptySet DEF Counted
<1>5. KeyInHand /\ Selection /\ Untouched /\ StartFirst /\ TaskOperands
  BY <1>3 DEF KeyInHand, KeySteps, Selection, Untouched, StartFirst, TaskOperands, Ops
<1> QED
  BY <1>2, <1>4, <1>5 DEF Typed, Links

\* The steps that accept and count no connection leave the count as it is.
LEMMA CountedSame ==
  ASSUME Counted, Accepted' = Accepted, connectIdCounter' = connectIdCounter,
         spc = "count" <=> spc' = "count"
  PROVE  Counted'
BY DEF Counted

-----------------------------------------------------------------------------
(* Types *)

LEMMA TypeSelecting == Typed /\ Selecting => TypeOK'
<1> SUFFICES ASSUME Typed, Selecting PROVE TypeOK'
  OBVIOUS
<1> USE DEF TypeOK, Step, OnKey, KeyDone, selVars, chanVars, poolVars, clientVars
<1>0. /\ TypeOK
      /\ spc \in KeySteps => cur \in Handler
  BY DEF Typed, Links, KeyInHand, Accepted
<1>1. CASE Select
  <2>1. \A h \in Handler : Ready(h) \in SUBSET (Ops \cup {"ACCEPT"})
    BY <1>0 DEF Ready
  <2> QED
    BY <1>0, <1>1, <2>1 DEF Select
<1>2. CASE RunTask
  <2>1. /\ Head(selectorTasks) \in Handler \cup {None}
        /\ selectorTasks' \in Seq(Handler \cup {None})
    BY <1>0, <1>2, HeadTailProperties DEF RunTask
  <2>2. interest' \in [Handler -> SUBSET Ops]
    BY <1>0, <1>2, <2>1 DEF RunTask, Valid
  <2>3. spc' \in {"tasks", "dead"}
    BY <1>2 DEF RunTask
  <2> QED
    BY <1>0, <1>2, <2>1, <2>2, <2>3 DEF RunTask
<1>3. CASE TasksDone
  BY <1>0, <1>3 DEF TasksDone
<1>4. CASE CountConnection
  <2>1. connectIdCounter + 1 = Cardinality(Accepted)
    <3>1. spc = "count" /\ Counted /\ connectIdCounter \in Nat
      BY <1>0, <1>4, AcceptedFinite
      DEF CountConnection, Typed, Links, ConnId
    <3> QED
      BY <3>1, AcceptedFinite DEF Counted
  <2>2. connectIdCounter + 1 \in ConnId
    BY <2>1, AcceptedFinite DEF ConnId
  <2> QED
    BY <1>0, <1>4, <2>2 DEF CountConnection
<1>5. CASE Register
  BY <1>0, <1>5 DEF Register, Ops
<1>6. CASE Readable
  <2>1. cur \in Handler
    BY <1>0, <1>6 DEF Readable, KeySteps
  <2>2. CASE UNCHANGED <<open, tasks, inbox>>
    BY <1>0, <1>6, <2>2 DEF Readable
  <2>3. CASE continueRead
    <3>1. [kind |-> "read", frames |-> inbox[cur]] \in TaskOf
      BY <1>0, <2>1 DEF TaskOf
    <3>2. Append(tasks[cur], [kind |-> "read", frames |-> inbox[cur]])
            \in Seq(TaskOf)
      BY <1>0, <2>1, <3>1, AppendProperties
    <3>3. CASE inbox[cur] # <<>>
      <4>1. tasks' \in [Handler -> Seq(TaskOf)]
        BY <1>0, <2>3, <3>2, <3>3 DEF continueRead
      <4>2. inbox' \in [Handler -> Seq(Inputs)] /\ open' = open
        <5>1. inbox' = [inbox EXCEPT ![cur] = <<>>] /\ open' = open
          BY <2>3, <3>3 DEF continueRead
        <5>2. inbox \in [Handler -> Seq(Inputs)] /\ <<>> \in Seq(Inputs)
          BY <1>0
        <5> QED
          BY ONLY <5>1, <5>2
      <4> QED
        BY <1>0, <1>6, <4>1, <4>2 DEF Readable
    <3>4. CASE inbox[cur] = <<>>
      BY <1>0, <1>6, <2>3, <3>4 DEF Readable, continueRead
    <3> QED
      BY <3>3, <3>4
  <2> QED
    BY <1>6, <2>2, <2>3 DEF Readable
<1>7. CASE StillValid
  BY <1>0, <1>7 DEF StillValid, KeySteps
<1>8. CASE Writable
  BY <1>0, <1>8 DEF Writable, KeySteps
<1>9. CASE WriteFrame
  <2>1. cur \in Handler
    BY <1>0, <1>9 DEF WriteFrame, KeySteps
  <2>2. Tail(writeQueue[cur]) \in Seq(Outputs)
    BY <1>0, <1>9, <2>1, HeadTailProperties DEF WriteFrame
  <2>3. writeQueue' \in [Handler -> Seq(Outputs)]
    BY <1>0, <1>9, <2>2 DEF WriteFrame
  <2>4. open' \in [Handler -> BOOLEAN] /\ full' \in [Handler -> BOOLEAN]
    BY <1>0, <1>9 DEF WriteFrame
  <2>5. /\ spc' \in {"write", "keys"} /\ cur' \in Handler \cup {None}
        /\ selected' \in [Handler -> SUBSET (Ops \cup {"ACCEPT"})]
    BY <1>0, <1>9 DEF WriteFrame
  <2> QED
    BY <1>0, <1>9, <2>3, <2>4, <2>5 DEF WriteFrame
<1>10. CASE WritesDone
  BY <1>0, <1>10 DEF WritesDone
<1>11. CASE CheckEmpty
  BY <1>0, <1>11 DEF CheckEmpty, KeySteps
<1>12. CASE Decide
  <2>1. /\ open' \in [Handler -> BOOLEAN]
        /\ interest' \in [Handler -> SUBSET Ops]
    <3>1. \/ open' = open
          \/ open' = [open EXCEPT ![cur] = FALSE]
      BY <1>12 DEF Decide
    <3>2. \/ interest' = interest
          \/ interest' = [interest EXCEPT ![cur] = {"READ"}]
      BY <1>12 DEF Decide
    <3>3. open \in [Handler -> BOOLEAN] /\ interest \in [Handler -> SUBSET Ops]
      BY <1>0
    <3>4. open' \in [Handler -> BOOLEAN]
      BY ONLY <3>1, <3>3
    <3>5. interest' \in [Handler -> SUBSET Ops]
      BY ONLY <3>2, <3>3 DEF Ops
    <3> QED
      BY ONLY <3>4, <3>5
  <2>2. /\ spc' \in {"dead", "keys"} /\ cur' \in Handler \cup {None}
        /\ selected' \in [Handler -> SUBSET (Ops \cup {"ACCEPT"})]
    BY <1>0, <1>12 DEF Decide
  <2> QED
    BY <1>0, <1>12, <2>1, <2>2 DEF Decide
<1>13. ASSUME NEW h \in Handler, NextKey(h) PROVE TypeOK'
  BY <1>0, <1>13 DEF NextKey
<1>14. ASSUME NEW h \in Handler, handleAccept(h) PROVE TypeOK'
  <2>1. [kind |-> "start", frames |-> <<>>] \in TaskOf
    BY DEF TaskOf
  <2>2. Append(tasks[h], [kind |-> "start", frames |-> <<>>]) \in Seq(TaskOf)
    BY <1>0, <2>1, AppendProperties
  <2>3. tasks' \in [Handler -> Seq(TaskOf)]
    BY <1>0, <1>14, <2>2 DEF handleAccept
  <2> QED
    BY <1>0, <1>14, <2>3 DEF handleAccept
<1> QED
  BY <1>1, <1>2, <1>3, <1>4, <1>5, <1>6, <1>7, <1>8, <1>9, <1>10, <1>11,
     <1>12, <1>13, <1>14 DEF Selecting

\* A frame is sent to a handler that has been accepted.
LEMMA ReceiversAccepted ==
  ASSUME Typed, NEW p \in Handler, todo[p] # <<>>
  PROVE  Receivers(p) \subseteq Accepted
<1> USE DEF Typed, TypeOK, Links, Untouched, TaskOperands
<1>1. myId[p] \in ConnId
  OBVIOUS
<1>2. \A i \in ConnId : clients[i] # None => clients[i] \in Accepted
  BY DEF Accepted
<1> QED
  BY <1>1, <1>2 DEF Receivers

LEMMA RemainingIsWork ==
  ASSUME TypeOK, NEW p \in Handler, todo[p] # <<>>
  PROVE  /\ Remaining(p) \in Seq(Work)
         /\ Head(todo[p]) \in Work
<1>1. Head(todo[p]) \in Work /\ Tail(todo[p]) \in Seq(Work)
  BY HeadTailProperties DEF TypeOK
<1>2. <<>> \in Seq(Work) /\ <<"receipt">> \in Seq(Work)
  BY DEF Work
<1> QED
  BY <1>1, <1>2, ConcatProperties DEF Remaining

LEMMA TypeTask == ASSUME NEW p \in Handler, Typed, Task(p) PROVE TypeOK'
<1> USE DEF TypeOK, Go, Takes, selVars, chanVars, poolVars, clientVars
<1>0. /\ TypeOK
      /\ ppc[p] \in {"send", "update"} => dest[p] \in Handler
      /\ ppc[p] \notin {"rest", "addConnection"} => todo[p] # <<>>
      /\ todo[p] # <<>> => myId[p] \in ConnId
  BY DEF Typed, Links, TaskOperands
<1>1. ASSUME tasks[p] # <<>>
      PROVE  Head(tasks[p]) \in TaskOf /\ Tail(tasks[p]) \in Seq(TaskOf)
  BY <1>0, <1>1, HeadTailProperties
<1>2. ASSUME todo[p] # <<>> PROVE Tail(todo[p]) \in Seq(Work)
  BY <1>0, <1>2, HeadTailProperties
<1>3. CASE Start(p)
  BY <1>0, <1>1, <1>3 DEF Start
<1>4. CASE addConnection(p)
  BY <1>0, <1>4 DEF addConnection
<1>5. CASE Decode(p)
  <2>1. Head(tasks[p]).frames \in Seq(Work)
    BY <1>1, <1>5, InputsAreWork DEF Decode, TaskOf
  <2> QED
    BY <1>0, <1>1, <1>5, <2>1 DEF Decode
<1>6. CASE close(p)
  BY <1>0, <1>1, <1>6 DEF close
<1>7. CASE process(p)
  <2>1. todo[p] # <<>> /\ Receivers(p) \subseteq Handler
    BY <1>7, ReceiversAccepted DEF process, Accepted
  <2>2. Remaining(p) \in Seq(Work)
    BY <1>0, <2>1, RemainingIsWork
  <2>3. dest' \in [Handler -> Handler \cup {None}]
    <3>1. dest' = dest \/ \E h \in Receivers(p) : dest' = [dest EXCEPT ![p] = h]
      BY <1>7 DEF process
    <3>2. dest \in [Handler -> Handler \cup {None}]
      BY <1>0
    <3>3. CASE dest' = dest
      BY ONLY <3>2, <3>3
    <3>4. ASSUME NEW h \in Receivers(p), dest' = [dest EXCEPT ![p] = h]
          PROVE  dest' \in [Handler -> Handler \cup {None}]
      BY ONLY <2>1, <3>2, <3>4
    <3> QED
      BY ONLY <3>1, <3>3, <3>4
  <2>4. todo' \in [Handler -> Seq(Work)]
    <3>1. todo' = todo \/ todo' = [todo EXCEPT ![p] = Remaining(p)]
      BY <1>7 DEF process
    <3> QED
      BY ONLY <1>0, <2>2, <3>1 DEF TypeOK
  <2>5. ppc' \in [Handler -> {"rest", "addConnection", "send", "update",
                             "wakeup", "closeConnection", "terminate"}]
    BY <1>0, <1>7 DEF process
  <2> QED
    BY <1>0, <1>7, <2>3, <2>4, <2>5 DEF process
<1>8. CASE send(p)
  <2>1. dest[p] \in Handler /\ todo[p] # <<>>
    BY <1>0, <1>8 DEF send
  <2>2. Reply[Head(todo[p])] \in Outputs
    BY <1>0, <2>1, RemainingIsWork DEF Work, Inputs, Reply, Outputs
  <2>3. Append(writeQueue[dest[p]], Reply[Head(todo[p])]) \in Seq(Outputs)
    BY <1>0, <2>1, <2>2, AppendProperties
  <2> QED
    BY <1>0, <1>8, <2>1, <2>3 DEF send
<1>9. CASE updateInterestedOps(p)
  <2>1. selectorTasks' \in Seq(Handler \cup {None})
    BY <1>0, <1>9, AppendProperties DEF updateInterestedOps
  <2> QED
    BY <1>0, <1>9, <2>1 DEF updateInterestedOps
<1>10. CASE wakeup(p)
  <2>1. Remaining(p) \in Seq(Work)
    BY <1>0, <1>10, RemainingIsWork DEF wakeup, Sent
  <2>2. todo' \in [Handler -> Seq(Work)]
    <3>1. todo' = todo \/ todo' = [todo EXCEPT ![p] = Remaining(p)]
      BY <1>10 DEF wakeup, Sent
    <3> QED
      BY ONLY <1>0, <2>1, <3>1 DEF TypeOK
  <2>3. ppc' \in [Handler -> {"rest", "addConnection", "send", "update",
                             "wakeup", "closeConnection", "terminate"}]
    BY <1>0, <1>10 DEF wakeup, Sent
  <2> QED
    BY <1>0, <1>10, <2>2, <2>3 DEF wakeup, Sent
<1>11. CASE closeConnection(p)
  <2>1. myId[p] \in ConnId /\ clients[myId[p]] \in Handler \cup {None}
    BY <1>0, <1>11 DEF closeConnection
  <2>2. CASE clients[myId[p]] = None
    <3>1. ppc' = [ppc EXCEPT ![p] = "rest"] /\ todo' = [todo EXCEPT ![p] = <<>>]
      BY <1>11, <2>2 DEF closeConnection
    <3> QED
      BY <1>0, <1>11, <2>2, <3>1 DEF closeConnection
  <2>3. CASE clients[myId[p]] # None
    <3>1. PICK h \in Handler : h = clients[myId[p]]
      BY <2>1, <2>3
    <3>2. [kind |-> "close", frames |-> <<>>] \in TaskOf
      BY DEF TaskOf
    <3>3. Append(tasks[h], [kind |-> "close", frames |-> <<>>]) \in Seq(TaskOf)
      BY <1>0, <3>2, AppendProperties
    <3>4. tasks' \in [Handler -> Seq(TaskOf)]
      BY <1>0, <1>11, <2>3, <3>1, <3>3 DEF closeConnection
    <3>5. clients' \in [ConnId -> Handler \cup {None}]
      BY <1>0, <1>11, <2>3 DEF closeConnection
    <3> QED
      BY <1>0, <1>11, <2>3, <3>4, <3>5 DEF closeConnection
  <2> QED
    BY <2>2, <2>3
<1>12. CASE Terminate(p)
  <2>1. todo[p] # <<>>
    BY <1>0, <1>12 DEF Terminate
  <2> QED
    BY <1>0, <1>2, <1>12, <2>1 DEF Terminate
<1> QED
  BY <1>3, <1>4, <1>5, <1>6, <1>7, <1>8, <1>9, <1>10, <1>11, <1>12 DEF Task

LEMMA TypeClient == ASSUME NEW h \in Handler, TypeOK, Client(h) PROVE TypeOK'
<1> USE DEF TypeOK, ServerUnchanged, selVars, chanVars, poolVars
<1>1. CASE Connect(h)
  BY <1>1 DEF Connect
<1>2. CASE Transmit(h)
  <2>1. PICK f \in Sends[h] : inbox' = [inbox EXCEPT ![h] = Append(@, f)]
    BY <1>2 DEF Transmit
  <2>2. Append(inbox[h], f) \in Seq(Inputs)
    BY <2>1, ReactorAssumption, AppendProperties
  <2>3. sent[h] + 1 \in 0..MaxFrames
    BY <1>2, ReactorAssumption DEF Transmit
  <2> QED
    BY <1>2, <2>1, <2>2, <2>3 DEF Transmit
<1>3. CASE Drain(h)
  BY <1>3 DEF Drain
<1>4. CASE GoAway(h)
  <2>1. PICK rest \in {inbox[h], <<>>} : inbox' = [inbox EXCEPT ![h] = rest]
    BY <1>4 DEF GoAway
  <2>2. rest \in Seq(Inputs)
    <3>1. inbox[h] \in Seq(Inputs) /\ <<>> \in Seq(Inputs)
      OBVIOUS
    <3> QED
      BY ONLY <2>1, <3>1
  <2>3. inbox' \in [Handler -> Seq(Inputs)]
    BY <2>1, <2>2
  <2>4. peer' \in [Handler -> {"none", "waiting", "here", "gone"}]
    BY <1>4 DEF GoAway
  <2> QED
    BY <1>4, <2>3, <2>4 DEF GoAway
<1> QED
  BY <1>1, <1>2, <1>3, <1>4 DEF Client

LEMMA TypeNext == Typed /\ [Next]_vars => TypeOK'
<1> SUFFICES ASSUME Typed, [Next]_vars PROVE TypeOK'
  OBVIOUS
<1>1. CASE UNCHANGED vars
  BY <1>1 DEF Typed, TypeOK, vars, selVars, chanVars, poolVars, clientVars
<1> QED
  BY <1>1, TypeSelecting, TypeTask, TypeClient DEF Next, Quiet, Typed

-----------------------------------------------------------------------------
(* The bookkeeping of connections *)

LEMMA CountedNext == Typed /\ [Next]_vars => Counted'
<1> SUFFICES ASSUME Typed, [Next]_vars PROVE Counted'
  OBVIOUS
<1> USE DEF Step, OnKey, KeyDone, selVars, chanVars, poolVars, clientVars
<1>0. TypeOK /\ Counted
  BY DEF Typed, Links
<1>1. CASE CountConnection
  <2>1. /\ Accepted' = Accepted /\ connectIdCounter' = connectIdCounter + 1
        /\ spc = "count" /\ spc' = "register" /\ connectIdCounter \in Nat
    BY <1>0, <1>1, AcceptedFinite DEF CountConnection, Accepted, TypeOK, ConnId
  <2> QED
    BY <1>0, <2>1, AcceptedFinite DEF Counted
<1>2. ASSUME NEW h \in Handler, handleAccept(h) PROVE Counted'
  <2>1. /\ spc = "keys" /\ spc' = "count" /\ peer[h] = "waiting"
        /\ connectIdCounter' = connectIdCounter
        /\ peer' = [peer EXCEPT ![h] = "here"]
    BY <1>2 DEF handleAccept, Typed, Links, Selection
  <2>2. connectIdCounter \in Nat
    BY <1>0, AcceptedFinite DEF TypeOK, ConnId
  <2>3. connectIdCounter = Cardinality(Accepted)
    BY <1>0, <2>1, <2>2, AcceptedFinite DEF Counted
  <2>4. Cardinality(Accepted') = Cardinality(Accepted) + 1
    BY <1>0, <2>1, AcceptedGrows
  <2> QED
    BY <2>1, <2>2, <2>3, <2>4 DEF Counted
<1>3. CASE
    \/ Select \/ RunTask \/ TasksDone \/ Register \/ Readable \/ StillValid
    \/ Writable \/ WriteFrame \/ WritesDone \/ CheckEmpty \/ Decide
    \/ \E h \in Handler : NextKey(h)
  <2>1. /\ peer' = peer /\ connectIdCounter' = connectIdCounter
    BY <1>3 DEF Select, RunTask, TasksDone, Register, Readable, StillValid,
         Writable, WriteFrame, WritesDone, CheckEmpty, Decide, NextKey
  <2>2. spc # "count" /\ spc' # "count"
    BY <1>3 DEF Select, KeysDone, RunTask, TasksDone, Register, Readable,
         StillValid, Writable, WriteFrame, WritesDone, CheckEmpty, Decide,
         NextKey
  <2> QED
    BY <1>0, <2>1, <2>2, CountedSame DEF Accepted
<1>4. ASSUME NEW h \in Handler, Task(h) PROVE Counted'
  <2>1. UNCHANGED <<peer, connectIdCounter, spc>>
    BY <1>4 DEF Task, Start, addConnection, Decode, close, process, send,
         updateInterestedOps, wakeup, Sent, closeConnection, Terminate
  <2> QED
    BY <1>0, <2>1, CountedSame DEF Accepted
<1>5. ASSUME NEW h \in Handler, Client(h) PROVE Counted'
  <2>1. UNCHANGED <<connectIdCounter, spc>>
    BY <1>5 DEF Client, Connect, Transmit, Drain, GoAway, ServerUnchanged
  <2>2. Accepted' = Accepted
    <3>1. \/ peer' = peer
          \/ peer[h] = "none" /\ peer' = [peer EXCEPT ![h] = "waiting"]
          \/ peer[h] = "here" /\ peer' = [peer EXCEPT ![h] = "gone"]
      BY <1>5 DEF Client, Connect, Transmit, Drain, GoAway
    <3>2. peer \in [Handler -> {"none", "waiting", "here", "gone"}]
      BY <1>0 DEF TypeOK
    <3> QED
      BY <3>1, <3>2 DEF Accepted
  <2> QED
    BY <1>0, <2>1, <2>2, CountedSame
<1>6. CASE UNCHANGED vars
  BY <1>0, <1>6, CountedSame DEF vars, Accepted
<1> QED
  BY <1>1, <1>2, <1>3, <1>4, <1>5, <1>6 DEF Next, Selecting, Quiet

\* Connections are accepted for good.
LEMMA AcceptedKept == TypeOK /\ [Next]_vars => Accepted \subseteq Accepted'
<1> SUFFICES ASSUME TypeOK, [Next]_vars PROVE Accepted \subseteq Accepted'
  OBVIOUS
<1> USE DEF TypeOK, Accepted, clientVars
<1>1. CASE Selecting
  <2>1. peer' = peer \/ \E h \in Handler : peer' = [peer EXCEPT ![h] = "here"]
    BY <1>1 DEF Selecting, Select, RunTask, TasksDone, CountConnection,
         Register, Readable, StillValid, Writable, WriteFrame, WritesDone,
         CheckEmpty, Decide, NextKey, handleAccept
  <2> QED
    BY <2>1
<1>2. ASSUME NEW h \in Handler, Task(h) PROVE Accepted' = Accepted
  BY <1>2 DEF Task, Start, addConnection, Decode, close, process, send,
       updateInterestedOps, wakeup, Sent, closeConnection, Terminate
<1>3. ASSUME NEW h \in Handler, Client(h) PROVE Accepted' = Accepted
  BY <1>3 DEF Client, Connect, Transmit, Drain, GoAway
<1>4. CASE UNCHANGED vars
  BY <1>4 DEF vars
<1> QED
  BY <1>1, <1>2, <1>3, <1>4 DEF Next, Quiet

LEMMA LinksSelecting == Typed /\ Selecting => Links'
<1> SUFFICES ASSUME Typed, Selecting PROVE Links'
  OBVIOUS
<1> USE DEF Step, OnKey, KeyDone, selVars, chanVars, poolVars, clientVars
<1>0. TypeOK /\ Links /\ (spc \in KeySteps => cur \in Accepted)
  BY DEF Typed, Links, KeyInHand
<1>1. Accepted \subseteq Accepted'
  BY <1>0, AcceptedKept DEF Next
<1>2. KeyInHand'
  <2>1. CASE \E h \in Handler : NextKey(h)
    BY <1>0, <1>1, <2>1 DEF NextKey, Links, Selection, KeyInHand, KeySteps
  <2>2. CASE \E h \in Handler : handleAccept(h)
    BY <1>0, <2>2 DEF handleAccept, KeyInHand, Accepted, TypeOK
  <2>3. CASE Select \/ RunTask \/ TasksDone \/ CountConnection \/ Register
    BY <1>0, <1>1, <2>3 DEF Select, RunTask, TasksDone, CountConnection,
       Register, KeyInHand, KeySteps
  <2>4. CASE Readable \/ StillValid \/ Writable \/ WriteFrame \/ WritesDone
             \/ CheckEmpty \/ Decide
    BY <1>0, <1>1, <2>4 DEF Readable, StillValid, Writable, WriteFrame,
       WritesDone, CheckEmpty, Decide, KeyInHand, KeySteps
  <2> QED
    BY <2>1, <2>2, <2>3, <2>4 DEF Selecting
<1>3. Selection'
  <2>1. CASE Select
    <3>1. \A h \in Handler : /\ "ACCEPT" \in Ready(h) => peer[h] = "waiting"
                             /\ Ready(h) \cap Ops # {} => h \in Accepted
      <4> SUFFICES ASSUME NEW h \in Handler
                   PROVE  /\ "ACCEPT" \in Ready(h) => peer[h] = "waiting"
                          /\ Ready(h) \cap Ops # {} => h \in Accepted
        OBVIOUS
      <4>1. interest[h] \subseteq Ops
        BY <1>0 DEF TypeOK
      <4>2. interest[h] # {} => h \in Accepted
        BY <1>0 DEF Links, Untouched
      <4> QED
        BY <4>1, <4>2 DEF Ready, Ops
    <3> QED
      BY <1>1, <2>1, <3>1 DEF Select, Selection
  <2>2. ASSUME NEW h \in Handler, handleAccept(h) PROVE Selection'
    BY <1>0, <1>1, <2>2 DEF handleAccept, Selection, Links, TypeOK, Ops
  <2>3. CASE ~Select /\ ~\E h \in Handler : handleAccept(h)
    <3>1. /\ peer' = peer
          /\ \/ selected' = selected \/ selected' = [selected EXCEPT ![cur] = {}]
             \/ \E h \in Handler : selected' = [selected EXCEPT ![h] = {}]
      <4>1. CASE RunTask \/ TasksDone \/ CountConnection \/ Register
                 \/ WritesDone \/ \E h \in Handler : NextKey(h)
        BY <4>1 DEF RunTask, TasksDone, CountConnection, Register, WritesDone,
           NextKey
      <4>2. CASE Readable \/ StillValid \/ Writable
        BY <4>2 DEF Readable, StillValid, Writable
      <4>3. CASE WriteFrame \/ CheckEmpty \/ Decide
        BY <4>3 DEF WriteFrame, CheckEmpty, Decide
      <4> QED
        BY <2>3, <4>1, <4>2, <4>3 DEF Selecting
    <3> QED
      BY <1>0, <1>1, <3>1 DEF Selection, Links, TypeOK
  <2> QED
    BY <2>1, <2>2, <2>3
<1>4. Untouched'
  <2>1. UNCHANGED <<myId, clients, dest>>
    BY DEF Selecting, Select, RunTask, TasksDone, CountConnection,
       Register, Readable, StillValid, Writable, WriteFrame, WritesDone,
       CheckEmpty, Decide, NextKey, handleAccept
  <2>2. ASSUME NEW h \in Handler \ Accepted, h \notin Accepted'
        PROVE  /\ ~open[h]' /\ interest[h]' = {} /\ writeQueue[h]' = <<>>
               /\ tasks[h]' = <<>>
    <3>0. /\ ~open[h] /\ interest[h] = {} /\ writeQueue[h] = <<>>
          /\ tasks[h] = <<>> /\ (spc \in KeySteps => cur # h)
      BY <1>0, <2>2 DEF Links, Untouched
    <3>1. CASE RunTask
      BY <1>0, <3>0, <3>1, HeadTailProperties DEF RunTask, Valid, TypeOK
    <3>2. ASSUME NEW g \in Handler, handleAccept(g)
          PROVE  UNCHANGED <<open[h], interest[h], writeQueue[h], tasks[h]>>
      <4>1. g # h
        BY <1>0, <2>2, <3>2 DEF handleAccept, Accepted, TypeOK
      <4> QED
        BY <1>0, <3>2, <4>1 DEF handleAccept, TypeOK
    <3>3. CASE Select \/ TasksDone \/ CountConnection \/ StillValid \/ Writable
               \/ WritesDone \/ CheckEmpty \/ \E g \in Handler : NextKey(g)
      BY <3>0, <3>3 DEF Select, TasksDone, CountConnection, StillValid,
         Writable, WritesDone, CheckEmpty, NextKey
    <3>4. CASE Readable
      BY <1>0, <3>0, <3>4 DEF Readable, continueRead, TypeOK, KeySteps
    <3>5. CASE Register \/ WriteFrame \/ Decide
      BY <1>0, <3>0, <3>5 DEF Register, WriteFrame, Decide, TypeOK, KeySteps
    <3> QED
      BY <3>0, <3>1, <3>2, <3>3, <3>4, <3>5 DEF Selecting
  <2> QED
    BY <1>0, <1>1, <2>1, <2>2 DEF Links, Untouched
<1>5. StartFirst'
  <2>1. CASE UNCHANGED <<tasks, peer, myId>>
    BY <1>0, <2>1 DEF Links, StartFirst, Accepted
  <2>2. CASE Readable /\ tasks' # tasks
    <3>0. cur \in Handler
      BY <1>0, <2>2 DEF Readable, KeySteps, Accepted
    <3>1. [kind |-> "read", frames |-> inbox[cur]] \in TaskOf
      BY <1>0, <3>0 DEF TaskOf, TypeOK
    <3>2. PICK t \in TaskOf : tasks' = [tasks EXCEPT ![cur] = Append(@, t)]
      BY <2>2, <3>1 DEF Readable, continueRead
    <3>3. tasks[cur] # <<>> =>
            /\ Append(tasks[cur], t) # <<>>
            /\ Head(Append(tasks[cur], t)) = Head(tasks[cur])
      BY <1>0, <3>0, AppendFirst DEF TypeOK
    <3>4. UNCHANGED <<peer, myId>>
      BY <2>2 DEF Readable
    <3> QED
      BY <1>0, <3>0, <3>2, <3>3, <3>4 DEF Links, StartFirst, Accepted, TypeOK
  <2>3. ASSUME NEW h \in Handler, handleAccept(h) PROVE StartFirst'
    <3>1. [kind |-> "start", frames |-> <<>>] \in TaskOf
      BY DEF TaskOf
    <3>2. h \notin Accepted /\ Accepted' = Accepted \cup {h}
      BY <1>0, <2>3, AcceptedGrows
      DEF handleAccept, Links, Selection, Accepted
    <3>3. tasks[h] = <<>>
      BY <1>0, <3>2 DEF Links, Untouched
    <3>4. /\ tasks'[h] # <<>> /\ Head(tasks'[h]).kind = "start"
          /\ \A g \in Handler \ {h} : tasks'[g] = tasks[g]
      BY <1>0, <2>3, <3>1, <3>3, AppendFirst DEF handleAccept, TypeOK
    <3>5. myId' = myId
      BY <2>3 DEF handleAccept
    <3> QED
      BY <1>0, <3>2, <3>4, <3>5 DEF Links, StartFirst, Accepted
  <2>4. \/ UNCHANGED <<tasks, peer, myId>>
        \/ Readable /\ tasks' # tasks
        \/ \E h \in Handler : handleAccept(h)
    <3>1. CASE Readable
      BY <3>1 DEF Readable
    <3> QED
      BY <3>1 DEF Selecting, Select, RunTask, TasksDone, CountConnection,
         Register, StillValid, Writable, WriteFrame, WritesDone, CheckEmpty,
         Decide, NextKey
  <2> QED
    BY <2>1, <2>2, <2>3, <2>4
<1>6. TaskOperands'
  <2>1. UNCHANGED <<ppc, todo, dest, myId>>
    BY DEF Selecting, Select, RunTask, TasksDone, CountConnection,
         Register, Readable, StillValid, Writable, WriteFrame, WritesDone,
         CheckEmpty, Decide, NextKey, handleAccept
  <2> QED
    BY <1>0, <2>1 DEF Links, TaskOperands
<1> QED
  BY <1>2, <1>3, <1>4, <1>5, <1>6 DEF Links

LEMMA LinksTask == ASSUME NEW p \in Handler, Typed, Task(p) PROVE Links'
<1> USE DEF Go, Takes, selVars, chanVars, poolVars, clientVars
<1>0. /\ TypeOK /\ Links
      /\ ppc[p] \in {"send", "update"} => dest[p] \in Handler
      /\ ppc[p] \notin {"rest", "addConnection"} => todo[p] # <<>>
      /\ todo[p] # <<>> \/ ppc[p] = "addConnection" => myId[p] \in ConnId
  BY DEF Typed, Links, TaskOperands
<1>1. /\ UNCHANGED <<spc, cur, selected, peer>>
      /\ Accepted' = Accepted
  BY DEF Task, Start, addConnection, Decode, close, process, send,
     updateInterestedOps, wakeup, Sent, closeConnection, Terminate, Accepted
<1>2. KeyInHand' /\ Selection'
  BY <1>0, <1>1 DEF Links, KeyInHand, Selection
\* Only an accepted connection has a task, and it names accepted ones only.
<1>3. p \in Accepted
  <2>1. tasks[p] # <<>> \/ myId[p] \in ConnId
    BY <1>0 DEF Task, Start, addConnection, Decode, close, process, send,
       updateInterestedOps, wakeup, Sent, closeConnection, Terminate
  <2> QED
    BY <1>0, <2>1, ReactorAssumption DEF Links, Untouched
<1>4. \A i \in ConnId : clients[i] # None => clients[i] \in Accepted
  BY <1>0 DEF Links, Untouched, TypeOK
<1>5. dest[p] \in Handler => dest[p] \in Accepted
  BY <1>0 DEF Links, Untouched
<1>6. Untouched'
  <2>1. UNCHANGED open \/ open' = [open EXCEPT ![p] = FALSE]
    BY DEF Task, Start, addConnection, Decode, close, process, send,
       updateInterestedOps, wakeup, Sent, closeConnection, Terminate
  <2>2. /\ interest' = interest
        /\ myId' = myId \/ myId' = [myId EXCEPT ![p] = connectIdCounter]
    BY DEF Task, Start, addConnection, Decode, close, process, send,
       updateInterestedOps, wakeup, Sent, closeConnection, Terminate
  <2>3. \/ UNCHANGED writeQueue
        \/ /\ dest[p] \in Handler
           /\ \A h \in Handler \ {dest[p]} : writeQueue'[h] = writeQueue[h]
    BY <1>0 DEF Task, Start, addConnection, Decode, close, process, send,
       updateInterestedOps, wakeup, Sent, closeConnection, Terminate, TypeOK
  <2>4. \A h \in Handler \ Accepted : tasks'[h] = tasks[h]
    <3>1. CASE closeConnection(p)
      BY <1>0, <1>4, <3>1 DEF closeConnection, TypeOK
    <3>2. CASE Start(p) \/ Decode(p) \/ close(p)
      BY <1>0, <1>3, <3>2 DEF Start, Decode, close, TypeOK
    <3> QED
      BY <3>1, <3>2 DEF Task, addConnection, process, send,
         updateInterestedOps, wakeup, Sent, Terminate
  <2>5. \A h \in Handler \ Accepted : \A i \in ConnId : clients'[i] # h
    <3>1. CASE addConnection(p)
      BY <1>0, <1>3, <3>1 DEF addConnection, Links, Untouched, TypeOK
    <3>2. CASE closeConnection(p)
      BY <1>0, <3>2, ReactorAssumption DEF closeConnection, Links, Untouched, TypeOK
    <3>3. CASE UNCHANGED clients
      BY <1>0, <3>3 DEF Links, Untouched
    <3> QED
      BY <3>1, <3>2, <3>3 DEF Task, Start, Decode, close, process, send,
         updateInterestedOps, wakeup, Sent, Terminate
  <2>6. \A h \in Handler \ Accepted : \A q \in Handler : dest'[q] # h
    <3>1. CASE process(p)
      <4>1. \/ dest' = dest
            \/ \E h \in Receivers(p) : dest' = [dest EXCEPT ![p] = h]
        BY <3>1 DEF process
      <4>2. Receivers(p) \subseteq Accepted
        BY <3>1, ReceiversAccepted DEF process
      <4> QED
        BY <1>0, <4>1, <4>2 DEF Links, Untouched, TypeOK
    <3>2. CASE wakeup(p)
      BY <1>0, <3>2, ReactorAssumption DEF wakeup, Sent, Links, Untouched, TypeOK
    <3>3. CASE UNCHANGED dest
      BY <1>0, <3>3 DEF Links, Untouched
    <3> QED
      BY <3>1, <3>2, <3>3 DEF Task, Start, Decode, close, addConnection, send,
         updateInterestedOps, closeConnection, Terminate
  <2>7. \A h \in Handler \ Accepted :
          /\ ~open'[h] /\ interest'[h] = {} /\ writeQueue'[h] = <<>>
          /\ tasks'[h] = <<>> /\ myId'[h] = None
    BY <1>0, <1>3, <1>5, <2>1, <2>2, <2>3, <2>4 DEF Links, Untouched, TypeOK
  <2> QED
    BY <1>1, <2>5, <2>6, <2>7 DEF Untouched
<1>7. StartFirst'
  <2>1. CASE Start(p)
    <3>1. myId'[p] # None /\ \A h \in Handler \ {p} : myId'[h] = myId[h]
      BY <1>0, <2>1, ReactorAssumption DEF Start, TypeOK
    <3>2. \A h \in Handler \ {p} : tasks'[h] = tasks[h]
      BY <1>0, <2>1 DEF Start, TypeOK
    <3> QED
      BY <1>0, <1>1, <3>1, <3>2 DEF Links, StartFirst, Accepted
  <2>2. CASE Decode(p) \/ close(p)
    <3>1. Head(tasks[p]).kind # "start" /\ myId' = myId
      BY <2>2 DEF Decode, close
    <3>2. \A h \in Handler \ {p} : tasks'[h] = tasks[h]
      BY <1>0, <2>2 DEF Decode, close, TypeOK
    <3> QED
      BY <1>0, <1>1, <3>1, <3>2 DEF Links, StartFirst, Accepted
  <2>3. CASE closeConnection(p) /\ tasks' # tasks
    <3>1. PICK h \in Handler : h = clients[myId[p]]
      BY <1>0, <2>3 DEF closeConnection, TypeOK
    <3>2. [kind |-> "close", frames |-> <<>>] \in TaskOf
      BY DEF TaskOf
    <3>3. PICK t \in TaskOf : tasks' = [tasks EXCEPT ![h] = Append(@, t)]
      BY <2>3, <3>1, <3>2 DEF closeConnection
    <3>4. tasks[h] # <<>> => /\ Append(tasks[h], t) # <<>>
                             /\ Head(Append(tasks[h], t)) = Head(tasks[h])
      BY <1>0, AppendFirst DEF TypeOK
    <3>5. myId' = myId
      BY <2>3 DEF closeConnection
    <3> QED
      BY <1>0, <1>1, <3>3, <3>4, <3>5 DEF Links, StartFirst, Accepted, TypeOK
  <2>4. CASE UNCHANGED <<tasks, myId>>
    BY <1>0, <1>1, <2>4 DEF Links, StartFirst
  <2>5. \/ Start(p) \/ Decode(p) \/ close(p)
        \/ closeConnection(p) /\ tasks' # tasks
        \/ UNCHANGED <<tasks, myId>>
    <3>1. CASE closeConnection(p)
      BY <3>1 DEF closeConnection
    <3> QED
      BY <3>1 DEF Task, addConnection, process, send, updateInterestedOps,
         wakeup, Sent, Terminate
  <2> QED
    BY <2>1, <2>2, <2>3, <2>4, <2>5
<1>8. TaskOperands'
  <2> SUFFICES ASSUME NEW q \in Handler
               PROVE  /\ ppc'[q] \in {"send", "update"} => dest'[q] \in Handler
                      /\ ppc'[q] \notin {"rest", "addConnection"} => todo'[q] # <<>>
                      /\ todo'[q] # <<>> \/ ppc'[q] = "addConnection"
                           => myId'[q] \in ConnId
    BY DEF TaskOperands
  <2>0. /\ ppc[q] \in {"send", "update"} => dest[q] \in Handler
        /\ ppc[q] \notin {"rest", "addConnection"} => todo[q] # <<>>
        /\ todo[q] # <<>> \/ ppc[q] = "addConnection" => myId[q] \in ConnId
    BY <1>0 DEF Links, TaskOperands
  <2>1. CASE Start(p)
    BY <1>0, <2>0, <2>1 DEF Start, TypeOK
  <2>2. CASE addConnection(p)
    BY <1>0, <2>0, <2>2 DEF addConnection, TypeOK
  <2>3. CASE Decode(p)
    <3>1. myId[p] \in ConnId
      BY <1>0, <1>3, <2>3 DEF Decode, Links, StartFirst, TypeOK
    <3> QED
      BY <1>0, <2>0, <2>3, <3>1 DEF Decode, TypeOK
  <2>4. CASE close(p)
    BY <2>0, <2>4 DEF close
  <2>5. CASE process(p)
    <3>1. Receivers(p) \subseteq Handler /\ todo[p] # <<>> /\ myId' = myId
      BY <2>5, ReceiversAccepted DEF process, Accepted
    <3>2. CASE q # p
      BY <1>0, <2>0, <2>5, <3>2 DEF process, TypeOK
    <3>3. CASE q = p
      <4>1. CASE \E h \in Receivers(p) : /\ ppc' = [ppc EXCEPT ![p] = "send"]
                                         /\ dest' = [dest EXCEPT ![p] = h]
                                         /\ todo' = todo
        BY <1>0, <3>1, <3>3, <4>1 DEF TypeOK
      <4>2. CASE ppc' = ppc
        BY <1>0, <2>5, <3>1, <3>3, <4>2 DEF process, TypeOK
      <4>3. CASE ppc' = [ppc EXCEPT ![p] = "closeConnection"] /\ todo' = todo
        BY <1>0, <3>1, <3>3, <4>3 DEF TypeOK
      <4> QED
        BY <2>5, <4>1, <4>2, <4>3 DEF process
    <3> QED
      BY <3>2, <3>3
  <2>6. CASE send(p)
    BY <1>0, <2>0, <2>6 DEF send, TypeOK
  <2>7. CASE updateInterestedOps(p)
    BY <1>0, <2>0, <2>7 DEF updateInterestedOps, TypeOK
  <2>8. CASE wakeup(p)
    <3>1. myId' = myId /\ todo[p] # <<>>
      BY <1>0, <2>8 DEF wakeup, Sent
    <3>2. CASE Head(todo[p]) = "bad"
      BY <1>0, <2>0, <2>8, <3>1, <3>2 DEF wakeup, Sent, TypeOK
    <3>3. CASE Head(todo[p]) # "bad"
      BY <1>0, <2>0, <2>8, <3>1, <3>3 DEF wakeup, Sent, TypeOK
    <3> QED
      BY <3>2, <3>3
  <2>9. CASE closeConnection(p)
    BY <1>0, <2>0, <2>9 DEF closeConnection, TypeOK
  <2>10. CASE Terminate(p)
    BY <1>0, <2>0, <2>10 DEF Terminate, TypeOK
  <2> QED
    BY <2>1, <2>2, <2>3, <2>4, <2>5, <2>6, <2>7, <2>8, <2>9, <2>10 DEF Task
<1> QED
  BY <1>2, <1>6, <1>7, <1>8 DEF Links

LEMMA LinksNext == Typed /\ [Next]_vars => Links'
<1> SUFFICES ASSUME Typed, [Next]_vars PROVE Links'
  OBVIOUS
<1>0. TypeOK /\ Links
  BY DEF Typed
<1>1. ASSUME NEW h \in Handler, Client(h) PROVE Links'
  <2>1. UNCHANGED <<selVars, selectorTasks, chanVars, writeQueue, terminated,
                    tasks, poolVars>>
    BY <1>1 DEF Client, Connect, Transmit, Drain, GoAway, ServerUnchanged
  <2>2. \/ peer' = peer
        \/ peer[h] = "none" /\ peer' = [peer EXCEPT ![h] = "waiting"]
        \/ peer[h] = "here" /\ peer' = [peer EXCEPT ![h] = "gone"]
    BY <1>1 DEF Client, Connect, Transmit, Drain, GoAway
  <2>3. /\ Accepted' = Accepted
        /\ \A g \in Handler : peer[g] = "waiting" => peer'[g] = "waiting"
    BY <1>0, <2>2 DEF Accepted, TypeOK
  <2>4. KeyInHand' /\ Selection' /\ StartFirst'
    BY <1>0, <2>1, <2>3 DEF Links, KeyInHand, Selection, StartFirst, selVars,
       poolVars
  <2>5. Untouched' /\ TaskOperands'
    BY <1>0, <2>1, <2>3 DEF Links, Untouched, TaskOperands, chanVars, poolVars
  <2> QED
    BY <2>4, <2>5 DEF Links
<1>2. CASE UNCHANGED vars
  BY <1>0, <1>2 DEF vars, selVars, chanVars, poolVars, clientVars, Links,
     KeyInHand, Selection, Untouched, StartFirst, TaskOperands, Accepted
<1> QED
  BY <1>1, <1>2, LinksSelecting, LinksTask DEF Next, Quiet

LEMMA TypedAlways == Spec => []Typed
<1>1. Typed /\ [Next]_vars => Typed'
  BY TypeNext, CountedNext, LinksNext DEF Typed
<1> QED
  BY TypedInit, <1>1, PTL DEF Spec

\* The variables of the reactor keep their types; in particular every handler
\* is counted once, and no task runs for a connection without an id.
THEOREM TypeCorrect == Spec => []TypeOK
<1>1. Typed => TypeOK
  BY DEF Typed
<1> QED
  BY TypedAlways, <1>1, PTL

-----------------------------------------------------------------------------
(* No lost wakeup *)

\* Somebody will see to the frames of h.
Watched(h) ==
  \/ "WRITE" \in interest[h] /\ ~(spc = "decide" /\ cur = h)
  \/ \E i \in DOMAIN selectorTasks : selectorTasks[i] \in {h, None}
  \/ \E p \in Handler : ppc[p] = "update" /\ dest[p] = h
  \/ spc = "dead"

FramesWatched == \A h \in Handler : open[h] /\ writeQueue[h] # <<>> => Watched(h)

\* A task of the selector that it has not seen comes with a wakeup.
TasksAnnounced ==
  spc \notin {"tasks", "dead"} /\ selectorTasks # <<>> =>
    woken \/ \E p \in Handler : ppc[p] = "wakeup"

\* The key of a connection is registered before it can want to write: register
\* never takes a WRITE back.
NotYetRegistered == spc \in {"count", "register"} => interest[cur] = {}

WakeupInv == FramesWatched /\ TasksAnnounced /\ NotYetRegistered

LEMMA WakeupInit == Init => WakeupInv
BY DEF Init, WakeupInv, FramesWatched, TasksAnnounced, NotYetRegistered

\* What is in a queue after its head stays in it.
LEMMA TailKeeps ==
  ASSUME NEW S, NEW s \in Seq(S), s # <<>>, NEW i \in DOMAIN s, s[i] # Head(s)
  PROVE  \E j \in DOMAIN Tail(s) : Tail(s)[j] = s[i]
<1>1. /\ Len(s) \in Nat /\ DOMAIN s = 1..Len(s) /\ i \in 1..Len(s) /\ i # 1
  BY LenProperties, HeadTailProperties
<1>2. Tail(s) \in Seq(S) /\ Len(Tail(s)) = Len(s) - 1
  BY HeadTailProperties
<1>3. Tail(s)[i - 1] = s[i] /\ i - 1 \in 1..Len(Tail(s))
  BY <1>1, <1>2, HeadTailProperties
<1> QED
  BY <1>2, <1>3, LenProperties

\* What is in selectorTasks stays in it when something is appended.
LEMMA AppendKeeps ==
  ASSUME selectorTasks \in Seq(Handler \cup {None}), NEW e \in Handler \cup {None},
         selectorTasks' = Append(selectorTasks, e)
  PROVE  /\ \A i \in DOMAIN selectorTasks : /\ i \in DOMAIN selectorTasks'
                                            /\ selectorTasks'[i] = selectorTasks[i]
         /\ \E i \in DOMAIN selectorTasks' : selectorTasks'[i] = e
<1> DEFINE n == Len(selectorTasks)
<1>1. /\ n \in Nat /\ DOMAIN selectorTasks = 1..n
      /\ DOMAIN selectorTasks' = 1 .. n + 1
  BY LenProperties, AppendProperties
<1>2. /\ \A i \in 1..n : selectorTasks'[i] = selectorTasks[i]
      /\ selectorTasks'[n + 1] = e
  BY <1>1, AppendProperties
<1> HIDE DEF n
<1> QED
  BY <1>1, <1>2

\* What keeps the frames of h watched: nothing that watches them goes.
LEMMA WatchKept ==
  ASSUME NEW h \in Handler, Watched(h), spc # "dead",
         "WRITE" \in interest[h] => "WRITE" \in interest'[h],
         spc' = "decide" /\ cur' = h => spc = "decide" /\ cur = h,
         selectorTasks' = selectorTasks,
         \A p \in Handler : ppc[p] = "update" => ppc'[p] = "update" /\ dest'[p] = dest[p]
  PROVE  Watched(h)'
BY DEF Watched

LEMMA WatchedSelecting == Typed /\ WakeupInv /\ Selecting => FramesWatched'
<1> SUFFICES ASSUME Typed, WakeupInv, Selecting,
                    NEW h \in Handler, open'[h], writeQueue'[h] # <<>>
             PROVE  Watched(h)'
  BY DEF FramesWatched
<1> USE DEF Step, OnKey, KeyDone, selVars, chanVars, poolVars, clientVars
<1>0. /\ TypeOK /\ Untouched /\ FramesWatched
      /\ spc \in KeySteps => cur \in Handler
  BY DEF Typed, Links, KeyInHand, Accepted, WakeupInv
<1>1. UNCHANGED <<ppc, dest>> /\ spc # "dead"
  BY DEF Selecting, Select, KeysDone, RunTask, TasksDone, CountConnection,
     Register, Readable, StillValid, Writable, WriteFrame, WritesDone,
     CheckEmpty, Decide, NextKey, handleAccept
<1>2. ASSUME ~\E g \in Handler : handleAccept(g)
      PROVE  open[h] /\ writeQueue[h] # <<>>
  <2>1. CASE Readable
    BY <1>0, <2>1 DEF Readable, continueRead, TypeOK, KeySteps
  <2>2. CASE WriteFrame
    BY <1>0, <2>2 DEF WriteFrame, TypeOK, KeySteps
  <2>3. CASE Decide
    BY <1>0, <2>3 DEF Decide, TypeOK, KeySteps
  <2> QED
    BY <1>2, <2>1, <2>2, <2>3 DEF Selecting, Select, RunTask, TasksDone,
       CountConnection, Register, StillValid, Writable, WritesDone,
       CheckEmpty, NextKey
<1>3. CASE RunTask
  <2>1. Watched(h) /\ spc = "tasks"
    BY <1>0, <1>2, <1>3 DEF FramesWatched, RunTask, handleAccept
  <2>2. spc' = "dead" \/ Head(selectorTasks) # None
    BY <1>3 DEF RunTask, Valid
  <2>3. CASE spc' = "dead"
    BY <2>3 DEF Watched
  <2>4. CASE spc' # "dead"
    <3>1. PICK g \in Handler : /\ g = Head(selectorTasks)
                               /\ interest' = [interest EXCEPT ![g] = Ops]
                               /\ spc' = "tasks" /\ selectorTasks # <<>>
                               /\ selectorTasks' = Tail(selectorTasks)
      BY <1>0, <1>3, <2>4, HeadTailProperties DEF RunTask, Valid, TypeOK
    <3>2. CASE g = h
      BY <1>0, <3>1, <3>2 DEF Watched, TypeOK, Ops
    <3>3. CASE g # h /\ "WRITE" \in interest[h]
      BY <1>0, <3>1, <3>3 DEF Watched, TypeOK
    <3>4. ASSUME NEW i \in DOMAIN selectorTasks, selectorTasks[i] \in {h, None},
                 g # h
          PROVE  Watched(h)'
      <4>1. selectorTasks[i] # Head(selectorTasks)
        BY <3>1, <3>4, ReactorAssumption
      <4>2. \E j \in DOMAIN selectorTasks' : selectorTasks'[j] = selectorTasks[i]
        BY <1>0, <3>1, <4>1, TailKeeps DEF TypeOK
      <4> QED
        BY <3>4, <4>2 DEF Watched
    <3>5. CASE \E q \in Handler : ppc[q] = "update" /\ dest[q] = h
      BY <1>1, <3>5 DEF Watched
    <3> QED
      BY <2>1, <3>2, <3>3, <3>4, <3>5 DEF Watched
  <2> QED
    BY <2>3, <2>4
<1>4. ASSUME NEW g \in Handler, handleAccept(g) PROVE Watched(h)'
  <2>1. g \notin Accepted /\ open' = [open EXCEPT ![g] = TRUE] /\ writeQueue' = writeQueue
    BY <1>4 DEF handleAccept, Typed, Links, Selection, Accepted
  <2>2. g # h
    BY <1>0, <2>1 DEF Untouched
  <2>3. Watched(h)
    BY <1>0, <2>1, <2>2 DEF FramesWatched, TypeOK
  <2> QED
    BY <1>1, <1>4, <2>3, WatchKept DEF handleAccept
<1>5. CASE Register
  <2>1. Watched(h) /\ interest[cur] = {} /\ cur \in Handler
    BY <1>0, <1>2, <1>5
    DEF FramesWatched, Register, handleAccept, WakeupInv, NotYetRegistered,
        KeySteps
  <2>2. "WRITE" \in interest[h] => "WRITE" \in interest'[h]
    BY <1>0, <1>5, <2>1 DEF Register, TypeOK
  <2>3. /\ spc' # "decide" /\ selectorTasks' = selectorTasks
    BY <1>5 DEF Register
  <2> QED
    BY <1>1, <2>1, <2>2, <2>3, WatchKept
<1>6. CASE CheckEmpty
  <2>1. Watched(h) /\ writeQueue[h] # <<>>
    BY <1>0, <1>2, <1>6 DEF FramesWatched, CheckEmpty, handleAccept
  <2>2. /\ ~(spc' = "decide" /\ cur' = h)
        /\ UNCHANGED <<interest, selectorTasks>>
    BY <1>6, <2>1 DEF CheckEmpty
  <2> QED
    BY <1>1, <2>1, <2>2, WatchKept
<1>7. CASE Decide
  <2>1. Watched(h) /\ spc = "decide" /\ cur \in Handler
    BY <1>0, <1>2, <1>7 DEF FramesWatched, Decide, handleAccept, KeySteps
  <2>2. selectorTasks' = selectorTasks /\ spc' # "decide"
    BY <1>7 DEF Decide
  <2>3. cur = h \/ ("WRITE" \in interest[h] => "WRITE" \in interest'[h])
    BY <1>0, <1>7, <2>1 DEF Decide, TypeOK
  <2> QED
    BY <1>1, <2>1, <2>2, <2>3 DEF Watched
<1>8. CASE Select \/ TasksDone \/ CountConnection \/ Readable \/ StillValid
           \/ Writable \/ WriteFrame \/ WritesDone \/ \E g \in Handler : NextKey(g)
  <2>1. UNCHANGED <<interest, selectorTasks>> /\ spc' # "decide" /\ spc # "register"
    BY <1>8 DEF Select, TasksDone, CountConnection, Readable, StillValid,
       Writable, WriteFrame, WritesDone, NextKey, KeysDone
  <2>2. CASE \E g \in Handler : handleAccept(g)
    BY <1>4, <2>2
  <2>3. CASE ~\E g \in Handler : handleAccept(g)
    <3>1. Watched(h)
      BY <1>0, <1>2, <2>3 DEF FramesWatched
    <3> QED
      BY <1>1, <2>1, <3>1, WatchKept
  <2> QED
    BY <2>2, <2>3
<1> QED
  BY <1>3, <1>4, <1>5, <1>6, <1>7, <1>8 DEF Selecting

LEMMA WatchedTask ==
  ASSUME NEW p \in Handler, Typed, WakeupInv, Task(p) PROVE FramesWatched'
<1> SUFFICES ASSUME NEW h \in Handler, open'[h], writeQueue'[h] # <<>>
             PROVE  Watched(h)'
  BY DEF FramesWatched
<1> USE DEF Go, Takes, selVars, chanVars, poolVars, clientVars
<1>0. /\ TypeOK /\ FramesWatched
      /\ ppc[p] \in {"send", "update"} => dest[p] \in Handler
  BY DEF Typed, Links, TaskOperands, WakeupInv
<1>1. UNCHANGED <<spc, cur, interest>>
  BY DEF Task, Start, addConnection, Decode, close, process, send,
     updateInterestedOps, wakeup, Sent, closeConnection, Terminate
<1>2. open[h]
  BY <1>0 DEF Task, Start, addConnection, Decode, close, process, send,
     updateInterestedOps, wakeup, Sent, closeConnection, Terminate, TypeOK
<1>3. CASE send(p)
  <2>1. CASE dest[p] = h
    <3>1. ppc'[p] = "update" /\ dest'[p] = h
      BY <1>0, <1>3, <2>1 DEF send, TypeOK
    <3> QED
      BY <3>1 DEF Watched
  <2>2. CASE dest[p] # h
    <3>1. Watched(h)
      BY <1>0, <1>2, <1>3, <2>2 DEF FramesWatched, send, TypeOK
    <3>2. \A q \in Handler : ppc[q] = "update" => ppc'[q] = "update" /\ dest'[q] = dest[q]
      BY <1>0, <1>3 DEF send, TypeOK
    <3> QED
      BY <1>1, <1>3, <3>1, <3>2 DEF Watched, send
  <2> QED
    BY <2>1, <2>2
<1>4. CASE updateInterestedOps(p)
  <2>1. PICK e \in {dest[p], None} : selectorTasks' = Append(selectorTasks, e)
    BY <1>4 DEF updateInterestedOps
  <2>2. e \in Handler \cup {None} /\ dest[p] \in Handler /\ ppc[p] = "update"
    BY <1>0, <1>4, <2>1 DEF updateInterestedOps
  <2>3. /\ \A i \in DOMAIN selectorTasks : /\ i \in DOMAIN selectorTasks'
                                           /\ selectorTasks'[i] = selectorTasks[i]
        /\ \E i \in DOMAIN selectorTasks' : selectorTasks'[i] = e
    <3>1. selectorTasks \in Seq(Handler \cup {None})
      BY <1>0 DEF TypeOK
    <3> QED
      BY ONLY <2>1, <2>2, <3>1, AppendKeeps
  <2>4. Watched(h)
    BY <1>0, <1>2, <1>4 DEF FramesWatched, updateInterestedOps
  <2>5. CASE dest[p] = h
    BY <2>1, <2>3, <2>5 DEF Watched
  <2>6. CASE dest[p] # h
    <3>1. \A q \in Handler \ {p} : ppc'[q] = ppc[q] /\ dest'[q] = dest[q]
      BY <1>0, <1>4 DEF updateInterestedOps, TypeOK
    <3> QED
      BY <1>1, <2>3, <2>4, <2>6, <3>1 DEF Watched
  <2> QED
    BY <2>5, <2>6
<1>5. CASE ~send(p) /\ ~updateInterestedOps(p)
  <2>1. UNCHANGED <<writeQueue, selectorTasks>> /\ ppc[p] # "update"
    BY <1>5 DEF Task, Start, addConnection, Decode, close, process,
       wakeup, Sent, closeConnection, Terminate
  <2>2. \A q \in Handler \ {p} : ppc'[q] = ppc[q] /\ dest'[q] = dest[q]
    BY <1>0, <1>5 DEF Task, Start, addConnection, Decode, close, process,
       wakeup, Sent, closeConnection, Terminate, TypeOK
  <2>3. Watched(h)
    BY <1>0, <1>2, <2>1 DEF FramesWatched
  <2> QED
    BY <1>1, <2>1, <2>2, <2>3 DEF Watched
<1> QED
  BY <1>3, <1>4, <1>5

LEMMA AnnouncedSelecting ==
  Typed /\ WakeupInv /\ Selecting => TasksAnnounced' /\ NotYetRegistered'
<1> SUFFICES ASSUME Typed, WakeupInv, Selecting
             PROVE  TasksAnnounced' /\ NotYetRegistered'
  OBVIOUS
<1> USE DEF Step, OnKey, KeyDone, selVars, poolVars
<1>0. TypeOK /\ Untouched /\ TasksAnnounced /\ NotYetRegistered
  BY DEF Typed, Links, WakeupInv
<1>1. TasksAnnounced'
  <2>1. CASE Select \/ RunTask \/ TasksDone
    BY <2>1 DEF Select, RunTask, TasksDone, TasksAnnounced
  <2>2. CASE ~Select /\ ~RunTask /\ ~TasksDone
    <3>1. UNCHANGED <<woken, selectorTasks, ppc>> /\ spc \notin {"tasks", "dead"}
      BY <2>2 DEF Selecting, CountConnection, Register, Readable, StillValid,
         Writable, WriteFrame, WritesDone, CheckEmpty, Decide, NextKey,
         handleAccept
    <3> QED
      BY <1>0, <3>1 DEF TasksAnnounced
  <2> QED
    BY <2>1, <2>2
<1>2. NotYetRegistered'
  <2>1. ASSUME NEW h \in Handler, handleAccept(h) PROVE NotYetRegistered'
    <3>1. h \notin Accepted
      BY <2>1 DEF handleAccept, Typed, Links, Selection, Accepted
    <3> QED
      BY <1>0, <2>1, <3>1 DEF handleAccept, Untouched, NotYetRegistered
  <2>2. CASE CountConnection
    BY <1>0, <2>2, Zenon DEF CountConnection, NotYetRegistered, chanVars
  <2>3. CASE ~CountConnection /\ ~\E h \in Handler : handleAccept(h)
    <3>1. spc' \notin {"count", "register"}
      BY <2>3 DEF Selecting, Select, RunTask, TasksDone, Register, Readable,
         StillValid, Writable, WriteFrame, WritesDone, CheckEmpty, Decide,
         NextKey
    <3> QED
      BY <3>1 DEF NotYetRegistered
  <2> QED
    BY <2>1, <2>2, <2>3
<1> QED
  BY <1>1, <1>2

LEMMA AnnouncedTask ==
  ASSUME NEW p \in Handler, Typed, WakeupInv, Task(p)
  PROVE  TasksAnnounced' /\ NotYetRegistered'
<1> USE DEF Go, Takes, selVars, chanVars
<1>0. TypeOK /\ TasksAnnounced /\ NotYetRegistered
  BY DEF Typed, WakeupInv
<1>1. UNCHANGED <<spc, cur, interest>>
  BY DEF Task, Start, addConnection, Decode, close, process, send,
     updateInterestedOps, wakeup, Sent, closeConnection, Terminate
<1>2. NotYetRegistered'
  BY <1>0, <1>1 DEF NotYetRegistered
<1>3. CASE wakeup(p)
  <2>1. woken'
    BY <1>3 DEF wakeup
  <2> QED
    BY <1>2, <2>1 DEF TasksAnnounced
<1>4. CASE updateInterestedOps(p)
  <2>1. ppc'[p] = "wakeup"
    BY <1>0, <1>4 DEF updateInterestedOps, TypeOK
  <2> QED
    BY <1>2, <2>1 DEF TasksAnnounced
<1>5. CASE ~wakeup(p) /\ ~updateInterestedOps(p)
  <2>1. UNCHANGED <<woken, selectorTasks>> /\ ppc[p] # "wakeup"
    BY <1>5 DEF Task, Start, addConnection, Decode, close, process, send,
       closeConnection, Terminate
  <2>2. \A q \in Handler \ {p} : ppc'[q] = ppc[q]
    BY <1>0, <1>5 DEF Task, Start, addConnection, Decode, close, process, send,
       closeConnection, Terminate, TypeOK, poolVars
  <2>3. \A q \in Handler : ppc[q] = "wakeup" => ppc'[q] = "wakeup"
    BY <2>1, <2>2
  <2>4. UNCHANGED <<woken, selectorTasks, spc>>
    BY <1>1, <2>1
  <2> QED
    BY <1>0, <1>2, <2>3, <2>4 DEF TasksAnnounced
<1> QED
  BY <1>2, <1>3, <1>4, <1>5

LEMMA WakeupNext == Typed /\ WakeupInv /\ [Next]_vars => WakeupInv'
<1> SUFFICES ASSUME Typed, WakeupInv, [Next]_vars PROVE WakeupInv'
  OBVIOUS
<1>1. CASE Selecting
  BY <1>1, WatchedSelecting, AnnouncedSelecting DEF WakeupInv
<1>2. ASSUME NEW p \in Handler, Task(p) PROVE WakeupInv'
  BY <1>2, WatchedTask, AnnouncedTask DEF WakeupInv
<1>3. CASE UNCHANGED <<selVars, selectorTasks, chanVars, writeQueue, poolVars>>
  BY <1>3 DEF selVars, chanVars, poolVars, WakeupInv, FramesWatched, Watched,
     TasksAnnounced, NotYetRegistered
<1>4. UNCHANGED <<selVars, selectorTasks, chanVars, writeQueue, poolVars>>
      \/ Selecting \/ \E p \in Handler : Task(p)
  BY DEF Next, Quiet, vars, Client, Connect, Transmit, Drain, GoAway,
     ServerUnchanged
<1> QED
  BY <1>1, <1>2, <1>3, <1>4

\* However the threads of the pool and the selector thread are interleaved, no
\* frame that was added to a write queue is forgotten: send, its task in
\* selectorTasks, wakeup and continueWrite never leave it to nobody.
THEOREM NoWakeupLost == Spec => []NoLostWakeup
<1>1. WakeupInv => NoLostWakeup
  BY DEF WakeupInv, FramesWatched, Watched, TasksAnnounced, NoLostWakeup, KeysDone
<1> QED
  BY TypedAlways, WakeupInit, WakeupNext, <1>1, PTL DEF Spec
=============================================================================

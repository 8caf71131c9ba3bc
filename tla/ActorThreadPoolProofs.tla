------------------------ MODULE ActorThreadPoolProofs ------------------------
(***************************************************************************)
(* The tasks of an actor never overlap, and none is left behind: proofs for*)
(* any number of actors, pool threads and tasks.                           *)
(*                                                                         *)
(* The argument: an actor in playingNow has exactly one token, which is a  *)
(* job in the work queue, a busy pool thread, or the selector thread about *)
(* to execute its first job.  Only the holder of the actor's monitor makes,*)
(* passes on or destroys the token.                                        *)
(***************************************************************************)
EXTENDS ActorThreadPool, SequenceTheorems, TLAPS

InSubmitCall == {"acquire", "check", "execute", "pend", "return"}
Critical == {"check", "execute", "pend", "return", "drain", "leave"}

\* Where the threads can stand, and what they hold there.
Places ==
  /\ pc[Selector] \in InSubmitCall \cup {"ready", "end"}
  /\ \A w \in Worker : pc[w] \in {"wait", "run", "acquire", "check", "execute",
                                  "pend", "return", "complete", "drain", "leave"}
  /\ \A t \in Thread : pc[t] \notin {"ready", "wait", "end"} => act[t] \in Act
  /\ \A t \in Thread : pc[t] \in InSubmitCall => arg[t] \in Task

\* A thread in a critical section holds the monitor of its actor.
Monitors == \A t \in Thread : pc[t] \in Critical => monitor[act[t]] = t

\* A job in the work queue is the only token of its actor.
JobTokens == \A i \in 1..Len(workQueue) :
  /\ workQueue[i].act \in playingNow
  /\ \A w \in Worker : Busy(w) => act[w] # workQueue[i].act
  /\ pc[Selector] = "execute" => act[Selector] # workQueue[i].act
  /\ \A j \in 1..Len(workQueue) : workQueue[i].act = workQueue[j].act => i = j

\* So is a busy thread; it never executes a first job.
BusyTokens == \A w \in Worker : Busy(w) =>
  /\ act[w] \in playingNow /\ pc[w] # "execute"
  /\ pc[Selector] = "execute" => act[w] # act[Selector]

SelectorToken == pc[Selector] = "execute" => act[Selector] \in playingNow

\* No two threads are busy with one actor.
OneBusyThread ==
  \A v, w \in Worker : Busy(v) /\ Busy(w) /\ act[v] = act[w] => v = w

\* There is at most one token of an actor, and its actor is in playingNow.
OneToken == OneBusyThread /\ JobTokens /\ BusyTokens /\ SelectorToken

SafetyInv == TypeOK /\ Places /\ Monitors /\ OneToken

-----------------------------------------------------------------------------
LEMMA TypeInit == Init => TypeOK /\ Places
<1> SUFFICES ASSUME Init PROVE TypeOK /\ Places
  OBVIOUS
<1> USE PoolAssumption DEF Init
<1>1. <<>> \in Seq(Task) /\ <<>> \in Seq(Job)
  OBVIOUS
<1>2. TypeOK
  BY <1>1 DEF TypeOK, Thread
<1>3. Places
  BY DEF Places, Thread, InSubmitCall
<1> QED
  BY <1>2, <1>3

LEMMA TypeNext == TypeOK /\ Places /\ [Next]_vars => TypeOK' /\ Places'
<1> SUFFICES ASSUME TypeOK, Places, [Next]_vars PROVE TypeOK' /\ Places'
  OBVIOUS
<1> USE PoolAssumption DEF TypeOK, Places, Thread, InSubmitCall
<1>1. ASSUME NEW t \in Thread, NEW a \in Act, Call(t, a)
      PROVE  TypeOK' /\ Places'
  <2>1. issued + 1 \in Task /\ issued + 1 \in Nat
    BY <1>1 DEF Call, Task
  <2>2. TypeOK'
    BY <1>1, <2>1 DEF Call, Move
  <2>3. Places'
    <3>1. CASE t = Selector
      BY <1>1, <2>1, <3>1 DEF Call, Move
    <3>2. CASE t \in Worker
      BY <1>1, <2>1, <3>2 DEF Call, Move
    <3> QED
      BY <3>1, <3>2
  <2> QED
    BY <2>2, <2>3
<1>2. ASSUME NEW t \in Thread, EnterSubmit(t) PROVE TypeOK' /\ Places'
  BY <1>2 DEF EnterSubmit, Acquire, Move
<1>3. ASSUME NEW t \in Thread, CheckPlaying(t) PROVE TypeOK' /\ Places'
  BY <1>3 DEF CheckPlaying, Move
<1>4. ASSUME NEW t \in Thread, ExecuteFirst(t) PROVE TypeOK' /\ Places'
  <2>1. [act |-> act[t], task |-> arg[t]] \in Job
    BY <1>4 DEF ExecuteFirst, Move, Job
  <2>2. workQueue' \in Seq(Job)
    BY <1>4, <2>1, AppendProperties DEF ExecuteFirst, Execute
  <2> QED
    BY <1>4, <2>2 DEF ExecuteFirst, Move
<1>5. ASSUME NEW t \in Thread, AddPending(t) PROVE TypeOK' /\ Places'
  BY <1>5 DEF AddPending, Move
<1>6. ASSUME NEW w \in Worker, TakeJob(w) PROVE TypeOK' /\ Places'
  <2>1. Head(workQueue) \in Job /\ Tail(workQueue) \in Seq(Job)
    BY <1>6, HeadTailProperties DEF TakeJob
  <2>2. Head(workQueue).act \in Act /\ Head(workQueue).task \in Task
    BY <2>1 DEF Job
  <2> QED
    BY <1>6, <2>1, <2>2 DEF TakeJob, Move
<1>7. ASSUME NEW w \in Worker, EndTask(w) PROVE TypeOK' /\ Places'
  BY <1>7 DEF EndTask, Move
<1>8. ASSUME NEW w \in Worker, EnterComplete(w) PROVE TypeOK' /\ Places'
  BY <1>8 DEF EnterComplete, Acquire, Move
<1>9. ASSUME NEW w \in Worker, Drain(w) PROVE TypeOK' /\ Places'
  <2>1. act[w] \in Act
    BY <1>9 DEF Drain, Move
  <2>2. CASE pending[act[w]] = <<>>
    BY <1>9, <2>1, <2>2 DEF Drain, Move
  <2>3. CASE pending[act[w]] # <<>>
    <3>1. /\ Head(pending[act[w]]) \in Task
          /\ Tail(pending[act[w]]) \in Seq(Task)
      BY <2>1, <2>3, HeadTailProperties
    <3>2. [act |-> act[w], task |-> Head(pending[act[w]])] \in Job
      BY <2>1, <3>1 DEF Job
    <3>3. /\ Execute(act[w], Head(pending[act[w]]))
          /\ pending' = [pending EXCEPT ![act[w]] = Tail(@)]
          /\ playingNow' = playingNow
      BY <1>9, <2>3 DEF Drain
    <3>4. workQueue' \in Seq(Job)
      BY <3>2, <3>3, AppendProperties DEF Execute
    <3>5. pending' \in [Act -> Seq(Task)]
      BY <3>1, <3>3
    <3> QED
      BY <1>9, <3>3, <3>4, <3>5 DEF Drain, Move
  <2> QED
    BY <2>2, <2>3
<1>10. CASE Shutdown
  BY <1>10 DEF Shutdown, Move
<1>11. CASE UNCHANGED vars
  BY <1>11 DEF vars
<1>12. ASSUME NEW t \in Thread, LeaveSubmit(t) PROVE TypeOK' /\ Places'
  BY <1>12 DEF LeaveSubmit, Move, Release
<1>13. ASSUME NEW w \in Worker, LeaveComplete(w) PROVE TypeOK' /\ Places'
  BY <1>13 DEF LeaveComplete, Move, Release
<1> QED
  BY <1>1, <1>2, <1>3, <1>4, <1>5, <1>6, <1>7, <1>8, <1>9, <1>10, <1>11,
     <1>12, <1>13
  DEF Next, InSubmit, Work, Rest

-----------------------------------------------------------------------------
\* No thread enters a critical section whose monitor another one holds.
LEMMA MonitorsNext ==
  TypeOK /\ Places /\ Monitors /\ [Next]_vars => Monitors'
<1> SUFFICES ASSUME TypeOK, Places, Monitors, [Next]_vars PROVE Monitors'
  OBVIOUS
<1> USE PoolAssumption
    DEF TypeOK, Places, Monitors, Thread, InSubmitCall, Critical
<1>1. ASSUME NEW t \in Thread, NEW a \in Act, Call(t, a) PROVE Monitors'
  BY <1>1 DEF Call, Move
<1>2. ASSUME NEW t \in Thread, EnterSubmit(t) PROVE Monitors'
  BY <1>2 DEF EnterSubmit, Acquire, Move
<1>3. ASSUME NEW t \in Thread, CheckPlaying(t) PROVE Monitors'
  BY <1>3 DEF CheckPlaying, Move
<1>4. ASSUME NEW t \in Thread, ExecuteFirst(t) PROVE Monitors'
  BY <1>4 DEF ExecuteFirst, Move
<1>5. ASSUME NEW t \in Thread, AddPending(t) PROVE Monitors'
  BY <1>5 DEF AddPending, Move
<1>6. ASSUME NEW w \in Worker, TakeJob(w) PROVE Monitors'
  BY <1>6 DEF TakeJob, Move
<1>7. ASSUME NEW w \in Worker, EndTask(w) PROVE Monitors'
  BY <1>7 DEF EndTask, Move
<1>8. ASSUME NEW w \in Worker, EnterComplete(w) PROVE Monitors'
  BY <1>8 DEF EnterComplete, Acquire, Move
<1>9. ASSUME NEW w \in Worker, Drain(w) PROVE Monitors'
  BY <1>9 DEF Drain, Move
<1>10. CASE Shutdown
  BY <1>10 DEF Shutdown, Move
<1>11. CASE UNCHANGED vars
  BY <1>11 DEF vars
<1>12. ASSUME NEW t \in Thread, LeaveSubmit(t) PROVE Monitors'
  BY <1>12 DEF LeaveSubmit, Move, Release
<1>13. ASSUME NEW w \in Worker, LeaveComplete(w) PROVE Monitors'
  BY <1>13 DEF LeaveComplete, Move, Release
<1> QED
  BY <1>1, <1>2, <1>3, <1>4, <1>5, <1>6, <1>7, <1>8, <1>9, <1>10, <1>11,
     <1>12, <1>13
  DEF Next, InSubmit, Work, Rest

-----------------------------------------------------------------------------
\* A step that moves no token and forgets no actor of playingNow.
LEMMA TokensStay ==
  ASSUME OneToken, workQueue' = workQueue, playingNow \subseteq playingNow',
         \A w \in Worker : Busy(w)' => Busy(w) /\ act[w]' = act[w],
         \A w \in Worker : pc[w]' = "execute" => pc[w] = "execute",
         pc[Selector]' = "execute" =>
           pc[Selector] = "execute" /\ act[Selector]' = act[Selector]
  PROVE  OneToken'
  BY DEF OneToken, OneBusyThread, JobTokens, BusyTokens, SelectorToken, Busy

LEMMA OneTokenNext ==
  TypeOK /\ Places /\ OneToken /\ [Next]_vars => OneToken'
<1> SUFFICES ASSUME TypeOK, Places, OneToken, [Next]_vars PROVE OneToken'
  OBVIOUS
<1> USE PoolAssumption DEF TypeOK, Places, Thread, InSubmitCall
<1>1. ASSUME NEW t \in Thread, NEW a \in Act, Call(t, a) PROVE OneToken'
  BY <1>1, TokensStay DEF Call, Move, Busy
<1>2. ASSUME NEW t \in Thread, EnterSubmit(t) PROVE OneToken'
  BY <1>2, TokensStay DEF EnterSubmit, Acquire, Move, Busy
<1>3. ASSUME NEW t \in Thread, CheckPlaying(t) PROVE OneToken'
  <2>1. CASE act[t] \in playingNow
    BY <1>3, <2>1, TokensStay DEF CheckPlaying, Move, Busy
  \* The selector makes the token of an actor that had none.
  <2>2. CASE act[t] \notin playingNow
    <3>1. t = Selector
      BY <1>3, <2>2 DEF CheckPlaying, Move, OneToken, BusyTokens, Busy
    <3> QED
      BY <1>3, <2>2, <3>1
      DEF CheckPlaying, Move, OneToken, OneBusyThread, JobTokens, BusyTokens,
          SelectorToken, Busy
  <2> QED
    BY <2>1, <2>2
<1>4. ASSUME NEW t \in Thread, ExecuteFirst(t) PROVE OneToken'
  <2>1. t = Selector /\ pc[Selector] = "execute" /\ act[Selector] \in Act
    BY <1>4 DEF ExecuteFirst, Move, OneToken, BusyTokens, Busy
  <2>2. /\ \A w \in Worker : (Busy(w)' <=> Busy(w)) /\ act[w]' = act[w]
        /\ \A w \in Worker : pc[w]' = pc[w]
        /\ pc[Selector]' # "execute" /\ playingNow' = playingNow
    BY <1>4, <2>1 DEF ExecuteFirst, Move, Busy
  <2>3. CASE stopped
    BY <1>4, <2>2, <2>3, TokensStay DEF ExecuteFirst, Execute
  <2>4. CASE ~stopped
    <3> DEFINE job == [act |-> act[t], task |-> arg[t]]
    <3>1. workQueue' = Append(workQueue, job) /\ job \in Job /\ job.act = act[Selector]
      BY <1>4, <2>1, <2>4 DEF ExecuteFirst, Execute, Job
    <3> HIDE DEF job
    <3>2. /\ Len(workQueue') = Len(workQueue) + 1
          /\ \A i \in 1..Len(workQueue) : workQueue'[i] = workQueue[i]
          /\ workQueue'[Len(workQueue) + 1] = job
      BY <3>1, AppendProperties
    <3> QED
      BY <2>1, <2>2, <3>1, <3>2 DEF OneToken, OneBusyThread, JobTokens, BusyTokens, SelectorToken
  <2> QED
    BY <2>3, <2>4
<1>5. ASSUME NEW t \in Thread, AddPending(t) PROVE OneToken'
  BY <1>5, TokensStay DEF AddPending, Move, Busy
\* The token of the first job's actor passes to the thread that takes it.
<1>6. ASSUME NEW w \in Worker, TakeJob(w) PROVE OneToken'
  <2>1. /\ Head(workQueue) = workQueue[1] /\ Len(workQueue) \in Nat \ {0}
        /\ Len(workQueue') = Len(workQueue) - 1
        /\ \A i \in 1..Len(workQueue') : workQueue'[i] = workQueue[i + 1]
    BY <1>6, HeadTailProperties, EmptySeq DEF TakeJob
  <2>2. /\ \A i \in 1..Len(workQueue') : i + 1 \in 1..Len(workQueue)
        /\ 1 \in 1..Len(workQueue)
    BY <2>1
  <2>3. /\ Busy(w)' /\ act[w]' = workQueue[1].act /\ ~Busy(w)
        /\ \A v \in Worker : v # w => (Busy(v)' <=> Busy(v)) /\ act[v]' = act[v]
        /\ \A v \in Worker : pc[v]' = "execute" => pc[v] = "execute" /\ v # w
        /\ pc[Selector]' = pc[Selector] /\ act[Selector]' = act[Selector]
        /\ playingNow' = playingNow
    BY <1>6, <2>1 DEF TakeJob, Move, Busy
  <2> HIDE DEF TypeOK, Places, Thread
  <2>10. OneBusyThread'
    BY <2>2, <2>3 DEF OneToken, OneBusyThread, JobTokens
  <2>11. BusyTokens'
    BY <2>2, <2>3 DEF OneToken, JobTokens, BusyTokens
  <2>4. SelectorToken'
    BY <2>3 DEF OneToken, SelectorToken
  <2>5. JobTokens'
    <3> SUFFICES ASSUME NEW i \in 1..Len(workQueue')
                 PROVE  /\ workQueue'[i].act \in playingNow'
                        /\ \A v \in Worker : Busy(v)' => act[v]' # workQueue'[i].act
                        /\ pc[Selector]' = "execute" => act[Selector]' # workQueue'[i].act
                        /\ \A j \in 1..Len(workQueue') :
                             workQueue'[i].act = workQueue'[j].act => i = j
      BY DEF JobTokens
    <3>1. workQueue'[i] = workQueue[i + 1] /\ i + 1 \in 1..Len(workQueue) /\ i + 1 # 1
      BY <2>1, <2>2
    <3>2. workQueue[i + 1].act # workQueue[1].act
      BY <2>2, <3>1 DEF OneToken, JobTokens
    <3>3. \A j \in 1..Len(workQueue') :
            workQueue'[i].act = workQueue'[j].act => i = j
      <4> SUFFICES ASSUME NEW j \in 1..Len(workQueue'),
                          workQueue'[i].act = workQueue'[j].act
                   PROVE  i = j
        OBVIOUS
      <4>1. workQueue'[j] = workQueue[j + 1] /\ j + 1 \in 1..Len(workQueue)
        BY <2>1, <2>2
      <4>2. i + 1 = j + 1
        BY <3>1, <4>1 DEF OneToken, JobTokens
      <4> QED
        BY <2>1, <4>2
    <3> QED
      BY <2>3, <3>1, <3>2, <3>3 DEF OneToken, JobTokens
  <2> QED
    BY <2>10, <2>11, <2>4, <2>5 DEF OneToken
<1>7. ASSUME NEW w \in Worker, EndTask(w) PROVE OneToken'
  BY <1>7, TokensStay DEF EndTask, Move, Busy
<1>8. ASSUME NEW w \in Worker, EnterComplete(w) PROVE OneToken'
  BY <1>8, TokensStay DEF EnterComplete, Acquire, Move, Busy
\* The token goes back to the work queue, or the actor has none any more.
<1>9. ASSUME NEW w \in Worker, Drain(w) PROVE OneToken'
  <2>1. /\ Busy(w) /\ ~Busy(w)' /\ act[w] \in Act
        /\ \A v \in Worker : v # w => (Busy(v)' <=> Busy(v)) /\ act[v]' = act[v]
        /\ \A v \in Worker : pc[v]' = "execute" => pc[v] = "execute" /\ v # w
        /\ pc[Selector]' = pc[Selector] /\ act[Selector]' = act[Selector]
    BY <1>9 DEF Drain, Move, Busy
  <2>2. CASE pending[act[w]] = <<>>
    <3>1. workQueue' = workQueue /\ playingNow' = playingNow \ {act[w]}
      BY <1>9, <2>2 DEF Drain
    <3> HIDE DEF TypeOK, Places, Thread
    <3>2. OneBusyThread' /\ BusyTokens' /\ SelectorToken'
      BY <2>1, <3>1 DEF OneToken, OneBusyThread, BusyTokens, SelectorToken
    <3>3. JobTokens'
      BY <2>1, <3>1 DEF OneToken, JobTokens
    <3> QED
      BY <3>2, <3>3 DEF OneToken
  <2>3. CASE pending[act[w]] # <<>>
    <3> DEFINE job == [act |-> act[w], task |-> Head(pending[act[w]])]
    <3>1. /\ playingNow' = playingNow
          /\ workQueue' = IF stopped THEN workQueue ELSE Append(workQueue, job)
      BY <1>9, <2>3 DEF Drain, Execute
    <3>2. job \in Job /\ job.act = act[w]
      BY <2>1, <2>3, HeadTailProperties DEF Job
    <3> HIDE DEF job, TypeOK, Places, Thread
    <3>10. OneBusyThread' /\ BusyTokens' /\ SelectorToken'
      BY <2>1, <3>1 DEF OneToken, OneBusyThread, BusyTokens, SelectorToken
    <3>3. CASE stopped
      <4>1. workQueue' = workQueue
        BY <3>1, <3>3
      <4>2. JobTokens'
        BY <2>1, <3>1, <4>1 DEF OneToken, JobTokens
      <4> QED
        BY <3>10, <4>2 DEF OneToken
    <3>4. CASE ~stopped
      <4>1. /\ Len(workQueue) \in Nat /\ Len(workQueue') = Len(workQueue) + 1
            /\ \A i \in 1..Len(workQueue) : workQueue'[i] = workQueue[i]
            /\ workQueue'[Len(workQueue) + 1] = job
        BY <3>1, <3>2, <3>4, AppendProperties, LenProperties DEF TypeOK
      <4>2. \A i \in 1..Len(workQueue') :
              i \in 1..Len(workQueue) \/ i = Len(workQueue) + 1
        BY <4>1
      <4>3. act[w] \in playingNow /\ \A i \in 1..Len(workQueue) :
                                       workQueue[i].act # act[w]
        BY <2>1 DEF OneToken, JobTokens, BusyTokens
      <4>4. /\ \A v \in Worker : Busy(v)' => act[v]' # act[w]
            /\ pc[Selector]' = "execute" => act[Selector]' # act[w]
        BY <2>1 DEF OneToken, OneBusyThread, BusyTokens
      <4>5. JobTokens'
        BY <2>1, <3>1, <3>2, <4>1, <4>2, <4>3, <4>4 DEF OneToken, JobTokens
      <4> QED
        BY <3>10, <4>5 DEF OneToken
    <3> QED
      BY <3>3, <3>4
  <2> QED
    BY <2>2, <2>3
<1>10. CASE Shutdown
  BY <1>10 DEF Shutdown, Move, OneToken, OneBusyThread, JobTokens, BusyTokens,
              SelectorToken, Busy
<1>11. CASE UNCHANGED vars
  BY <1>11, TokensStay DEF vars, Busy
<1>12. ASSUME NEW t \in Thread, LeaveSubmit(t) PROVE OneToken'
  BY <1>12, TokensStay DEF LeaveSubmit, Move, Busy
<1>13. ASSUME NEW w \in Worker, LeaveComplete(w) PROVE OneToken'
  BY <1>13, TokensStay DEF LeaveComplete, Move, Busy
<1> QED
  BY <1>1, <1>2, <1>3, <1>4, <1>5, <1>6, <1>7, <1>8, <1>9, <1>10, <1>11,
     <1>12, <1>13
  DEF Next, InSubmit, Work, Rest

-----------------------------------------------------------------------------
Queued(a) == \E i \in 1..Len(workQueue) : workQueue[i].act = a
BusyWith(a) == \E w \in Worker : Busy(w) /\ act[w] = a

\* As long as the pool is open an actor in playingNow does have a token.
PlayersHaveToken == ~stopped => \A a \in playingNow :
  Queued(a) \/ BusyWith(a) \/ (pc[Selector] = "execute" /\ act[Selector] = a)

\* Tasks are pending for actors in playingNow only, and not before the first
\* job of the actor is in the work queue.
PendingBehindToken ==
  /\ \A a \in Act : pending[a] # <<>> => a \in playingNow
  /\ \A t \in Thread : pc[t] = "pend" => act[t] \in playingNow
  /\ pc[Selector] = "execute" => pending[act[Selector]] = <<>>

NoneStranded == PlayersHaveToken /\ PendingBehindToken

\* A step that takes no token away and does not touch pending tasks.
LEMMA TokensKept ==
  ASSUME NoneStranded, workQueue' = workQueue, playingNow' = playingNow,
         pending' = pending, stopped' = stopped,
         \A w \in Worker : Busy(w) => Busy(w)' /\ act[w]' = act[w],
         \A t \in Thread : pc[t]' = "pend" => pc[t] = "pend" /\ act[t]' = act[t],
         pc[Selector]' = "execute" <=> pc[Selector] = "execute",
         pc[Selector] = "execute" => act[Selector]' = act[Selector]
  PROVE  NoneStranded'
<1>1. PlayersHaveToken'
  BY DEF NoneStranded, PlayersHaveToken, Queued, BusyWith
<1>2. PendingBehindToken'
  BY DEF NoneStranded, PendingBehindToken
<1> QED
  BY <1>1, <1>2 DEF NoneStranded

LEMMA NoneStrandedNext ==
  SafetyInv /\ NoneStranded /\ [Next]_vars => NoneStranded'
<1> SUFFICES ASSUME TypeOK, Places, Monitors, OneToken, NoneStranded, [Next]_vars
             PROVE  NoneStranded'
  BY DEF SafetyInv
<1> USE PoolAssumption DEF Thread
<1>1. ASSUME NEW t \in Thread, NEW a \in Act, Call(t, a) PROVE NoneStranded'
  BY <1>1, TokensKept DEF Call, Move, Busy, TypeOK
<1>2. ASSUME NEW t \in Thread, EnterSubmit(t) PROVE NoneStranded'
  BY <1>2, TokensKept DEF EnterSubmit, Acquire, Move, Busy, TypeOK
<1>3. ASSUME NEW t \in Thread, CheckPlaying(t) PROVE NoneStranded'
  <2>1. /\ pc[t] = "check" /\ act[t] \in Act
        /\ \A w \in Worker : Busy(w) => Busy(w)'
    BY <1>3 DEF CheckPlaying, Move, Busy, TypeOK, Places
  <2>2. CASE act[t] \in playingNow
    <3>1. /\ playingNow' = playingNow /\ pc' = [pc EXCEPT ![t] = "pend"]
      BY <1>3, <2>2 DEF CheckPlaying, Move
    <3>2. PlayersHaveToken'
      BY <1>3, <2>1, <3>1
      DEF CheckPlaying, NoneStranded, PlayersHaveToken, Queued, BusyWith, TypeOK
    <3>3. PendingBehindToken'
      BY <1>3, <2>2, <3>1
      DEF CheckPlaying, NoneStranded, PendingBehindToken, TypeOK
    <3> QED
      BY <3>2, <3>3 DEF NoneStranded
  <2>3. CASE act[t] \notin playingNow
    <3>1. t = Selector
      BY <2>1, <2>3 DEF OneToken, BusyTokens, Busy
    <3>2. /\ playingNow' = playingNow \cup {act[t]}
          /\ pc' = [pc EXCEPT ![t] = "execute"]
      BY <1>3, <2>3 DEF CheckPlaying, Move
    <3>3. PlayersHaveToken'
      BY <1>3, <2>1, <3>1, <3>2
      DEF CheckPlaying, NoneStranded, PlayersHaveToken, Queued, BusyWith, TypeOK
    <3>4. PendingBehindToken'
      BY <1>3, <2>1, <2>3, <3>1, <3>2
      DEF CheckPlaying, NoneStranded, PendingBehindToken, TypeOK
    <3> QED
      BY <3>3, <3>4 DEF NoneStranded
  <2> QED
    BY <2>2, <2>3
<1>4. ASSUME NEW t \in Thread, ExecuteFirst(t) PROVE NoneStranded'
  <2>1. /\ t = Selector /\ pc[Selector] = "execute"
        /\ act[Selector] \in Act /\ arg[Selector] \in Task
    BY <1>4
    DEF ExecuteFirst, Move, OneToken, BusyTokens, Busy, Places, InSubmitCall
  <2>2. /\ \A w \in Worker : Busy(w) => Busy(w)' /\ act[w]' = act[w]
        /\ \A w \in Worker : pc[w]' = pc[w]
        /\ pc[Selector]' \notin {"execute", "pend"}
        /\ playingNow' = playingNow /\ pending' = pending /\ stopped' = stopped
    BY <1>4, <2>1 DEF ExecuteFirst, Move, Busy, TypeOK
  <2>3. PlayersHaveToken'
    <3> SUFFICES ASSUME ~stopped, NEW a \in playingNow
                 PROVE  Queued(a)' \/ BusyWith(a)'
      BY <2>2 DEF PlayersHaveToken
    <3> DEFINE job == [act |-> act[t], task |-> arg[t]]
    <3>1. workQueue' = Append(workQueue, job) /\ job \in Job /\ job.act = act[Selector]
      BY <1>4, <2>1 DEF ExecuteFirst, Execute, Job
    <3> HIDE DEF job
    <3>2. /\ Len(workQueue) \in Nat /\ Len(workQueue') = Len(workQueue) + 1
          /\ \A i \in 1..Len(workQueue) : workQueue'[i] = workQueue[i]
          /\ workQueue'[Len(workQueue) + 1] = job
      BY <3>1, AppendProperties, LenProperties DEF TypeOK
    <3>3. CASE a = act[Selector]
      BY <3>1, <3>2, <3>3 DEF Queued
    <3>4. CASE Queued(a)
      BY <3>2, <3>4 DEF Queued
    <3>5. CASE BusyWith(a)
      BY <2>2, <3>5 DEF BusyWith
    <3> QED
      BY <3>3, <3>4, <3>5 DEF NoneStranded, PlayersHaveToken
  <2>4. PendingBehindToken'
    BY <1>4, <2>1, <2>2
    DEF NoneStranded, PendingBehindToken, ExecuteFirst, TypeOK
  <2> QED
    BY <2>3, <2>4 DEF NoneStranded
<1>5. ASSUME NEW t \in Thread, AddPending(t) PROVE NoneStranded'
  <2>1. /\ pc[t] = "pend" /\ act[t] \in Act /\ monitor[act[t]] = t
        /\ act[t] \in playingNow
    BY <1>5
    DEF AddPending, Move, Places, Monitors, Critical, NoneStranded,
        PendingBehindToken
  <2>2. /\ workQueue' = workQueue /\ playingNow' = playingNow /\ stopped' = stopped
        /\ pending' = [pending EXCEPT ![act[t]] = Append(@, arg[t])]
        /\ \A w \in Worker : Busy(w) => Busy(w)' /\ act[w]' = act[w]
        /\ \A u \in Thread : pc[u]' = "pend" => pc[u] = "pend" /\ act[u]' = act[u]
        /\ pc[Selector]' = "execute" <=> pc[Selector] = "execute"
        /\ pc[Selector] = "execute" => act[Selector]' = act[Selector]
    BY <1>5 DEF AddPending, Move, Busy, TypeOK
  <2>3. PlayersHaveToken'
    BY <2>2 DEF NoneStranded, PlayersHaveToken, Queued, BusyWith
  \* The selector is not in the critical section of the same actor.
  <2>4. pc[Selector] = "execute" => act[Selector] # act[t] /\ act[Selector] \in Act
    BY <2>1 DEF Monitors, Critical, Places
  <2>5. PendingBehindToken'
    BY <2>1, <2>2, <2>4 DEF NoneStranded, PendingBehindToken, TypeOK
  <2> QED
    BY <2>3, <2>5 DEF NoneStranded
<1>6. ASSUME NEW w \in Worker, TakeJob(w) PROVE NoneStranded'
  <2>1. /\ Head(workQueue) = workQueue[1] /\ Len(workQueue) \in Nat \ {0}
        /\ Len(workQueue') = Len(workQueue) - 1
        /\ \A i \in 1..Len(workQueue') : workQueue'[i] = workQueue[i + 1]
    BY <1>6, HeadTailProperties, EmptySeq DEF TakeJob, TypeOK
  <2>2. /\ Busy(w)' /\ act[w]' = workQueue[1].act /\ ~Busy(w)
        /\ \A v \in Worker : Busy(v) => Busy(v)' /\ act[v]' = act[v]
        /\ \A t \in Thread : pc[t]' = "pend" => pc[t] = "pend" /\ act[t]' = act[t]
        /\ pc[Selector]' = pc[Selector] /\ act[Selector]' = act[Selector]
        /\ playingNow' = playingNow /\ pending' = pending /\ stopped' = stopped
    BY <1>6, <2>1 DEF TakeJob, Move, Busy, TypeOK
  <2>3. ASSUME NEW a, Queued(a) PROVE Queued(a)' \/ BusyWith(a)'
    <3>1. PICK i \in 1..Len(workQueue) : workQueue[i].act = a
      BY <2>3 DEF Queued
    <3>2. CASE i = 1
      BY <2>2, <3>1, <3>2 DEF BusyWith
    <3>3. CASE i # 1
      <4>1. i - 1 \in 1..Len(workQueue') /\ workQueue'[i - 1] = workQueue[i]
        BY <2>1, <3>3
      <4> QED
        BY <3>1, <4>1 DEF Queued
    <3> QED
      BY <3>2, <3>3
  <2>4. PlayersHaveToken'
    BY <2>2, <2>3 DEF NoneStranded, PlayersHaveToken, BusyWith
  <2>5. PendingBehindToken'
    BY <2>2 DEF NoneStranded, PendingBehindToken
  <2> QED
    BY <2>4, <2>5 DEF NoneStranded
<1>7. ASSUME NEW w \in Worker, EndTask(w) PROVE NoneStranded'
  BY <1>7, TokensKept DEF EndTask, Move, Busy, TypeOK
<1>8. ASSUME NEW w \in Worker, EnterComplete(w) PROVE NoneStranded'
  BY <1>8, TokensKept DEF EnterComplete, Acquire, Move, Busy, TypeOK
<1>9. ASSUME NEW w \in Worker, Drain(w) PROVE NoneStranded'
  <2>1. /\ pc[w] = "drain" /\ Busy(w) /\ act[w] \in Act /\ monitor[act[w]] = w
    BY <1>9 DEF Drain, Move, Busy, Places, Monitors, Critical
  <2>2. /\ \A v \in Worker : v # w /\ Busy(v) => Busy(v)' /\ act[v]' = act[v]
        /\ \A t \in Thread : pc[t]' = "pend" => pc[t] = "pend" /\ act[t]' = act[t]
        /\ pc[Selector]' = pc[Selector] /\ act[Selector]' = act[Selector]
        /\ stopped' = stopped
    BY <1>9 DEF Drain, Move, Busy, TypeOK
  <2>3. /\ \A t \in Thread : pc[t] = "pend" => act[t] # act[w]
        /\ pc[Selector] = "execute" => act[Selector] # act[w] /\ act[Selector] \in Act
    BY <2>1 DEF Monitors, Critical, Places
  <2>4. CASE pending[act[w]] = <<>>
    <3>1. /\ workQueue' = workQueue /\ pending' = pending
          /\ playingNow' = playingNow \ {act[w]}
      BY <1>9, <2>4 DEF Drain
    <3>2. PlayersHaveToken'
      BY <2>2, <3>1 DEF NoneStranded, PlayersHaveToken, Queued, BusyWith
    <3>3. PendingBehindToken'
      BY <2>2, <2>3, <2>4, <3>1 DEF NoneStranded, PendingBehindToken
    <3> QED
      BY <3>2, <3>3 DEF NoneStranded
  <2>5. CASE pending[act[w]] # <<>>
    <3> DEFINE job == [act |-> act[w], task |-> Head(pending[act[w]])]
    <3>1. /\ playingNow' = playingNow
          /\ pending' = [pending EXCEPT ![act[w]] = Tail(@)]
          /\ workQueue' = IF stopped THEN workQueue ELSE Append(workQueue, job)
      BY <1>9, <2>5 DEF Drain, Execute
    <3>2. job \in Job /\ job.act = act[w]
      BY <2>1, <2>5, HeadTailProperties DEF Job, TypeOK
    <3> HIDE DEF job
    <3>3. PlayersHaveToken'
      <4> SUFFICES ASSUME ~stopped, NEW a \in playingNow
                   PROVE  \/ Queued(a)' \/ BusyWith(a)'
                          \/ pc[Selector]' = "execute" /\ act[Selector]' = a
        BY <2>2, <3>1 DEF PlayersHaveToken
      <4>1. /\ Len(workQueue) \in Nat /\ Len(workQueue') = Len(workQueue) + 1
            /\ \A i \in 1..Len(workQueue) : workQueue'[i] = workQueue[i]
            /\ workQueue'[Len(workQueue) + 1] = job
        BY <3>1, <3>2, AppendProperties, LenProperties DEF TypeOK
      <4>2. CASE a = act[w]
        BY <3>2, <4>1, <4>2 DEF Queued
      <4>3. CASE Queued(a)
        BY <4>1, <4>3 DEF Queued
      <4>4. CASE BusyWith(a) /\ a # act[w]
        BY <2>2, <4>4 DEF BusyWith
      <4> QED
        BY <2>2, <4>2, <4>3, <4>4 DEF NoneStranded, PlayersHaveToken
    <3>4. PendingBehindToken'
      BY <2>1, <2>2, <2>3, <2>5, <3>1 DEF NoneStranded, PendingBehindToken, TypeOK
    <3> QED
      BY <3>3, <3>4 DEF NoneStranded
  <2> QED
    BY <2>4, <2>5
<1>10. CASE Shutdown
  <2>1. PlayersHaveToken'
    BY <1>10 DEF Shutdown, PlayersHaveToken
  <2>2. PendingBehindToken'
    BY <1>10 DEF Shutdown, Move, NoneStranded, PendingBehindToken, TypeOK
  <2> QED
    BY <2>1, <2>2 DEF NoneStranded
<1>11. CASE UNCHANGED vars
  BY <1>11, TokensKept DEF vars, Busy
<1>12. ASSUME NEW t \in Thread, LeaveSubmit(t) PROVE NoneStranded'
  BY <1>12, TokensKept DEF LeaveSubmit, Move, Busy, TypeOK
<1>13. ASSUME NEW w \in Worker, LeaveComplete(w) PROVE NoneStranded'
  BY <1>13, TokensKept DEF LeaveComplete, Move, Busy, TypeOK
<1> QED
  BY <1>1, <1>2, <1>3, <1>4, <1>5, <1>6, <1>7, <1>8, <1>9, <1>10, <1>11,
     <1>12, <1>13
  DEF Next, InSubmit, Work, Rest

-----------------------------------------------------------------------------
LEMMA SafetyInit == Init => SafetyInv
<1>1. Init => Monitors /\ OneToken
  BY PoolAssumption, EmptySeq
  DEF Init, Monitors, OneToken, OneBusyThread, JobTokens, BusyTokens,
      SelectorToken, Busy, Thread, Critical
<1> QED
  BY <1>1, TypeInit DEF SafetyInv

LEMMA SafetyNext == SafetyInv /\ [Next]_vars => SafetyInv'
  BY TypeNext, MonitorsNext, OneTokenNext DEF SafetyInv

\* The types of ActorThreadPool: every queue holds tasks and jobs only, and a
\* thread works for an actor whenever it is inside submit or busy.
THEOREM TypeCorrect == Spec => []TypeOK
<1>1. Init => TypeOK /\ Places
  BY TypeInit
<1>2. TypeOK /\ Places /\ [Next]_vars => (TypeOK /\ Places)'
  BY TypeNext
<1> QED
  BY <1>1, <1>2, PTL DEF Spec

\* A task that submit left pending is never forgotten: until the pool is shut
\* down, complete will come for its actor (submit racing complete).
THEOREM NothingStranded == Spec => []NoStrandedTask
<1>1. Init => NoneStranded
  BY PoolAssumption
  DEF Init, NoneStranded, PlayersHaveToken, PendingBehindToken, Thread
<1>2. SafetyInv /\ NoneStranded => NoStrandedTask
  <2> SUFFICES ASSUME SafetyInv, NoneStranded, NEW a \in Act, ~stopped,
                      pending[a] # <<>>
               PROVE  \/ \E i \in DOMAIN workQueue : workQueue[i].act = a
                      \/ \E w \in Worker : Busy(w) /\ act[w] = a
    BY DEF NoStrandedTask
  <2>1. DOMAIN workQueue = 1..Len(workQueue)
    BY LenProperties DEF SafetyInv, TypeOK
  <2>2. Queued(a) \/ BusyWith(a)
    BY DEF NoneStranded, PlayersHaveToken, PendingBehindToken
  <2> QED
    BY <2>1, <2>2 DEF Queued, BusyWith
<1> QED
  BY <1>1, <1>2, SafetyInit, SafetyNext, NoneStrandedNext, PTL DEF Spec

-----------------------------------------------------------------------------
(***************************************************************************)
(* The refinement of SerialActors: what every step of a thread is to the   *)
(* serial executor.  Entering and leaving submit, and complete as long as  *)
(* the pool is open, are invisible to it.                                  *)
(***************************************************************************)

\* A thread runs a task until the task ends, whatever the task submits.
Runs == \A w \in Worker :
  /\ pc[w] \in {"run", "acquire", "check", "pend", "return"} => current[w] \in Task
  /\ pc[w] \in {"complete", "drain", "leave", "wait"} => current[w] = None

LEMMA RunsNext == SafetyInv /\ Runs /\ [Next]_vars => Runs'
<1> SUFFICES ASSUME TypeOK, Places, OneToken, Runs, [Next]_vars PROVE Runs'
  BY DEF SafetyInv
<1> USE PoolAssumption DEF TypeOK, Places, Runs, Thread, InSubmitCall
<1>1. ASSUME NEW t \in Thread, NEW a \in Act, Call(t, a) PROVE Runs'
  BY <1>1 DEF Call, Move
<1>2. ASSUME NEW t \in Thread, EnterSubmit(t) PROVE Runs'
  BY <1>2 DEF EnterSubmit, Acquire, Move
<1>3. ASSUME NEW t \in Thread, CheckPlaying(t) PROVE Runs'
  BY <1>3 DEF CheckPlaying, Move
<1>4. ASSUME NEW t \in Thread, ExecuteFirst(t) PROVE Runs'
  <2>1. t = Selector
    BY <1>4 DEF ExecuteFirst, Move, OneToken, BusyTokens, Busy
  <2> QED
    BY <1>4, <2>1 DEF ExecuteFirst, Move
<1>5. ASSUME NEW t \in Thread, AddPending(t) PROVE Runs'
  BY <1>5 DEF AddPending, Move
<1>6. ASSUME NEW w \in Worker, TakeJob(w) PROVE Runs'
  <2>1. Head(workQueue) \in Job
    BY <1>6, HeadTailProperties DEF TakeJob
  <2>2. Head(workQueue).task \in Task
    BY <2>1 DEF Job
  <2> QED
    BY <1>6, <2>2 DEF TakeJob, Move
<1>7. ASSUME NEW w \in Worker, EndTask(w) PROVE Runs'
  BY <1>7 DEF EndTask, Move
<1>8. ASSUME NEW w \in Worker, EnterComplete(w) PROVE Runs'
  BY <1>8 DEF EnterComplete, Acquire, Move
<1>9. ASSUME NEW w \in Worker, Drain(w) PROVE Runs'
  BY <1>9 DEF Drain, Move
<1>10. CASE Shutdown \/ UNCHANGED vars
  BY <1>10 DEF Shutdown, Move, vars
<1>11. ASSUME NEW t \in Thread, LeaveSubmit(t) PROVE Runs'
  BY <1>11 DEF LeaveSubmit, Move
<1>12. ASSUME NEW w \in Worker, LeaveComplete(w) PROVE Runs'
  BY <1>12 DEF LeaveComplete, Move
<1> QED
  BY <1>1, <1>2, <1>3, <1>4, <1>5, <1>6, <1>7, <1>8, <1>9, <1>10, <1>11, <1>12
  DEF Next, InSubmit, Work, Rest

LEMMA RunsInit == Init => Runs
  BY PoolAssumption DEF Init, Runs, Thread

\* No two threads of the pool ever run tasks of one actor, although a thread
\* that is still inside complete may be overtaken by the next task (submit,
\* execute and complete of ActorThreadPool).
THEOREM MutualExclusion == Spec => []OneTaskPerActor
<1>1. SafetyInv /\ Runs => OneTaskPerActor
  <2> SUFFICES ASSUME SafetyInv, Runs, NEW v \in Worker, NEW w \in Worker,
                      current[v] # None, current[w] # None, act[v] = act[w]
               PROVE  v = w
    BY DEF OneTaskPerActor
  <2>1. Busy(v) /\ Busy(w)
    BY DEF Runs, Busy, SafetyInv, Places
  <2> QED
    BY <2>1 DEF SafetyInv, OneToken, OneBusyThread
<1> QED
  BY <1>1, SafetyInit, SafetyNext, RunsInit, RunsNext, PTL DEF Spec

RefinementInv == SafetyInv /\ NoneStranded /\ Runs

-----------------------------------------------------------------------------
(* The mapping, now and after a step: a job is the only one of its actor. *)

OnlyJob(q) == \A i, j \in DOMAIN q : q[i].act = q[j].act => i = j

LEMMA JobsTyped ==
  ASSUME TypeOK, JobTokens
  PROVE  OnlyJob(workQueue) /\ DOMAIN workQueue = 1..Len(workQueue)
<1>1. DOMAIN workQueue = 1..Len(workQueue)
  BY LenProperties DEF TypeOK
<1> QED
  BY <1>1 DEF JobTokens, OnlyJob

\* Its task is the head of what the serial executor sees.
LEMMA JobInQueue ==
  ASSUME NEW a \in Act
  PROVE  /\ OnlyJob(workQueue) =>
              \A i \in DOMAIN workQueue :
                 workQueue[i].act = a => InWorkQueue(a) = <<workQueue[i].task>>
         /\ OnlyJob(workQueue') =>
              \A i \in DOMAIN workQueue' :
                 workQueue'[i].act = a => InWorkQueue(a)' = <<workQueue'[i].task>>
<1>1. ASSUME OnlyJob(workQueue), NEW i \in DOMAIN workQueue, workQueue[i].act = a
      PROVE  InWorkQueue(a) = <<workQueue[i].task>>
  <2>1. \A j \in DOMAIN workQueue : workQueue[j].act = a => j = i
    BY <1>1 DEF OnlyJob
  <2> QED
    BY <1>1, <2>1 DEF InWorkQueue
<1>2. ASSUME OnlyJob(workQueue'), NEW i \in DOMAIN workQueue', workQueue'[i].act = a
      PROVE  InWorkQueue(a)' = <<workQueue'[i].task>>
  <2>1. \A j \in DOMAIN workQueue' : workQueue'[j].act = a => j = i
    BY <1>2 DEF OnlyJob
  <2> QED
    BY <1>2, <2>1 DEF InWorkQueue
<1> QED
  BY <1>1, <1>2

LEMMA NoJobInQueue ==
  ASSUME NEW a \in Act
  PROVE  /\ (\A i \in DOMAIN workQueue : workQueue[i].act # a) => InWorkQueue(a) = <<>>
         /\ (\A i \in DOMAIN workQueue' : workQueue'[i].act # a) => InWorkQueue(a)' = <<>>
BY DEF InWorkQueue

\* Concatenation with a queue of one job or none.
LEMMA FrontOf ==
  ASSUME NEW s \in Seq(Task), NEW x \in Task
  PROVE  /\ <<>> \o s = s /\ <<x>> \o s # <<>> /\ s \o <<>> = s
         /\ Head(<<x>> \o s) = x /\ Tail(<<x>> \o s) = s
         /\ <<x>> \o s \in Seq(Task)
OBVIOUS

LEMMA AppendBehind ==
  ASSUME NEW s \in Seq(Task), NEW x \in Task, NEW y \in Task
  PROVE  /\ <<>> \o Append(s, y) = Append(<<>> \o s, y)
         /\ <<x>> \o Append(s, y) = Append(<<x>> \o s, y)
OBVIOUS

LEMMA QueueTyped ==
  ASSUME TypeOK, NEW a \in Act
  PROVE  /\ InWorkQueue(a) = <<>> \/ \E x \in Task : InWorkQueue(a) = <<x>>
         /\ SerialQueue[a] = InWorkQueue(a) \o pending[a]
<1>1. SerialQueue[a] = InWorkQueue(a) \o pending[a]
  BY DEF SerialQueue
<1>2. CASE \E i \in DOMAIN workQueue : workQueue[i].act = a
  <2> DEFINE i == CHOOSE i \in DOMAIN workQueue : workQueue[i].act = a
  <2>1. i \in DOMAIN workQueue
    BY <1>2
  <2>2. DOMAIN workQueue = 1..Len(workQueue)
    BY LenProperties DEF TypeOK
  <2>3. workQueue[i] \in Job
    BY <2>1, <2>2, ElementOfSeq DEF TypeOK
  <2>4. workQueue[i].task \in Task
    BY <2>3 DEF Job
  <2>5. InWorkQueue(a) = <<workQueue[i].task>>
    BY <1>2 DEF InWorkQueue
  <2> QED
    BY <1>1, <2>4, <2>5
<1>3. CASE ~\E i \in DOMAIN workQueue : workQueue[i].act = a
  BY <1>1, <1>3 DEF InWorkQueue
<1> QED
  BY <1>2, <1>3

\* Who runs, and what: with one busy thread an actor, the thread's task.
LEMMA RunningTask ==
  ASSUME NEW a \in Act
  PROVE  /\ OneBusyThread =>
              \A w \in Worker : Busy(w) /\ act[w] = a => SerialRunning[a] = current[w]
         /\ OneBusyThread' =>
              \A w \in Worker : Busy(w)' /\ act'[w] = a => SerialRunning'[a] = current'[w]
         /\ (\A w \in Worker : Busy(w) => act[w] # a) => SerialRunning[a] = None
         /\ (\A w \in Worker : Busy(w)' => act'[w] # a) => SerialRunning'[a] = None
<1>1. ASSUME OneBusyThread, NEW w \in Worker, Busy(w), act[w] = a
      PROVE  SerialRunning[a] = current[w]
  <2>1. \A v \in Worker : Busy(v) /\ act[v] = a => v = w
    BY <1>1 DEF OneBusyThread
  <2> QED
    BY <1>1, <2>1 DEF SerialRunning
<1>2. ASSUME OneBusyThread', NEW w \in Worker, Busy(w)', act'[w] = a
      PROVE  SerialRunning'[a] = current'[w]
  <2>1. \A v \in Worker : Busy(v)' /\ act'[v] = a => v = w
    BY <1>2 DEF OneBusyThread
  <2> QED
    BY <1>2, <2>1 DEF SerialRunning
<1> QED
  BY <1>1, <1>2 DEF SerialRunning

\* What an actor runs depends on its busy thread only.
LEMMA SameTask ==
  ASSUME OneBusyThread, OneBusyThread', NEW a \in Act,
         \A w \in Worker : Busy(w) /\ act[w] = a <=> Busy(w)' /\ act'[w] = a,
         \A w \in Worker : Busy(w) /\ act[w] = a => current'[w] = current[w]
  PROVE  SerialRunning'[a] = SerialRunning[a]
<1>1. CASE \E w \in Worker : Busy(w) /\ act[w] = a
  BY <1>1, RunningTask
<1>2. CASE ~\E w \in Worker : Busy(w) /\ act[w] = a
  BY <1>2, RunningTask
<1> QED
  BY <1>1, <1>2

\* Two functions on Act are equal when they are so at every actor.
LEMMA SameQueues ==
  ASSUME \A a \in Act : SerialQueue'[a] = SerialQueue[a]
  PROVE  SerialQueue' = SerialQueue
BY DEF SerialQueue
LEMMA SameRunning ==
  ASSUME \A a \in Act : SerialRunning'[a] = SerialRunning[a]
  PROVE  SerialRunning' = SerialRunning
BY DEF SerialRunning

-----------------------------------------------------------------------------
(* The steps *)

\* The new value of one actor, the others as they were.
LEMMA QueueOf ==
  ASSUME NEW a \in Act, NEW q, SerialQueue'[a] = q,
         \A b \in Act \ {a} : SerialQueue'[b] = SerialQueue[b]
  PROVE  SerialQueue' = [SerialQueue EXCEPT ![a] = q]
BY DEF SerialQueue
LEMMA RunningOf ==
  ASSUME NEW a \in Act, NEW r, SerialRunning'[a] = r,
         \A b \in Act \ {a} : SerialRunning'[b] = SerialRunning[b]
  PROVE  SerialRunning' = [SerialRunning EXCEPT ![a] = r]
<1>1. SerialRunning = [b \in Act |-> SerialRunning[b]]
  BY DEF SerialRunning
<1>2. SerialRunning' = [b \in Act |-> SerialRunning'[b]]
  BY DEF SerialRunning
<1> QED
  BY <1>1, <1>2

LEMMA SubmitRefined ==
  ASSUME RefinementInv, RefinementInv', NEW t \in Thread,
         ExecuteFirst(t) \/ AddPending(t)
  PROVE  Serial!SNext \/ UNCHANGED Serial!svars
<1>i. /\ TypeOK /\ Places /\ OneToken /\ NoneStranded /\ Runs /\ JobTokens
      /\ OneBusyThread /\ OneBusyThread' /\ JobTokens' /\ TypeOK'
  BY DEF RefinementInv, SafetyInv, OneToken
<1>a. PICK a \in Act, x \in Task : a = act[t] /\ x = arg[t]
  BY <1>i DEF ExecuteFirst, AddPending, Move, Places, InSubmitCall
<1>r. SerialRunning' = SerialRunning
  <2> SUFFICES ASSUME NEW b \in Act PROVE SerialRunning'[b] = SerialRunning[b]
    BY SameRunning
  <2>1. /\ current' = current
        /\ \A w \in Worker : (Busy(w)' <=> Busy(w)) /\ act'[w] = act[w]
    BY <1>i, PoolAssumption DEF ExecuteFirst, AddPending, Move, Busy, TypeOK, Thread
  <2> QED
    BY <1>i, <2>1, SameTask
<1>o. stopped' = stopped
  BY DEF ExecuteFirst, AddPending
<1>s. ASSUME SerialQueue'[a] = Append(SerialQueue[a], x),
             \A b \in Act \ {a} : SerialQueue'[b] = SerialQueue[b]
      PROVE  Serial!SNext
  <2>1. SerialQueue' = [SerialQueue EXCEPT ![a] = Append(SerialQueue[a], x)]
    BY <1>a, <1>s, QueueOf
  <2>2. Serial!Submit(a, x)
    BY <1>r, <1>o, <2>1 DEF Serial!Submit
  <2> QED
    BY <1>a, <2>2 DEF Serial!SNext
\* The first job of an actor that has none, nor a pending task.
<1>1. CASE ExecuteFirst(t)
  <2>1. t = Selector /\ pc[Selector] = "execute"
    BY <1>1, <1>i DEF ExecuteFirst, Move, OneToken, BusyTokens, Busy, Thread
  <2>2. pending[a] = <<>> /\ pending' = pending
    BY <1>1, <1>i, <1>a, <2>1 DEF ExecuteFirst, NoneStranded, PendingBehindToken
  <2>3. CASE stopped
    <3>1. workQueue' = workQueue
      BY <1>1, <2>3 DEF ExecuteFirst, Execute
    <3> QED
      BY <1>r, <1>o, <2>2, <3>1 DEF Serial!svars, SerialQueue, InWorkQueue
  <2>4. CASE ~stopped
    <3> DEFINE job == [act |-> a, task |-> x]
    <3>1. workQueue' = Append(workQueue, job) /\ job \in Job /\ job.act = a /\ job.task = x
      BY <1>1, <1>a, <2>4 DEF ExecuteFirst, Execute, Job
    <3> HIDE DEF job
    <3>2. /\ DOMAIN workQueue' = DOMAIN workQueue \cup {Len(workQueue) + 1}
          /\ workQueue'[Len(workQueue) + 1] = job
          /\ \A i \in DOMAIN workQueue : workQueue'[i] = workQueue[i]
          /\ \A i \in DOMAIN workQueue : workQueue[i].act # a
      <4>1. \A i \in 1..Len(workQueue) : workQueue[i].act # a
        BY <1>i, <1>a, <2>1 DEF JobTokens
      <4> QED
        BY <1>i, <3>1, <4>1, AppendProperties, LenProperties DEF TypeOK
    <3>3. OnlyJob(workQueue) /\ OnlyJob(workQueue')
      BY <1>i, <3>1, <3>2, JobsTyped DEF OnlyJob
    <3>4. InWorkQueue(a) = <<>> /\ InWorkQueue(a)' = <<x>>
      BY <1>a, <3>1, <3>2, <3>3, JobInQueue, NoJobInQueue
    <3>5. ASSUME NEW b \in Act \ {a} PROVE InWorkQueue(b)' = InWorkQueue(b)
      <4>1. CASE \E i \in DOMAIN workQueue : workQueue[i].act = b
        BY <3>2, <3>3, <4>1, JobInQueue
      <4>2. CASE ~\E i \in DOMAIN workQueue : workQueue[i].act = b
        BY <3>1, <3>2, <4>2, NoJobInQueue
      <4> QED
        BY <4>1, <4>2
    <3>6. SerialQueue'[a] = Append(SerialQueue[a], x)
      <4>1. SerialQueue[a] = <<>> \o <<>> /\ SerialQueue'[a] = <<x>> \o <<>>
        BY <1>a, <2>2, <3>4 DEF SerialQueue
      <4> QED
        BY <4>1
    <3>7. \A b \in Act \ {a} : SerialQueue'[b] = SerialQueue[b]
      BY <2>2, <3>5 DEF SerialQueue
    <3> QED
      BY <1>s, <3>6, <3>7
  <2> QED
    BY <2>3, <2>4
\* A task behind the token of its actor.
<1>2. CASE AddPending(t)
  <2>1. /\ workQueue' = workQueue
        /\ pending' = [pending EXCEPT ![a] = Append(pending[a], x)]
    BY <1>2, <1>a DEF AddPending
  <2>2. \A b \in Act : InWorkQueue(b)' = InWorkQueue(b)
    BY <2>1 DEF InWorkQueue
  <2>3. /\ pending'[a] = Append(pending[a], x) /\ pending[a] \in Seq(Task)
        /\ \A b \in Act \ {a} : pending'[b] = pending[b]
    BY <1>i, <1>a, <2>1 DEF TypeOK
  <2>4. /\ SerialQueue'[a] = InWorkQueue(a) \o Append(pending[a], x)
        /\ SerialQueue[a] = InWorkQueue(a) \o pending[a]
        /\ \A b \in Act \ {a} : SerialQueue'[b] = SerialQueue[b]
    BY <1>a, <2>2, <2>3 DEF SerialQueue
  <2>5. SerialQueue'[a] = Append(SerialQueue[a], x)
    <3>1. CASE InWorkQueue(a) = <<>>
      BY <1>a, <2>3, <2>4, <3>1, AppendBehind
    <3>2. CASE \E y \in Task : InWorkQueue(a) = <<y>>
      <4>1. PICK y \in Task : InWorkQueue(a) = <<y>>
        BY <3>2
      <4>2. <<y>> \o Append(pending[a], x) = Append(<<y>> \o pending[a], x)
        BY <1>a, <2>3, AppendBehind
      <4> QED
        BY <2>4, <4>1, <4>2, Zenon
    <3> QED
      BY <1>i, <3>1, <3>2, QueueTyped
  <2> QED
    BY <1>s, <2>4, <2>5
<1> QED
  BY <1>1, <1>2

LEMMA TakeJobRefined ==
  ASSUME RefinementInv, RefinementInv', NEW w \in Worker, TakeJob(w)
  PROVE  Serial!SNext
<1>i. /\ TypeOK /\ JobTokens /\ OneBusyThread /\ OneBusyThread' /\ JobTokens' /\ TypeOK'
  BY DEF RefinementInv, SafetyInv, OneToken
<1>1. /\ Head(workQueue) = workQueue[1] /\ 1 \in DOMAIN workQueue
      /\ DOMAIN workQueue = 1..Len(workQueue) /\ Len(workQueue) \in Nat
      /\ DOMAIN workQueue' = 1..Len(workQueue) - 1
      /\ \A i \in DOMAIN workQueue' : workQueue'[i] = workQueue[i + 1]
  BY <1>i, HeadTailProperties, EmptySeq, LenProperties DEF TakeJob, TypeOK
<1>2. PICK a \in Act, x \in Task : a = workQueue[1].act /\ x = workQueue[1].task
  <2>1. workQueue[1] \in Job
    BY <1>i, <1>1, ElementOfSeq DEF TypeOK
  <2> QED
    BY <2>1 DEF Job
<1>3. /\ ~stopped /\ ~Busy(w) /\ Busy(w)' /\ act'[w] = a /\ current'[w] = x
      /\ \A v \in Worker \ {w} : /\ Busy(v)' <=> Busy(v)
                                 /\ act'[v] = act[v] /\ current'[v] = current[v]
      /\ UNCHANGED <<pending, stopped>>
  BY <1>i, <1>1, <1>2 DEF TakeJob, Move, Busy, TypeOK, Thread
<1>4. OnlyJob(workQueue) /\ OnlyJob(workQueue')
  <2>1. OnlyJob(workQueue)
    BY <1>i, JobsTyped
  <2>2. workQueue' \in Seq(Job)
    BY <1>i DEF TypeOK
  <2>3. DOMAIN workQueue' = 1..Len(workQueue')
    BY <2>2, LenProperties
  <2>4. OnlyJob(workQueue')
    BY <1>i, <2>3 DEF JobTokens, OnlyJob
  <2> QED
    BY <2>1, <2>4
<1>5. InWorkQueue(a) = <<x>>
  BY <1>1, <1>2, <1>4, JobInQueue
<1>6. InWorkQueue(a)' = <<>>
  <2> SUFFICES ASSUME NEW i \in DOMAIN workQueue', workQueue'[i].act = a PROVE FALSE
    BY <1>2, NoJobInQueue
  <2>1. i + 1 \in DOMAIN workQueue /\ workQueue[i + 1].act = workQueue[1].act
    BY <1>1, <1>2
  <2>2. i + 1 = 1
    BY <1>1, <1>4, <2>1 DEF OnlyJob
  <2> QED
    BY <1>1, <2>2
<1>7. ASSUME NEW b \in Act \ {a} PROVE InWorkQueue(b)' = InWorkQueue(b)
  <2>1. CASE \E i \in DOMAIN workQueue : workQueue[i].act = b
    <3>1. PICK i \in DOMAIN workQueue : workQueue[i].act = b
      BY <2>1
    <3>2. i # 1
      BY <1>2, <3>1
    <3>3. i - 1 \in DOMAIN workQueue' /\ workQueue'[i - 1] = workQueue[i]
      BY <1>1, <3>2
    <3> QED
      BY <1>4, <3>1, <3>3, JobInQueue
  <2>2. CASE ~\E i \in DOMAIN workQueue : workQueue[i].act = b
    <3>1. \A i \in DOMAIN workQueue' : workQueue'[i].act # b
      BY <1>1, <2>2
    <3> QED
      BY <2>2, <3>1, NoJobInQueue
  <2> QED
    BY <2>1, <2>2
<1>8. SerialQueue[a] # <<>> /\ Head(SerialQueue[a]) = x /\ SerialQueue'[a] = Tail(SerialQueue[a])
  <2>1. pending[a] \in Seq(Task)
    BY <1>i, <1>2 DEF TypeOK
  <2>2. SerialQueue[a] = <<x>> \o pending[a] /\ SerialQueue'[a] = <<>> \o pending[a]
    BY <1>2, <1>3, <1>5, <1>6 DEF SerialQueue
  <2> QED
    BY <1>2, <2>1, <2>2, FrontOf
<1>9. SerialQueue' = [SerialQueue EXCEPT ![a] = Tail(SerialQueue[a])]
  <2>1. \A b \in Act \ {a} : SerialQueue'[b] = SerialQueue[b]
    BY <1>3, <1>7 DEF SerialQueue
  <2> QED
    BY <1>2, <1>8, <2>1, QueueOf
<1>10. SerialRunning[a] = None
  <2>1. \A v \in Worker : Busy(v) => act[v] # a
    BY <1>i, <1>1, <1>2 DEF JobTokens
  <2> QED
    BY <1>2, <2>1, RunningTask
<1>11. SerialRunning' = [SerialRunning EXCEPT ![a] = x]
  <2>1. SerialRunning'[a] = x
    BY <1>i, <1>2, <1>3, RunningTask
  <2>2. ASSUME NEW b \in Act \ {a} PROVE SerialRunning'[b] = SerialRunning[b]
    <3>1. /\ \A v \in Worker : Busy(v) /\ act[v] = b <=> Busy(v)' /\ act'[v] = b
          /\ \A v \in Worker : Busy(v) /\ act[v] = b => current'[v] = current[v]
      BY <1>3
    <3> QED
      BY <1>i, <3>1, SameTask
  <2> QED
    BY <1>2, <2>1, <2>2, RunningOf
<1>12. Serial!Start(a)
  BY <1>3, <1>8, <1>9, <1>10, <1>11 DEF Serial!Start
<1> QED
  BY <1>2, <1>12 DEF Serial!SNext

LEMMA DrainRefined ==
  ASSUME RefinementInv, RefinementInv', NEW w \in Worker, Drain(w)
  PROVE  Serial!SNext \/ UNCHANGED Serial!svars
<1>i. /\ TypeOK /\ JobTokens /\ OneBusyThread /\ OneBusyThread' /\ JobTokens' /\ TypeOK'
      /\ Places /\ Runs
  BY DEF RefinementInv, SafetyInv, OneToken
<1>a. PICK a \in Act : a = act[w]
  BY <1>i DEF Drain, Move, Places, Thread
<1>1. /\ Busy(w) /\ ~Busy(w)' /\ current[w] = None /\ current' = current /\ stopped' = stopped
      /\ \A v \in Worker \ {w} : (Busy(v)' <=> Busy(v)) /\ act'[v] = act[v]
  BY <1>i DEF Drain, Move, Busy, Runs, TypeOK, Thread
<1>2. \A i \in DOMAIN workQueue : workQueue[i].act # a
  BY <1>i, <1>a, <1>1, LenProperties DEF JobTokens, TypeOK
<1>r. SerialRunning' = SerialRunning
  <2>1. SerialRunning'[a] = None
    <3>1. \A v \in Worker : Busy(v)' => act'[v] # a
      BY <1>i, <1>a, <1>1 DEF OneBusyThread
    <3> QED
      BY <3>1, RunningTask
  <2>2. SerialRunning[a] = None
    BY <1>i, <1>a, <1>1, RunningTask
  <2>3. ASSUME NEW b \in Act \ {a} PROVE SerialRunning'[b] = SerialRunning[b]
    <3>1. /\ \A v \in Worker : Busy(v) /\ act[v] = b <=> Busy(v)' /\ act'[v] = b
          /\ \A v \in Worker : Busy(v) /\ act[v] = b => current'[v] = current[v]
      BY <1>a, <1>1
    <3> QED
      BY <1>i, <3>1, SameTask
  <2> QED
    BY <2>1, <2>2, <2>3, SameRunning
\* The actor rests.
<1>3. CASE pending[a] = <<>>
  <2>1. UNCHANGED <<workQueue, pending>>
    BY <1>3, <1>a DEF Drain
  <2>2. SerialQueue' = SerialQueue
    BY <2>1 DEF SerialQueue, InWorkQueue
  <2> QED
    BY <1>1, <1>r, <2>2 DEF Serial!svars
\* Its next task moves to the work queue, or is dropped.
<1>4. CASE pending[a] # <<>>
  <2>1. PICK x \in Task, s \in Seq(Task) :
          x = Head(pending[a]) /\ s = Tail(pending[a]) /\ pending[a] = <<x>> \o s
    <3>1. pending[a] \in Seq(Task)
      BY <1>i DEF TypeOK
    <3>2. pending[a] = <<Head(pending[a])>> \o Tail(pending[a])
      BY <1>4, <3>1
    <3> QED
      BY <1>4, <3>1, <3>2, HeadTailProperties
  <2>2. /\ pending'[a] = s
        /\ \A b \in Act \ {a} : pending'[b] = pending[b]
        /\ workQueue' = IF stopped THEN workQueue
                        ELSE Append(workQueue, [act |-> a, task |-> x])
    BY <1>4, <1>a, <1>i, <2>1 DEF Drain, Execute, TypeOK
  <2>3. InWorkQueue(a) = <<>>
    BY <1>2, NoJobInQueue
  <2>4. SerialQueue[a] = <<>> \o pending[a] /\ SerialQueue[a] = <<x>> \o s
    <3>1. SerialQueue[a] = <<>> \o pending[a]
      BY <2>3 DEF SerialQueue
    <3>2. <<x>> \o s \in Seq(Task) /\ <<>> \o (<<x>> \o s) = <<x>> \o s
      <4>1. <<x>> \o s \in Seq(Task)
        BY FrontOf
      <4> QED
        BY <4>1, FrontOf
    <3> QED
      BY <2>1, <3>1, <3>2
  <2>5. CASE stopped
    <3>1. workQueue' = workQueue
      BY <2>2, <2>5
    <3>2. \A b \in Act : InWorkQueue(b)' = InWorkQueue(b)
      BY <3>1 DEF InWorkQueue
    <3>3. SerialQueue'[a] = <<>> \o s
      BY <2>2, <2>3, <3>2 DEF SerialQueue
    <3>4. SerialQueue[a] # <<>> /\ SerialQueue'[a] = Tail(SerialQueue[a])
      BY <2>1, <2>4, <3>3, FrontOf
    <3>5. SerialQueue' = [SerialQueue EXCEPT ![a] = Tail(SerialQueue[a])]
      <4>1. \A b \in Act \ {a} : SerialQueue'[b] = SerialQueue[b]
        BY <2>2, <3>2 DEF SerialQueue
      <4> QED
        BY <3>4, <4>1, QueueOf
    <3>6. Serial!Drop(a)
      BY <1>1, <1>r, <2>5, <3>4, <3>5 DEF Serial!Drop
    <3> QED
      BY <3>6 DEF Serial!SNext
  <2>6. CASE ~stopped
    <3> DEFINE job == [act |-> a, task |-> x]
    <3>1. workQueue' = Append(workQueue, job) /\ job \in Job /\ job.act = a /\ job.task = x
      BY <2>2, <2>6 DEF Job
    <3> HIDE DEF job
    <3>2. /\ DOMAIN workQueue' = DOMAIN workQueue \cup {Len(workQueue) + 1}
          /\ workQueue'[Len(workQueue) + 1] = job
          /\ \A i \in DOMAIN workQueue : workQueue'[i] = workQueue[i]
      BY <1>i, <3>1, AppendProperties, LenProperties DEF TypeOK
    <3>3. OnlyJob(workQueue) /\ OnlyJob(workQueue')
      BY <1>i, <1>2, <3>1, <3>2, JobsTyped DEF OnlyJob
    <3>4. InWorkQueue(a)' = <<x>>
      BY <3>1, <3>2, <3>3, JobInQueue
    <3>5. ASSUME NEW b \in Act \ {a} PROVE InWorkQueue(b)' = InWorkQueue(b)
      <4>1. CASE \E i \in DOMAIN workQueue : workQueue[i].act = b
        BY <3>2, <3>3, <4>1, JobInQueue
      <4>2. CASE ~\E i \in DOMAIN workQueue : workQueue[i].act = b
        BY <3>1, <3>2, <4>2, NoJobInQueue
      <4> QED
        BY <4>1, <4>2
    <3>6. ASSUME NEW b \in Act PROVE SerialQueue'[b] = SerialQueue[b]
      <4>1. CASE b = a
        <5>1. SerialQueue'[a] = <<x>> \o s
          BY <2>2, <3>4 DEF SerialQueue
        <5> QED
          BY <2>4, <4>1, <5>1
      <4>2. CASE b # a
        BY <2>2, <3>5, <4>2 DEF SerialQueue
      <4> QED
        BY <4>1, <4>2
    <3> QED
      BY <1>1, <1>r, <3>6, SameQueues DEF Serial!svars
  <2> QED
    BY <2>5, <2>6
<1> QED
  BY <1>3, <1>4

\* Steps that touch no queue.
LEMMA RestRefined ==
  ASSUME RefinementInv, RefinementInv',
         \/ \E t \in Thread : EnterSubmit(t) \/ CheckPlaying(t) \/ \E a \in Act : Call(t, a)
         \/ \E t \in Thread : LeaveSubmit(t)
         \/ \E w \in Worker : EnterComplete(w) \/ LeaveComplete(w)
         \/ UNCHANGED vars
  PROVE  UNCHANGED Serial!svars
<1>i. /\ TypeOK /\ OneBusyThread /\ OneBusyThread' /\ Places
  BY DEF RefinementInv, SafetyInv, OneToken
<1>1. /\ UNCHANGED <<workQueue, pending, stopped, current>>
      /\ \A w \in Worker : (Busy(w)' <=> Busy(w)) /\ (Busy(w) => act'[w] = act[w])
  BY <1>i, PoolAssumption
  DEF EnterSubmit, CheckPlaying, EnterComplete, LeaveSubmit, LeaveComplete, Call,
      Acquire, Move, vars, Busy, TypeOK, Thread, Places
<1>2. SerialQueue' = SerialQueue
  BY <1>1 DEF SerialQueue, InWorkQueue
<1>3. ASSUME NEW b \in Act PROVE SerialRunning'[b] = SerialRunning[b]
  <2>1. /\ \A v \in Worker : Busy(v) /\ act[v] = b <=> Busy(v)' /\ act'[v] = b
        /\ \A v \in Worker : Busy(v) /\ act[v] = b => current'[v] = current[v]
    BY <1>1
  <2> QED
    BY <1>i, <2>1, SameTask
<1> QED
  BY <1>1, <1>2, <1>3, SameRunning DEF Serial!svars

LEMMA EndTaskRefined ==
  ASSUME RefinementInv, RefinementInv', NEW w \in Worker, EndTask(w)
  PROVE  Serial!SNext
<1>i. /\ TypeOK /\ OneBusyThread /\ OneBusyThread' /\ Places /\ Runs
  BY DEF RefinementInv, SafetyInv, OneToken
<1>a. PICK a \in Act : a = act[w]
  BY <1>i DEF EndTask, Move, Places, Thread
<1>1. /\ UNCHANGED <<workQueue, pending, stopped, act>>
      /\ Busy(w) /\ Busy(w)' /\ current[w] \in Task /\ current'[w] = None
      /\ \A v \in Worker \ {w} : (Busy(v)' <=> Busy(v)) /\ current'[v] = current[v]
  BY <1>i DEF EndTask, Move, Busy, Runs, TypeOK, Thread
<1>2. SerialQueue' = SerialQueue
  BY <1>1 DEF SerialQueue, InWorkQueue
<1>3. SerialRunning[a] # None /\ SerialRunning'[a] = None
  BY <1>i, <1>a, <1>1, RunningTask, PoolAssumption
<1>4. ASSUME NEW b \in Act \ {a} PROVE SerialRunning'[b] = SerialRunning[b]
  <2>1. /\ \A v \in Worker : Busy(v) /\ act[v] = b <=> Busy(v)' /\ act'[v] = b
        /\ \A v \in Worker : Busy(v) /\ act[v] = b => current'[v] = current[v]
    BY <1>a, <1>1
  <2> QED
    BY <1>i, <2>1, SameTask
<1>5. Serial!Finish(a)
  BY <1>1, <1>2, <1>3, <1>4, RunningOf DEF Serial!Finish
<1> QED
  BY <1>5 DEF Serial!SNext

\* The jobs in the work queue are dropped, the pending tasks are not.
LEMMA ShutdownRefined ==
  ASSUME RefinementInv, RefinementInv', Shutdown
  PROVE  Serial!SNext
<1>i. /\ TypeOK /\ OneBusyThread /\ OneBusyThread' /\ Places
  BY DEF RefinementInv, SafetyInv, OneToken
<1>1. /\ stopped' /\ workQueue' = <<>> /\ UNCHANGED <<pending, act, current>>
      /\ \A w \in Worker : Busy(w)' <=> Busy(w)
  BY <1>i, PoolAssumption DEF Shutdown, Move, Busy, TypeOK, Thread
<1>2. SerialRunning' = SerialRunning
  <2>1. ASSUME NEW b \in Act PROVE SerialRunning'[b] = SerialRunning[b]
    BY <1>i, <1>1, SameTask
  <2> QED
    BY <2>1, SameRunning
<1> DEFINE dropped == {a \in Act : InWorkQueue(a) # <<>>}
<1>3. ASSUME NEW a \in Act
      PROVE  /\ SerialQueue'[a] = pending[a]
             /\ a \in dropped => SerialQueue[a] # <<>> /\ Tail(SerialQueue[a]) = pending[a]
             /\ a \notin dropped => SerialQueue[a] = pending[a]
  <2>1. pending[a] \in Seq(Task)
    BY <1>i DEF TypeOK
  <2>2. InWorkQueue(a)' = <<>>
    BY <1>1, NoJobInQueue
  <2>3. SerialQueue'[a] = <<>> \o pending[a]
    BY <1>1, <2>2 DEF SerialQueue
  <2>4. SerialQueue[a] = InWorkQueue(a) \o pending[a]
    BY DEF SerialQueue
  <2>5. <<>> \o pending[a] = pending[a]
    BY <2>1, ConcatEmptySeq
  <2>6. CASE InWorkQueue(a) = <<>>
    BY <2>3, <2>4, <2>5, <2>6
  <2>7. CASE InWorkQueue(a) # <<>>
    <3>1. PICK x \in Task : InWorkQueue(a) = <<x>>
      BY <1>i, <2>7, QueueTyped
    <3>2. SerialQueue[a] = <<x>> \o pending[a]
      BY <2>4, <3>1
    <3>3. SerialQueue[a] # <<>> /\ Tail(SerialQueue[a]) = pending[a]
      BY <2>1, <3>2, FrontOf
    <3> QED
      BY <2>3, <2>5, <2>7, <3>3
  <2> QED
    BY <2>6, <2>7
<1>4. SerialQueue' = [a \in Act |-> IF a \in dropped THEN Tail(SerialQueue[a]) ELSE SerialQueue[a]]
  <2>1. SerialQueue' = [a \in Act |-> SerialQueue'[a]]
    BY DEF SerialQueue
  <2> QED
    BY <1>3, <2>1
<1>5. dropped \in SUBSET {a \in Act : SerialQueue[a] # <<>>}
  BY <1>3
<1>6. Serial!ShutDown
  BY <1>1, <1>2, <1>4, <1>5 DEF Serial!ShutDown
<1> QED
  BY <1>6 DEF Serial!SNext

LEMMA InitRefined == Init => Serial!SInit /\ Runs
<1> SUFFICES ASSUME Init PROVE Serial!SInit /\ Runs
  OBVIOUS
<1>1. Runs
  BY PoolAssumption DEF Init, Runs, Thread
<1>2. ASSUME NEW a \in Act PROVE SerialQueue[a] = <<>> /\ SerialRunning[a] = None
  <2>1. InWorkQueue(a) = <<>>
    BY NoJobInQueue DEF Init
  <2>2. SerialQueue[a] = <<>> \o <<>>
    BY <2>1 DEF Init, SerialQueue
  <2>3. \A w \in Worker : ~Busy(w)
    BY PoolAssumption DEF Init, Busy, Thread
  <2> QED
    BY <2>2, <2>3, RunningTask
<1>3. SerialQueue = [a \in Act |-> <<>>]
  BY <1>2 DEF SerialQueue
<1>4. SerialRunning = [a \in Act |-> None]
  <2>1. SerialRunning = [a \in Act |-> SerialRunning[a]]
    BY DEF SerialRunning
  <2> QED
    BY <1>2, <2>1
<1> QED
  BY <1>1, <1>3, <1>4 DEF Serial!SInit, Init

\* The pool implements the serial executor, for any number of actors, threads
\* and tasks: the tasks of an actor begin one at a time, in the order they were
\* submitted, each of them once, and only a shutdown drops any.
THEOREM SerialRefined == Spec => SerialExecution
<1>1. Init => RefinementInv /\ Serial!SInit
  <2>1. Init => NoneStranded
    BY PoolAssumption
    DEF Init, NoneStranded, PlayersHaveToken, PendingBehindToken, Thread
  <2> QED
    BY <2>1, SafetyInit, InitRefined DEF RefinementInv
<1>2. RefinementInv /\ [Next]_vars => RefinementInv'
  BY SafetyNext, NoneStrandedNext, RunsNext DEF RefinementInv
<1>3. RefinementInv /\ RefinementInv' /\ [Next]_vars => [Serial!SNext]_(Serial!svars)
  BY SubmitRefined, TakeJobRefined, DrainRefined, RestRefined, EndTaskRefined, ShutdownRefined
  DEF Next, InSubmit, Work, Rest
<1> QED
  BY <1>1, <1>2, <1>3, PTL DEF Spec, SerialExecution, Serial!SSpec
=============================================================================

--------------------------- MODULE ActorThreadPool ---------------------------
(***************************************************************************)
(* ActorThreadPool: how the reactor runs the tasks of each connection one  *)
(* after the other on a fixed pool of threads.  An actor is a connection   *)
(* handler; a task is a number, in the order of the calls of submit.       *)
(*                                                                         *)
(* The callers of submit are the selector thread (Reactor.handleAccept and *)
(* handleReadWrite) and a task of the actor itself (closeConnection submits*)
(* the close of its own handler).  The monitor of an actor is taken and    *)
(* released in steps of their own; what a thread does to the actor's data  *)
(* while it holds the monitor is one step for each shared object.          *)
(***************************************************************************)
EXTENDS Naturals, Sequences

CONSTANTS
  Act,       \* the actors
  Worker,    \* the threads of the pool
  Selector,  \* the selector thread
  None,
  MaxTasks   \* bound on the number of calls of submit

Thread == Worker \cup {Selector}
Task == 1..MaxTasks
Job == [act : Act, task : Task]

ASSUME PoolAssumption ==
  /\ Selector \notin Worker
  /\ None \notin Act \cup Thread \cup Task
  /\ MaxTasks \in Nat

VARIABLES
  monitor,     \* actor -> the thread inside synchronized(act)
  playingNow,
  pending,     \* actor -> its queue in the map acts; no queue yet is <<>>
  workQueue,   \* the tasks threads.execute has accepted, with their actors
  stopped,     \* shutdownNow was called
  issued,      \* how many tasks were created
  pc, act,     \* where each thread stands and the actor it works for
  current,     \* the task each worker runs
  arg          \* the task each thread is submitting

vars == <<monitor, playingNow, pending, workQueue, stopped, issued, pc, act,
          current, arg>>

TypeOK ==
  /\ monitor \in [Act -> Thread \cup {None}]
  /\ playingNow \subseteq Act
  /\ pending \in [Act -> Seq(Task)]
  /\ workQueue \in Seq(Job)
  /\ stopped \in BOOLEAN
  /\ issued \in Nat
  /\ pc \in [Thread -> {"ready", "acquire", "check", "execute", "pend",
                        "return", "wait", "run", "complete", "drain", "leave",
                        "end"}]
  /\ act \in [Thread -> Act \cup {None}]
  /\ current \in [Thread -> Task \cup {None}]
  /\ arg \in [Thread -> Task \cup {None}]

Init ==
  /\ monitor = [a \in Act |-> None]
  /\ playingNow = {}
  /\ pending = [a \in Act |-> <<>>]
  /\ workQueue = <<>>
  /\ stopped = FALSE
  /\ issued = 0
  /\ pc = [t \in Thread |-> IF t = Selector THEN "ready" ELSE "wait"]
  /\ act = [t \in Thread |-> None]
  /\ current = [t \in Thread |-> None]
  /\ arg = [t \in Thread |-> None]

-----------------------------------------------------------------------------
Move(t, from, to) == pc[t] = from /\ pc' = [pc EXCEPT ![t] = to]

Release(t) == monitor' = [monitor EXCEPT ![act[t]] = None]

\* threads.execute: after shutdownNow the task is rejected.
Execute(a, r) ==
  workQueue' = IF stopped THEN workQueue
               ELSE Append(workQueue, [act |-> a, task |-> r])

-----------------------------------------------------------------------------
(* submit *)

\* The selector calls it for any actor, a task for its own.
Call(t, a) ==
  /\ issued < MaxTasks
  /\ \/ t = Selector /\ Move(t, "ready", "acquire")
     \/ t \in Worker /\ a = act[t] /\ Move(t, "run", "acquire")
  /\ issued' = issued + 1
  /\ act' = [act EXCEPT ![t] = a]
  /\ arg' = [arg EXCEPT ![t] = issued + 1]
  /\ UNCHANGED <<monitor, playingNow, pending, workQueue, stopped, current>>

Acquire(t, from, to) ==
  /\ Move(t, from, to)
  /\ monitor[act[t]] = None
  /\ monitor' = [monitor EXCEPT ![act[t]] = t]
  /\ UNCHANGED <<playingNow, pending, workQueue, stopped, issued, act, current,
                 arg>>

\* Mutant: submit without synchronized(act).
EnterUnlocked(t) ==
  /\ Move(t, "acquire", "check")
  /\ UNCHANGED <<monitor, playingNow, pending, workQueue, stopped, issued, act,
                 current, arg>>

EnterSubmit(t) == Acquire(t, "acquire", "check")

CheckPlaying(t) ==
  /\ Move(t, "check", IF act[t] \in playingNow THEN "pend" ELSE "execute")
  /\ playingNow' = playingNow \cup {act[t]}
  /\ UNCHANGED <<monitor, pending, workQueue, stopped, issued, act, current, arg>>

\* A thread of the pool may take the job while submit still holds the monitor.
ExecuteFirst(t) ==
  /\ Move(t, "execute", "return")
  /\ Execute(act[t], arg[t])
  /\ UNCHANGED <<monitor, playingNow, pending, stopped, issued, act, current, arg>>

\* Mutants: the wrong Runnable is queued; the newest comes first.
AddCurrent(t) ==
  /\ Move(t, "pend", "return")
  /\ pending' = [pending EXCEPT ![act[t]] = Append(@, current[t])]
  /\ UNCHANGED <<monitor, playingNow, workQueue, stopped, issued, act, current, arg>>

PushPending(t) ==
  /\ Move(t, "pend", "return")
  /\ pending' = [pending EXCEPT ![act[t]] = <<arg[t]>> \o @]
  /\ UNCHANGED <<monitor, playingNow, workQueue, stopped, issued, act, current, arg>>

AddPending(t) ==
  /\ Move(t, "pend", "return")
  /\ pending' = [pending EXCEPT ![act[t]] = Append(@, arg[t])]
  /\ UNCHANGED <<monitor, playingNow, workQueue, stopped, issued, act, current, arg>>

\* submit returns to the selector loop or to the task that called it.
LeaveSubmit(t) ==
  /\ Move(t, "return", IF t = Selector THEN "ready" ELSE "run")
  /\ Release(t)
  /\ act' = [act EXCEPT ![t] = IF t = Selector THEN None ELSE @]
  /\ arg' = [arg EXCEPT ![t] = None]
  /\ UNCHANGED <<playingNow, pending, workQueue, stopped, issued, current>>

-----------------------------------------------------------------------------
(* A thread of the pool *)

TakeJob(w) ==
  /\ ~stopped /\ workQueue # <<>> /\ Move(w, "wait", "run")
  /\ act' = [act EXCEPT ![w] = Head(workQueue).act]
  /\ current' = [current EXCEPT ![w] = Head(workQueue).task]
  /\ workQueue' = Tail(workQueue)
  /\ UNCHANGED <<monitor, playingNow, pending, stopped, issued, arg>>

\* Mutant: complete is not called in a finally block, and the task throws.
EndWithoutComplete(w) ==
  /\ Move(w, "run", "wait")
  /\ current' = [current EXCEPT ![w] = None]
  /\ act' = [act EXCEPT ![w] = None]
  /\ UNCHANGED <<monitor, playingNow, pending, workQueue, stopped, issued, arg>>

\* r.run() returns or throws: complete follows either way.
EndTask(w) ==
  /\ Move(w, "run", "complete")
  /\ current' = [current EXCEPT ![w] = None]
  /\ UNCHANGED <<monitor, playingNow, pending, workQueue, stopped, issued, act,
                 arg>>

EnterComplete(w) == Acquire(w, "complete", "drain")

\* Mutant: the actor rests in either case.
DrainAlwaysRests(w) ==
  /\ Move(w, "drain", "leave")
  /\ playingNow' = playingNow \ {act[w]}
  /\ \/ pending[act[w]] = <<>> /\ UNCHANGED <<pending, workQueue>>
     \/ /\ pending[act[w]] # <<>>
        /\ Execute(act[w], Head(pending[act[w]]))
        /\ pending' = [pending EXCEPT ![act[w]] = Tail(@)]
  /\ UNCHANGED <<monitor, stopped, issued, act, current, arg>>

\* complete hands the next pending task to the pool, or the actor rests.
\* Another thread may begin that task before this one has left complete.
Drain(w) ==
  /\ Move(w, "drain", "leave")
  /\ \/ /\ pending[act[w]] = <<>>
        /\ playingNow' = playingNow \ {act[w]}
        /\ UNCHANGED <<pending, workQueue>>
     \/ /\ pending[act[w]] # <<>>
        /\ Execute(act[w], Head(pending[act[w]]))
        /\ pending' = [pending EXCEPT ![act[w]] = Tail(@)]
        /\ playingNow' = playingNow
  /\ UNCHANGED <<monitor, stopped, issued, act, current, arg>>

\* The monitor is released and the thread is back in the pool.
LeaveComplete(w) ==
  /\ Move(w, "leave", "wait")
  /\ Release(w)
  /\ act' = [act EXCEPT ![w] = None]
  /\ UNCHANGED <<playingNow, pending, workQueue, stopped, issued, current, arg>>

\* The selector loop has ended: serve calls shutdown.
Shutdown ==
  /\ Move(Selector, "ready", "end")
  /\ stopped' = TRUE
  /\ workQueue' = <<>>
  /\ UNCHANGED <<monitor, playingNow, pending, issued, act, current, arg>>

-----------------------------------------------------------------------------
InSubmit(t) ==
  \/ EnterSubmit(t) \/ CheckPlaying(t) \/ ExecuteFirst(t) \/ AddPending(t)
  \/ LeaveSubmit(t)

Work(w) ==
  TakeJob(w) \/ EndTask(w) \/ EnterComplete(w) \/ Drain(w) \/ LeaveComplete(w)

\* Nothing is left to do but to wait, for clients or for the end.
Rest ==
  /\ pc[Selector] \in {"ready", "end"} /\ \A w \in Worker : pc[w] = "wait"
  /\ UNCHANGED vars

Next ==
  \/ \E t \in Thread : InSubmit(t) \/ \E a \in Act : Call(t, a)
  \/ \E w \in Worker : Work(w)
  \/ Shutdown \/ Rest

Spec == Init /\ [][Next]_vars

\* Threads inside submit and threads of the pool are scheduled; every task
\* ends (EveryFrameAnswered of StompServerProperties).
FairSpec ==
  /\ Spec
  /\ \A t \in Thread : WF_vars(InSubmit(t))
  /\ \A w \in Worker : WF_vars(Work(w))

-----------------------------------------------------------------------------
(* Properties *)

\* The tasks of an actor never run on two threads at once: what a task does to
\* its handler, its protocol and its decoder needs no lock.
OneTaskPerActor == \A v, w \in Worker :
  current[v] # None /\ current[w] # None /\ act[v] = act[w] => v = w

\* A thread of the pool that runs a task of its actor, or has yet to look for
\* the next one in complete.
Busy(w) == w \in Worker /\ pc[w] \notin {"wait", "leave"}

\* A pending task always has a thread that will come for it: as long as the
\* pool is open, its actor is in the work queue, or a thread is busy with it.
NoStrandedTask ==
  \A a \in Act : ~stopped /\ pending[a] # <<>> =>
    \/ \E i \in DOMAIN workQueue : workQueue[i].act = a
    \/ \E w \in Worker : Busy(w) /\ act[w] = a

\* The refinement mapping: a task that has not begun is the actor's job in the
\* work queue, of which there is one at most, or pending behind it.
InWorkQueue(a) ==
  IF \E i \in DOMAIN workQueue : workQueue[i].act = a
  THEN <<workQueue[CHOOSE i \in DOMAIN workQueue : workQueue[i].act = a].task>>
  ELSE <<>>

SerialQueue == [a \in Act |-> InWorkQueue(a) \o pending[a]]
SerialRunning == [a \in Act |->
  IF \E w \in Worker : Busy(w) /\ act[w] = a
  THEN current[CHOOSE w \in Worker : Busy(w) /\ act[w] = a] ELSE None]

Serial == INSTANCE SerialActors
            WITH queue <- SerialQueue, running <- SerialRunning,
                 open <- ~stopped

\* Each step of submit, of the pool's threads and of complete is a step of the
\* serial executor or invisible to it: tasks keep the order of submission.
SerialExecution == Serial!SSpec

\* With the scheduling of FairSpec every submitted task begins and ends, unless
\* the server shuts the pool down first.
EveryTaskRuns == Serial!SFairSpec
=============================================================================

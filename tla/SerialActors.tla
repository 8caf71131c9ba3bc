---------------------------- MODULE SerialActors ----------------------------
(***************************************************************************)
(* What the reactor asks of its thread pool: the tasks of one actor run one*)
(* at a time, in the order they were submitted, each of them once; tasks of*)
(* different actors run in parallel.  Once the pool is shut down the tasks *)
(* that have not begun may be dropped, the oldest first.                   *)
(***************************************************************************)
EXTENDS Naturals, Sequences

CONSTANTS Act, Task, None

VARIABLES queue,    \* actor -> the tasks that have not begun
          running,  \* actor -> the task that runs, or None
          open      \* not shut down

svars == <<queue, running, open>>

SInit ==
  /\ queue = [a \in Act |-> <<>>]
  /\ running = [a \in Act |-> None]
  /\ open = TRUE

Submit(a, t) ==
  /\ queue' = [queue EXCEPT ![a] = Append(@, t)]
  /\ UNCHANGED <<running, open>>

Start(a) ==
  /\ open /\ running[a] = None /\ queue[a] # <<>>
  /\ running' = [running EXCEPT ![a] = Head(queue[a])]
  /\ queue' = [queue EXCEPT ![a] = Tail(@)]
  /\ open' = open

Finish(a) ==
  /\ running[a] # None
  /\ running' = [running EXCEPT ![a] = None]
  /\ UNCHANGED <<queue, open>>

ShutDown == \E dropped \in SUBSET {a \in Act : queue[a] # <<>>} :
  /\ open' = FALSE
  /\ queue' = [a \in Act |-> IF a \in dropped THEN Tail(queue[a]) ELSE queue[a]]
  /\ running' = running

Drop(a) ==
  /\ ~open /\ queue[a] # <<>>
  /\ queue' = [queue EXCEPT ![a] = Tail(@)]
  /\ UNCHANGED <<running, open>>

SNext ==
  \/ \E a \in Act : Start(a) \/ Finish(a) \/ Drop(a) \/ \E t \in Task : Submit(a, t)
  \/ ShutDown

SSpec == SInit /\ [][SNext]_svars

\* Every task is begun, and ends, unless the pool is shut down.
SFairSpec == SSpec /\ \A a \in Act : WF_svars(Start(a)) /\ WF_svars(Finish(a))
=============================================================================

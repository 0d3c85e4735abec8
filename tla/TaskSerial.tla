----------------------------- MODULE TaskSerial -----------------------------
(***************************************************************************)
(* What schedule() and notify_poller() promise, in the words of the        *)
(* comments of epoll.c: "A task will only ever run in a single thread at a *)
(* time", and a request that another thread leaves with a task is taken up *)
(* by a thread that works on it, never dropped.                            *)
(***************************************************************************)
CONSTANTS Tasks, Threads

VARIABLES
  pending,  \* the tasks with a request that no thread has begun to act on
  workers,  \* the threads that work on each task
  closed    \* the tasks that answer no more requests

vars == <<pending, workers, closed>>

Init ==
  /\ pending = {}
  /\ workers = [t \in Tasks |-> {}]
  /\ closed = {}

Request(t) ==
  /\ t \notin closed
  /\ pending' = pending \cup {t}
  /\ UNCHANGED <<workers, closed>>

Idle(h) == \A t \in Tasks : h \notin workers[t]

\* A thread begins to work on a task, and takes what is pending or a part.
Start(t, h) ==
  /\ workers[t] = {} /\ Idle(h)
  /\ workers' = [workers EXCEPT ![t] = {h}]
  /\ pending' \in {pending, pending \ {t}}
  /\ UNCHANGED closed

\* The thread that works on a task looks again.
TakeUp(t) ==
  /\ workers[t] # {}
  /\ pending' = pending \ {t}
  /\ UNCHANGED <<workers, closed>>

\* The thread stops; the requests stay, unless it has closed the task.
Finish(t) ==
  /\ workers[t] # {}
  /\ workers' = [workers EXCEPT ![t] = {}]
  /\ \/ UNCHANGED <<pending, closed>>
     \/ pending' = pending \ {t} /\ closed' = closed \cup {t}

Next ==
  \E t \in Tasks : Request(t) \/ TakeUp(t) \/ Finish(t) \/ \E h \in Threads : Start(t, h)

Spec == Init /\ [][Next]_vars
=============================================================================

--------------------------- MODULE EpollScheduler ---------------------------
(***************************************************************************)
(* The scheduler of the epoll proactor, c/src/proactor/epoll.c: how the    *)
(* threads that call pn_proactor_wait() and pn_proactor_get() share the    *)
(* tasks that have work, take turns at epoll_wait(), suspend and resume.   *)
(*                                                                         *)
(* tsk[t] is the task_t of t, ts[h] the tslot_t of the thread h and p the  *)
(* scheduling part of pn_proactor_t.  The linked lists are sequences.  A   *)
(* step is one critical section: the operators named after functions map   *)
(* the record s of these three to its next value, and an action applies    *)
(* the ones its thread runs under one lock.  A function that returns       *)
(* notify sets ready_list_active, so Notify reads it off the two states;   *)
(* Resumed does the same for the threads taken off the suspend list.       *)
(*                                                                         *)
(* What a task does with its events is abstract: waking stands for         *)
(* anything another thread leaves for it under its lock, and its file      *)
(* descriptor (a socket, the timerfd, the interrupt eventfd) reports once  *)
(* for each time it is armed.  A generation number is compared only with   *)
(* the current one, so ready_generation is "none", "new" or "old", and     *)
(* moved says that the generation of the overridden thread has changed.    *)
(***************************************************************************)
EXTENDS Integers, Sequences, FiniteSets, SequencesExt

CONSTANTS
  Tasks,               \* the connections, listeners, proactor, timer manager
  Threads,             \* the application's threads
  Getters,             \* those that call pn_proactor_get, not _wait
  Staying,             \* those that always come back for more work
  Finishing,           \* the tasks that the application may close
  NULL,
  PLACEHOLDER,         \* RESCHEDULE_PLACEHOLDER
  thread_capacity,     \* room in the list of warm runnables (8, 16, ...)
  runnables_capacity,  \* room for runnables and for epoll events (16, ...)
  MaxWork,             \* bound: wakes and I/O events from outside
  MayInterrupt         \* a signal may interrupt epoll_wait

ASSUME SchedConstants ==
  /\ Getters \subseteq Threads /\ Staying \subseteq Threads \ Getters
  /\ Finishing \subseteq Tasks
  /\ NULL \notin Tasks \cup Threads
  /\ PLACEHOLDER \notin Threads \cup {NULL}
  /\ {thread_capacity, runnables_capacity} \subseteq Nat \ {0}
  /\ MaxWork \in Nat
  /\ MayInterrupt \in BOOLEAN

VARIABLES
  tsk,   \* the tasks
  ts,    \* the thread slots
  p,     \* the proactor
  l,     \* where each thread is, and its local variables
  fd,    \* the kernel: which descriptors are armed, which have something
  work,  \* stimuli so far
  ok     \* no assertion has failed

vars == <<tsk, ts, p, l, fd, work, ok>>

s == [tsk |-> tsk, ts |-> ts, p |-> p, ok |-> ok]

Notify(a, b) == ~a.p.ready_list_active /\ b.p.ready_list_active

Resumed(a, b) == ToSet(a.p.suspend_list) \ ToSet(b.p.suspend_list)

Without(seq, x) == SelectSeq(seq, LAMBDA y : y # x)

-----------------------------------------------------------------------------
(* The ready list *)

schedule(a, t) ==
  IF a.tsk[t].ready \/ a.tsk[t].working THEN a
  ELSE [a EXCEPT !.tsk[t].ready = TRUE, !.tsk[t].ready_generation = "new",
                 !.p.ready_list = Append(@, t), !.p.ready_list_active = TRUE,
                 !.ok = @ /\ a.tsk[t].ready_generation = "none"]

schedule_done(a, t) ==
  [a EXCEPT !.tsk[t].ready_generation = "none", !.tsk[t].ready = FALSE,
            !.ok = @ /\ a.tsk[t].ready /\ a.tsk[t].ready_generation # "none"]

schedule_ready_list(a) ==
  [a EXCEPT !.p.sched_ready = @ \o a.p.ready_list, !.p.ready_list = <<>>]

on_sched_ready_list(a, t) == a.tsk[t].ready_generation = "old"

sched_ready_pop_front(a) ==
  [a EXCEPT !.p.sched_ready = Tail(@),
            !.p.sched_ready_pending = @ /\ Len(a.p.sched_ready) > 1]

\* Mutant: a task that has a thread is given to another one.
FreeIgnoresRunner(a, t) == a.tsk[t].runnables_idx = 0

Free(a, t) == a.tsk[t].runnables_idx = 0 /\ a.tsk[t].runner = NULL

\* The caller runs the task or makes it runnable if it was Free.
post_ready(a, t) ==
  [a EXCEPT !.tsk[t].sched_ready = TRUE, !.tsk[t].sched_pending = TRUE]

-----------------------------------------------------------------------------
(* Pairing threads and tasks *)

assign_thread(a, h, t) ==
  [a EXCEPT !.tsk[t].runner = h, !.tsk[t].prev_runner = NULL,
            !.tsk[t].runnables_idx = 0,
            !.ts[h].task = t, !.ts[h].prev_task = NULL,
            !.ok = @ /\ a.tsk[t].runner = NULL]

earmark_thread(a, h, t) ==
  [assign_thread(a, h, t) EXCEPT !.ts[h].earmarked = TRUE,
                                 !.p.earmark_count = @ + 1]

remove_earmark(a, h) ==
  [a EXCEPT !.tsk[a.ts[h].task].runner = NULL, !.ts[h].task = NULL,
            !.ts[h].earmarked = FALSE, !.p.earmark_count = @ - 1]

make_runnable(a, t) ==
  LET h    == a.tsk[t].prev_runner
      warm == h # NULL /\ a.ts[h].prev_task = t
      b    == [a EXCEPT !.ok = @ /\ a.tsk[t].runnables_idx = 0
                               /\ Len(a.p.runnables) <= runnables_capacity]
  IN  IF a.tsk[t].runner # NULL THEN b
      ELSE IF /\ warm /\ a.ts[h].state \in {"SUSPENDED", "PROCESSING"}
              /\ Len(a.p.warm_runnables) < thread_capacity
           THEN assign_thread([b EXCEPT !.p.warm_runnables = Append(@, t)], h, t)
      ELSE IF warm /\ a.ts[h].state = "UNUSED" /\ ~a.p.earmark_drain
           THEN earmark_thread(b, h, t)
      ELSE [b EXCEPT !.p.runnables = Append(@, t),
                     !.tsk[t].runnables_idx = Len(a.p.runnables) + 1]

resched_pop_front(a) ==
  LET t == Head(a.p.resched)
  IN  [a EXCEPT !.p.resched = Tail(@), !.p.polled_resched_count = @ - 1,
                !.p.resched_cutoff = IF t = @ THEN NULL ELSE @,
                !.tsk[t].runner = NULL,
                !.ok = /\ @ /\ a.p.resched_cutoff # NULL
                       /\ (t = a.p.resched_cutoff => a.p.polled_resched_count = 1)
                       /\ a.tsk[t].runner = PLACEHOLDER
                       /\ a.tsk[t].sched_pending /\ a.tsk[t].runnables_idx = 0]

suspend(a, h) ==
  [a EXCEPT !.p.suspend_list = IF a.ts[h].state = "NEW" THEN Append(@, h)
                               ELSE <<h>> \o @,
            !.ts[h].state = "SUSPENDED", !.ts[h].scheduled = FALSE]

take_suspended(a, h) ==
  [a EXCEPT !.p.suspend_list = Without(@, h), !.ts[h].state = "PROCESSING"]

resume_one_thread(a) ==
  IF a.p.suspend_list = <<>> THEN a ELSE take_suspended(a, Head(a.p.suspend_list))

\* A task that is being deleted has been taken off the thread by
\* proactor_remove, so that the DELETING state is never seen here.
unassign_thread(a, h, new_state) ==
  LET t       == a.ts[h].task
      pending == t # NULL /\ a.tsk[t].sched_pending
      b == [a EXCEPT !.ts[h].task = NULL, !.ts[h].state = new_state,
                     !.ts[h].override = NULL]
      c == IF t = NULL THEN b
           ELSE [b EXCEPT
                  !.tsk[t].runner = IF pending THEN PLACEHOLDER ELSE NULL,
                  !.tsk[t].prev_runner = h, !.ts[h].prev_task = t]
      d == IF ~pending THEN c
           ELSE [c EXCEPT
                  !.p.resched = Append(@, t), !.p.resched_count = @ + 1,
                  !.p.ready_list_active = @ \/ a.p.poller_suspended,
                  !.ok = @ /\ t \notin ToSet(a.p.resched)]
  IN  IF a.ts[h].override # NULL /\ ~a.ts[h].moved
      THEN resume_one_thread(d) ELSE d

-----------------------------------------------------------------------------
(* Looking for a task: after next_runnable, ts[h].task is what it returns *)

next_drain(a, h) ==
  LET h2 == CHOOSE x \in Threads : a.ts[x].earmarked
      t  == a.ts[h2].task
      b  == [assign_thread(remove_earmark(a, h2), h, t) EXCEPT
               !.ts[h].override = h2, !.ts[h].moved = FALSE]
  IN  IF \E x \in Threads : a.ts[x].earmarked
      THEN [b EXCEPT !.p.earmark_drain = b.p.earmark_count # 0]
      ELSE [a EXCEPT !.ok = FALSE]

\* Take the first task of the sched_ready list that has no thread yet.
RECURSIVE next_sched_ready(_, _)
next_sched_ready(a, h) ==
  IF ~a.p.sched_ready_pending THEN a
  ELSE LET t == Head(a.p.sched_ready)
           b == post_ready(sched_ready_pop_front(a), t)
           c == [b EXCEPT !.ok = @ /\ a.tsk[t].ready]
       IN  IF Free(a, t) THEN assign_thread(c, h, t) ELSE next_sched_ready(c, h)

\* The slots before next_runnable have been taken; those of tasks that were
\* claimed by their previous thread are NULL.
Unclaimed(a) == {i \in a.p.next_runnable .. Len(a.p.runnables) :
                   a.p.runnables[i] # NULL}

TakeRunnable(a, h) ==
  LET i == CHOOSE x \in Unclaimed(a) : \A y \in Unclaimed(a) : x <= y
  IN  assign_thread(
        IF i = Len(a.p.runnables)
        THEN [a EXCEPT !.p.runnables = <<>>, !.p.next_runnable = i + 1]
        ELSE [a EXCEPT !.p.next_runnable = i + 1],
        h, a.p.runnables[i])

next_runnable(a, h) ==
  LET t == a.ts[h].prev_task
      b == IF Unclaimed(a) = {} THEN [a EXCEPT !.p.runnables = <<>>] ELSE a
      c == next_sched_ready(b, h)
  IN  IF a.ts[h].task # NULL
      THEN IF a.ts[h].earmarked
           THEN [a EXCEPT !.ts[h].earmarked = FALSE, !.p.earmark_count = @ - 1,
                          !.p.earmark_drain = @ /\ a.p.earmark_count # 1]
           ELSE a
      ELSE IF t # NULL /\ a.tsk[t].runnables_idx # 0
      THEN assign_thread(
             [a EXCEPT !.p.runnables[a.tsk[t].runnables_idx] = NULL,
                       !.ok = @ /\ a.p.runnables[a.tsk[t].runnables_idx] = t],
             h, t)
      ELSE IF Unclaimed(a) # {} THEN TakeRunnable(a, h)
      ELSE IF c.ts[h].task # NULL THEN c
      ELSE IF c.p.polled_resched_count > 0
      THEN assign_thread(resched_pop_front(c), h, Head(c.p.resched))
      ELSE IF c.p.earmark_drain THEN next_drain(c, h)
      ELSE c

-----------------------------------------------------------------------------
(* The poller *)

\* The locals of a thread outside the proactor.
Outside == [at |-> "out", block |-> FALSE, t |-> NULL, events |-> FALSE,
            tsk_ready |-> FALSE, unpolled |-> FALSE, immediate |-> FALSE,
            kevents |-> <<>>, notify |-> FALSE, resume |-> {}, then |-> "out"]

\* Mutant: the poller goes to sleep without looking at the ready list.
SleepBlindly(a, h, block, unpolled) ==
  LET unpolled1 == unpolled \/ a.p.earmark_count > 0 \/ a.p.resched # <<>>
      immediate == unpolled1 \/ ~block
  IN  [s |-> [a EXCEPT !.p.next_runnable = 1, !.p.warm_runnables = <<>>,
                       !.p.ready_list_active = @ /\ immediate,
                       !.p.poller_suspended = ~immediate,
                       !.ok = @ /\ a.p.runnables = <<>>],
       l |-> [Outside EXCEPT !.at = "epoll", !.block = block,
                !.unpolled = unpolled1, !.immediate = immediate]]

\* The loop of poller_do_epoll up to epoll_wait.
poll_begin(a, h, block, unpolled) ==
  LET unpolled1 == unpolled \/ a.p.earmark_count > 0 \/ a.p.resched # <<>>
      unpolled2 == unpolled1 \/ (block /\ a.p.ready_list # <<>>)
      immediate == unpolled2 \/ ~block
  IN  [s |-> [a EXCEPT !.p.next_runnable = 1, !.p.warm_runnables = <<>>,
                       !.p.ready_list_active = @ /\ immediate,
                       !.p.poller_suspended = ~immediate,
                       !.ok = @ /\ a.p.runnables = <<>>],
       l |-> [Outside EXCEPT !.at = "epoll", !.block = block,
                !.unpolled = unpolled2, !.immediate = immediate]]

\* After epoll_wait: take stock of the resched list, the earmarks and the
\* ready list, and start a new generation of the latter.
poll_collect(a) ==
  LET b == [schedule_ready_list(a) EXCEPT
              !.p.poller_suspended = FALSE,
              !.p.earmark_drain = @ \/ a.p.earmark_count > 0,
              !.tsk = [t \in Tasks |-> [a.tsk[t] EXCEPT
                         !.ready_generation = IF @ = "new" THEN "old" ELSE @]]]
  IN  IF a.p.resched = <<>> THEN b
      ELSE [b EXCEPT !.p.resched_cutoff = Last(a.p.resched),
                     !.p.polled_resched_count = a.p.resched_count,
                     !.p.resched_count = 0,
                     !.ok = @ /\ a.p.polled_resched_count = 0]

Unpolled(a) == a.p.resched # <<>> \/ a.p.earmark_count > 0 \/ a.p.sched_ready # <<>>

\* EVENT_FD is the eventfd of the ready list, which needs no posting.
post_event(a, e) ==
  IF e = "EVENT_FD" THEN a
  ELSE LET b == [a EXCEPT !.tsk[e].sched_io = TRUE, !.tsk[e].sched_pending = TRUE]
       IN  IF Free(a, e) /\ ~on_sched_ready_list(a, e) THEN make_runnable(b, e)
           ELSE b

\* Make tasks of the sched_ready list runnable.
RECURSIVE pop_ready(_, _)
pop_ready(a, warm_tries) ==
  IF a.p.sched_ready = <<>> \/ Len(a.p.runnables) >= runnables_capacity \/ warm_tries = 0
  THEN [a |-> [a EXCEPT !.p.sched_ready_pending = a.p.sched_ready # <<>>],
        tries |-> warm_tries]
  ELSE LET t == Head(a.p.sched_ready)
           b == post_ready(sched_ready_pop_front(a), t)
       IN  pop_ready(IF Free(a, t) THEN make_runnable(b, t) ELSE b, warm_tries - 1)

\* Make rescheduled tasks runnable.
RECURSIVE pop_resched(_, _)
pop_resched(a, warm_tries) ==
  IF a.p.resched_cutoff = NULL \/ Len(a.p.runnables) >= runnables_capacity \/ warm_tries = 0
  THEN a
  ELSE pop_resched(make_runnable(resched_pop_front(a), Head(a.p.resched)),
                   warm_tries - 1)

\* The rest of poller_do_epoll, from the events to the runnables.
poll_post(a, kevents) ==
  LET b     == FoldLeft(post_event, a, kevents)
      spare == Len(b.p.suspend_list) - Len(b.p.warm_runnables)
      c     == pop_ready(b, IF spare < 0 THEN 0 ELSE spare)
  IN  pop_resched(c.a, c.tries)

\* Resume the first n suspended threads.
RECURSIVE take_heads(_, _)
take_heads(a, n) == IF n = 0 THEN a ELSE take_heads(resume_one_thread(a), n - 1)

Least(x, y) == IF x < y THEN x ELSE y

poller_done(a, h) ==
  LET warm == SelectSeq(a.p.warm_runnables,
                LAMBDA t : a.ts[a.tsk[t].runner].state = "SUSPENDED")
      b    == FoldLeft(LAMBDA x, t : take_suspended(x, a.tsk[t].runner), a, warm)
      idle == IF a.ts[h].task = NULL THEN 1 ELSE 0
      max_resumes == Least(Len(a.p.warm_runnables) + Len(a.p.runnables)
                             + Len(a.p.sched_ready) + a.p.polled_resched_count,
                           Len(a.p.suspend_list))
      new_runners == Least(Least(Len(a.p.runnables) + 1, Len(b.p.suspend_list) + idle) - idle,
                           thread_capacity - Len(warm))
  IN  [IF max_resumes = 0 THEN a
       ELSE [take_heads(b, new_runners) EXCEPT
               !.ok = @ /\ Len(warm) + new_runners <= max_resumes]
       EXCEPT !.p.poller = NULL]

-----------------------------------------------------------------------------
(* One turn of the loop of next_event_batch, under the sched lock *)

\* process: what the poller posted for the task passes to the thread.
begin_process(a, h, block) ==
  LET t == a.ts[h].task
  IN  [s |-> [a EXCEPT !.ts[h].state = "BATCHING", !.tsk[t].sched_pending = FALSE,
                       !.tsk[t].sched_ready = FALSE, !.tsk[t].sched_io = FALSE],
       l |-> [Outside EXCEPT !.at = "process", !.block = block, !.t = t,
                !.events = a.tsk[t].sched_io, !.tsk_ready = a.tsk[t].sched_ready]]

become_poller(a, h, block) ==
  poll_begin([a EXCEPT !.p.poller = h,
                       !.ok = /\ @ /\ a.p.resched_cutoff = NULL
                              /\ a.p.sched_ready = <<>> /\ ~a.p.sched_ready_pending],
             h, block, FALSE)

hunt(a, h, block) ==
  LET b == next_runnable(a, h)
  IN  IF b.ts[h].task # NULL THEN begin_process(b, h, block)
      ELSE IF b.p.poller = NULL THEN become_poller(b, h, block)
      ELSE IF ~block
      THEN [s |-> [b EXCEPT !.ts[h].state = "UNUSED"], l |-> Outside]
      ELSE [s |-> suspend(b, h),
            l |-> [Outside EXCEPT !.at = "suspended", !.block = block]]

Continue(block, then) ==
  IF then = "out" THEN Outside ELSE [Outside EXCEPT !.at = then, !.block = block]

\* A thread leaves a critical section owing a notify_poller, and a resume to
\* each thread that was taken off the suspend list, and then goes on.
leave(notify, resume, block, then) ==
  IF notify \/ resume # {}
  THEN [Outside EXCEPT !.at = "post", !.block = block, !.then = then,
                       !.notify = notify, !.resume = resume]
  ELSE Continue(block, then)

-----------------------------------------------------------------------------
(* State and initial state *)

ThreadOrNull == Threads \cup {NULL}
TaskOrNull   == Tasks \cup {NULL}

TypeOK ==
  /\ tsk \in [Tasks -> [ready : BOOLEAN, working : BOOLEAN, waking : BOOLEAN,
       ready_generation : {"none", "new", "old"}, closing : BOOLEAN, arm : BOOLEAN,
       runner : ThreadOrNull \cup {PLACEHOLDER}, prev_runner : ThreadOrNull,
       sched_ready : BOOLEAN, sched_pending : BOOLEAN, sched_io : BOOLEAN,
       runnables_idx : 0 .. runnables_capacity, freed : BOOLEAN]]
  /\ ts \in [Threads -> [task : TaskOrNull, prev_task : TaskOrNull,
       state : {"NEW", "UNUSED", "SUSPENDED", "PROCESSING", "BATCHING", "DELETING"},
       earmarked : BOOLEAN, scheduled : BOOLEAN, override : ThreadOrNull, moved : BOOLEAN]]
  /\ p.ready_list \in Seq(Tasks) /\ p.sched_ready \in Seq(Tasks)
  /\ p.resched \in Seq(Tasks) /\ p.runnables \in Seq(TaskOrNull)
  /\ p.warm_runnables \in Seq(Tasks) /\ p.suspend_list \in Seq(Threads)
  /\ p.earmark_count \in 0 .. Cardinality(Threads)
  /\ p.resched_count \in Nat /\ p.polled_resched_count \in Nat
  /\ fd.armed \subseteq Tasks \cup {"EVENT_FD"} /\ fd.data \subseteq Tasks
  /\ fd.owed \in 0 .. MaxWork
  /\ work \in 0 .. MaxWork /\ ok \in BOOLEAN

\* The tasks have been added, and their descriptors armed, by the threads
\* that created them; no thread has called the proactor yet.
Init ==
  /\ tsk = [t \in Tasks |->
       [ready |-> FALSE, working |-> FALSE, waking |-> FALSE,
        ready_generation |-> "none", closing |-> FALSE, arm |-> TRUE,
        runner |-> NULL, prev_runner |-> NULL, sched_ready |-> FALSE,
        sched_pending |-> FALSE, sched_io |-> FALSE, runnables_idx |-> 0,
        freed |-> FALSE]]
  /\ ts = [h \in Threads |->
       [state |-> "NEW", task |-> NULL, prev_task |-> NULL, earmarked |-> FALSE,
        scheduled |-> FALSE, override |-> NULL, moved |-> FALSE]]
  /\ p = [ready_list |-> <<>>, ready_list_active |-> FALSE, sched_ready |-> <<>>,
          sched_ready_pending |-> FALSE, resched |-> <<>>, resched_count |-> 0,
          polled_resched_count |-> 0, resched_cutoff |-> NULL,
          runnables |-> <<>>, next_runnable |-> 1, warm_runnables |-> <<>>,
          suspend_list |-> <<>>, poller |-> NULL, poller_suspended |-> FALSE,
          earmark_count |-> 0, earmark_drain |-> FALSE]
  /\ l = [h \in Threads |-> Outside]
  /\ fd = [armed |-> Tasks, data |-> {}, owed |-> 0]
  /\ work = 0
  /\ ok = TRUE

Become(a) == tsk' = a.tsk /\ ts' = a.ts /\ p' = a.p /\ ok' = a.ok

Goto(h, local) == l' = [l EXCEPT ![h] = local]

\* The poller keeps the sched lock between its two sections of eventfd_mutex.
SchedLockFree == \A h \in Threads : l[h].at # "posting"

Hunt(a, h, block) ==
  \E r \in {hunt(a, h, block)} : Become(r.s) /\ Goto(h, r.l)

-----------------------------------------------------------------------------
(* The threads in pn_proactor_wait and pn_proactor_get *)

\* next_event_batch, from pn_proactor_wait, which may block, or _get.
Call(h) ==
  /\ l[h].at = "out" /\ SchedLockFree
  /\ \E a \in {[s EXCEPT
                   !.ts = [x \in Threads |->
                     [ts[x] EXCEPT !.state = IF x = h THEN "PROCESSING" ELSE @,
                                   !.moved = @ \/ ts[x].override = h]],
                   !.ok = /\ @ /\ (ts[h].task = NULL \/ ts[h].earmarked)
                          /\ ts[h].state \in {"UNUSED", "NEW"}]} :
       Hunt(a, h, h \notin Getters)
  /\ UNCHANGED <<fd, work>>

\* The loop once more, after the lock was given up or the thread suspended.
Again(h) ==
  /\ l[h].at = "hunt" \/ (l[h].at = "suspended" /\ ts[h].scheduled)
  /\ SchedLockFree
  /\ Hunt([s EXCEPT !.ok = @ /\ s.ts[h].state = "PROCESSING"], h, l[h].block)
  /\ UNCHANGED <<fd, work>>

\* notify_poller, then resume for each thread, without a lock.
Post(h) ==
  /\ l[h].at = "post"
  /\ IF l[h].notify
     THEN /\ fd' = [fd EXCEPT !.armed = @ \cup {"EVENT_FD"}]
          /\ Goto(h, [l[h] EXCEPT !.notify = FALSE])
          /\ UNCHANGED ts
     ELSE /\ ts' = [x \in Threads |-> IF x \in l[h].resume
                       THEN [ts[x] EXCEPT !.scheduled = TRUE] ELSE ts[x]]
          /\ Goto(h, Continue(l[h].block, l[h].then))
          /\ UNCHANGED fd
  /\ UNCHANGED <<tsk, p, work, ok>>

Readable == fd.armed \cap (fd.data \cup {"EVENT_FD"})

\* epoll_wait: the kernel reports descriptors in an order of its own, and
\* disarms them; it waits for one if it may, and a signal may interrupt it.
epoll_wait(h) ==
  /\ l[h].at = "epoll"
  /\ \E events \in SUBSET Readable, EINTR \in BOOLEAN : \E kevents \in SetToSeqs(events) :
       /\ IF EINTR THEN MayInterrupt /\ ~l[h].immediate /\ events = {}
          ELSE /\ Cardinality(events) = Least(Cardinality(Readable), runnables_capacity)
               /\ events # {} \/ l[h].immediate
       /\ Goto(h, [l[h] EXCEPT !.at = IF EINTR THEN "interrupted" ELSE "polled",
                               !.kevents = kevents])
       /\ fd' = [fd EXCEPT !.armed = @ \ events]
  /\ UNCHANGED <<tsk, ts, p, work, ok>>

\* poller_do_epoll from epoll_wait to the end of its loop.
Collect(h) ==
  /\ l[h].at \in {"polled", "interrupted"} /\ SchedLockFree
  /\ \E a \in {poll_collect(s)} :
       LET unpolled == l[h].unpolled \/ Unpolled(a)
           nothing  == l[h].kevents = <<>>
       IN  IF nothing /\ ~l[h].block /\ ~unpolled
           THEN \E b \in {resume_one_thread([a EXCEPT !.p.poller = NULL,
                                                     !.ts[h].state = "UNUSED"])} :
                  Become(b) /\ Goto(h, leave(FALSE, Resumed(a, b), FALSE, "out"))
           ELSE IF l[h].at = "interrupted" \/ (nothing /\ ~unpolled)
           THEN \E r \in {poll_begin(a, h, l[h].block, unpolled)} :
                  Become(r.s) /\ Goto(h, r.l)
           ELSE Become(a) /\ Goto(h, [l[h] EXCEPT !.at = "posting"])
  /\ UNCHANGED <<fd, work>>

\* The rest of poller_do_epoll, and poller_done.
Distribute(h) ==
  /\ l[h].at = "posting"
  /\ \E a \in {poll_post(s, l[h].kevents)} : \E b \in {poller_done(a, h)} :
       IF Resumed(a, b) = {} THEN Hunt(b, h, l[h].block)
       ELSE Become(b) /\ Goto(h, leave(FALSE, Resumed(a, b), l[h].block, "hunt"))
  /\ UNCHANGED <<fd, work>>

-----------------------------------------------------------------------------
(* The tasks *)

\* The start of the process function of a task, under the task's lock: it
\* takes the events and the wake that are waiting.
Begin(h) ==
  /\ l[h].at = "process"
  /\ \E t \in {l[h].t} : \E a \in {IF l[h].tsk_ready THEN schedule_done(s, t) ELSE s} :
         /\ Become([a EXCEPT !.tsk[t].working = TRUE, !.tsk[t].waking = FALSE,
                             !.tsk[t].arm = @ /\ ~l[h].events,
                             !.ok = @ /\ ~a.tsk[t].working])
         /\ fd' = [fd EXCEPT !.data = IF l[h].events /\ ~tsk[t].closing THEN @ \ {t} ELSE @]
         /\ Goto(h, [Outside EXCEPT !.at = "working", !.t = t, !.block = l[h].block])
  /\ UNCHANGED work

final(t) == ~tsk[t].arm /\ ~tsk[t].ready

\* Where a task's thread goes when it stops working: the descriptor is armed
\* again unless it still is or the task is closing.
AfterWork(t, closing) ==
  IF closing /\ final(t) THEN "cleanup"
  ELSE IF closing \/ tsk[t].arm THEN "unassign"
  ELSE "rearm"

\* The process function returns a batch to the application.
Batch(h) ==
  /\ l[h].at = "working" /\ ~tsk[l[h].t].closing
  /\ Goto(h, [l[h] EXCEPT !.at = "batch"])
  /\ UNCHANGED <<tsk, ts, p, fd, work, ok>>

\* The process function has nothing for the application: it stops working
\* unless there is a new wake, or deletes the task when that is closing.
Stop(h) ==
  /\ l[h].at = "working"
  /\ LET t == l[h].t
     IN  IF tsk[t].waking
         THEN tsk' = [tsk EXCEPT ![t].waking = FALSE] /\ UNCHANGED l
         ELSE /\ tsk' = [tsk EXCEPT ![t].working = FALSE]
              /\ Goto(h, [l[h] EXCEPT !.at = AfterWork(t, tsk[t].closing), !.then = "hunt"])
  /\ UNCHANGED <<ts, p, fd, work, ok>>

\* Mutant: pn_proactor_done forgets a wake that came during the batch.
DoneForgetsWake(h, finished) ==
  /\ l[h].at = "batch" /\ ~finished
  /\ \E t \in {l[h].t} :
       /\ Become([s EXCEPT !.tsk[t].working = FALSE, !.tsk[t].waking = FALSE])
       /\ Goto(h, [l[h] EXCEPT !.at = AfterWork(t, FALSE), !.then = "out"])
  /\ UNCHANGED <<fd, work>>

\* pn_proactor_done, under the task's lock: the task schedules itself if it
\* has more to do, and begins to close when the application has finished.
Done(h, finished) ==
  /\ l[h].at = "batch" /\ (finished => l[h].t \in Finishing)
  /\ \E t \in {l[h].t} : \E a \in {[s EXCEPT !.tsk[t].working = FALSE]} :
     \E b \in {IF a.tsk[t].waking THEN schedule(a, t)
              ELSE [a EXCEPT !.tsk[t].closing = @ \/ finished]} :
     LET closing == b.tsk[t].closing
     IN  /\ Become(b)
         /\ fd' = [fd EXCEPT !.data = IF closing /\ tsk[t].arm THEN @ \cup {t} ELSE @]
         /\ Goto(h, [l[h] EXCEPT !.at = AfterWork(t, closing), !.then = "out",
                                 !.notify = Notify(a, b)])
  /\ UNCHANGED work

\* The descriptor is armed again, after the task's lock has been released.
Rearm(h) ==
  /\ l[h].at = "rearm"
  /\ tsk' = [tsk EXCEPT ![l[h].t].arm = TRUE]
  /\ fd' = [fd EXCEPT !.armed = @ \cup {l[h].t}]
  /\ Goto(h, [l[h] EXCEPT !.at = "unassign"])
  /\ UNCHANGED <<ts, p, work, ok>>

\* proactor_remove: no thread slot keeps the task, which is then freed.
Cleanup(h) ==
  /\ l[h].at = "cleanup" /\ SchedLockFree
  /\ LET t == l[h].t
     IN  /\ ts' = [x \in Threads |->
                    [ts[x] EXCEPT !.task = IF @ = t THEN NULL ELSE @,
                                  !.prev_task = IF @ = t THEN NULL ELSE @,
                                  !.state = IF x = tsk[t].runner THEN "DELETING" ELSE @]]
         /\ tsk' = [tsk EXCEPT ![t].freed = TRUE]
         /\ fd' = [fd EXCEPT !.armed = @ \ {t}]
  /\ Goto(h, [l[h] EXCEPT !.at = "unassign"])
  /\ UNCHANGED <<p, work, ok>>

\* unassign_thread, at the end of pn_proactor_done or in the loop of
\* next_event_batch, which goes round without giving up the lock.
Unassign(h) ==
  /\ l[h].at = "unassign" /\ SchedLockFree
  /\ \E back \in {l[h].then = "hunt"} :
     \E a \in {unassign_thread(s, h, IF back THEN "PROCESSING" ELSE "UNUSED")} :
     LET notify == Notify(s, a) \/ l[h].notify
     IN  IF back /\ ~notify /\ Resumed(s, a) = {} THEN Hunt(a, h, l[h].block)
         ELSE Become(a) /\ Goto(h, leave(notify, Resumed(s, a), l[h].block, l[h].then))
  /\ UNCHANGED <<fd, work>>

-----------------------------------------------------------------------------
(* The world outside *)

\* pn_connection_wake and its like, from any thread: the caller owes a
\* notify_poller if ready_list_active changes.
Wake(t) ==
  /\ work < MaxWork /\ ~tsk[t].closing /\ ~tsk[t].freed /\ ~tsk[t].waking
  /\ LET a == schedule([s EXCEPT !.tsk[t].waking = TRUE], t)
     IN  /\ Become(a)
         /\ work' = work + 1
         /\ fd' = IF Notify(s, a) THEN [fd EXCEPT !.owed = @ + 1] ELSE fd
  /\ UNCHANGED l

notify_poller ==
  /\ fd.owed > 0
  /\ fd' = [fd EXCEPT !.owed = @ - 1, !.armed = @ \cup {"EVENT_FD"}]
  /\ UNCHANGED <<tsk, ts, p, l, work, ok>>

\* Something arrives at a descriptor.
Arrive(t) ==
  /\ work < MaxWork /\ t \notin fd.data /\ ~tsk[t].freed
  /\ fd' = [fd EXCEPT !.data = @ \cup {t}]
  /\ work' = work + 1
  /\ UNCHANGED <<tsk, ts, p, l, ok>>

Internal(h) ==
  \/ Again(h) \/ Post(h) \/ epoll_wait(h) \/ Collect(h) \/ Distribute(h)
  \/ Begin(h) \/ Stop(h) \/ Rearm(h) \/ Cleanup(h) \/ Unassign(h)

Next ==
  \/ \E h \in Threads : Call(h) \/ Internal(h) \/ Batch(h)
  \/ \E h \in Threads, finished \in BOOLEAN : Done(h, finished)
  \/ \E t \in Tasks : Wake(t) \/ Arrive(t)
  \/ notify_poller

Spec == Init /\ [][Next]_vars

\* A thread in the proactor goes on; the application finishes its batches and
\* its calls of notify_poller, and its Staying threads come back.
CanStep(h) ==
  \/ l[h].at \in {"post", "posting", "process", "working", "rearm"}
  \/ l[h].at = "epoll" /\ (l[h].immediate \/ Readable # {})
  \/ /\ SchedLockFree
     /\ \/ l[h].at \in {"hunt", "polled", "interrupted", "cleanup", "unassign"}
        \/ l[h].at = "suspended" /\ ts[h].scheduled

Fairness ==
  /\ \A h \in Threads : <>[]CanStep(h) => []<><<Internal(h)>>_vars
  /\ \A h \in Threads : <>[](l[h].at = "batch") => []<><<Done(h, FALSE)>>_vars
  /\ \A h \in Staying : <>[](l[h].at = "out" /\ SchedLockFree) => []<><<Call(h)>>_vars
  /\ WF_vars(notify_poller)

FairSpec == Spec /\ Fairness

-----------------------------------------------------------------------------
(* Properties *)

\* No list, no thread slot and no event in hand holds on to a task that has
\* been freed: pconnection_is_final and proactor_remove see to it.
NothingFreed ==
  \A t \in Tasks : tsk[t].freed =>
    /\ t \notin UNION {ToSet(p.ready_list), ToSet(p.sched_ready), ToSet(p.resched),
                       {p.runnables[i] : i \in Unclaimed(s)}, fd.armed}
    /\ \A h \in Threads : t \notin {ts[h].task, ts[h].prev_task} \cup ToSet(l[h].kevents)

\* None of the assertions of the scheduler fails (schedule, schedule_done,
\* assign_thread, make_runnable, resched_pop_front, unassign_thread,
\* next_runnable, next_event_batch, poller_do_epoll, poller_done): a task is
\* never run by two threads or put on two lists, the two counts of the resched
\* list match it, and a new poller starts from empty lists, whatever the order
\* in which wakes, events, suspended threads and batches meet; and nothing holds
\* on to a task that has been freed.
NoAssertionFails == TypeOK /\ ok /\ NothingFreed

\* What a task has been asked to do and has not begun, and who works on it.
Pending == {t \in Tasks : tsk[t].waking \/ (t \in fd.data /\ ~tsk[t].closing)}

Workers(t) == {h \in Threads : l[h].t = t /\ l[h].at \in {"working", "batch"}}

Serial == INSTANCE TaskSerial WITH
  pending <- Pending, workers <- [t \in Tasks |-> Workers(t)],
  closed <- {t \in Tasks : tsk[t].closing}

\* The scheduler implements TaskSerial: at most one thread works on a task at
\* a time, a wake or an event is only ever cleared by a thread that takes it up
\* as it works on the task (so none is lost by working, waking and ready in
\* the process and done functions), and a closed task stays closed.
Implements == Serial!Spec

\* Every wake and every event at a descriptor is taken up by a thread, as long
\* as one thread keeps calling pn_proactor_wait: no wake is lost between the
\* ready list, its eventfd and the sleep of the poller, no task is stranded on
\* the resched list, as a runnable or as an earmark, and no suspended thread
\* that was given a task is left asleep.
Served == \A t \in Tasks : t \in Pending ~> t \notin Pending

=============================================================================

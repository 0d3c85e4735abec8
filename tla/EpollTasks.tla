----------------------------- MODULE EpollTasks -----------------------------
(***************************************************************************)
(* The life of the tasks of an epoll proactor, c/src/proactor/epoll.c: a   *)
(* listener with its sockets, the connections accepted from it, the list   *)
(* of sockets that ran out of file descriptors, pn_proactor_disconnect     *)
(* and the event that says that the proactor has become inactive.          *)
(*                                                                         *)
(* A step is one critical section of a task's mutex, with the sections of  *)
(* the proactor's and the overflow mutex inside it.  A task is processed   *)
(* by one thread at a time (EpollScheduler): w[t] is where that thread is. *)
(* Of the poller only its sleep is kept: a task on the ready list waits    *)
(* until the poller has been woken.  schedule returns notify when the      *)
(* ready list was not active; all callers but pn_proactor_disconnect call  *)
(* notify_poller at once, so that schedule raises the signal for them.     *)
(* A connection's protocol engine is its driver, which has events for the  *)
(* application, and is closed or not.                                      *)
(***************************************************************************)
EXTENDS Integers, Sequences, FiniteSets, Functions

CONSTANTS
  Conns,        \* the connections that may be accepted
  L,            \* the listener
  Acceptors,    \* its listening sockets, one for each address
  NULL,
  backlog,      \* room for accepted sockets
  MaxIncoming,  \* bound: connection requests and data
  MaxOverflow,  \* bound: times that accept() finds no file descriptor
  MaxDisconnect \* bound: calls of pn_proactor_disconnect

ASSUME TasksConstants ==
  /\ L \notin Conns /\ NULL \notin Conns \cup {L} \cup Acceptors
  /\ IsFiniteSet(Acceptors) /\ IsFiniteSet(Conns)
  /\ backlog \in Nat \ {0}
  /\ {MaxIncoming, MaxOverflow, MaxDisconnect} \subseteq Nat

Tasks == Conns \cup {L}

VARIABLES
  tsk,  \* the task_t of each task
  w,    \* the thread that works for each task
  lst,  \* the listener
  acc,  \* its acceptors
  con,  \* the connections
  p,    \* the proactor
  d,    \* the thread in pn_proactor_disconnect
  env,  \* stimuli so far
  ok    \* no assertion has failed

vars == <<tsk, w, lst, acc, con, p, d, env, ok>>

-----------------------------------------------------------------------------
(* Scheduling *)

\* What the functions below change, as a record.  The proactor's own task is
\* NULL.
S == [tsk |-> tsk, p |-> p, acc |-> acc, lst |-> lst]

Become(a) == tsk' = a.tsk /\ p' = a.p /\ acc' = a.acc /\ lst' = a.lst

Goto(t, at) == w' = [w EXCEPT ![t].at = at]

IsReady(a, t)   == IF t = NULL THEN a.p.ready ELSE a.tsk[t].ready
IsWorking(a, t) == IF t = NULL THEN a.p.working ELSE a.tsk[t].working

\* schedule, without notify_poller.
schedule_only(a, t) ==
  IF IsReady(a, t) \/ IsWorking(a, t) THEN a
  ELSE LET b == [a EXCEPT !.p.ready_list_active = TRUE]
       IN  IF t = NULL THEN [b EXCEPT !.p.ready = TRUE]
           ELSE [b EXCEPT !.tsk[t].ready = TRUE]

Notify(a, b) == ~a.p.ready_list_active /\ b.p.ready_list_active

notify_poller(a, notify) == [a EXCEPT !.p.signal = @ \/ notify]

\* schedule and notify_poller.
schedule(a, t) ==
  LET b == schedule_only(a, t) IN notify_poller(b, Notify(a, b))

is_inactive(a) == a.p.tasks = <<>> /\ a.p.disconnects_pending = 0

schedule_if_inactive(a) ==
  IF is_inactive(a) THEN schedule_only([a EXCEPT !.p.need_inactive = TRUE], NULL)
  ELSE a

\* The list, without t.
unlink(list, t) ==
  LET k == CHOOSE i \in DOMAIN list : list[i] = t
  IN  SubSeq(list, 1, k - 1) \o SubSeq(list, k + 1, Len(list))

proactor_add(a, t) ==
  [a EXCEPT !.p.tasks = <<t>> \o @, !.p.told = FALSE, !.tsk[t].state = "live"]

\* Mutant: a task that is being disconnected is counted off only by the last
\* of the two that finish with it.
RemoveCountsLate(a, t) ==
  LET b == IF ~a.tsk[t].disconnecting
           THEN [a EXCEPT !.p.tasks = unlink(@, t)]
           ELSE [a EXCEPT !.p.disconnects_pending =
                             IF a.tsk[t].disconnect_ops = 1 THEN @ - 1 ELSE @,
                          !.tsk[t].disconnect_ops = @ - 1]
      c == schedule_if_inactive([b EXCEPT !.tsk[t].state =
             IF b.tsk[t].disconnect_ops = 0 THEN "freed" ELSE "removed"])
  IN  notify_poller(c, Notify(a, c))

\* Off the list of tasks; and the task is freed, unless that is left to
\* pn_proactor_disconnect.
proactor_remove(a, t) ==
  LET b == IF ~a.tsk[t].disconnecting
           THEN [a EXCEPT !.p.tasks = unlink(@, t)]
           ELSE [a EXCEPT !.p.disconnects_pending = @ - 1,
                          !.tsk[t].disconnect_ops = @ - 1]
      c == schedule_if_inactive([b EXCEPT !.tsk[t].state =
             IF b.tsk[t].disconnect_ops = 0 THEN "freed" ELSE "removed"])
  IN  notify_poller(c, Notify(a, c))

Live(t) == tsk[t].state = "live"

\* A thread may take up t, for the ready list or for events of its sockets.
MayProcess(t, sched, io) ==
  /\ ~p.asleep /\ Live(t) /\ w[t].at = "idle"
  /\ sched \/ io
  /\ sched => tsk[t].ready

-----------------------------------------------------------------------------
(* The listener *)

listener_has_event(a) == a.lst.events # <<>> \/ a.lst.pending > 0

\* What epoll reports of a listening socket, once for each time it is armed.
Readable(i) == acc[i].open /\ acc[i].armed /\ (acc[i].requests > 0 \/ acc[i].shut)

\* Mutant: the accepted sockets that wait for the application are forgotten.
BeginCloseKeepsPending(a) ==
  LET now == {i \in Acceptors : a.acc[i].open /\ ~a.acc[i].armed}
  IN  IF a.tsk[L].closing THEN a
      ELSE [a EXCEPT
         !.tsk[L].closing = TRUE,
         !.acc = [i \in Acceptors |->
           [a.acc[i] EXCEPT !.open = @ /\ i \notin now, !.shut = @ \/ a.acc[i].armed]],
         !.lst.active_count = @ - Cardinality(now),
         !.lst.events = Append(@, "CLOSE")]

\* A socket that is not armed is closed, an armed one is shut down and will be
\* closed when epoll reports it.
listener_begin_close(a) ==
  LET now == {i \in Acceptors : a.acc[i].open /\ ~a.acc[i].armed}
  IN  IF a.tsk[L].closing THEN a
      ELSE [a EXCEPT
         !.tsk[L].closing = TRUE,
         !.acc = [i \in Acceptors |->
           [a.acc[i] EXCEPT !.open = @ /\ i \notin now, !.shut = @ \/ a.acc[i].armed]],
         !.lst.active_count = @ - Cardinality(now),
         !.lst.pending = 0,
         !.lst.events = Append(@, "CLOSE")]

\* Some of the addresses can be bound and listened to, or none.
pn_proactor_listen(bound) ==
  LET a == [schedule(S, L) EXCEPT
              !.acc = [i \in Acceptors |->
                [acc[i] EXCEPT !.open = i \in bound, !.armed = i \in bound]],
              !.lst.active_count = Cardinality(bound)]
      b == IF bound = {} THEN listener_begin_close(a)
           ELSE [a EXCEPT !.lst.events = <<"OPEN">>]
  IN  /\ tsk[L].state = "none"
      /\ Become(proactor_add(b, L))
      /\ UNCHANGED <<w, con, d, env, ok>>

\* pn_listener_close, from any thread, while CLOSE has not been handled.
pn_listener_close ==
  /\ Live(L) /\ ~tsk[L].closing
  /\ Become(schedule(listener_begin_close(S), L))
  /\ UNCHANGED <<w, con, d, env, ok>>

\* listener_accept_lh: requests are accepted while there is room, until accept()
\* says that there are no more, or no file descriptor for the next
\* (acceptor_set_overflow), or another error.
listener_accept_lh(a, i, n, end) ==
  LET b == [a EXCEPT !.lst.pending = @ + n, !.acc[i].requests = @ - n]
  IN  CASE end = "error"    -> listener_begin_close(b)
        [] end = "overflow" -> [b EXCEPT !.acc[i].overflowed = TRUE,
                                         !.lst.overflow_count = @ + 1,
                                         !.p.overflow = Append(@, i)]
        [] OTHER            -> b

\* What accept() may give.
Accepts(i, n, end) ==
  LET room == backlog - lst.pending
  IN  IF end = "blocked"
      THEN n = IF room < acc[i].requests THEN room ELSE acc[i].requests
      ELSE n < room /\ n < acc[i].requests

\* Mutant: the sockets that epoll still watches are not looked at.
CanFreeWhileActive(a) ==
  a.tsk[L].closing /\ a.lst.close_dispatched /\ ~a.tsk[L].ready /\ a.lst.overflow_count = 0

listener_can_free(a) ==
  /\ a.tsk[L].closing /\ a.lst.close_dispatched /\ ~a.tsk[L].ready
  /\ a.lst.active_count = 0 /\ a.lst.overflow_count = 0

\* The part of listener_process for an event of the socket i, if there is one.
HandleSocket(a, i, n, end) ==
  IF i = NULL THEN a
  ELSE LET b == [a EXCEPT !.acc[i].armed = FALSE]
       IN  IF a.tsk[L].closing
           THEN [b EXCEPT !.acc[i].open = FALSE, !.lst.active_count = @ - 1]
           ELSE listener_accept_lh(b, i, n, end)

\* listener_process for the ready list, for an event of the socket i, or both:
\* it has a batch for the application, or can be freed, or neither.
listener_process(sched, i, n, end) ==
  LET a == HandleSocket([S EXCEPT !.tsk[L].ready = @ /\ ~sched], i, n, end)
  IN  /\ MayProcess(L, sched, i # NULL)
      /\ i # NULL => Readable(i)
      /\ IF i = NULL \/ tsk[L].closing THEN n = 0 /\ end = "blocked"
         ELSE Accepts(i, n, end)
      /\ end = "overflow" => env.overflows < MaxOverflow
      /\ env' = [env EXCEPT !.overflows = IF end = "overflow" THEN @ + 1 ELSE @]
      /\ IF listener_has_event(a)
         THEN Become([a EXCEPT !.tsk[L].working = TRUE]) /\ Goto(L, "batch")
         ELSE Become(a) /\ Goto(L, IF listener_can_free(a) THEN "remove" ELSE "idle")
      /\ UNCHANGED <<con, d, ok>>

\* The application takes an event of the listener: the first of the collector,
\* or else a new PN_LISTENER_ACCEPT.
listener_batch_next ==
  /\ w[L].at = "batch" /\ listener_has_event(S)
  /\ lst' = IF lst.events = <<>> THEN [lst EXCEPT !.last = "ACCEPT"]
            ELSE [lst EXCEPT !.last = Head(lst.events), !.events = Tail(@),
                             !.close_dispatched = @ \/ Head(lst.events) = "CLOSE"]
  /\ UNCHANGED <<tsk, w, acc, con, p, d, env, ok>>

\* pn_listener_accept2, after a PN_LISTENER_ACCEPT event.  The connection has
\* no socket, and an error to report, if the listener has been closed or
\* nothing is pending.
pn_listener_accept2(c) ==
  LET got == ~tsk[L].closing /\ lst.pending > 0
      a   == proactor_add(S, c)
  IN  /\ w[L].at = "batch" /\ lst.last = "ACCEPT" /\ tsk[c].state = "none"
      /\ Become(IF got THEN [a EXCEPT !.lst.pending = @ - 1] ELSE a)
      /\ con' = [con EXCEPT ![c].fd = got, ![c].arm = got, ![c].io = got,
                            ![c].closed = ~got, ![c].events = ~got]
      /\ UNCHANGED <<w, d, env, ok>>

-----------------------------------------------------------------------------
(* File descriptors *)

\* pclosefd and listener_done take the list of the sockets that overflowed ...
take_overflow(t) ==
  /\ w' = [w EXCEPT ![t] = [at |-> "overflow", list |-> p.overflow]]
  /\ p' = [p EXCEPT !.overflow = <<>>]

\* ... and proactor_rearm_overflow goes through it, one listener at a time.
proactor_rearm_overflow(t) ==
  LET i == Head(w[t].list)
      a == [S EXCEPT !.acc[i].overflowed = FALSE, !.lst.overflow_count = @ + 1]
  IN  /\ w[t].at = "overflow" /\ w[t].list # <<>>
      /\ Become(IF tsk[L].closing THEN schedule(a, L)
                ELSE [a EXCEPT !.acc[i].armed = TRUE])
      /\ ok' = (ok /\ acc[i].overflowed /\ ~acc[i].armed)
      /\ w' = [w EXCEPT ![t].list = Tail(@)]
      /\ UNCHANGED <<con, d, env>>

\* The list has been gone through: a connection leaves the proactor, and the
\* listener goes on with listener_done.
rearmed(t) ==
  /\ w[t].at = "overflow" /\ w[t].list = <<>>
  /\ Goto(t, IF t = L THEN "done" ELSE "remove")
  /\ UNCHANGED <<tsk, lst, acc, con, p, d, env, ok>>

\* listener_done, up to the call of proactor_rearm_overflow.
listener_done_begin ==
  /\ w[L].at = "batch" /\ lst.last # NULL
  /\ IF lst.close_dispatched /\ lst.overflow_count # 0
     THEN take_overflow(L) /\ UNCHANGED lst
     ELSE Goto(L, "done") /\ UNCHANGED <<p, lst>>
  /\ UNCHANGED <<tsk, acc, con, d, env, ok>>

\* Mutant: the sockets are not armed again.
DoneNeverRearms ==
  LET b == [S EXCEPT !.tsk[L].working = FALSE, !.lst.last = NULL]
      free == listener_can_free(b)
  IN  /\ w[L].at = "done"
      /\ Become(IF ~free /\ listener_has_event(b) THEN schedule(b, L) ELSE b)
      /\ Goto(L, IF free THEN "remove" ELSE "idle")
      /\ UNCHANGED <<con, d, env, ok>>

\* The rest of listener_done: the sockets are armed again once all that was
\* accepted has been taken, unless they wait for a file descriptor.
listener_done ==
  LET a == IF tsk[L].closing \/ lst.pending > 0 THEN S
           ELSE [S EXCEPT !.acc = [i \in Acceptors |->
                   [acc[i] EXCEPT !.armed = @ \/ (acc[i].open /\ ~acc[i].overflowed)]]]
      b == [a EXCEPT !.tsk[L].working = FALSE, !.lst.last = NULL]
      free == listener_can_free(b)
  IN  /\ w[L].at = "done"
      /\ Become(IF ~free /\ listener_has_event(b) THEN schedule(b, L) ELSE b)
      /\ Goto(L, IF free THEN "remove" ELSE "idle")
      /\ UNCHANGED <<con, d, env, ok>>

-----------------------------------------------------------------------------
(* Connections *)

finished(c) == con[c].closed /\ ~con[c].events

\* No event of epoll can still come.
pconnection_is_final(a, c) == ~con[c].arm /\ ~a.tsk[c].ready

\* pconnection_begin_close shuts the socket down, which wakes an armed one.
begin_close(c) == con' = [con EXCEPT ![c].io = @ \/ con[c].arm]

\* pconnection_process up to where it drops the lock: for the ready list, for
\* an event of the socket, or both; and from retry, with the task at work.
pconnection_process(c, sched, io) ==
  LET close == con[c].queued /\ ~tsk[c].closing
      a == [S EXCEPT !.tsk[c].ready = @ /\ ~sched, !.tsk[c].working = TRUE]
      b == [con[c] EXCEPT !.arm = @ /\ ~io, !.io = @ /\ ~io, !.queued = FALSE,
                          !.closed = @ \/ close, !.events = @ \/ (close /\ ~con[c].closed)]
  IN  /\ \/ MayProcess(c, sched, io) /\ (io => con[c].arm /\ con[c].io)
         \/ w[c].at = "retry" /\ ~sched /\ ~io
      /\ Become(a)
      /\ con' = [con EXCEPT ![c] = b]
      /\ Goto(c, CASE b.events -> "batch"
                   [] ~b.events /\ tsk[c].closing /\ ~b.arm /\ ~a.tsk[c].ready -> "cleanup"
                   [] OTHER -> "work")
      /\ UNCHANGED <<d, env, ok>>

\* Without the lock: what is read, or the application's close, may give the
\* engine an event, and may close it.
pconnection_work(c, events, closed) ==
  /\ w[c].at = "work"
  /\ events => ~con[c].closed
  /\ closed => events
  /\ con' = [con EXCEPT ![c].events = @ \/ events, ![c].closed = @ \/ closed]
  /\ Goto(c, IF events THEN "batch" ELSE "check")
  /\ UNCHANGED <<tsk, lst, acc, p, d, env, ok>>

\* The end of pconnection_process.
pconnection_check(c) ==
  LET a == [S EXCEPT !.tsk[c].working = FALSE, !.tsk[c].closing = @ \/ finished(c)]
  IN  /\ w[c].at = "check"
      /\ IF con[c].queued
         THEN /\ UNCHANGED <<tsk, lst, acc, con, p>> /\ Goto(c, "retry")
         ELSE /\ Become(a)
              /\ Goto(c, IF a.tsk[c].closing /\ pconnection_is_final(a, c)
                         THEN "cleanup" ELSE "idle")
              /\ IF ~tsk[c].closing /\ finished(c) THEN begin_close(c)
                 ELSE con' = [con EXCEPT ![c].arm = @ \/ ~con[c].closed]
      /\ UNCHANGED <<d, env, ok>>

\* The application takes the events of the connection.
pconnection_batch_next(c) ==
  /\ w[c].at = "batch" /\ con[c].events
  /\ con' = [con EXCEPT ![c].events = FALSE, ![c].reported = con[c].closed]
  /\ UNCHANGED <<tsk, w, lst, acc, p, d, env, ok>>

\* Mutant: a close that was asked for during the batch is not looked for.
DoneMissesQueued(c) ==
  LET a == [S EXCEPT !.tsk[c].working = FALSE, !.tsk[c].closing = @ \/ finished(c)]
  IN  /\ w[c].at = "batch" /\ ~con[c].events
      /\ Become(a)
      /\ Goto(c, IF a.tsk[c].closing /\ pconnection_is_final(a, c)
                 THEN "cleanup" ELSE "idle")
      /\ IF ~tsk[c].closing /\ finished(c) THEN begin_close(c)
         ELSE con' = [con EXCEPT ![c].arm = @ \/ ~con[c].closed]
      /\ UNCHANGED <<d, env, ok>>

pconnection_done(c) ==
  LET a == [S EXCEPT !.tsk[c].working = FALSE]
      b == [a EXCEPT !.tsk[c].closing = @ \/ finished(c)]
  IN  /\ w[c].at = "batch" /\ ~con[c].events
      /\ IF con[c].queued
         THEN /\ Become(schedule(a, c)) /\ Goto(c, "idle")
              /\ con' = [con EXCEPT ![c].arm = @ \/ ~con[c].closed]
         ELSE /\ Become(b)
              /\ Goto(c, IF b.tsk[c].closing /\ pconnection_is_final(b, c)
                         THEN "cleanup" ELSE "idle")
              /\ IF ~tsk[c].closing /\ finished(c) THEN begin_close(c)
                 ELSE con' = [con EXCEPT ![c].arm = @ \/ ~con[c].closed]
      /\ UNCHANGED <<d, env, ok>>

\* pconnection_cleanup up to proactor_remove: the file descriptor, if there is
\* one, is closed, and the sockets that wait for one are taken over.
pconnection_cleanup(c) ==
  /\ w[c].at = "cleanup"
  /\ IF con[c].fd THEN take_overflow(c) ELSE Goto(c, "remove") /\ UNCHANGED p
  /\ UNCHANGED <<tsk, lst, acc, con, d, env, ok>>

\* The end of pconnection_cleanup, and pn_listener_free.
leave(t) ==
  /\ w[t].at = "remove"
  /\ Become(proactor_remove(S, t)) /\ Goto(t, "idle")
  /\ UNCHANGED <<con, d, env, ok>>

-----------------------------------------------------------------------------
(* pn_proactor_disconnect *)

\* The first pass: the list of tasks is taken over as a whole.
pn_proactor_disconnect ==
  LET all == Range(p.tasks)
      a == [S EXCEPT !.tsk = [t \in Tasks |-> IF t \notin all THEN tsk[t]
                                ELSE [tsk[t] EXCEPT !.disconnecting = TRUE,
                                                    !.disconnect_ops = 2]],
                     !.p.tasks = <<>>, !.p.disconnects_pending = @ + Len(p.tasks)]
      b == schedule_if_inactive(a)
  IN  /\ d.at = "idle" /\ env.disconnects < MaxDisconnect
      /\ env' = [env EXCEPT !.disconnects = @ + 1]
      /\ IF p.tasks = <<>>
         THEN Become(notify_poller(b, Notify(a, b))) /\ UNCHANGED d
         ELSE /\ Become(b)
              /\ d' = [at |-> "pass", todo |-> p.tasks, notify |-> Notify(a, b)]
      /\ UNCHANGED <<w, con, ok>>

\* What the second pass does to a task: it closes a listener, and a connection
\* that no thread works on; any other is asked to close.
CloseTask(t) ==
  LET close == t # L /\ ~tsk[t].closing
  IN  /\ con' = IF ~close THEN con
                ELSE IF tsk[t].working THEN [con EXCEPT ![t].queued = TRUE]
                ELSE [con EXCEPT ![t].closed = TRUE, ![t].events = @ \/ ~con[t].closed]
      /\ lst' = IF t = L THEN listener_begin_close(S).lst ELSE lst
      /\ acc' = IF t = L THEN listener_begin_close(S).acc ELSE acc

\* The second pass, for one task, which it frees if the task has left.
disconnect_task ==
  LET t    == Head(d.todo)
      last == tsk[t].disconnect_ops = 1
      a    == [S EXCEPT !.tsk[t].closing = @ \/ t = L,
                        !.tsk[t].disconnect_ops = @ - 1,
                        !.tsk[t].state = IF last THEN "freed" ELSE @]
      b    == IF last THEN schedule_if_inactive(a)
              ELSE IF ~tsk[t].closing THEN schedule(a, t) ELSE a
  IN  /\ d.at = "pass" /\ d.todo # <<>>
      /\ CloseTask(t)
      /\ tsk' = b.tsk /\ p' = b.p
      /\ d' = [d EXCEPT !.todo = Tail(@),
                        !.notify = IF last THEN Notify(a, b) ELSE @]
      /\ ok' = (ok /\ tsk[t].state # "freed")
      /\ UNCHANGED <<w, env>>

disconnect_done ==
  /\ d.at = "pass" /\ d.todo = <<>>
  /\ p' = notify_poller(S, d.notify).p
  /\ d' = [d EXCEPT !.at = "idle", !.notify = FALSE]
  /\ UNCHANGED <<tsk, w, lst, acc, con, env, ok>>

-----------------------------------------------------------------------------
(* The proactor's own task, the poller and the network *)

\* proactor_process, when the reason to schedule was inactivity.
proactor_process ==
  /\ ~p.asleep /\ p.ready
  /\ p' = [p EXCEPT !.ready = FALSE, !.working = p.event \/ p.need_inactive,
                    !.event = p.event \/ p.need_inactive,
                    !.need_inactive = p.event /\ p.need_inactive]
  /\ UNCHANGED <<tsk, w, lst, acc, con, d, env, ok>>

\* The application takes PN_PROACTOR_INACTIVE.
proactor_batch_next ==
  /\ p.working /\ p.event
  /\ p' = [p EXCEPT !.event = FALSE, !.told = is_inactive(S)]
  /\ UNCHANGED <<tsk, w, lst, acc, con, d, env, ok>>

\* The proactor's part of pn_proactor_done.
proactor_done ==
  LET a == [S EXCEPT !.p.working = FALSE, !.p.event = p.need_inactive,
                     !.p.need_inactive = FALSE]
  IN  /\ p.working /\ ~p.event
      /\ Become(IF p.need_inactive THEN schedule(a, NULL) ELSE a)
      /\ UNCHANGED <<w, con, d, env, ok>>

\* epoll has an event of a socket of t.
HasIO(t) == IF t = L THEN \E i \in Acceptors : Readable(i)
            ELSE con[t].arm /\ con[t].io

\* poller_do_epoll goes to sleep: only then is the ready list not active.
Sleep ==
  /\ ~p.asleep /\ ~p.ready
  /\ \A t \in Tasks : ~tsk[t].ready /\ (HasIO(t) => w[t].at # "idle")
  /\ p' = [p EXCEPT !.asleep = TRUE, !.ready_list_active = FALSE]
  /\ UNCHANGED <<tsk, w, lst, acc, con, d, env, ok>>

Wake ==
  /\ p.asleep
  /\ p.signal \/ \E t \in Tasks : HasIO(t)
  /\ p' = [p EXCEPT !.asleep = FALSE, !.signal = FALSE]
  /\ UNCHANGED <<tsk, w, lst, acc, con, d, env, ok>>

\* A connection request arrives.
Request(i) ==
  /\ env.incoming < MaxIncoming /\ acc[i].open /\ ~acc[i].shut
  /\ env' = [env EXCEPT !.incoming = @ + 1]
  /\ acc' = [acc EXCEPT ![i].requests = @ + 1]
  /\ UNCHANGED <<tsk, w, lst, con, p, d, ok>>

\* A connection's socket has something to read, or has been closed.
PeerSends(c) ==
  /\ con[c].fd /\ ~con[c].io /\ Live(c) /\ env.incoming < MaxIncoming
  /\ env' = [env EXCEPT !.incoming = @ + 1]
  /\ con' = [con EXCEPT ![c].io = TRUE]
  /\ UNCHANGED <<tsk, w, lst, acc, p, d, ok>>

-----------------------------------------------------------------------------
Init ==
  /\ tsk = [t \in Tasks |-> [state |-> "none", ready |-> FALSE, working |-> FALSE,
                             closing |-> FALSE, disconnecting |-> FALSE,
                             disconnect_ops |-> 0]]
  /\ w = [t \in Tasks |-> [at |-> "idle", list |-> <<>>]]
  /\ lst = [active_count |-> 0, overflow_count |-> 0, pending |-> 0,
            events |-> <<>>, close_dispatched |-> FALSE, last |-> NULL]
  /\ acc = [i \in Acceptors |-> [open |-> FALSE, armed |-> FALSE, shut |-> FALSE,
                                 overflowed |-> FALSE, requests |-> 0]]
  /\ con = [c \in Conns |-> [fd |-> FALSE, arm |-> FALSE, io |-> FALSE,
                             closed |-> FALSE, events |-> FALSE, queued |-> FALSE,
                             reported |-> FALSE]]
  /\ p = [tasks |-> <<>>, disconnects_pending |-> 0, need_inactive |-> FALSE,
          ready |-> FALSE, working |-> FALSE, event |-> FALSE, overflow |-> <<>>,
          ready_list_active |-> TRUE, signal |-> FALSE, asleep |-> FALSE,
          told |-> FALSE]
  /\ d = [at |-> "idle", todo |-> <<>>, notify |-> FALSE]
  /\ env = [incoming |-> 0, overflows |-> 0, disconnects |-> 0]
  /\ ok = TRUE

\* The threads of the application, in the proactor and in their callbacks.
ListenerStep ==
  \/ \E sched \in BOOLEAN, i \in Acceptors \cup {NULL}, n \in 0..MaxIncoming,
        end \in {"blocked", "overflow", "error"} : listener_process(sched, i, n, end)
  \/ listener_batch_next \/ listener_done_begin \/ listener_done

ConnStep(c) ==
  \/ \E sched, io \in BOOLEAN : pconnection_process(c, sched, io)
  \/ \E events, closed \in BOOLEAN : pconnection_work(c, events, closed)
  \/ pconnection_check(c) \/ pconnection_batch_next(c) \/ pconnection_done(c)
  \/ pconnection_cleanup(c)

LeaveStep(t) == proactor_rearm_overflow(t) \/ rearmed(t) \/ leave(t)

ProactorStep == proactor_process \/ proactor_batch_next \/ proactor_done \/ Wake

DisconnectStep == disconnect_task \/ disconnect_done

Next ==
  \/ \E bound \in SUBSET Acceptors : pn_proactor_listen(bound)
  \/ pn_listener_close \/ pn_proactor_disconnect \/ Sleep
  \/ \E c \in Conns : pn_listener_accept2(c) \/ PeerSends(c) \/ ConnStep(c)
  \/ \E i \in Acceptors : Request(i)
  \/ \E t \in Tasks : LeaveStep(t)
  \/ ListenerStep \/ ProactorStep \/ DisconnectStep

Spec == Init /\ [][Next]_vars

\* Threads run, the application takes the events of a batch and hands it back.
Fairness ==
  /\ WF_vars(ListenerStep) /\ WF_vars(ProactorStep) /\ WF_vars(DisconnectStep)
  /\ \A c \in Conns : WF_vars(ConnStep(c))
  /\ \A t \in Tasks : WF_vars(LeaveStep(t))

FairSpec == Spec /\ Fairness

-----------------------------------------------------------------------------
(* Properties *)

\* Types.
TypeOK ==
  /\ \A t \in Tasks : /\ tsk[t].state \in {"none", "live", "removed", "freed"}
                      /\ tsk[t].disconnect_ops \in 0..2
                      /\ w[t].list \in Seq(Acceptors)
  /\ lst.active_count \in 0..Cardinality(Acceptors) /\ lst.pending \in 0..backlog
  /\ lst.overflow_count \in Nat /\ Len(lst.events) <= 2
  /\ p.tasks \in Seq(Tasks) /\ p.overflow \in Seq(Acceptors)
  /\ p.disconnects_pending \in 0..Cardinality(Tasks)

Overflowing == Range(p.overflow) \cup UNION {Range(w[t].list) : t \in Tasks}

\* What has been freed is referred to no more: not by the ready list, the list
\* of tasks or the one of pn_proactor_disconnect, not by a thread, not by
\* epoll through an open socket, not by the overflow list.  proactor_remove and
\* pn_proactor_disconnect, in either order, agree on which of them frees it.
FreedIsGone ==
  /\ ok
  /\ \A t \in Tasks : tsk[t].state = "freed" =>
       /\ ~tsk[t].ready /\ w[t].at = "idle"
       /\ t \notin Range(p.tasks) \cup Range(d.todo)
       /\ t = L => Overflowing = {} /\ \A i \in Acceptors : ~acc[i].open
       /\ t # L => ~con[t].arm

\* The list of tasks and disconnects_pending, which decide whether the
\* proactor is inactive, account for every live task once; active_count, which
\* decides whether a listener can be freed, is the number of its open sockets.
CountsExact ==
  /\ TypeOK
  /\ IsInjective(p.tasks)
  /\ Range(p.tasks) = {t \in Tasks : tsk[t].state = "live" /\ ~tsk[t].disconnecting}
  /\ p.disconnects_pending =
       Cardinality({t \in Tasks : tsk[t].state = "live" /\ tsk[t].disconnecting})
  /\ lst.active_count = Cardinality({i \in Acceptors : acc[i].open})

\* A listener that is not closing never goes deaf: each of its sockets is armed,
\* or waits for a file descriptor on a list somebody will go through, or the
\* listener is at work or scheduled, and listener_done will see to it.
NeverDeaf ==
  Live(L) /\ ~tsk[L].closing /\ w[L].at = "idle" /\ ~tsk[L].ready =>
    \A i \in Acceptors : acc[i].open =>
      acc[i].armed \/ (acc[i].overflowed /\ i \in Overflowing)

\* listener_done asserts that no overflow is left to be counted once
\* proactor_rearm_overflow has gone through the list of a closing listener.
OverflowDrained == w[L].at = "done" /\ lst.close_dispatched => lst.overflow_count = 0

\* After PN_LISTENER_CLOSE there are no more events of the listener: what was
\* accepted and not taken is closed by listener_begin_close.
CloseIsLastEvent ==
  [][lst.close_dispatched /\ lst'.last # lst.last => lst'.last = NULL]_vars

\* What has been asked to go has gone.
Settled ==
  /\ \A t \in Tasks : tsk[t].closing \/ tsk[t].disconnecting =>
       tsk[t].state = "freed" \/ (t = L /\ lst.overflow_count # 0)
  /\ \A c \in Conns : con[c].closed /\ con[c].fd => con[c].reported
  /\ (\E t \in Tasks : tsk[t].state = "freed") /\ is_inactive(S) => p.told

\* A task that is closing, or that pn_proactor_disconnect has taken over, is
\* freed in the end, whoever works on it at the time; a listener one of whose
\* sockets ran out of file descriptors is not, as overflow_count does not
\* return to zero.  And PN_TRANSPORT_CLOSED comes for a connection whose engine
\* has been closed, if it has got a socket; and a proactor whose last task has
\* gone tells the application that it is inactive.  Neither a request to go nor
\* the answer is ever taken back, so that the requests, of which there are
\* finitely many, are answered if and only if all is settled from some point on.
CloseCompletes == <>[]Settled
=============================================================================

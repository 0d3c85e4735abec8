---------------------------- MODULE EpollTimers -----------------------------
(***************************************************************************)
(* The timers of the epoll proactor: epoll_timer.c (the timer manager, its *)
(* heap of connection timers and its one timerfd) with its users in        *)
(* epoll.c, the tick of a connection (IdleTimeout) and the timeout of the  *)
(* proactor with the inactive event that waits for it.                     *)
(*                                                                         *)
(* A step is one critical section of a mutex: tm->task.mutex for m, a      *)
(* connection's for pc[c], the proactor's for p.  That a task which has    *)
(* been scheduled is processed, by one thread at a time, is EpollScheduler *)
(* and is taken here from it: schedule only sets ready.  A connection has  *)
(* at most two timer_deadline_t, <<c, 0>> and the replacement <<c, 1>>,    *)
(* whose resequenced is TRUE.  Time is discrete.                           *)
(***************************************************************************)
EXTENDS IdleTimeout, FiniteSets

CONSTANTS
  Conns,       \* the connections of the proactor
  LocalIdle,   \* the idle timeouts the application may have chosen
  RemoteIdle,  \* the idle timeouts a peer may send in its open
  Timeouts,    \* what the application passes to pn_proactor_set_timeout
  NULL,
  MaxTime,     \* bound: the clock
  MaxWork,     \* bound: inputs, outputs and calls of the application
  MaxSlow      \* bound: moves of the clock while there is something to do

ASSUME TimersConstants ==
  /\ LocalIdle \subseteq Nat /\ RemoteIdle \subseteq Nat \ {0}
  /\ Timeouts \subseteq Nat
  /\ NULL \notin Conns
  /\ MaxTime \in Nat /\ MaxWork \in Nat /\ MaxSlow \in Nat

VARIABLES
  now,   \* pn_proactor_now_64()
  tr,    \* the transports
  pc,    \* the connections and the threads that work for them
  timer, \* the pni_timer_t of each connection
  m,     \* the timer manager
  mgr,   \* the thread in pni_timer_manager_process
  p,     \* the proactor task
  io     \* stimuli so far

vars == <<now, tr, pc, timer, m, mgr, p, io>>

TDs == Conns \X {0, 1}

td(c) == <<c, timer[c].td>>

\* The lock of the timer manager, which its thread keeps while it scans, and
\* the deletion_mutex, which it keeps while a connection's timeout is called.
TmLockFree == mgr.at # "scan"
DeletionLockFree == mgr.at # "timeout"

-----------------------------------------------------------------------------
(* The timer manager, as operators on m *)

\* The deadlines that the manager looks at.
Deadlines(a) ==
  {a.list_deadline[d] : d \in a.heap} \cup ({a.proactor_deadline} \ {0})

Earliest(a) == CHOOSE x \in Deadlines(a) : \A y \in Deadlines(a) : x <= y

schedule_tm(a) == IF a.working THEN a ELSE [a EXCEPT !.ready = TRUE]

\* Mutant: a deadline that is already past is left to the timerfd.
AdjustIgnoresPast(a, n) ==
  IF a.working \/ Deadlines(a) = {} THEN a
  ELSE LET new_deadline == Earliest(a)
       IN  IF \/ a.timerfd_deadline # 0 /\ new_deadline >= a.timerfd_deadline
              \/ new_deadline <= n
           THEN a
           ELSE [a EXCEPT !.timerfd = new_deadline, !.timerfd_deadline = new_deadline]

adjust_deadline(a, n) ==
  IF a.working \/ Deadlines(a) = {} THEN a
  ELSE LET new_deadline == Earliest(a)
       IN  IF a.timerfd_deadline # 0 /\ new_deadline >= a.timerfd_deadline THEN a
           ELSE IF new_deadline <= n THEN schedule_tm(a)
           ELSE [a EXCEPT !.timerfd = new_deadline, !.timerfd_deadline = new_deadline]

\* pn_list_minpush: the heap is a set, and its order that of list_deadline.
minpush(a, d, deadline) ==
  [a EXCEPT !.heap = @ \cup {d}, !.list_deadline[d] = deadline]

minpop(a, d) == [a EXCEPT !.heap = @ \ {d}, !.list_deadline[d] = 0]

\* The rest of pni_timer_set for a connection, from the assignment on.
set_connection_timer(a, d, deadline, n) ==
  IF deadline = 0 THEN a
  ELSE adjust_deadline(IF a.list_deadline[d] = 0 THEN minpush(a, d, deadline) ELSE a, n)

-----------------------------------------------------------------------------
(* Initial state *)

Init ==
  /\ now = 1
  /\ tr \in {[c \in Conns |-> [pn_transport(1) EXCEPT !.local_idle_timeout = t[c]]] :
               t \in [Conns -> LocalIdle]}
  /\ pc = [c \in Conns |->
       [at |-> "idle", working |-> FALSE, ready |-> FALSE, tick_pending |-> FALSE,
        expected_timeout |-> 0, closing |-> FALSE, next |-> 0, late |-> FALSE]]
  /\ timer = [c \in Conns |-> [deadline |-> 0, td |-> 0]]
  /\ m = [working |-> FALSE, ready |-> FALSE, sched_io |-> FALSE,
          timerfd_deadline |-> 0, timerfd |-> 0, polling |-> TRUE,
          proactor_deadline |-> 0, heap |-> {},
          list_deadline |-> [d \in TDs |-> 0],
          live |-> Conns \X {0}, parent |-> [d \in TDs |-> d \in Conns \X {0}]]
  /\ mgr = [at |-> "idle", now |-> 0, timeout |-> FALSE, c |-> NULL, d |-> NULL]
  /\ p = [ready |-> FALSE, working |-> FALSE, tasks |-> Conns,
          need_timeout |-> FALSE, timeout_set |-> FALSE, need_inactive |-> FALSE,
          timeout_processed |-> FALSE, event |-> NULL, caller |-> NULL, quiet |-> FALSE]
  /\ io = [work |-> 0, slow |-> 0]

-----------------------------------------------------------------------------
(* The connections *)

pconnection_is_final(a) == ~a.ready /\ ~a.tick_pending

\* The head of pconnection_process, with its recv: sched says that the thread
\* came for the ready list, input that there was something to read.
pconnection_process(c, sched, input, r) ==
  LET a    == [pc[c] EXCEPT !.working = TRUE, !.tick_pending = FALSE,
                            !.ready = @ /\ ~sched]
      tick == input \/ pc[c].tick_pending
      b    == IF input THEN read_done(tr[c], r, now) ELSE tr[c]
  IN  /\ pc[c].at = "idle"
      /\ sched \/ input
      /\ sched => pc[c].ready
      /\ input => io.work < MaxWork /\ ~pc[c].closing
      /\ r # 0 => input /\ tr[c].remote_idle_timeout = 0
      /\ io' = IF input THEN [io EXCEPT !.work = @ + 1] ELSE io
      /\ tr' = [tr EXCEPT ![c] = b]
      /\ pc' = [pc EXCEPT ![c] =
           [a EXCEPT !.at =
              IF a.closing /\ pconnection_is_final(a) THEN "cleanup"
              ELSE IF tick /\ (b.local_idle_timeout # 0 \/ b.remote_idle_timeout # 0)
              THEN "tick" ELSE "work"]]
      /\ UNCHANGED <<now, timer, m, mgr, p>>

\* pconnection_tick up to its lock.
pconnection_tick(c) ==
  /\ pc[c].at = "tick"
  /\ LET t    == pn_tick_amqp(tr[c], now)
         next == next_tick(t)
     IN  /\ tr' = [tr EXCEPT ![c] = t]
         /\ pc' = [pc EXCEPT ![c].next = next,
                             ![c].at = IF next = 0 THEN "work" ELSE "expect"]
  /\ UNCHANGED <<now, timer, m, mgr, p, io>>

\* The rest of pconnection_tick, before it calls pni_timer_set.
expect_timeout(c) ==
  /\ pc[c].at = "expect"
  /\ pc' = [pc EXCEPT ![c].expected_timeout = pc[c].next, ![c].at = "set"]
  /\ UNCHANGED <<now, tr, timer, m, mgr, p, io>>

\* A connection timer that goes backwards needs a timer_deadline_t of its own.
Backwards(c, deadline) ==
  deadline # 0 /\ m.list_deadline[td(c)] # 0 /\ deadline < m.list_deadline[td(c)]

\* pni_timer_set, for a connection; its lock is dropped in
\* replace_timer_deadline.  A second replacement is the sequencing error.
pni_timer_set(c) ==
  LET deadline == pc[c].next
      again    == Backwards(c, deadline) /\ deadline # timer[c].deadline
  IN  /\ pc[c].at = "set" /\ TmLockFree
      /\ pc' = [pc EXCEPT ![c].next = IF again THEN @ ELSE 0,
                          ![c].at = IF ~again THEN "work"
                                    ELSE IF timer[c].td = 0 THEN "replace" ELSE "fatal"]
      /\ IF deadline = timer[c].deadline \/ (again /\ timer[c].td = 1)
         THEN UNCHANGED <<timer, m>>
         ELSE IF again
         THEN /\ m' = [m EXCEPT !.parent[td(c)] = FALSE]
              /\ UNCHANGED timer
         ELSE /\ timer' = [timer EXCEPT ![c].deadline = deadline]
              /\ m' = set_connection_timer(m, td(c), deadline, now)
      /\ UNCHANGED <<now, tr, mgr, p, io>>

\* The end of replace_timer_deadline, under the lock again, and of the
\* pni_timer_set that called it.
replace_timer_deadline(c) ==
  /\ pc[c].at = "replace" /\ TmLockFree
  /\ timer' = [timer EXCEPT ![c] = [deadline |-> pc[c].next, td |-> 1]]
  /\ m' = set_connection_timer(
            [m EXCEPT !.live = @ \cup {<<c, 1>>}, !.parent[<<c, 1>>] = TRUE],
            <<c, 1>>, pc[c].next, now)
  /\ pc' = [pc EXCEPT ![c].next = 0, ![c].at = "work"]
  /\ UNCHANGED <<now, tr, mgr, p, io>>

\* The application writes, or closes the connection; the transport has not
\* encoded it yet.
Output(c, close) ==
  /\ pc[c].at = "work" /\ ~pc[c].closing /\ io.work < MaxWork
  /\ tr' = [tr EXCEPT ![c].output_buffer = IF @ < 2 THEN @ + 1 ELSE @,
                      ![c].close_sent = @ \/ close]
  /\ io' = [io EXCEPT !.work = @ + 1]
  /\ UNCHANGED <<now, pc, timer, m, mgr, p>>

\* pconnection_done, and the end of pconnection_process: the output is
\* written, and the connection goes on, stops or, when its driver has
\* finished, closes.
pconnection_done(c, finished) ==
  LET a == [pc[c] EXCEPT !.working = FALSE]
      b == [a EXCEPT !.closing = TRUE, !.tick_pending = FALSE]
  IN  /\ pc[c].at = "work"
      /\ tr' = [tr EXCEPT ![c] = write_done(tr[c], now)]
      /\ pc' = [pc EXCEPT ![c] =
           IF a.tick_pending THEN [a EXCEPT !.at = "idle", !.ready = TRUE]
           ELSE IF finished \/ a.closing
           THEN [b EXCEPT !.at = IF pconnection_is_final(b) THEN "cleanup" ELSE "idle"]
           ELSE [a EXCEPT !.at = "idle"]]
      /\ UNCHANGED <<now, timer, m, mgr, p, io>>

-----------------------------------------------------------------------------
(* The proactor task *)

schedule_p(a) == IF a.working THEN a ELSE [a EXCEPT !.ready = TRUE]

schedule_if_inactive(a) ==
  IF a.tasks = {} /\ ~a.timeout_set
  THEN schedule_p([a EXCEPT !.need_inactive = TRUE]) ELSE a

\* pconnection_cleanup: proactor_remove takes the connection off the tasks.
pconnection_cleanup(c) ==
  /\ pc[c].at = "cleanup"
  /\ p' = schedule_if_inactive([p EXCEPT !.tasks = @ \ {c}])
  /\ pc' = [pc EXCEPT ![c].at = "free"]
  /\ UNCHANGED <<now, tr, timer, m, mgr, io>>

\* pni_timer_free up to its own locks: pni_timer_set(timer, 0).
pni_timer_cancel(c) ==
  /\ pc[c].at = "free" /\ TmLockFree
  /\ timer' = [timer EXCEPT ![c].deadline = 0]
  /\ pc' = [pc EXCEPT ![c].at = "free_td"]
  /\ UNCHANGED <<now, tr, m, mgr, p, io>>

\* Mutant: the connection does not wait for the deletion_mutex.
FreeWithoutDeletionLock(c) ==
  /\ pc[c].at = "free_td" /\ TmLockFree
  /\ m' = IF m.list_deadline[td(c)] # 0 THEN [m EXCEPT !.parent[td(c)] = FALSE]
          ELSE [m EXCEPT !.live = @ \ {td(c)}]
  /\ pc' = [pc EXCEPT ![c].at = "freed"]
  /\ UNCHANGED <<now, tr, timer, mgr, p, io>>

\* The rest of pni_timer_free and of pconnection_final_free.  On the heap the
\* timer_deadline_t is left to the manager, as an orphan.
pni_timer_free(c) ==
  /\ pc[c].at = "free_td" /\ TmLockFree /\ DeletionLockFree
  /\ m' = IF m.list_deadline[td(c)] # 0 THEN [m EXCEPT !.parent[td(c)] = FALSE]
          ELSE [m EXCEPT !.live = @ \ {td(c)}]
  /\ pc' = [pc EXCEPT ![c].at = "freed"]
  /\ UNCHANGED <<now, tr, timer, mgr, p, io>>

\* pn_proactor_set_timeout(t), under the proactor's lock and timeout_mutex.
pn_proactor_set_timeout(t) ==
  /\ p.caller = NULL /\ io.work < MaxWork
  /\ LET a == [p EXCEPT !.timeout_set = TRUE, !.quiet = FALSE,
                        !.caller = IF t = 0 THEN 0 ELSE t + now]
     IN  p' = IF t = 0 THEN schedule_p([a EXCEPT !.need_timeout = TRUE]) ELSE a
  /\ io' = [io EXCEPT !.work = @ + 1]
  /\ UNCHANGED <<now, tr, pc, timer, m, mgr>>

\* pn_proactor_cancel_timeout, likewise.
pn_proactor_cancel_timeout ==
  /\ p.caller = NULL /\ io.work < MaxWork
  /\ p' = [schedule_if_inactive([p EXCEPT !.timeout_set = FALSE, !.need_timeout = FALSE])
             EXCEPT !.caller = 0]
  /\ io' = [io EXCEPT !.work = @ + 1]
  /\ UNCHANGED <<now, tr, pc, timer, m, mgr>>

\* Their call of pni_timer_set for the proactor's timer.
set_proactor_timer ==
  /\ p.caller # NULL /\ TmLockFree
  /\ LET a == [m EXCEPT !.proactor_deadline = p.caller]
     IN  m' = IF p.caller \in {0, m.proactor_deadline} THEN a ELSE adjust_deadline(a, now)
  /\ p' = [p EXCEPT !.caller = NULL]
  /\ UNCHANGED <<now, tr, pc, timer, mgr, io>>

proactor_update_batch(a) ==
  IF a.event # NULL THEN a
  ELSE IF a.need_timeout
  THEN [a EXCEPT !.need_timeout = FALSE, !.timeout_set = FALSE, !.event = "TIMEOUT"]
  ELSE IF a.need_inactive
  THEN [a EXCEPT !.need_inactive = FALSE, !.event = "INACTIVE"]
  ELSE a

proactor_process ==
  /\ p.ready /\ ~p.working
  /\ LET a == proactor_update_batch([p EXCEPT !.ready = FALSE])
     IN  p' = [a EXCEPT !.working = a.event # NULL]
  /\ UNCHANGED <<now, tr, pc, timer, m, mgr, io>>

\* The application takes an event; quiet is history: it has been told that
\* the proactor is inactive and has not set a timeout since.
proactor_batch_next ==
  /\ p.working
  /\ LET a == proactor_update_batch(p)
     IN  /\ a.event # NULL
         /\ p' = [a EXCEPT !.timeout_processed = @ \/ a.event = "TIMEOUT",
                           !.quiet = @ \/ (a.event = "INACTIVE" /\ ~a.timeout_set),
                           !.event = NULL]
  /\ UNCHANGED <<now, tr, pc, timer, m, mgr, io>>

\* pn_proactor_done for a batch of the proactor.
pn_proactor_done ==
  /\ p.working
  /\ LET a == [p EXCEPT !.working = FALSE, !.timeout_processed = FALSE]
         b == IF p.timeout_processed THEN schedule_if_inactive(a) ELSE a
         c == proactor_update_batch(b)
     IN  p' = IF c.event # NULL THEN schedule_p(c) ELSE c
  /\ UNCHANGED <<now, tr, pc, timer, m, mgr, io>>

-----------------------------------------------------------------------------
(* pni_timer_manager_process *)

\* The poller sees the timerfd, whose epoll registration is one-shot.
Poll ==
  /\ m.polling /\ m.timerfd # 0 /\ m.timerfd <= now
  /\ m' = [m EXCEPT !.polling = FALSE, !.sched_io = TRUE]
  /\ UNCHANGED <<now, tr, pc, timer, mgr, p, io>>

\* Up to the scan of the heap or to the call of pni_proactor_timeout.
pni_timer_manager_process(timeout, sched_ready) ==
  LET expired == m.proactor_deadline # 0 /\ m.proactor_deadline <= now
  IN  /\ mgr.at = "idle"
      /\ timeout \/ sched_ready
      /\ timeout => m.sched_io
      /\ sched_ready => m.ready
      /\ m' = [m EXCEPT !.working = TRUE, !.sched_io = @ /\ ~timeout,
                        !.timerfd_deadline = IF timeout THEN 0 ELSE @,
                        !.ready = @ /\ ~sched_ready,
                        !.proactor_deadline = IF expired THEN 0 ELSE @]
      /\ mgr' = [mgr EXCEPT !.at = IF expired THEN "proactor" ELSE "scan",
                            !.now = now, !.timeout = timeout]
      /\ UNCHANGED <<now, tr, pc, timer, p, io>>

pni_proactor_timeout ==
  /\ mgr.at = "proactor"
  /\ p' = schedule_p([p EXCEPT !.need_timeout = TRUE])
  /\ mgr' = [mgr EXCEPT !.at = "scan"]
  /\ UNCHANGED <<now, tr, pc, timer, m, io>>

\* The timer_deadline_t at the front of the heap, if it has expired.
Expired(d) ==
  /\ d \in m.heap /\ m.list_deadline[d] <= mgr.now
  /\ \A e \in m.heap : m.list_deadline[d] <= m.list_deadline[e]

\* Mutant: a deadline that was extended is not put back on the heap.
ScanDropsExtended(d) ==
  /\ mgr.at = "scan" /\ Expired(d)
  /\ LET deadline == timer[d[1]].deadline
         due      == m.parent[d] /\ deadline # 0 /\ deadline <= mgr.now
     IN  /\ m' = minpop(m, d)
         /\ timer' = IF due THEN [timer EXCEPT ![d[1]].deadline = 0] ELSE timer
         /\ mgr' = IF ~m.parent[d] THEN [mgr EXCEPT !.at = "orphan", !.d = d]
                   ELSE IF due THEN [mgr EXCEPT !.at = "timeout", !.c = d[1]]
                   ELSE mgr
  /\ UNCHANGED <<now, tr, pc, p, io>>

\* One turn of the loop: an orphan is freed and a timer that is due called,
\* both without the lock; one that was extended goes back on the heap.
scan(d) ==
  /\ mgr.at = "scan" /\ Expired(d)
  /\ LET deadline == timer[d[1]].deadline
         due      == m.parent[d] /\ deadline # 0 /\ deadline <= mgr.now
         extended == m.parent[d] /\ deadline > mgr.now
     IN  /\ m' = IF extended THEN minpush(minpop(m, d), d, deadline) ELSE minpop(m, d)
         /\ timer' = IF due THEN [timer EXCEPT ![d[1]].deadline = 0] ELSE timer
         /\ mgr' = IF ~m.parent[d] THEN [mgr EXCEPT !.at = "orphan", !.d = d]
                   ELSE IF due THEN [mgr EXCEPT !.at = "timeout", !.c = d[1]]
                   ELSE mgr
  /\ UNCHANGED <<now, tr, pc, p, io>>

free_orphan ==
  /\ mgr.at = "orphan"
  /\ m' = [m EXCEPT !.live = @ \ {mgr.d}]
  /\ mgr' = [mgr EXCEPT !.at = "scan", !.d = NULL]
  /\ UNCHANGED <<now, tr, pc, timer, p, io>>

pni_pconnection_timeout ==
  LET c   == mgr.c
      due == pc[c].expected_timeout # 0 /\ now >= pc[c].expected_timeout
  IN  /\ mgr.at = "timeout"
      /\ pc' = IF pc[c].closing \/ ~due THEN pc
               ELSE [pc EXCEPT ![c].tick_pending = TRUE, ![c].expected_timeout = 0,
                               ![c].ready = @ \/ ~pc[c].working]
      /\ mgr' = [mgr EXCEPT !.at = "scan", !.c = NULL]
      /\ UNCHANGED <<now, tr, timer, m, p, io>>

\* The end of pni_timer_manager_process: the timerfd is drained and polled
\* again, and set for the earliest deadline.
scan_done ==
  /\ mgr.at = "scan" /\ \A d \in TDs : ~Expired(d)
  /\ LET drained == IF m.timerfd # 0 /\ m.timerfd <= now THEN 0 ELSE m.timerfd
         a == IF mgr.timeout THEN [m EXCEPT !.timerfd = drained, !.polling = TRUE] ELSE m
     IN  m' = adjust_deadline([a EXCEPT !.working = FALSE], now)
  /\ mgr' = [mgr EXCEPT !.at = "idle", !.now = 0, !.timeout = FALSE]
  /\ UNCHANGED <<now, tr, pc, timer, p, io>>

-----------------------------------------------------------------------------
(* Time *)

\* The deadline of a connection's next tick.
Due(c) == next_tick(tr[c])

\* Nobody has anything to do before the clock moves.
Quiescent ==
  /\ \A c \in Conns : pc[c].at \in {"idle", "freed"} /\ ~pc[c].ready
  /\ mgr.at = "idle" /\ ~m.ready /\ ~m.sched_io
  /\ m.timerfd # 0 => m.timerfd > now
  /\ ~p.ready /\ ~p.working /\ p.caller = NULL

\* The clock; late is history: time went on while the connection's thread had
\* something to do or a tick was due.
Advance ==
  /\ now < MaxTime
  /\ Quiescent \/ io.slow < MaxSlow
  /\ now' = now + 1
  /\ io' = IF Quiescent THEN io ELSE [io EXCEPT !.slow = @ + 1]
  /\ pc' = [c \in Conns |-> [pc[c] EXCEPT !.late = \/ @ \/ pc[c].at # "idle"
                                                   \/ Due(c) # 0 /\ Due(c) <= now]]
  /\ UNCHANGED <<tr, timer, m, mgr, p>>

ConnStep(c) ==
  \/ \E r \in RemoteIdle \cup {0}, sched \in BOOLEAN, input \in BOOLEAN :
       pconnection_process(c, sched, input, r)
  \/ pconnection_tick(c) \/ expect_timeout(c) \/ pni_timer_set(c)
  \/ replace_timer_deadline(c)
  \/ \E close \in BOOLEAN : Output(c, close)
  \/ \E finished \in BOOLEAN : pconnection_done(c, finished)
  \/ pconnection_cleanup(c) \/ pni_timer_cancel(c) \/ pni_timer_free(c)

ManagerStep ==
  \/ \E timeout \in BOOLEAN, sched_ready \in BOOLEAN :
       pni_timer_manager_process(timeout, sched_ready)
  \/ pni_proactor_timeout \/ free_orphan \/ pni_pconnection_timeout \/ scan_done
  \/ \E d \in TDs : scan(d)

Next ==
  \/ \E c \in Conns : ConnStep(c)
  \/ \E t \in Timeouts : pn_proactor_set_timeout(t)
  \/ pn_proactor_cancel_timeout \/ set_proactor_timer
  \/ proactor_process \/ proactor_batch_next \/ pn_proactor_done
  \/ Poll \/ ManagerStep
  \/ Advance

Spec == Init /\ [][Next]_vars

\* Scheduled tasks are processed and threads go on (EpollScheduler), and the
\* application takes the events of its batches and then finishes them.  Time,
\* input and output owe nothing.
Fairness ==
  /\ \A c \in Conns :
       /\ WF_vars(\/ pconnection_process(c, TRUE, FALSE, 0)
                  \/ pconnection_tick(c) \/ expect_timeout(c) \/ pni_timer_set(c)
                  \/ replace_timer_deadline(c) \/ pconnection_done(c, FALSE)
                  \/ pconnection_cleanup(c) \/ pni_timer_cancel(c) \/ pni_timer_free(c))
  /\ WF_vars(set_proactor_timer) /\ WF_vars(proactor_process)
  /\ SF_vars(proactor_batch_next) /\ WF_vars(pn_proactor_done)
  /\ WF_vars(Poll) /\ WF_vars(ManagerStep)

FairSpec == Spec /\ Fairness

-----------------------------------------------------------------------------
(* Properties *)

\* Types.
TypeOK ==
  /\ now \in Nat
  /\ tr \in [Conns -> [local_idle_timeout : LocalIdle,
       remote_idle_timeout : RemoteIdle \cup {0}, dead_remote_deadline : Nat,
       keepalive_deadline : Nat, unseen_input : BOOLEAN, unseen_output : {-1, 0, 1},
       output_buffer : {0, 1, 2}, posted_idle_timeout : BOOLEAN, close_sent : BOOLEAN,
       last_in : Nat, last_out : Nat]]
  /\ pc \in [Conns -> [at : {"idle", "tick", "expect", "set", "replace", "fatal", "work",
                             "cleanup", "free", "free_td", "freed"},
       working : BOOLEAN, ready : BOOLEAN, tick_pending : BOOLEAN,
       expected_timeout : Nat, closing : BOOLEAN, next : Nat, late : BOOLEAN]]
  /\ timer \in [Conns -> [deadline : Nat, td : {0, 1}]]
  /\ m \in [working : BOOLEAN, ready : BOOLEAN, sched_io : BOOLEAN,
       timerfd_deadline : Nat, timerfd : Nat, polling : BOOLEAN,
       proactor_deadline : Nat, heap : SUBSET TDs, list_deadline : [TDs -> Nat],
       live : SUBSET TDs, parent : [TDs -> BOOLEAN]]
  /\ mgr \in [at : {"idle", "proactor", "scan", "orphan", "timeout"}, now : Nat,
       timeout : BOOLEAN, c : Conns \cup {NULL}, d : TDs \cup {NULL}]
  /\ p \in [ready : BOOLEAN, working : BOOLEAN, tasks : SUBSET Conns,
       need_timeout : BOOLEAN, timeout_set : BOOLEAN, need_inactive : BOOLEAN,
       timeout_processed : BOOLEAN, event : {NULL, "TIMEOUT", "INACTIVE"},
       caller : Nat \cup {NULL}, quiet : BOOLEAN]

\* epoll_timer.c: "A connection timer can go backwards at most once": whatever
\* a peer's open and the two idle timeouts make of the ticks of a transport,
\* pni_timer_set never ends the process with "idle timeout sequencing error".
NoSequencingError == \A c \in Conns : pc[c].at # "fatal"

\* The memory of the timers: a timer_deadline_t is on the heap exactly when it
\* has a list_deadline, what is on the heap has not been freed, and its parent
\* is the timer of a connection that still exists; the timeout of a connection
\* is never called, and an orphan never freed, after it has been freed; and
\* none is leaked: each belongs to a timer or is on its way to be freed.
TimersSafe ==
  /\ TypeOK /\ NoSequencingError
  /\ m.heap = {d \in TDs : m.list_deadline[d] # 0}
  /\ m.heap \subseteq m.live
  /\ \A d \in m.live : m.parent[d] => pc[d[1]].at # "freed" /\ timer[d[1]].td = d[2]
  /\ mgr.at = "timeout" => pc[mgr.c].at # "freed"
  /\ mgr.at = "orphan" => mgr.d \in m.live \ m.heap
  /\ \A d \in m.live : m.parent[d] \/ d \in m.heap \/ d = mgr.d

\* While the timer manager is not working, it will be in time for the earliest
\* deadline: it has been scheduled, the timerfd has gone off, or the timerfd is
\* polled and set no later than that deadline.
Armed ==
  m.working \/ Deadlines(m) = {} \/ m.ready \/ m.sched_io
  \/ /\ m.polling /\ m.timerfd_deadline \in 1 .. Earliest(m)
     /\ m.timerfd = m.timerfd_deadline

\* As long as the ticks of a connection are not late, the peer hears from this
\* side within the peer's own idle timeout, and a peer that has been silent
\* for twice the local idle timeout has been given up.
IdleTimeoutsKept ==
  \A c \in Conns :
    LET t == tr[c]
    IN  pc[c].at = "idle" /\ ~pc[c].late /\ ~pc[c].closing =>
          /\ t.remote_idle_timeout # 0 /\ ~t.close_sent =>
               now - t.last_out <= t.remote_idle_timeout
          /\ t.dead_remote_deadline # 0 /\ now - t.last_in > 2 * t.local_idle_timeout =>
               t.posted_idle_timeout

\* pn_tick_amqp gives up a peer only if it has been silent for the whole of
\* the local idle timeout.
DeadOnlyIfSilent ==
  [][\A c \in Conns :
       tr'[c].posted_idle_timeout /\ ~tr[c].posted_idle_timeout =>
         now - tr[c].last_in >= tr[c].local_idle_timeout]_vars

Overdue(c) == ~pc[c].closing /\ Due(c) # 0 /\ Due(c) <= now

ProactorOverdue ==
  p.need_timeout \/ (m.proactor_deadline # 0 /\ m.proactor_deadline <= now)

\* A tick that is due is made, and a timeout of the proactor that is due
\* becomes an event, however the timer manager, the thread of the connection
\* and the callers of pn_proactor_set_timeout meet: the deadline is not lost
\* between expected_timeout, the timer, the heap and the timerfd.
TimeoutsCome ==
  /\ \A c \in Conns : Overdue(c) ~> ~Overdue(c)
  /\ ProactorOverdue ~> ~ProactorOverdue

Inactive == p.tasks = {} /\ ~p.timeout_set

\* A proactor that becomes inactive, and stays so, says so: when its last
\* connection goes, its timeout is delivered or cancelled, in any order, there
\* is a PN_PROACTOR_INACTIVE event.
InactiveComes == Inactive ~> p.quiet \/ ~Inactive

\* Both: the events of the timers and of inactivity that the application waits
\* for come (pni_timer_manager_process, proactor_update_batch).
EventsCome == TimeoutsCome /\ InactiveComes
=============================================================================

------------------------- MODULE EpollTimers_lemmas -------------------------
(***************************************************************************)
(* The inductive invariant of EpollTimers, and the lemmas that its proof in*)
(* EpollTimers_proof rests on: what the operators of the timer manager and *)
(* of the tick make of their arguments, and, for each kind of step, what is*)
(* left to show of the invariant (the lemmas ...Frame).                    *)
(*                                                                         *)
(* IInv has three parts besides the types.  ManagerInv is about the timerfd,*)
(* MemoryInv about the timer_deadline_ts, and SequenceInv about the deadlines*)
(* of a connection, from the transport to the heap.                        *)
(***************************************************************************)
EXTENDS EpollTimers, WellFoundedInduction, TLAPS

\* The timer manager: the set that m is in by TypeOK.
MType ==
  [working : BOOLEAN, ready : BOOLEAN, sched_io : BOOLEAN,
   timerfd_deadline : Nat, timerfd : Nat, polling : BOOLEAN,
   proactor_deadline : Nat, heap : SUBSET TDs, list_deadline : [TDs -> Nat],
   live : SUBSET TDs, parent : [TDs -> BOOLEAN]]

\* The transports.
TrType ==
  [local_idle_timeout : LocalIdle,
   remote_idle_timeout : RemoteIdle \cup {0}, dead_remote_deadline : Nat,
   keepalive_deadline : Nat, unseen_input : BOOLEAN, unseen_output : {-1, 0, 1},
   output_buffer : {0, 1, 2}, posted_idle_timeout : BOOLEAN, close_sent : BOOLEAN,
   last_in : Nat, last_out : Nat]

\* The connections and their threads.
PcType ==
  [at : {"idle", "tick", "expect", "set", "replace", "fatal", "work",
         "cleanup", "free", "free_td", "freed"},
   working : BOOLEAN, ready : BOOLEAN, tick_pending : BOOLEAN,
   expected_timeout : Nat, closing : BOOLEAN, next : Nat, late : BOOLEAN]

\* The proactor task.
PType ==
  [ready : BOOLEAN, working : BOOLEAN, tasks : SUBSET Conns,
   need_timeout : BOOLEAN, timeout_set : BOOLEAN, need_inactive : BOOLEAN,
   timeout_processed : BOOLEAN, event : {NULL, "TIMEOUT", "INACTIVE"},
   caller : Nat \cup {NULL}, quiet : BOOLEAN]

\* The manager's thread.
MgrType ==
  [at : {"idle", "proactor", "scan", "orphan", "timeout"}, now : Nat,
   timeout : BOOLEAN, c : Conns \cup {NULL}, d : TDs \cup {NULL}]

\* The timerfd and its one-shot registration: it is polled, or its event is on
\* its way to the manager, or the manager is at it; and as long as the event has
\* not been taken, a deadline that the manager believes to be set is set.
TimerfdRight(a, timeout) ==
  /\ a.polling \/ a.sched_io \/ timeout
  /\ a.timerfd_deadline # 0 =>
       ~timeout /\ (a.sched_io \/ (a.polling /\ a.timerfd = a.timerfd_deadline))

\* Armed, with the earliest deadline written as a bound of all of them.
ArmedFor(a) ==
  a.working \/ Deadlines(a) = {} \/ a.ready \/ a.sched_io
  \/ /\ a.polling /\ a.timerfd = a.timerfd_deadline /\ a.timerfd_deadline # 0
     /\ \A x \in Deadlines(a) : a.timerfd_deadline <= x

\* A timer_deadline_t is on the heap exactly when it has a list_deadline.
HeapRight(a) == a.heap = {d \in TDs : a.list_deadline[d] # 0}

\* What the timer manager keeps.  TimerfdRight is what makes Armed inductive: at
\* the end of pni_timer_manager_process adjust_deadline compares the earliest
\* deadline with timerfd_deadline, and is right only if that is really set.
ManagerInv ==
  /\ m.working <=> mgr.at # "idle"
  /\ mgr.timeout => m.working
  /\ TimerfdRight(m, mgr.timeout)
  /\ HeapRight(m)
  /\ ArmedFor(m)

\* The timer_deadline_t of a connection: it is allocated and has its parent, but
\* for the time between the two locks of replace_timer_deadline; and the second
\* one does not exist before.
Owned(c) ==
  /\ pc[c].at \notin {"freed", "replace"} => td(c) \in m.live /\ m.parent[td(c)]
  /\ pc[c].at = "replace" => timer[c].td = 0 /\ ~m.parent[<<c, 0>>]
  /\ timer[c].td = 0 => <<c, 1>> \notin m.live

\* TimersSafe, and that every connection has what is its own, that what has a
\* parent is what its timer uses, and that the orphan the manager frees is one.
MemoryInv ==
  /\ m.heap \subseteq m.live
  /\ \A d \in m.live :
       /\ m.parent[d] => pc[d[1]].at # "freed" /\ timer[d[1]].td = d[2]
       /\ m.parent[d] \/ d \in m.heap \/ (mgr.at = "orphan" /\ d = mgr.d)
  /\ mgr.at = "timeout" => mgr.c \in Conns /\ pc[mgr.c].at # "freed"
  /\ mgr.at = "orphan" => mgr.d \in m.live \ m.heap /\ ~m.parent[mgr.d]
  /\ \A c \in Conns : Owned(c)

\* What pn_tick_amqp keeps: the deadlines are not further away than the timeouts
\* they come from, and without input a peer's deadline is a timeout away from the
\* last of it.
TickRight(t, n) ==
  /\ t.dead_remote_deadline # 0 => t.local_idle_timeout # 0
  /\ t.dead_remote_deadline <= n + t.local_idle_timeout
  /\ t.keepalive_deadline <= n + t.remote_idle_timeout \div 2
  /\ t.keepalive_deadline # 0 =>
       t.remote_idle_timeout # 0 /\ (t.local_idle_timeout # 0 => t.dead_remote_deadline # 0)
  /\ t.last_in <= n
  /\ t.dead_remote_deadline # 0 /\ ~t.unseen_input =>
       t.dead_remote_deadline >= t.last_in + t.local_idle_timeout

\* Why a connection timer goes backwards once and no more.  With t a transport, e
\* the deadline of its timer, l its place on the heap, k = 1 after the replacement
\* and at the place of the thread: next_tick is not before what the timer has been
\* set to, except once, when the keepalive deadline of the peer's open is new
\* (between pn_tick_amqp and the replacement).
Ordered(t, e, l, k, at) ==
  /\ l # 0 /\ e # 0 => l <= e
  /\ l # 0 \/ e # 0 => t.dead_remote_deadline # 0 \/ t.keepalive_deadline # 0
  /\ k = 1 \/ at = "replace" => t.keepalive_deadline # 0
  /\ \/ at \in {"expect", "set"} /\ k = 0 /\ t.keepalive_deadline # 0
     \/ at = "replace"
     \/ next_tick(t) = 0
     \/ l <= next_tick(t) /\ e <= next_tick(t)

\* The part of a connection in the invariant.
ConnRight(c) ==
  /\ pc[c].at # "fatal"
  /\ TickRight(tr[c], now)
  /\ pc[c].at \in {"expect", "set", "replace"} =>
       pc[c].next = next_tick(tr[c]) /\ pc[c].next # 0
  /\ Ordered(tr[c], timer[c].deadline, m.list_deadline[td(c)], timer[c].td, pc[c].at)

\* The clock has started, and every connection is right.
SequenceInv == now >= 1 /\ \A c \in Conns : ConnRight(c)

\* TypeOK, with the sets of records named.
Types ==
  /\ now \in Nat /\ tr \in [Conns -> TrType] /\ pc \in [Conns -> PcType]
  /\ timer \in [Conns -> [deadline : Nat, td : {0, 1}]]
  /\ m \in MType /\ mgr \in MgrType /\ p \in PType

\* The inductive invariant.
IInv == Types /\ ManagerInv /\ MemoryInv /\ SequenceInv

\* A nonempty set of numbers has a smallest.
LEMMA MinNat ==
  ASSUME NEW T \in SUBSET Nat, T # {}
  PROVE  \E x \in T : \A y \in T : x <= y
<1> DEFINE R == OpToRel(<, Nat)
<1>1. IsWellFoundedOn(R, Nat)
  BY NatLessThanWellFounded, Zenon
<1>2. R = {ss \in Nat \X Nat : ss[1] < ss[2]}
  BY DEF OpToRel
<1> HIDE DEF R
<1>3. PICK x \in T : \A y \in T : ~ (<<y, x>> \in R)
  BY <1>1, WFMin, Zenon
<1>4. \A y \in T : x <= y
  <2> TAKE y \in T
  <2>1. y \in Nat /\ x \in Nat /\ ~ (<<y, x>> \in R)
    BY <1>3
  <2>2. <<y, x>> \in Nat \X Nat /\ <<y, x>>[1] = y /\ <<y, x>>[2] = x
    BY <2>1
  <2>3. ~ (y < x)
    BY <1>2, <2>1, <2>2
  <2> QED
    BY <2>1, <2>3
<1> QED
  BY <1>4

\* Earliest is the smallest of the deadlines, none of which is 0.
LEMMA EarliestIs ==
  ASSUME NEW a \in MType, HeapRight(a)
  PROVE  /\ Deadlines(a) \subseteq Nat \ {0}
         /\ Deadlines(a) # {} =>
              /\ Earliest(a) \in Deadlines(a)
              /\ \A y \in Deadlines(a) : Earliest(a) <= y
<1>1. Deadlines(a) \subseteq Nat \ {0}
  BY DEF Deadlines, MType, HeapRight
<1> QED
  BY <1>1, MinNat DEF Earliest

\* The heap and the proactor's deadline are the same.
SameHeap(a, b) ==
  /\ b.heap = a.heap /\ b.list_deadline = a.list_deadline
  /\ b.proactor_deadline = a.proactor_deadline

\* So is what is allocated.
SameMemory(a, b) == b.live = a.live /\ b.parent = a.parent

\* And so is what the manager is doing.
SameMode(a, b) ==
  b.working = a.working /\ b.sched_io = a.sched_io /\ b.polling = a.polling

\* adjust_deadline: whatever the state of the timerfd, after it the manager is armed
\* for the earliest deadline, and nothing else has changed.
LEMMA AdjustIs ==
  ASSUME NEW a \in MType, HeapRight(a), NEW n \in Nat,
         NEW timeout \in BOOLEAN, TimerfdRight(a, timeout), timeout => a.working
  PROVE  LET b == adjust_deadline(a, n)
         IN  /\ b \in MType /\ HeapRight(b) /\ TimerfdRight(b, timeout) /\ ArmedFor(b)
             /\ SameHeap(a, b) /\ SameMemory(a, b) /\ SameMode(a, b)
<1> DEFINE b == adjust_deadline(a, n)
           e == Earliest(a)
<1>1. CASE a.working \/ Deadlines(a) = {}
  BY <1>1 DEF adjust_deadline, ArmedFor, SameHeap, SameMemory, SameMode
<1>2. CASE ~a.working /\ Deadlines(a) # {}
  <2>1. e \in Nat \ {0} /\ \A y \in Deadlines(a) : e <= y
    BY <1>2, EarliestIs
  <2>2. Deadlines(a) \subseteq Nat
    BY EarliestIs
  <2>3. a.timerfd_deadline \in Nat
    BY DEF MType
  <2> HIDE DEF e
  <2>4. b = IF a.timerfd_deadline # 0 /\ e >= a.timerfd_deadline THEN a
            ELSE IF e <= n THEN [a EXCEPT !.ready = TRUE]
            ELSE [a EXCEPT !.timerfd = e, !.timerfd_deadline = e]
    BY <1>2 DEF adjust_deadline, schedule_tm, e
  <2> HIDE DEF b
  <2>5. CASE a.timerfd_deadline # 0 /\ e >= a.timerfd_deadline
    <3>1. b = a
      BY <2>4, <2>5
    <3>2. \A y \in Deadlines(a) : a.timerfd_deadline <= y
      BY <2>1, <2>2, <2>3, <2>5
    <3>3. ArmedFor(a)
      BY <2>5, <3>2 DEF ArmedFor, TimerfdRight
    <3> QED
      BY <3>1, <3>3 DEF SameHeap, SameMemory, SameMode, b
  <2>6. CASE ~(a.timerfd_deadline # 0 /\ e >= a.timerfd_deadline) /\ e <= n
    <3>1. b = [a EXCEPT !.ready = TRUE]
      BY <2>4, <2>6
    <3>2. /\ b \in MType /\ SameHeap(a, b) /\ SameMemory(a, b) /\ SameMode(a, b)
          /\ b.timerfd = a.timerfd /\ b.timerfd_deadline = a.timerfd_deadline /\ b.ready
      BY <3>1, Zenon DEF MType, SameHeap, SameMemory, SameMode
    <3> QED
      BY <3>2 DEF HeapRight, TimerfdRight, ArmedFor, SameHeap, SameMode, b
  <2>7. CASE ~(a.timerfd_deadline # 0 /\ e >= a.timerfd_deadline) /\ ~(e <= n)
    <3>1. b = [a EXCEPT !.timerfd = e, !.timerfd_deadline = e]
      BY <2>4, <2>7
    <3>2. /\ b \in MType /\ SameHeap(a, b) /\ SameMemory(a, b) /\ SameMode(a, b)
          /\ b.timerfd = e /\ b.timerfd_deadline = e
      BY <2>1, <3>1, Zenon DEF MType, SameHeap, SameMemory, SameMode
    <3>3. Deadlines(b) = Deadlines(a)
      BY <3>2 DEF Deadlines, SameHeap
    <3>4. TimerfdRight(b, timeout)
      BY <1>2, <3>2 DEF TimerfdRight, SameMode
    <3>5. ArmedFor(b)
      BY <1>2, <2>1, <3>2, <3>3, <3>4, Zenon DEF ArmedFor, TimerfdRight
    <3> QED
      BY <3>2, <3>4, <3>5 DEF HeapRight, SameHeap, b
  <2> QED
    BY <2>5, <2>6, <2>7
<1> QED
  BY <1>1, <1>2

\* minpush: d is on the heap with the new list_deadline, the others as before.
LEMMA MinpushIs ==
  ASSUME NEW a \in MType, HeapRight(a), NEW d \in TDs, NEW x \in Nat \ {0}
  PROVE  LET b == minpush(a, d, x)
         IN  /\ b \in MType /\ HeapRight(b) /\ SameMemory(a, b) /\ SameMode(a, b)
             /\ b.heap = a.heap \cup {d} /\ b.list_deadline[d] = x
             /\ \A e \in TDs \ {d} : b.list_deadline[e] = a.list_deadline[e]
             /\ b.ready = a.ready /\ b.timerfd = a.timerfd
             /\ b.timerfd_deadline = a.timerfd_deadline
             /\ b.proactor_deadline = a.proactor_deadline
  BY ZenonT(40) DEF MType, HeapRight, SameMemory, SameMode, minpush

\* minpop: d is off the heap, the others as before.
LEMMA MinpopIs ==
  ASSUME NEW a \in MType, HeapRight(a), NEW d \in TDs
  PROVE  LET b == minpop(a, d)
         IN  /\ b \in MType /\ HeapRight(b) /\ SameMemory(a, b) /\ SameMode(a, b)
             /\ b.heap = a.heap \ {d} /\ b.list_deadline[d] = 0
             /\ \A e \in TDs \ {d} : b.list_deadline[e] = a.list_deadline[e]
             /\ b.ready = a.ready /\ b.timerfd = a.timerfd
             /\ b.timerfd_deadline = a.timerfd_deadline
             /\ b.proactor_deadline = a.proactor_deadline
  BY Zenon DEF MType, HeapRight, SameMemory, SameMode, minpop

\* The end of pni_timer_set: the timer_deadline_t is on the heap, with its
\* list_deadline as it was if it was there before, and the manager is armed.
LEMMA SetTimerIs ==
  ASSUME NEW a \in MType, HeapRight(a), ArmedFor(a), NEW n \in Nat,
         NEW timeout \in BOOLEAN, TimerfdRight(a, timeout), timeout => a.working,
         NEW d \in TDs, NEW x \in Nat \ {0}
  PROVE  LET b == set_connection_timer(a, d, x, n)
         IN  /\ b \in MType /\ HeapRight(b) /\ TimerfdRight(b, timeout) /\ ArmedFor(b)
             /\ SameMemory(a, b) /\ SameMode(a, b)
             /\ b.heap = a.heap \cup {d}
             /\ b.list_deadline[d]
                  = IF a.list_deadline[d] = 0 THEN x ELSE a.list_deadline[d]
             /\ \A e \in TDs \ {d} : b.list_deadline[e] = a.list_deadline[e]
<1> DEFINE q == IF a.list_deadline[d] = 0 THEN minpush(a, d, x) ELSE a
<1>1. /\ q \in MType /\ HeapRight(q) /\ SameMemory(a, q) /\ SameMode(a, q)
      /\ q.heap = a.heap \cup {d} /\ q.timerfd = a.timerfd
      /\ q.timerfd_deadline = a.timerfd_deadline
      /\ q.list_deadline[d] = IF a.list_deadline[d] = 0 THEN x ELSE a.list_deadline[d]
      /\ \A e \in TDs \ {d} : q.list_deadline[e] = a.list_deadline[e]
  <2>1. CASE a.list_deadline[d] = 0
    BY <2>1, MinpushIs
  <2>2. CASE a.list_deadline[d] # 0
    BY <2>2 DEF SameMemory, SameMode, HeapRight, MType
  <2> QED
    BY <2>1, <2>2
<1>2. set_connection_timer(a, d, x, n) = adjust_deadline(q, n)
  BY DEF set_connection_timer
<1> HIDE DEF q
<1>3. TimerfdRight(q, timeout) /\ (timeout => q.working)
  BY <1>1 DEF TimerfdRight, SameMode
<1> QED
  BY <1>1, <1>2, <1>3, AdjustIs DEF SameMemory, SameMode, SameHeap

\* The deadlines and timeouts of a transport are numbers.
LEMMA TrNumbers ==
  ASSUME NEW t \in TrType
  PROVE  /\ t.local_idle_timeout \in Nat /\ t.remote_idle_timeout \in Nat
         /\ t.remote_idle_timeout \div 2 \in Nat
         /\ t.dead_remote_deadline \in Nat /\ t.keepalive_deadline \in Nat
         /\ t.last_in \in Nat /\ t.last_out \in Nat /\ next_tick(t) \in Nat
<1>1. /\ t.local_idle_timeout \in Nat /\ t.remote_idle_timeout \in Nat
      /\ t.dead_remote_deadline \in Nat /\ t.keepalive_deadline \in Nat
      /\ t.last_in \in Nat /\ t.last_out \in Nat
  <2>1. LocalIdle \subseteq Nat /\ RemoteIdle \subseteq Nat
    BY TimersConstants
  <2>2. /\ t.local_idle_timeout \in LocalIdle
        /\ t.remote_idle_timeout \in RemoteIdle \cup {0}
        /\ t.dead_remote_deadline \in Nat /\ t.keepalive_deadline \in Nat
        /\ t.last_in \in Nat /\ t.last_out \in Nat
    BY DEF TrType
  <2>3. RemoteIdle \cup {0} \subseteq Nat
    BY <2>1
  <2> QED
    BY <2>1, <2>2, <2>3, Zenon
<1>2. t.remote_idle_timeout \div 2 \in Nat
  BY <1>1
<1>3. next_tick(t) \in Nat
  BY <1>1 DEF next_tick, pn_timestamp_min
<1> QED
  BY <1>1, <1>2, <1>3

\* The first half of pn_tick_amqp: the peer's deadline only grows, it is set if
\* there is a local idle timeout, and the peer is given up only if it was silent
\* for that long.
LEMMA CheckRemoteIs ==
  ASSUME NEW t \in TrType, NEW n \in Nat \ {0}, TickRight(t, n)
  PROVE  LET u == check_remote(t, n)
         IN  /\ u \in TrType
             /\ u.local_idle_timeout = t.local_idle_timeout
             /\ u.remote_idle_timeout = t.remote_idle_timeout
             /\ u.close_sent = t.close_sent /\ u.keepalive_deadline = t.keepalive_deadline
             /\ u.dead_remote_deadline >= t.dead_remote_deadline
             /\ u.local_idle_timeout # 0 => u.dead_remote_deadline # 0
             /\ TickRight(u, n)
             /\ u.posted_idle_timeout /\ ~t.posted_idle_timeout =>
                  n - t.last_in >= t.local_idle_timeout
<1> DEFINE l == t.local_idle_timeout
           x == n + l
           v == [t EXCEPT !.dead_remote_deadline = x, !.unseen_input = FALSE]
           z == [t EXCEPT !.dead_remote_deadline = x, !.posted_idle_timeout = TRUE]
<1>1. l \in Nat /\ x \in Nat /\ x # 0 /\ t.dead_remote_deadline \in Nat /\ t.last_in \in Nat
  BY TrNumbers
<1>2. t.dead_remote_deadline <= x /\ t.last_in <= n
  BY DEF TickRight
<1> HIDE DEF x
<1>3. v \in TrType /\ z \in TrType
  BY <1>1, Zenon DEF TrType
<1>4. CASE l = 0
  <2>1. check_remote(t, n) = t /\ t.dead_remote_deadline >= t.dead_remote_deadline
    BY <1>1, <1>4 DEF check_remote
  <2> QED
    BY <1>4, <2>1
<1>5. CASE l # 0 /\ (t.dead_remote_deadline = 0 \/ t.unseen_input)
  <2>1. check_remote(t, n) = v
    BY <1>5 DEF check_remote, x
  <2>2. /\ v.local_idle_timeout = l /\ v.remote_idle_timeout = t.remote_idle_timeout
        /\ v.close_sent = t.close_sent /\ v.keepalive_deadline = t.keepalive_deadline
        /\ v.dead_remote_deadline = x /\ v.last_in = t.last_in
        /\ v.posted_idle_timeout = t.posted_idle_timeout
    BY DEF TrType
  <2> HIDE DEF v
  <2>3. TickRight(v, n)
    BY <1>1, <1>2, <1>5, <2>2 DEF TickRight, x
  <2> QED
    BY <1>1, <1>2, <1>3, <2>1, <2>2, <2>3
<1>6. CASE l # 0 /\ ~(t.dead_remote_deadline = 0 \/ t.unseen_input)
  <2>0. t.dead_remote_deadline >= t.last_in + l
    BY <1>6 DEF TickRight
  <2>1. CASE t.dead_remote_deadline <= n
    <3>1. check_remote(t, n) = z
      BY <1>6, <2>1 DEF check_remote, x
    <3>2. /\ z.local_idle_timeout = l /\ z.remote_idle_timeout = t.remote_idle_timeout
          /\ z.close_sent = t.close_sent /\ z.keepalive_deadline = t.keepalive_deadline
          /\ z.dead_remote_deadline = x /\ z.last_in = t.last_in
      BY DEF TrType
    <3> HIDE DEF z
    <3>3. TickRight(z, n)
      BY <1>1, <1>2, <1>6, <3>2 DEF TickRight, x
    <3>4. n - t.last_in >= l
      BY <1>1, <2>0, <2>1
    <3> QED
      BY <1>1, <1>2, <1>3, <3>1, <3>2, <3>3, <3>4
  <2>2. CASE ~(t.dead_remote_deadline <= n)
    <3>1. check_remote(t, n) = t
      BY <1>6, <2>2 DEF check_remote
    <3> QED
      BY <1>1, <1>6, <3>1
  <2> QED
    BY <2>1, <2>2
<1> QED
  BY <1>4, <1>5, <1>6

\* The second half: the keepalive deadline only grows.
LEMMA KeepaliveIs ==
  ASSUME NEW t \in TrType, NEW n \in Nat \ {0}, TickRight(t, n),
         t.local_idle_timeout # 0 => t.dead_remote_deadline # 0
  PROVE  LET u == keepalive(t, n)
         IN  /\ u \in TrType
             /\ u.local_idle_timeout = t.local_idle_timeout
             /\ u.remote_idle_timeout = t.remote_idle_timeout
             /\ u.close_sent = t.close_sent
             /\ u.dead_remote_deadline = t.dead_remote_deadline
             /\ u.keepalive_deadline >= t.keepalive_deadline
             /\ u.posted_idle_timeout = t.posted_idle_timeout
             /\ TickRight(u, n)
<1> DEFINE x == n + t.remote_idle_timeout \div 2
           later == [t EXCEPT !.keepalive_deadline = x]
           seen == [later EXCEPT !.unseen_output = 0]
           empty == [later EXCEPT !.output_buffer = 1, !.unseen_output = -1]
           u == keepalive(t, n)
<1>1. x \in Nat /\ x # 0 /\ t.keepalive_deadline \in Nat /\ t.keepalive_deadline <= x
  BY TrNumbers DEF TickRight
<1>2. u \in {t, later, seen, empty} /\ (u = t \/ t.remote_idle_timeout # 0)
  BY DEF keepalive
<1>3. x = n + t.remote_idle_timeout \div 2
  OBVIOUS
<1> HIDE DEF x
<1>4. later \in TrType
  BY <1>1 DEF TrType
<1>5. /\ \A v \in {later, seen, empty} :
           /\ v \in TrType /\ v.local_idle_timeout = t.local_idle_timeout
           /\ v.remote_idle_timeout = t.remote_idle_timeout
           /\ v.close_sent = t.close_sent
           /\ v.dead_remote_deadline = t.dead_remote_deadline
           /\ v.keepalive_deadline = x /\ v.unseen_input = t.unseen_input
           /\ v.last_in = t.last_in /\ v.posted_idle_timeout = t.posted_idle_timeout
  BY <1>1, <1>4, ZenonT(40) DEF TrType
<1> HIDE DEF later, seen, empty, u
<1>6. CASE u = t
  BY <1>1, <1>6 DEF u
<1>7. CASE u # t
  <2>1. /\ u \in TrType /\ u.local_idle_timeout = t.local_idle_timeout
        /\ u.remote_idle_timeout = t.remote_idle_timeout
        /\ u.close_sent = t.close_sent
        /\ u.dead_remote_deadline = t.dead_remote_deadline
        /\ u.keepalive_deadline = x /\ u.unseen_input = t.unseen_input
        /\ u.last_in = t.last_in /\ u.posted_idle_timeout = t.posted_idle_timeout
        /\ t.remote_idle_timeout # 0
    BY <1>2, <1>5, <1>7
  <2>2. TickRight(u, n)
    BY <1>1, <1>3, <2>1 DEF TickRight
  <2>3. u.keepalive_deadline >= t.keepalive_deadline
    BY <1>1, <2>1
  <2> QED
    BY <2>1, <2>2, <2>3 DEF u
<1> QED
  BY <1>6, <1>7

\* pn_tick_amqp as a whole.
LEMMA TickIs ==
  ASSUME NEW t \in TrType, NEW n \in Nat \ {0}, TickRight(t, n)
  PROVE  LET u == pn_tick_amqp(t, n)
         IN  /\ u \in TrType
             /\ u.local_idle_timeout = t.local_idle_timeout
             /\ u.remote_idle_timeout = t.remote_idle_timeout
             /\ u.close_sent = t.close_sent
             /\ u.dead_remote_deadline >= t.dead_remote_deadline
             /\ u.keepalive_deadline >= t.keepalive_deadline
             /\ TickRight(u, n)
             /\ u.posted_idle_timeout /\ ~t.posted_idle_timeout =>
                  n - t.last_in >= t.local_idle_timeout
<1> DEFINE v == check_remote(t, n)
<1>1. /\ v \in TrType
      /\ v.local_idle_timeout = t.local_idle_timeout
      /\ v.remote_idle_timeout = t.remote_idle_timeout
      /\ v.close_sent = t.close_sent /\ v.keepalive_deadline = t.keepalive_deadline
      /\ v.dead_remote_deadline >= t.dead_remote_deadline
      /\ v.local_idle_timeout # 0 => v.dead_remote_deadline # 0
      /\ TickRight(v, n)
      /\ v.posted_idle_timeout /\ ~t.posted_idle_timeout =>
           n - t.last_in >= t.local_idle_timeout
  BY CheckRemoteIs
<1> HIDE DEF v
<1>2. pn_tick_amqp(t, n) = keepalive(v, n)
  BY DEF pn_tick_amqp, v
<1> QED
  BY <1>1, <1>2, KeepaliveIs

\* After pn_tick_amqp the deadlines are still Ordered: they have grown, but for the
\* first keepalive deadline, which is what "expect" allows for.
LEMMA OrderedTick ==
  ASSUME NEW t \in TrType, NEW u \in TrType, NEW n \in Nat,
         TickRight(t, n), TickRight(u, n),
         u.local_idle_timeout = t.local_idle_timeout,
         u.remote_idle_timeout = t.remote_idle_timeout,
         u.close_sent = t.close_sent,
         u.dead_remote_deadline >= t.dead_remote_deadline,
         u.keepalive_deadline >= t.keepalive_deadline,
         NEW e \in Nat, NEW l \in Nat, NEW k \in {0, 1}, Ordered(t, e, l, k, "tick")
  PROVE  Ordered(u, e, l, k, IF next_tick(u) = 0 THEN "work" ELSE "expect")
<1> DEFINE at == IF next_tick(u) = 0 THEN "work" ELSE "expect"
<1>1. /\ t.dead_remote_deadline \in Nat /\ t.keepalive_deadline \in Nat
      /\ u.dead_remote_deadline \in Nat /\ u.keepalive_deadline \in Nat
      /\ t.local_idle_timeout \in Nat /\ t.remote_idle_timeout \in Nat
      /\ next_tick(t) \in Nat /\ next_tick(u) \in Nat
  BY TrNumbers
<1>2. CASE next_tick(u) = 0
  BY <1>1, <1>2 DEF Ordered
<1>3. CASE next_tick(u) # 0 /\ t.keepalive_deadline = 0 /\ u.keepalive_deadline # 0
  BY <1>1, <1>3 DEF Ordered
<1>4. CASE next_tick(u) # 0 /\ ~(t.keepalive_deadline = 0 /\ u.keepalive_deadline # 0)
  <2>1. l # 0 \/ e # 0 => next_tick(t) # 0 /\ next_tick(t) <= next_tick(u)
    BY <1>1, <1>4 DEF Ordered, TickRight, next_tick, pn_timestamp_min
  <2>2. l <= next_tick(u) /\ e <= next_tick(u)
    BY <1>1, <2>1 DEF Ordered
  <2> QED
    BY <1>1, <1>4, <2>2 DEF Ordered
<1> QED
  BY <1>2, <1>3, <1>4

\* The parts of a connection have their types.
LEMMA TdIs ==
  ASSUME Types, NEW c \in Conns
  PROVE  /\ td(c) \in TDs /\ td(c)[1] = c /\ td(c)[2] = timer[c].td
         /\ timer[c].td \in {0, 1} /\ timer[c].deadline \in Nat
         /\ m.list_deadline[td(c)] \in Nat /\ tr[c] \in TrType /\ pc[c] \in PcType
         /\ <<c, 0>> \in TDs /\ <<c, 1>> \in TDs
<1>1. timer[c].td \in {0, 1} /\ timer[c].deadline \in Nat
  BY DEF Types
<1>2. td(c) \in TDs /\ <<c, 0>> \in TDs /\ <<c, 1>> \in TDs
  BY <1>1 DEF td, TDs
<1> QED
  BY <1>1, <1>2 DEF Types, td, MType

\* A step of the thread of c that leaves the timers alone keeps the invariant if it
\* keeps the part of c.
LEMMA ConnFrame ==
  ASSUME IInv, NEW c \in Conns, UNCHANGED <<now, timer, m, mgr>>, Types',
         pc[c].at \notin {"freed", "replace"}, pc'[c].at \notin {"freed", "replace"},
         \A e \in Conns \ {c} : pc'[e] = pc[e] /\ tr'[e] = tr[e],
         ConnRight(c)'
  PROVE  IInv'
<1>1. ManagerInv'
  BY DEF IInv, ManagerInv
<1>2. \A e \in Conns : /\ pc'[e].at = "freed" <=> pc[e].at = "freed"
                       /\ pc'[e].at = "replace" <=> pc[e].at = "replace"
                       /\ td(e)' = td(e)
  BY DEF td
<1>3. \A d \in m.live : d[1] \in Conns
  BY DEF IInv, Types, MType, TDs
<1>4. MemoryInv'
  BY <1>2, <1>3 DEF IInv, MemoryInv, Owned
<1>5. \A e \in Conns \ {c} : ConnRight(e)'
  BY <1>2 DEF IInv, SequenceInv, ConnRight
<1>6. SequenceInv'
  BY <1>5 DEF IInv, SequenceInv
<1> QED
  BY <1>1, <1>4, <1>6 DEF IInv

\* Ordered does not depend on the place of the thread outside of a tick.
LEMMA OrderedMove ==
  ASSUME NEW t, NEW e, NEW l, NEW k, NEW x, NEW y, Ordered(t, e, l, k, x),
         x \notin {"expect", "set", "replace"}, y # "replace"
  PROVE  Ordered(t, e, l, k, y)
  BY DEF Ordered

\* It depends on the two deadlines and on next_tick only.
LEMMA OrderedSame ==
  ASSUME NEW t, NEW u, NEW e, NEW l, NEW k, NEW x, Ordered(t, e, l, k, x),
         u.dead_remote_deadline = t.dead_remote_deadline,
         u.keepalive_deadline = t.keepalive_deadline,
         next_tick(u) = next_tick(t)
  PROVE  Ordered(u, e, l, k, x)
  BY DEF Ordered

\* read_done: input changes no deadline.
LEMMA ReadDoneIs ==
  ASSUME NEW t \in TrType, NEW r \in RemoteIdle \cup {0}, NEW n \in Nat,
         TickRight(t, n), r # 0 => t.remote_idle_timeout = 0
  PROVE  LET u == read_done(t, r, n)
         IN  /\ u \in TrType /\ TickRight(u, n)
             /\ u.dead_remote_deadline = t.dead_remote_deadline
             /\ u.keepalive_deadline = t.keepalive_deadline
             /\ next_tick(u) = next_tick(t)
             /\ u.posted_idle_timeout = t.posted_idle_timeout
<1> DEFINE u == read_done(t, r, n)
<1>1. /\ u \in TrType
      /\ u.dead_remote_deadline = t.dead_remote_deadline
      /\ u.keepalive_deadline = t.keepalive_deadline
      /\ u.local_idle_timeout = t.local_idle_timeout
      /\ u.remote_idle_timeout = IF r = 0 THEN t.remote_idle_timeout ELSE r
      /\ u.last_in = n /\ u.unseen_input = TRUE /\ u.close_sent = t.close_sent
      /\ u.posted_idle_timeout = t.posted_idle_timeout
  BY Zenon DEF read_done, TrType
<1>2. t.keepalive_deadline \in Nat /\ t.dead_remote_deadline \in Nat
  BY TrNumbers
<1>3. u.remote_idle_timeout \div 2 \in Nat
  BY <1>1, TrNumbers
<1> HIDE DEF u
<1>4. TickRight(u, n)
  BY <1>1, <1>2, <1>3 DEF TickRight
<1>5. next_tick(u) = next_tick(t)
  BY <1>1, <1>2 DEF next_tick, pn_timestamp_min, TickRight
<1> QED
  BY <1>1, <1>4, <1>5 DEF u

\* write_done: output changes no deadline.
LEMMA WriteDoneIs ==
  ASSUME NEW t \in TrType, NEW n \in Nat, TickRight(t, n)
  PROVE  LET u == write_done(t, n)
         IN  /\ u \in TrType /\ TickRight(u, n)
             /\ u.dead_remote_deadline = t.dead_remote_deadline
             /\ u.keepalive_deadline = t.keepalive_deadline
             /\ next_tick(u) = next_tick(t)
             /\ u.posted_idle_timeout = t.posted_idle_timeout
<1> DEFINE u == write_done(t, n)
           o == IF t.unseen_output + t.output_buffer > 1 THEN 1
                ELSE t.unseen_output + t.output_buffer
<1>1. CASE t.output_buffer = 0
  BY <1>1 DEF write_done
<1>2. CASE t.output_buffer # 0
  <2>1. o \in {-1, 0, 1}
    BY <1>2 DEF TrType
  <2>2. u = [t EXCEPT !.unseen_output = o, !.output_buffer = 0, !.last_out = n]
    BY <1>2 DEF write_done
  <2> HIDE DEF o
  <2>3. /\ u \in TrType
        /\ u.dead_remote_deadline = t.dead_remote_deadline
        /\ u.keepalive_deadline = t.keepalive_deadline
        /\ u.local_idle_timeout = t.local_idle_timeout
        /\ u.remote_idle_timeout = t.remote_idle_timeout
        /\ u.last_in = t.last_in /\ u.unseen_input = t.unseen_input
        /\ u.close_sent = t.close_sent /\ u.posted_idle_timeout = t.posted_idle_timeout
    BY <2>1, <2>2, Zenon DEF TrType
  <2> HIDE DEF u
  <2> QED
    BY <2>3 DEF TickRight, next_tick, u
<1> QED
  BY <1>1, <1>2

\* schedule_p and schedule_if_inactive keep the type of the proactor task.
LEMMA InactiveIs ==
  ASSUME NEW a \in PType
  PROVE  schedule_p(a) \in PType /\ schedule_if_inactive(a) \in PType
  BY ZenonT(40) DEF PType, schedule_p, schedule_if_inactive

\* The part of one timer_deadline_t in MemoryInv.
MemoryAt(d) ==
  /\ d \in m.heap => d \in m.live
  /\ d \in m.live =>
       /\ m.parent[d] => pc[d[1]].at # "freed" /\ timer[d[1]].td = d[2]
       /\ m.parent[d] \/ d \in m.heap \/ (mgr.at = "orphan" /\ d = mgr.d)
  /\ mgr.at = "orphan" /\ d = mgr.d => d \in m.live \ m.heap /\ ~m.parent[d]

\* The part of the manager's thread in MemoryInv.
ManagerAt ==
  /\ mgr.at = "timeout" => mgr.c \in Conns /\ pc[mgr.c].at # "freed"
  /\ mgr.at = "orphan" => mgr.d \in TDs

\* MemoryInv, one timer_deadline_t and one connection at a time.
LEMMA MemoryIs ==
  ASSUME Types
  PROVE  MemoryInv <=> /\ \A d \in TDs : MemoryAt(d)
                       /\ ManagerAt
                       /\ \A c \in Conns : Owned(c)
<1>1. m.heap \subseteq TDs /\ m.live \subseteq TDs
  BY DEF Types, MType
<1> QED
  BY <1>1 DEF MemoryInv, MemoryAt, ManagerAt

\* The same after a step.
LEMMA MemoryIsNext ==
  ASSUME Types'
  PROVE  MemoryInv' <=> /\ \A d \in TDs : MemoryAt(d)'
                        /\ ManagerAt'
                        /\ \A c \in Conns : Owned(c)'
<1>1. m'.heap \subseteq TDs /\ m'.live \subseteq TDs
  BY DEF Types, MType
<1> QED
  BY <1>1 DEF MemoryInv, MemoryAt, ManagerAt

\* A step of the thread of c that also changes its timer and the timer_deadline_ts
\* of c keeps the invariant if it keeps the parts of c and of the manager.
LEMMA TimerFrame ==
  ASSUME IInv, Types', NEW c \in Conns, UNCHANGED <<now, mgr>>,
         \A e \in Conns \ {c} : pc'[e] = pc[e] /\ tr'[e] = tr[e] /\ timer'[e] = timer[e],
         m'.working = m.working, HeapRight(m'), TimerfdRight(m', mgr.timeout), ArmedFor(m'),
         \A d \in TDs : d[1] # c =>
           /\ m'.list_deadline[d] = m.list_deadline[d] /\ m'.parent[d] = m.parent[d]
           /\ d \in m'.live <=> d \in m.live,
         MemoryAt(<<c, 0>>)', MemoryAt(<<c, 1>>)', Owned(c)', ConnRight(c)',
         mgr.at = "timeout" /\ mgr.c = c => pc'[c].at # "freed"
  PROVE  IInv'
<1>1. ManagerInv'
  BY DEF IInv, ManagerInv
<1>2. \A d \in TDs : d[1] \in Conns /\ (d[1] = c => d = <<c, 0>> \/ d = <<c, 1>>)
  BY DEF TDs
<1>3. \A d \in TDs : d[1] # c => (d \in m'.heap <=> d \in m.heap)
  BY DEF HeapRight, IInv, ManagerInv
<1>4. (\A d \in TDs : MemoryAt(d)) /\ ManagerAt /\ (\A e \in Conns : Owned(e))
  BY MemoryIs, Zenon DEF IInv
<1>5. \A d \in TDs : MemoryAt(d)'
  <2> SUFFICES ASSUME NEW d \in TDs, d[1] # c PROVE MemoryAt(d)'
    BY <1>2
  <2>1. pc'[d[1]] = pc[d[1]] /\ timer'[d[1]] = timer[d[1]]
    BY <1>2
  <2> QED
    BY <2>1, <1>3, <1>4, ZenonT(40) DEF MemoryAt
<1>6. ManagerAt'
  BY <1>4 DEF ManagerAt
<1>7. \A e \in Conns \ {c} : Owned(e)' /\ ConnRight(e)'
  <2> TAKE e \in Conns \ {c}
  <2>1. /\ td(e)' = td(e) /\ td(e) \in TDs /\ td(e)[1] # c
        /\ <<e, 0>> \in TDs /\ <<e, 1>> \in TDs /\ <<e, 0>>[1] # c /\ <<e, 1>>[1] # c
    BY TdIs, Zenon DEF IInv, td
  <2>2. Owned(e)'
    BY <1>4, <2>1, SMTT(30) DEF Owned
  <2>3. ConnRight(e)'
    BY <2>1 DEF IInv, SequenceInv, ConnRight
  <2> QED
    BY <2>2, <2>3
<1>8. MemoryInv'
  BY <1>5, <1>6, <1>7, MemoryIsNext
<1> QED
  BY <1>1, <1>7, <1>8 DEF IInv, SequenceInv

\* What pni_timer_set makes of the deadlines: the same deadline again; one that goes
\* backwards, which is the first time; any other; and the replacement.
LEMMA OrderedSet ==
  ASSUME NEW t \in TrType, NEW e \in Nat, NEW l \in Nat, NEW k \in {0, 1},
         next_tick(t) # 0
  PROVE  /\ Ordered(t, next_tick(t), l, k, "set") => Ordered(t, next_tick(t), l, k, "work")
         /\ Ordered(t, e, l, k, "set") /\ l # 0 /\ next_tick(t) < l =>
              k = 0 /\ Ordered(t, e, l, k, "replace")
         /\ Ordered(t, e, l, k, "set") /\ (l = 0 \/ next_tick(t) >= l) =>
              Ordered(t, next_tick(t), IF l = 0 THEN next_tick(t) ELSE l, k, "work")
         /\ Ordered(t, e, l, k, "replace") =>
              Ordered(t, next_tick(t), next_tick(t), 1, "work")
<1>1. next_tick(t) \in Nat /\ t.dead_remote_deadline \in Nat /\ t.keepalive_deadline \in Nat
  BY TrNumbers
<1>2. t.dead_remote_deadline # 0 \/ t.keepalive_deadline # 0
  BY <1>1 DEF next_tick, pn_timestamp_min
<1>3. Ordered(t, next_tick(t), l, k, "set") => Ordered(t, next_tick(t), l, k, "work")
  BY <1>1, <1>2 DEF Ordered
<1>4. Ordered(t, e, l, k, "set") /\ l # 0 /\ next_tick(t) < l =>
        k = 0 /\ Ordered(t, e, l, k, "replace")
  BY <1>1, <1>2 DEF Ordered
<1>5. Ordered(t, e, l, k, "set") /\ (l = 0 \/ next_tick(t) >= l) =>
        Ordered(t, next_tick(t), IF l = 0 THEN next_tick(t) ELSE l, k, "work")
  BY <1>1, <1>2 DEF Ordered
<1>6. Ordered(t, e, l, k, "replace") => Ordered(t, next_tick(t), next_tick(t), 1, "work")
  BY <1>1, <1>2 DEF Ordered
<1> QED
  BY <1>3, <1>4, <1>5, <1>6

\* A timer that is called off, or off the heap, or put back on it with its own
\* deadline, is still Ordered.
LEMMA OrderedLess ==
  ASSUME NEW t \in TrType, NEW e \in Nat, NEW l \in Nat, NEW k, NEW at,
         Ordered(t, e, l, k, at)
  PROVE  /\ Ordered(t, 0, 0, k, at) /\ Ordered(t, e, 0, k, at) /\ Ordered(t, 0, l, k, at)
         /\ Ordered(t, e, e, k, at)
<1>1. next_tick(t) \in Nat
  BY TrNumbers
<1> QED
  BY <1>1 DEF Ordered

\* The thread of c moves to s, with n to be set.
Moved(f, c, n, s) == [f EXCEPT ![c].next = n, ![c].at = s]

\* What Moved changes.
LEMMA MovedIs ==
  ASSUME NEW f \in [Conns -> PcType], NEW c \in Conns, NEW n \in Nat,
         NEW s \in {"work", "replace"}
  PROVE  LET g == Moved(f, c, n, s)
         IN  /\ g \in [Conns -> PcType] /\ g[c].at = s /\ g[c].next = n
             /\ \A e \in Conns \ {c} : g[e] = f[e]
<1> DEFINE g == Moved(f, c, n, s)
           h == [[f[c] EXCEPT !.next = n] EXCEPT !.at = s]
<1>1. f[c] \in PcType
  OBVIOUS
<1>2. h \in PcType /\ h.at = s /\ h.next = n
  BY <1>1, Zenon DEF PcType
<1>3. g = [f EXCEPT ![c] = h]
  BY <1>1, Zenon DEF PcType, Moved
<1> HIDE DEF h, g
<1>4. g \in [Conns -> PcType] /\ g[c] = h /\ \A e \in Conns \ {c} : g[e] = f[e]
  BY <1>2, <1>3
<1> QED
  BY <1>2, <1>4 DEF g

\* A step that changes neither a timer nor the heap, and does not move a thread of
\* a connection, keeps the invariant if it keeps that of the manager.
LEMMA ManagerFrame ==
  ASSUME IInv, Types', UNCHANGED <<now, tr, timer>>,
         \A c \in Conns : pc'[c].at = pc[c].at /\ pc'[c].next = pc[c].next,
         ManagerInv', SameMemory(m, m'),
         m'.heap = m.heap, m'.list_deadline = m.list_deadline,
         mgr' = mgr \/ {mgr.at, mgr'.at} \cap {"orphan"} = {},
         mgr' = mgr \/ mgr'.at # "timeout"
  PROVE  IInv'
<1>1. (\A d \in TDs : MemoryAt(d)) /\ ManagerAt /\ (\A e \in Conns : Owned(e))
  BY MemoryIs DEF IInv
<1>2. \A c \in Conns : td(c)' = td(c)
  BY DEF td
<1>3. m'.live = m.live /\ m'.parent = m.parent
  BY DEF SameMemory
<1>4. \A d \in TDs : MemoryAt(d)'
  <2> TAKE d \in TDs
  <2>1. d[1] \in Conns
    BY DEF TDs
  <2>2. CASE mgr' = mgr
    BY <1>1, <1>3, <2>1, <2>2 DEF MemoryAt
  <2>3. CASE mgr.at # "orphan" /\ mgr'.at # "orphan"
    BY <1>1, <1>3, <2>1, <2>3, Zenon DEF MemoryAt
  <2> QED
    BY <2>2, <2>3, Zenon
<1>5. ManagerAt'
  BY <1>1, Zenon DEF ManagerAt
<1>6. \A c \in Conns : Owned(c)' /\ ConnRight(c)'
  BY <1>1, <1>2, <1>3, ZenonT(40) DEF Owned, ConnRight, IInv, SequenceInv
<1>7. MemoryInv'
  BY <1>4, <1>5, <1>6, MemoryIsNext
<1> QED
  BY <1>6, <1>7 DEF IInv, SequenceInv

\* A step of the proactor task alone keeps the invariant.
LEMMA ProactorFrame ==
  ASSUME IInv, p' \in PType, UNCHANGED <<now, tr, pc, timer, m, mgr>>
  PROVE  IInv'
<1>1. Types' /\ ManagerInv' /\ SameMemory(m, m')
  BY DEF IInv, Types, ManagerInv, SameMemory
<1> QED
  BY <1>1, ManagerFrame

\* So does proactor_update_batch.
LEMMA UpdateBatchIs ==
  ASSUME NEW a \in PType
  PROVE  proactor_update_batch(a) \in PType
<1>1. CASE a.event # NULL
  BY <1>1 DEF proactor_update_batch
<1>2. CASE a.event = NULL /\ a.need_timeout
  <2>1. proactor_update_batch(a)
          = [[[a EXCEPT !.need_timeout = FALSE] EXCEPT !.timeout_set = FALSE]
               EXCEPT !.event = "TIMEOUT"]
    BY <1>2 DEF proactor_update_batch
  <2> QED
    BY <2>1, Zenon DEF PType
<1>3. CASE a.event = NULL /\ ~a.need_timeout
  BY <1>3, ZenonT(40) DEF proactor_update_batch, PType
<1> QED
  BY <1>1, <1>2, <1>3
=============================================================================

------------------------- MODULE EpollTimers_proof --------------------------
(***************************************************************************)
(* Theorems about EpollTimers, for any connections and any idle timeouts:  *)
(* the memory safety of the timers, with the sequencing error that ends the*)
(* process, that the timerfd is armed for the earliest deadline, that only *)
(* a silent peer is given up, and that the idle timeouts are kept.         *)
(*                                                                         *)
(* Each action has one lemma, which says that it keeps the IInv of         *)
(* EpollTimers_lemmas; the idle timeouts have an invariant of their own,   *)
(* IdleInv, in the second part.                                            *)
(***************************************************************************)
EXTENDS EpollTimers_lemmas, TLAPS

\* pconnection_process keeps the invariant and gives nobody up.
LEMMA ProcessIInv ==
  ASSUME IInv, NEW c \in Conns, NEW sched \in BOOLEAN, NEW input \in BOOLEAN,
         NEW r \in RemoteIdle \cup {0}, pconnection_process(c, sched, input, r)
  PROVE  IInv' /\ tr'[c].posted_idle_timeout = tr[c].posted_idle_timeout
<1> DEFINE b == IF input THEN read_done(tr[c], r, now) ELSE tr[c]
           a == [pc[c] EXCEPT !.working = TRUE, !.tick_pending = FALSE,
                              !.ready = @ /\ ~sched]
           at == IF a.closing /\ pconnection_is_final(a) THEN "cleanup"
                 ELSE IF (input \/ pc[c].tick_pending)
                         /\ (b.local_idle_timeout # 0 \/ b.remote_idle_timeout # 0)
                 THEN "tick" ELSE "work"
<1>1. /\ pc[c].at = "idle" /\ tr' = [tr EXCEPT ![c] = b]
      /\ pc' = [pc EXCEPT ![c] = [a EXCEPT !.at = at]]
      /\ r # 0 => input /\ tr[c].remote_idle_timeout = 0
      /\ UNCHANGED <<now, timer, m, mgr, p>>
  BY DEF pconnection_process
<1>2. tr[c] \in TrType /\ pc[c] \in PcType /\ now \in Nat /\ TickRight(tr[c], now)
  BY TdIs DEF IInv, Types, SequenceInv, ConnRight
<1>3. /\ b \in TrType /\ TickRight(b, now)
      /\ b.dead_remote_deadline = tr[c].dead_remote_deadline
      /\ b.keepalive_deadline = tr[c].keepalive_deadline
      /\ next_tick(b) = next_tick(tr[c])
      /\ b.posted_idle_timeout = tr[c].posted_idle_timeout
  BY <1>1, <1>2, ReadDoneIs
<1> HIDE DEF b
<1>4. a \in PcType
  BY <1>2, Zenon DEF PcType
<1>5. at \in {"cleanup", "tick", "work"}
  OBVIOUS
<1> HIDE DEF a, at
<1>6. [a EXCEPT !.at = at] \in PcType /\ [a EXCEPT !.at = at].at = at
  BY <1>4, <1>5 DEF PcType
<1>7. /\ Types' /\ pc'[c].at = at /\ tr'[c] = b
      /\ \A e \in Conns \ {c} : pc'[e] = pc[e] /\ tr'[e] = tr[e]
  BY <1>1, <1>3, <1>6 DEF IInv, Types
<1>8. Ordered(tr[c], timer[c].deadline, m.list_deadline[td(c)], timer[c].td, "idle")
  BY <1>1 DEF IInv, SequenceInv, ConnRight
<1>9. Ordered(b, timer[c].deadline, m.list_deadline[td(c)], timer[c].td, at)
  BY <1>3, <1>5, <1>8, OrderedMove, OrderedSame
<1>10. ConnRight(c)'
  BY <1>1, <1>3, <1>5, <1>7, <1>9 DEF ConnRight, td
<1> QED
  BY <1>1, <1>3, <1>5, <1>7, <1>10, ConnFrame

\* pconnection_tick keeps the invariant, and gives up only a silent peer.
LEMMA TickIInv ==
  ASSUME IInv, NEW c \in Conns, pconnection_tick(c)
  PROVE  /\ IInv'
         /\ tr'[c].posted_idle_timeout /\ ~tr[c].posted_idle_timeout =>
              now - tr[c].last_in >= tr[c].local_idle_timeout
<1> DEFINE u == pn_tick_amqp(tr[c], now)
           at == IF next_tick(u) = 0 THEN "work" ELSE "expect"
<1>1. /\ pc[c].at = "tick" /\ tr' = [tr EXCEPT ![c] = u]
      /\ pc' = [pc EXCEPT ![c].next = next_tick(u), ![c].at = at]
      /\ UNCHANGED <<now, timer, m, mgr, p>>
  BY DEF pconnection_tick
<1>2. /\ tr[c] \in TrType /\ pc[c] \in PcType /\ now \in Nat \ {0}
      /\ TickRight(tr[c], now)
  <2>1. tr[c] \in TrType /\ pc[c] \in PcType
    BY TdIs, Zenon DEF IInv
  <2>2. now \in Nat \ {0}
    BY DEF IInv, Types, SequenceInv
  <2>3. TickRight(tr[c], now)
    BY Zenon DEF IInv, SequenceInv, ConnRight
  <2> QED
    BY <2>1, <2>2, <2>3, Zenon
<1>3. /\ u \in TrType
      /\ u.local_idle_timeout = tr[c].local_idle_timeout
      /\ u.remote_idle_timeout = tr[c].remote_idle_timeout
      /\ u.close_sent = tr[c].close_sent
      /\ u.dead_remote_deadline >= tr[c].dead_remote_deadline
      /\ u.keepalive_deadline >= tr[c].keepalive_deadline
      /\ TickRight(u, now)
      /\ u.posted_idle_timeout /\ ~tr[c].posted_idle_timeout =>
           now - tr[c].last_in >= tr[c].local_idle_timeout
  BY <1>2, TickIs
<1>4. next_tick(u) \in Nat
  BY <1>3, TrNumbers
<1> HIDE DEF u
<1>5. /\ timer[c].deadline \in Nat /\ m.list_deadline[td(c)] \in Nat
      /\ timer[c].td \in {0, 1}
  BY TdIs, Zenon DEF IInv
<1>6. Ordered(tr[c], timer[c].deadline, m.list_deadline[td(c)], timer[c].td, "tick")
  BY <1>1 DEF IInv, SequenceInv, ConnRight
<1>7. Ordered(u, timer[c].deadline, m.list_deadline[td(c)], timer[c].td, at)
  BY <1>2, <1>3, <1>5, <1>6, OrderedTick
<1>8. at \in {"work", "expect"} /\ (at = "expect" => next_tick(u) # 0)
  OBVIOUS
<1> HIDE DEF at
<1>9. /\ Types' /\ pc'[c].at = at /\ pc'[c].next = next_tick(u) /\ tr'[c] = u
      /\ \A e \in Conns \ {c} : pc'[e] = pc[e] /\ tr'[e] = tr[e]
  BY <1>1, <1>3, <1>4, <1>8 DEF IInv, Types, PcType
<1>10. ConnRight(c)'
  BY <1>1, <1>3, <1>7, <1>8, <1>9 DEF ConnRight, td
<1> QED
  BY <1>1, <1>3, <1>8, <1>9, <1>10, ConnFrame, Zenon

\* The end of pconnection_tick keeps the invariant.
LEMMA ExpectIInv ==
  ASSUME IInv, NEW c \in Conns, expect_timeout(c)
  PROVE  IInv'
<1>1. /\ pc[c].at = "expect"
      /\ pc' = [pc EXCEPT ![c].expected_timeout = pc[c].next, ![c].at = "set"]
      /\ UNCHANGED <<now, tr, timer, m, mgr, p>>
  BY DEF expect_timeout
<1>2. /\ Types' /\ pc'[c].at = "set" /\ pc'[c].next = pc[c].next
      /\ \A e \in Conns \ {c} : pc'[e] = pc[e] /\ tr'[e] = tr[e]
  BY <1>1, SMTT(40) DEF IInv, Types, PcType
<1>3. ConnRight(c)'
  BY <1>1, <1>2 DEF IInv, SequenceInv, ConnRight, Ordered, td
<1> QED
  BY <1>1, <1>2, <1>3, ConnFrame, Zenon

\* Output keeps the invariant: closing only takes the keepalive out of next_tick.
LEMMA OutputIInv ==
  ASSUME IInv, NEW c \in Conns, NEW close \in BOOLEAN, Output(c, close)
  PROVE  IInv' /\ tr'[c].posted_idle_timeout = tr[c].posted_idle_timeout
<1> DEFINE t == tr[c]
           o == IF t.output_buffer < 2 THEN t.output_buffer + 1 ELSE t.output_buffer
<1>1. /\ pc[c].at = "work"
      /\ tr' = [tr EXCEPT ![c].output_buffer = o, ![c].close_sent = t.close_sent \/ close]
      /\ UNCHANGED <<now, pc, timer, m, mgr, p>>
  BY DEF Output
<1>2. t \in TrType /\ TickRight(t, now)
  BY TdIs, Zenon DEF IInv, SequenceInv, ConnRight
<1>3. o \in {0, 1, 2} /\ t.close_sent \in BOOLEAN
  BY <1>2 DEF TrType
<1> HIDE DEF o
<1>4. /\ Types'
      /\ \A e \in Conns \ {c} : pc'[e] = pc[e] /\ tr'[e] = tr[e]
      /\ tr'[c].dead_remote_deadline = t.dead_remote_deadline
      /\ tr'[c].keepalive_deadline = t.keepalive_deadline
      /\ tr'[c].local_idle_timeout = t.local_idle_timeout
      /\ tr'[c].remote_idle_timeout = t.remote_idle_timeout
      /\ tr'[c].last_in = t.last_in /\ tr'[c].unseen_input = t.unseen_input
      /\ t.close_sent => tr'[c].close_sent
      /\ tr'[c].posted_idle_timeout = t.posted_idle_timeout
  BY <1>1, <1>2, <1>3, ZenonT(40) DEF IInv, Types, TrType
<1>5. TickRight(tr'[c], now)
  BY <1>2, <1>4 DEF TickRight
<1>6. tr'[c] \in TrType
  BY <1>4 DEF Types
<1>7. next_tick(tr'[c]) = 0 \/ (next_tick(t) # 0 /\ next_tick(t) <= next_tick(tr'[c]))
  BY <1>2, <1>4, <1>6, TrNumbers DEF next_tick, pn_timestamp_min, TickRight
<1>8. Ordered(t, timer[c].deadline, m.list_deadline[td(c)], timer[c].td, "work")
  BY <1>1 DEF IInv, SequenceInv, ConnRight
<1>9. Ordered(tr'[c], timer[c].deadline, m.list_deadline[td(c)], timer[c].td, "work")
  <2>1. /\ timer[c].deadline \in Nat /\ m.list_deadline[td(c)] \in Nat
        /\ next_tick(t) \in Nat /\ next_tick(tr'[c]) \in Nat
    BY <1>2, <1>6, TdIs, TrNumbers, Zenon DEF IInv
  <2> QED
    BY <1>4, <1>7, <1>8, <2>1 DEF Ordered
<1>10. ConnRight(c)'
  BY <1>1, <1>5, <1>9 DEF ConnRight, td
<1> QED
  BY <1>1, <1>4, <1>10, ConnFrame, Zenon

\* pconnection_done keeps the invariant.
LEMMA DoneIInv ==
  ASSUME IInv, NEW c \in Conns, NEW finished \in BOOLEAN, pconnection_done(c, finished)
  PROVE  IInv' /\ tr'[c].posted_idle_timeout = tr[c].posted_idle_timeout
<1> DEFINE u == write_done(tr[c], now)
           a == [pc[c] EXCEPT !.working = FALSE]
           b == [a EXCEPT !.closing = TRUE, !.tick_pending = FALSE]
           x == IF a.tick_pending THEN [a EXCEPT !.at = "idle", !.ready = TRUE]
                ELSE IF finished \/ a.closing
                THEN [b EXCEPT !.at = IF pconnection_is_final(b) THEN "cleanup" ELSE "idle"]
                ELSE [a EXCEPT !.at = "idle"]
<1>1. /\ pc[c].at = "work" /\ tr' = [tr EXCEPT ![c] = u] /\ pc' = [pc EXCEPT ![c] = x]
      /\ UNCHANGED <<now, timer, m, mgr, p>>
  BY DEF pconnection_done
<1>2. tr[c] \in TrType /\ pc[c] \in PcType /\ now \in Nat /\ TickRight(tr[c], now)
  BY TdIs DEF IInv, Types, SequenceInv, ConnRight
<1>3. /\ u \in TrType /\ TickRight(u, now)
      /\ u.dead_remote_deadline = tr[c].dead_remote_deadline
      /\ u.keepalive_deadline = tr[c].keepalive_deadline
      /\ next_tick(u) = next_tick(tr[c])
      /\ u.posted_idle_timeout = tr[c].posted_idle_timeout
  BY <1>2, WriteDoneIs
<1>4. x \in PcType /\ x.at \in {"cleanup", "idle"}
  <2>1. a \in PcType /\ b \in PcType
    BY <1>2, Zenon DEF PcType
  <2> HIDE DEF a, b
  <2> QED
    BY <2>1, Zenon DEF PcType
<1> HIDE DEF u, x
<1>5. /\ Types' /\ pc'[c] = x /\ tr'[c] = u
      /\ \A e \in Conns \ {c} : pc'[e] = pc[e] /\ tr'[e] = tr[e]
  BY <1>1, <1>3, <1>4 DEF IInv, Types
<1>6. Ordered(tr[c], timer[c].deadline, m.list_deadline[td(c)], timer[c].td, "work")
  BY <1>1 DEF IInv, SequenceInv, ConnRight
<1>7. Ordered(u, timer[c].deadline, m.list_deadline[td(c)], timer[c].td, x.at)
  BY <1>3, <1>4, <1>6, OrderedMove, OrderedSame
<1>8. ConnRight(c)'
  BY <1>1, <1>3, <1>4, <1>5, <1>7 DEF ConnRight, td
<1> QED
  BY <1>1, <1>3, <1>4, <1>5, <1>8, ConnFrame

\* pconnection_cleanup keeps the invariant.
LEMMA CleanupIInv ==
  ASSUME IInv, NEW c \in Conns, pconnection_cleanup(c)
  PROVE  IInv'
<1>1. /\ pc[c].at = "cleanup" /\ pc' = [pc EXCEPT ![c].at = "free"]
      /\ p' = schedule_if_inactive([p EXCEPT !.tasks = @ \ {c}])
      /\ UNCHANGED <<now, tr, timer, m, mgr>>
  BY DEF pconnection_cleanup
<1>2. p' \in PType
  <2>1. [p EXCEPT !.tasks = @ \ {c}] \in PType
    BY DEF IInv, Types, PType
  <2> QED
    BY <1>1, <2>1, InactiveIs
<1>3. /\ Types' /\ pc'[c].at = "free"
      /\ \A e \in Conns \ {c} : pc'[e] = pc[e] /\ tr'[e] = tr[e]
  BY <1>1, <1>2, SMTT(40) DEF IInv, Types, PcType
<1>4. ConnRight(c)'
  <2>1. Ordered(tr[c], timer[c].deadline, m.list_deadline[td(c)], timer[c].td, "free")
    BY <1>1, OrderedMove DEF IInv, SequenceInv, ConnRight
  <2> QED
    BY <1>1, <1>3, <2>1 DEF IInv, SequenceInv, ConnRight, td
<1> QED
  BY <1>1, <1>3, <1>4, ConnFrame

\* The first step of pni_timer_free keeps the invariant.
LEMMA CancelIInv ==
  ASSUME IInv, NEW c \in Conns, pni_timer_cancel(c)
  PROVE  IInv'
<1>1. /\ pc[c].at = "free" /\ timer' = [timer EXCEPT ![c].deadline = 0]
      /\ pc' = [pc EXCEPT ![c].at = "free_td"]
      /\ UNCHANGED <<now, tr, m, mgr, p>>
  BY DEF pni_timer_cancel
<1>2. /\ Types' /\ pc'[c].at = "free_td"
      /\ timer'[c].deadline = 0 /\ timer'[c].td = timer[c].td
      /\ \A e \in Conns \ {c} : pc'[e] = pc[e] /\ tr'[e] = tr[e] /\ timer'[e] = timer[e]
  <2>1. timer \in [Conns -> [deadline : Nat, td : {0, 1}]] /\ pc \in [Conns -> PcType]
    BY DEF IInv, Types
  <2>2. /\ [timer[c] EXCEPT !.deadline = 0] \in [deadline : Nat, td : {0, 1}]
        /\ [timer[c] EXCEPT !.deadline = 0].deadline = 0
        /\ [timer[c] EXCEPT !.deadline = 0].td = timer[c].td
    BY <2>1
  <2>3. /\ timer' \in [Conns -> [deadline : Nat, td : {0, 1}]]
        /\ timer'[c] = [timer[c] EXCEPT !.deadline = 0]
        /\ \A e \in Conns \ {c} : timer'[e] = timer[e]
    BY <1>1, <2>1, <2>2
  <2>4. /\ pc' \in [Conns -> PcType] /\ pc'[c].at = "free_td"
        /\ \A e \in Conns \ {c} : pc'[e] = pc[e]
    BY <1>1, <2>1, SMTT(40) DEF PcType
  <2>5. Types'
    BY <1>1, <2>3, <2>4 DEF IInv, Types
  <2> QED
    BY <1>1, <2>2, <2>3, <2>4, <2>5
<1>3. /\ (\A d \in TDs : MemoryAt(d)) /\ ManagerAt /\ Owned(c)
      /\ <<c, 0>> \in TDs /\ <<c, 1>> \in TDs
  BY MemoryIs, TdIs DEF IInv
<1>4. td(c)' = td(c)
  BY <1>2 DEF td
<1>5. MemoryAt(<<c, 0>>)' /\ MemoryAt(<<c, 1>>)'
  BY <1>1, <1>2, <1>3 DEF MemoryAt
<1>6. Owned(c)'
  BY <1>1, <1>2, <1>3, <1>4 DEF Owned
<1>7. ConnRight(c)'
  <2>1. /\ TickRight(tr[c], now)
        /\ Ordered(tr[c], timer[c].deadline, m.list_deadline[td(c)], timer[c].td, "free")
    BY <1>1 DEF IInv, SequenceInv, ConnRight
  <2>2. Ordered(tr[c], 0, m.list_deadline[td(c)], timer[c].td, "free")
    BY <2>1, OrderedLess, TdIs, Zenon DEF IInv
  <2>3. Ordered(tr[c], 0, m.list_deadline[td(c)], timer[c].td, "free_td")
    BY <2>2, OrderedMove
  <2> QED
    BY <1>1, <1>2, <1>4, <2>1, <2>3 DEF ConnRight
<1>8. HeapRight(m') /\ TimerfdRight(m', mgr.timeout) /\ ArmedFor(m')
  BY <1>1 DEF IInv, ManagerInv
<1> QED
  BY <1>1, <1>2, <1>5, <1>6, <1>7, <1>8, TimerFrame

\* The second: the timer_deadline_t is freed, or left as an orphan on the heap, and
\* because of the deletion_mutex not while the timeout is called.
LEMMA FreeIInv ==
  ASSUME IInv, NEW c \in Conns, pni_timer_free(c)
  PROVE  IInv'
<1> DEFINE d == td(c)
<1>1. /\ pc[c].at = "free_td" /\ mgr.at # "timeout"
      /\ m' = IF m.list_deadline[d] # 0 THEN [m EXCEPT !.parent[d] = FALSE]
              ELSE [m EXCEPT !.live = @ \ {d}]
      /\ pc' = [pc EXCEPT ![c].at = "freed"]
      /\ UNCHANGED <<now, tr, timer, mgr, p>>
  BY DEF pni_timer_free, DeletionLockFree
<1>2. /\ d \in TDs /\ d[1] = c /\ d[2] = timer[c].td /\ timer[c].td \in {0, 1}
      /\ <<c, 0>> \in TDs /\ <<c, 1>> \in TDs
      /\ d = IF timer[c].td = 0 THEN <<c, 0>> ELSE <<c, 1>>
  BY TdIs DEF IInv, td
<1>3. (\A x \in TDs : MemoryAt(x)) /\ ManagerAt /\ Owned(c)
  BY MemoryIs DEF IInv
<1>4. d \in m.live /\ m.parent[d]
  BY <1>1, <1>3 DEF Owned
<1>5. td(c)' = d
  BY <1>1 DEF td
<1>6. m \in MType /\ HeapRight(m) /\ TimerfdRight(m, mgr.timeout) /\ ArmedFor(m)
  BY DEF IInv, Types, ManagerInv
<1> HIDE DEF d
<1>7. /\ m' \in MType /\ m'.working = m.working /\ HeapRight(m')
      /\ TimerfdRight(m', mgr.timeout) /\ ArmedFor(m')
      /\ m'.heap = m.heap /\ m'.list_deadline = m.list_deadline
      /\ m'.live \subseteq m.live
      /\ \A x \in TDs \ {d} : m'.parent[x] = m.parent[x] /\ (x \in m'.live <=> x \in m.live)
      /\ d \in m'.live => d \in m'.heap /\ ~m'.parent[d]
      /\ d \in m'.heap => d \in m'.live
  <2>1. CASE m.list_deadline[d] # 0
    <3>1. m' = [m EXCEPT !.parent[d] = FALSE]
      BY <1>1, <2>1
    <3>2. /\ m' \in MType
          /\ m'.working = m.working /\ m'.heap = m.heap
          /\ m'.list_deadline = m.list_deadline /\ m'.live = m.live
          /\ m'.proactor_deadline = m.proactor_deadline /\ m'.ready = m.ready
          /\ m'.sched_io = m.sched_io /\ m'.polling = m.polling /\ m'.timerfd = m.timerfd
          /\ m'.timerfd_deadline = m.timerfd_deadline
          /\ ~m'.parent[d] /\ \A x \in TDs \ {d} : m'.parent[x] = m.parent[x]
      BY <1>2, <1>6, <3>1, Zenon DEF MType
    <3>3. Deadlines(m') = Deadlines(m)
      BY <3>2 DEF Deadlines
    <3>4. HeapRight(m') /\ TimerfdRight(m', mgr.timeout) /\ ArmedFor(m')
      BY <1>6, <3>2, <3>3 DEF HeapRight, TimerfdRight, ArmedFor
    <3>5. d \in m.heap
      BY <1>2, <1>6, <2>1 DEF HeapRight
    <3> QED
      BY <1>4, <3>2, <3>4, <3>5
  <2>2. CASE m.list_deadline[d] = 0
    <3>1. m' = [m EXCEPT !.live = @ \ {d}]
      BY <1>1, <2>2
    <3>2. /\ m' \in MType
          /\ m'.working = m.working /\ m'.heap = m.heap
          /\ m'.list_deadline = m.list_deadline /\ m'.live = m.live \ {d}
          /\ m'.proactor_deadline = m.proactor_deadline /\ m'.ready = m.ready
          /\ m'.sched_io = m.sched_io /\ m'.polling = m.polling /\ m'.timerfd = m.timerfd
          /\ m'.timerfd_deadline = m.timerfd_deadline /\ m'.parent = m.parent
      BY <1>6, <3>1 DEF MType
    <3>3. Deadlines(m') = Deadlines(m)
      BY <3>2 DEF Deadlines
    <3>4. HeapRight(m') /\ TimerfdRight(m', mgr.timeout) /\ ArmedFor(m')
      BY <1>6, <3>2, <3>3 DEF HeapRight, TimerfdRight, ArmedFor
    <3>5. d \notin m.heap
      BY <1>2, <1>6, <2>2 DEF HeapRight
    <3> QED
      BY <3>2, <3>4, <3>5
  <2> QED
    BY <2>1, <2>2
<1>8. /\ Types' /\ pc'[c].at = "freed"
      /\ \A e \in Conns \ {c} : pc'[e] = pc[e] /\ tr'[e] = tr[e] /\ timer'[e] = timer[e]
  BY <1>1, <1>7, SMTT(40) DEF IInv, Types, PcType
<1>9. \A x \in TDs : x[1] = c => MemoryAt(x)'
  <2> SUFFICES ASSUME NEW x \in TDs, x[1] = c PROVE MemoryAt(x)'
    OBVIOUS
  <2>1. CASE x = d
    BY <1>1, <1>3, <1>4, <1>7, <2>1 DEF MemoryAt
  <2>2. CASE x # d
    <3>1. MemoryAt(x)
      BY <1>3
    <3>2. x \in m.live => ~m.parent[x]
      <4>1. x = <<x[1], x[2]>> /\ d = <<d[1], d[2]>>
        BY <1>2, SMTT(30) DEF TDs
      <4> QED
        BY <1>2, <2>2, <3>1, <4>1 DEF MemoryAt
    <3> QED
      BY <1>1, <1>7, <2>2, <3>1, <3>2 DEF MemoryAt
  <2> QED
    BY <2>1, <2>2
<1>10. Owned(c)'
  BY <1>1, <1>2, <1>3, <1>7, <1>8, Zenon DEF Owned
<1>11. ConnRight(c)'
  <2>1. /\ TickRight(tr[c], now)
        /\ Ordered(tr[c], timer[c].deadline, m.list_deadline[d], timer[c].td, "free_td")
    BY <1>1 DEF IInv, SequenceInv, ConnRight, d
  <2>2. Ordered(tr[c], timer[c].deadline, m.list_deadline[d], timer[c].td, "freed")
    BY <2>1, OrderedMove
  <2> QED
    BY <1>1, <1>5, <1>7, <1>8, <2>1, <2>2 DEF ConnRight
<1>12. MemoryAt(<<c, 0>>)' /\ MemoryAt(<<c, 1>>)'
  BY <1>2, <1>9
<1>13. \A x \in TDs : x[1] # c =>
           /\ m'.list_deadline[x] = m.list_deadline[x] /\ m'.parent[x] = m.parent[x]
           /\ x \in m'.live <=> x \in m.live
  BY <1>2, <1>7
<1> QED
  BY <1>1, <1>7, <1>8, <1>10, <1>11, <1>12, <1>13, TimerFrame, Zenon

\* pni_timer_set keeps the invariant; by Ordered the sequencing error is not
\* reached.
LEMMA SetIInv ==
  ASSUME IInv, NEW c \in Conns, pni_timer_set(c)
  PROVE  IInv'
<1> DEFINE d == td(c)
           x == pc[c].next
           l == m.list_deadline[d]
           e == timer[c].deadline
           k == timer[c].td
           again == x # 0 /\ l # 0 /\ x < l /\ x # e
<1>1. /\ pc[c].at = "set"
      /\ pc' = [pc EXCEPT ![c].next = IF again THEN @ ELSE 0,
                          ![c].at = IF ~again THEN "work"
                                    ELSE IF k = 0 THEN "replace" ELSE "fatal"]
      /\ IF x = e \/ (again /\ k = 1)
         THEN UNCHANGED <<timer, m>>
         ELSE IF again
         THEN /\ m' = [m EXCEPT !.parent[d] = FALSE]
              /\ UNCHANGED timer
         ELSE /\ timer' = [timer EXCEPT ![c].deadline = x]
              /\ m' = set_connection_timer(m, d, x, now)
      /\ UNCHANGED <<now, tr, mgr, p>>
  BY DEF pni_timer_set, Backwards
<1>2. /\ d \in TDs /\ d[1] = c /\ d[2] = k /\ k \in {0, 1} /\ l \in Nat /\ e \in Nat
      /\ tr[c] \in TrType /\ pc[c] \in PcType /\ d = <<c, k>>
      /\ <<c, 0>> \in TDs /\ <<c, 1>> \in TDs
  BY TdIs DEF IInv, td
<1>3. /\ x = next_tick(tr[c]) /\ x # 0 /\ TickRight(tr[c], now) /\ x \in Nat
      /\ Ordered(tr[c], e, l, k, "set")
  BY <1>1, <1>2, TrNumbers DEF IInv, SequenceInv, ConnRight
<1>4. /\ m \in MType /\ HeapRight(m) /\ TimerfdRight(m, mgr.timeout) /\ ArmedFor(m)
      /\ mgr.timeout \in BOOLEAN /\ (mgr.timeout => m.working)
      /\ now \in Nat /\ pc \in [Conns -> PcType]
      /\ timer \in [Conns -> [deadline : Nat, td : {0, 1}]]
  BY DEF IInv, Types, ManagerInv, MgrType
<1>5. (\A y \in TDs : MemoryAt(y)) /\ ManagerAt /\ Owned(c)
  BY MemoryIs DEF IInv
<1>6. d \in m.live /\ m.parent[d]
  BY <1>1, <1>5, Zenon DEF Owned
<1>7. CASE x = e
  <2>1. /\ pc' = Moved(pc, c, 0, "work")
        /\ UNCHANGED <<now, tr, timer, m, mgr, p>>
    BY <1>1, <1>7 DEF Moved
  <2>2. /\ Types' /\ pc'[c].at = "work"
        /\ \A y \in Conns \ {c} : pc'[y] = pc[y] /\ tr'[y] = tr[y]
    <3>1. /\ pc' \in [Conns -> PcType] /\ pc'[c].at = "work"
          /\ \A y \in Conns \ {c} : pc'[y] = pc[y]
      BY <1>4, <2>1, MovedIs
    <3> QED
      BY <2>1, <3>1 DEF IInv, Types
  <2>3. Ordered(tr[c], e, l, k, "work")
    BY <1>2, <1>3, <1>7, OrderedSet, ZenonT(40)
  <2>4. ConnRight(c)'
    BY <1>3, <2>1, <2>2, <2>3 DEF ConnRight, td
  <2> QED
    BY <1>1, <2>1, <2>2, <2>4, ConnFrame, ZenonT(40)
<1>8. CASE x # e /\ again
  <2>1. k = 0 /\ Ordered(tr[c], e, l, k, "replace")
    BY <1>2, <1>3, <1>8, OrderedSet, ZenonT(40)
  <2>2. /\ pc' = Moved(pc, c, x, "replace")
        /\ m' = [m EXCEPT !.parent[d] = FALSE]
        /\ UNCHANGED <<now, tr, timer, mgr, p>>
    <3>1. /\ m' = [m EXCEPT !.parent[d] = FALSE]
          /\ UNCHANGED <<now, tr, timer, mgr, p>>
      BY <1>1, <1>8, <2>1
    <3>2. pc' = [pc EXCEPT ![c].next = @, ![c].at = "replace"]
      BY <1>1, <1>8, <2>1, Zenon
    <3> QED
      BY <3>1, <3>2 DEF Moved
  <2> HIDE DEF d
  <2>3. /\ pc' \in [Conns -> PcType]
        /\ pc'[c].at = "replace" /\ pc'[c].next = pc[c].next
        /\ \A y \in Conns \ {c} : pc'[y] = pc[y] /\ tr'[y] = tr[y] /\ timer'[y] = timer[y]
    BY <1>3, <1>4, <2>2, MovedIs
  <2>4. /\ m' \in MType
        /\ m'.working = m.working /\ m'.heap = m.heap
        /\ m'.list_deadline = m.list_deadline /\ m'.live = m.live
        /\ m'.proactor_deadline = m.proactor_deadline /\ m'.ready = m.ready
        /\ m'.sched_io = m.sched_io /\ m'.polling = m.polling /\ m'.timerfd = m.timerfd
        /\ m'.timerfd_deadline = m.timerfd_deadline
        /\ ~m'.parent[d] /\ \A y \in TDs \ {d} : m'.parent[y] = m.parent[y]
    BY <1>2, <1>4, <2>2, Zenon DEF MType
  <2>5. Deadlines(m') = Deadlines(m)
    BY <2>4 DEF Deadlines
  <2>6. HeapRight(m') /\ TimerfdRight(m', mgr.timeout) /\ ArmedFor(m')
    BY <1>4, <2>4, <2>5 DEF HeapRight, TimerfdRight, ArmedFor
  <2>7. d \in m.heap
    BY <1>2, <1>4, <1>8 DEF HeapRight
  <2>8. Types'
    BY <2>2, <2>3, <2>4 DEF IInv, Types
  <2>9. td(c)' = d
    BY <2>2 DEF td, d
  <2>10. \A y \in TDs : y[1] = c => MemoryAt(y)'
    <3> SUFFICES ASSUME NEW y \in TDs, y[1] = c PROVE MemoryAt(y)'
      OBVIOUS
    <3>1. MemoryAt(y)
      BY <1>5
    <3>2. CASE y = d
      BY <1>6, <2>2, <2>4, <2>7, <3>1, <3>2 DEF MemoryAt
    <3>3. CASE y # d
      BY <2>2, <2>3, <2>4, <3>1, <3>3 DEF MemoryAt
    <3> QED
      BY <3>2, <3>3
  <2>11. Owned(c)'
    BY <1>2, <1>5, <2>1, <2>2, <2>3, <2>4, SMTT(30) DEF Owned
  <2>12. ConnRight(c)'
    BY <1>3, <2>1, <2>2, <2>3, <2>4, <2>9 DEF ConnRight
  <2>13. MemoryAt(<<c, 0>>)' /\ MemoryAt(<<c, 1>>)'
    BY <1>2, <2>10
  <2>14. \A y \in TDs : y[1] # c =>
           /\ m'.list_deadline[y] = m.list_deadline[y] /\ m'.parent[y] = m.parent[y]
           /\ y \in m'.live <=> y \in m.live
    BY <1>2, <2>4, Zenon
  <2> QED
    BY <2>2, <2>3, <2>4, <2>6, <2>8, <2>11, <2>12, <2>13, <2>14, TimerFrame, ZenonT(40)
<1>9. CASE x # e /\ ~again
  <2>1. /\ timer' = [timer EXCEPT ![c].deadline = x]
        /\ m' = set_connection_timer(m, d, x, now)
        /\ pc' = Moved(pc, c, 0, "work")
        /\ UNCHANGED <<now, tr, mgr, p>>
    BY <1>1, <1>9, Zenon DEF Moved
  <2>a. pc' = Moved(pc, c, 0, "work") /\ pc \in [Conns -> PcType]
    BY <1>4, <2>1
  <2>b. /\ m \in MType /\ HeapRight(m) /\ TimerfdRight(m, mgr.timeout) /\ ArmedFor(m)
        /\ mgr.timeout \in BOOLEAN /\ (mgr.timeout => m.working) /\ now \in Nat
        /\ d \in TDs /\ x \in Nat \ {0}
        /\ m' = set_connection_timer(m, d, x, now)
    BY <1>2, <1>3, <1>4, <2>1
  <2> HIDE DEF d
  <2>2. /\ m' \in MType /\ HeapRight(m') /\ TimerfdRight(m', mgr.timeout) /\ ArmedFor(m')
        /\ SameMemory(m, m') /\ SameMode(m, m')
        /\ m'.heap = m.heap \cup {d}
        /\ m'.list_deadline[d] = (IF l = 0 THEN x ELSE l)
        /\ \A y \in TDs \ {d} : m'.list_deadline[y] = m.list_deadline[y]
    <3> HIDE DEF x
    <3> QED
      BY <2>b, SetTimerIs
  <2>3. /\ pc' \in [Conns -> PcType] /\ pc'[c].at = "work"
        /\ \A y \in Conns \ {c} : pc'[y] = pc[y]
    BY <2>a, MovedIs
  <2>4. /\ timer' \in [Conns -> [deadline : Nat, td : {0, 1}]]
        /\ timer'[c].deadline = x /\ timer'[c].td = k
        /\ \A y \in Conns \ {c} : timer'[y] = timer[y]
    <3>1. /\ [timer[c] EXCEPT !.deadline = x] \in [deadline : Nat, td : {0, 1}]
          /\ [timer[c] EXCEPT !.deadline = x].deadline = x
          /\ [timer[c] EXCEPT !.deadline = x].td = timer[c].td
      BY <1>3, <1>4
    <3>2. /\ timer' \in [Conns -> [deadline : Nat, td : {0, 1}]]
          /\ timer'[c] = [timer[c] EXCEPT !.deadline = x]
          /\ \A y \in Conns \ {c} : timer'[y] = timer[y]
      BY <1>4, <2>1, <3>1
    <3> QED
      BY <3>1, <3>2
  <2>5. Types'
    BY <2>1, <2>2, <2>3, <2>4 DEF IInv, Types
  <2>6. td(c)' = d
    BY <2>4, Zenon DEF td, d
  <2>7. \A y \in TDs : y[1] = c => MemoryAt(y)'
    <3> SUFFICES ASSUME NEW y \in TDs, y[1] = c PROVE MemoryAt(y)'
      OBVIOUS
    <3>1. MemoryAt(y)
      BY <1>5
    <3>2. m'.live = m.live /\ m'.parent = m.parent /\ m'.heap = m.heap \cup {d}
      BY <2>2, Zenon DEF SameMemory
    <3>3. CASE y = d
      BY <1>2, <1>6, <2>1, <2>3, <2>4, <3>1, <3>2, <3>3, ZenonT(40) DEF MemoryAt
    <3>4. CASE y # d
      BY <1>1, <2>1, <2>3, <2>4, <3>1, <3>2, <3>4, ZenonT(40) DEF MemoryAt
    <3> QED
      BY <3>3, <3>4
  <2>8. Owned(c)'
    BY <1>1, <1>5, <1>6, <2>2, <2>3, <2>4, <2>6, Zenon DEF Owned, SameMemory
  <2>9. ConnRight(c)'
    <3>1. Ordered(tr[c], x, IF l = 0 THEN x ELSE l, k, "work")
      BY <1>2, <1>3, <1>9, OrderedSet, SMTT(30)
    <3> QED
      BY <1>3, <2>1, <2>2, <2>3, <2>4, <2>6, <3>1, ZenonT(40) DEF ConnRight
  <2>10. MemoryAt(<<c, 0>>)' /\ MemoryAt(<<c, 1>>)'
    BY <1>2, <2>7
  <2>11. \A y \in TDs : y[1] # c =>
           /\ m'.list_deadline[y] = m.list_deadline[y] /\ m'.parent[y] = m.parent[y]
           /\ y \in m'.live <=> y \in m.live
    BY <1>2, <2>2 DEF SameMemory
  <2>12. m'.working = m.working /\ tr' = tr
    BY <2>1, <2>2, Zenon DEF SameMode
  <2> QED
    BY <2>1, <2>2, <2>3, <2>4, <2>5, <2>8, <2>9, <2>10, <2>11, <2>12, TimerFrame, ZenonT(40)
<1> QED
  BY <1>7, <1>8, <1>9

\* The end of replace_timer_deadline keeps the invariant.
LEMMA ReplaceIInv ==
  ASSUME IInv, NEW c \in Conns, replace_timer_deadline(c)
  PROVE  IInv'
<1> DEFINE d == <<c, 1>>
           x == pc[c].next
           a == [m EXCEPT !.live = @ \cup {d}, !.parent[d] = TRUE]
<1>1. /\ pc[c].at = "replace"
      /\ timer' = [timer EXCEPT ![c] = [deadline |-> x, td |-> 1]]
      /\ m' = set_connection_timer(a, d, x, now)
      /\ pc' = Moved(pc, c, 0, "work")
      /\ UNCHANGED <<now, tr, mgr, p>>
  BY DEF replace_timer_deadline, Moved
<1>2. /\ d \in TDs /\ d[1] = c /\ d[2] = 1 /\ <<c, 0>> \in TDs /\ <<c, 0>> # d
      /\ td(c) \in TDs /\ m.list_deadline[td(c)] \in Nat
      /\ timer[c].deadline \in Nat /\ tr[c] \in TrType /\ pc[c] \in PcType
      /\ timer[c].td \in {0, 1}
  BY TdIs DEF IInv
<1>3. /\ x = next_tick(tr[c]) /\ x # 0 /\ TickRight(tr[c], now) /\ x \in Nat
      /\ Ordered(tr[c], timer[c].deadline, m.list_deadline[td(c)], timer[c].td, "replace")
  BY <1>1, <1>2, TrNumbers DEF IInv, SequenceInv, ConnRight
<1>4. /\ m \in MType /\ HeapRight(m) /\ TimerfdRight(m, mgr.timeout) /\ ArmedFor(m)
      /\ mgr.timeout \in BOOLEAN /\ (mgr.timeout => m.working)
      /\ now \in Nat /\ pc \in [Conns -> PcType]
      /\ timer \in [Conns -> [deadline : Nat, td : {0, 1}]]
  BY DEF IInv, Types, ManagerInv, MgrType
<1>5. (\A y \in TDs : MemoryAt(y)) /\ ManagerAt /\ Owned(c)
  BY MemoryIs DEF IInv
<1>6. timer[c].td = 0 /\ ~m.parent[<<c, 0>>] /\ d \notin m.live
  BY <1>1, <1>5 DEF Owned
<1>7. d \notin m.heap /\ m.list_deadline[d] = 0
  <2>1. d \notin m.heap
    BY <1>2, <1>5, <1>6 DEF MemoryAt
  <2> QED
    BY <1>2, <1>4, <2>1, Zenon DEF HeapRight
<1> HIDE DEF d
<1>8. /\ a \in MType /\ a.heap = m.heap /\ a.list_deadline = m.list_deadline
      /\ a.working = m.working /\ a.live = m.live \cup {d}
      /\ a.proactor_deadline = m.proactor_deadline /\ a.ready = m.ready
      /\ a.sched_io = m.sched_io /\ a.polling = m.polling /\ a.timerfd = m.timerfd
      /\ a.timerfd_deadline = m.timerfd_deadline
      /\ a.parent[d] /\ \A y \in TDs \ {d} : a.parent[y] = m.parent[y]
  BY <1>2, <1>4, ZenonT(40) DEF MType
<1> HIDE DEF a
<1>9. HeapRight(a) /\ TimerfdRight(a, mgr.timeout) /\ ArmedFor(a)
  <2>1. Deadlines(a) = Deadlines(m)
    BY <1>8 DEF Deadlines
  <2> QED
    BY <1>4, <1>8, <2>1 DEF HeapRight, TimerfdRight, ArmedFor
<1>a. /\ a \in MType /\ HeapRight(a) /\ TimerfdRight(a, mgr.timeout) /\ ArmedFor(a)
      /\ mgr.timeout \in BOOLEAN /\ (mgr.timeout => a.working) /\ now \in Nat
      /\ d \in TDs /\ x \in Nat \ {0}
      /\ m' = set_connection_timer(a, d, x, now)
  BY <1>1, <1>2, <1>3, <1>4, <1>8, <1>9, ZenonT(40)
<1>10. /\ m' \in MType /\ HeapRight(m') /\ TimerfdRight(m', mgr.timeout) /\ ArmedFor(m')
       /\ SameMemory(a, m') /\ SameMode(a, m')
       /\ m'.heap = a.heap \cup {d}
       /\ m'.list_deadline[d] = (IF a.list_deadline[d] = 0 THEN x ELSE a.list_deadline[d])
       /\ \A y \in TDs \ {d} : m'.list_deadline[y] = a.list_deadline[y]
  <2> HIDE DEF x
  <2> QED
    BY <1>a, SetTimerIs, SMTT(30)
<1>11. /\ m'.working = m.working /\ m'.live = m.live \cup {d} /\ m'.heap = m.heap \cup {d}
       /\ m'.list_deadline[d] = x
       /\ \A y \in TDs \ {d} : m'.list_deadline[y] = m.list_deadline[y]
       /\ m'.parent[d] /\ \A y \in TDs \ {d} : m'.parent[y] = m.parent[y]
  BY <1>7, <1>8, <1>10, ZenonT(40) DEF SameMemory, SameMode
<1>12. /\ pc' \in [Conns -> PcType] /\ pc'[c].at = "work"
       /\ \A y \in Conns \ {c} : pc'[y] = pc[y]
  <2>1. pc' = Moved(pc, c, 0, "work") /\ pc \in [Conns -> PcType]
    BY <1>1, <1>4, Zenon
  <2> QED
    BY <2>1, MovedIs
<1>13. /\ timer' \in [Conns -> [deadline : Nat, td : {0, 1}]]
       /\ timer'[c].deadline = x /\ timer'[c].td = 1
       /\ \A y \in Conns \ {c} : timer'[y] = timer[y]
  BY <1>1, <1>3, <1>4, Zenon
<1>14. Types'
  BY <1>1, <1>10, <1>12, <1>13, Zenon DEF IInv, Types
<1>15. td(c)' = d
  BY <1>13 DEF td, d
<1>16. MemoryAt(d)'
  <2>1. mgr.at = "orphan" => mgr.d # d
    BY <1>2, <1>5, <1>6, Zenon DEF MemoryAt
  <2> QED
    BY <1>1, <1>2, <1>11, <1>12, <1>13, <2>1, Zenon DEF MemoryAt
<1>17. MemoryAt(<<c, 0>>)'
  BY <1>1, <1>2, <1>5, <1>6, <1>11, ZenonT(40) DEF MemoryAt
<1>18. Owned(c)'
  BY <1>11, <1>12, <1>13, <1>15, SMTT(30) DEF Owned
<1>19. ConnRight(c)'
  <2>1. Ordered(tr[c], x, x, 1, "work")
    BY <1>2, <1>3, OrderedSet, SMTT(30)
  <2> QED
    BY <1>1, <1>3, <1>11, <1>12, <1>13, <1>15, <2>1, ZenonT(40) DEF ConnRight
<1>20. \A y \in TDs : y[1] # c =>
           /\ m'.list_deadline[y] = m.list_deadline[y] /\ m'.parent[y] = m.parent[y]
           /\ y \in m'.live <=> y \in m.live
  BY <1>2, <1>11
<1>21. MemoryAt(<<c, 1>>)'
  BY <1>16 DEF d
<1> QED
  BY <1>1, <1>10, <1>11, <1>12, <1>13, <1>14, <1>17, <1>18, <1>19, <1>20, <1>21,
       TimerFrame, ZenonT(40)

\* The calls for the proactor's timeout and its events keep the invariant.
LEMMA ProactorIInv ==
  ASSUME IInv,
         \/ \E t \in Timeouts : pn_proactor_set_timeout(t)
         \/ pn_proactor_cancel_timeout \/ proactor_process
         \/ proactor_batch_next \/ pn_proactor_done
  PROVE  IInv' /\ tr' = tr
<1>1. p \in PType /\ now \in Nat
  BY DEF IInv, Types
<1>2. ASSUME NEW t \in Timeouts, pn_proactor_set_timeout(t) PROVE IInv' /\ tr' = tr
  <2> DEFINE n == IF t = 0 THEN 0 ELSE t + now
             a == [p EXCEPT !.timeout_set = TRUE, !.quiet = FALSE, !.caller = n]
  <2>1. t \in Nat
    BY TimersConstants
  <2>2. n \in Nat
    BY <1>1, <2>1, SMTT(30)
  <2>3. /\ p' = IF t = 0 THEN schedule_p([a EXCEPT !.need_timeout = TRUE]) ELSE a
        /\ UNCHANGED <<now, tr, pc, timer, m, mgr>>
    BY <1>2, Zenon DEF pn_proactor_set_timeout
  <2> HIDE DEF n
  <2>4. a \in PType
    BY <1>1, <2>2, Zenon DEF PType
  <2> HIDE DEF a
  <2>5. [a EXCEPT !.need_timeout = TRUE] \in PType
    BY <2>4, Zenon DEF PType
  <2>6. p' \in PType
    BY <2>3, <2>4, <2>5, InactiveIs
  <2> QED
    BY <2>3, <2>6, ProactorFrame
<1>3. ASSUME pn_proactor_cancel_timeout PROVE IInv' /\ tr' = tr
  <2> DEFINE a == [p EXCEPT !.timeout_set = FALSE, !.need_timeout = FALSE]
             b == schedule_if_inactive(a)
  <2>1. p' = [b EXCEPT !.caller = 0] /\ UNCHANGED <<now, tr, pc, timer, m, mgr>>
    BY <1>3 DEF pn_proactor_cancel_timeout
  <2>2. a \in PType
    BY <1>1, Zenon DEF PType
  <2> HIDE DEF a
  <2>3. b \in PType
    BY <2>2, InactiveIs
  <2> HIDE DEF b
  <2>4. p' \in PType
    BY <2>1, <2>3 DEF PType
  <2> QED
    BY <2>1, <2>4, ProactorFrame
<1>4. ASSUME proactor_process PROVE IInv' /\ tr' = tr
  <2> DEFINE a == proactor_update_batch([p EXCEPT !.ready = FALSE])
  <2>1. /\ p' = [a EXCEPT !.working = a.event # NULL]
        /\ UNCHANGED <<now, tr, pc, timer, m, mgr>>
    BY <1>4 DEF proactor_process
  <2>2. [p EXCEPT !.ready = FALSE] \in PType
    BY <1>1, Zenon DEF PType
  <2>3. a \in PType
    BY <2>2, UpdateBatchIs
  <2> HIDE DEF a
  <2>4. p' \in PType
    <3> DEFINE w == a.event # NULL
    <3>1. p' = [a EXCEPT !.working = w] /\ w \in BOOLEAN
      BY <2>1
    <3> HIDE DEF w
    <3> QED
      BY <2>3, <3>1 DEF PType
  <2> QED
    BY <2>1, <2>4, ProactorFrame
<1>5. ASSUME proactor_batch_next PROVE IInv' /\ tr' = tr
  <2> DEFINE a == proactor_update_batch(p)
             x == a.timeout_processed \/ a.event = "TIMEOUT"
             y == a.quiet \/ (a.event = "INACTIVE" /\ ~a.timeout_set)
  <2>1. /\ p' = [a EXCEPT !.timeout_processed = x, !.quiet = y, !.event = NULL]
        /\ UNCHANGED <<now, tr, pc, timer, m, mgr>>
    BY <1>5 DEF proactor_batch_next
  <2>2. a \in PType
    BY <1>1, UpdateBatchIs
  <2>3. x \in BOOLEAN /\ y \in BOOLEAN
    BY <2>2 DEF PType
  <2> HIDE DEF a, x, y
  <2>4. p' \in PType
    BY <2>1, <2>2, <2>3, ZenonT(40) DEF PType
  <2> QED
    BY <2>1, <2>4, ProactorFrame
<1>6. ASSUME pn_proactor_done PROVE IInv' /\ tr' = tr
  <2> DEFINE a == [p EXCEPT !.working = FALSE, !.timeout_processed = FALSE]
             b == IF p.timeout_processed THEN schedule_if_inactive(a) ELSE a
             c == proactor_update_batch(b)
  <2>1. /\ p' = IF c.event # NULL THEN schedule_p(c) ELSE c
        /\ UNCHANGED <<now, tr, pc, timer, m, mgr>>
    BY <1>6 DEF pn_proactor_done
  <2>2. a \in PType
    BY <1>1, Zenon DEF PType
  <2> HIDE DEF a
  <2>3. b \in PType
    BY <2>2, InactiveIs
  <2> HIDE DEF b
  <2>4. c \in PType
    BY <2>3, UpdateBatchIs
  <2> HIDE DEF c
  <2>5. p' \in PType
    BY <2>1, <2>4, InactiveIs
  <2> QED
    BY <2>1, <2>5, ProactorFrame
<1> QED
  BY <1>2, <1>3, <1>4, <1>5, <1>6

\* pni_timer_set for the proactor keeps the invariant: with a deadline removed or
\* unchanged the timerfd is early enough.
LEMMA SetProactorTimerIInv ==
  ASSUME IInv, set_proactor_timer
  PROVE  IInv' /\ tr' = tr
<1> DEFINE a == [m EXCEPT !.proactor_deadline = p.caller]
<1>1. /\ p.caller # NULL
      /\ m' = IF p.caller \in {0, m.proactor_deadline} THEN a ELSE adjust_deadline(a, now)
      /\ p' = [p EXCEPT !.caller = NULL]
      /\ UNCHANGED <<now, tr, pc, timer, mgr>>
  BY DEF set_proactor_timer
<1>2. /\ m \in MType /\ p \in PType /\ now \in Nat /\ mgr \in MgrType
      /\ HeapRight(m) /\ TimerfdRight(m, mgr.timeout) /\ ArmedFor(m)
      /\ (mgr.timeout => m.working) /\ (m.working <=> mgr.at # "idle")
  BY DEF IInv, Types, ManagerInv
<1>3. p.caller \in Nat /\ mgr.timeout \in BOOLEAN
  BY <1>1, <1>2 DEF PType, MgrType
<1>4. p' \in PType
  BY <1>1, <1>2 DEF PType
<1>5. /\ a \in MType /\ a.heap = m.heap /\ a.list_deadline = m.list_deadline
      /\ a.working = m.working /\ a.live = m.live /\ a.parent = m.parent
      /\ a.proactor_deadline = p.caller /\ a.ready = m.ready
      /\ a.sched_io = m.sched_io /\ a.polling = m.polling /\ a.timerfd = m.timerfd
      /\ a.timerfd_deadline = m.timerfd_deadline
  BY <1>2, <1>3 DEF MType
<1> HIDE DEF a
<1>6. HeapRight(a) /\ TimerfdRight(a, mgr.timeout)
  BY <1>2, <1>5, ZenonT(40) DEF HeapRight, TimerfdRight
<1>7. /\ m' \in MType /\ HeapRight(m') /\ TimerfdRight(m', mgr.timeout) /\ ArmedFor(m')
      /\ m'.heap = a.heap /\ m'.list_deadline = a.list_deadline
      /\ SameMemory(a, m') /\ SameMode(a, m')
  <2>1. CASE p.caller \in {0, m.proactor_deadline}
    <3>1. m' = a
      BY <1>1, <2>1
    <3>2. Deadlines(a) \subseteq Deadlines(m)
      BY <1>5, <2>1 DEF Deadlines
    <3>3. ArmedFor(a)
      BY <1>2, <1>5, <3>2 DEF ArmedFor
    <3> QED
      BY <1>5, <1>6, <3>1, <3>3 DEF SameMemory, SameMode
  <2>2. CASE p.caller \notin {0, m.proactor_deadline}
    <3>1. m' = adjust_deadline(a, now)
      BY <1>1, <2>2, Zenon
    <3>2. mgr.timeout => a.working
      BY <1>2, <1>5, Zenon
    <3> QED
      BY <1>2, <1>3, <1>5, <1>6, <3>1, <3>2, AdjustIs DEF SameHeap
  <2> QED
    BY <2>1, <2>2
<1>8. SameMemory(m, m') /\ m'.working = m.working
  BY <1>5, <1>7 DEF SameMemory, SameMode
<1>9. Types'
  BY <1>1, <1>4, <1>7 DEF IInv, Types
<1>10. ManagerInv'
  BY <1>1, <1>2, <1>7, <1>8 DEF ManagerInv
<1> QED
  BY <1>1, <1>5, <1>7, <1>8, <1>9, <1>10, ManagerFrame

\* The event of the timerfd keeps the invariant.
LEMMA PollIInv ==
  ASSUME IInv, Poll
  PROVE  IInv' /\ tr' = tr
<1>1. /\ m' = [m EXCEPT !.polling = FALSE, !.sched_io = TRUE]
      /\ UNCHANGED <<now, tr, pc, timer, mgr, p>>
  BY DEF Poll
<1>2. /\ m \in MType /\ HeapRight(m) /\ TimerfdRight(m, mgr.timeout)
      /\ (mgr.timeout => m.working) /\ (m.working <=> mgr.at # "idle")
  BY DEF IInv, Types, ManagerInv
<1>3. /\ m' \in MType /\ m'.heap = m.heap /\ m'.list_deadline = m.list_deadline
      /\ m'.working = m.working /\ m'.live = m.live /\ m'.parent = m.parent
      /\ m'.sched_io /\ m'.timerfd_deadline = m.timerfd_deadline
  BY <1>1, <1>2, Zenon DEF MType
<1>4. ManagerInv'
  BY <1>1, <1>2, <1>3 DEF ManagerInv, HeapRight, TimerfdRight, ArmedFor
<1>5. Types' /\ SameMemory(m, m')
  BY <1>1, <1>3 DEF IInv, Types, SameMemory
<1> QED
  BY <1>1, <1>3, <1>4, <1>5, ManagerFrame

\* The head of pni_timer_manager_process keeps the invariant.
LEMMA ProcessManagerIInv ==
  ASSUME IInv, NEW timeout \in BOOLEAN, NEW sched_ready \in BOOLEAN,
         pni_timer_manager_process(timeout, sched_ready)
  PROVE  IInv' /\ tr' = tr
<1> DEFINE expired == m.proactor_deadline # 0 /\ m.proactor_deadline <= now
           io_ == m.sched_io /\ ~timeout
           td_ == IF timeout THEN 0 ELSE m.timerfd_deadline
           rd_ == m.ready /\ ~sched_ready
           pd_ == IF expired THEN 0 ELSE m.proactor_deadline
           at_ == IF expired THEN "proactor" ELSE "scan"
<1>1. /\ mgr.at = "idle" /\ (timeout => m.sched_io)
      /\ m' = [m EXCEPT !.working = TRUE, !.sched_io = io_, !.timerfd_deadline = td_,
                        !.ready = rd_, !.proactor_deadline = pd_]
      /\ mgr' = [mgr EXCEPT !.at = at_, !.now = now, !.timeout = timeout]
      /\ UNCHANGED <<now, tr, pc, timer, p>>
  BY DEF pni_timer_manager_process
<1>2. /\ m \in MType /\ mgr \in MgrType /\ now \in Nat
      /\ HeapRight(m) /\ TimerfdRight(m, mgr.timeout)
      /\ (mgr.timeout => m.working) /\ (m.working <=> mgr.at # "idle")
  BY DEF IInv, Types, ManagerInv
<1>3. /\ io_ \in BOOLEAN /\ td_ \in Nat /\ rd_ \in BOOLEAN /\ pd_ \in Nat
      /\ at_ \in {"proactor", "scan"} /\ (timeout => td_ = 0)
      /\ (~timeout => io_ = m.sched_io /\ td_ = m.timerfd_deadline)
  BY <1>2 DEF MType
<1> HIDE DEF io_, td_, rd_, pd_, at_
<1>4. /\ m' \in MType /\ m'.heap = m.heap /\ m'.list_deadline = m.list_deadline
      /\ m'.working /\ m'.live = m.live /\ m'.parent = m.parent
      /\ m'.sched_io = io_ /\ m'.timerfd_deadline = td_
      /\ m'.polling = m.polling /\ m'.timerfd = m.timerfd
  BY <1>1, <1>2, <1>3, ZenonT(40) DEF MType
<1>5. mgr' \in MgrType /\ mgr'.at = at_ /\ mgr'.timeout = timeout
  BY <1>1, <1>2, <1>3, Zenon DEF MgrType
<1>6. ManagerInv'
  <2>1. ~mgr.timeout
    BY <1>1, <1>2
  <2>2. TimerfdRight(m', timeout)
    BY <1>2, <1>3, <1>4, <2>1 DEF TimerfdRight
  <2> QED
    BY <1>2, <1>3, <1>4, <1>5, <2>2 DEF ManagerInv, HeapRight, ArmedFor
<1>7. Types' /\ SameMemory(m, m')
  BY <1>1, <1>4, <1>5 DEF IInv, Types, SameMemory
<1> QED
  BY <1>1, <1>3, <1>4, <1>5, <1>6, <1>7, ManagerFrame

\* pni_proactor_timeout keeps the invariant.
LEMMA ProactorTimeoutIInv ==
  ASSUME IInv, pni_proactor_timeout
  PROVE  IInv' /\ tr' = tr
<1>1. /\ mgr.at = "proactor" /\ p' = schedule_p([p EXCEPT !.need_timeout = TRUE])
      /\ mgr' = [mgr EXCEPT !.at = "scan"]
      /\ UNCHANGED <<now, tr, pc, timer, m>>
  BY DEF pni_proactor_timeout
<1>2. p' \in PType
  <2>1. [p EXCEPT !.need_timeout = TRUE] \in PType
    BY Zenon DEF IInv, Types, PType
  <2> QED
    BY <1>1, <2>1, InactiveIs
<1>3. mgr' \in MgrType /\ mgr'.at = "scan" /\ mgr'.timeout = mgr.timeout
  BY <1>1 DEF IInv, Types, MgrType
<1>4. Types' /\ ManagerInv' /\ SameMemory(m, m')
  BY <1>1, <1>2, <1>3 DEF IInv, Types, ManagerInv, SameMemory
<1> QED
  BY <1>1, <1>3, <1>4, ManagerFrame

\* pni_pconnection_timeout keeps the invariant.
LEMMA ConnectionTimeoutIInv ==
  ASSUME IInv, pni_pconnection_timeout
  PROVE  IInv' /\ tr' = tr
<1> DEFINE c == mgr.c
           due == pc[c].expected_timeout # 0 /\ now >= pc[c].expected_timeout
           rd_ == pc[c].ready \/ ~pc[c].working
           x == [pc[c] EXCEPT !.tick_pending = TRUE, !.expected_timeout = 0, !.ready = rd_]
<1>1. /\ mgr.at = "timeout"
      /\ pc' = IF pc[c].closing \/ ~due THEN pc ELSE [pc EXCEPT ![c] = x]
      /\ mgr' = [mgr EXCEPT !.at = "scan", !.c = NULL]
      /\ UNCHANGED <<now, tr, timer, m, p>>
  BY Zenon DEF pni_pconnection_timeout
<1>2. c \in Conns /\ pc \in [Conns -> PcType]
  BY <1>1 DEF IInv, Types, MemoryInv
<1> HIDE DEF c
<1>3. x \in PcType /\ x.at = pc[c].at /\ x.next = pc[c].next
  <2>1. pc[c] \in PcType
    BY <1>2
  <2>2. rd_ \in BOOLEAN
    BY <2>1 DEF PcType
  <2> HIDE DEF rd_
  <2> QED
    BY <2>1, <2>2, Zenon DEF PcType
<1> HIDE DEF x, due
<1>4. /\ pc' \in [Conns -> PcType]
      /\ \A e \in Conns : pc'[e].at = pc[e].at /\ pc'[e].next = pc[e].next
  <2>1. CASE pc' = pc
    BY <1>2, <2>1
  <2>2. CASE pc' = [pc EXCEPT ![c] = x]
    BY <1>2, <1>3, <2>2
  <2> QED
    BY <1>1, <2>1, <2>2
<1>5. mgr' \in MgrType /\ mgr'.at = "scan" /\ mgr'.timeout = mgr.timeout
  BY <1>1, Zenon DEF IInv, Types, MgrType
<1>6. Types' /\ ManagerInv' /\ SameMemory(m, m')
  BY <1>1, <1>4, <1>5 DEF IInv, Types, ManagerInv, SameMemory
<1> QED
  BY <1>1, <1>4, <1>5, <1>6, ManagerFrame

\* The end of pni_timer_manager_process keeps the invariant and arms the timerfd.
LEMMA ScanDoneIInv ==
  ASSUME IInv, scan_done
  PROVE  IInv' /\ tr' = tr
<1> DEFINE drained == IF m.timerfd # 0 /\ m.timerfd <= now THEN 0 ELSE m.timerfd
           a == IF mgr.timeout THEN [m EXCEPT !.timerfd = drained, !.polling = TRUE] ELSE m
           b == [a EXCEPT !.working = FALSE]
<1>1. /\ mgr.at = "scan" /\ m' = adjust_deadline(b, now)
      /\ mgr' = [mgr EXCEPT !.at = "idle", !.now = 0, !.timeout = FALSE]
      /\ UNCHANGED <<now, tr, pc, timer, p>>
  BY DEF scan_done
<1>2. /\ m \in MType /\ mgr \in MgrType /\ now \in Nat
      /\ HeapRight(m) /\ TimerfdRight(m, mgr.timeout)
  BY DEF IInv, Types, ManagerInv
<1>3. drained \in Nat
  BY <1>2 DEF MType
<1> HIDE DEF drained
<1>4. /\ a \in MType /\ a.heap = m.heap /\ a.list_deadline = m.list_deadline
      /\ a.live = m.live /\ a.parent = m.parent
      /\ a.sched_io = m.sched_io /\ a.timerfd_deadline = m.timerfd_deadline
      /\ (~mgr.timeout => a.polling = m.polling /\ a.timerfd = m.timerfd)
      /\ (mgr.timeout => a.polling)
  BY <1>2, <1>3, Zenon DEF MType
<1> HIDE DEF a
<1>5. /\ b \in MType /\ b.heap = m.heap /\ b.list_deadline = m.list_deadline
      /\ b.live = m.live /\ b.parent = m.parent /\ ~b.working
      /\ b.sched_io = m.sched_io /\ b.timerfd_deadline = m.timerfd_deadline
      /\ (~mgr.timeout => b.polling = m.polling /\ b.timerfd = m.timerfd)
      /\ (mgr.timeout => b.polling)
  BY <1>4, Zenon DEF MType
<1> HIDE DEF b
<1>6. HeapRight(b) /\ TimerfdRight(b, FALSE)
  BY <1>2, <1>5 DEF HeapRight, TimerfdRight
<1>7. /\ m' \in MType /\ HeapRight(m') /\ TimerfdRight(m', FALSE) /\ ArmedFor(m')
      /\ SameHeap(b, m') /\ SameMemory(b, m') /\ SameMode(b, m')
  BY <1>1, <1>2, <1>5, <1>6, AdjustIs, Zenon
<1>8. mgr' \in MgrType /\ mgr'.at = "idle" /\ mgr'.timeout = FALSE
  BY <1>1, <1>2, Zenon DEF MgrType
<1>9. /\ SameMemory(m, m') /\ m'.heap = m.heap /\ m'.list_deadline = m.list_deadline
      /\ ~m'.working
  BY <1>5, <1>7 DEF SameHeap, SameMemory, SameMode
<1>10. ManagerInv'
  BY <1>7, <1>8, <1>9, Zenon DEF ManagerInv
<1>11. Types'
  BY <1>1, <1>7, <1>8 DEF IInv, Types
<1> QED
  BY <1>1, <1>8, <1>9, <1>10, <1>11, ManagerFrame

\* Time keeps the invariant.
LEMMA AdvanceIInv ==
  ASSUME IInv, Advance
  PROVE  IInv' /\ tr' = tr
<1> DEFINE lt(c) == \/ pc[c].late \/ pc[c].at # "idle"
                    \/ Due(c) # 0 /\ Due(c) <= now
<1>1. now' = now + 1 /\ UNCHANGED <<tr, timer, m, mgr, p>>
  BY DEF Advance
<1>a. pc' = [c \in Conns |-> [pc[c] EXCEPT !.late = lt(c)]]
  BY DEF Advance
<1>2. now \in Nat /\ pc \in [Conns -> PcType] /\ now >= 1
  BY DEF IInv, Types, SequenceInv
<1>3. \A c \in Conns : lt(c) \in BOOLEAN
  BY <1>2 DEF PcType
<1> HIDE DEF lt
<1>4. \A c \in Conns : /\ pc'[c] \in PcType
                       /\ pc'[c].at = pc[c].at /\ pc'[c].next = pc[c].next
  <2> TAKE c \in Conns
  <2>1. pc[c] \in PcType /\ lt(c) \in BOOLEAN /\ pc'[c] = [pc[c] EXCEPT !.late = lt(c)]
    BY <1>a, <1>2, <1>3
  <2> QED
    BY <2>1 DEF PcType
<1>5. pc' \in [Conns -> PcType]
  BY <1>a, <1>4, ZenonT(40)
<1>6. Types' /\ ManagerInv'
  BY <1>1, <1>2, <1>5 DEF IInv, Types, ManagerInv
<1>7. \A c \in Conns : td(c)' = td(c)
  BY <1>1 DEF td
<1>8. MemoryInv'
  <2>1. (\A d \in TDs : MemoryAt(d)) /\ ManagerAt /\ (\A e \in Conns : Owned(e))
    BY MemoryIs DEF IInv
  <2>2. \A d \in TDs : MemoryAt(d)'
    <3> TAKE d \in TDs
    <3>1. d[1] \in Conns
      BY Zenon DEF TDs
    <3> QED
      BY <1>1, <1>4, <2>1, <3>1 DEF MemoryAt
  <2>3. ManagerAt' /\ \A e \in Conns : Owned(e)'
    BY <1>1, <1>4, <1>7, <2>1, ZenonT(40) DEF ManagerAt, Owned
  <2> QED
    BY <1>6, <2>2, <2>3, MemoryIsNext
<1>9. \A c \in Conns : ConnRight(c)'
  <2> TAKE c \in Conns
  <2>1. tr[c] \in TrType /\ ConnRight(c)
    BY TdIs, ZenonT(40) DEF IInv, SequenceInv
  <2>2. TickRight(tr[c], now + 1)
    BY <1>2, <2>1, TrNumbers DEF TickRight, ConnRight
  <2> QED
    BY <1>1, <1>4, <1>7, <2>1, <2>2 DEF ConnRight
<1> QED
  BY <1>1, <1>2, <1>6, <1>8, <1>9 DEF IInv, SequenceInv

\* An orphan is freed: the invariant is kept.
LEMMA OrphanIInv ==
  ASSUME IInv, free_orphan
  PROVE  IInv' /\ tr' = tr
<1>1. /\ mgr.at = "orphan" /\ m' = [m EXCEPT !.live = @ \ {mgr.d}]
      /\ mgr' = [mgr EXCEPT !.at = "scan", !.d = NULL]
      /\ UNCHANGED <<now, tr, pc, timer, p>>
  BY DEF free_orphan
<1>2. /\ m \in MType /\ mgr \in MgrType /\ HeapRight(m) /\ TimerfdRight(m, mgr.timeout)
      /\ m.working
  BY <1>1 DEF IInv, Types, ManagerInv
<1>3. /\ m' \in MType /\ m'.heap = m.heap /\ m'.list_deadline = m.list_deadline
      /\ m'.working /\ m'.live = m.live \ {mgr.d} /\ m'.parent = m.parent
      /\ m'.sched_io = m.sched_io /\ m'.timerfd_deadline = m.timerfd_deadline
      /\ m'.polling = m.polling /\ m'.timerfd = m.timerfd
  BY <1>1, <1>2 DEF MType
<1>4. mgr' \in MgrType /\ mgr'.at = "scan" /\ mgr'.timeout = mgr.timeout
  BY <1>1, <1>2, Zenon DEF MgrType
<1>5. Types'
  BY <1>1, <1>3, <1>4 DEF IInv, Types
<1>6. ManagerInv'
  BY <1>2, <1>3, <1>4 DEF ManagerInv, HeapRight, TimerfdRight, ArmedFor
<1>7. (\A d \in TDs : MemoryAt(d)) /\ ManagerAt /\ (\A e \in Conns : Owned(e))
  BY MemoryIs DEF IInv
<1>8. mgr.d \in TDs /\ mgr.d \notin m.heap /\ ~m.parent[mgr.d]
  BY <1>1, <1>7 DEF MemoryAt, ManagerAt
<1>9. \A d \in TDs : MemoryAt(d)'
  BY <1>1, <1>3, <1>4, <1>7, <1>8 DEF MemoryAt
<1>10. \A c \in Conns : td(c)' = td(c)
  BY <1>1 DEF td
<1>11. \A c \in Conns : Owned(c)' /\ ConnRight(c)'
  BY <1>1, <1>3, <1>7, <1>8, <1>10, ZenonT(40) DEF Owned, ConnRight, IInv, SequenceInv
<1>12. ManagerAt'
  BY <1>4 DEF ManagerAt
<1>13. MemoryInv'
  BY <1>5, <1>9, <1>11, <1>12, MemoryIsNext
<1> QED
  BY <1>1, <1>5, <1>6, <1>11, <1>13 DEF IInv, SequenceInv

\* One turn of the manager's loop keeps the invariant: for an orphan, for a timer
\* that is due, for one that was extended and for one that was called off.
LEMMA ScanIInv ==
  ASSUME IInv, NEW d \in TDs, scan(d)
  PROVE  IInv' /\ tr' = tr
<1> DEFINE c == d[1]
           e == timer[c].deadline
           due == m.parent[d] /\ e # 0 /\ e <= mgr.now
           extended == m.parent[d] /\ e > mgr.now
           a == minpop(m, d)
<1>1. /\ mgr.at = "scan" /\ d \in m.heap
      /\ m' = IF extended THEN minpush(a, d, e) ELSE a
      /\ timer' = IF due THEN [timer EXCEPT ![c].deadline = 0] ELSE timer
      /\ mgr' = IF ~m.parent[d] THEN [mgr EXCEPT !.at = "orphan", !.d = d]
                ELSE IF due THEN [mgr EXCEPT !.at = "timeout", !.c = c]
                ELSE mgr
      /\ UNCHANGED <<now, tr, pc, p>>
  BY DEF scan, Expired
<1>2. /\ m \in MType /\ mgr \in MgrType /\ HeapRight(m) /\ TimerfdRight(m, mgr.timeout)
      /\ m.working /\ timer \in [Conns -> [deadline : Nat, td : {0, 1}]]
  BY <1>1 DEF IInv, Types, ManagerInv
<1>3. c \in Conns /\ d[2] \in {0, 1} /\ d = <<c, d[2]>>
  BY DEF TDs
<1>4. e \in Nat /\ mgr.now \in Nat
  BY <1>2, <1>3 DEF MgrType
<1>5. (\A y \in TDs : MemoryAt(y)) /\ ManagerAt /\ (\A y \in Conns : Owned(y))
  BY MemoryIs DEF IInv
<1>6. d \in m.live
  BY <1>1, <1>5 DEF MemoryAt
<1>7. m.parent[d] => pc[c].at # "freed" /\ td(c) = d
  <2>1. m.parent[d] => pc[c].at # "freed" /\ timer[c].td = d[2]
    BY <1>5, <1>6 DEF MemoryAt
  <2> QED
    BY <1>3, <2>1 DEF td
<1>8. \A y \in Conns : td(y) = d => y = c
  BY <1>3, SMTT(30) DEF td
<1> HIDE DEF c
<1>9. /\ a \in MType /\ HeapRight(a) /\ SameMemory(m, a) /\ SameMode(m, a)
      /\ a.heap = m.heap \ {d} /\ a.list_deadline[d] = 0
      /\ \A y \in TDs \ {d} : a.list_deadline[y] = m.list_deadline[y]
      /\ a.timerfd = m.timerfd /\ a.timerfd_deadline = m.timerfd_deadline
  BY <1>2, MinpopIs, ZenonT(40)
<1> HIDE DEF a
<1>10. extended => e \in Nat \ {0}
  BY <1>4, SMTT(30)
<1>11. /\ m' \in MType /\ HeapRight(m') /\ SameMemory(m, m') /\ SameMode(m, m')
       /\ m'.heap = (IF extended THEN m.heap ELSE m.heap \ {d})
       /\ m'.list_deadline[d] = (IF extended THEN e ELSE 0)
       /\ \A y \in TDs \ {d} : m'.list_deadline[y] = m.list_deadline[y]
       /\ m'.timerfd = m.timerfd /\ m'.timerfd_deadline = m.timerfd_deadline
  <2>1. CASE extended
    <3>1. m' = minpush(a, d, e) /\ e \in Nat \ {0}
      BY <1>1, <1>10, <2>1, ZenonT(40)
    <3> HIDE DEF e
    <3>2. /\ m' \in MType /\ HeapRight(m') /\ SameMemory(a, m') /\ SameMode(a, m')
          /\ m'.heap = a.heap \cup {d} /\ m'.list_deadline[d] = e
          /\ \A y \in TDs \ {d} : m'.list_deadline[y] = a.list_deadline[y]
          /\ m'.timerfd = a.timerfd /\ m'.timerfd_deadline = a.timerfd_deadline
      <4>1. a \in MType /\ HeapRight(a)
        BY <1>9
      <4> QED
        BY <3>1, <4>1, MinpushIs, SMTT(30)
    <3>3. m'.heap = m.heap
      <4>1. d \in m.heap /\ a.heap = m.heap \ {d} /\ m'.heap = a.heap \cup {d}
        BY <1>1, <1>9, <3>2, Zenon
      <4> QED
        BY <4>1, Zenon
    <3>4. SameMemory(m, m') /\ SameMode(m, m')
      BY <1>9, <3>2, Zenon DEF SameMemory, SameMode
    <3> HIDE DEF extended
    <3> QED
      BY <1>9, <2>1, <3>2, <3>3, <3>4, Zenon
  <2>2. CASE ~extended
    <3>1. m' = a
      BY <1>1, <2>2, Zenon
    <3> HIDE DEF extended
    <3> QED
      BY <1>9, <2>2, <3>1
  <2> QED
    BY <2>1, <2>2, ZenonT(40)
<1>12. /\ mgr' \in MgrType /\ mgr'.timeout = mgr.timeout /\ mgr'.at # "idle"
       /\ mgr'.at \in {"scan", "orphan", "timeout"}
       /\ mgr'.at = "orphan" <=> ~m.parent[d]
       /\ mgr'.at = "orphan" => mgr'.d = d
       /\ mgr'.at = "timeout" => mgr'.c = c /\ m.parent[d]
  <2>1. CASE ~m.parent[d]
    <3>1. mgr' = [mgr EXCEPT !.at = "orphan", !.d = d]
      BY <1>1, <2>1
    <3> QED
      BY <1>2, <2>1, <3>1, Zenon DEF MgrType
  <2>2. CASE m.parent[d] /\ due
    <3>1. mgr' = [mgr EXCEPT !.at = "timeout", !.c = c]
      BY <1>1, <2>2
    <3> QED
      BY <1>2, <1>3, <2>2, <3>1, Zenon DEF MgrType
  <2>3. CASE m.parent[d] /\ ~due
    <3>1. mgr' = mgr
      BY <1>1, <2>3, ZenonT(40)
    <3> QED
      BY <1>1, <1>2, <2>3, <3>1 DEF MgrType
  <2> QED
    BY <2>1, <2>2, <2>3
<1>13. /\ timer' \in [Conns -> [deadline : Nat, td : {0, 1}]]
       /\ timer'[c].deadline = (IF due THEN 0 ELSE e)
       /\ \A y \in Conns : timer'[y].td = timer[y].td
       /\ \A y \in Conns \ {c} : timer'[y].deadline = timer[y].deadline
  <2>1. CASE due
    <3>1. timer' = [timer EXCEPT ![c].deadline = 0]
      BY <1>1, <2>1
    <3>2. /\ [timer[c] EXCEPT !.deadline = 0] \in [deadline : Nat, td : {0, 1}]
          /\ [timer[c] EXCEPT !.deadline = 0].deadline = 0
          /\ [timer[c] EXCEPT !.deadline = 0].td = timer[c].td
      BY <1>2, <1>3
    <3>3. /\ timer' \in [Conns -> [deadline : Nat, td : {0, 1}]]
          /\ timer'[c] = [timer[c] EXCEPT !.deadline = 0]
          /\ \A y \in Conns \ {c} : timer'[y] = timer[y]
      BY <1>2, <1>3, <3>1, <3>2
    <3> HIDE DEF due
    <3> QED
      BY <2>1, <3>2, <3>3
  <2>2. CASE ~due
    <3>1. timer' = timer
      BY <1>1, <2>2, Zenon
    <3> HIDE DEF due
    <3> QED
      BY <1>2, <2>2, <3>1
  <2> QED
    BY <2>1, <2>2
<1>14. Types'
  BY <1>1, <1>11, <1>12, <1>13, Zenon DEF IInv, Types
<1>15. m'.working /\ m'.live = m.live /\ m'.parent = m.parent
  BY <1>2, <1>11, Zenon DEF SameMode, SameMemory
<1>16. ManagerInv'
  <2>1. TimerfdRight(m', mgr.timeout)
    BY <1>2, <1>11 DEF SameMode, TimerfdRight
  <2> QED
    BY <1>11, <1>12, <1>15, <2>1, ZenonT(40) DEF ManagerInv, ArmedFor
<1>17. \A y \in TDs : MemoryAt(y)'
  <2> TAKE y \in TDs
  <2>1. MemoryAt(y) /\ y[1] \in Conns
    BY <1>5 DEF TDs
  <2>2. pc' = pc /\ timer'[y[1]].td = timer[y[1]].td
    BY <1>1, <1>13, <2>1, Zenon
  <2>3. CASE y = d
    <3>1. m'.parent[d] => pc[c].at # "freed" /\ timer[c].td = d[2]
      BY <1>5, <1>6, <1>15 DEF MemoryAt, c
    <3>2. ~m.parent[d] => ~extended
      BY Zenon
    <3>3. ~m.parent[d] => d \notin m'.heap
      BY <1>11, <3>2, Zenon
    <3> QED
      BY <1>6, <1>12, <1>15, <2>1, <2>2, <2>3, <3>1, <3>3, ZenonT(40) DEF MemoryAt, c
  <2>4. CASE y # d
    <3>1. y \in m'.heap <=> y \in m.heap
      BY <1>11, <2>4, SMTT(30)
    <3> QED
      BY <1>1, <1>12, <1>15, <2>1, <2>2, <2>4, <3>1, ZenonT(40) DEF MemoryAt
  <2> QED
    BY <2>3, <2>4
<1>18. ManagerAt'
  BY <1>1, <1>3, <1>7, <1>12 DEF ManagerAt
<1>19. \A y \in Conns : td(y)' = td(y)
  BY <1>13 DEF td
<1>20. \A y \in Conns : Owned(y)'
  BY <1>1, <1>5, <1>13, <1>15, <1>19, ZenonT(40) DEF Owned
<1>21. \A y \in Conns : ConnRight(y)'
  <2> TAKE y \in Conns
  <2> DEFINE l == m.list_deadline[td(y)]
             o == timer[y].deadline
  <2>1. /\ ConnRight(y) /\ tr[y] \in TrType /\ o \in Nat /\ l \in Nat /\ td(y) \in TDs
        /\ Ordered(tr[y], o, l, timer[y].td, pc[y].at)
    BY TdIs, ZenonT(40) DEF IInv, SequenceInv, ConnRight
  <2>2. /\ Ordered(tr[y], 0, 0, timer[y].td, pc[y].at)
        /\ Ordered(tr[y], o, 0, timer[y].td, pc[y].at)
        /\ Ordered(tr[y], 0, l, timer[y].td, pc[y].at)
        /\ Ordered(tr[y], o, o, timer[y].td, pc[y].at)
    BY <2>1, OrderedLess, Zenon
  <2>3. timer'[y].deadline \in {0, o}
    <3>1. CASE y = c
      BY <1>13, <3>1
    <3>2. CASE y # c
      BY <1>13, <3>2, Zenon
    <3> QED
      BY <3>1, <3>2
  <2>4. \/ m'.list_deadline[td(y)] = l \/ m'.list_deadline[td(y)] = 0
        \/ m'.list_deadline[td(y)] = o /\ timer'[y].deadline = o
    <3>1. CASE td(y) # d
      BY <1>11, <2>1, <3>1, ZenonT(40)
    <3>2. CASE td(y) = d /\ ~extended
      BY <1>11, <3>2, ZenonT(40)
    <3>3. CASE td(y) = d /\ extended
      <4>1. y = c
        BY <1>8, <3>3, Zenon
      <4>2. ~due
        BY <1>4, <3>3, SMTT(30)
      <4> QED
        BY <1>11, <1>13, <3>3, <4>1, <4>2, ZenonT(40)
    <3> QED
      BY <3>1, <3>2, <3>3, Zenon
  <2>5. Ordered(tr[y], timer'[y].deadline, m'.list_deadline[td(y)], timer[y].td, pc[y].at)
    BY <2>1, <2>2, <2>3, <2>4, Zenon
  <2> QED
    BY <1>1, <1>13, <1>19, <2>1, <2>5 DEF ConnRight
<1>22. MemoryInv'
  BY <1>14, <1>17, <1>18, <1>20, MemoryIsNext
<1> QED
  BY <1>1, <1>14, <1>16, <1>21, <1>22 DEF IInv, SequenceInv

\* The invariant holds initially.
LEMMA InitIInv == Init => IInv
<1> SUFFICES ASSUME Init PROVE IInv
  OBVIOUS
<1>1. now = 1 /\ mgr = [at |-> "idle", now |-> 0, timeout |-> FALSE, c |-> NULL, d |-> NULL]
  BY DEF Init
<1>2. /\ timer = [c \in Conns |-> [deadline |-> 0, td |-> 0]]
      /\ timer \in [Conns -> [deadline : Nat, td : {0, 1}]]
  BY DEF Init
<1>3. /\ m.heap = {} /\ m.list_deadline = [d \in TDs |-> 0] /\ ~m.working /\ m.polling
      /\ m.timerfd_deadline = 0 /\ m.proactor_deadline = 0
      /\ m.live = Conns \X {0} /\ m.parent = [d \in TDs |-> d \in Conns \X {0}]
  BY DEF Init
<1>4. m \in MType
  <2>1. [d \in TDs |-> 0] \in [TDs -> Nat] /\ Conns \X {0} \in SUBSET TDs
    BY DEF TDs
  <2>2. [d \in TDs |-> d \in Conns \X {0}] \in [TDs -> BOOLEAN]
    OBVIOUS
  <2> QED
    BY <2>1, <2>2 DEF Init, MType
<1>5. mgr \in MgrType /\ p \in PType
  BY DEF Init, MgrType, PType
<1>6. /\ pc \in [Conns -> PcType]
      /\ \A c \in Conns : pc[c].at = "idle"
  BY DEF Init, PcType
<1>7. PICK t \in [Conns -> LocalIdle] :
        tr = [c \in Conns |-> [pn_transport(1) EXCEPT !.local_idle_timeout = t[c]]]
  BY Zenon DEF Init
<1>8. \A c \in Conns : /\ tr[c] \in TrType
                       /\ tr[c].dead_remote_deadline = 0 /\ tr[c].keepalive_deadline = 0
                       /\ tr[c].last_in = 1 /\ tr[c].remote_idle_timeout = 0
  <2> TAKE c \in Conns
  <2>1. tr[c] = [pn_transport(1) EXCEPT !.local_idle_timeout = t[c]] /\ t[c] \in LocalIdle
    BY <1>7
  <2>2. tr[c] = [local_idle_timeout |-> t[c], remote_idle_timeout |-> 0,
                 dead_remote_deadline |-> 0, keepalive_deadline |-> 0,
                 unseen_input |-> FALSE, unseen_output |-> 0, output_buffer |-> 0,
                 posted_idle_timeout |-> FALSE, close_sent |-> FALSE,
                 last_in |-> 1, last_out |-> 1]
    BY <2>1, ZenonT(40) DEF pn_transport
  <2>3. t[c] \in LocalIdle /\ 0 \in RemoteIdle \cup {0}
    BY <2>1
  <2> QED
    BY <2>2, <2>3 DEF TrType
<1>9. tr \in [Conns -> TrType]
  BY <1>7, <1>8, Zenon
<1>10. Types
  BY <1>1, <1>2, <1>4, <1>5, <1>6, <1>9, SMTT(30) DEF Types
<1>11. Deadlines(m) = {} /\ HeapRight(m)
  BY <1>3 DEF Deadlines, HeapRight
<1>12. ManagerInv
  BY <1>1, <1>3, <1>11 DEF ManagerInv, TimerfdRight, ArmedFor
<1>13. \A c \in Conns : td(c) = <<c, 0>> /\ timer[c].deadline = 0 /\ timer[c].td = 0
  BY <1>2, Zenon DEF td
<1>14. MemoryInv
  <2>1. \A c \in Conns : Owned(c)
    <3> TAKE c \in Conns
    <3>1. <<c, 0>> \in Conns \X {0} /\ <<c, 0>> \in TDs /\ <<c, 1>> \notin Conns \X {0}
      BY DEF TDs
    <3>2. <<c, 0>> \in m.live /\ m.parent[<<c, 0>>] /\ <<c, 1>> \notin m.live
      BY <1>3, <3>1, ZenonT(40)
    <3> QED
      BY <1>6, <1>13, <3>2 DEF Owned
  <2>2. \A d \in m.live : d[1] \in Conns /\ d[2] = 0 /\ m.parent[d]
    BY <1>3, ZenonT(40) DEF TDs
  <2> QED
    BY <1>1, <1>3, <1>6, <1>13, <2>1, <2>2, ZenonT(40) DEF MemoryInv
<1>15. \A c \in Conns : ConnRight(c)
  <2> TAKE c \in Conns
  <2>1. TickRight(tr[c], 1) /\ next_tick(tr[c]) = 0
    BY <1>8, TrNumbers DEF TickRight, next_tick, pn_timestamp_min
  <2>2. m.list_deadline[td(c)] = 0
    BY <1>3, <1>13 DEF TDs
  <2>3. Ordered(tr[c], 0, 0, 0, "idle")
    BY <2>1, SMTT(30) DEF Ordered
  <2> QED
    BY <1>1, <1>6, <1>13, <2>1, <2>2, <2>3, ZenonT(40) DEF ConnRight
<1> QED
  BY <1>1, <1>10, <1>12, <1>14, <1>15 DEF IInv, SequenceInv

\* What DeadOnlyIfSilent says of a step.
Silent ==
  \A c \in Conns :
    tr'[c].posted_idle_timeout /\ ~tr[c].posted_idle_timeout =>
      now - tr[c].last_in >= tr[c].local_idle_timeout

\* The thread of a connection does not touch the transports of others.
LEMMA OtherTransports ==
  ASSUME IInv, NEW c \in Conns, ConnStep(c)
  PROVE  \A e \in Conns \ {c} : tr'[e] = tr[e]
<1>1. tr \in [Conns -> TrType]
  BY DEF IInv, Types
<1> QED
  BY <1>1, ZenonT(40) DEF ConnStep, pconnection_process, pconnection_tick,
       expect_timeout, pni_timer_set,
       replace_timer_deadline, Output, pconnection_done, pconnection_cleanup,
       pni_timer_cancel, pni_timer_free

\* Every step of a connection's thread keeps the invariant.
LEMMA ConnStepIInv ==
  ASSUME IInv, NEW c \in Conns, ConnStep(c)
  PROVE  IInv' /\ Silent
<1> SUFFICES /\ IInv'
             /\ tr'[c].posted_idle_timeout /\ ~tr[c].posted_idle_timeout =>
                  now - tr[c].last_in >= tr[c].local_idle_timeout
  BY OtherTransports, Zenon DEF Silent
<1>1. CASE \E r \in RemoteIdle \cup {0}, sched \in BOOLEAN, input \in BOOLEAN :
             pconnection_process(c, sched, input, r)
  BY <1>1, ProcessIInv
<1>2. CASE pconnection_tick(c)
  BY <1>2, TickIInv
<1>3. CASE expect_timeout(c)
  BY <1>3, ExpectIInv, Zenon DEF expect_timeout
<1>4. CASE pni_timer_set(c)
  BY <1>4, SetIInv, Zenon DEF pni_timer_set
<1>5. CASE replace_timer_deadline(c)
  BY <1>5, ReplaceIInv, Zenon DEF replace_timer_deadline
<1>6. CASE \E close \in BOOLEAN : Output(c, close)
  BY <1>6, OutputIInv
<1>7. CASE \E finished \in BOOLEAN : pconnection_done(c, finished)
  BY <1>7, DoneIInv
<1>8. CASE pconnection_cleanup(c)
  BY <1>8, CleanupIInv, Zenon DEF pconnection_cleanup
<1>9. CASE pni_timer_cancel(c)
  BY <1>9, CancelIInv, Zenon DEF pni_timer_cancel
<1>10. CASE pni_timer_free(c)
  BY <1>10, FreeIInv, Zenon DEF pni_timer_free
<1> QED
  BY <1>1, <1>2, <1>3, <1>4, <1>5, <1>6, <1>7, <1>8, <1>9, <1>10, ZenonT(40)
    DEF ConnStep

\* Every step of the manager's thread keeps the invariant.
LEMMA ManagerStepIInv ==
  ASSUME IInv, ManagerStep
  PROVE  IInv' /\ tr' = tr
<1>1. CASE \E timeout \in BOOLEAN, sched_ready \in BOOLEAN :
             pni_timer_manager_process(timeout, sched_ready)
  BY <1>1, ProcessManagerIInv
<1>2. CASE pni_proactor_timeout
  BY <1>2, ProactorTimeoutIInv
<1>3. CASE free_orphan
  BY <1>3, OrphanIInv
<1>4. CASE pni_pconnection_timeout
  BY <1>4, ConnectionTimeoutIInv
<1>5. CASE scan_done
  BY <1>5, ScanDoneIInv
<1>6. CASE \E d \in TDs : scan(d)
  BY <1>6, ScanIInv
<1> QED
  BY <1>1, <1>2, <1>3, <1>4, <1>5, <1>6 DEF ManagerStep

\* Every step keeps the invariant, and gives up only silent peers.
LEMMA NextIInv ==
  ASSUME IInv, [Next]_vars
  PROVE  IInv' /\ (vars' = vars \/ Silent)
<1> DEFINE Quiet == IInv' /\ tr' = tr
<1>1. Quiet => IInv' /\ Silent
  BY DEF Silent
<1>2. CASE \E c \in Conns : ConnStep(c)
  BY <1>2, ConnStepIInv
<1>3. CASE \/ \E t \in Timeouts : pn_proactor_set_timeout(t)
           \/ pn_proactor_cancel_timeout \/ proactor_process
           \/ proactor_batch_next \/ pn_proactor_done
  BY <1>1, <1>3, ProactorIInv
<1>4. CASE set_proactor_timer
  BY <1>1, <1>4, SetProactorTimerIInv
<1>5. CASE Poll
  BY <1>1, <1>5, PollIInv
<1>6. CASE ManagerStep
  BY <1>1, <1>6, ManagerStepIInv
<1>7. CASE Advance
  BY <1>1, <1>7, AdvanceIInv
<1>8. CASE UNCHANGED vars
  <2>1. UNCHANGED <<now, tr, pc, timer, m, mgr, p>>
    BY <1>8 DEF vars
  <2>2. p' \in PType
    BY <2>1, ZenonT(40) DEF IInv, Types
  <2> QED
    BY <1>8, <2>1, <2>2, ProactorFrame
<1> QED
  BY <1>2, <1>3, <1>4, <1>5, <1>6, <1>7, <1>8, SMTT(30) DEF Next

\* The invariant implies the memory safety of the timers.
LEMMA IInvSafe == IInv => TimersSafe
<1> SUFFICES ASSUME IInv PROVE TimersSafe
  OBVIOUS
<1>1. TypeOK
  BY DEF IInv, Types, TrType, PcType, PType, MType, MgrType, TypeOK
<1>2. NoSequencingError
  BY DEF IInv, SequenceInv, ConnRight, NoSequencingError
<1> QED
  BY <1>1, <1>2 DEF IInv, ManagerInv, HeapRight, MemoryInv, TimersSafe

\* The invariant implies that the timerfd is armed.
LEMMA IInvArmed == IInv => Armed
<1> SUFFICES ASSUME IInv PROVE Armed
  OBVIOUS
<1>1. ArmedFor(m) /\ m \in MType /\ HeapRight(m)
  BY DEF IInv, ManagerInv, Types
<1>2. CASE m.working \/ Deadlines(m) = {} \/ m.ready \/ m.sched_io
  BY <1>2 DEF Armed
<1>3. CASE ~(m.working \/ Deadlines(m) = {} \/ m.ready \/ m.sched_io)
  <2>1. Earliest(m) \in Deadlines(m) /\ Earliest(m) \in Nat
    BY <1>1, <1>3, EarliestIs
  <2>2. /\ m.polling /\ m.timerfd = m.timerfd_deadline /\ m.timerfd_deadline # 0
        /\ m.timerfd_deadline <= Earliest(m) /\ m.timerfd_deadline \in Nat
    BY <1>1, <1>3, <2>1 DEF ArmedFor, MType
  <2>3. m.timerfd_deadline \in 1 .. Earliest(m)
    BY <2>1, <2>2
  <2> QED
    BY <2>2, <2>3 DEF Armed
<1> QED
  BY <1>2, <1>3

\* The invariant holds of every state, for any connections, idle timeouts and
\* bounds.
THEOREM Invariance == Spec => []IInv
<1>1. IInv /\ [Next]_vars => IInv'
  BY NextIInv
<1> QED
  BY <1>1, InitIInv, PTL DEF Spec

\* The memory of the timers (TimersSafe): no timer_deadline_t is used after it was
\* freed, freed twice or leaked by replace_timer_deadline, pni_timer_free and
\* pni_timer_manager_process, no timeout is called for a connection that is gone,
\* and "idle timeout sequencing error" is never reached.
THEOREM TimersAreSafe == Spec => []TimersSafe
  BY Invariance, IInvSafe, PTL

\* adjust_deadline (Armed): whenever the manager is not at work it has been woken
\* or its timerfd is set, and polled, for no later than the earliest deadline.
THEOREM TimerfdArmed == Spec => []Armed
  BY Invariance, IInvArmed, PTL

\* pn_tick_amqp (DeadOnlyIfSilent): a peer is given up only after a silence of the
\* whole local idle timeout.
THEOREM OnlyTheSilentAreDead == Spec => DeadOnlyIfSilent
<1>1. IInv /\ [Next]_vars => [Silent]_vars
  BY NextIInv
<1>2. Silent => \A c \in Conns :
        tr'[c].posted_idle_timeout /\ ~tr[c].posted_idle_timeout =>
          now - tr[c].last_in >= tr[c].local_idle_timeout
  BY DEF Silent
<1> QED
  BY <1>1, Invariance, PTL DEF Spec, DeadOnlyIfSilent, Silent

-----------------------------------------------------------------------------
(* The idle timeouts *)

\* Of a connection whose ticks are not late: the peer's deadline has not passed, and
\* is not more than two local idle timeouts after the last input, or one if that input
\* has not been noticed by a tick.
Hears(t, at, n) ==
  /\ t.dead_remote_deadline # 0 => n <= t.dead_remote_deadline
  /\ t.posted_idle_timeout \/ t.dead_remote_deadline <= t.last_in + 2 * t.local_idle_timeout
  /\ t.unseen_input => t.dead_remote_deadline <= t.last_in + t.local_idle_timeout
  /\ at = "tick" /\ t.dead_remote_deadline = 0 /\ t.local_idle_timeout # 0 => t.last_in = n

\* The keepalive deadline has not passed either; it exists from the tick after the
\* peer's open on; it is at most the peer's idle timeout after the last output, or half
\* of it if a tick has not noticed that output, or there is output in the buffer, which
\* will be written before the thread of the connection stops.
Speaks(t, at, n) ==
  /\ t.keepalive_deadline # 0 /\ ~t.close_sent => n <= t.keepalive_deadline
  /\ t.remote_idle_timeout # 0 =>
       t.keepalive_deadline # 0 \/ t.close_sent \/ (at = "tick" /\ t.last_out = n)
  /\ \/ t.keepalive_deadline <= t.last_out + t.remote_idle_timeout
     \/ at # "idle" /\ t.output_buffer # 0
  /\ t.unseen_output = 1 =>
       t.keepalive_deadline <= t.last_out + t.remote_idle_timeout \div 2
  /\ t.unseen_output = -1 => at \notin {"idle", "tick"} /\ t.output_buffer # 0

\* A timeout is expected only after a tick, which sets the peer's deadline.
Unticked(t, x) ==
  t.local_idle_timeout # 0 /\ t.dead_remote_deadline = 0 =>
    ~x.tick_pending /\ x.expected_timeout = 0 /\ x.at # "expect"

\* What makes IdleTimeoutsKept inductive, for one connection and for all.
Prompt(c) ==
  /\ Unticked(tr[c], pc[c])
  /\ ~pc[c].late => Hears(tr[c], pc[c].at, now) /\ Speaks(tr[c], pc[c].at, now)

IdleInv == \A c \in Conns : Prompt(c)

\* The thread moves on, without a tick and without stopping.
LEMMA PromptMove ==
  ASSUME NEW t, NEW n, NEW a, NEW b, Hears(t, a, n), Speaks(t, a, n),
         a # "tick", b \notin {"idle", "tick"}
  PROVE  Hears(t, b, n) /\ Speaks(t, b, n)
  BY DEF Hears, Speaks

\* The thread sets out, for a tick only if one has set the peer's deadline before.
LEMMA PromptStart ==
  ASSUME NEW t, NEW n, NEW at, Hears(t, "idle", n), Speaks(t, "idle", n),
         at = "tick" => t.local_idle_timeout = 0 \/ t.dead_remote_deadline # 0
  PROVE  Hears(t, at, n) /\ Speaks(t, at, n)
  BY DEF Hears, Speaks

\* The first half of pn_tick_amqp.
LEMMA PromptCheck ==
  ASSUME NEW t \in TrType, NEW n \in Nat \ {0}, TickRight(t, n),
         Hears(t, "tick", n), Speaks(t, "tick", n), NEW at, at # "tick"
  PROVE  LET u == check_remote(t, n)
         IN  /\ Hears(u, at, n) /\ Speaks(u, "tick", n)
             /\ u.unseen_output = t.unseen_output /\ u.output_buffer = t.output_buffer
<1> DEFINE l == t.local_idle_timeout
           x == n + l
           v == [t EXCEPT !.dead_remote_deadline = x, !.unseen_input = FALSE]
           z == [t EXCEPT !.dead_remote_deadline = x, !.posted_idle_timeout = TRUE]
           u == check_remote(t, n)
<1>1. l \in Nat /\ x \in Nat /\ x # 0 /\ t.dead_remote_deadline \in Nat /\ t.last_in \in Nat
  BY TrNumbers
<1>2. t.dead_remote_deadline <= x /\ t.last_in <= n /\ x = n + l
  BY DEF TickRight
<1> HIDE DEF x
<1>3. \A y \in {t, v, z} :
        /\ y.local_idle_timeout = l /\ y.last_in = t.last_in
        /\ y.remote_idle_timeout = t.remote_idle_timeout
        /\ y.close_sent = t.close_sent /\ y.keepalive_deadline = t.keepalive_deadline
        /\ y.unseen_output = t.unseen_output /\ y.output_buffer = t.output_buffer
        /\ y.last_out = t.last_out
  BY ZenonT(40) DEF TrType
<1>4. /\ v.dead_remote_deadline = x /\ v.posted_idle_timeout = t.posted_idle_timeout
      /\ v.unseen_input = FALSE
      /\ z.dead_remote_deadline = x /\ z.posted_idle_timeout /\ z.unseen_input = t.unseen_input
  BY ZenonT(40) DEF TrType
<1>5. u = IF l = 0 THEN t
          ELSE IF t.dead_remote_deadline = 0 \/ t.unseen_input THEN v
          ELSE IF t.dead_remote_deadline <= n THEN z ELSE t
  BY DEF check_remote, x
<1> HIDE DEF v, z, u
<1>6. Speaks(u, "tick", n) /\ u.unseen_output = t.unseen_output
      /\ u.output_buffer = t.output_buffer
  BY <1>3, <1>5 DEF Speaks
<1>7. CASE u = t
  <2>1. l = 0 \/ t.dead_remote_deadline # 0
    BY <1>1, <1>3, <1>4, <1>5, <1>7
  <2> QED
    BY <1>6, <1>7, <2>1 DEF Hears, u
<1>8. CASE l # 0 /\ (t.dead_remote_deadline = 0 \/ t.unseen_input) /\ u = v
  <2>1. t.posted_idle_timeout \/ x <= t.last_in + 2 * l
    BY <1>1, <1>2, <1>8 DEF Hears
  <2>2. Hears(u, at, n)
    BY <1>1, <1>2, <1>3, <1>4, <1>8, <2>1 DEF Hears
  <2> QED
    BY <1>6, <2>2 DEF u
<1>9. CASE l # 0 /\ ~(t.dead_remote_deadline = 0 \/ t.unseen_input) /\ u = z
  <2>1. Hears(u, at, n)
    BY <1>1, <1>2, <1>3, <1>4, <1>9 DEF Hears
  <2> QED
    BY <1>6, <2>1 DEF u
<1> QED
  BY <1>5, <1>7, <1>8, <1>9

\* The second half.
LEMMA PromptKeepalive ==
  ASSUME NEW t \in TrType, NEW n \in Nat \ {0}, TickRight(t, n),
         Speaks(t, "tick", n), NEW at, at \notin {"idle", "tick"}, Hears(t, at, n)
  PROVE  LET u == keepalive(t, n) IN Hears(u, at, n) /\ Speaks(u, at, n)
<1> DEFINE h == t.remote_idle_timeout \div 2
           x == n + h
           later == [t EXCEPT !.keepalive_deadline = x]
           seen == [later EXCEPT !.unseen_output = 0]
           empty == [later EXCEPT !.output_buffer = 1, !.unseen_output = -1]
           u == keepalive(t, n)
           r == t.remote_idle_timeout
<1>1. /\ h \in Nat /\ r \in Nat /\ h + h <= r /\ x \in Nat /\ x # 0 /\ x = n + h
      /\ t.keepalive_deadline \in Nat /\ t.keepalive_deadline <= x /\ t.last_out \in Nat
  BY TrNumbers DEF TickRight
<1>2. u = IF r = 0 \/ t.close_sent THEN t
          ELSE IF t.keepalive_deadline = 0 \/ t.unseen_output # 0 THEN seen
          ELSE IF t.keepalive_deadline > n THEN t
          ELSE IF t.output_buffer # 0 THEN later ELSE empty
  BY DEF keepalive
<1> HIDE DEF x, h
<1>3. later \in TrType
  BY <1>1 DEF TrType
<1>4. \A y \in {later, seen, empty} :
        /\ y.local_idle_timeout = t.local_idle_timeout /\ y.last_in = t.last_in
        /\ y.dead_remote_deadline = t.dead_remote_deadline
        /\ y.unseen_input = t.unseen_input /\ y.posted_idle_timeout = t.posted_idle_timeout
        /\ y.remote_idle_timeout = r /\ y.close_sent = t.close_sent
        /\ y.keepalive_deadline = x /\ y.last_out = t.last_out
  BY <1>1, <1>3, ZenonT(40) DEF TrType
<1>5. /\ later.unseen_output = t.unseen_output /\ later.output_buffer = t.output_buffer
      /\ seen.unseen_output = 0 /\ seen.output_buffer = t.output_buffer
      /\ empty.unseen_output = -1 /\ empty.output_buffer = 1
  BY <1>3, ZenonT(40) DEF TrType
<1>6. t.unseen_output \in {-1, 0, 1}
  BY DEF TrType
<1> HIDE DEF later, seen, empty, u, r
<1>7. Hears(u, at, n)
  BY <1>2, <1>4 DEF Hears
<1>8. CASE u = t /\ (r = 0 \/ t.close_sent \/ t.keepalive_deadline # 0)
  BY <1>7, <1>8 DEF Speaks, u, r
<1>9. CASE /\ r # 0 /\ ~t.close_sent /\ u = seen
           /\ t.keepalive_deadline = 0 \/ t.unseen_output # 0
  <2>1. t.keepalive_deadline # 0 => t.unseen_output = 1
    BY <1>6, <1>9 DEF Speaks
  <2>2. x <= t.last_out + r
    BY <1>1, <1>9, <2>1 DEF Speaks, r, h
  <2>3. Speaks(u, at, n)
    BY <1>1, <1>4, <1>5, <1>9, <2>2 DEF Speaks
  <2> QED
    BY <1>7, <2>3 DEF u
<1>10. CASE /\ r # 0 /\ ~t.close_sent /\ u = later /\ t.output_buffer # 0
            /\ t.unseen_output = 0
  <2>1. Speaks(u, at, n)
    BY <1>1, <1>4, <1>5, <1>10 DEF Speaks
  <2> QED
    BY <1>7, <2>1 DEF u
<1>11. CASE r # 0 /\ ~t.close_sent /\ u = empty
  <2>1. Speaks(u, at, n)
    BY <1>1, <1>4, <1>5, <1>11 DEF Speaks
  <2> QED
    BY <1>7, <2>1 DEF u
<1> QED
  BY <1>1, <1>2, <1>8, <1>9, <1>10, <1>11

\* pn_tick_amqp as a whole.
LEMMA PromptTick ==
  ASSUME NEW t \in TrType, NEW n \in Nat \ {0}, TickRight(t, n),
         Hears(t, "tick", n), Speaks(t, "tick", n), NEW at, at \notin {"idle", "tick"}
  PROVE  LET u == pn_tick_amqp(t, n) IN Hears(u, at, n) /\ Speaks(u, at, n)
<1> DEFINE v == check_remote(t, n)
<1>1. v \in TrType /\ TickRight(v, n)
  BY CheckRemoteIs
<1>2. Hears(v, at, n) /\ Speaks(v, "tick", n)
  BY PromptCheck
<1>3. pn_tick_amqp(t, n) = keepalive(v, n)
  BY DEF pn_tick_amqp
<1> HIDE DEF v
<1> QED
  BY <1>1, <1>2, <1>3, PromptKeepalive

\* read_done, with the move to the tick that follows the input.
LEMMA PromptRead ==
  ASSUME NEW t \in TrType, NEW n \in Nat, NEW r \in RemoteIdle \cup {0}, TickRight(t, n),
         r # 0 => t.remote_idle_timeout = 0,
         Hears(t, "idle", n), Speaks(t, "idle", n), NEW at, at # "idle",
         LET u == read_done(t, r, n)
         IN  at = "tick" \/ (u.local_idle_timeout = 0 /\ u.remote_idle_timeout = 0)
  PROVE  LET u == read_done(t, r, n)
         IN  Hears(u, at, n) /\ Speaks(u, at, n)
<1> DEFINE u == read_done(t, r, n)
<1>1. /\ u.dead_remote_deadline = t.dead_remote_deadline
      /\ u.keepalive_deadline = t.keepalive_deadline
      /\ u.local_idle_timeout = t.local_idle_timeout
      /\ u.remote_idle_timeout = IF r = 0 THEN t.remote_idle_timeout ELSE r
      /\ u.last_in = n /\ u.unseen_input = TRUE /\ u.close_sent = t.close_sent
      /\ u.last_out = IF r = 0 THEN t.last_out ELSE n
      /\ u.posted_idle_timeout = t.posted_idle_timeout
      /\ u.unseen_output = t.unseen_output /\ u.output_buffer = t.output_buffer
  BY ZenonT(40) DEF read_done, TrType
<1>2. /\ t.dead_remote_deadline \in Nat /\ t.local_idle_timeout \in Nat
      /\ t.keepalive_deadline \in Nat /\ u.remote_idle_timeout \in Nat
      /\ t.remote_idle_timeout \in Nat /\ t.last_out \in Nat
      /\ t.remote_idle_timeout \div 2 \in Nat
  BY <1>1, TrNumbers, TimersConstants, Zenon
<1>3. t.dead_remote_deadline <= n + t.local_idle_timeout
  BY DEF TickRight
<1>4. /\ t.keepalive_deadline <= n + t.remote_idle_timeout \div 2
      /\ t.keepalive_deadline # 0 => t.remote_idle_timeout # 0
  BY DEF TickRight
<1> HIDE DEF u
<1>5. Hears(u, at, n)
  BY <1>1, <1>2, <1>3 DEF Hears
<1>6. Speaks(u, at, n)
  <2>1. CASE r = 0
    BY <1>1, <2>1 DEF Speaks, u
  <2>2. CASE r # 0
    <3>1. t.keepalive_deadline = 0 /\ u.remote_idle_timeout # 0 /\ u.last_out = n
      BY <1>1, <1>4, <2>2
    <3> QED
      BY <1>1, <1>2, <3>1 DEF Speaks, u
  <2> QED
    BY <2>1, <2>2
<1> QED
  BY <1>5, <1>6 DEF u

\* write_done, with which the thread stops or goes on to the cleanup.
LEMMA PromptWrite ==
  ASSUME NEW t \in TrType, NEW n \in Nat, TickRight(t, n),
         Hears(t, "work", n), Speaks(t, "work", n), NEW at \in {"idle", "cleanup"}
  PROVE  LET u == write_done(t, n)
         IN  Hears(u, at, n) /\ Speaks(u, at, n)
<1> DEFINE u == write_done(t, n)
           o == IF t.unseen_output + t.output_buffer > 1 THEN 1
                ELSE t.unseen_output + t.output_buffer
<1>1. CASE t.output_buffer = 0
  BY <1>1 DEF write_done, Hears, Speaks
<1>2. CASE t.output_buffer # 0
  <2>1. o \in {0, 1}
    BY <1>2 DEF TrType
  <2>2. u = [t EXCEPT !.unseen_output = o, !.output_buffer = 0, !.last_out = n]
    BY <1>2 DEF write_done
  <2> HIDE DEF o
  <2>3. /\ u.dead_remote_deadline = t.dead_remote_deadline
        /\ u.keepalive_deadline = t.keepalive_deadline
        /\ u.local_idle_timeout = t.local_idle_timeout
        /\ u.remote_idle_timeout = t.remote_idle_timeout
        /\ u.last_in = t.last_in /\ u.unseen_input = t.unseen_input
        /\ u.close_sent = t.close_sent /\ u.posted_idle_timeout = t.posted_idle_timeout
        /\ u.unseen_output = o /\ u.output_buffer = 0 /\ u.last_out = n
    BY <2>1, <2>2, ZenonT(40) DEF TrType
  <2> HIDE DEF u
  <2>4. /\ t.keepalive_deadline <= n + t.remote_idle_timeout \div 2
        /\ t.keepalive_deadline \in Nat /\ t.remote_idle_timeout \in Nat
    BY TrNumbers DEF TickRight
  <2>5. Hears(u, at, n)
    BY <2>3 DEF Hears
  <2>6. Speaks(u, at, n)
    BY <2>1, <2>3, <2>4 DEF Speaks
  <2> QED
    BY <2>5, <2>6 DEF u
<1> QED
  BY <1>1, <1>2

\* pconnection_process keeps the idle timeouts.
LEMMA ProcessIdle ==
  ASSUME IInv, IdleInv, NEW c \in Conns, NEW sched \in BOOLEAN, NEW input \in BOOLEAN,
         NEW r \in RemoteIdle \cup {0}, pconnection_process(c, sched, input, r)
  PROVE  IdleInv'
<1> DEFINE b == IF input THEN read_done(tr[c], r, now) ELSE tr[c]
           a == [pc[c] EXCEPT !.working = TRUE, !.tick_pending = FALSE,
                              !.ready = @ /\ ~sched]
           at == IF a.closing /\ pconnection_is_final(a) THEN "cleanup"
                 ELSE IF (input \/ pc[c].tick_pending)
                         /\ (b.local_idle_timeout # 0 \/ b.remote_idle_timeout # 0)
                 THEN "tick" ELSE "work"
           x == [a EXCEPT !.at = at]
<1>1. /\ pc[c].at = "idle" /\ tr' = [tr EXCEPT ![c] = b]
      /\ pc' = [pc EXCEPT ![c] = x]
      /\ r # 0 => input /\ tr[c].remote_idle_timeout = 0
      /\ input => ~pc[c].closing
      /\ now' = now
  BY DEF pconnection_process
<1>2. tr[c] \in TrType /\ pc[c] \in PcType /\ now \in Nat /\ TickRight(tr[c], now)
  BY TdIs DEF IInv, Types, SequenceInv, ConnRight
<1>3. a \in PcType /\ a.closing = pc[c].closing /\ a.late = pc[c].late
      /\ a.expected_timeout = pc[c].expected_timeout /\ a.tick_pending = FALSE
  BY <1>2, ZenonT(40) DEF PcType
<1>4. /\ at \in {"cleanup", "tick", "work"}
      /\ input => at = "tick" \/ (b.local_idle_timeout = 0 /\ b.remote_idle_timeout = 0)
      /\ at = "tick" => input \/ pc[c].tick_pending
  BY <1>1, <1>3
<1> HIDE DEF a, at
<1>5. /\ x.at = at /\ x.late = pc[c].late /\ x.tick_pending = FALSE
      /\ x.expected_timeout = pc[c].expected_timeout
  BY <1>3, <1>4, ZenonT(40) DEF PcType
<1> HIDE DEF x
<1>6. tr'[c] = b /\ pc'[c] = x /\ \A e \in Conns \ {c} : pc'[e] = pc[e] /\ tr'[e] = tr[e]
  BY <1>1 DEF IInv, Types
<1>7. \A e \in Conns \ {c} : Prompt(e)'
  BY <1>1, <1>6 DEF IdleInv, Prompt
<1>8. Prompt(c)
  BY DEF IdleInv
<1>9. Unticked(b, x)
  <2>1. /\ b.local_idle_timeout = tr[c].local_idle_timeout
        /\ b.dead_remote_deadline = tr[c].dead_remote_deadline
    BY <1>2, ZenonT(40) DEF read_done, TrType
  <2> QED
    BY <1>4, <1>5, <1>8, <2>1, Zenon DEF Prompt, Unticked
<1>10. ~x.late => Hears(b, at, now) /\ Speaks(b, at, now)
  <2> SUFFICES ASSUME ~pc[c].late PROVE Hears(b, at, now) /\ Speaks(b, at, now)
    BY <1>5
  <2>1. Hears(tr[c], "idle", now) /\ Speaks(tr[c], "idle", now)
    BY <1>1, <1>8 DEF Prompt
  <2>2. CASE input
    BY <1>1, <1>2, <1>4, <2>1, <2>2, PromptRead
  <2>3. CASE ~input
    <3>1. b = tr[c] /\ (at = "tick" => pc[c].tick_pending)
      BY <1>4, <2>3
    <3>2. at = "tick" => tr[c].local_idle_timeout = 0 \/ tr[c].dead_remote_deadline # 0
      BY <1>8, <3>1 DEF Prompt, Unticked
    <3> HIDE DEF b
    <3> QED
      BY <2>1, <3>1, <3>2, PromptStart
  <2> QED
    BY <2>2, <2>3
<1>11. Prompt(c)'
  BY <1>1, <1>5, <1>6, <1>9, <1>10 DEF Prompt
<1> QED
  BY <1>7, <1>11 DEF IdleInv

\* pconnection_tick keeps them.
LEMMA TickIdle ==
  ASSUME IInv, IdleInv, NEW c \in Conns, pconnection_tick(c)
  PROVE  IdleInv'
<1> DEFINE u == pn_tick_amqp(tr[c], now)
           at == IF next_tick(u) = 0 THEN "work" ELSE "expect"
           v == check_remote(tr[c], now)
<1>1. /\ pc[c].at = "tick" /\ tr' = [tr EXCEPT ![c] = u]
      /\ pc' = [pc EXCEPT ![c].next = next_tick(u), ![c].at = at]
      /\ now' = now
  BY DEF pconnection_tick
<1>2. /\ tr[c] \in TrType /\ pc[c] \in PcType /\ now \in Nat \ {0}
      /\ TickRight(tr[c], now)
  <2>1. tr[c] \in TrType /\ pc[c] \in PcType
    BY TdIs, Zenon DEF IInv
  <2>2. now \in Nat \ {0}
    BY DEF IInv, Types, SequenceInv
  <2>3. TickRight(tr[c], now)
    BY Zenon DEF IInv, SequenceInv, ConnRight
  <2> QED
    BY <2>1, <2>2, <2>3, Zenon
<1>3. v \in TrType /\ TickRight(v, now) /\ (v.local_idle_timeout # 0 => v.dead_remote_deadline # 0)
  BY <1>2, CheckRemoteIs, Zenon
<1>4. u = keepalive(v, now)
  BY DEF pn_tick_amqp
<1> HIDE DEF v
<1>5. u.local_idle_timeout # 0 => u.dead_remote_deadline # 0
  BY <1>2, <1>3, <1>4, KeepaliveIs
<1>6. ~pc[c].late => Hears(u, at, now) /\ Speaks(u, at, now)
  BY <1>1, <1>2, PromptTick DEF IdleInv, Prompt
<1> HIDE DEF u, at
<1>7. /\ tr'[c] = u /\ pc'[c].at = at /\ pc'[c].late = pc[c].late
      /\ \A e \in Conns \ {c} : pc'[e] = pc[e] /\ tr'[e] = tr[e]
  BY <1>1, <1>2 DEF IInv, Types, PcType
<1>8. \A e \in Conns \ {c} : Prompt(e)'
  BY <1>1, <1>7, Zenon DEF IdleInv, Prompt
<1>9. Prompt(c)'
  BY <1>1, <1>5, <1>6, <1>7 DEF Prompt, Unticked
<1> QED
  BY <1>8, <1>9 DEF IdleInv

\* A step that leaves time and transports alone keeps them if it moves no thread to
\* where it stops or ticks, and expects no timeout before there has been a tick.
LEMMA MoveIdle ==
  ASSUME IdleInv, UNCHANGED <<now, tr>>,
         \A c \in Conns : pc'[c] = pc[c] \/
           /\ pc'[c].late = pc[c].late /\ Unticked(tr[c], pc'[c])
           /\ \/ pc'[c].at = pc[c].at
              \/ pc[c].at # "tick" /\ pc'[c].at \notin {"idle", "tick"}
  PROVE  IdleInv'
<1> SUFFICES ASSUME NEW c \in Conns PROVE Prompt(c)'
  BY DEF IdleInv
<1>1. Prompt(c)
  BY DEF IdleInv
<1>2. CASE pc'[c] = pc[c]
  BY <1>1, <1>2 DEF Prompt
<1>3. CASE /\ pc'[c].late = pc[c].late /\ Unticked(tr[c], pc'[c])
           /\ pc'[c].at = pc[c].at
  BY <1>1, <1>3, Zenon DEF Prompt
<1>4. CASE /\ pc'[c].late = pc[c].late /\ Unticked(tr[c], pc'[c])
           /\ pc[c].at # "tick" /\ pc'[c].at \notin {"idle", "tick"}
  BY <1>1, <1>4, PromptMove, Zenon DEF Prompt
<1> QED
  BY <1>2, <1>3, <1>4

\* The steps of a connection's thread between tick and work, and after the cleanup.
LEMMA ThreadIdle ==
  ASSUME IInv, IdleInv, NEW c \in Conns,
         \/ expect_timeout(c) \/ pni_timer_set(c) \/ replace_timer_deadline(c)
         \/ pconnection_cleanup(c) \/ pni_timer_cancel(c) \/ pni_timer_free(c)
  PROVE  IdleInv'
<1>1. UNCHANGED <<now, tr>>
  BY DEF expect_timeout, pni_timer_set, replace_timer_deadline, pconnection_cleanup,
         pni_timer_cancel, pni_timer_free
<1>2. pc \in [Conns -> PcType] /\ pc[c] \in PcType /\ Prompt(c)
  BY DEF IInv, Types, IdleInv
<1>3. CASE expect_timeout(c)
  <2>1. pc[c].at = "expect"
        /\ pc' = [pc EXCEPT ![c].expected_timeout = pc[c].next, ![c].at = "set"]
    BY <1>3 DEF expect_timeout
  <2>2. /\ \A e \in Conns \ {c} : pc'[e] = pc[e]
        /\ pc'[c].late = pc[c].late /\ pc'[c].at = "set"
    BY <1>2, <2>1 DEF PcType
  <2>3. Unticked(tr[c], pc'[c])
    BY <1>2, <2>1 DEF Prompt, Unticked
  <2> QED
    BY <1>1, <2>1, <2>2, <2>3, MoveIdle, Zenon
<1>4. CASE ~expect_timeout(c)
  <2>1. PICK n \in Nat, at \in {"work", "replace", "fatal", "free", "free_td", "freed"} :
          /\ pc[c].at \notin {"tick", "idle"}
          /\ pc' = [pc EXCEPT ![c].next = n, ![c].at = at]
    <3>1. CASE pni_timer_set(c)
      BY <1>2, <3>1, Zenon DEF pni_timer_set, PcType
    <3>2. CASE replace_timer_deadline(c)
      BY <3>2, Zenon DEF replace_timer_deadline
    <3>3. CASE pconnection_cleanup(c) \/ pni_timer_cancel(c) \/ pni_timer_free(c)
      <4>1. PICK at \in {"free", "free_td", "freed"} :
              pc[c].at \notin {"tick", "idle"} /\ pc' = [pc EXCEPT ![c].at = at]
        BY <3>3 DEF pconnection_cleanup, pni_timer_cancel, pni_timer_free
      <4>2. pc[c].next \in Nat
        BY <1>2 DEF PcType
      <4>3. pc' = [pc EXCEPT ![c].next = pc[c].next, ![c].at = at]
        BY <1>2, <4>1, ZenonT(40) DEF PcType
      <4> QED
        BY <4>1, <4>2, <4>3, Zenon
    <3> QED
      BY <1>4, <3>1, <3>2, <3>3, Zenon
  <2>2. /\ \A e \in Conns \ {c} : pc'[e] = pc[e]
        /\ pc'[c].late = pc[c].late /\ pc'[c].at = at
        /\ pc'[c].tick_pending = pc[c].tick_pending
        /\ pc'[c].expected_timeout = pc[c].expected_timeout
    BY <1>2, <2>1 DEF PcType
  <2>3. Unticked(tr[c], pc'[c])
    BY <1>2, <2>1, <2>2 DEF Prompt, Unticked
  <2> QED
    BY <1>1, <2>1, <2>2, <2>3, MoveIdle, Zenon
<1> QED
  BY <1>3, <1>4

\* Output keeps them.
LEMMA OutputIdle ==
  ASSUME IInv, IdleInv, NEW c \in Conns, NEW close \in BOOLEAN, Output(c, close)
  PROVE  IdleInv'
<1> DEFINE t == tr[c]
           o == IF t.output_buffer < 2 THEN t.output_buffer + 1 ELSE t.output_buffer
           k == t.close_sent \/ close
<1>1. /\ pc[c].at = "work"
      /\ tr' = [tr EXCEPT ![c].output_buffer = o, ![c].close_sent = k]
      /\ UNCHANGED <<now, pc>>
  BY DEF Output
<1>2. t \in TrType /\ tr \in [Conns -> TrType]
  BY DEF IInv, Types
<1>3. o \in {0, 1, 2} /\ o # 0 /\ k \in BOOLEAN /\ (t.close_sent => k)
  BY <1>2 DEF TrType
<1> HIDE DEF o, k
<1>4. /\ \A e \in Conns \ {c} : tr'[e] = tr[e]
      /\ tr'[c].dead_remote_deadline = t.dead_remote_deadline
      /\ tr'[c].keepalive_deadline = t.keepalive_deadline
      /\ tr'[c].local_idle_timeout = t.local_idle_timeout
      /\ tr'[c].remote_idle_timeout = t.remote_idle_timeout
      /\ tr'[c].last_in = t.last_in /\ tr'[c].unseen_input = t.unseen_input
      /\ tr'[c].last_out = t.last_out /\ tr'[c].unseen_output = t.unseen_output
      /\ tr'[c].posted_idle_timeout = t.posted_idle_timeout
      /\ tr'[c].output_buffer = o /\ tr'[c].close_sent = k
  BY <1>1, <1>2, <1>3, ZenonT(40) DEF TrType
<1>5. Prompt(c)
  BY DEF IdleInv
<1>6. Unticked(tr'[c], pc[c])
  BY <1>4, <1>5 DEF Prompt, Unticked
<1>7. ~pc[c].late => Hears(tr'[c], "work", now) /\ Speaks(tr'[c], "work", now)
  BY <1>1, <1>3, <1>4, <1>5 DEF Prompt, Hears, Speaks
<1>8. Prompt(c)' /\ \A e \in Conns \ {c} : Prompt(e)'
  BY <1>1, <1>4, <1>6, <1>7, Zenon DEF Prompt, IdleInv
<1> QED
  BY <1>8 DEF IdleInv

\* So does pconnection_done, which writes the output before the thread stops.
LEMMA DoneIdle ==
  ASSUME IInv, IdleInv, NEW c \in Conns, NEW finished \in BOOLEAN,
         pconnection_done(c, finished)
  PROVE  IdleInv'
<1> DEFINE u == write_done(tr[c], now)
           a == [pc[c] EXCEPT !.working = FALSE]
           b == [a EXCEPT !.closing = TRUE, !.tick_pending = FALSE]
           at == IF pconnection_is_final(b) THEN "cleanup" ELSE "idle"
           x == IF a.tick_pending THEN [a EXCEPT !.at = "idle", !.ready = TRUE]
                ELSE IF finished \/ a.closing THEN [b EXCEPT !.at = at]
                ELSE [a EXCEPT !.at = "idle"]
<1>1. /\ pc[c].at = "work" /\ tr' = [tr EXCEPT ![c] = u] /\ pc' = [pc EXCEPT ![c] = x]
      /\ now' = now
  BY DEF pconnection_done
<1>2. tr[c] \in TrType /\ pc[c] \in PcType /\ now \in Nat /\ TickRight(tr[c], now)
  BY TdIs DEF IInv, Types, SequenceInv, ConnRight
<1>3. at \in {"cleanup", "idle"}
  OBVIOUS
<1> HIDE DEF at
<1>4. /\ a \in PcType /\ a.late = pc[c].late /\ a.tick_pending = pc[c].tick_pending
      /\ a.expected_timeout = pc[c].expected_timeout
  BY <1>2, ZenonT(40) DEF PcType
<1>5. /\ b \in PcType /\ b.late = pc[c].late /\ b.tick_pending = FALSE
      /\ b.expected_timeout = pc[c].expected_timeout
  BY <1>4, ZenonT(40) DEF PcType
<1> HIDE DEF a, b
<1>6. /\ x.at \in {"cleanup", "idle"} /\ x.late = pc[c].late
      /\ x.expected_timeout = pc[c].expected_timeout
      /\ x.tick_pending => pc[c].tick_pending
  BY <1>3, <1>4, <1>5, SMTT(30) DEF PcType
<1> HIDE DEF x
<1>7. /\ u.local_idle_timeout = tr[c].local_idle_timeout
      /\ u.dead_remote_deadline = tr[c].dead_remote_deadline
  BY <1>2, ZenonT(40) DEF write_done, TrType
<1>8. Prompt(c)
  BY DEF IdleInv
<1>9. ~pc[c].late => Hears(u, x.at, now) /\ Speaks(u, x.at, now)
  BY <1>1, <1>2, <1>6, <1>8, PromptWrite DEF Prompt
<1>10. Unticked(u, x)
  BY <1>6, <1>7, <1>8 DEF Prompt, Unticked
<1> HIDE DEF u
<1>11. tr'[c] = u /\ pc'[c] = x /\ \A e \in Conns \ {c} : pc'[e] = pc[e] /\ tr'[e] = tr[e]
  BY <1>1 DEF IInv, Types
<1>12. Prompt(c)' /\ \A e \in Conns \ {c} : Prompt(e)'
  BY <1>1, <1>6, <1>9, <1>10, <1>11, ZenonT(40) DEF Prompt, IdleInv
<1> QED
  BY <1>12 DEF IdleInv

\* The expiry of a connection's timer asks for a tick only where a timeout is expected.
LEMMA ConnectionTimeoutIdle ==
  ASSUME IInv, IdleInv, pni_pconnection_timeout
  PROVE  IdleInv'
<1> DEFINE c == mgr.c
           due == pc[c].expected_timeout # 0 /\ now >= pc[c].expected_timeout
           rd_ == pc[c].ready \/ ~pc[c].working
           x == [pc[c] EXCEPT !.tick_pending = TRUE, !.expected_timeout = 0, !.ready = rd_]
<1>1. /\ mgr.at = "timeout"
      /\ pc' = IF pc[c].closing \/ ~due THEN pc ELSE [pc EXCEPT ![c] = x]
      /\ UNCHANGED <<now, tr>>
  BY Zenon DEF pni_pconnection_timeout
<1>2. c \in Conns /\ pc \in [Conns -> PcType]
  BY <1>1 DEF IInv, Types, MemoryInv
<1> HIDE DEF c
<1>3. /\ x.at = pc[c].at /\ x.late = pc[c].late /\ x.expected_timeout = 0
  <2>1. pc[c] \in PcType
    BY <1>2
  <2> HIDE DEF rd_
  <2> QED
    BY <2>1, Zenon DEF PcType
<1> HIDE DEF x
<1>4. CASE pc[c].closing \/ ~due
  BY <1>1, <1>4, MoveIdle
<1>5. CASE ~(pc[c].closing \/ ~due)
  <2>1. pc'[c] = x /\ \A e \in Conns \ {c} : pc'[e] = pc[e]
    BY <1>1, <1>2, <1>5
  <2>2. Unticked(tr[c], pc[c])
    BY <1>2 DEF IdleInv, Prompt
  <2>3. Unticked(tr[c], x)
    BY <1>5, <2>2 DEF Unticked
  <2> QED
    BY <1>1, <1>3, <2>1, <2>3, MoveIdle
<1> QED
  BY <1>4, <1>5

\* Time goes on: a deadline passes only for a connection that is late.
LEMMA AdvanceIdle ==
  ASSUME IInv, IdleInv, Advance
  PROVE  IdleInv'
<1> SUFFICES ASSUME NEW c \in Conns PROVE Prompt(c)'
  BY DEF IdleInv
<1> DEFINE lt == \/ pc[c].late \/ pc[c].at # "idle"
                 \/ Due(c) # 0 /\ Due(c) <= now
           t == tr[c]
<1>1. now' = now + 1 /\ tr' = tr /\ pc'[c] = [pc[c] EXCEPT !.late = lt]
  BY DEF Advance
<1>2. now \in Nat /\ pc[c] \in PcType /\ t \in TrType /\ TickRight(t, now) /\ Prompt(c)
  BY TdIs DEF IInv, Types, SequenceInv, ConnRight, IdleInv
<1>3. lt \in BOOLEAN
  BY <1>2 DEF PcType
<1>4. lt \/ (~pc[c].late /\ pc[c].at = "idle" /\ (Due(c) = 0 \/ ~(Due(c) <= now)))
  OBVIOUS
<1> HIDE DEF lt
<1>5. /\ pc'[c].late = lt /\ pc'[c].at = pc[c].at
      /\ pc'[c].tick_pending = pc[c].tick_pending
      /\ pc'[c].expected_timeout = pc[c].expected_timeout
  BY <1>1, <1>2, <1>3, Zenon DEF PcType
<1>6. Unticked(tr'[c], pc'[c])
  BY <1>1, <1>2, <1>5 DEF Prompt, Unticked
<1>7. ASSUME ~lt
      PROVE  Hears(t, "idle", now + 1) /\ Speaks(t, "idle", now + 1)
  <2> DEFINE d == t.dead_remote_deadline
             k == t.keepalive_deadline
  <2>1. /\ d \in Nat /\ k \in Nat /\ t.remote_idle_timeout \in Nat
        /\ t.local_idle_timeout \in Nat
    BY <1>2, TrNumbers
  <2>2. Hears(t, "idle", now) /\ Speaks(t, "idle", now)
    BY <1>2, <1>4, <1>7, Zenon DEF Prompt
  <2>3. d # 0 => t.local_idle_timeout # 0
    BY <1>2 DEF TickRight
  <2>4. k # 0 => t.remote_idle_timeout # 0
    BY <1>2 DEF TickRight
  <2>5. Due(c) = 0 \/ ~(Due(c) <= now)
    BY <1>4, <1>7
  <2>6. Due(c) = pn_timestamp_min(IF t.local_idle_timeout = 0 THEN 0 ELSE d,
                   IF t.remote_idle_timeout = 0 \/ t.close_sent THEN 0 ELSE k)
    BY DEF Due, next_tick
  <2>7. d # 0 => now + 1 <= d
    BY <1>2, <2>1, <2>3, <2>5, <2>6 DEF pn_timestamp_min
  <2>8. k # 0 /\ ~t.close_sent => now + 1 <= k
    BY <1>2, <2>1, <2>4, <2>5, <2>6 DEF pn_timestamp_min
  <2> QED
    BY <2>2, <2>7, <2>8 DEF Hears, Speaks
<1> QED
  BY <1>1, <1>4, <1>5, <1>6, <1>7 DEF Prompt

\* Every step keeps the idle timeouts.
LEMMA NextIdle ==
  ASSUME IInv, IdleInv, [Next]_vars
  PROVE  IdleInv'
<1>1. CASE \E c \in Conns : ConnStep(c)
  <2> PICK c \in Conns : ConnStep(c)
    BY <1>1
  <2>1. CASE \E r \in RemoteIdle \cup {0}, sched \in BOOLEAN, input \in BOOLEAN :
               pconnection_process(c, sched, input, r)
    BY <2>1, ProcessIdle
  <2>2. CASE pconnection_tick(c)
    BY <2>2, TickIdle
  <2>3. CASE \E close \in BOOLEAN : Output(c, close)
    BY <2>3, OutputIdle
  <2>4. CASE \E finished \in BOOLEAN : pconnection_done(c, finished)
    BY <2>4, DoneIdle
  <2>5. CASE \/ expect_timeout(c) \/ pni_timer_set(c) \/ replace_timer_deadline(c)
             \/ pconnection_cleanup(c) \/ pni_timer_cancel(c) \/ pni_timer_free(c)
    BY <2>5, ThreadIdle
  <2> QED
    BY <2>1, <2>2, <2>3, <2>4, <2>5, ZenonT(40) DEF ConnStep
<1>2. CASE UNCHANGED <<now, tr, pc>>
  BY <1>2, MoveIdle
<1>3. CASE pni_pconnection_timeout
  BY <1>3, ConnectionTimeoutIdle
<1>4. CASE Advance
  BY <1>4, AdvanceIdle
<1>5. CASE UNCHANGED vars
  BY <1>2, <1>5 DEF vars
<1>6. CASE \/ \E t \in Timeouts : pn_proactor_set_timeout(t)
           \/ pn_proactor_cancel_timeout \/ set_proactor_timer
           \/ proactor_process \/ proactor_batch_next \/ pn_proactor_done
           \/ Poll
  BY <1>2, <1>6, ZenonT(40) DEF pn_proactor_set_timeout, pn_proactor_cancel_timeout,
    set_proactor_timer, proactor_process, proactor_batch_next, pn_proactor_done, Poll
<1>7. CASE ManagerStep /\ ~pni_pconnection_timeout
  BY <1>2, <1>7, ZenonT(40) DEF ManagerStep, pni_timer_manager_process,
    pni_proactor_timeout, free_orphan, scan_done, scan
<1> QED
  BY <1>1, <1>3, <1>4, <1>5, <1>6, <1>7, ZenonT(40) DEF Next, ManagerStep

\* They are kept when the connections are new.
LEMMA InitIdle == Init => IdleInv
<1> SUFFICES ASSUME Init, NEW c \in Conns PROVE Prompt(c)
  BY DEF IdleInv
<1>1. /\ now = 1 /\ pc[c].at = "idle" /\ ~pc[c].tick_pending
      /\ pc[c].expected_timeout = 0
  BY DEF Init
<1>2. PICK t \in [Conns -> LocalIdle] :
        tr[c] = [pn_transport(1) EXCEPT !.local_idle_timeout = t[c]]
  BY Zenon DEF Init
<1>3. t[c] \in Nat
  BY <1>2, TimersConstants
<1>4. /\ tr[c].dead_remote_deadline = 0 /\ tr[c].keepalive_deadline = 0
      /\ tr[c].unseen_input = FALSE /\ tr[c].unseen_output = 0
      /\ tr[c].remote_idle_timeout = 0 /\ tr[c].last_in = 1 /\ tr[c].last_out = 1
      /\ tr[c].local_idle_timeout = t[c]
  BY <1>2 DEF pn_transport
<1>5. Hears(tr[c], "idle", 1) /\ Speaks(tr[c], "idle", 1)
  BY <1>3, <1>4 DEF Hears, Speaks
<1> QED
  BY <1>1, <1>5 DEF Prompt, Unticked

\* The timeouts of both peers are kept (IdleTimeoutsKept): a peer that has announced an
\* idle timeout gets a frame within it, and a peer that is silent for two of the local
\* ones is given up, whatever the order in which ticks, timers, input and output meet,
\* as long as the connection's thread runs when a tick is due.
THEOREM IdleTimeoutsAreKept == Spec => []IdleTimeoutsKept
<1>1. IInv /\ IdleInv /\ [Next]_vars => IdleInv'
  BY NextIdle
<1>2. ASSUME IInv, IdleInv PROVE IdleTimeoutsKept
  <2> SUFFICES ASSUME NEW c \in Conns, pc[c].at = "idle", ~pc[c].late
               PROVE  /\ tr[c].remote_idle_timeout # 0 /\ ~tr[c].close_sent =>
                           now - tr[c].last_out <= tr[c].remote_idle_timeout
                      /\ tr[c].dead_remote_deadline # 0
                         /\ now - tr[c].last_in > 2 * tr[c].local_idle_timeout =>
                           tr[c].posted_idle_timeout
    BY DEF IdleTimeoutsKept
  <2>1. Hears(tr[c], "idle", now) /\ Speaks(tr[c], "idle", now)
    BY <1>2 DEF IdleInv, Prompt
  <2>2. now \in Nat /\ tr[c] \in TrType
    BY <1>2 DEF IInv, Types
  <2>3. /\ tr[c].dead_remote_deadline \in Nat /\ tr[c].keepalive_deadline \in Nat
        /\ tr[c].remote_idle_timeout \in Nat /\ tr[c].local_idle_timeout \in Nat
        /\ tr[c].last_in \in Nat /\ tr[c].last_out \in Nat
    BY <2>2, TrNumbers
  <2> QED
    BY <2>1, <2>2, <2>3 DEF Hears, Speaks
<1> QED
  BY <1>1, <1>2, InitIdle, Invariance, PTL DEF Spec
=============================================================================

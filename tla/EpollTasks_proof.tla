-------------------------- MODULE EpollTasks_proof --------------------------
(***************************************************************************)
(* FreedIsGone, CountsExact, NeverDeaf and CloseIsLastEvent hold for every *)
(* set of connections and acceptors, every backlog and every bound.  IInv, *)
(* the inductive invariant, is in EpollTasks_lemmas; EpollTasks_listener   *)
(* shows that the listener keeps it.                                       *)
(***************************************************************************)
EXTENDS EpollTasks_listener

-----------------------------------------------------------------------------
(* The application: a listener and connections are added *)

\* proactor_add puts a task on the list of tasks that has been on none.
LEMMA AddTasks ==
  ASSUME Types, TasksInv, NEW t \in Tasks, tsk[t].state = "none", NEW x,
         tsk' = [tsk EXCEPT ![t] = x], x.state = "live", ~x.disconnecting,
         x.disconnect_ops = 0, p'.tasks = <<t>> \o p.tasks,
         p'.disconnects_pending = p.disconnects_pending, UNCHANGED <<w, d>>
  PROVE  TasksInv'
<1>1. /\ tsk \in [Tasks -> TskType] /\ p.tasks \in Seq(Tasks)
  BY Zenon DEF Types, PType
<1>2. \A u \in Tasks : Life(tsk[u], u \in Range(p.tasks), u \in Range(d.todo), w[u].at = "idle")
  BY Zenon DEF TasksInv
<1>3. t \notin Range(p.tasks) /\ t \notin Range(d.todo)
  BY <1>2, Zenon DEF Life
<1>4. IsInjective(p'.tasks) /\ Range(p'.tasks) = Range(p.tasks) \cup {t}
  BY <1>1, <1>3, ConsNew DEF TasksInv
<1>5. ASSUME NEW u \in Tasks
      PROVE  Life(tsk'[u], u \in Range(p'.tasks), u \in Range(d'.todo), w'[u].at = "idle")
  <2>1. CASE u = t
    <3>1. tsk'[u] = x /\ u \in Range(p'.tasks) /\ u \notin Range(d'.todo)
      BY <1>1, <1>3, <1>4, <2>1, Zenon
    <3> QED
      BY <3>1 DEF Life
  <2>2. CASE u # t
    <3>1. /\ tsk'[u] = tsk[u] /\ (u \in Range(p'.tasks)) = (u \in Range(p.tasks))
          /\ (u \in Range(d'.todo)) = (u \in Range(d.todo)) /\ w'[u] = w[u]
      BY <1>1, <1>4, <2>2
    <3> QED
      BY <1>2, <3>1 DEF Life
  <2> QED
    BY <2>1, <2>2, Zenon
<1>6. Disconnecting(tsk') = Disconnecting(tsk)
  BY <1>1, Zenon DEF Disconnecting
<1> QED
  BY <1>4, <1>5, <1>6 DEF TasksInv

\* The sockets that could be bound are armed.
Bind(a, bound) ==
  [a EXCEPT !.acc = [i \in Acceptors |->
              [acc[i] EXCEPT !.open = i \in bound, !.armed = i \in bound]],
            !.lst.active_count = Cardinality(bound)]

\* What that changes, for a listener that is new.
LEMMA BindIs ==
  ASSUME Types, NEW a \in SType, a.acc = acc, a.lst = lst, NEW bound \in SUBSET Acceptors,
         NEW b, b = Bind(a, bound)
  PROVE  /\ b \in SType /\ b.p = a.p /\ b.tsk = a.tsk
         /\ b.lst.active_count = Cardinality(Open(b.acc))
         /\ b.lst.events = lst.events /\ b.lst.pending = lst.pending
         /\ b.lst.overflow_count = lst.overflow_count
         /\ b.lst.close_dispatched = lst.close_dispatched
         /\ \A i \in Acceptors : /\ b.acc[i].open = b.acc[i].armed
                                 /\ b.acc[i].overflowed = acc[i].overflowed
                                 /\ b.acc[i].shut = acc[i].shut
<1> DEFINE e(i) == i \in bound
           q(i) == [acc[i] EXCEPT !.open = e(i), !.armed = e(i)]
           g == [i \in Acceptors |-> q(i)]
           n == Cardinality(bound)
           l == [lst EXCEPT !.active_count = n]
<1>1. lst \in LstType /\ acc \in [Acceptors -> AccType]
  BY DEF Types
<1>2. n \in Nat
  <2>1. IsFiniteSet(bound)
    BY TasksConstants, FS_Subset
  <2> QED
    BY <2>1, FS_CardinalityType
<1>3. b = [a EXCEPT !.acc = g, !.lst = l]
  BY Zenon DEF Bind, SType
<1>4. ASSUME NEW i \in Acceptors
      PROVE  /\ q(i) \in AccType /\ q(i).open = e(i) /\ q(i).armed = e(i)
             /\ q(i).overflowed = acc[i].overflowed /\ q(i).shut = acc[i].shut
  <2>1. e(i) \in BOOLEAN /\ acc[i] \in AccType
    BY <1>1
  <2> HIDE DEF e
  <2> QED
    BY <2>1, Zenon DEF AccType
<1> HIDE DEF q, n
<1>5. g \in [Acceptors -> AccType] /\ \A i \in Acceptors : g[i] = q(i)
  BY <1>4
<1> HIDE DEF g
<1>6. Open(g) = bound
  BY <1>4, <1>5, Zenon DEF Open
<1>7. /\ l \in LstType /\ l.active_count = n /\ l.events = lst.events
      /\ l.pending = lst.pending /\ l.overflow_count = lst.overflow_count
      /\ l.close_dispatched = lst.close_dispatched
  BY <1>1, <1>2, ZenonT(40) DEF LstType
<1> HIDE DEF l
<1>8. b \in SType /\ b.p = a.p /\ b.tsk = a.tsk /\ b.acc = g /\ b.lst = l
  BY <1>3, <1>5, <1>7, Zenon DEF SType
<1> QED
  BY <1>4, <1>5, <1>6, <1>7, <1>8 DEF n

\* pn_proactor_listen keeps the invariant.
LEMMA ListenKeeps ==
  ASSUME IInv, NEW bound \in SUBSET Acceptors, pn_proactor_listen(bound)
  PROVE  IInv'
<1> DEFINE s == schedule(S, L)
           a == Bind(s, bound)
           b == IF bound = {} THEN listener_begin_close(a)
                ELSE [a EXCEPT !.lst.events = <<"OPEN">>]
           c == proactor_add(b, L)
           x == Scheduled(tsk[L])
           y == b.tsk[L]
           z == [y EXCEPT !.state = "live"]
<1>1. tsk[L].state = "none" /\ Become(c) /\ UNCHANGED <<w, con, d, ok>>
  BY Zenon DEF pn_proactor_listen, Bind
<1>2. /\ Types /\ tsk \in [Tasks -> TskType] /\ L \in Tasks /\ tsk[L] \in TskType
      /\ p \in PType /\ ok /\ ListenerInv /\ TasksInv /\ OverflowInv /\ ConnsInv
  BY NullIsNoTask DEF IInv, Types
<1>3. /\ ~tsk[L].closing /\ ~tsk[L].disconnecting /\ tsk[L].disconnect_ops = 0
      /\ w[L].at = "idle"
  BY <1>1, <1>2, Zenon DEF TasksInv, Life
<1>4. /\ lst.events \in {<<>>, <<"OPEN">>} /\ ~lst.close_dispatched
      /\ \A i \in Acceptors : ~acc[i].shut /\ ~acc[i].overflowed
  BY <1>1, <1>2, <1>3, Zenon DEF ListenerInv, Listening
<1>5. /\ s \in SType /\ s.acc = acc /\ s.lst = lst /\ PKept(p, s.p)
      /\ s.tsk = [tsk EXCEPT ![L] = x]
  <2>1. S \in SType /\ S.tsk = tsk /\ S.p = p /\ S.acc = acc /\ S.lst = lst
    BY <1>2, SIs
  <2> QED
    BY <1>2, <2>1, ScheduleIs, Zenon
<1>6. /\ x \in TskType /\ ~x.closing /\ ~x.disconnecting /\ x.disconnect_ops = 0
      /\ x.state = "none"
  BY <1>1, <1>2, <1>3, ScheduledIs, Zenon
<1> HIDE DEF s, x
<1>7. /\ a \in SType /\ a.p = s.p /\ a.tsk = [tsk EXCEPT ![L] = x] /\ a.tsk[L] = x
      /\ a.lst.active_count = Cardinality(Open(a.acc))
      /\ a.lst.events \in {<<>>, <<"OPEN">>}
      /\ a.lst.overflow_count = lst.overflow_count
      /\ ~a.lst.close_dispatched
      /\ \A i \in Acceptors : /\ a.acc[i].open = a.acc[i].armed
                              /\ ~a.acc[i].overflowed /\ ~a.acc[i].shut
  <2> HIDE DEF a
  <2>1. /\ a \in SType /\ a.p = s.p /\ a.tsk = s.tsk
        /\ a.lst.active_count = Cardinality(Open(a.acc))
        /\ a.lst.events = lst.events /\ a.lst.pending = lst.pending
        /\ a.lst.overflow_count = lst.overflow_count
        /\ a.lst.close_dispatched = lst.close_dispatched
        /\ \A i \in Acceptors : /\ a.acc[i].open = a.acc[i].armed
                                /\ a.acc[i].overflowed = acc[i].overflowed
                                /\ a.acc[i].shut = acc[i].shut
    <3>1. a = Bind(s, bound)
      BY DEF a
    <3> QED
      BY <1>2, <1>5, <3>1, BindIs
  <2> QED
    BY <1>2, <1>4, <1>5, <1>6, <2>1, Zenon
<1> HIDE DEF a
<1>8. /\ b \in SType /\ b.p = a.p /\ b.tsk = [tsk EXCEPT ![L] = y] /\ y \in TskType
      /\ y.state = "none" /\ ~y.disconnecting /\ y.disconnect_ops = 0
      /\ b.lst.active_count = Cardinality(Open(b.acc))
      /\ y.closing => b.lst.pending = 0
      /\ ~y.closing => /\ b.lst.events \in {<<>>, <<"OPEN">>}
                       /\ \A i \in Acceptors : /\ ~b.acc[i].shut
                                               /\ b.acc[i].open => b.acc[i].armed
      /\ b.lst.overflow_count = lst.overflow_count /\ ~b.lst.close_dispatched
      /\ \A i \in Acceptors : ~b.acc[i].overflowed
  <2>1. CASE bound = {}
    <3>1. b = listener_begin_close(a)
      BY <2>1
    <3> HIDE DEF b, y
    <3>2. /\ b \in SType /\ b.p = a.p
          /\ b.tsk = [a.tsk EXCEPT ![L] = [a.tsk[L] EXCEPT !.closing = TRUE]]
          /\ \A i \in Acceptors : b.acc[i].overflowed = a.acc[i].overflowed
          /\ b.lst.active_count = Cardinality(Open(b.acc)) /\ b.lst.pending = 0
          /\ b.lst.overflow_count = a.lst.overflow_count
          /\ b.lst.close_dispatched = a.lst.close_dispatched
      BY <1>6, <1>7, <3>1, BeginCloseIs, Zenon
    <3> DEFINE v == [x EXCEPT !.closing = TRUE]
    <3>3. /\ v \in TskType /\ v.closing /\ v.state = "none" /\ ~v.disconnecting
          /\ v.disconnect_ops = 0
      BY <1>6, Zenon DEF TskType
    <3>4. b.tsk = [[tsk EXCEPT ![L] = x] EXCEPT ![L] = v]
      BY <1>7, <3>2, Zenon
    <3> HIDE DEF v
    <3>5. b.tsk = [tsk EXCEPT ![L] = v] /\ b.tsk[L] = v
      BY <1>2, <3>4, Zenon
    <3>6. y = v /\ b.tsk = [tsk EXCEPT ![L] = y]
      BY <3>5, Zenon DEF y
    <3> QED
      BY <1>7, <3>2, <3>3, <3>6, Zenon
  <2>2. CASE bound # {}
    <3> DEFINE l == [a.lst EXCEPT !.events = <<"OPEN">>]
    <3>1. b = [a EXCEPT !.lst = l]
      BY <2>2
    <3>2. a.lst \in LstType
      BY <1>7, Zenon DEF SType
    <3>3. /\ l \in LstType /\ l.events = <<"OPEN">> /\ l.active_count = a.lst.active_count
          /\ l.overflow_count = a.lst.overflow_count
          /\ l.close_dispatched = a.lst.close_dispatched
      BY <3>2, ZenonT(40) DEF LstType
    <3> HIDE DEF b, l, y
    <3>4. b \in SType /\ b.p = a.p /\ b.tsk = a.tsk /\ b.acc = a.acc /\ b.lst = l
      BY <1>7, <3>1, <3>3, Zenon DEF SType
    <3>5. y = x
      BY <1>7, <3>4, Zenon DEF y
    <3> QED
      BY <1>6, <1>7, <3>3, <3>4, <3>5, Zenon
  <2> QED
    BY <2>1, <2>2, Zenon
<1> HIDE DEF b, y
<1>9. /\ z \in TskType /\ z.state = "live" /\ ~z.disconnecting /\ z.disconnect_ops = 0
      /\ z.closing = y.closing
  BY <1>8, Zenon DEF TskType
<1>10. /\ tsk' = [tsk EXCEPT ![L] = z] /\ acc' = b.acc /\ lst' = b.lst
       /\ acc' \in [Acceptors -> AccType] /\ lst' \in LstType
       /\ p' \in PType /\ p'.tasks = <<L>> \o p.tasks /\ p'.overflow = p.overflow
       /\ p'.disconnects_pending = p.disconnects_pending
  <2>1. /\ c \in SType /\ c.acc = b.acc /\ c.lst = b.lst
        /\ c.p.tasks = <<L>> \o b.p.tasks /\ c.p.overflow = b.p.overflow
        /\ c.p.disconnects_pending = b.p.disconnects_pending
        /\ c.tsk = [b.tsk EXCEPT ![L] = [b.tsk[L] EXCEPT !.state = "live"]]
    BY <1>2, <1>8, AddIs, Zenon
  <2> HIDE DEF c
  <2>2. c.tsk = [b.tsk EXCEPT ![L] = z]
    BY <2>1, Zenon DEF y
  <2> HIDE DEF z
  <2>3. c.tsk = [tsk EXCEPT ![L] = z]
    BY <1>2, <1>8, <2>2, Zenon
  <2>4. b.p = s.p /\ s.p.tasks = p.tasks /\ s.p.overflow = p.overflow
        /\ s.p.disconnects_pending = p.disconnects_pending
    BY <1>5, <1>7, <1>8, Zenon DEF PKept
  <2> QED
    BY <1>1, <2>1, <2>3, <2>4, Zenon DEF Become, SType
<1> HIDE DEF z, c
<1>11. Types'
  <2>1. tsk' \in [Tasks -> TskType]
    BY <1>2, <1>9, <1>10, Zenon
  <2> QED
    BY <1>1, <1>2, <1>10, <2>1, Zenon DEF Types
<1>12. TasksInv'
  BY <1>1, <1>2, <1>9, <1>10, AddTasks, Zenon
<1>13. ConnsInv'
  <2>1. \A e \in Conns : tsk'[e] = tsk[e]
    BY <1>2, <1>10, NullIsNoTask, Zenon
  <2> QED
    BY <1>1, <1>2, <2>1, ConnsKept
<1>14. ListenerInv'
  <2>1. tsk'[L] = z /\ w'[L].at = "idle"
    BY <1>1, <1>2, <1>3, <1>10, Zenon
  <2>2. Listening(z, b.lst, b.acc, "idle")
    BY <1>8, <1>9, Zenon DEF Listening
  <2> QED
    BY <1>10, <2>1, <2>2, Zenon DEF ListenerInv
<1>15. OverflowInv'
  <2>1. \A i \in Acceptors : acc'[i].overflowed = acc[i].overflowed /\ ~acc[i].overflowed
    <3>1. acc \in [Acceptors -> AccType]
      BY <1>2 DEF Types
    <3>2. acc' \in [Acceptors -> AccType] /\ \A i \in Acceptors : ~acc'[i].overflowed
      BY <1>8, <1>10, Zenon
    <3> QED
      BY <1>4, <3>1, <3>2 DEF AccType
  <2>2. \A t \in Tasks : w'[t].list = w[t].list /\ (w'[t].at # "overflow" => w[t].list = <<>>)
    BY <1>1, <1>2, Zenon DEF OverflowInv
  <2> QED
    BY <1>2, <1>8, <1>10, <2>1, <2>2, OverflowKept, Zenon
<1> QED
  BY <1>1, <1>2, <1>11, <1>12, <1>13, <1>14, <1>15 DEF IInv

\* pn_listener_accept2 keeps the invariant.
LEMMA AcceptKeeps ==
  ASSUME IInv, NEW c \in Conns, pn_listener_accept2(c)
  PROVE  IInv'
<1> DEFINE got == ~tsk[L].closing /\ lst.pending > 0
           a == proactor_add(S, c)
           n == lst.pending - 1
           l == [lst EXCEPT !.pending = n]
           m == IF got THEN l ELSE lst
           x == [tsk[c] EXCEPT !.state = "live"]
           k == [con[c] EXCEPT !.fd = got, !.arm = got, !.io = got, !.closed = ~got,
                               !.events = ~got]
<1>1. /\ w[L].at = "batch" /\ tsk[c].state = "none" /\ UNCHANGED <<w, d, ok>>
      /\ Become(IF got THEN [a EXCEPT !.lst.pending = @ - 1] ELSE a)
  BY Zenon DEF pn_listener_accept2
<1>2. /\ Types /\ tsk \in [Tasks -> TskType] /\ c \in Tasks /\ tsk[c] \in TskType
      /\ L \in Tasks /\ L # c /\ p \in PType /\ lst \in LstType
      /\ con \in [Conns -> ConType] /\ con[c] \in ConType
      /\ ok /\ ListenerInv /\ TasksInv /\ OverflowInv /\ ConnsInv
  BY NullIsNoTask DEF IInv, Types
<1>3. con' = [con EXCEPT ![c] = k]
  BY <1>2, ZenonT(40) DEF pn_listener_accept2
<1>4. /\ a \in SType /\ a.acc = acc /\ a.lst = lst
      /\ a.p.tasks = <<c>> \o p.tasks /\ a.p.overflow = p.overflow
      /\ a.p.disconnects_pending = p.disconnects_pending
      /\ a.tsk = [tsk EXCEPT ![c] = x]
  <2>1. S \in SType /\ S.tsk = tsk /\ S.p = p /\ S.acc = acc /\ S.lst = lst
    BY <1>2, SIs
  <2> QED
    BY <1>2, <2>1, AddIs, Zenon
<1>5. m \in LstType /\ m.active_count = lst.active_count /\ m.events = lst.events
      /\ m.overflow_count = lst.overflow_count
      /\ m.close_dispatched = lst.close_dispatched
      /\ (tsk[L].closing => m = lst)
  <2>1. CASE got
    <3>1. n \in 0..backlog
      <4>1. lst.pending \in 0..backlog /\ backlog \in Nat
        BY <1>2, TasksConstants DEF LstType
      <4> QED
        BY <2>1, <4>1
    <3> HIDE DEF n
    <3>2. /\ l \in LstType /\ l.active_count = lst.active_count /\ l.events = lst.events
          /\ l.overflow_count = lst.overflow_count
          /\ l.close_dispatched = lst.close_dispatched
      BY <1>2, <3>1, ZenonT(40) DEF LstType
    <3> HIDE DEF l
    <3> QED
      BY <2>1, <3>2
  <2>2. CASE ~got
    BY <1>2, <2>2
  <2> QED
    BY <2>1, <2>2, Zenon
<1>6. tsk' = a.tsk /\ p' = a.p /\ acc' = acc /\ lst' = m
  <2>1. CASE got
    <3>1. Become([a EXCEPT !.lst.pending = @ - 1])
      BY <1>1, <2>1, Zenon
    <3> HIDE DEF a
    <3> QED
      BY <1>4, <2>1, <3>1, Zenon DEF Become, SType
  <2>2. CASE ~got
    <3>1. Become(a)
      BY <1>1, <2>2, Zenon
    <3> HIDE DEF a
    <3> QED
      BY <1>4, <2>2, <3>1, Zenon DEF Become
  <2> QED
    BY <2>1, <2>2, Zenon
<1> HIDE DEF a, m
<1>7. k \in ConType /\ (k.arm <=> got) /\ (k.closed <=> ~got)
  <2>1. got \in BOOLEAN /\ (~got) \in BOOLEAN
    OBVIOUS
  <2> HIDE DEF got
  <2> QED
    BY <1>2, <2>1, ZenonT(40) DEF ConType
<1> HIDE DEF got, k
<1>8. /\ x \in TskType /\ x.state = "live" /\ x.closing = tsk[c].closing
      /\ x.disconnecting = tsk[c].disconnecting /\ x.disconnect_ops = tsk[c].disconnect_ops
  BY <1>2, Zenon DEF TskType
<1>9. /\ ~tsk[c].closing /\ ~tsk[c].disconnecting /\ tsk[c].disconnect_ops = 0
      /\ w[c].at = "idle"
  BY <1>1, <1>2, Zenon DEF TasksInv, Life
<1> HIDE DEF x
<1>10. /\ tsk' = [tsk EXCEPT ![c] = x] /\ p' \in PType /\ p'.tasks = <<c>> \o p.tasks
       /\ p'.overflow = p.overflow /\ p'.disconnects_pending = p.disconnects_pending
  BY <1>4, <1>6, Zenon DEF SType
<1>11. Types'
  <2>1. tsk' \in [Tasks -> TskType] /\ con' \in [Conns -> ConType]
    BY <1>2, <1>3, <1>7, <1>8, <1>10, Zenon
  <2> QED
    BY <1>1, <1>2, <1>5, <1>6, <1>10, <2>1, Zenon DEF Types
<1>12. TasksInv'
  BY <1>1, <1>2, <1>8, <1>9, <1>10, AddTasks, Zenon
<1>13. ConnsInv'
  <2> SUFFICES ASSUME NEW e \in Conns PROVE Leaving(tsk'[e], con'[e], w'[e].at)
    BY DEF ConnsInv
  <2>1. CASE e = c
    <3>1. tsk'[e] = x /\ con'[e] = k /\ w'[e].at = "idle"
      BY <1>1, <1>2, <1>3, <1>9, <1>10, <2>1, Zenon
    <3>2. Leaving(x, k, "idle")
      BY <1>8, <1>9 DEF Leaving
    <3> QED
      BY <3>1, <3>2, Zenon
  <2>2. CASE e # c
    <3>1. tsk'[e] = tsk[e] /\ con'[e] = con[e] /\ w'[e].at = w[e].at
      BY <1>1, <1>2, <1>3, <1>10, <2>2, NullIsNoTask, Zenon
    <3> QED
      BY <1>2, <3>1 DEF ConnsInv
  <2> QED
    BY <2>1, <2>2
<1>14. ListenerInv'
  <2>1. tsk'[L] = tsk[L] /\ w'[L].at = "batch"
    BY <1>1, <1>2, <1>10, Zenon
  <2>2. Listening(tsk[L], lst, acc, "batch")
    BY <1>1, <1>2 DEF ListenerInv
  <2>3. Listening(tsk[L], m, acc, "batch")
    BY <1>5, <2>2, Zenon DEF Listening
  <2> QED
    BY <1>6, <2>1, <2>3, Zenon DEF ListenerInv
<1>15. OverflowInv'
  <2>1. \A t \in Tasks : w'[t].list = w[t].list /\ (w'[t].at # "overflow" => w[t].list = <<>>)
    BY <1>1, <1>2, Zenon DEF OverflowInv
  <2> QED
    BY <1>2, <1>5, <1>6, <1>10, <2>1, OverflowKept, Zenon
<1> QED
  BY <1>1, <1>2, <1>11, <1>12, <1>13, <1>14, <1>15 DEF IInv

-----------------------------------------------------------------------------
(* pn_proactor_disconnect *)

\* A task that pn_proactor_disconnect has taken over.
TakenOver(x) == [x EXCEPT !.disconnecting = TRUE, !.disconnect_ops = 2]

AllTakenOver == [t \in Tasks |-> IF t \notin Range(p.tasks) THEN tsk[t] ELSE TakenOver(tsk[t])]

\* The first pass, of the tasks: those on the list are taken over, and counted.
LEMMA TakenOverTasks ==
  ASSUME Types, TasksInv, d.at = "idle", tsk' = AllTakenOver, p'.tasks = <<>>,
         p'.disconnects_pending = p.disconnects_pending + Len(p.tasks),
         d'.todo = p.tasks, d'.at = "idle" => d'.todo = <<>>, UNCHANGED w
  PROVE  /\ TasksInv' /\ tsk' \in [Tasks -> TskType]
         /\ \A t \in Tasks : /\ tsk'[t].state = tsk[t].state /\ tsk'[t].ready = tsk[t].ready
                             /\ tsk'[t].closing = tsk[t].closing
                             /\ tsk'[t].working = tsk[t].working
<1> DEFINE all == Range(p.tasks)
<1>1. /\ tsk \in [Tasks -> TskType] /\ p.tasks \in Seq(Tasks) /\ p \in PType
  BY DEF Types, PType
<1>2. \A t \in Tasks : Life(tsk[t], t \in all, t \in Range(d.todo), w[t].at = "idle")
  BY DEF TasksInv
<1>3. d.todo = <<>> /\ \A t \in Tasks : t \notin Range(d.todo)
  <2>1. d.todo = <<>>
    BY DEF TasksInv
  <2> QED
    BY <2>1 DEF Range
<1>4. ASSUME NEW t \in Tasks
      PROVE  LET y == TakenOver(tsk[t])
             IN  /\ y \in TskType /\ y.disconnecting /\ y.disconnect_ops = 2
                 /\ y.state = tsk[t].state /\ y.ready = tsk[t].ready
                 /\ y.closing = tsk[t].closing /\ y.working = tsk[t].working
  <2>1. 2 \in 0..2 /\ tsk[t] \in TskType
    BY <1>1
  <2> QED
    BY <2>1, ZenonT(40) DEF TskType, TakenOver
<1>5. \A t \in Tasks : tsk'[t] = IF t \notin all THEN tsk[t] ELSE TakenOver(tsk[t])
  BY DEF AllTakenOver
<1>6. tsk' \in [Tasks -> TskType]
  BY <1>1, <1>4 DEF AllTakenOver
<1>7. \A t \in Tasks : /\ tsk'[t].state = tsk[t].state /\ tsk'[t].ready = tsk[t].ready
                       /\ tsk'[t].closing = tsk[t].closing
                       /\ tsk'[t].working = tsk[t].working
  BY <1>4, <1>5, Zenon
<1>8. \A t \in Tasks : t \notin Range(p'.tasks)
  BY DEF Range
<1>9. ASSUME NEW t \in Tasks
      PROVE  Life(tsk'[t], t \in Range(p'.tasks), t \in Range(d'.todo), w'[t].at = "idle")
  <2>1. CASE t \in all
    <3>1. /\ tsk'[t].disconnecting /\ tsk'[t].disconnect_ops = 2 /\ tsk'[t].state = tsk[t].state
          /\ t \in Range(d'.todo)
      BY <1>4, <1>5, <2>1, Zenon
    <3>2. tsk[t].state = "live"
      BY <1>2, <2>1, Zenon DEF Life
    <3> QED
      BY <1>8, <3>1, <3>2 DEF Life
  <2>2. CASE t \notin all
    <3>1. tsk'[t] = tsk[t] /\ t \notin Range(d'.todo)
      BY <1>5, <2>2
    <3>2. Life(tsk[t], FALSE, FALSE, w[t].at = "idle")
      BY <1>2, <1>3, <2>2, Zenon DEF Life
    <3> QED
      BY <1>8, <3>1, <3>2, Zenon DEF Life
  <2> QED
    BY <2>1, <2>2
<1>10. p'.disconnects_pending = Cardinality(Disconnecting(tsk'))
  <2> DEFINE D == Disconnecting(tsk)
  <2>1. Disconnecting(tsk') = D \cup all
    <3>1. all \subseteq Tasks
      BY <1>1 DEF Range
    <3>2. ASSUME NEW t \in Tasks
          PROVE  (tsk'[t].state = "live" /\ tsk'[t].disconnecting) <=>
                   (tsk[t].state = "live" /\ tsk[t].disconnecting) \/ t \in all
      <4>1. CASE t \in all
        <5>1. tsk[t].state = "live"
          BY <1>2, <4>1 DEF Life
        <5> QED
          BY <1>4, <1>5, <4>1, <5>1, Zenon
      <4>2. CASE t \notin all
        BY <1>5, <4>2
      <4> QED
        BY <4>1, <4>2, Zenon
    <3> HIDE DEF all
    <3> QED
      BY <3>1, <3>2, Zenon DEF Disconnecting
  <2>2. D \cap all = {}
    BY <1>2, Zenon DEF Disconnecting, Life
  <2>3. IsFiniteSet(D)
    <3>1. D \subseteq Tasks
      BY DEF Disconnecting
    <3> QED
      BY <3>1, NullIsNoTask, FS_Subset
  <2>4. IsFiniteSet(all) /\ Cardinality(all) = Len(p.tasks)
    BY <1>1, LenIsCardinality DEF TasksInv
  <2>5. p.disconnects_pending = Cardinality(D)
    BY DEF TasksInv
  <2> HIDE DEF D, all
  <2>6. Cardinality(D \cup all) = Cardinality(D) + Cardinality(all) - Cardinality({})
    BY <2>2, <2>3, <2>4, FS_Union
  <2>7. Cardinality({}) = 0 /\ Cardinality(D) \in Nat /\ Cardinality(all) \in Nat
    BY <2>3, <2>4, FS_EmptySet, FS_CardinalityType
  <2> QED
    BY <2>1, <2>4, <2>5, <2>6, <2>7
<1>11. IsInjective(p'.tasks) /\ IsInjective(d'.todo)
  <2>1. IsInjective(p.tasks) /\ IsInjective(<<>>)
    BY Zenon DEF TasksInv, IsInjective
  <2> QED
    BY <2>1
<1> QED
  BY <1>6, <1>7, <1>9, <1>10, <1>11, Zenon DEF TasksInv

\* A listener whose task_t has changed in its part in pn_proactor_disconnect only.
LEMMA ListeningSame ==
  ASSUME NEW x, NEW l, NEW f, NEW at, Listening(x, l, f, at), NEW y, y.state = x.state,
         y.closing = x.closing, y.ready = x.ready
  PROVE  Listening(y, l, f, at)
  BY Zenon DEF Listening

\* The first pass of pn_proactor_disconnect keeps the invariant.
LEMMA DisconnectKeeps ==
  ASSUME IInv, pn_proactor_disconnect
  PROVE  IInv'
<1> DEFINE m == p.disconnects_pending + Len(p.tasks)
           q == [p EXCEPT !.tasks = <<>>, !.disconnects_pending = m]
           a == [S EXCEPT !.tsk = AllTakenOver, !.p = q]
           b == schedule_if_inactive(a)
           n == Notify(a, b)
<1>1. /\ Types /\ tsk \in [Tasks -> TskType] /\ p \in PType /\ d \in DType /\ L \in Tasks
      /\ p.tasks \in Seq(Tasks) /\ Conns \subseteq Tasks
      /\ ok /\ ListenerInv /\ TasksInv /\ OverflowInv /\ ConnsInv
  BY NullIsNoTask DEF IInv, Types, PType
<1>2. S \in SType /\ S.tsk = tsk /\ S.p = p /\ S.acc = acc /\ S.lst = lst
  BY <1>1, SIs
<1>3. [S EXCEPT !.tsk = [t \in Tasks |-> IF t \notin Range(p.tasks) THEN tsk[t]
                           ELSE [tsk[t] EXCEPT !.disconnecting = TRUE, !.disconnect_ops = 2]],
                !.p.tasks = <<>>, !.p.disconnects_pending = @ + Len(p.tasks)] = a
  BY <1>1, <1>2, Zenon DEF SType, PType, AllTakenOver, TakenOver
<1>4. /\ d.at = "idle" /\ UNCHANGED <<w, con, ok>>
      /\ IF p.tasks = <<>> THEN Become(notify_poller(b, n)) /\ UNCHANGED d
         ELSE Become(b) /\ d' = [at |-> "pass", todo |-> p.tasks, notify |-> n]
  <2> DEFINE e == [S EXCEPT !.tsk = [t \in Tasks |-> IF t \notin Range(p.tasks) THEN tsk[t]
                      ELSE [tsk[t] EXCEPT !.disconnecting = TRUE, !.disconnect_ops = 2]],
                !.p.tasks = <<>>, !.p.disconnects_pending = @ + Len(p.tasks)]
             h == schedule_if_inactive(e)
  <2>1. /\ d.at = "idle" /\ UNCHANGED <<w, con, ok>>
        /\ IF p.tasks = <<>> THEN Become(notify_poller(h, Notify(e, h))) /\ UNCHANGED d
           ELSE Become(h) /\ d' = [at |-> "pass", todo |-> p.tasks, notify |-> Notify(e, h)]
    BY Zenon DEF pn_proactor_disconnect
  <2>2. e = a
    BY <1>3
  <2> HIDE DEF e, a
  <2> QED
    BY <2>1, <2>2, Zenon
<1>5. q \in PType /\ q.tasks = <<>> /\ q.disconnects_pending = m /\ q.overflow = p.overflow
  <2>1. m \in Nat /\ <<>> \in Seq(Tasks)
    BY <1>1 DEF PType
  <2> HIDE DEF m
  <2> QED
    BY <1>1, <2>1, ZenonT(40) DEF PType
<1> HIDE DEF q
<1>6. a \in SType /\ a.tsk = AllTakenOver /\ a.p = q /\ a.acc = acc /\ a.lst = lst
  <2>1. ASSUME NEW t \in Tasks PROVE TakenOver(tsk[t]) \in TskType
    <3>1. 2 \in 0..2 /\ tsk[t] \in TskType
      BY <1>1
    <3> QED
      BY <3>1, Zenon DEF TskType, TakenOver
  <2>2. AllTakenOver \in [Tasks -> TskType]
    BY <1>1, <2>1 DEF AllTakenOver
  <2> QED
    BY <1>2, <1>5, <2>2, Zenon DEF SType
<1> HIDE DEF a
<1>7. b \in SType /\ b.acc = acc /\ b.lst = lst /\ PKept(q, b.p) /\ b.tsk = AllTakenOver
  BY <1>6, ScheduleIfInactive
<1> HIDE DEF b
<1>8. n \in BOOLEAN
  BY <1>6, <1>7, NotifyIsBoolean
<1> HIDE DEF n
<1>9. /\ tsk' = AllTakenOver /\ UNCHANGED <<acc, lst>> /\ PKept(q, p')
  <2>1. /\ notify_poller(b, n) \in SType /\ notify_poller(b, n).acc = acc
        /\ notify_poller(b, n).lst = lst /\ PKept(b.p, notify_poller(b, n).p)
        /\ notify_poller(b, n).tsk = AllTakenOver
    BY <1>7, <1>8, NotifyPoller
  <2>2. PKept(q, notify_poller(b, n).p)
    BY <1>7, <2>1 DEF PKept
  <2>3. Become(b) \/ Become(notify_poller(b, n))
    BY <1>4, Zenon
  <2> QED
    BY <1>7, <2>1, <2>2, <2>3 DEF Become
<1>10. d' \in DType /\ d'.todo = p.tasks /\ (d'.at = "idle" => d'.todo = <<>>)
  <2>1. CASE p.tasks = <<>>
    <3>1. UNCHANGED d /\ d.todo = <<>>
      BY <1>1, <1>4, <2>1 DEF TasksInv
    <3> QED
      BY <1>1, <2>1, <3>1
  <2>2. CASE p.tasks # <<>>
    <3>1. d' = [at |-> "pass", todo |-> p.tasks, notify |-> n]
      BY <1>4, <2>2
    <3> QED
      BY <1>1, <1>8, <3>1 DEF DType
  <2> QED
    BY <2>1, <2>2
<1>11. /\ p' \in PType /\ p'.tasks = <<>> /\ p'.overflow = p.overflow
       /\ p'.disconnects_pending = m
  BY <1>5, <1>9 DEF PKept
<1>12. /\ TasksInv' /\ tsk' \in [Tasks -> TskType]
       /\ \A t \in Tasks : /\ tsk'[t].state = tsk[t].state /\ tsk'[t].ready = tsk[t].ready
                           /\ tsk'[t].closing = tsk[t].closing
                           /\ tsk'[t].working = tsk[t].working
  BY <1>1, <1>4, <1>9, <1>10, <1>11, TakenOverTasks, Zenon
<1>13. Types'
  BY <1>1, <1>4, <1>9, <1>10, <1>11, <1>12, Zenon DEF Types
<1>14. ConnsInv'
  BY <1>1, <1>4, <1>12, Zenon DEF ConnsInv, Leaving
<1>15. ListenerInv'
  <2>1. Listening(tsk[L], lst, acc, w[L].at)
    BY <1>1 DEF ListenerInv
  <2>2. Listening(tsk'[L], lst, acc, w[L].at)
    BY <1>1, <1>12, <2>1, ListeningSame
  <2> QED
    BY <1>4, <1>9, <2>2 DEF ListenerInv
<1>16. OverflowInv'
  <2>1. \A t \in Tasks : w'[t].list = w[t].list /\ (w'[t].at # "overflow" => w[t].list = <<>>)
    BY <1>1, <1>4, Zenon DEF OverflowInv
  <2> QED
    BY <1>1, <1>9, <1>11, <2>1, OverflowKept, Zenon
<1> QED
  BY <1>1, <1>4, <1>12, <1>13, <1>14, <1>15, <1>16 DEF IInv

\* What is known of the next task of the second pass.
LEMMA NextTask ==
  ASSUME Types, TasksInv, d.todo # <<>>, NEW t, t = Head(d.todo)
  PROVE  /\ t \in Tasks /\ t \in Range(d.todo) /\ t \notin Range(p.tasks)
         /\ Tail(d.todo) \in Seq(Tasks) /\ IsInjective(Tail(d.todo))
         /\ Range(Tail(d.todo)) = Range(d.todo) \ {t}
         /\ tsk[t] \in TskType /\ tsk[t].disconnecting
         /\ \/ tsk[t].state = "live" /\ tsk[t].disconnect_ops = 2
            \/ /\ tsk[t].state = "removed" /\ tsk[t].disconnect_ops = 1
               /\ ~tsk[t].ready /\ w[t].at = "idle"
<1>1. d.todo \in Seq(Tasks) /\ IsInjective(d.todo) /\ tsk \in [Tasks -> TskType]
  BY DEF Types, DType, TasksInv
<1>2. /\ t \in Tasks /\ t \in Range(d.todo)
      /\ Tail(d.todo) \in Seq(Tasks) /\ IsInjective(Tail(d.todo))
      /\ Range(Tail(d.todo)) = Range(d.todo) \ {t}
  BY <1>1, HeadTail
<1>3. Life(tsk[t], t \in Range(p.tasks), t \in Range(d.todo), w[t].at = "idle")
  BY <1>2, Zenon DEF TasksInv
<1> QED
  BY <1>1, <1>2, <1>3, Zenon DEF Life

\* The second pass, of the tasks: z is the task_t of the task t that it has gone to, and
\* rest are the tasks to come.
LEMMA PassTasks ==
  ASSUME Types, TasksInv, NEW t \in Tasks, NEW rest, NEW z,
         t \in Range(d.todo), t \notin Range(p.tasks), IsInjective(rest),
         Range(rest) = Range(d.todo) \ {t}, tsk[t].disconnecting,
         \/ tsk[t].state = "live" /\ tsk[t].disconnect_ops = 2 /\ z.state = "live"
         \/ tsk[t].state = "removed" /\ w[t].at = "idle" /\ z.state = "freed" /\ ~z.ready,
         tsk' = [tsk EXCEPT ![t] = z], z.disconnecting,
         z.state = "live" => z.disconnect_ops = 1,
         p'.tasks = p.tasks, p'.disconnects_pending = p.disconnects_pending,
         d'.todo = rest, d'.at = "pass", UNCHANGED w
  PROVE  TasksInv'
<1>1. tsk \in [Tasks -> TskType] /\ tsk'[t] = z
  BY DEF Types
<1>2. \A u \in Tasks : Life(tsk[u], u \in Range(p.tasks), u \in Range(d.todo), w[u].at = "idle")
  BY Zenon DEF TasksInv
<1>3. ASSUME NEW u \in Tasks
      PROVE  Life(tsk'[u], u \in Range(p'.tasks), u \in Range(d'.todo), w'[u].at = "idle")
  <2>1. CASE u = t
    <3>1. \/ z.state = "live" /\ z.disconnect_ops = 1
          \/ z.state = "freed" /\ ~z.ready /\ w[t].at = "idle"
      BY Zenon
    <3>2. tsk'[u] = z /\ u \notin Range(p.tasks) /\ u \notin Range(rest) /\ w'[u].at = w[t].at
      BY <1>1, <2>1, Zenon
    <3>3. z.disconnecting
      OBVIOUS
    <3> QED
      BY <3>1, <3>2, <3>3, Zenon DEF Life
  <2>2. CASE u # t
    <3>1. tsk'[u] = tsk[u] /\ (u \in Range(rest)) = (u \in Range(d.todo)) /\ w'[u].at = w[u].at
      BY <1>1, <2>2
    <3> QED
      BY <1>2, <3>1, Zenon
  <2> QED
    BY <2>1, <2>2, Zenon
<1>4. Disconnecting(tsk') = Disconnecting(tsk)
  <2>1. \A u \in Tasks : (tsk'[u].state = "live" /\ tsk'[u].disconnecting)
                           <=> (tsk[u].state = "live" /\ tsk[u].disconnecting)
    BY <1>1
  <2> QED
    BY <2>1, Zenon DEF Disconnecting
<1> QED
  BY <1>3, <1>4, Zenon DEF TasksInv

\* The task_t after its turn in the second pass, before it is scheduled.
Passed(x, t) ==
  [x EXCEPT !.closing = x.closing \/ t = L, !.disconnect_ops = x.disconnect_ops - 1,
            !.state = IF x.disconnect_ops = 1 THEN "freed" ELSE x.state]

\* What that changes.
LEMMA PassedIs ==
  ASSUME NEW t, NEW x \in TskType, x.disconnect_ops \in 1..2, NEW y, y = Passed(x, t)
  PROVE  /\ y \in TskType /\ (y.closing <=> x.closing \/ t = L)
         /\ y.disconnect_ops = x.disconnect_ops - 1
         /\ y.state = IF x.disconnect_ops = 1 THEN "freed" ELSE x.state
         /\ y.ready = x.ready /\ y.disconnecting = x.disconnecting
         /\ y.working = x.working
<1> DEFINE e == x.closing \/ t = L
           n == x.disconnect_ops - 1
           s == IF x.disconnect_ops = 1 THEN "freed" ELSE x.state
<1>1. e \in BOOLEAN /\ n \in 0..2 /\ s \in {"none", "live", "removed", "freed"}
  BY DEF TskType
<1>2. y = [x EXCEPT !.closing = e, !.disconnect_ops = n, !.state = s]
  BY DEF Passed
<1> HIDE DEF e, n, s
<1>3. /\ y \in TskType /\ y.closing = e /\ y.disconnect_ops = n /\ y.state = s
      /\ y.ready = x.ready /\ y.disconnecting = x.disconnecting
      /\ y.working = x.working
  BY <1>1, <1>2, ZenonT(40) DEF TskType
<1> QED
  BY <1>3, Zenon DEF e, n, s

\* The second pass, of a listener.
LEMMA PassListener ==
  ASSUME IInv, NEW z, z.closing, NEW b, b = listener_begin_close(S),
         \/ tsk[L].state = "live" /\ z.state = "live"
         \/ tsk[L].state = "removed" /\ z.state = "freed",
         tsk[L].closing => z.ready = tsk[L].ready
  PROVE  /\ Listening(z, b.lst, b.acc, w[L].at) /\ b.lst \in LstType
         /\ b.acc \in [Acceptors -> AccType] /\ b.lst.overflow_count = lst.overflow_count
         /\ \A i \in Acceptors : /\ b.acc[i].armed = acc[i].armed
                                 /\ b.acc[i].overflowed = acc[i].overflowed
<1>1. /\ Types /\ lst \in LstType /\ acc \in [Acceptors -> AccType]
      /\ Listening(tsk[L], lst, acc, w[L].at)
  BY DEF IInv, Types, ListenerInv
<1>2. S \in SType /\ S.tsk = tsk /\ S.acc = acc /\ S.lst = lst
  BY <1>1, SIs
<1>3. CASE tsk[L].closing
  <2>1. b = S
    BY <1>2, <1>3, Zenon DEF listener_begin_close
  <2>2. b.lst = lst /\ b.acc = acc
    BY <1>2, <2>1, Zenon
  <2>3. /\ lst.active_count = Cardinality(Open(acc)) /\ lst.pending = 0
        /\ lst.close_dispatched => lst.events = <<>>
        /\ w[L].at = "remove" \/ tsk[L].state \in {"removed", "freed"} =>
             ~tsk[L].ready /\ lst.active_count = 0 /\ lst.overflow_count = 0
    BY <1>1, <1>3, Zenon DEF Listening
  <2>4. Listening(z, lst, acc, w[L].at)
    <3>1. w[L].at = "remove" \/ z.state \in {"removed", "freed"} =>
            z.closing /\ ~z.ready /\ lst.active_count = 0 /\ lst.overflow_count = 0
      BY <1>3, <2>3, Zenon
    <3>2. z.state # "none"
      OBVIOUS
    <3> QED
      BY <2>3, <3>1, <3>2, Zenon DEF Listening
  <2> QED
    BY <1>1, <2>2, <2>4, Zenon
<1>4. CASE ~tsk[L].closing
  <2>1. /\ lst.active_count = Cardinality(Open(acc)) /\ lst.events \in {<<>>, <<"OPEN">>}
        /\ tsk[L].state # "removed"
    BY <1>1, <1>4, Zenon DEF Listening
  <2>2. z.state = tsk[L].state
    BY <2>1, Zenon
  <2>3. /\ b \in SType
        /\ \A i \in Acceptors : /\ b.acc[i].armed = acc[i].armed
                                /\ b.acc[i].overflowed = acc[i].overflowed
        /\ b.lst.active_count = Cardinality(Open(b.acc)) /\ b.lst.pending = 0
        /\ b.lst.overflow_count = lst.overflow_count
        /\ b.lst.close_dispatched = lst.close_dispatched
    BY <1>2, <1>4, <2>1, BeginCloseIs, Zenon
  <2>4. Listening(z, b.lst, b.acc, w[L].at)
    BY <1>1, <1>4, <2>2, <2>3, ClosedListening
  <2> QED
    BY <2>3, <2>4, Zenon DEF SType
<1> QED
  BY <1>3, <1>4, Zenon

\* The second pass of pn_proactor_disconnect keeps the invariant, and does not
\* touch a task that has been freed.
LEMMA DisconnectTaskKeeps ==
  ASSUME IInv, disconnect_task
  PROVE  IInv'
<1> DEFINE t == Head(d.todo)
           x == tsk[t]
           y == Passed(x, t)
           last == x.disconnect_ops = 1
           a == [S EXCEPT !.tsk = [tsk EXCEPT ![t] = y]]
           b == IF last THEN schedule_if_inactive(a)
                ELSE IF ~x.closing THEN schedule(a, t) ELSE a
           z == IF ~last /\ ~x.closing THEN Scheduled(y) ELSE y
           n == IF last THEN Notify(a, b) ELSE d.notify
<1>1. /\ Types /\ tsk \in [Tasks -> TskType] /\ d \in DType /\ L \in Tasks
      /\ Conns \subseteq Tasks /\ L \notin Conns /\ con \in [Conns -> ConType] /\ p \in PType
      /\ lst \in LstType /\ acc \in [Acceptors -> AccType]
      /\ ok /\ ListenerInv /\ TasksInv /\ OverflowInv /\ ConnsInv
  BY NullIsNoTask DEF IInv, Types
<1>2. S \in SType /\ S.tsk = tsk /\ S.p = p /\ S.acc = acc /\ S.lst = lst
  BY <1>1, SIs
<1>5. /\ t \in Tasks /\ x \in TskType /\ x.disconnecting
      /\ Tail(d.todo) \in Seq(Tasks)
      /\ \/ x.state = "live" /\ x.disconnect_ops = 2
         \/ /\ x.state = "removed" /\ x.disconnect_ops = 1
            /\ ~x.ready /\ w[t].at = "idle"
  <2>1. t = Head(d.todo)
    BY DEF t
  <2>2. d.todo # <<>>
    BY Zenon DEF disconnect_task
  <2> HIDE DEF t
  <2> QED
    BY <1>1, <2>1, <2>2, NextTask, Zenon
<1>3. [S EXCEPT !.tsk[t].closing = @ \/ t = L, !.tsk[t].disconnect_ops = @ - 1,
                !.tsk[t].state = IF last THEN "freed" ELSE @] = a
  <2> HIDE DEF t
  <2>1. [tsk EXCEPT ![t].closing = @ \/ t = L, ![t].disconnect_ops = @ - 1,
                    ![t].state = IF last THEN "freed" ELSE @] = [tsk EXCEPT ![t] = y]
    BY <1>1, <1>5, ZenonT(40) DEF TskType, Passed
  <2> QED
    BY <1>2, <2>1, ZenonT(40) DEF SType
<1>4. /\ d.at = "pass" /\ d.todo # <<>> /\ CloseTask(t) /\ tsk' = b.tsk /\ p' = b.p
      /\ d' = [d EXCEPT !.todo = Tail(@), !.notify = n]
      /\ ok' = (ok /\ x.state # "freed") /\ UNCHANGED w
  <2> DEFINE e == [S EXCEPT !.tsk[t].closing = @ \/ t = L, !.tsk[t].disconnect_ops = @ - 1,
                            !.tsk[t].state = IF last THEN "freed" ELSE @]
             h == IF last THEN schedule_if_inactive(e)
                  ELSE IF ~x.closing THEN schedule(e, t) ELSE e
  <2>1. /\ d.at = "pass" /\ d.todo # <<>> /\ CloseTask(t) /\ tsk' = h.tsk /\ p' = h.p
        /\ d' = [d EXCEPT !.todo = Tail(@), !.notify = IF last THEN Notify(e, h) ELSE @]
        /\ ok' = (ok /\ x.state # "freed") /\ UNCHANGED w
    BY Zenon DEF disconnect_task
  <2>2. e = a
    BY <1>3, Zenon
  <2> HIDE DEF e, a
  <2>3. h = b
    BY <2>2
  <2> HIDE DEF h, b
  <2>4. d' = [d EXCEPT !.todo = Tail(@), !.notify = IF last THEN Notify(a, b) ELSE @]
    BY <2>1, <2>2, <2>3, Zenon
  <2> QED
    BY <2>1, <2>3, <2>4, Zenon
<1> HIDE DEF t
<1>6. /\ y \in TskType /\ (y.closing <=> x.closing \/ t = L)
      /\ y.disconnect_ops = x.disconnect_ops - 1
      /\ y.state = IF x.disconnect_ops = 1 THEN "freed" ELSE x.state
      /\ y.ready = x.ready /\ y.disconnecting = x.disconnecting
  <2>1. x.disconnect_ops \in 1..2 /\ y = Passed(x, t)
    BY <1>5
  <2> HIDE DEF x, y
  <2> QED
    BY <1>5, <2>1, PassedIs, ZenonT(40)
<1> HIDE DEF y
<1>7. /\ z \in TskType /\ (z.closing <=> x.closing \/ t = L)
      /\ z.disconnect_ops = x.disconnect_ops - 1
      /\ z.state = IF x.disconnect_ops = 1 THEN "freed" ELSE x.state
      /\ (last \/ x.closing => z.ready = x.ready) /\ z.disconnecting
  BY <1>5, <1>6, ScheduledIs, ZenonT(40)
<1>8. a \in SType /\ a.tsk = [tsk EXCEPT ![t] = y] /\ a.tsk[t] = y /\ a.p = p
  BY <1>1, <1>2, <1>5, <1>6, Zenon DEF SType
<1> HIDE DEF a
<1>9. b \in SType /\ b.tsk = [tsk EXCEPT ![t] = z] /\ PKept(p, b.p)
  <2>1. CASE last
    <3>1. b = schedule_if_inactive(a) /\ z = y
      BY <2>1
    <3>2. b \in SType /\ PKept(a.p, b.p) /\ b.tsk = a.tsk
      BY <1>8, <3>1, ScheduleIfInactive, Zenon
    <3> QED
      BY <1>8, <3>1, <3>2, Zenon
  <2>2. CASE ~last /\ ~x.closing
    <3>1. b = schedule(a, t) /\ z = Scheduled(y)
      BY <2>2
    <3> HIDE DEF b, z
    <3>2. b \in SType /\ PKept(a.p, b.p) /\ b.tsk = [a.tsk EXCEPT ![t] = Scheduled(a.tsk[t])]
      BY <1>5, <1>8, <3>1, ScheduleIs, Zenon
    <3>3. b.tsk = [[tsk EXCEPT ![t] = y] EXCEPT ![t] = z]
      BY <1>8, <3>1, <3>2
    <3>4. b.tsk = [tsk EXCEPT ![t] = z]
      BY <1>1, <1>5, <3>3, Zenon
    <3> QED
      BY <1>8, <3>2, <3>4, Zenon
  <2>3. CASE ~last /\ x.closing
    <3>1. b = a /\ z = y
      BY <2>3
    <3> QED
      BY <1>1, <1>8, <3>1, PkRefl, Zenon
  <2> QED
    BY <2>1, <2>2, <2>3, Zenon
<1>10. n \in BOOLEAN
  BY <1>1, <1>8, <1>9, NotifyIsBoolean, Zenon DEF DType
<1> HIDE DEF b, z, n
<1>11. d' \in DType /\ d'.todo = Tail(d.todo) /\ d'.at = "pass"
  BY <1>1, <1>4, <1>5, <1>10, Zenon DEF DType
<1>12. /\ tsk' = [tsk EXCEPT ![t] = z] /\ p' \in PType /\ p'.tasks = p.tasks
       /\ p'.overflow = p.overflow /\ p'.disconnects_pending = p.disconnects_pending
  BY <1>4, <1>9 DEF PKept
<1>13. TasksInv'
  <2> DEFINE rest == Tail(d.todo)
  <2>1. /\ t \in Range(d.todo) /\ t \notin Range(p.tasks) /\ IsInjective(rest)
        /\ Range(rest) = Range(d.todo) \ {t}
    <3>1. t = Head(d.todo)
      BY DEF t
    <3> QED
      BY <1>1, <1>4, <3>1, NextTask, Zenon
  <2>2. d'.todo = rest
    BY <1>11
  <2> HIDE DEF rest
  <2>3. /\ \/ x.state = "live" /\ x.disconnect_ops = 2 /\ z.state = "live"
           \/ x.state = "removed" /\ w[t].at = "idle" /\ z.state = "freed" /\ ~z.ready
        /\ z.state = "live" => z.disconnect_ops = 1
    BY <1>5, <1>7
  <2> QED
    BY <1>1, <1>4, <1>5, <1>7, <1>11, <1>12, <2>1, <2>2, <2>3, PassTasks, ZenonT(40)
<1>14. /\ ListenerInv' /\ lst' \in LstType /\ acc' \in [Acceptors -> AccType]
       /\ lst'.overflow_count = lst.overflow_count
       /\ \A i \in Acceptors : /\ acc'[i].armed = acc[i].armed
                               /\ acc'[i].overflowed = acc[i].overflowed
  <2>1. CASE t = L
    <3>1. lst' = listener_begin_close(S).lst /\ acc' = listener_begin_close(S).acc
      BY <1>4, <2>1 DEF CloseTask
    <3> DEFINE c == listener_begin_close(S)
    <3>2. /\ Listening(z, c.lst, c.acc, w[L].at) /\ c.lst \in LstType
          /\ c.acc \in [Acceptors -> AccType] /\ c.lst.overflow_count = lst.overflow_count
          /\ \A i \in Acceptors : /\ c.acc[i].armed = acc[i].armed
                                  /\ c.acc[i].overflowed = acc[i].overflowed
      <4>1. x = tsk[L]
        BY <2>1
      <4>2. \/ x.state = "live" /\ z.state = "live"
            \/ x.state = "removed" /\ z.state = "freed"
        BY <1>5, <1>7
      <4>3. z.closing /\ (x.closing => z.ready = x.ready)
        BY <1>7, <2>1
      <4>4. c = listener_begin_close(S)
        OBVIOUS
      <4> HIDE DEF c, x
      <4>5. /\ \/ tsk[L].state = "live" /\ z.state = "live"
               \/ tsk[L].state = "removed" /\ z.state = "freed"
            /\ z.closing /\ (tsk[L].closing => z.ready = tsk[L].ready)
        BY <4>1, <4>2, <4>3
      <4> QED
        BY <4>4, <4>5, PassListener, Zenon
    <3>3. tsk'[L] = z /\ w' = w
      BY <1>1, <1>4, <1>12, <2>1
    <3> HIDE DEF c
    <3>4. lst' = c.lst /\ acc' = c.acc
      BY <3>1 DEF c
    <3> QED
      BY <3>2, <3>3, <3>4, Zenon DEF ListenerInv
  <2>2. CASE t # L
    <3>1. lst' = lst /\ acc' = acc
      BY <1>4, <2>2, Zenon DEF CloseTask
    <3>2. tsk'[L] = tsk[L] /\ w' = w
      BY <1>1, <1>4, <1>12, <2>2, Zenon
    <3>3. ListenerInv'
      BY <1>1, <3>1, <3>2, ListenerKept
    <3> QED
      BY <1>1, <3>1, <3>3
  <2> QED
    BY <2>1, <2>2, Zenon
<1>15. /\ con' \in [Conns -> ConType]
       /\ \A c \in Conns : /\ con'[c].arm = con[c].arm
                           /\ con[c].closed => con'[c].closed
  <2>1. CASE t = L \/ x.closing
    <3>1. con' = con
      BY <1>4, <2>1, Zenon DEF CloseTask
    <3> QED
      BY <1>1, <3>1
  <2>2. CASE t # L /\ ~x.closing
    <3> DEFINE e == con[t].events \/ ~con[t].closed
               k1 == [con[t] EXCEPT !.queued = TRUE]
               k2 == [con[t] EXCEPT !.closed = TRUE, !.events = e]
               k == IF x.working THEN k1 ELSE k2
    <3>1. t \in Conns /\ con[t] \in ConType
      BY <1>1, <1>5, <2>2, Zenon DEF Tasks
    <3>2. con' = [con EXCEPT ![t] = k]
      BY <1>1, <1>4, <2>2, <3>1, Zenon DEF CloseTask
    <3>3. k1 \in ConType /\ k1.arm = con[t].arm /\ k1.closed = con[t].closed
      BY <3>1, Zenon DEF ConType
    <3>4. k2 \in ConType /\ k2.arm = con[t].arm /\ k2.closed
      <4>1. e \in BOOLEAN
        OBVIOUS
      <4> HIDE DEF e
      <4> QED
        BY <3>1, <4>1, ZenonT(40) DEF ConType
    <3> HIDE DEF k1, k2
    <3>5. k \in ConType /\ k.arm = con[t].arm /\ (con[t].closed => k.closed)
      BY <3>3, <3>4
    <3> HIDE DEF k
    <3> QED
      BY <1>1, <3>1, <3>2, <3>5
  <2> QED
    BY <2>1, <2>2, Zenon
<1>16. ConnsInv'
  <2> SUFFICES ASSUME NEW c \in Conns PROVE Leaving(tsk'[c], con'[c], w'[c].at)
    BY DEF ConnsInv
  <2>1. Leaving(tsk[c], con[c], w[c].at) /\ w'[c].at = w[c].at
    BY <1>1, <1>4 DEF ConnsInv
  <2>2. con'[c].arm = con[c].arm /\ (con[c].closed => con'[c].closed)
    BY <1>15
  <2>3. CASE c = t
    <3>1. tsk'[c] = z /\ tsk[c] = x /\ c # L
      BY <1>1, <1>5, <1>12, <2>3
    <3>2. z.closing = x.closing
      BY <1>5, <1>7, <2>3, <3>1, Zenon DEF TskType
    <3> QED
      BY <1>5, <1>7, <2>1, <2>2, <3>1, <3>2 DEF Leaving
  <2>4. CASE c # t
    <3>1. tsk'[c] = tsk[c]
      BY <1>1, <1>12, <2>4
    <3> QED
      BY <2>1, <2>2, <3>1, Zenon DEF Leaving
  <2> QED
    BY <2>3, <2>4
<1>17. OverflowInv'
  <2>1. \A u \in Tasks : w'[u].list = w[u].list /\ (w'[u].at # "overflow" => w[u].list = <<>>)
    BY <1>1, <1>4, Zenon DEF OverflowInv
  <2> QED
    BY <1>1, <1>12, <1>14, <2>1, OverflowKept, Zenon
<1>18. Types'
  <2>1. tsk' \in [Tasks -> TskType]
    BY <1>1, <1>7, <1>12, Zenon
  <2> QED
    BY <1>1, <1>4, <1>11, <1>12, <1>14, <1>15, <2>1, Zenon DEF Types
<1>19. ok'
  BY <1>1, <1>4, <1>5, Zenon
<1> QED
  BY <1>13, <1>14, <1>16, <1>17, <1>18, <1>19 DEF IInv

-----------------------------------------------------------------------------
(* The proactor's own task, the poller and the network *)

\* The lists and counts of the proactor and of pn_proactor_disconnect are kept.
LEMMA ProactorKept ==
  ASSUME IInv, PKept(p, p'), d' \in DType, d'.todo = d.todo,
         d'.at = "idle" => d'.todo = <<>>, UNCHANGED <<tsk, w, lst, acc, con, ok>>
  PROVE  IInv'
<1>1. /\ Types /\ TasksInv /\ ConnsInv /\ ListenerInv /\ OverflowInv /\ ok /\ L \in Tasks
      /\ p' \in PType /\ p'.tasks = p.tasks /\ p'.overflow = p.overflow
      /\ p'.disconnects_pending = p.disconnects_pending
  BY NullIsNoTask DEF IInv, PKept
<1>2. Types'
  BY <1>1 DEF Types
<1>3. TasksInv'
  BY <1>1, Zenon DEF TasksInv
<1>4. ConnsInv' /\ ListenerInv'
  BY <1>1, ConnsKept, ListenerKept
<1>5. OverflowInv'
  BY <1>1, Zenon DEF OverflowInv
<1> QED
  BY <1>1, <1>2, <1>3, <1>4, <1>5 DEF IInv

\* pn_proactor_disconnect ends.
LEMMA DisconnectDoneKeeps ==
  ASSUME IInv, disconnect_done
  PROVE  IInv'
<1>1. Types /\ d \in DType /\ d.notify \in BOOLEAN /\ d.todo = <<>>
  BY DEF IInv, Types, DType, disconnect_done
<1>2. S \in SType /\ S.p = p
  BY <1>1, SIs
<1>3. PKept(p, notify_poller(S, d.notify).p)
  BY <1>1, <1>2, NotifyPoller
<1>4. /\ p' = notify_poller(S, d.notify).p /\ d' = [d EXCEPT !.at = "idle", !.notify = FALSE]
      /\ UNCHANGED <<tsk, w, lst, acc, con, ok>>
  BY DEF disconnect_done
<1>5. d' \in DType /\ d'.todo = d.todo
  BY <1>1, <1>4, Zenon DEF DType
<1> QED
  BY <1>1, <1>3, <1>4, <1>5, ProactorKept

\* proactor_process, proactor_batch_next, Sleep and Wake, which are at the proactor's task only.
LEMMA PollerKeeps ==
  ASSUME IInv, proactor_process \/ proactor_batch_next \/ Sleep \/ Wake
  PROVE  IInv'
<1>1. Types /\ p \in PType /\ d \in DType /\ (d.at = "idle" => d.todo = <<>>)
  BY Zenon DEF IInv, Types, TasksInv
<1>2. UNCHANGED <<tsk, w, lst, acc, con, d, ok>>
  BY DEF proactor_process, proactor_batch_next, Sleep, Wake
<1>3. PKept(p, p')
  <2>1. ASSUME proactor_process PROVE PKept(p, p')
    <3> DEFINE e == p.event \/ p.need_inactive
               m == p.event /\ p.need_inactive
    <3>1. e \in BOOLEAN /\ m \in BOOLEAN
      OBVIOUS
    <3>2. p' = [p EXCEPT !.ready = FALSE, !.working = e, !.event = e, !.need_inactive = m]
      BY <2>1 DEF proactor_process
    <3> HIDE DEF e, m
    <3> QED
      BY <1>1, <3>1, <3>2, ZenonT(40) DEF PType, PKept
  <2>2. ASSUME proactor_batch_next PROVE PKept(p, p')
    <3> DEFINE e == is_inactive(S)
    <3>1. e \in BOOLEAN
      BY DEF is_inactive
    <3>2. p' = [p EXCEPT !.event = FALSE, !.told = e]
      BY <2>2 DEF proactor_batch_next
    <3> HIDE DEF e
    <3> QED
      BY <1>1, <3>1, <3>2, ZenonT(40) DEF PType, PKept
  <2>3. ASSUME Sleep PROVE PKept(p, p')
    <3>1. p' = [p EXCEPT !.asleep = TRUE, !.ready_list_active = FALSE]
      BY <2>3 DEF Sleep
    <3> QED
      BY <1>1, <3>1, ZenonT(40) DEF PType, PKept
  <2>4. ASSUME Wake PROVE PKept(p, p')
    <3>1. p' = [p EXCEPT !.asleep = FALSE, !.signal = FALSE]
      BY <2>4 DEF Wake
    <3> QED
      BY <1>1, <3>1, ZenonT(40) DEF PType, PKept
  <2> QED
    BY <2>1, <2>2, <2>3, <2>4, Zenon
<1> QED
  BY <1>1, <1>2, <1>3, ProactorKept

\* The proactor's part of pn_proactor_done.
LEMMA ProactorDoneKeeps ==
  ASSUME IInv, proactor_done
  PROVE  IInv'
<1> DEFINE q == [p EXCEPT !.working = FALSE, !.event = p.need_inactive, !.need_inactive = FALSE]
           a == [S EXCEPT !.p = q]
           b == schedule_only(a, NULL)
           n == Notify(a, b)
<1>1. Types /\ p \in PType /\ d \in DType /\ (d.at = "idle" => d.todo = <<>>)
  BY DEF IInv, Types, TasksInv
<1>2. S \in SType /\ S.tsk = tsk /\ S.p = p /\ S.acc = acc /\ S.lst = lst
  BY <1>1, SIs
<1>3. q \in PType /\ PKept(p, q)
  <2>1. p.need_inactive \in BOOLEAN
    BY <1>1 DEF PType
  <2> QED
    BY <1>1, <2>1, ZenonT(40) DEF PType, PKept
<1>4. [S EXCEPT !.p.working = FALSE, !.p.event = p.need_inactive, !.p.need_inactive = FALSE] = a
  BY <1>2, Zenon DEF SType
<1>5. /\ UNCHANGED <<w, con, d, ok>>
      /\ Become(IF p.need_inactive THEN schedule(a, NULL) ELSE a)
  <2> DEFINE e == [S EXCEPT !.p.working = FALSE, !.p.event = p.need_inactive,
                            !.p.need_inactive = FALSE]
  <2>1. /\ UNCHANGED <<w, con, d, ok>>
        /\ Become(IF p.need_inactive THEN schedule(e, NULL) ELSE e)
    BY Zenon DEF proactor_done
  <2>2. e = a
    BY <1>4
  <2> HIDE DEF e, a
  <2> QED
    BY <2>1, <2>2
<1> HIDE DEF q
<1>6. a \in SType /\ a.tsk = tsk /\ a.p = q /\ a.acc = acc /\ a.lst = lst
  BY <1>2, <1>3 DEF SType
<1> HIDE DEF a
<1>7. b \in SType /\ b.acc = acc /\ b.lst = lst /\ PKept(q, b.p) /\ b.tsk = tsk
  BY <1>6, ScheduleProactor
<1> HIDE DEF b
<1>8. n \in BOOLEAN
  BY <1>6, <1>7, NotifyIsBoolean
<1>9. schedule(a, NULL) = notify_poller(b, n)
  BY DEF schedule, b
<1> HIDE DEF n
<1>10. LET e == notify_poller(b, n)
       IN  e.acc = acc /\ e.lst = lst /\ PKept(b.p, e.p) /\ e.tsk = tsk
  BY <1>7, <1>8, NotifyPoller
<1>11. UNCHANGED <<tsk, acc, lst>> /\ PKept(p, p')
  <2>1. Become(notify_poller(b, n)) \/ Become(a)
    BY <1>5, <1>9, Zenon
  <2>2. CASE Become(notify_poller(b, n))
    BY <1>3, <1>7, <1>10, <2>2, Zenon DEF Become, PKept
  <2>3. CASE Become(a)
    BY <1>3, <1>6, <2>3 DEF Become
  <2> QED
    BY <2>1, <2>2, <2>3
<1> QED
  BY <1>1, <1>5, <1>11, ProactorKept

\* A connection request arrives.
LEMMA RequestKeeps ==
  ASSUME IInv, NEW i \in Acceptors, Request(i)
  PROVE  IInv'
<1> DEFINE n == acc[i].requests + 1
           q == [acc[i] EXCEPT !.requests = n]
<1>1. /\ Types /\ TasksInv /\ ConnsInv /\ ListenerInv /\ OverflowInv /\ ok /\ L \in Tasks
      /\ acc \in [Acceptors -> AccType] /\ acc[i] \in AccType /\ Conns \subseteq Tasks
  BY NullIsNoTask DEF IInv, Types
<1>2. acc' = [acc EXCEPT ![i] = q] /\ UNCHANGED <<tsk, w, lst, con, p, d, ok>>
  BY <1>1 DEF Request
<1>3. n \in Nat
  BY <1>1 DEF AccType
<1> HIDE DEF n
<1>4. /\ q \in AccType /\ q.open = acc[i].open /\ q.armed = acc[i].armed
      /\ q.shut = acc[i].shut /\ q.overflowed = acc[i].overflowed
  BY <1>1, <1>3, Zenon DEF AccType
<1> HIDE DEF q
<1>5. /\ acc' \in [Acceptors -> AccType]
      /\ \A j \in Acceptors :
           /\ acc'[j].open = acc[j].open /\ acc'[j].armed = acc[j].armed
           /\ acc'[j].shut = acc[j].shut /\ acc'[j].overflowed = acc[j].overflowed
  BY <1>1, <1>2, <1>4
<1>6. Types'
  BY <1>1, <1>2, <1>5 DEF Types
<1>7. TasksInv' /\ ConnsInv'
  BY <1>1, <1>2, Zenon DEF TasksInv, ConnsInv
<1>8. ListenerInv'
  <2>1. Open(acc') = Open(acc)
    BY <1>5 DEF Open
  <2>2. Listening(tsk[L], lst, acc', w[L].at)
    <3> DEFINE f == acc'
    <3>1. /\ Open(f) = Open(acc)
          /\ \A j \in Acceptors : /\ f[j].open = acc[j].open /\ f[j].armed = acc[j].armed
                                  /\ f[j].shut = acc[j].shut
                                  /\ f[j].overflowed = acc[j].overflowed
      BY <1>5, <2>1, Zenon
    <3> HIDE DEF f
    <3>2. Listening(tsk[L], lst, f, w[L].at)
      BY <1>1, <3>1, Zenon DEF ListenerInv, Listening
    <3> QED
      BY <3>2 DEF f
  <2> QED
    BY <1>2, <2>2 DEF ListenerInv
<1>9. OverflowInv'
  <2>1. \A t \in Tasks : w'[t].list = w[t].list /\ (w'[t].at # "overflow" => w[t].list = <<>>)
    BY <1>1, <1>2, Zenon DEF OverflowInv
  <2> QED
    BY <1>1, <1>2, <1>5, <2>1, OverflowKept, Zenon
<1> QED
  BY <1>1, <1>2, <1>6, <1>7, <1>8, <1>9 DEF IInv

-----------------------------------------------------------------------------
(* The invariant holds *)

\* It holds at the start.
LEMMA InitIInv == Init => IInv
<1> SUFFICES ASSUME Init PROVE IInv
  OBVIOUS
<1>1. /\ (\A t \in Tasks : tsk[t] = [state |-> "none", ready |-> FALSE, working |-> FALSE,
                                    closing |-> FALSE, disconnecting |-> FALSE,
                                    disconnect_ops |-> 0])
      /\ (\A t \in Tasks : w[t] = [at |-> "idle", list |-> <<>>])
      /\ (\A i \in Acceptors : acc[i] = [open |-> FALSE, armed |-> FALSE, shut |-> FALSE,
                                        overflowed |-> FALSE, requests |-> 0])
      /\ \A c \in Conns : con[c] = [fd |-> FALSE, arm |-> FALSE, io |-> FALSE,
                                    closed |-> FALSE, events |-> FALSE, queued |-> FALSE,
                                    reported |-> FALSE]
  BY Zenon DEF Init
<1>2. /\ lst.active_count = 0 /\ lst.overflow_count = 0 /\ lst.pending = 0
      /\ lst.events = <<>> /\ ~lst.close_dispatched
      /\ p.tasks = <<>> /\ p.disconnects_pending = 0 /\ p.overflow = <<>>
      /\ d.at = "idle" /\ d.todo = <<>> /\ ok /\ L \in Tasks /\ Conns \subseteq Tasks
  BY NullIsNoTask, Zenon DEF Init
<1>3. /\ <<>> \in Seq(Tasks) /\ <<>> \in Seq(Acceptors) /\ Cardinality({}) = 0
      /\ IsInjective(<<>>) /\ \A T : Range(<<>>) \cap T = {} /\ \A x : x \notin Range(<<>>)
  BY FS_EmptySet DEF IsInjective, Range
<1>4. \A t \in Tasks : /\ tsk[t].state = "none" /\ ~tsk[t].closing /\ ~tsk[t].disconnecting
                       /\ tsk[t].disconnect_ops = 0 /\ ~tsk[t].working /\ ~tsk[t].ready
                       /\ w[t].at = "idle" /\ w[t].list = <<>>
  BY <1>1
<1>5. /\ \A i \in Acceptors : ~acc[i].open /\ ~acc[i].shut /\ ~acc[i].overflowed
      /\ \A c \in Conns : ~con[c].arm
  BY <1>1
<1>6. Types
  <2>1. tsk \in [Tasks -> TskType]
    <3>1. 0 \in 0..2
      OBVIOUS
    <3> QED
      BY <3>1, Zenon DEF Init, TskType
  <2>2. w \in [Tasks -> WType]
    BY <1>3, Zenon DEF Init, WType, Places
  <2>3. lst \in LstType
    <3>1. 0 \in Nat /\ 0 \in 0..backlog
      BY TasksConstants
    <3> QED
      BY <3>1, Zenon DEF Init, LstType
  <2>4. acc \in [Acceptors -> AccType] /\ con \in [Conns -> ConType]
    BY Zenon DEF Init, AccType, ConType
  <2>5. p \in PType
    BY <1>3, Zenon DEF Init, PType
  <2>6. d \in DType
    BY <1>3, Zenon DEF Init, DType
  <2> QED
    BY <2>1, <2>2, <2>3, <2>4, <2>5, <2>6 DEF Types
<1>7. TasksInv
  <2>1. Disconnecting(tsk) = {}
    BY <1>4 DEF Disconnecting
  <2>2. ASSUME NEW t \in Tasks
        PROVE  Life(tsk[t], t \in Range(p.tasks), t \in Range(d.todo), w[t].at = "idle")
    <3>1. t \notin Range(p.tasks) /\ t \notin Range(d.todo)
      BY <1>2, <1>3
    <3> QED
      BY <1>4, <3>1, Zenon DEF Life
  <2>3. IsInjective(p.tasks) /\ IsInjective(d.todo)
    BY <1>2, <1>3
  <2> QED
    BY <1>2, <1>3, <2>1, <2>2, <2>3 DEF TasksInv
<1>8. ConnsInv
  <2> SUFFICES ASSUME NEW c \in Conns PROVE Leaving(tsk[c], con[c], w[c].at)
    BY Zenon DEF ConnsInv
  <2>1. ~tsk[c].closing /\ w[c].at = "idle" /\ ~con[c].arm
    BY <1>2, <1>4, <1>5, Zenon
  <2> QED
    BY <2>1 DEF Leaving
<1>9. ListenerInv
  <2>1. Open(acc) = {}
    BY <1>5, Zenon DEF Open
  <2>2. tsk[L].state = "none" /\ ~tsk[L].closing /\ w[L].at = "idle"
    BY <1>2, <1>4, Zenon
  <2>3. \A i \in Acceptors : ~acc[i].shut /\ ~acc[i].overflowed
    BY <1>5, Zenon
  <2> QED
    BY <1>2, <1>3, <2>1, <2>2, <2>3, Zenon DEF ListenerInv, Listening
<1>10. OverflowInv
  <2>1. \A i \in Acceptors : ~acc[i].overflowed
    BY <1>5, Zenon
  <2>2. \A t \in Tasks : w[t].list = <<>>
    BY <1>4, Zenon
  <2>3. \A t \in Tasks : /\ IsInjective(w[t].list) /\ Range(w[t].list) \cap Range(p.overflow) = {}
                         /\ \A u \in Tasks : Range(w[t].list) \cap Range(w[u].list) = {}
    BY <1>2, <1>3, <2>2
  <2>4. \A i \in Acceptors : i \notin Range(p.overflow) /\ \A t \in Tasks : i \notin Range(w[t].list)
    BY <1>2, <1>3, <2>2
  <2> QED
    BY <1>2, <1>3, <2>1, <2>2, <2>3, <2>4, Zenon DEF OverflowInv
<1> QED
  BY <1>2, <1>6, <1>7, <1>8, <1>9, <1>10 DEF IInv

\* Every step keeps it.
LEMMA NextIInv == IInv /\ [Next]_vars => IInv'
<1> SUFFICES ASSUME IInv, [Next]_vars PROVE IInv'
  OBVIOUS
<1>1. ASSUME NEW bound \in SUBSET Acceptors, pn_proactor_listen(bound) PROVE IInv'
  BY <1>1, ListenKeeps
<1>2. ASSUME pn_listener_close \/ pn_proactor_disconnect \/ Sleep PROVE IInv'
  BY <1>2, CloseKeeps, DisconnectKeeps, PollerKeeps, Zenon
<1>3. ASSUME NEW c \in Conns, pn_listener_accept2(c) \/ PeerSends(c) PROVE IInv'
  BY <1>3, AcceptKeeps, PeerSendsKeeps, Zenon
<1>4. ASSUME NEW c \in Conns, ConnStep(c) PROVE IInv'
  <2>1. ASSUME NEW sched \in BOOLEAN, NEW io \in BOOLEAN, pconnection_process(c, sched, io)
        PROVE  IInv'
    BY <2>1, ProcessKeeps
  <2>2. ASSUME NEW events \in BOOLEAN, NEW closed \in BOOLEAN,
               pconnection_work(c, events, closed)
        PROVE  IInv'
    BY <2>2, WorkKeeps
  <2>3. ASSUME pconnection_check(c) \/ pconnection_batch_next(c) PROVE IInv'
    BY <2>3, CheckKeeps, BatchNextKeeps, Zenon
  <2>4. ASSUME pconnection_done(c) \/ pconnection_cleanup(c) PROVE IInv'
    BY <2>4, DoneKeeps, CleanupKeeps, Zenon
  <2> QED
    BY <1>4, <2>1, <2>2, <2>3, <2>4, Zenon DEF ConnStep
<1>5. ASSUME NEW i \in Acceptors, Request(i) PROVE IInv'
  BY <1>5, RequestKeeps
<1>6. ASSUME NEW t \in Tasks, LeaveStep(t) PROVE IInv'
  BY <1>6, RearmKeeps, RearmedKeeps, LeaveKeeps, Zenon DEF LeaveStep
<1>7. ASSUME ListenerStep PROVE IInv'
  <2>1. ASSUME NEW sched \in BOOLEAN, NEW i \in Acceptors \cup {NULL}, NEW n \in 0..MaxIncoming,
               NEW end \in {"blocked", "overflow", "error"}, listener_process(sched, i, n, end)
        PROVE  IInv'
    BY <2>1, ListenerProcessKeeps
  <2>2. ASSUME listener_batch_next \/ listener_done_begin \/ listener_done PROVE IInv'
    BY <2>2, ListenerBatchNextKeeps, DoneBeginKeeps, ListenerDoneKeeps, Zenon
  <2> QED
    BY <1>7, <2>1, <2>2, Zenon DEF ListenerStep
<1>8. ASSUME ProactorStep PROVE IInv'
  BY <1>8, PollerKeeps, ProactorDoneKeeps, Zenon DEF ProactorStep
<1>9. ASSUME DisconnectStep PROVE IInv'
  BY <1>9, DisconnectTaskKeeps, DisconnectDoneKeeps, Zenon DEF DisconnectStep
<1>10. ASSUME UNCHANGED vars PROVE IInv'
  <2>1. UNCHANGED <<tsk, w, lst, acc, con, p, d, ok>>
    BY <1>10 DEF vars
  <2>2. PKept(p, p') /\ d' \in DType /\ (d'.at = "idle" => d'.todo = <<>>)
    BY <2>1, PkRefl DEF IInv, Types, TasksInv
  <2> QED
    BY <2>1, <2>2, ProactorKept
<1> QED
  BY <1>1, <1>2, <1>3, <1>4, <1>5, <1>6, <1>7, <1>8, <1>9, <1>10, Zenon DEF Next

\* IInv is an invariant.
LEMMA Invariance == Spec => []IInv
  BY InitIInv, NextIInv, PTL DEF Spec

-----------------------------------------------------------------------------
(* What follows from it *)

\* Overflowing holds the sockets that are marked as overflowed.
LEMMA OverflowingIs ==
  ASSUME IInv
  PROVE  Overflowing = {i \in Acceptors : acc[i].overflowed}
<1>1. /\ p.overflow \in Seq(Acceptors) /\ \A t \in Tasks : w[t].list \in Seq(Acceptors)
  BY DEF IInv, Types, PType, WType
<1>2. \A i \in Acceptors : acc[i].overflowed <=> i \in Range(p.overflow)
                                                 \/ \E t \in Tasks : i \in Range(w[t].list)
  BY Zenon DEF IInv, OverflowInv
<1>3. Range(p.overflow) \subseteq Acceptors /\ \A t \in Tasks : Range(w[t].list) \subseteq Acceptors
  BY <1>1 DEF Range
<1> QED
  BY <1>2, <1>3, Zenon DEF Overflowing

\* Life leaves a task that has been freed on no list and with no thread.
LEMMA FreedFollows == IInv => FreedIsGone
<1> SUFFICES ASSUME IInv, NEW t \in Tasks, tsk[t].state = "freed"
             PROVE  /\ ~tsk[t].ready /\ w[t].at = "idle"
                    /\ t \notin Range(p.tasks) \cup Range(d.todo)
                    /\ t = L => Overflowing = {} /\ \A i \in Acceptors : ~acc[i].open
                    /\ t # L => ~con[t].arm
  BY Zenon DEF IInv, FreedIsGone
<1>1. Life(tsk[t], t \in Range(p.tasks), t \in Range(d.todo), w[t].at = "idle")
  BY DEF IInv, TasksInv
<1>2. /\ ~tsk[t].ready /\ w[t].at = "idle"
      /\ t \notin Range(p.tasks) \cup Range(d.todo)
  BY <1>1 DEF Life
<1>3. ASSUME t = L PROVE Overflowing = {} /\ \A i \in Acceptors : ~acc[i].open
  <2>1. lst.active_count = Cardinality(Open(acc)) /\ lst.active_count = 0 /\ lst.overflow_count = 0
    BY <1>3, Zenon DEF IInv, ListenerInv, Listening
  <2>2. Open(acc) = {}
    <3>1. IsFiniteSet(Open(acc))
      <4>1. Open(acc) \subseteq Acceptors
        BY DEF Open
      <4> QED
        BY <4>1, TasksConstants, FS_Subset
    <3> QED
      BY <2>1, <3>1, FS_EmptySet, Zenon
  <2>3. \A i \in Acceptors : ~acc[i].overflowed
    BY <2>1 DEF IInv, OverflowInv
  <2> QED
    BY <2>2, <2>3, OverflowingIs DEF Open
<1>4. ASSUME t # L PROVE ~con[t].arm
  <2>1. t \in Conns
    BY <1>4 DEF Tasks
  <2> QED
    BY <2>1, Zenon DEF IInv, ConnsInv, Leaving
<1> QED
  BY <1>2, <1>3, <1>4, Zenon

\* Life says of every task on which list it is, and so what the counters count.
LEMMA CountsFollow == IInv => CountsExact
<1> SUFFICES ASSUME IInv PROVE CountsExact
  OBVIOUS
<1>1. /\ Types /\ TasksInv /\ ListenerInv /\ L \in Tasks /\ IsFiniteSet(Tasks)
  BY NullIsNoTask DEF IInv
<1>2. /\ lst.active_count = Cardinality({i \in Acceptors : acc[i].open})
      /\ lst.active_count \in 0..Cardinality(Acceptors)
  <2>1. Open(acc) \subseteq Acceptors /\ lst.active_count = Cardinality(Open(acc))
    BY <1>1, Zenon DEF ListenerInv, Listening, Open
  <2>2. /\ Cardinality(Open(acc)) \in Nat /\ Cardinality(Acceptors) \in Nat
        /\ Cardinality(Open(acc)) <= Cardinality(Acceptors)
    BY <2>1, TasksConstants, FS_Subset, FS_CardinalityType
  <2>3. lst.active_count = Cardinality({i \in Acceptors : acc[i].open})
    BY <2>1 DEF Open
  <2> QED
    BY <2>1, <2>2, <2>3
<1>3. /\ p.disconnects_pending =
           Cardinality({t \in Tasks : tsk[t].state = "live" /\ tsk[t].disconnecting})
      /\ p.disconnects_pending \in 0..Cardinality(Tasks)
  <2>1. Disconnecting(tsk) \subseteq Tasks /\ p.disconnects_pending = Cardinality(Disconnecting(tsk))
    BY <1>1 DEF TasksInv, Disconnecting
  <2>2. /\ Cardinality(Disconnecting(tsk)) \in Nat /\ Cardinality(Tasks) \in Nat
        /\ Cardinality(Disconnecting(tsk)) <= Cardinality(Tasks)
    BY <1>1, <2>1, FS_Subset, FS_CardinalityType
  <2>3. p.disconnects_pending =
          Cardinality({t \in Tasks : tsk[t].state = "live" /\ tsk[t].disconnecting})
    BY <2>1 DEF Disconnecting
  <2> QED
    BY <2>1, <2>2, <2>3
<1>4. Range(p.tasks) = {t \in Tasks : tsk[t].state = "live" /\ ~tsk[t].disconnecting}
  <2>1. Range(p.tasks) \subseteq Tasks
    BY <1>1 DEF Types, PType, Range
  <2>2. ASSUME NEW t \in Tasks
        PROVE  t \in Range(p.tasks) <=> tsk[t].state = "live" /\ ~tsk[t].disconnecting
    <3>1. Life(tsk[t], t \in Range(p.tasks), t \in Range(d.todo), w[t].at = "idle")
      BY <1>1, Zenon DEF TasksInv
    <3> QED
      BY <3>1, Zenon DEF Life
  <2> QED
    BY <2>1, <2>2
<1>5. TypeOK
  <2>1. ASSUME NEW t \in Tasks
        PROVE  /\ tsk[t].state \in {"none", "live", "removed", "freed"}
               /\ tsk[t].disconnect_ops \in 0..2 /\ w[t].list \in Seq(Acceptors)
    BY <1>1 DEF Types, TskType, WType
  <2>2. /\ lst.pending \in 0..backlog /\ lst.overflow_count \in Nat
        /\ lst.events \in {<<>>, <<"OPEN">>, <<"CLOSE">>, <<"OPEN", "CLOSE">>}
    BY <1>1 DEF Types, LstType
  <2>3. Len(lst.events) <= 2
    <3>1. Len(<<>>) = 0 /\ Len(<<"OPEN">>) = 1
      OBVIOUS
    <3>2. Len(<<"CLOSE">>) = 1 /\ Len(<<"OPEN", "CLOSE">>) = 2
      OBVIOUS
    <3>3. ASSUME NEW e, e = <<>> \/ e = <<"OPEN">> \/ e = <<"CLOSE">> \/ e = <<"OPEN", "CLOSE">>
          PROVE  Len(e) <= 2
      <4>1. CASE e = <<>>
        BY <3>1, <4>1
      <4>2. CASE e = <<"OPEN">>
        BY <3>1, <4>2
      <4>3. CASE e = <<"CLOSE">>
        BY <3>2, <4>3
      <4>4. CASE e = <<"OPEN", "CLOSE">>
        BY <3>2, <4>4
      <4> QED
        BY <3>3, <4>1, <4>2, <4>3, <4>4, Zenon
    <3>4. \/ lst.events = <<>> \/ lst.events = <<"OPEN">>
          \/ lst.events = <<"CLOSE">> \/ lst.events = <<"OPEN", "CLOSE">>
      BY <2>2, Zenon
    <3> QED
      BY <3>3, <3>4, Zenon
  <2>4. p.tasks \in Seq(Tasks) /\ p.overflow \in Seq(Acceptors)
    BY <1>1 DEF Types, PType
  <2> QED
    BY <1>2, <1>3, <2>1, <2>2, <2>3, <2>4, Zenon DEF TypeOK
<1> QED
  BY <1>1, <1>2, <1>3, <1>4, <1>5, Zenon DEF CountsExact, TasksInv

\* Listening says who will see to a socket that is not armed.
LEMMA DeafFollows == IInv => NeverDeaf
<1> SUFFICES ASSUME IInv, Live(L), ~tsk[L].closing, w[L].at = "idle", ~tsk[L].ready,
                    NEW i \in Acceptors, acc[i].open
             PROVE  acc[i].armed \/ (acc[i].overflowed /\ i \in Overflowing)
  BY Zenon DEF NeverDeaf
<1>1. acc[i].armed \/ acc[i].overflowed
  BY Zenon DEF IInv, ListenerInv, Listening, Live
<1> QED
  BY <1>1, OverflowingIs

-----------------------------------------------------------------------------
(* After PN_LISTENER_CLOSE *)

Parts == {"tsk", "p", "acc", "lst"}

\* The functions of the scheduler leave the listener alone.
LEMMA ScheduleLst ==
  ASSUME NEW a, a = [k \in Parts |-> a[k]], NEW t
  PROVE  /\ schedule(a, t).lst = a.lst
         /\ schedule_if_inactive(a) = [k \in Parts |-> schedule_if_inactive(a)[k]]
         /\ schedule_if_inactive(a).lst = a.lst
         /\ proactor_add(a, t).lst = a.lst /\ proactor_remove(a, t).lst = a.lst
<1>1. ASSUME NEW b, b = [k \in Parts |-> b[k]], NEW n
      PROVE  notify_poller(b, n).lst = b.lst
  BY <1>1 DEF Parts, notify_poller
<1>2. ASSUME NEW b, b = [k \in Parts |-> b[k]], NEW u
      PROVE  LET c == schedule_only(b, u) IN c = [k \in Parts |-> c[k]] /\ c.lst = b.lst
  BY <1>2, Zenon DEF Parts, schedule_only
<1>3. ASSUME NEW b, b = [k \in Parts |-> b[k]]
      PROVE  LET c == schedule_if_inactive(b) IN c = [k \in Parts |-> c[k]] /\ c.lst = b.lst
  <2> DEFINE e == [b EXCEPT !.p.need_inactive = TRUE]
  <2>1. e = [k \in Parts |-> e[k]] /\ e.lst = b.lst
    BY <1>3, Zenon DEF Parts
  <2> HIDE DEF e
  <2>2. schedule_if_inactive(b) = IF is_inactive(b) THEN schedule_only(e, NULL) ELSE b
    BY DEF schedule_if_inactive, e
  <2> QED
    BY <1>2, <1>3, <2>1, <2>2
<1>4. schedule(a, t).lst = a.lst
  BY <1>1, <1>2 DEF schedule
<1>5. proactor_add(a, t).lst = a.lst
  BY DEF Parts, proactor_add
<1>6. proactor_remove(a, t).lst = a.lst
  <2> DEFINE b == IF ~a.tsk[t].disconnecting
                  THEN [a EXCEPT !.p.tasks = unlink(@, t)]
                  ELSE [a EXCEPT !.p.disconnects_pending = @ - 1,
                                 !.tsk[t].disconnect_ops = @ - 1]
             s == IF b.tsk[t].disconnect_ops = 0 THEN "freed" ELSE "removed"
             e == [b EXCEPT !.tsk[t].state = s]
             c == schedule_if_inactive(e)
  <2>1. proactor_remove(a, t) = notify_poller(c, Notify(a, c))
    BY Zenon DEF proactor_remove
  <2>2. b = [k \in Parts |-> b[k]] /\ b.lst = a.lst
    BY Zenon DEF Parts
  <2> HIDE DEF b, s
  <2>3. e = [k \in Parts |-> e[k]] /\ e.lst = a.lst
    BY <2>2 DEF Parts
  <2> HIDE DEF e
  <2>4. c = [k \in Parts |-> c[k]] /\ c.lst = a.lst
    BY <1>3, <2>3
  <2> HIDE DEF c
  <2> QED
    BY <1>1, <2>1, <2>4
<1> QED
  BY <1>3, <1>4, <1>5, <1>6

\* The connections, the proactor and its poller leave the listener alone.
LEMMA OthersLst ==
  ASSUME \/ \E c \in Conns : PeerSends(c) \/ ConnStep(c)
         \/ \E i \in Acceptors : Request(i)
         \/ pn_proactor_disconnect \/ Sleep \/ ProactorStep \/ disconnect_done
  PROVE  UNCHANGED lst
<1>1. S = [k \in Parts |-> S[k]] /\ S.lst = lst
  BY DEF S, Parts
<1>2. ASSUME NEW c \in Conns, PeerSends(c) PROVE UNCHANGED lst
  BY <1>2, Zenon DEF PeerSends
<1>3. ASSUME NEW c \in Conns, ConnStep(c) PROVE UNCHANGED lst
  <2>1. ASSUME NEW sched \in BOOLEAN, NEW io \in BOOLEAN, pconnection_process(c, sched, io)
        PROVE  UNCHANGED lst
    BY <1>1, <2>1, Zenon DEF pconnection_process, Become, Parts
  <2>2. ASSUME NEW events \in BOOLEAN, NEW closed \in BOOLEAN,
               pconnection_work(c, events, closed)
        PROVE  UNCHANGED lst
    BY <2>2, Zenon DEF pconnection_work
  <2>3. ASSUME pconnection_check(c) PROVE UNCHANGED lst
    <3> DEFINE a == [S EXCEPT !.tsk[c].working = FALSE, !.tsk[c].closing = @ \/ finished(c)]
    <3>1. a.lst = lst
      BY <1>1 DEF Parts
    <3>2. UNCHANGED lst \/ Become(a)
      BY <2>3, Zenon DEF pconnection_check
    <3> HIDE DEF a
    <3> QED
      BY <3>1, <3>2 DEF Become
  <2>4. ASSUME pconnection_batch_next(c) \/ pconnection_cleanup(c) PROVE UNCHANGED lst
    BY <2>4 DEF pconnection_batch_next, pconnection_cleanup
  <2>5. ASSUME pconnection_done(c) PROVE UNCHANGED lst
    <3> DEFINE a == [S EXCEPT !.tsk[c].working = FALSE]
               b == [a EXCEPT !.tsk[c].closing = @ \/ finished(c)]
    <3>1. a = [k \in Parts |-> a[k]] /\ a.lst = lst
      BY <1>1, Zenon DEF Parts
    <3>2. b.lst = lst
      <4> HIDE DEF a
      <4> QED
        BY <3>1 DEF Parts
    <3>3. Become(schedule(a, c)) \/ Become(b)
      BY <2>5, Zenon DEF pconnection_done
    <3> HIDE DEF a, b
    <3> QED
      BY <3>1, <3>2, <3>3, ScheduleLst DEF Become
  <2> QED
    BY <1>3, <2>1, <2>2, <2>3, <2>4, <2>5, Zenon DEF ConnStep
<1>4. ASSUME NEW i \in Acceptors, Request(i) PROVE UNCHANGED lst
  BY <1>4, Zenon DEF Request
<1>5. ASSUME pn_proactor_disconnect PROVE UNCHANGED lst
  <2> DEFINE f == [t \in Tasks |-> IF t \notin Range(p.tasks) THEN tsk[t]
                     ELSE [tsk[t] EXCEPT !.disconnecting = TRUE, !.disconnect_ops = 2]]
             a == [S EXCEPT !.tsk = f, !.p.tasks = <<>>,
                            !.p.disconnects_pending = @ + Len(p.tasks)]
             b == schedule_if_inactive(a)
  <2>1. Become(notify_poller(b, Notify(a, b))) \/ Become(b)
    BY <1>5, Zenon DEF pn_proactor_disconnect
  <2> HIDE DEF f
  <2>2. a = [k \in Parts |-> a[k]] /\ a.lst = lst
    BY <1>1, Zenon DEF Parts
  <2> HIDE DEF a
  <2>3. b = [k \in Parts |-> b[k]] /\ b.lst = lst
    BY <2>2, ScheduleLst
  <2> HIDE DEF b
  <2>4. notify_poller(b, Notify(a, b)).lst = lst
    BY <2>3 DEF notify_poller, Parts
  <2> QED
    BY <2>1, <2>3, <2>4 DEF Become
<1>6. ASSUME Sleep \/ disconnect_done PROVE UNCHANGED lst
  BY <1>6, Zenon DEF Sleep, disconnect_done
<1>7. ASSUME ProactorStep PROVE UNCHANGED lst
  <2>1. ASSUME proactor_done PROVE UNCHANGED lst
    <3> DEFINE a == [S EXCEPT !.p.working = FALSE, !.p.event = p.need_inactive,
                              !.p.need_inactive = FALSE]
    <3>1. a = [k \in Parts |-> a[k]] /\ a.lst = lst
      BY <1>1, Zenon DEF Parts
    <3>2. Become(schedule(a, NULL)) \/ Become(a)
      BY <2>1, Zenon DEF proactor_done
    <3> HIDE DEF a
    <3> QED
      BY <3>1, <3>2, ScheduleLst DEF Become
  <2>2. ASSUME proactor_process \/ proactor_batch_next \/ Wake PROVE UNCHANGED lst
    BY <2>2 DEF proactor_process, proactor_batch_next, Wake
  <2> QED
    BY <1>7, <2>1, <2>2, Zenon DEF ProactorStep
<1> QED
  BY <1>2, <1>3, <1>4, <1>5, <1>6, <1>7, Zenon

\* Once PN_LISTENER_CLOSE has been taken, the listener's last event stays, until
\* listener_done has forgotten it.
LEMMA CloseStays ==
  ASSUME IInv, [Next]_vars, lst.close_dispatched
  PROVE  lst'.last = lst.last \/ lst'.last = NULL
<1>1. /\ S = [k \in Parts |-> S[k]] /\ S.lst = lst /\ S.tsk = tsk
  BY DEF S, Parts
<1>2. /\ tsk[L].closing /\ lst.events = <<>> /\ lst.pending = 0
      /\ tsk[L].state # "none" /\ lst \in LstType /\ acc \in [Acceptors -> AccType]
  <2>1. tsk[L].closing /\ lst.events = <<>> /\ lst.pending = 0
    BY Zenon DEF IInv, ListenerInv, Listening
  <2> QED
    BY <2>1, NullIsNoTask, Zenon DEF IInv, TasksInv, Life, Types
<1>3. \A b : b \in LstType => b = [active_count |-> b.active_count,
        overflow_count |-> b.overflow_count, pending |-> b.pending, events |-> b.events,
        close_dispatched |-> b.close_dispatched, last |-> b.last]
  BY DEF LstType
<1>4. ASSUME NEW bound \in SUBSET Acceptors, pn_proactor_listen(bound) PROVE FALSE
  BY <1>2, <1>4 DEF pn_proactor_listen
<1>5. ASSUME pn_listener_close PROVE FALSE
  BY <1>2, <1>5 DEF pn_listener_close
<1>6. ASSUME NEW c \in Conns, pn_listener_accept2(c) PROVE UNCHANGED lst
  <2>1. Become(proactor_add(S, c))
    BY <1>2, <1>6, Zenon DEF pn_listener_accept2
  <2> QED
    BY <1>1, <2>1, ScheduleLst DEF Become
<1>7. ASSUME NEW t \in Tasks, LeaveStep(t) PROVE lst'.last = lst.last
  <2>1. ASSUME proactor_rearm_overflow(t) PROVE lst'.last = lst.last
    <3> DEFINE i == Head(w[t].list)
               n == lst.overflow_count + 1
               a == [S EXCEPT !.acc[i].overflowed = FALSE, !.lst.overflow_count = @ + 1]
    <3>1. Become(schedule(a, L))
      BY <1>2, <2>1, Zenon DEF proactor_rearm_overflow
    <3>2. a = [k \in Parts |-> a[k]] /\ a.lst = [lst EXCEPT !.overflow_count = n]
      BY <1>1, Zenon DEF Parts
    <3> HIDE DEF a, n
    <3>3. a.lst.last = lst.last
      BY <1>2, <3>2, Zenon DEF LstType
    <3> QED
      BY <3>1, <3>2, <3>3, ScheduleLst DEF Become
  <2>2. ASSUME rearmed(t) PROVE lst'.last = lst.last
    BY <2>2 DEF rearmed
  <2>3. ASSUME leave(t) PROVE lst'.last = lst.last
    BY <1>1, <2>3, ScheduleLst DEF leave, Become
  <2> QED
    BY <1>7, <2>1, <2>2, <2>3, Zenon DEF LeaveStep
<1>8. ASSUME ListenerStep PROVE lst'.last = lst.last \/ lst'.last = NULL
  <2>1. ASSUME NEW sched \in BOOLEAN, NEW i \in Acceptors \cup {NULL}, NEW n \in 0..MaxIncoming,
               NEW end \in {"blocked", "overflow", "error"}, listener_process(sched, i, n, end)
        PROVE  lst'.last = lst.last
    <3> DEFINE a == [S EXCEPT !.tsk[L].ready = @ /\ ~sched]
               b == HandleSocket(a, i, n, end)
               m == lst.active_count - 1
    <3>1. Become([b EXCEPT !.tsk[L].working = TRUE]) \/ Become(b)
      BY <2>1, Zenon DEF listener_process
    <3>2. a = [k \in Parts |-> a[k]] /\ a.lst = lst /\ a.tsk[L].closing
      <4>1. Live(L) /\ Types
        BY <2>1, Zenon DEF listener_process, MayProcess, IInv
      <4>2. Taken(a)
        BY <4>1, TakenIs, Zenon
      <4>3. a = [k \in Parts |-> a[k]]
        BY <1>1, Zenon DEF Parts
      <4> HIDE DEF a
      <4> QED
        BY <1>2, <4>2, <4>3, Zenon DEF Taken
    <3> HIDE DEF a
    <3>3. b = [k \in Parts |-> b[k]] /\ (b.lst = lst \/ b.lst = [lst EXCEPT !.active_count = m])
      <4>1. CASE i = NULL
        <5>1. b = a
          BY <4>1 DEF HandleSocket
        <5> HIDE DEF b
        <5> QED
          BY <3>2, <5>1
      <4>2. CASE i # NULL
        <5> DEFINE e == [a EXCEPT !.acc[i].armed = FALSE]
        <5>1. e = [k \in Parts |-> e[k]] /\ e.lst = lst
          BY <3>2, Zenon DEF Parts
        <5>2. b = [e EXCEPT !.acc[i].open = FALSE, !.lst.active_count = @ - 1]
          BY <3>2, <4>2 DEF HandleSocket
        <5> HIDE DEF e, b
        <5> QED
          BY <5>1, <5>2, Zenon DEF Parts
      <4> QED
        BY <4>1, <4>2
    <3> HIDE DEF b, m
    <3>4. b.lst.last = lst.last
      <4>1. [lst EXCEPT !.active_count = m].last = lst.last
        BY <1>2, Zenon DEF LstType
      <4> QED
        BY <3>3, <4>1, Zenon
    <3>5. [b EXCEPT !.tsk[L].working = TRUE].lst = b.lst
      BY <3>3 DEF Parts
    <3> QED
      BY <3>1, <3>4, <3>5 DEF Become
  <2>2. ASSUME listener_batch_next PROVE FALSE
    <3>1. ~listener_has_event(S)
      BY <1>1, <1>2 DEF listener_has_event
    <3> QED
      BY <2>2, <3>1 DEF listener_batch_next
  <2>3. ASSUME listener_done_begin PROVE lst'.last = lst.last
    BY <2>3 DEF listener_done_begin
  <2>4. ASSUME listener_done PROVE lst'.last = NULL
    <3> DEFINE b == [S EXCEPT !.tsk[L].working = FALSE, !.lst.last = NULL]
    <3>1. Become(schedule(b, L)) \/ Become(b)
      BY <1>2, <2>4, Zenon DEF listener_done
    <3>2. b = [k \in Parts |-> b[k]] /\ b.lst = [lst EXCEPT !.last = NULL]
      BY <1>1, Zenon DEF Parts
    <3> HIDE DEF b
    <3>3. b.lst.last = NULL
      BY <1>2, <3>2, Zenon DEF LstType
    <3> QED
      BY <3>1, <3>2, <3>3, ScheduleLst DEF Become
  <2> QED
    BY <1>8, <2>1, <2>2, <2>3, <2>4, Zenon DEF ListenerStep
<1>9. ASSUME disconnect_task PROVE lst'.last = lst.last
  <2>1. listener_begin_close(S) = S
    BY <1>1, <1>2, Zenon DEF listener_begin_close
  <2>2. CloseTask(Head(d.todo))
    BY <1>9, Zenon DEF disconnect_task
  <2> QED
    BY <1>1, <2>1, <2>2, Zenon DEF CloseTask
<1>10. ASSUME UNCHANGED vars PROVE lst'.last = lst.last
  BY <1>10 DEF vars
<1> QED
  BY <1>4, <1>5, <1>6, <1>7, <1>8, <1>9, <1>10, OthersLst, Zenon DEF Next, DisconnectStep

-----------------------------------------------------------------------------
(* What the invariant gives *)

\* A connection or listener is freed once, by proactor_remove or by
\* pn_proactor_disconnect, whichever comes last, and from then on nothing
\* refers to it: no list, no thread, no socket that epoll still watches.
THEOREM FreedIsGoneAlways == Spec => []FreedIsGone
BY Invariance, FreedFollows, PTL

\* The list of tasks and disconnects_pending account for every live task once,
\* so that PN_PROACTOR_INACTIVE is decided by the right numbers, and
\* active_count, on which listener_can_free waits, is the number of the
\* listener's open sockets.
THEOREM CountsAlwaysExact == Spec => []CountsExact
BY Invariance, CountsFollow, PTL

\* Whatever listener_process, the overflow list and listener_done do at the same
\* time, no socket of a listener that is not closing is left with nobody to arm
\* it again.
THEOREM ListenerNeverDeaf == Spec => []NeverDeaf
BY Invariance, DeafFollows, PTL

\* After PN_LISTENER_CLOSE, which listener_begin_close puts last, the
\* application gets no event of the listener any more.
THEOREM CloseEndsTheListener == Spec => CloseIsLastEvent
<1>1. IInv /\ [Next]_vars => [lst.close_dispatched /\ lst'.last # lst.last => lst'.last = NULL]_vars
  BY CloseStays
<1> QED
  BY <1>1, Invariance, PTL DEF Spec, CloseIsLastEvent
=============================================================================

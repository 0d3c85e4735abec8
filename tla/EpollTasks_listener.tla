------------------------- MODULE EpollTasks_listener ------------------------
(***************************************************************************)
(* The listener keeps the invariant of EpollTasks_lemmas: its sockets, the *)
(* lists of those that wait for a file descriptor, and its batches.        *)
(***************************************************************************)
EXTENDS EpollTasks_lemmas

-----------------------------------------------------------------------------
(* The sockets that wait for a file descriptor *)

\* The list of the proactor becomes the list of a thread that has none.
LEMMA TakeOverflow ==
  ASSUME Types, OverflowInv, NEW t \in Tasks, w[t].at # "overflow", take_overflow(t),
         UNCHANGED <<lst, acc>>
  PROVE  /\ OverflowInv' /\ w' \in [Tasks -> WType] /\ p' \in PType
         /\ p'.tasks = p.tasks /\ p'.disconnects_pending = p.disconnects_pending
         /\ w'[t].at = "overflow" /\ \A u \in Tasks \ {t} : w'[u] = w[u]
<1> DEFINE v == [at |-> "overflow", list |-> p.overflow]
<1>1. w \in [Tasks -> WType] /\ p \in PType
  BY DEF Types
<1>2. w' = [w EXCEPT ![t] = v] /\ p' = [p EXCEPT !.overflow = <<>>]
  BY DEF take_overflow
<1>3. v \in WType /\ v.at = "overflow" /\ v.list = p.overflow
  BY <1>1 DEF WType, PType, Places
<1> HIDE DEF v
<1>4. /\ w' \in [Tasks -> WType] /\ w'[t].at = "overflow" /\ w'[t].list = p.overflow
      /\ \A u \in Tasks \ {t} : w'[u] = w[u]
  BY <1>1, <1>2, <1>3
<1>5. /\ p' \in PType /\ p'.overflow = <<>> /\ p'.tasks = p.tasks
      /\ p'.disconnects_pending = p.disconnects_pending
  <2>1. <<>> \in Seq(Acceptors)
    OBVIOUS
  <2> QED
    BY <1>1, <1>2, <2>1, Zenon DEF PType
<1>6. Range(<<>>) = {} /\ IsInjective(<<>>)
  BY DEF Range, IsInjective
<1>7. w[t].list = <<>>
  BY Zenon DEF OverflowInv
<1>8. \A i \in Acceptors :
        /\ acc[i].overflowed => ~acc[i].armed /\ lst.overflow_count > 0
        /\ acc[i].overflowed <=> \/ i \in Range(p'.overflow)
                                 \/ \E u \in Tasks : i \in Range(w'[u].list)
  <2> TAKE i \in Acceptors
  <2>1. /\ acc[i].overflowed => ~acc[i].armed /\ lst.overflow_count > 0
        /\ acc[i].overflowed <=> \/ i \in Range(p.overflow)
                                 \/ \E u \in Tasks : i \in Range(w[u].list)
    BY Zenon DEF OverflowInv
  <2>2. i \notin Range(p'.overflow) /\ i \notin Range(w[t].list)
    BY <1>5, <1>6, <1>7
  <2>3. (\E u \in Tasks : i \in Range(w'[u].list))
        <=> i \in Range(p.overflow) \/ \E u \in Tasks : i \in Range(w[u].list)
    BY <1>4, <2>2
  <2> QED
    BY <2>1, <2>2, <2>3, Zenon
<1>9. /\ IsInjective(p'.overflow)
      /\ \A u \in Tasks : /\ IsInjective(w'[u].list)
                          /\ Range(w'[u].list) \cap Range(p'.overflow) = {}
                          /\ w'[u].at # "overflow" => w'[u].list = <<>>
  BY <1>4, <1>5, <1>6 DEF OverflowInv
<1>10. \A u, z \in Tasks : u # z => Range(w'[u].list) \cap Range(w'[z].list) = {}
  <2>1. \A u \in Tasks : Range(w[u].list) \cap Range(p.overflow) = {}
    BY Zenon DEF OverflowInv
  <2>2. \A u, z \in Tasks : u # z => Range(w[u].list) \cap Range(w[z].list) = {}
    BY Zenon DEF OverflowInv
  <2> TAKE u, z \in Tasks
  <2>3. CASE u = t
    BY <1>4, <2>1, <2>3
  <2>4. CASE z = t
    BY <1>4, <2>1, <2>4
  <2>5. CASE u # t /\ z # t
    BY <1>4, <2>2, <2>5, SMTT(40)
  <2> QED
    BY <2>3, <2>4, <2>5
<1>11. OverflowInv'
  BY <1>8, <1>9, <1>10, Zenon DEF OverflowInv
<1> QED
  BY <1>4, <1>5, <1>11

\* pconnection_cleanup keeps the invariant.
LEMMA CleanupKeeps ==
  ASSUME IInv, NEW c \in Conns, pconnection_cleanup(c)
  PROVE  IInv'
<1>1. /\ tsk \in [Tasks -> TskType] /\ tsk[c] \in TskType /\ con[c] \in ConType
      /\ con \in [Conns -> ConType] /\ c \in Tasks /\ p \in PType /\ Types
      /\ c # L /\ L \in Tasks /\ Conns \subseteq Tasks
  BY NullIsNoTask DEF IInv, Types
<1>2. w[c].at = "cleanup" /\ UNCHANGED <<tsk, lst, acc, con, d, ok>>
  BY DEF pconnection_cleanup
<1>3. Live(c)
  BY <1>1, <1>2, WorkIsForLive DEF IInv
<1>4. Leaving(tsk[c], con[c], "cleanup")
  BY <1>2 DEF IInv, ConnsInv
<1>5. CASE con[c].fd
  <2>1. take_overflow(c)
    BY <1>5 DEF pconnection_cleanup
  <2>2. /\ OverflowInv' /\ w' \in [Tasks -> WType] /\ p' \in PType
        /\ p'.tasks = p.tasks /\ p'.disconnects_pending = p.disconnects_pending
        /\ w'[c].at = "overflow" /\ \A u \in Tasks \ {c} : w'[u] = w[u]
    BY <1>1, <1>2, <2>1, TakeOverflow DEF IInv
  <2>3. Types'
    BY <1>1, <1>2, <2>2 DEF Types
  <2>4. TasksInv'
    BY <1>2, <1>3, <2>2, TasksKept DEF IInv, Live
  <2>5. ConnsInv'
    <3>1. Leaving(tsk[c], con[c], "overflow")
      BY <1>4 DEF Leaving
    <3> QED
      BY <1>1, <1>2, <2>2, <3>1 DEF IInv, ConnsInv
  <2>6. ListenerInv'
    BY <1>1, <1>2, <2>2, ListenerKept DEF IInv
  <2> QED
    BY <1>2, <2>2, <2>3, <2>4, <2>5, <2>6 DEF IInv
<1>6. CASE ~con[c].fd
  <2>1. w' = [w EXCEPT ![c].at = "remove"] /\ p' = p
    BY <1>6 DEF pconnection_cleanup, Goto
  <2>2. Leaving(tsk[c], con[c], "remove")
    BY <1>4 DEF Leaving
  <2>3. tsk' = [tsk EXCEPT ![c] = tsk[c]] /\ con' = [con EXCEPT ![c] = con[c]] /\ PKept(p, p')
    BY <1>1, <1>2, <2>1, PkRefl
  <2>4. "remove" \in Places /\ w[c].at # "overflow"
    BY <1>2 DEF Places
  <2> QED
    BY <1>1, <1>2, <1>3, <2>1, <2>2, <2>3, <2>4, ConnStepKeeps, Zenon
<1> QED
  BY <1>5, <1>6

\* Data arrive.
LEMMA PeerSendsKeeps ==
  ASSUME IInv, NEW c \in Conns, PeerSends(c)
  PROVE  IInv'
<1> DEFINE k == [con[c] EXCEPT !.io = TRUE]
<1>1. /\ tsk \in [Tasks -> TskType] /\ con[c] \in ConType
      /\ con \in [Conns -> ConType] /\ p \in PType /\ Types
  BY DEF IInv, Types
<1>2. con' = [con EXCEPT ![c] = k] /\ UNCHANGED <<tsk, w, lst, acc, p, d, ok>>
  BY <1>1 DEF PeerSends
<1>3. k \in ConType /\ k.closed = con[c].closed /\ k.arm = con[c].arm
  BY <1>1, Zenon DEF ConType
<1> HIDE DEF k
<1>4. /\ con' \in [Conns -> ConType]
      /\ \A e \in Conns : con'[e].arm = con[e].arm /\ con'[e].closed = con[e].closed
  BY <1>1, <1>2, <1>3
<1>5. Types' /\ TasksInv' /\ ListenerInv' /\ OverflowInv'
  BY <1>2, <1>4, Zenon DEF IInv, Types, TasksInv, ListenerInv, OverflowInv, Disconnecting
<1>6. ConnsInv'
  BY <1>2, <1>4, ConnsKept DEF IInv
<1> QED
  BY <1>2, <1>5, <1>6 DEF IInv

\* A step of a listener leaves tasks and connections alone.
LEMMA ListenerStepKeeps ==
  ASSUME IInv, Live(L), NEW x \in TskType, tsk' = [tsk EXCEPT ![L] = x],
         x.state = tsk[L].state, x.disconnecting = tsk[L].disconnecting,
         x.disconnect_ops = tsk[L].disconnect_ops,
         w' \in [Tasks -> WType], \A t \in Tasks \ {L} : w'[t].at = w[t].at,
         p' \in PType, p'.tasks = p.tasks, p'.disconnects_pending = p.disconnects_pending,
         lst' \in LstType, acc' \in [Acceptors -> AccType], UNCHANGED <<con, d>>
  PROVE  Types' /\ TasksInv' /\ ConnsInv'
<1>1. /\ tsk \in [Tasks -> TskType] /\ L \in Tasks /\ L \notin Conns /\ Conns \subseteq Tasks
  BY NullIsNoTask DEF IInv, Types
<1>2. /\ tsk' \in [Tasks -> TskType] /\ tsk'[L] = x
      /\ \A t \in Tasks \ {L} : tsk'[t] = tsk[t]
  BY <1>1
<1>3. Types'
  BY <1>2 DEF IInv, Types
<1>4. TasksInv'
  BY <1>1, <1>2, TasksKept, Zenon DEF IInv, Live
<1>5. ConnsInv'
  <2>1. \A c \in Conns : tsk'[c] = tsk[c] /\ w'[c].at = w[c].at
    BY <1>1, <1>2
  <2> QED
    BY <2>1, ConnsKept, Zenon DEF IInv
<1> QED
  BY <1>3, <1>4, <1>5

\* proactor_rearm_overflow: the lists.
LEMMA RearmLists ==
  ASSUME Types, OverflowInv, NEW t \in Tasks, w[t].list # <<>>,
         w[t].at = "overflow", w' = [w EXCEPT ![t].list = Tail(@)],
         p'.overflow = p.overflow, lst'.overflow_count = lst.overflow_count + 1,
         LET i == Head(w[t].list)
         IN  /\ ~acc'[i].overflowed
             /\ \A j \in Acceptors \ {i} : acc'[j].overflowed = acc[j].overflowed
                                           /\ acc'[j].armed = acc[j].armed
  PROVE  /\ OverflowInv' /\ w' \in [Tasks -> WType] /\ \A u \in Tasks : w'[u].at = w[u].at
         /\ Head(w[t].list) \in Acceptors
         /\ LET i == Head(w[t].list)
            IN  acc[i].overflowed /\ ~acc[i].armed /\ lst.overflow_count > 0
<1> DEFINE s == w[t].list
           i == Head(s)
<1>1. w \in [Tasks -> WType] /\ s \in Seq(Acceptors) /\ lst.overflow_count \in Nat
  BY Zenon DEF Types, WType, LstType
<1>2. IsInjective(s)
  BY Zenon DEF OverflowInv
<1>3. /\ i \in Acceptors /\ i \in Range(s) /\ Tail(s) \in Seq(Acceptors)
      /\ IsInjective(Tail(s)) /\ Range(Tail(s)) = Range(s) \ {i}
  BY <1>1, <1>2, HeadTail, Zenon
<1>4. acc[i].overflowed /\ ~acc[i].armed /\ lst.overflow_count > 0
  BY <1>3, Zenon DEF OverflowInv
<1>5. /\ w' \in [Tasks -> WType] /\ (\A u \in Tasks : w'[u].at = w[u].at)
      /\ w'[t].list = Tail(s) /\ \A u \in Tasks \ {t} : w'[u].list = w[u].list
  BY <1>1, <1>3, Zenon DEF WType
<1> HIDE DEF i, s
<1>6. \A u \in Tasks \ {t} : i \notin Range(w[u].list)
  BY <1>3, Zenon DEF OverflowInv, s
<1>7. i \notin Range(p.overflow)
  BY <1>3, Zenon DEF OverflowInv, s
<1>8. \A j \in Acceptors :
        /\ acc'[j].overflowed => ~acc'[j].armed /\ lst'.overflow_count > 0
        /\ acc'[j].overflowed <=> \/ j \in Range(p'.overflow)
                                  \/ \E u \in Tasks : j \in Range(w'[u].list)
  <2> TAKE j \in Acceptors
  <2>1. CASE j = i
    <3>1. \A u \in Tasks : i \notin Range(w'[u].list)
      BY <1>3, <1>5, <1>6, Zenon
    <3> QED
      BY <1>7, <2>1, <3>1, Zenon DEF i, s
  <2>2. CASE j # i
    <3>1. \A u \in Tasks : j \in Range(w'[u].list) <=> j \in Range(w[u].list)
      BY <1>3, <1>5, <2>2, Zenon DEF s
    <3>2. acc'[j].overflowed = acc[j].overflowed /\ acc'[j].armed = acc[j].armed
      BY <2>2, Zenon DEF i, s
    <3> QED
      BY <1>1, <3>1, <3>2 DEF OverflowInv
  <2> QED
    BY <2>1, <2>2, Zenon
<1>9. \A u \in Tasks : Range(w'[u].list) \subseteq Range(w[u].list)
  BY <1>3, <1>5, Zenon DEF s
<1>10. /\ \A u \in Tasks : /\ IsInjective(w'[u].list)
                           /\ Range(w'[u].list) \cap Range(p'.overflow) = {}
                           /\ w'[u].at # "overflow" => w'[u].list = <<>>
       /\ \A u, z \in Tasks : u # z => Range(w'[u].list) \cap Range(w'[z].list) = {}
  <2>1. \A u \in Tasks : IsInjective(w'[u].list)
    BY <1>3, <1>5, ZenonT(40) DEF OverflowInv
  <2>2. \A u \in Tasks : Range(w'[u].list) \cap Range(p'.overflow) = {}
    BY <1>9, SMTT(40) DEF OverflowInv
  <2>3. \A u \in Tasks : w'[u].at # "overflow" => w'[u].list = <<>>
    BY <1>5, Zenon DEF OverflowInv
  <2>4. \A u, z \in Tasks : u # z => Range(w'[u].list) \cap Range(w'[z].list) = {}
    BY <1>9, SMTT(40) DEF OverflowInv
  <2> QED
    BY <2>1, <2>2, <2>3, <2>4, Zenon
<1>11. OverflowInv'
  BY <1>8, <1>10, Zenon DEF OverflowInv
<1> QED
  BY <1>3, <1>4, <1>5, <1>11, Zenon DEF i, s

\* proactor_rearm_overflow keeps the invariant, and its assertion holds.
LEMMA RearmKeeps ==
  ASSUME IInv, NEW t \in Tasks, proactor_rearm_overflow(t)
  PROVE  IInv'
<1> DEFINE i == Head(w[t].list)
           y == [acc[i] EXCEPT !.overflowed = FALSE]
           f == [acc EXCEPT ![i] = y]
           l == [lst EXCEPT !.overflow_count = lst.overflow_count + 1]
           a == [S EXCEPT !.acc[i].overflowed = FALSE, !.lst.overflow_count = @ + 1]
           b == schedule(a, L)
           e == [a EXCEPT !.acc[i].armed = TRUE]
           z == [y EXCEPT !.armed = TRUE]
<1>1. /\ tsk \in [Tasks -> TskType] /\ tsk[L] \in TskType /\ acc \in [Acceptors -> AccType]
      /\ lst \in LstType /\ p \in PType /\ Types /\ L \in Tasks /\ lst.overflow_count \in Nat
  BY NullIsNoTask, Zenon DEF IInv, Types, LstType
<1>2. /\ w[t].at = "overflow" /\ w[t].list # <<>> /\ w' = [w EXCEPT ![t].list = Tail(@)]
      /\ Become(IF tsk[L].closing THEN b ELSE e)
      /\ ok' = (ok /\ acc[i].overflowed /\ ~acc[i].armed)
      /\ UNCHANGED <<con, d>>
  BY Zenon DEF proactor_rearm_overflow
<1>3. i \in Acceptors
  <2>1. w[t].list \in Seq(Acceptors) /\ IsInjective(w[t].list)
    BY Zenon DEF IInv, Types, WType, OverflowInv
  <2> QED
    BY <1>2, <2>1, HeadTail, Zenon
<1>4. acc[i] \in AccType
  BY <1>1, <1>3, Zenon
<1>5. /\ y \in AccType /\ ~y.overflowed /\ y.open = acc[i].open /\ y.shut = acc[i].shut
      /\ z \in AccType /\ ~z.overflowed /\ z.open = acc[i].open /\ z.shut = acc[i].shut
      /\ z.armed
  BY <1>4, Zenon DEF AccType
<1>6. /\ l \in LstType /\ l.overflow_count = lst.overflow_count + 1
      /\ l.active_count = lst.active_count /\ l.pending = lst.pending
      /\ l.events = lst.events /\ l.close_dispatched = lst.close_dispatched
  <2> DEFINE n == lst.overflow_count + 1
  <2>1. n \in Nat
    BY <1>1
  <2> HIDE DEF n
  <2>2. l = [lst EXCEPT !.overflow_count = n]
    BY DEF n
  <2>3. /\ l \in LstType /\ l.overflow_count = n
        /\ l.active_count = lst.active_count /\ l.pending = lst.pending
        /\ l.events = lst.events /\ l.close_dispatched = lst.close_dispatched
    BY <1>1, <2>1, <2>2, ZenonT(40) DEF LstType
  <2> QED
    BY <2>3 DEF n
<1>7. a.tsk = tsk /\ a.p = p /\ a.acc = f /\ a.lst = l
  BY <1>1, <1>3 DEF S
<1> HIDE DEF i
<1>8. f \in [Acceptors -> AccType] /\ f[i] = y /\ \A j \in Acceptors \ {i} : f[j] = acc[j]
  BY <1>1, <1>3, <1>5
<1>9. a \in SType
  <2>1. S \in SType /\ S.acc = acc /\ S.lst = lst
    BY <1>1, SIs
  <2>2. a = [S EXCEPT !.acc = f, !.lst = l]
    BY <1>1, <1>3, <2>1, Zenon DEF SType
  <2> HIDE DEF a, f, l
  <2> QED
    BY <1>6, <1>8, <2>1, <2>2, Zenon DEF SType
<1> HIDE DEF l, y
<1>10. /\ e.tsk = tsk /\ e.p = p /\ e.lst = l /\ e.acc = [acc EXCEPT ![i] = z]
  <2>1. e.tsk = a.tsk /\ e.p = a.p /\ e.lst = a.lst /\ e.acc = [a.acc EXCEPT ![i].armed = TRUE]
    <3> HIDE DEF a
    <3> QED
      BY <1>9 DEF SType
  <2> HIDE DEF a, f, e
  <2>2. [a.acc EXCEPT ![i].armed = TRUE] = [f EXCEPT ![i] = z]
    BY <1>7, <1>8
  <2>3. [f EXCEPT ![i] = z] = [acc EXCEPT ![i] = z]
    BY <1>1, <1>3, Zenon DEF f
  <2> QED
    BY <1>7, <2>1, <2>2, <2>3
<1> HIDE DEF a, e, f, z
<1>11. /\ b \in SType /\ b.acc = f /\ b.lst = l /\ PKept(p, b.p)
       /\ b.tsk = [tsk EXCEPT ![L] = Scheduled(tsk[L])]
  BY <1>1, <1>7, <1>9, ScheduleIs, Zenon
<1> HIDE DEF b
<1>12. /\ lst' = l /\ PKept(p, p') /\ acc' \in [Acceptors -> AccType]
       /\ ~acc'[i].overflowed /\ acc'[i].open = acc[i].open /\ acc'[i].shut = acc[i].shut
       /\ \A j \in Acceptors \ {i} : acc'[j] = acc[j]
       /\ ~tsk[L].closing => acc'[i].armed
  <2>1. CASE tsk[L].closing
    BY <1>2, <1>5, <1>8, <1>11, <2>1, Zenon DEF Become
  <2>2. CASE ~tsk[L].closing
    BY <1>1, <1>2, <1>3, <1>5, <1>10, <2>2, PkRefl, Zenon DEF Become
  <2> QED
    BY <2>1, <2>2, Zenon
<1>13. /\ OverflowInv' /\ w' \in [Tasks -> WType] /\ (\A u \in Tasks : w'[u].at = w[u].at)
       /\ acc[i].overflowed /\ ~acc[i].armed /\ lst.overflow_count > 0
  BY <1>1, <1>2, <1>6, <1>12, RearmLists, Zenon DEF IInv, PKept, i
<1> DEFINE x == IF tsk[L].closing THEN Scheduled(tsk[L]) ELSE tsk[L]
<1>14. /\ x \in TskType /\ x.state = tsk[L].state /\ x.closing = tsk[L].closing
       /\ x.disconnecting = tsk[L].disconnecting /\ x.disconnect_ops = tsk[L].disconnect_ops
       /\ ~x.closing => x = tsk[L]
  BY <1>1, ScheduledIs, Zenon
<1>15. tsk' = [tsk EXCEPT ![L] = x]
  BY <1>1, <1>2, <1>10, <1>11, Zenon DEF Become
<1> HIDE DEF x
<1>16. Live(L) /\ w[L].at # "remove"
  BY <1>1, <1>3, <1>13 DEF IInv, ListenerInv, Listening, Live, TskType
<1>17. Types' /\ TasksInv' /\ ConnsInv'
  BY <1>1, <1>2, <1>6, <1>12, <1>13, <1>14, <1>15, <1>16, ListenerStepKeeps, Zenon DEF PKept
<1>18. ListenerInv'
  <2>1. Open(acc') = Open(acc)
    BY <1>12 DEF Open
  <2>2. Listening(tsk[L], lst, acc, w[L].at)
    BY DEF IInv, ListenerInv
  <2>3. tsk'[L] = x /\ w'[L].at = w[L].at
    BY <1>1, <1>13, <1>15
  <2>4. Listening(x, l, acc', w[L].at)
    BY <1>6, <1>12, <1>14, <1>16, <2>1, <2>2, Zenon DEF Listening, Live
  <2> QED
    BY <1>12, <2>3, <2>4 DEF ListenerInv
<1> QED
  BY <1>2, <1>13, <1>17, <1>18, Zenon DEF IInv

\* The list has been gone through.
LEMMA RearmedKeeps ==
  ASSUME IInv, NEW t \in Tasks, rearmed(t)
  PROVE  IInv'
<1> DEFINE at == IF t = L THEN "done" ELSE "remove"
<1>1. /\ w[t].at = "overflow" /\ w[t].list = <<>> /\ w' = [w EXCEPT ![t].at = at]
      /\ UNCHANGED <<tsk, lst, acc, con, p, d, ok>>
  BY DEF rearmed, Goto
<1>2. /\ w \in [Tasks -> WType] /\ at \in Places /\ at # "idle" /\ at # "overflow"
      /\ L \in Tasks /\ L \notin Conns /\ Conns \subseteq Tasks
  BY NullIsNoTask DEF IInv, Types, Places
<1>3. (t = L => at = "done") /\ (t # L => at = "remove")
  OBVIOUS
<1> HIDE DEF at
<1>4. /\ w' \in [Tasks -> WType] /\ w'[t].at = at /\ (\A u \in Tasks : w'[u].list = w[u].list)
      /\ \A u \in Tasks \ {t} : w'[u] = w[u]
  BY <1>1, <1>2 DEF WType
<1>5. Live(t)
  BY <1>1, WorkIsForLive DEF IInv
<1>6. Types'
  BY <1>1, <1>4 DEF IInv, Types
<1>7. TasksInv'
  BY <1>1, <1>4, <1>5, TasksKept DEF IInv, Live
<1>8. ConnsInv'
  BY <1>1, <1>2, <1>3, <1>4 DEF IInv, ConnsInv, Leaving
<1>9. ListenerInv'
  BY <1>1, <1>2, <1>3, <1>4, Zenon DEF IInv, ListenerInv, Listening
<1>10. OverflowInv'
  <2>1. \A u \in Tasks : w[u].at # "overflow" => w[u].list = <<>>
    BY Zenon DEF IInv, OverflowInv
  <2>2. \A u \in Tasks : w'[u].at # "overflow" => w[u].list = <<>>
    BY <1>1, <1>4, <2>1
  <2> QED
    BY <1>1, <1>4, <2>2, OverflowKept DEF IInv
<1> QED
  BY <1>1, <1>6, <1>7, <1>8, <1>9, <1>10 DEF IInv

\* A task leaves: proactor_remove keeps the lists and the counts.
LEMMA LeaveTasks ==
  ASSUME Types, TasksInv, NEW t \in Tasks, Live(t), ~tsk[t].ready,
         Become(proactor_remove(S, t)), w' = [w EXCEPT ![t].at = "idle"], UNCHANGED d
  PROVE  /\ TasksInv' /\ tsk' = [tsk EXCEPT ![t] = Removed(tsk[t])] /\ Removed(tsk[t]) \in TskType
         /\ p' \in PType /\ p'.overflow = p.overflow /\ UNCHANGED <<acc, lst>>
<1> DEFINE x == tsk[t]
           y == Removed(x)
           b == proactor_remove(S, t)
           D == Disconnecting(tsk)
<1>1. /\ tsk \in [Tasks -> TskType] /\ x \in TskType /\ p \in PType /\ p.tasks \in Seq(Tasks)
      /\ S \in SType /\ S.tsk = tsk /\ S.p = p /\ S.acc = acc /\ S.lst = lst
      /\ w \in [Tasks -> WType] /\ p.disconnects_pending \in Nat
  BY SIs, Zenon DEF Types, PType
<1>2. /\ Life(x, t \in Range(p.tasks), t \in Range(d.todo), w[t].at = "idle")
      /\ IsInjective(p.tasks) /\ x.state = "live"
      /\ p.disconnects_pending = Cardinality(D)
  BY DEF TasksInv, Live
<1>3. IsFiniteSet(D)
  BY NullIsNoTask, FS_Subset DEF Disconnecting
<1>4. x.disconnecting => t \in D /\ x.disconnect_ops \in 1..2 /\ p.disconnects_pending # 0
  <2>1. x.disconnecting => t \in D /\ x.disconnect_ops \in 1..2
    BY <1>2 DEF Life, Disconnecting
  <2> QED
    BY <1>2, <1>3, <2>1, FS_EmptySet, Zenon
<1>5. ~x.disconnecting => t \notin D /\ x.disconnect_ops = 0 /\ t \in Range(p.tasks)
  BY <1>2, Zenon DEF Life, Disconnecting
<1> HIDE DEF D
<1>6. /\ b \in SType /\ b.acc = acc /\ b.lst = lst /\ b.p.overflow = p.overflow
      /\ b.p.tasks = IF x.disconnecting THEN p.tasks ELSE unlink(p.tasks, t)
      /\ b.p.disconnects_pending = IF x.disconnecting THEN p.disconnects_pending - 1
                                   ELSE p.disconnects_pending
      /\ b.tsk = [tsk EXCEPT ![t] = y]
  BY <1>1, <1>2, <1>4, <1>5, RemoveIs, ZenonT(40)
<1> HIDE DEF b
<1>7. /\ tsk' = [tsk EXCEPT ![t] = y] /\ p' = b.p /\ p' \in PType /\ UNCHANGED <<acc, lst>>
  BY <1>6, Zenon DEF Become, b, SType
<1>8. /\ y \in TskType /\ y.disconnecting = x.disconnecting /\ y.ready = x.ready
      /\ y.disconnect_ops = IF x.disconnecting THEN x.disconnect_ops - 1 ELSE 0
      /\ y.state = IF x.disconnecting /\ x.disconnect_ops = 2 THEN "removed" ELSE "freed"
  BY <1>1, <1>4, <1>5, RemovedIs, Zenon
<1> HIDE DEF y
<1>9. tsk'[t] = y /\ \A u \in Tasks \ {t} : tsk'[u] = tsk[u]
  BY <1>1, <1>7
<1>10. w'[t].at = "idle" /\ \A u \in Tasks \ {t} : w'[u] = w[u]
  BY <1>1 DEF WType
<1>11. Range(p'.tasks) = Range(p.tasks) \ {t} /\ IsInjective(p'.tasks)
  <2>1. CASE x.disconnecting
    <3>1. t \notin Range(p.tasks)
      BY <1>2, <2>1 DEF Life
    <3> QED
      BY <1>2, <1>6, <1>7, <2>1, <3>1, Zenon
  <2>2. CASE ~x.disconnecting
    BY <1>1, <1>2, <1>5, <1>6, <1>7, <2>2, Unlink
  <2> QED
    BY <2>1, <2>2
<1>12. Life(y, FALSE, t \in Range(d.todo), TRUE)
  BY <1>2, <1>8 DEF Life
<1>13. \A u \in Tasks :
         Life(tsk[u], u \in Range(p.tasks), u \in Range(d.todo), w[u].at = "idle")'
  <2> TAKE u \in Tasks
  <2>1. CASE u = t
    <3>1. (u \in Range(p'.tasks)) = FALSE /\ (w'[u].at = "idle") = TRUE
          /\ d' = d /\ tsk'[u] = y
      BY <1>9, <1>10, <1>11, <2>1
    <3> QED
      BY <1>12, <2>1, <3>1, Zenon DEF Life
  <2>2. CASE u # t
    <3>1. Life(tsk[u], u \in Range(p.tasks), u \in Range(d.todo), w[u].at = "idle")
      BY DEF TasksInv
    <3> QED
      BY <1>9, <1>10, <1>11, <2>2, <3>1, Zenon DEF Life
  <2> QED
    BY <2>1, <2>2
<1>14. Disconnecting(tsk') = D \ {t}
  BY <1>8, <1>9 DEF Disconnecting, D
<1>15. p'.disconnects_pending = Cardinality(Disconnecting(tsk'))
  <2>1. Cardinality(D \ {t}) = IF t \in D THEN Cardinality(D) - 1 ELSE Cardinality(D)
    BY <1>3, FS_RemoveElement, Zenon
  <2> QED
    BY <1>2, <1>4, <1>5, <1>6, <1>7, <1>14, <2>1, Zenon
<1>16. TasksInv'
  BY <1>11, <1>13, <1>15, Zenon DEF TasksInv
<1> QED
  BY <1>6, <1>7, <1>8, <1>16, Zenon DEF y

\* The end of pconnection_cleanup and pn_listener_free keep the invariant.
LEMMA LeaveKeeps ==
  ASSUME IInv, NEW t \in Tasks, leave(t)
  PROVE  IInv'
<1> DEFINE x == tsk[t]
           y == Removed(x)
<1>1. /\ w[t].at = "remove" /\ Become(proactor_remove(S, t))
      /\ w' = [w EXCEPT ![t].at = "idle"] /\ UNCHANGED <<con, d, ok>>
  BY DEF leave, Goto
<1>2. /\ tsk \in [Tasks -> TskType] /\ x \in TskType /\ w \in [Tasks -> WType] /\ Types
      /\ Tasks = Conns \cup {L} /\ L \notin Conns
  BY NullIsNoTask DEF IInv, Types, Tasks
<1>3. Live(t)
  BY <1>1, WorkIsForLive DEF IInv
<1>4. ~x.ready
  BY <1>1, <1>2, Zenon DEF IInv, ConnsInv, Leaving, ListenerInv, Listening
<1>5. /\ TasksInv' /\ tsk' = [tsk EXCEPT ![t] = y] /\ y \in TskType
      /\ p' \in PType /\ p'.overflow = p.overflow /\ UNCHANGED <<acc, lst>>
  BY <1>1, <1>2, <1>3, <1>4, LeaveTasks, Zenon DEF IInv
<1>6. y.closing = x.closing /\ y.ready = x.ready /\ y.state \in {"removed", "freed"}
  <2>1. IF x.disconnecting THEN x.disconnect_ops \in 1..2 ELSE x.disconnect_ops = 0
    BY <1>3 DEF IInv, TasksInv, Life, Live
  <2> QED
    BY <1>2, <2>1, RemovedIs, Zenon
<1> HIDE DEF y
<1>7. tsk'[t] = y /\ (\A u \in Tasks \ {t} : tsk'[u] = tsk[u]) /\ tsk' \in [Tasks -> TskType]
  BY <1>2, <1>5
<1>8. /\ w' \in [Tasks -> WType] /\ w'[t].at = "idle" /\ (\A u \in Tasks : w'[u].list = w[u].list)
      /\ \A u \in Tasks \ {t} : w'[u] = w[u]
  BY <1>1, <1>2, Zenon DEF WType, Places
<1>9. Types'
  BY <1>1, <1>5, <1>7, <1>8 DEF Types, IInv
<1>10. ConnsInv'
  BY <1>1, <1>2, <1>6, <1>7, <1>8 DEF IInv, ConnsInv, Leaving
<1>11. ListenerInv'
  <2>1. CASE t = L
    BY <1>1, <1>5, <1>6, <1>7, <1>8, <2>1, Zenon DEF IInv, ListenerInv, Listening
  <2>2. CASE t # L
    BY <1>2, <1>5, <1>7, <1>8, <2>2, ListenerKept DEF IInv
  <2> QED
    BY <2>1, <2>2
<1>12. OverflowInv'
  <2>1. \A u \in Tasks : w[u].at # "overflow" => w[u].list = <<>>
    BY DEF IInv, OverflowInv
  <2>2. \A u \in Tasks : w'[u].at # "overflow" => w[u].list = <<>>
    BY <1>1, <1>8, <2>1
  <2> QED
    BY <1>5, <1>8, <2>2, OverflowKept DEF IInv
<1> QED
  BY <1>1, <1>5, <1>9, <1>10, <1>11, <1>12 DEF IInv

\* A step of the listener that leaves the sockets that wait for a file descriptor alone.
LEMMA ListenerMoves ==
  ASSUME IInv, Live(L), NEW x \in TskType, tsk' = [tsk EXCEPT ![L] = x], NEW at \in Places,
         x.state = tsk[L].state, x.disconnecting = tsk[L].disconnecting,
         x.disconnect_ops = tsk[L].disconnect_ops,
         w' = [w EXCEPT ![L].at = at], at # "overflow" => w[L].at # "overflow",
         PKept(p, p'), lst' \in LstType, acc' \in [Acceptors -> AccType],
         lst'.overflow_count = lst.overflow_count,
         \A i \in Acceptors : /\ acc'[i].overflowed = acc[i].overflowed
                              /\ acc[i].overflowed => acc'[i].armed = acc[i].armed,
         Listening(x, lst', acc', at), UNCHANGED <<con, d, ok>>
  PROVE  IInv'
<1>1. tsk \in [Tasks -> TskType] /\ w \in [Tasks -> WType] /\ L \in Tasks
  BY NullIsNoTask DEF IInv, Types
<1>2. /\ w' \in [Tasks -> WType] /\ w'[L].at = at /\ w'[L].list = w[L].list
      /\ \A t \in Tasks \ {L} : w'[t] = w[t]
  BY <1>1, Zenon DEF WType
<1>3. Types' /\ TasksInv' /\ ConnsInv'
  <2>1. /\ p' \in PType /\ p'.tasks = p.tasks
        /\ p'.disconnects_pending = p.disconnects_pending
    BY Zenon DEF PKept
  <2>2. \A t \in Tasks \ {L} : w'[t].at = w[t].at
    BY <1>2, Zenon
  <2> QED
    BY <1>2, <2>1, <2>2, ListenerStepKeeps, Zenon
<1>4. ListenerInv'
  BY <1>1, <1>2 DEF ListenerInv
<1>5. OverflowInv'
  <2>1. \A t \in Tasks : w[t].at # "overflow" => w[t].list = <<>>
    BY Zenon DEF IInv, OverflowInv
  <2>2. \A t \in Tasks : w'[t].list = w[t].list /\ (w'[t].at # "overflow" => w[t].list = <<>>)
    BY <1>2, <2>1, Zenon
  <2> QED
    BY <2>2, OverflowKept, Zenon DEF IInv, PKept
<1> QED
  BY <1>3, <1>4, <1>5, Zenon DEF IInv

\* A listener that has begun to close.
LEMMA ClosedListening ==
  ASSUME NEW x, NEW l, NEW f, NEW at, Listening(x, l, f, at), ~x.closing,
         NEW y, NEW m, NEW g, y.closing, y.state = x.state,
         m.active_count = Cardinality(Open(g)), m.pending = 0,
         m.close_dispatched = l.close_dispatched,
         \A i \in Acceptors : g[i].overflowed = f[i].overflowed
  PROVE  Listening(y, m, g, at)
  BY Zenon DEF Listening

\* pn_listener_close keeps the invariant.
LEMMA CloseKeeps ==
  ASSUME IInv, pn_listener_close
  PROVE  IInv'
<1> DEFINE b == listener_begin_close(S)
           e == schedule(b, L)
           y == [tsk[L] EXCEPT !.closing = TRUE]
           x == Scheduled(y)
<1>1. Live(L) /\ ~tsk[L].closing /\ Become(e) /\ UNCHANGED <<w, con, d, ok>>
  BY DEF pn_listener_close
<1>2. /\ tsk \in [Tasks -> TskType] /\ L \in Tasks /\ tsk[L] \in TskType /\ Types
      /\ w \in [Tasks -> WType] /\ w[L].at \in Places
  BY NullIsNoTask DEF IInv, Types, WType
<1>3. S \in SType /\ S.tsk = tsk /\ S.p = p /\ S.acc = acc /\ S.lst = lst
  BY <1>2, SIs
<1>4. Listening(tsk[L], lst, acc, w[L].at)
  BY DEF IInv, ListenerInv
<1>5. /\ lst.active_count = Cardinality(Open(acc)) /\ lst.events \in {<<>>, <<"OPEN">>}
  BY <1>1, <1>4, Zenon DEF Listening
<1>6. /\ b \in SType /\ b.p = p /\ b.tsk = [tsk EXCEPT ![L] = y]
      /\ \A i \in Acceptors : /\ b.acc[i].armed = acc[i].armed
                              /\ b.acc[i].overflowed = acc[i].overflowed
      /\ b.lst.active_count = Cardinality(Open(b.acc)) /\ b.lst.pending = 0
      /\ b.lst.overflow_count = lst.overflow_count
      /\ b.lst.close_dispatched = lst.close_dispatched
  BY <1>1, <1>3, <1>5, BeginCloseIs, Zenon
<1> HIDE DEF b
<1>7. /\ e \in SType /\ e.acc = b.acc /\ e.lst = b.lst /\ PKept(b.p, e.p)
      /\ e.tsk = [b.tsk EXCEPT ![L] = Scheduled(b.tsk[L])]
  BY <1>2, <1>6, ScheduleIs, Zenon
<1> HIDE DEF e
<1>8. /\ y \in TskType /\ y.state = tsk[L].state /\ y.disconnecting = tsk[L].disconnecting
      /\ y.disconnect_ops = tsk[L].disconnect_ops /\ y.closing
  BY <1>2, Zenon DEF TskType
<1> HIDE DEF y
<1>9. /\ x \in TskType /\ x.state = tsk[L].state /\ x.disconnecting = tsk[L].disconnecting
      /\ x.disconnect_ops = tsk[L].disconnect_ops /\ x.closing
  BY <1>8, ScheduledIs
<1>10. e.tsk = [tsk EXCEPT ![L] = x]
  BY <1>2, <1>6, <1>7, Zenon
<1> HIDE DEF x
<1>11. /\ tsk' = [tsk EXCEPT ![L] = x] /\ PKept(p, p')
       /\ acc' = b.acc /\ lst' = b.lst /\ lst' \in LstType /\ acc' \in [Acceptors -> AccType]
  BY <1>1, <1>6, <1>7, <1>10, Zenon DEF Become, SType
<1>12. Listening(x, lst', acc', w[L].at)
  BY <1>1, <1>4, <1>6, <1>9, <1>11, ClosedListening
<1>13. w' = [w EXCEPT ![L].at = w[L].at]
  BY <1>1, <1>2, WSame
<1> QED
  BY <1>1, <1>2, <1>6, <1>9, <1>11, <1>12, <1>13, ListenerMoves, Zenon

\* listener_batch_next keeps the invariant.
LEMMA ListenerBatchNextKeeps ==
  ASSUME IInv, listener_batch_next
  PROVE  IInv'
<1> DEFINE E == {<<>>, <<"OPEN">>, <<"CLOSE">>, <<"OPEN", "CLOSE">>}
           h == Head(lst.events)
           e == Tail(lst.events)
           k == lst.close_dispatched \/ h = "CLOSE"
<1>1. /\ w[L].at = "batch" /\ UNCHANGED <<tsk, w, acc, con, p, d, ok>>
      /\ lst' = IF lst.events = <<>> THEN [lst EXCEPT !.last = "ACCEPT"]
                ELSE [lst EXCEPT !.last = h, !.events = e, !.close_dispatched = k]
  BY DEF listener_batch_next
<1>2. /\ tsk \in [Tasks -> TskType] /\ L \in Tasks /\ tsk[L] \in TskType /\ Types
      /\ w \in [Tasks -> WType] /\ w[L].at \in Places /\ lst \in LstType /\ p \in PType
      /\ acc \in [Acceptors -> AccType]
  BY NullIsNoTask DEF IInv, Types, WType
<1>3. Live(L)
  BY <1>1, <1>2, WorkIsForLive DEF IInv
<1>4. Listening(tsk[L], lst, acc, "batch")
  BY <1>1 DEF IInv, ListenerInv
<1>5. lst.events # <<>> =>
        \/ lst.events = <<"OPEN">> /\ h = "OPEN" /\ e = <<>>
        \/ lst.events = <<"CLOSE">> /\ h = "CLOSE" /\ e = <<>>
        \/ lst.events = <<"OPEN", "CLOSE">> /\ h = "OPEN" /\ e = <<"CLOSE">>
  <2>1. lst.events \in E
    BY <1>2 DEF LstType
  <2>2. Head(<<"OPEN">>) = "OPEN" /\ Tail(<<"OPEN">>) = <<>>
    OBVIOUS
  <2>3. Head(<<"CLOSE">>) = "CLOSE" /\ Tail(<<"CLOSE">>) = <<>>
    OBVIOUS
  <2>4. Head(<<"OPEN", "CLOSE">>) = "OPEN" /\ Tail(<<"OPEN", "CLOSE">>) = <<"CLOSE">>
    OBVIOUS
  <2> QED
    BY <2>1, <2>2, <2>3, <2>4, Zenon
<1>6. /\ lst' \in LstType /\ lst'.active_count = lst.active_count
      /\ lst'.overflow_count = lst.overflow_count /\ lst'.pending = lst.pending
      /\ (lst'.events = <<>> \/ (lst'.events = <<"CLOSE">> /\ lst.events = <<"OPEN", "CLOSE">>))
      /\ (lst'.close_dispatched = lst.close_dispatched
            \/ (lst.events = <<"CLOSE">> /\ lst'.events = <<>>))
  <2>1. CASE lst.events = <<>>
    <3>1. lst' = [lst EXCEPT !.last = "ACCEPT"]
      BY <1>1, <2>1
    <3>2. /\ lst' \in LstType /\ lst'.active_count = lst.active_count
          /\ lst'.overflow_count = lst.overflow_count /\ lst'.pending = lst.pending
          /\ lst'.events = lst.events /\ lst'.close_dispatched = lst.close_dispatched
      BY <1>2, <3>1, ZenonT(40) DEF LstType
    <3>3. <<>> # <<"CLOSE">>
      OBVIOUS
    <3> QED
      BY <2>1, <3>2, <3>3, Zenon
  <2>2. CASE lst.events # <<>>
    <3>1. lst' = [lst EXCEPT !.last = h, !.events = e, !.close_dispatched = k]
      BY <1>1, <2>2
    <3>2. e \in E /\ k \in BOOLEAN /\ h \in {NULL, "OPEN", "CLOSE", "ACCEPT"}
      BY <1>2, <1>5, <2>2, Zenon DEF LstType
    <3>3. /\ (e = <<>> \/ (e = <<"CLOSE">> /\ lst.events = <<"OPEN", "CLOSE">>))
          /\ (k = lst.close_dispatched \/ (lst.events = <<"CLOSE">> /\ e = <<>>))
      <4>1. h = "OPEN" => k = lst.close_dispatched
        BY <1>2 DEF LstType
      <4> HIDE DEF h, e, k
      <4> QED
        BY <1>5, <2>2, <4>1, Zenon
    <3> HIDE DEF h, e, k
    <3>4. /\ lst' \in LstType /\ lst'.active_count = lst.active_count
          /\ lst'.overflow_count = lst.overflow_count /\ lst'.pending = lst.pending
          /\ lst'.events = e /\ lst'.close_dispatched = k
      BY <1>2, <3>1, <3>2, ZenonT(40) DEF LstType, E
    <3> QED
      BY <3>3, <3>4
  <2> QED
    BY <2>1, <2>2, Zenon
<1>7. tsk[L].closing \/ lst.events \in {<<>>, <<"OPEN">>}
  BY <1>4, Zenon DEF Listening
<1>8. <<"OPEN", "CLOSE">> \notin {<<>>, <<"OPEN">>} /\ <<"CLOSE">> \notin {<<>>, <<"OPEN">>}
      /\ <<"OPEN", "CLOSE">> # <<>>
  OBVIOUS
<1>9. Listening(tsk[L], lst', acc, "batch")
  <2>1. ~tsk[L].closing => lst'.events = <<>> /\ ~lst'.close_dispatched
    BY <1>4, <1>6, <1>7, <1>8, Zenon DEF Listening
  <2>2. lst'.close_dispatched => lst'.events = <<>>
    BY <1>4, <1>6, <1>8, Zenon DEF Listening
  <2> QED
    BY <1>4, <1>6, <2>1, <2>2, Zenon DEF Listening
<1>10. w' = [w EXCEPT ![L].at = "batch"] /\ tsk' = [tsk EXCEPT ![L] = tsk[L]] /\ PKept(p, p')
  BY <1>1, <1>2, WSame, PkRefl
<1>11. Listening(tsk[L], lst', acc', "batch")
  BY <1>1, <1>9
<1> QED
  BY <1>1, <1>2, <1>3, <1>6, <1>10, <1>11, ListenerMoves, Zenon

\* The first part of listener_done keeps the invariant.
LEMMA DoneBeginKeeps ==
  ASSUME IInv, listener_done_begin
  PROVE  IInv'
<1>1. w[L].at = "batch" /\ UNCHANGED <<tsk, acc, con, d, ok, lst>>
  BY DEF listener_done_begin
<1>2. /\ tsk \in [Tasks -> TskType] /\ L \in Tasks /\ tsk[L] \in TskType /\ Types
      /\ w \in [Tasks -> WType] /\ lst \in LstType /\ p \in PType
      /\ acc \in [Acceptors -> AccType]
  BY NullIsNoTask DEF IInv, Types, WType
<1>3. Live(L)
  BY <1>1, <1>2, WorkIsForLive DEF IInv
<1>4. Listening(tsk[L], lst, acc, "batch")
  BY <1>1 DEF IInv, ListenerInv
<1>5. \A at \in {"overflow", "done"} : Listening(tsk[L], lst, acc, at)
  BY <1>4, Zenon DEF Listening
<1>6. tsk' = [tsk EXCEPT ![L] = tsk[L]]
  BY <1>1, <1>2
<1>7. CASE take_overflow(L)
  <2>1. /\ OverflowInv' /\ w' \in [Tasks -> WType] /\ p' \in PType
        /\ p'.tasks = p.tasks /\ p'.disconnects_pending = p.disconnects_pending
        /\ w'[L].at = "overflow" /\ \A u \in Tasks \ {L} : w'[u] = w[u]
    BY <1>1, <1>2, <1>7, TakeOverflow DEF IInv
  <2>2. Types' /\ TasksInv' /\ ConnsInv'
    BY <1>1, <1>2, <1>3, <1>6, <2>1, ListenerStepKeeps, Zenon
  <2>3. ListenerInv'
    BY <1>1, <1>5, <2>1 DEF ListenerInv
  <2> QED
    BY <1>1, <2>1, <2>2, <2>3 DEF IInv
<1>8. CASE Goto(L, "done") /\ UNCHANGED p
  <2>1. w' = [w EXCEPT ![L].at = "done"] /\ PKept(p, p') /\ "done" \in Places
    BY <1>2, <1>8, PkRefl DEF Goto, Places
  <2>2. Listening(tsk[L], lst', acc', "done")
    BY <1>1, <1>5
  <2>3. w[L].at # "overflow"
    BY <1>1
  <2> QED
    BY <1>1, <1>2, <1>3, <1>6, <2>1, <2>2, <2>3, ListenerMoves, Zenon
<1> QED
  BY <1>7, <1>8 DEF listener_done_begin

\* The rest of listener_done keeps the invariant.
LEMMA ListenerDoneKeeps ==
  ASSUME IInv, listener_done
  PROVE  IInv'
<1> DEFINE none == tsk[L].closing \/ lst.pending > 0
           g == [i \in Acceptors |->
                  [acc[i] EXCEPT !.armed = @ \/ (acc[i].open /\ ~acc[i].overflowed)]]
           f == IF none THEN acc ELSE g
           a == IF none THEN S ELSE [S EXCEPT !.acc = g]
           b == [a EXCEPT !.tsk[L].working = FALSE, !.lst.last = NULL]
           x == [tsk[L] EXCEPT !.working = FALSE]
           h == [tsk EXCEPT ![L] = x]
           l == [lst EXCEPT !.last = NULL]
           free == listener_can_free(b)
           again == ~free /\ listener_has_event(b)
           e == IF again THEN schedule(b, L) ELSE b
           at == IF free THEN "remove" ELSE "idle"
           y == IF again THEN Scheduled(x) ELSE x
<1>1. w[L].at = "done" /\ Become(e) /\ Goto(L, at) /\ UNCHANGED <<con, d, ok>>
  BY Zenon DEF listener_done
<1>2. /\ tsk \in [Tasks -> TskType] /\ L \in Tasks /\ tsk[L] \in TskType /\ Types
      /\ w \in [Tasks -> WType] /\ lst \in LstType /\ p \in PType
      /\ acc \in [Acceptors -> AccType]
  BY NullIsNoTask DEF IInv, Types, WType
<1>3. Live(L)
  BY <1>1, <1>2, WorkIsForLive, Zenon DEF IInv
<1>4. Listening(tsk[L], lst, acc, "done")
  BY <1>1, Zenon DEF IInv, ListenerInv
<1>5. S \in SType /\ S.tsk = tsk /\ S.p = p /\ S.acc = acc /\ S.lst = lst
  BY <1>2, SIs
<1>6. \A i \in Acceptors :
        /\ g[i] \in AccType /\ g[i].open = acc[i].open /\ g[i].overflowed = acc[i].overflowed
        /\ g[i].shut = acc[i].shut
        /\ g[i].armed = (acc[i].armed \/ (acc[i].open /\ ~acc[i].overflowed))
  <2> TAKE i \in Acceptors
  <2> DEFINE o == acc[i].armed \/ (acc[i].open /\ ~acc[i].overflowed)
  <2>1. o \in BOOLEAN /\ acc[i] \in AccType
    BY <1>2 DEF AccType
  <2>2. g[i] = [acc[i] EXCEPT !.armed = o]
    OBVIOUS
  <2> HIDE DEF o, g
  <2>3. /\ g[i] \in AccType /\ g[i].open = acc[i].open /\ g[i].armed = o
        /\ g[i].overflowed = acc[i].overflowed /\ g[i].shut = acc[i].shut
    BY <2>1, <2>2, Zenon DEF AccType
  <2> QED
    BY <2>3 DEF o
<1>7. g \in [Acceptors -> AccType]
  <2>1. g = [i \in Acceptors |-> g[i]]
    OBVIOUS
  <2> HIDE DEF g
  <2> QED
    BY <1>6, <2>1
<1> HIDE DEF g
<1>8. /\ f \in [Acceptors -> AccType]
      /\ \A i \in Acceptors :
           /\ f[i].open = acc[i].open /\ f[i].overflowed = acc[i].overflowed
           /\ f[i].shut = acc[i].shut /\ (acc[i].overflowed => f[i].armed = acc[i].armed)
           /\ ~none /\ f[i].open => f[i].armed \/ f[i].overflowed
  <2>1. CASE none
    BY <1>2, <2>1, Zenon
  <2>2. CASE ~none
    <3>1. f = g
      BY <2>2
    <3>2. \A i \in Acceptors : acc[i] \in AccType
      BY <1>2
    <3> HIDE DEF f
    <3> QED
      BY <1>6, <1>7, <3>1, <3>2 DEF AccType
  <2> QED
    BY <2>1, <2>2, Zenon
<1>9. a \in SType /\ a.tsk = tsk /\ a.p = p /\ a.acc = f /\ a.lst = lst
  BY <1>5, <1>7 DEF SType
<1> HIDE DEF f, a
<1>10. /\ x \in TskType /\ x.state = tsk[L].state /\ x.disconnecting = tsk[L].disconnecting
       /\ x.disconnect_ops = tsk[L].disconnect_ops /\ x.closing = tsk[L].closing
       /\ x.ready = tsk[L].ready /\ x.working = FALSE
  BY <1>2, Zenon DEF TskType
<1>11. /\ l \in LstType /\ l.active_count = lst.active_count
       /\ l.overflow_count = lst.overflow_count /\ l.pending = lst.pending
       /\ l.events = lst.events /\ l.close_dispatched = lst.close_dispatched
  BY <1>2, ZenonT(40) DEF LstType
<1>12. b = [a EXCEPT !.tsk = h, !.lst = l]
  BY <1>9, Zenon DEF SType
<1> HIDE DEF x, l
<1>13. h \in [Tasks -> TskType] /\ h[L] = x
  BY <1>2, <1>10
<1> HIDE DEF h, b
<1>14. b \in SType /\ b.tsk = h /\ b.p = p /\ b.acc = f /\ b.lst = l
  BY <1>9, <1>11, <1>12, <1>13, Zenon DEF SType
<1>15. /\ free = (/\ x.closing /\ lst.close_dispatched /\ ~x.ready
                  /\ lst.active_count = 0 /\ lst.overflow_count = 0)
       /\ listener_has_event(b) = (lst.events # <<>> \/ lst.pending > 0)
  BY <1>11, <1>13, <1>14 DEF listener_can_free, listener_has_event
<1> HIDE DEF free
<1>16. /\ y \in TskType /\ y.state = tsk[L].state /\ y.disconnecting = tsk[L].disconnecting
       /\ y.disconnect_ops = tsk[L].disconnect_ops /\ y.closing = tsk[L].closing
       /\ (again => y.ready) /\ (~again => y.ready = x.ready)
  <2>1. CASE again
    BY <1>10, <2>1, ScheduledIs, ZenonT(40)
  <2>2. CASE ~again
    BY <1>10, <2>2
  <2> QED
    BY <2>1, <2>2, Zenon
<1>17. e \in SType /\ e.acc = f /\ e.lst = l /\ PKept(p, e.p) /\ e.tsk = [tsk EXCEPT ![L] = y]
  <2>1. CASE again
    <3>1. /\ e \in SType /\ e.acc = b.acc /\ e.lst = b.lst /\ PKept(b.p, e.p)
          /\ e.tsk = [b.tsk EXCEPT ![L] = Scheduled(b.tsk[L])]
      BY <1>2, <1>14, <2>1, ScheduleIs, Zenon
    <3> QED
      BY <1>2, <1>13, <1>14, <2>1, <3>1, ZenonT(40) DEF h
  <2>2. CASE ~again
    BY <1>2, <1>14, <2>2, PkRefl, Zenon DEF h
  <2> QED
    BY <2>1, <2>2
<1> HIDE DEF e, y, again
<1>18. /\ tsk' = [tsk EXCEPT ![L] = y] /\ PKept(p, p') /\ acc' = f /\ lst' = l
       /\ w' = [w EXCEPT ![L].at = at]
  BY <1>1, <1>17 DEF Become, Goto
<1>19. Listening(y, l, f, at)
  <2>1. Open(f) = Open(acc)
    BY <1>8 DEF Open
  <2>2. at = "remove" => /\ y.closing /\ ~y.ready /\ l.active_count = 0 /\ l.overflow_count = 0
    BY <1>11, <1>15, <1>16, <1>10, Zenon DEF again
  <2>3. ~y.closing /\ lst.pending > 0 => y.ready
    BY <1>10, <1>15, <1>16, Zenon DEF again
  <2>4. ~y.closing =>
          \A i \in Acceptors :
            f[i].open => f[i].armed \/ f[i].overflowed \/ (y.ready /\ l.pending > 0)
    BY <1>8, <1>11, <1>16, <2>3, Zenon
  <2>5. y.state = "live" /\ at \in {"idle", "remove"}
    BY <1>3, <1>16 DEF Live
  <2> HIDE DEF at
  <2> QED
    BY <1>4, <1>8, <1>11, <1>16, <2>1, <2>2, <2>4, <2>5, Zenon DEF Listening
<1>20. at \in Places /\ w[L].at # "overflow"
  BY <1>1 DEF Places
<1> HIDE DEF at
<1>21. Listening(y, lst', acc', at)
  BY <1>18, <1>19
<1> QED
  BY <1>1, <1>3, <1>8, <1>11, <1>16, <1>18, <1>20, <1>21, ListenerMoves, Zenon

\* What holds of the state a once listener_process has handled the event of a socket.
Handled(a) ==
  /\ a \in SType /\ a.tsk = [tsk EXCEPT ![L] = a.tsk[L]] /\ a.tsk[L].state = "live"
  /\ a.tsk[L].disconnecting = tsk[L].disconnecting
  /\ a.tsk[L].disconnect_ops = tsk[L].disconnect_ops
  /\ a.p.tasks = p.tasks /\ a.p.disconnects_pending = p.disconnects_pending
  /\ Listening(a.tsk[L], a.lst, a.acc, "batch")
  /\ ~a.tsk[L].closing /\ a.lst.pending = 0 =>
       \A j \in Acceptors : a.acc[j].open => a.acc[j].armed \/ a.acc[j].overflowed
  /\ \A j \in Acceptors :
       /\ a.acc[j].overflowed => ~a.acc[j].armed /\ a.lst.overflow_count > 0
       /\ a.acc[j].overflowed <=> j \in Range(a.p.overflow)
                                  \/ \E t \in Tasks : j \in Range(w[t].list)
  /\ IsInjective(a.p.overflow)
  /\ \A t \in Tasks : Range(w[t].list) \cap Range(a.p.overflow) = {}

\* The end of listener_process.
LEMMA HandledKeeps ==
  ASSUME IInv, Live(L), w[L].at = "idle", NEW a, Handled(a), UNCHANGED <<con, d, ok>>,
         IF listener_has_event(a)
         THEN Become([a EXCEPT !.tsk[L].working = TRUE]) /\ Goto(L, "batch")
         ELSE Become(a) /\ Goto(L, IF listener_can_free(a) THEN "remove" ELSE "idle")
  PROVE  IInv'
<1> DEFINE ev == listener_has_event(a)
           free == listener_can_free(a)
           x == a.tsk[L]
           y == [x EXCEPT !.working = TRUE]
           z == IF ev THEN y ELSE x
           at == IF ev THEN "batch" ELSE IF free THEN "remove" ELSE "idle"
<1>1. /\ tsk \in [Tasks -> TskType] /\ L \in Tasks /\ w \in [Tasks -> WType]
      /\ a \in SType /\ x \in TskType /\ a.p \in PType /\ a.lst \in LstType
      /\ a.acc \in [Acceptors -> AccType] /\ a.tsk \in [Tasks -> TskType]
  BY NullIsNoTask, Zenon DEF IInv, Types, Handled, SType
<1>2. /\ x.state = "live" /\ x.disconnecting = tsk[L].disconnecting
      /\ x.disconnect_ops = tsk[L].disconnect_ops /\ a.tsk = [tsk EXCEPT ![L] = x]
      /\ Listening(x, a.lst, a.acc, "batch")
  BY Zenon DEF Handled
<1> HIDE DEF x
<1>3. /\ y \in TskType /\ y.state = x.state /\ y.disconnecting = x.disconnecting
      /\ y.disconnect_ops = x.disconnect_ops /\ y.closing = x.closing
  BY <1>1, Zenon DEF TskType
<1>4. /\ tsk' = [tsk EXCEPT ![L] = z] /\ p' = a.p /\ acc' = a.acc /\ lst' = a.lst
      /\ w' = [w EXCEPT ![L].at = at]
  <2>1. CASE ev
    <3>1. [a EXCEPT !.tsk[L].working = TRUE] = [a EXCEPT !.tsk = [a.tsk EXCEPT ![L] = y]]
      BY <1>1 DEF SType, x
    <3>2. [a.tsk EXCEPT ![L] = y] = [tsk EXCEPT ![L] = y]
      BY <1>1, <1>2, Zenon
    <3> HIDE DEF y
    <3>3. Become([a EXCEPT !.tsk = [tsk EXCEPT ![L] = y]]) /\ Goto(L, "batch")
      BY <2>1, <3>1, <3>2, Zenon
    <3> QED
      BY <1>1, <2>1, <3>3, Zenon DEF Become, Goto, SType
  <2>2. CASE ~ev
    <3>1. Become(a) /\ Goto(L, at)
      BY <2>2
    <3> QED
      BY <1>2, <2>2, <3>1 DEF Become, Goto
  <2> QED
    BY <2>1, <2>2, Zenon
<1>5. /\ z \in TskType /\ z.state = "live" /\ z.disconnecting = tsk[L].disconnecting
      /\ z.disconnect_ops = tsk[L].disconnect_ops /\ z.closing = x.closing
      /\ (~ev => z = x)
  BY <1>1, <1>2, <1>3, Zenon
<1>6. /\ ev = (a.lst.events # <<>> \/ a.lst.pending > 0)
      /\ free = (/\ x.closing /\ a.lst.close_dispatched /\ ~x.ready
                 /\ a.lst.active_count = 0 /\ a.lst.overflow_count = 0)
  BY Zenon DEF listener_can_free, listener_has_event, x
<1> HIDE DEF y, z, ev, free
<1>7. at \in {"batch", "remove", "idle"} /\ at \in Places
  BY DEF Places
<1>8. /\ w' \in [Tasks -> WType] /\ w'[L].at = at /\ w'[L].list = w[L].list
      /\ \A t \in Tasks \ {L} : w'[t] = w[t]
  BY <1>1, <1>4, <1>7, ZenonT(40) DEF WType
<1>9. Types' /\ TasksInv' /\ ConnsInv'
  <2>1. p'.tasks = p.tasks /\ p'.disconnects_pending = p.disconnects_pending
    BY <1>4, Zenon DEF Handled
  <2>2. z.state = tsk[L].state
    BY <1>5, Zenon DEF Live
  <2> QED
    BY <1>1, <1>4, <1>5, <1>8, <2>1, <2>2, ListenerStepKeeps, Zenon
<1>10. Listening(z, a.lst, a.acc, at)
  <2>1. at = "remove" => ~ev /\ free /\ z = x
    BY <1>5, Zenon DEF at
  <2>2. at = "remove" =>
          z.closing /\ ~z.ready /\ a.lst.active_count = 0 /\ a.lst.overflow_count = 0
    BY <1>6, <2>1, Zenon
  <2>3. at = "idle" => a.lst.pending = 0
    <3>1. at = "idle" => ~ev
      BY DEF at
    <3>2. a.lst.pending \in 0..backlog
      BY <1>1, Zenon DEF LstType
    <3>3. ~ev => ~(a.lst.pending > 0)
      BY DEF ev, listener_has_event
    <3>4. ~(a.lst.pending > 0) => a.lst.pending = 0
      BY <3>2, TasksConstants
    <3> QED
      BY <3>1, <3>3, <3>4, Zenon
  <2>4. at = "idle" /\ ~z.closing =>
          \A j \in Acceptors : a.acc[j].open => a.acc[j].armed \/ a.acc[j].overflowed
    BY <1>5, <2>3, Zenon DEF Handled, x
  <2> HIDE DEF at
  <2> QED
    BY <1>2, <1>5, <1>7, <2>2, <2>4, Zenon DEF Listening
<1> HIDE DEF at
<1>11. ListenerInv'
  BY <1>1, <1>4, <1>5, <1>8, <1>10, Zenon DEF ListenerInv
<1>12. OverflowInv'
  <2>1. \A t \in Tasks : w'[t].list = w[t].list
    BY <1>8, Zenon
  <2>2. \A t \in Tasks : w'[t].at # "overflow" => w'[t].list = <<>>
    <3>1. \A t \in Tasks : w[t].at # "overflow" => w[t].list = <<>>
      BY Zenon DEF IInv, OverflowInv
    <3>2. w[L].list = <<>>
      BY <1>1, <3>1, Zenon
    <3> QED
      BY <1>8, <3>1, <3>2, Zenon
  <2>3. /\ \A t \in Tasks : IsInjective(w[t].list)
        /\ \A t, u \in Tasks : t # u => Range(w[t].list) \cap Range(w[u].list) = {}
    BY SMTT(40) DEF IInv, OverflowInv
  <2>4. /\ \A j \in Acceptors :
             /\ acc'[j].overflowed => ~acc'[j].armed /\ lst'.overflow_count > 0
             /\ acc'[j].overflowed <=> j \in Range(p'.overflow)
                                       \/ \E t \in Tasks : j \in Range(w'[t].list)
        /\ IsInjective(p'.overflow)
        /\ \A t \in Tasks : Range(w'[t].list) \cap Range(p'.overflow) = {}
    BY <1>4, <2>1, Zenon DEF Handled
  <2> QED
    BY <2>1, <2>2, <2>3, <2>4, Zenon DEF OverflowInv
<1> QED
  BY <1>9, <1>11, <1>12 DEF IInv

\* The state in which listener_process looks at the socket.
Taken(a) ==
  /\ a \in SType /\ a.tsk = [tsk EXCEPT ![L] = a.tsk[L]] /\ a.tsk[L].state = "live"
  /\ a.tsk[L].disconnecting = tsk[L].disconnecting
  /\ a.tsk[L].disconnect_ops = tsk[L].disconnect_ops
  /\ a.tsk[L].closing = tsk[L].closing
  /\ a.p = p /\ a.acc = acc /\ a.lst = lst

\* schedule_done takes the listener off the ready list.
LEMMA TakenIs ==
  ASSUME Types, Live(L), NEW sched \in BOOLEAN
  PROVE  Taken([S EXCEPT !.tsk[L].ready = @ /\ ~sched])
<1> DEFINE r == tsk[L].ready /\ ~sched
           x == [tsk[L] EXCEPT !.ready = r]
           f == [tsk EXCEPT ![L] = x]
           a == [S EXCEPT !.tsk[L].ready = @ /\ ~sched]
<1>1. /\ tsk \in [Tasks -> TskType] /\ L \in Tasks /\ tsk[L] \in TskType
      /\ S \in SType /\ S.tsk = tsk /\ S.p = p /\ S.acc = acc /\ S.lst = lst
      /\ p \in PType /\ acc \in [Acceptors -> AccType] /\ lst \in LstType
  BY NullIsNoTask, SIs DEF Types
<1>2. a = [S EXCEPT !.tsk = f]
  BY <1>1 DEF SType
<1>3. r \in BOOLEAN
  OBVIOUS
<1> HIDE DEF r
<1>4. /\ x \in TskType /\ x.state = "live" /\ x.disconnecting = tsk[L].disconnecting
      /\ x.disconnect_ops = tsk[L].disconnect_ops /\ x.closing = tsk[L].closing
  BY <1>1, <1>3, Zenon DEF TskType, Live
<1> HIDE DEF x, a
<1>5. f \in [Tasks -> TskType] /\ f[L] = x
  BY <1>1, <1>4
<1> HIDE DEF f
<1>6. a \in SType /\ a.tsk = f /\ a.p = p /\ a.acc = acc /\ a.lst = lst
  BY <1>1, <1>2, <1>5 DEF SType
<1>7. Taken(a)
  BY <1>4, <1>5, <1>6 DEF Taken, f
<1> QED
  BY <1>7 DEF a

\* The facts about a listener that no thread works on.
LEMMA TakenListener ==
  ASSUME IInv, Live(L), w[L].at = "idle", NEW a, Taken(a)
  PROVE  /\ Listening(a.tsk[L], lst, acc, "batch")
         /\ ~tsk[L].closing /\ lst.pending = 0 =>
              \A j \in Acceptors : acc[j].open => acc[j].armed \/ acc[j].overflowed
         /\ \A j \in Acceptors :
              /\ acc[j].overflowed => ~acc[j].armed /\ lst.overflow_count > 0
              /\ acc[j].overflowed <=> j \in Range(p.overflow)
                                       \/ \E t \in Tasks : j \in Range(w[t].list)
         /\ IsInjective(p.overflow)
         /\ \A t \in Tasks : Range(w[t].list) \cap Range(p.overflow) = {}
<1>1. Listening(tsk[L], lst, acc, "idle")
  BY DEF IInv, ListenerInv
<1>2. Listening(a.tsk[L], lst, acc, "batch")
  BY <1>1, Zenon DEF Listening, Taken
<1>3. ~tsk[L].closing /\ lst.pending = 0 =>
        \A j \in Acceptors : acc[j].open => acc[j].armed \/ acc[j].overflowed
  BY <1>1 DEF Listening, Live
<1> QED
  BY <1>2, <1>3, Zenon DEF IInv, OverflowInv

\* No socket.
LEMMA NoSocket ==
  ASSUME IInv, Live(L), w[L].at = "idle", NEW a, Taken(a)
  PROVE  Handled(a)
<1>1. /\ Listening(a.tsk[L], lst, acc, "batch")
      /\ ~tsk[L].closing /\ lst.pending = 0 =>
           \A j \in Acceptors : acc[j].open => acc[j].armed \/ acc[j].overflowed
      /\ \A j \in Acceptors :
           /\ acc[j].overflowed => ~acc[j].armed /\ lst.overflow_count > 0
           /\ acc[j].overflowed <=> j \in Range(p.overflow)
                                    \/ \E t \in Tasks : j \in Range(w[t].list)
      /\ IsInjective(p.overflow)
      /\ \A t \in Tasks : Range(w[t].list) \cap Range(p.overflow) = {}
  BY TakenListener, Zenon
<1>2. ~a.tsk[L].closing => ~tsk[L].closing
  BY Zenon DEF Taken
<1> QED
  BY <1>1, <1>2, Zenon DEF Handled, Taken

\* epoll has reported the socket i, and will not do so again before it is armed.
Disarm(a, i) == [a EXCEPT !.acc[i].armed = FALSE]

\* What that changes.
LEMMA Disarmed ==
  ASSUME Types, NEW a, Taken(a), NEW i \in Acceptors,
         NEW e, e = Disarm(a, i)
  PROVE  /\ e \in SType /\ e.tsk = a.tsk /\ e.p = p /\ e.lst = lst
         /\ e.acc[i] \in AccType /\ ~e.acc[i].armed /\ e.acc[i].open = acc[i].open
         /\ e.acc[i].overflowed = acc[i].overflowed /\ e.acc[i].shut = acc[i].shut
         /\ e.acc[i].requests = acc[i].requests
         /\ \A j \in Acceptors \ {i} : e.acc[j] = acc[j]
<1> DEFINE y == [acc[i] EXCEPT !.armed = FALSE]
           g == [acc EXCEPT ![i] = y]
<1>1. /\ a \in SType /\ a.p = p /\ a.acc = acc /\ a.lst = lst
      /\ acc \in [Acceptors -> AccType] /\ acc[i] \in AccType
  BY Zenon DEF Types, Taken
<1>2. e = [a EXCEPT !.acc = g]
  BY <1>1 DEF SType, Disarm
<1>3. /\ y \in AccType /\ ~y.armed /\ y.open = acc[i].open /\ y.overflowed = acc[i].overflowed
      /\ y.shut = acc[i].shut /\ y.requests = acc[i].requests
  BY <1>1, Zenon DEF AccType
<1> HIDE DEF y
<1>4. g \in [Acceptors -> AccType] /\ g[i] = y /\ \A j \in Acceptors \ {i} : g[j] = acc[j]
  BY <1>1, <1>3
<1> HIDE DEF g
<1>5. e \in SType /\ e.tsk = a.tsk /\ e.p = p /\ e.acc = g /\ e.lst = lst
  BY <1>1, <1>2, <1>4 DEF SType
<1> QED
  BY <1>3, <1>4, <1>5, Zenon

\* A socket of a listener that is closing is closed.
LEMMA ClosingSocket ==
  ASSUME IInv, Live(L), w[L].at = "idle", NEW a, Taken(a), tsk[L].closing,
         NEW i \in Acceptors, Readable(i), NEW e, e = Disarm(a, i)
  PROVE  Handled([e EXCEPT !.acc[i].open = FALSE, !.lst.active_count = @ - 1])
<1> DEFINE y == e.acc[i]
           z == [y EXCEPT !.open = FALSE]
           g == [e.acc EXCEPT ![i] = z]
           n == lst.active_count - 1
           l == [lst EXCEPT !.active_count = n]
           b == [e EXCEPT !.acc[i].open = FALSE, !.lst.active_count = @ - 1]
<1>1. acc[i].open /\ acc[i].armed /\ lst \in LstType /\ Types
  BY DEF IInv, Types, Readable
<1>2. /\ Listening(a.tsk[L], lst, acc, "batch")
      /\ \A j \in Acceptors :
           /\ acc[j].overflowed => ~acc[j].armed /\ lst.overflow_count > 0
           /\ acc[j].overflowed <=> j \in Range(p.overflow)
                                    \/ \E t \in Tasks : j \in Range(w[t].list)
      /\ IsInjective(p.overflow)
      /\ \A t \in Tasks : Range(w[t].list) \cap Range(p.overflow) = {}
  BY TakenListener, Zenon
<1>3. /\ e \in SType /\ e.tsk = a.tsk /\ e.p = p /\ e.lst = lst
      /\ y \in AccType /\ ~y.armed /\ y.overflowed = acc[i].overflowed
      /\ \A j \in Acceptors \ {i} : e.acc[j] = acc[j]
      /\ e.acc \in [Acceptors -> AccType]
  <2>1. /\ e \in SType /\ e.tsk = a.tsk /\ e.p = p /\ e.lst = lst
        /\ y \in AccType /\ ~y.armed /\ y.overflowed = acc[i].overflowed
        /\ \A j \in Acceptors \ {i} : e.acc[j] = acc[j]
    BY <1>1, Disarmed DEF y
  <2> QED
    BY <2>1, Zenon DEF SType
<1>4. b = [e EXCEPT !.acc = g, !.lst = l]
  BY <1>3, Zenon DEF SType
<1> HIDE DEF y, b
<1>5. z \in AccType /\ z.overflowed = acc[i].overflowed /\ z.open = FALSE
  BY <1>3, Zenon DEF AccType
<1> HIDE DEF z
<1>6. g \in [Acceptors -> AccType] /\ g[i] = z /\ \A j \in Acceptors \ {i} : g[j] = acc[j]
  BY <1>3, <1>5
<1> HIDE DEF g
<1>7. n = Cardinality(Open(g)) /\ n \in Nat
  <2>1. IsFiniteSet(Open(acc)) /\ i \in Open(acc)
    BY <1>1, TasksConstants, FS_Subset DEF Open
  <2>2. Open(g) = Open(acc) \ {i}
    BY <1>5, <1>6 DEF Open
  <2>3. IsFiniteSet(Open(acc) \ {i}) /\ Cardinality(Open(acc) \ {i}) = Cardinality(Open(acc)) - 1
    BY <2>1, FS_RemoveElement, SMTT(40)
  <2>4. lst.active_count = Cardinality(Open(acc))
    BY <1>2, Zenon DEF Listening
  <2> QED
    BY <2>2, <2>3, <2>4, FS_CardinalityType
<1> HIDE DEF n
<1>8. /\ l \in LstType /\ l.active_count = n /\ l.pending = lst.pending
      /\ l.overflow_count = lst.overflow_count /\ l.events = lst.events
      /\ l.close_dispatched = lst.close_dispatched
  BY <1>1, <1>7, ZenonT(40) DEF LstType
<1> HIDE DEF l
<1>9. b \in SType /\ b.tsk = a.tsk /\ b.p = p /\ b.acc = g /\ b.lst = l
  BY <1>3, <1>4, <1>6, <1>8, Zenon DEF SType
<1>10. a.tsk[L].closing /\ a.tsk[L].state = "live"
  BY Zenon DEF Taken
<1>11. Listening(a.tsk[L], l, g, "batch")
  BY <1>2, <1>7, <1>8, <1>10, Zenon DEF Listening
<1>12. \A j \in Acceptors : g[j].overflowed = acc[j].overflowed
                            /\ (g[j].overflowed => ~g[j].armed)
  BY <1>1, <1>2, <1>5, <1>6, Zenon
<1>13. \A j \in Acceptors :
         /\ g[j].overflowed => ~g[j].armed /\ l.overflow_count > 0
         /\ g[j].overflowed <=> j \in Range(p.overflow)
                                \/ \E t \in Tasks : j \in Range(w[t].list)
  <2> TAKE j \in Acceptors
  <2>1. /\ acc[j].overflowed => ~acc[j].armed /\ lst.overflow_count > 0
        /\ acc[j].overflowed <=> j \in Range(p.overflow)
                                 \/ \E t \in Tasks : j \in Range(w[t].list)
    BY <1>2, Zenon
  <2> QED
    BY <1>8, <1>12, <2>1, Zenon
<1>14. Handled(b)
  <2>1. ~(~b.tsk[L].closing /\ b.lst.pending = 0)
    BY <1>9, <1>10
  <2> QED
    BY <1>2, <1>9, <1>11, <1>13, <2>1, Zenon DEF Handled, Taken
<1> QED
  BY <1>14 DEF b

\* n requests are accepted from the socket i.
Accepted(a, i, n) == [a EXCEPT !.lst.pending = @ + n, !.acc[i].requests = @ - n]

\* What that changes.
LEMMA AcceptedIs ==
  ASSUME Types, NEW a, Taken(a), NEW i \in Acceptors, NEW n \in Nat, NEW end,
         Accepts(i, n, end), NEW b, b = Accepted(Disarm(a, i), i, n)
  PROVE  /\ b \in SType /\ b.tsk = a.tsk /\ b.p = p
         /\ b.lst.active_count = lst.active_count /\ b.lst.events = lst.events
         /\ b.lst.overflow_count = lst.overflow_count
         /\ b.lst.close_dispatched = lst.close_dispatched
         /\ b.lst.pending = lst.pending + n
         /\ b.acc[i] \in AccType /\ ~b.acc[i].armed /\ b.acc[i].open = acc[i].open
         /\ b.acc[i].overflowed = acc[i].overflowed /\ b.acc[i].shut = acc[i].shut
         /\ \A j \in Acceptors \ {i} : b.acc[j] = acc[j]
<1> DEFINE e == Disarm(a, i)
           k == lst.pending + n
           l == [lst EXCEPT !.pending = k]
           r == e.acc[i].requests - n
           q == [e.acc[i] EXCEPT !.requests = r]
           g == [e.acc EXCEPT ![i] = q]
<1>1. /\ e \in SType /\ e.tsk = a.tsk /\ e.p = p /\ e.lst = lst
      /\ e.acc[i] \in AccType /\ ~e.acc[i].armed /\ e.acc[i].open = acc[i].open
      /\ e.acc[i].overflowed = acc[i].overflowed /\ e.acc[i].shut = acc[i].shut
      /\ e.acc[i].requests = acc[i].requests
      /\ \A j \in Acceptors \ {i} : e.acc[j] = acc[j]
  <2> HIDE DEF e
  <2>1. e = Disarm(a, i)
    BY DEF e
  <2> QED
    BY <2>1, Disarmed
<1>2. /\ lst \in LstType /\ acc[i] \in AccType /\ e.acc \in [Acceptors -> AccType]
  BY <1>1, Zenon DEF Types, SType
<1>3. b = [e EXCEPT !.acc = g, !.lst = l]
  <2> HIDE DEF e
  <2>1. b = Accepted(e, i, n)
    BY DEF e
  <2> QED
    BY <1>1, <2>1, Zenon DEF SType, Accepted
<1> HIDE DEF e
<1>4. k \in 0..backlog /\ r \in Nat
  <2>1. /\ lst.pending \in 0..backlog /\ acc[i].requests \in Nat /\ backlog \in Nat
    BY <1>2, TasksConstants, Zenon DEF LstType, AccType
  <2>2. n <= backlog - lst.pending /\ n <= acc[i].requests
    BY <2>1 DEF Accepts
  <2> QED
    BY <1>1, <2>1, <2>2
<1> HIDE DEF k, r
<1>5. /\ l \in LstType /\ l.active_count = lst.active_count /\ l.events = lst.events
      /\ l.overflow_count = lst.overflow_count /\ l.pending = k
      /\ l.close_dispatched = lst.close_dispatched
  BY <1>2, <1>4, ZenonT(40) DEF LstType
<1>6. /\ q \in AccType /\ q.armed = e.acc[i].armed /\ q.open = e.acc[i].open
      /\ q.overflowed = e.acc[i].overflowed /\ q.shut = e.acc[i].shut
  BY <1>1, <1>4, Zenon DEF AccType
<1> HIDE DEF l, q
<1>7. g \in [Acceptors -> AccType] /\ g[i] = q /\ \A j \in Acceptors \ {i} : g[j] = acc[j]
  BY <1>1, <1>2, <1>6, Zenon
<1> HIDE DEF g
<1>8. b \in SType /\ b.tsk = a.tsk /\ b.p = p /\ b.acc = g /\ b.lst = l
  BY <1>1, <1>3, <1>5, <1>7, Zenon DEF SType
<1> QED
  BY <1>1, <1>5, <1>6, <1>7, <1>8, Zenon DEF k

\* A socket of a listener that is not closing: what has been accepted is taken over.
LEMMA AcceptSocket ==
  ASSUME IInv, Live(L), w[L].at = "idle", NEW a, Taken(a), ~tsk[L].closing,
         NEW i \in Acceptors, Readable(i), NEW n \in Nat, NEW end \in {"blocked", "overflow", "error"},
         Accepts(i, n, end)
  PROVE  Handled(listener_accept_lh(Disarm(a, i), i, n, end))
<1> DEFINE b == Accepted(Disarm(a, i), i, n)
           c == listener_accept_lh(Disarm(a, i), i, n, end)
<1>1. /\ b \in SType /\ b.tsk = a.tsk /\ b.p = p
      /\ b.lst.active_count = lst.active_count /\ b.lst.events = lst.events
      /\ b.lst.overflow_count = lst.overflow_count
      /\ b.lst.close_dispatched = lst.close_dispatched
      /\ b.lst.pending = lst.pending + n
      /\ b.acc[i] \in AccType /\ ~b.acc[i].armed /\ b.acc[i].open = acc[i].open
      /\ b.acc[i].overflowed = acc[i].overflowed /\ b.acc[i].shut = acc[i].shut
      /\ \A j \in Acceptors \ {i} : b.acc[j] = acc[j]
  <2> HIDE DEF b
  <2>1. Types /\ b = Accepted(Disarm(a, i), i, n)
    BY DEF b, IInv
  <2> QED
    BY <2>1, AcceptedIs
<1>2. c = CASE end = "error"    -> listener_begin_close(b)
            [] end = "overflow" -> [b EXCEPT !.acc[i].overflowed = TRUE,
                                             !.lst.overflow_count = @ + 1,
                                             !.p.overflow = Append(@, i)]
            [] OTHER            -> b
  BY Zenon DEF listener_accept_lh, Accepted
<1> HIDE DEF b, c
<1>3. /\ acc[i].open /\ acc[i].armed /\ (acc[i].requests > 0 \/ acc[i].shut)
      /\ lst \in LstType /\ acc[i] \in AccType /\ p \in PType
  BY DEF IInv, Types, Readable
<1>4. /\ Listening(a.tsk[L], lst, acc, "batch")
      /\ lst.pending = 0 =>
           \A j \in Acceptors : acc[j].open => acc[j].armed \/ acc[j].overflowed
      /\ \A j \in Acceptors :
           /\ acc[j].overflowed => ~acc[j].armed /\ lst.overflow_count > 0
           /\ acc[j].overflowed <=> j \in Range(p.overflow)
                                    \/ \E t \in Tasks : j \in Range(w[t].list)
      /\ IsInjective(p.overflow)
      /\ \A t \in Tasks : Range(w[t].list) \cap Range(p.overflow) = {}
  BY TakenListener, Zenon
<1>5. /\ a.tsk = [tsk EXCEPT ![L] = a.tsk[L]] /\ a.tsk[L].state = "live"
      /\ a.tsk[L].disconnecting = tsk[L].disconnecting
      /\ a.tsk[L].disconnect_ops = tsk[L].disconnect_ops /\ ~a.tsk[L].closing
      /\ a \in SType
  BY Zenon DEF Taken
<1>6. ~acc[i].overflowed
  BY <1>3, <1>4, Zenon
<1>7. Listening(a.tsk[L], b.lst, b.acc, "batch")
  <2>1. Open(b.acc) = Open(acc) /\ \A j \in Acceptors : ~b.acc[j].shut
    BY <1>1, <1>4, <1>5, ZenonT(40) DEF Open, Listening
  <2> QED
    BY <1>1, <1>4, <1>5, <2>1, Zenon DEF Listening
<1>8. \A j \in Acceptors :
        /\ b.acc[j].overflowed => ~b.acc[j].armed /\ b.lst.overflow_count > 0
        /\ b.acc[j].overflowed <=> j \in Range(p.overflow)
                                   \/ \E t \in Tasks : j \in Range(w[t].list)
  <2> TAKE j \in Acceptors
  <2>1. /\ acc[j].overflowed => ~acc[j].armed /\ lst.overflow_count > 0
        /\ acc[j].overflowed <=> j \in Range(p.overflow)
                                 \/ \E t \in Tasks : j \in Range(w[t].list)
    BY <1>4, Zenon
  <2> QED
    BY <1>1, <2>1, Zenon
<1>9. lst.pending \in Nat /\ (b.lst.pending = 0 => lst.pending = 0 /\ n = 0)
  <2>1. lst.pending \in 0..backlog /\ backlog \in Nat
    BY <1>3, TasksConstants, Zenon DEF LstType
  <2> QED
    BY <1>1, <2>1
<1>10. ASSUME end = "error" PROVE Handled(c)
  <2>1. c = listener_begin_close(b)
    BY <1>2, <1>10
  <2>2. /\ b.lst.active_count = Cardinality(Open(b.acc)) /\ ~b.tsk[L].closing
        /\ b.lst.events \in {<<>>, <<"OPEN">>}
    BY <1>1, <1>5, <1>7, Zenon DEF Listening
  <2>3. /\ c \in SType /\ c.p = b.p
        /\ c.tsk = [b.tsk EXCEPT ![L] = [b.tsk[L] EXCEPT !.closing = TRUE]]
        /\ \A j \in Acceptors : /\ c.acc[j].armed = b.acc[j].armed
                                /\ c.acc[j].overflowed = b.acc[j].overflowed
        /\ c.lst.active_count = Cardinality(Open(c.acc)) /\ c.lst.pending = 0
        /\ c.lst.overflow_count = b.lst.overflow_count
        /\ c.lst.close_dispatched = b.lst.close_dispatched
    BY <1>1, <2>1, <2>2, BeginCloseIs, SMTT(40)
  <2> DEFINE x == a.tsk[L]
             y == [x EXCEPT !.closing = TRUE]
  <2>4. x \in TskType /\ tsk \in [Tasks -> TskType] /\ L \in Tasks
    BY <1>5, NullIsNoTask DEF SType, IInv, Types
  <2>5. /\ y.closing /\ y.state = x.state /\ y.disconnecting = x.disconnecting
        /\ y.disconnect_ops = x.disconnect_ops
    BY <2>4, Zenon DEF TskType
  <2>6. c.tsk = [tsk EXCEPT ![L] = y] /\ c.tsk[L] = y
    <3>1. c.tsk = [a.tsk EXCEPT ![L] = y]
      BY <1>1, <2>3, Zenon
    <3> HIDE DEF y
    <3> QED
      BY <1>5, <2>4, <3>1, Zenon
  <2> HIDE DEF y
  <2>7. Listening(y, c.lst, c.acc, "batch")
    BY <1>5, <1>7, <2>3, <2>5, ClosedListening
  <2>8. \A j \in Acceptors :
          /\ c.acc[j].overflowed => ~c.acc[j].armed /\ c.lst.overflow_count > 0
          /\ c.acc[j].overflowed <=> j \in Range(p.overflow)
                                     \/ \E t \in Tasks : j \in Range(w[t].list)
    <3> TAKE j \in Acceptors
    <3> QED
      BY <1>8, <2>3, Zenon
  <2>9. /\ c.tsk = [tsk EXCEPT ![L] = c.tsk[L]] /\ c.tsk[L].state = "live"
        /\ c.tsk[L].disconnecting = tsk[L].disconnecting
        /\ c.tsk[L].disconnect_ops = tsk[L].disconnect_ops /\ c.tsk[L].closing
        /\ Listening(c.tsk[L], c.lst, c.acc, "batch")
    BY <1>5, <2>5, <2>6, <2>7, Zenon
  <2>10. c.p = p
    BY <1>1, <2>3, Zenon
  <2>11. /\ IsInjective(c.p.overflow) /\ c.p.tasks = p.tasks
         /\ c.p.disconnects_pending = p.disconnects_pending
         /\ \A t \in Tasks : Range(w[t].list) \cap Range(c.p.overflow) = {}
    BY <1>4, <2>10, Zenon
  <2>12. \A j \in Acceptors :
           /\ c.acc[j].overflowed => ~c.acc[j].armed /\ c.lst.overflow_count > 0
           /\ c.acc[j].overflowed <=> j \in Range(c.p.overflow)
                                      \/ \E t \in Tasks : j \in Range(w[t].list)
    BY <2>8, <2>10, Zenon
  <2> QED
    BY <2>3, <2>9, <2>11, <2>12, Zenon DEF Handled
<1>11. ASSUME end \notin {"error", "overflow"} PROVE Handled(c)
  <2>1. c = b
    BY <1>2, <1>11
  <2>2. b.lst.pending = 0 =>
          \A j \in Acceptors : b.acc[j].open => b.acc[j].armed \/ b.acc[j].overflowed
    <3> SUFFICES ASSUME b.lst.pending = 0 PROVE FALSE
      BY Zenon
    <3>1. acc[i].requests > 0 /\ acc[i].requests \in Nat
      BY <1>3, <1>4, <1>5, Zenon DEF Listening, AccType
    <3>2. backlog \in Nat \ {0}
      BY TasksConstants, Zenon
    <3>3. n = 0 /\ lst.pending = 0
      BY <1>9, Zenon
    <3> QED
      BY <1>11, <3>1, <3>2, <3>3 DEF Accepts
  <2>3. b.tsk = [tsk EXCEPT ![L] = b.tsk[L]] /\ b.tsk[L] = a.tsk[L]
    BY <1>1, <1>5, Zenon
  <2>4. /\ IsInjective(b.p.overflow) /\ b.p.tasks = p.tasks
        /\ b.p.disconnects_pending = p.disconnects_pending
        /\ \A t \in Tasks : Range(w[t].list) \cap Range(b.p.overflow) = {}
    BY <1>1, <1>4, Zenon
  <2>5. \A j \in Acceptors :
          /\ b.acc[j].overflowed => ~b.acc[j].armed /\ b.lst.overflow_count > 0
          /\ b.acc[j].overflowed <=> j \in Range(b.p.overflow)
                                     \/ \E t \in Tasks : j \in Range(w[t].list)
    BY <1>1, <1>8, Zenon
  <2>6. /\ b.tsk[L].state = "live" /\ b.tsk[L].disconnecting = tsk[L].disconnecting
        /\ b.tsk[L].disconnect_ops = tsk[L].disconnect_ops
        /\ Listening(b.tsk[L], b.lst, b.acc, "batch")
    BY <1>5, <1>7, <2>3, Zenon
  <2>7. Handled(b)
    BY <1>1, <2>2, <2>3, <2>4, <2>5, <2>6, Zenon DEF Handled
  <2> QED
    BY <2>1, <2>7
<1>12. ASSUME end = "overflow" PROVE Handled(c)
  <2> DEFINE q == [b.acc[i] EXCEPT !.overflowed = TRUE]
             g == [b.acc EXCEPT ![i] = q]
             m == b.lst.overflow_count + 1
             l == [b.lst EXCEPT !.overflow_count = m]
             o == Append(p.overflow, i)
             r == [p EXCEPT !.overflow = o]
  <2>1. /\ b.acc \in [Acceptors -> AccType] /\ b.lst \in LstType
        /\ p.overflow \in Seq(Acceptors)
    BY <1>1, <1>3, Zenon DEF SType, PType
  <2>2. c = [b EXCEPT !.acc = g, !.lst = l, !.p = r]
    <3>1. c = [b EXCEPT !.acc[i].overflowed = TRUE, !.lst.overflow_count = @ + 1,
                        !.p.overflow = Append(@, i)]
      BY <1>2, <1>12
    <3> QED
      BY <1>1, <3>1, Zenon DEF SType
  <2>3. /\ o \in Seq(Acceptors) /\ IsInjective(o) /\ Range(o) = Range(p.overflow) \cup {i}
        /\ i \notin Range(p.overflow) /\ \A t \in Tasks : i \notin Range(w[t].list)
    <3>1. i \notin Range(p.overflow) /\ \A t \in Tasks : i \notin Range(w[t].list)
      BY <1>4, <1>6, Zenon
    <3> QED
      BY <1>4, <2>1, <3>1, AppendNew
  <2>4. m \in Nat /\ m > 0
    BY <2>1 DEF LstType
  <2> HIDE DEF o, m
  <2>5. /\ r \in PType /\ r.overflow = o /\ r.tasks = p.tasks
        /\ r.disconnects_pending = p.disconnects_pending
    BY <1>3, <2>3, ZenonT(40) DEF PType
  <2>6. /\ q \in AccType /\ q.overflowed /\ q.armed = b.acc[i].armed
        /\ q.open = b.acc[i].open /\ q.shut = b.acc[i].shut
    BY <1>1, Zenon DEF AccType
  <2>7. /\ l \in LstType /\ l.overflow_count = m /\ l.active_count = b.lst.active_count
        /\ l.events = b.lst.events /\ l.close_dispatched = b.lst.close_dispatched
        /\ l.pending = b.lst.pending
    BY <2>1, <2>4, ZenonT(40) DEF LstType
  <2> HIDE DEF q, l, r
  <2>8. g \in [Acceptors -> AccType] /\ g[i] = q /\ \A j \in Acceptors \ {i} : g[j] = acc[j]
    BY <1>1, <2>1, <2>6, Zenon
  <2> HIDE DEF g
  <2>9. c \in SType /\ c.tsk = a.tsk /\ c.acc = g /\ c.lst = l /\ c.p = r
    BY <1>1, <2>2, <2>5, <2>7, <2>8, Zenon DEF SType
  <2>10. Listening(a.tsk[L], l, g, "batch")
    <3>1. Open(g) = Open(b.acc) /\ \A j \in Acceptors : g[j].shut = b.acc[j].shut
      BY <1>1, <2>6, <2>8, SMTT(40) DEF Open
    <3> QED
      BY <1>5, <1>7, <2>7, <3>1, Zenon DEF Listening
  <2>11. l.pending = 0 => \A j \in Acceptors : g[j].open => g[j].armed \/ g[j].overflowed
    BY <1>4, <1>9, <2>6, <2>7, <2>8, Zenon
  <2>12. \A j \in Acceptors :
           /\ g[j].overflowed => ~g[j].armed /\ l.overflow_count > 0
           /\ g[j].overflowed <=> j \in Range(o) \/ \E t \in Tasks : j \in Range(w[t].list)
    <3> TAKE j \in Acceptors
    <3>1. CASE j = i
      BY <1>1, <2>3, <2>4, <2>6, <2>7, <2>8, <3>1, Zenon
    <3>2. CASE j # i
      BY <1>4, <2>3, <2>4, <2>7, <2>8, <3>2, Zenon
    <3> QED
      BY <3>1, <3>2, Zenon
  <2>13. \A t \in Tasks : Range(w[t].list) \cap Range(o) = {}
    BY <1>4, <2>3, Zenon
  <2>14. /\ c.p.overflow = o /\ c.p.tasks = p.tasks
         /\ c.p.disconnects_pending = p.disconnects_pending
    BY <2>5, <2>9
  <2>15. /\ IsInjective(c.p.overflow)
         /\ \A t \in Tasks : Range(w[t].list) \cap Range(c.p.overflow) = {}
    BY <2>3, <2>13, <2>14, Zenon
  <2>16. \A j \in Acceptors :
           /\ c.acc[j].overflowed => ~c.acc[j].armed /\ c.lst.overflow_count > 0
           /\ c.acc[j].overflowed <=> j \in Range(c.p.overflow)
                                      \/ \E t \in Tasks : j \in Range(w[t].list)
    BY <2>9, <2>12, <2>14, Zenon
  <2>17. c.lst.pending = 0 =>
           \A j \in Acceptors : c.acc[j].open => c.acc[j].armed \/ c.acc[j].overflowed
    BY <2>9, <2>11
  <2>18. /\ c.tsk = [tsk EXCEPT ![L] = c.tsk[L]] /\ c.tsk[L].state = "live"
         /\ c.tsk[L].disconnecting = tsk[L].disconnecting
         /\ c.tsk[L].disconnect_ops = tsk[L].disconnect_ops
         /\ Listening(c.tsk[L], c.lst, c.acc, "batch")
    BY <1>5, <2>9, <2>10, Zenon
  <2> QED
    BY <2>9, <2>14, <2>15, <2>16, <2>17, <2>18, Zenon DEF Handled
<1>13. Handled(c)
  BY <1>10, <1>11, <1>12, Zenon
<1> QED
  BY <1>13 DEF c

\* listener_process as a whole.
LEMMA ListenerProcessKeeps ==
  ASSUME IInv, NEW sched \in BOOLEAN, NEW i \in Acceptors \cup {NULL},
         NEW n \in 0..MaxIncoming, NEW end \in {"blocked", "overflow", "error"},
         listener_process(sched, i, n, end)
  PROVE  IInv'
<1> DEFINE a == [S EXCEPT !.tsk[L].ready = @ /\ ~sched]
           b == HandleSocket(a, i, n, end)
<1>1. /\ Live(L) /\ w[L].at = "idle" /\ (i # NULL => Readable(i))
      /\ (i # NULL /\ ~tsk[L].closing => Accepts(i, n, end))
      /\ UNCHANGED <<con, d, ok>>
      /\ IF listener_has_event(b)
         THEN Become([b EXCEPT !.tsk[L].working = TRUE]) /\ Goto(L, "batch")
         ELSE Become(b) /\ Goto(L, IF listener_can_free(b) THEN "remove" ELSE "idle")
  BY Zenon DEF listener_process, MayProcess
<1>2. Taken(a)
  <2>1. Types
    BY DEF IInv
  <2> QED
    BY <1>1, <2>1, TakenIs, Zenon
<1> HIDE DEF a
<1>3. a.tsk[L].closing = tsk[L].closing
  BY <1>2, Zenon DEF Taken
<1>4. n \in Nat
  BY TasksConstants
<1>5. ASSUME i = NULL PROVE Handled(b)
  <2>1. b = a
    BY <1>5 DEF HandleSocket
  <2>2. Handled(a)
    BY <1>1, <1>2, NoSocket, Zenon
  <2> QED
    BY <2>1, <2>2, Zenon
<1>6. ASSUME i # NULL, tsk[L].closing PROVE Handled(b)
  <2> DEFINE e == Disarm(a, i)
  <2>1. b = [e EXCEPT !.acc[i].open = FALSE, !.lst.active_count = @ - 1]
    BY <1>3, <1>6 DEF HandleSocket, Disarm
  <2> HIDE DEF e
  <2>2. i \in Acceptors /\ e = Disarm(a, i)
    BY <1>6 DEF e
  <2>3. Handled([e EXCEPT !.acc[i].open = FALSE, !.lst.active_count = @ - 1])
    BY <1>1, <1>2, <1>6, <2>2, ClosingSocket, Zenon
  <2> QED
    BY <2>1, <2>3, Zenon
<1>7. ASSUME i # NULL, ~tsk[L].closing PROVE Handled(b)
  <2>1. b = listener_accept_lh(Disarm(a, i), i, n, end) /\ i \in Acceptors
    BY <1>3, <1>7 DEF HandleSocket, Disarm
  <2>2. Handled(listener_accept_lh(Disarm(a, i), i, n, end))
    BY <1>1, <1>2, <1>4, <1>7, <2>1, AcceptSocket, Zenon
  <2> QED
    BY <2>1, <2>2, Zenon
<1> HIDE DEF b
<1> QED
  BY <1>1, <1>5, <1>6, <1>7, HandledKeeps, Zenon
=============================================================================

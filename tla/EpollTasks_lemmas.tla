------------------------- MODULE EpollTasks_lemmas -------------------------
(***************************************************************************)
(* The inductive invariant of EpollTasks, what the functions of the        *)
(* scheduler return, and the steps of the connections.  The listener, the  *)
(* overflow list, pn_proactor_disconnect and the theorems are in           *)
(* EpollTasks_proof.                                                       *)
(***************************************************************************)
EXTENDS EpollTasks, FiniteSetTheorems, TLAPS

\* The members of a list with no member twice, without one of them.
LEMMA Unlink ==
  ASSUME NEW T, NEW s \in Seq(T), IsInjective(s), NEW t \in Range(s)
  PROVE  /\ unlink(s, t) \in Seq(T) /\ IsInjective(unlink(s, t))
         /\ Range(unlink(s, t)) = Range(s) \ {t}
<1> DEFINE k == CHOOSE i \in DOMAIN s : s[i] = t
           n == Len(s)
           u == unlink(s, t)
<1>1. k \in DOMAIN s /\ s[k] = t
  BY DEF Range
<1>2. n \in Nat /\ DOMAIN s = 1 .. n
  OBVIOUS
<1>3. u = SubSeq(s, 1, k - 1) \o SubSeq(s, k + 1, n)
  BY DEF unlink
<1> HIDE DEF k, u
<1>4. /\ SubSeq(s, 1, k - 1) \in Seq(T) /\ Len(SubSeq(s, 1, k - 1)) = k - 1
      /\ \A i \in 1 .. (k - 1) : SubSeq(s, 1, k - 1)[i] = s[i]
  BY <1>1, <1>2
<1>5. /\ SubSeq(s, k + 1, n) \in Seq(T) /\ Len(SubSeq(s, k + 1, n)) = n - k
      /\ \A i \in 1 .. (n - k) : SubSeq(s, k + 1, n)[i] = s[k + i]
  BY <1>1, <1>2, SMTT(40)
<1>6. /\ u \in Seq(T) /\ Len(u) = n - 1
      /\ \A i \in 1 .. (n - 1) : u[i] = IF i < k THEN s[i] ELSE s[i + 1]
  <2> DEFINE v == SubSeq(s, 1, k - 1)
             z == SubSeq(s, k + 1, n)
  <2>1. v \in Seq(T) /\ z \in Seq(T) /\ Len(v) = k - 1 /\ Len(z) = n - k /\ u = v \o z
    BY <1>3, <1>4, <1>5, Zenon
  <2>2. /\ u \in Seq(T) /\ Len(u) = Len(v) + Len(z)
        /\ \A i \in 1 .. Len(v) + Len(z) :
             u[i] = IF i <= Len(v) THEN v[i] ELSE z[i - Len(v)]
    BY <2>1, SMTT(40)
  <2>3. k \in 1 .. n
    BY <1>1, <1>2
  <2>4. (\A i \in 1 .. (k - 1) : v[i] = s[i]) /\ \A i \in 1 .. (n - k) : z[i] = s[k + i]
    BY <1>4, <1>5, SMTT(40)
  <2> HIDE DEF v, z
  <2>5. ASSUME NEW i \in 1 .. (n - 1) PROVE u[i] = IF i < k THEN s[i] ELSE s[i + 1]
    <3>1. i \in 1 .. Len(v) + Len(z)
      BY <1>2, <2>1, <2>3
    <3>2. CASE i < k
      <4>1. i \in 1 .. (k - 1) /\ i <= Len(v)
        BY <1>2, <2>1, <2>3, <3>2
      <4>2. u[i] = v[i] /\ v[i] = s[i]
        BY <2>2, <2>4, <3>1, <4>1
      <4> QED
        BY <3>2, <4>2
    <3>3. CASE ~(i < k)
      <4>1. i - (k - 1) \in 1 .. (n - k) /\ k + (i - (k - 1)) = i + 1
        BY <1>2, <2>3, <3>3
      <4>2. u[i] = z[i - (k - 1)]
        BY <1>2, <2>1, <2>2, <2>3, <3>1, <3>3, SMTT(40)
      <4>3. z[i - (k - 1)] = s[k + (i - (k - 1))]
        BY <2>4, <4>1
      <4> QED
        BY <3>3, <4>1, <4>2, <4>3
    <3> QED
      BY <3>2, <3>3
  <2> QED
    BY <1>2, <2>1, <2>2, <2>3, <2>5, SMTT(40)
<1>7. IsInjective(u)
  <2> SUFFICES ASSUME NEW i \in 1 .. (n - 1), NEW j \in 1 .. (n - 1), u[i] = u[j]
               PROVE  i = j
    BY <1>2, <1>6 DEF IsInjective
  <2>1. k \in 1 .. n /\ \A x, y \in 1 .. n : s[x] = s[y] => x = y
    BY <1>1, <1>2 DEF IsInjective
  <2>2. i \in 1 .. n /\ i + 1 \in 1 .. n /\ j \in 1 .. n /\ j + 1 \in 1 .. n
    BY <1>2
  <2>3. /\ u[i] = IF i < k THEN s[i] ELSE s[i + 1]
        /\ u[j] = IF j < k THEN s[j] ELSE s[j + 1]
    BY <1>6
  <2>4. k \in Int /\ i \in Int /\ j \in Int
    BY <1>2, <2>1
  <2> HIDE DEF n
  <2>5. CASE i < k /\ j < k
    BY <2>1, <2>2, <2>3, <2>5, Zenon
  <2>6. CASE i < k /\ ~(j < k)
    <3>1. s[i] = s[j + 1]
      BY <2>3, <2>6, Zenon
    <3>2. i = j + 1
      BY <2>1, <2>2, <3>1, Zenon
    <3> QED
      BY <2>4, <2>6, <3>2
  <2>7. CASE ~(i < k) /\ j < k
    <3>1. s[i + 1] = s[j]
      BY <2>3, <2>7, Zenon
    <3>2. i + 1 = j
      BY <2>1, <2>2, <3>1, Zenon
    <3> QED
      BY <2>4, <2>7, <3>2
  <2>8. CASE ~(i < k) /\ ~(j < k)
    <3>1. s[i + 1] = s[j + 1]
      BY <2>3, <2>8, Zenon
    <3>2. i + 1 = j + 1
      BY <2>1, <2>2, <3>1, Zenon
    <3> QED
      BY <2>4, <3>2
  <2> QED
    BY <2>5, <2>6, <2>7, <2>8
<1>8. Range(u) = Range(s) \ {t}
  <2>1. ASSUME NEW x \in Range(u) PROVE x \in Range(s) \ {t}
    <3>1. PICK i \in 1 .. (n - 1) : x = u[i]
      BY <1>6, <2>1 DEF Range
    <3>2. PICK j \in 1 .. n : x = s[j] /\ j # k
      BY <1>1, <1>2, <1>6, <3>1
    <3> QED
      BY <1>1, <1>2, <3>2 DEF Range, IsInjective
  <2>2. ASSUME NEW x \in Range(s), x # t PROVE x \in Range(u)
    <3>1. PICK j \in 1 .. n : x = s[j]
      BY <1>2, <2>2 DEF Range
    <3>2. CASE j < k
      <4>1. j \in 1 .. (n - 1) /\ x = u[j]
        BY <1>1, <1>2, <1>6, <3>1, <3>2
      <4> QED
        BY <1>6, <4>1 DEF Range
    <3>3. CASE j > k
      <4>1. j - 1 \in 1 .. (n - 1) /\ x = u[j - 1]
        BY <1>1, <1>2, <1>6, <3>1, <3>3
      <4> QED
        BY <1>6, <4>1 DEF Range
    <3> QED
      BY <1>1, <1>2, <2>2, <3>1, <3>2, <3>3
  <2> QED
    BY <2>1, <2>2
<1> QED
  BY <1>6, <1>7, <1>8 DEF u

\* The first of them, and the others.
LEMMA HeadTail ==
  ASSUME NEW T, NEW s \in Seq(T), s # <<>>, IsInjective(s)
  PROVE  /\ Head(s) \in T /\ Head(s) \in Range(s)
         /\ Tail(s) \in Seq(T) /\ IsInjective(Tail(s))
         /\ Range(Tail(s)) = Range(s) \ {Head(s)}
<1> DEFINE u == Tail(s)
           n == Len(s)
<1>1. /\ n \in Nat \ {0} /\ DOMAIN s = 1 .. n /\ Head(s) = s[1] /\ u \in Seq(T)
      /\ DOMAIN u = 1 .. (n - 1) /\ \A i \in 1 .. (n - 1) : u[i] = s[i + 1]
  OBVIOUS
<1> HIDE DEF u, n
<1>2. 1 \in 1 .. n /\ \A i \in 1 .. (n - 1) : i + 1 \in 1 .. n /\ i + 1 # 1
  BY <1>1
<1>3. \A i, j \in 1 .. n : s[i] = s[j] => i = j
  BY <1>1, Zenon DEF IsInjective
<1>4. IsInjective(u)
  <2> SUFFICES ASSUME NEW i \in 1 .. (n - 1), NEW j \in 1 .. (n - 1), u[i] = u[j]
               PROVE  i = j
    BY <1>1 DEF IsInjective
  <2>1. s[i + 1] = s[j + 1] /\ i + 1 \in 1 .. n /\ j + 1 \in 1 .. n
    BY <1>1, <1>2
  <2>2. i + 1 = j + 1
    BY <1>3, <2>1, Zenon
  <2> QED
    BY <1>1, <2>2
<1>5. ASSUME NEW x \in Range(u) PROVE x \in Range(s) \ {s[1]}
  <2>1. PICK i \in 1 .. (n - 1) : x = u[i]
    BY <1>1, <1>5 DEF Range
  <2>2. x = s[i + 1] /\ s[i + 1] # s[1]
    BY <1>1, <1>2, <1>3, <2>1, Zenon
  <2> QED
    BY <1>1, <1>2, <2>2, SMTT(40) DEF Range
<1>6. ASSUME NEW x \in Range(s), x # s[1] PROVE x \in Range(u)
  <2>1. PICK i \in 1 .. n : x = s[i]
    BY <1>1, <1>6 DEF Range
  <2>2. i - 1 \in 1 .. (n - 1) /\ (i - 1) + 1 = i
    BY <1>1, <1>6, <2>1
  <2>3. x = u[i - 1]
    BY <1>1, <2>1, <2>2
  <2> QED
    BY <1>1, <2>2, <2>3 DEF Range
<1>7. Head(s) \in Range(s) /\ Head(s) \in T
  BY <1>1, <1>2 DEF Range
<1>8. Range(u) = Range(s) \ {Head(s)}
  BY <1>1, <1>5, <1>6
<1> QED
  BY <1>1, <1>4, <1>7, <1>8 DEF u

\* One more, at the end.
LEMMA AppendNew ==
  ASSUME NEW T, NEW s \in Seq(T), IsInjective(s), NEW x \in T, x \notin Range(s)
  PROVE  /\ Append(s, x) \in Seq(T) /\ IsInjective(Append(s, x))
         /\ Range(Append(s, x)) = Range(s) \cup {x}
<1> DEFINE u == Append(s, x)
           n == Len(s)
<1>1. /\ n \in Nat /\ DOMAIN s = 1 .. n /\ u \in Seq(T) /\ DOMAIN u = 1 .. (n + 1)
      /\ u[n + 1] = x /\ \A i \in 1 .. n : u[i] = s[i]
  OBVIOUS
<1> HIDE DEF u, n
<1>2. \A i \in 1 .. (n + 1) : i \in 1 .. n \/ i = n + 1
  BY <1>1
<1>3. n + 1 \in 1 .. (n + 1) /\ \A i \in 1 .. n : i \in 1 .. (n + 1)
  BY <1>1
<1>4. (\A i \in 1 .. n : s[i] # x) /\ \A i, j \in 1 .. n : s[i] = s[j] => i = j
  BY <1>1, SMTT(40) DEF Range, IsInjective
<1>5. IsInjective(u)
  BY <1>1, <1>2, <1>4, Zenon DEF IsInjective
<1>6. Range(u) = Range(s) \cup {x}
  BY <1>1, <1>2, <1>3, Zenon DEF Range
<1> QED
  BY <1>1, <1>5, <1>6 DEF u

\* One more, at the front.
LEMMA ConsNew ==
  ASSUME NEW T, NEW s \in Seq(T), IsInjective(s), NEW x \in T, x \notin Range(s)
  PROVE  /\ <<x>> \o s \in Seq(T) /\ IsInjective(<<x>> \o s)
         /\ Range(<<x>> \o s) = Range(s) \cup {x}
<1> DEFINE u == <<x>> \o s
           n == Len(s)
<1>1. /\ n \in Nat /\ DOMAIN s = 1 .. n /\ u \in Seq(T) /\ DOMAIN u = 1 .. (n + 1)
      /\ u[1] = x /\ \A i \in 1 .. n : u[i + 1] = s[i]
  OBVIOUS
<1> HIDE DEF u, n
<1>2. \A i \in 1 .. (n + 1) : i = 1 \/ (i - 1 \in 1 .. n /\ (i - 1) + 1 = i)
  BY <1>1
<1>3. 1 \in 1 .. (n + 1) /\ \A i \in 1 .. n : i + 1 \in 1 .. (n + 1)
  BY <1>1
<1>4. (\A i \in 1 .. n : s[i] # x) /\ \A i, j \in 1 .. n : s[i] = s[j] => i = j
  BY <1>1, ZenonT(40) DEF Range, IsInjective
<1>5. \A i \in 1 .. (n + 1) : i # 1 => u[i] = s[i - 1] /\ i - 1 \in 1 .. n /\ i \in Int
  BY <1>1, <1>2
<1>6. IsInjective(u)
  <2> SUFFICES ASSUME NEW i \in 1 .. (n + 1), NEW j \in 1 .. (n + 1), u[i] = u[j]
               PROVE  i = j
    BY <1>1 DEF IsInjective
  <2>1. CASE i = 1 \/ j = 1
    <3>1. \A k \in 1 .. (n + 1) : u[k] = x => k = 1
      BY <1>4, <1>5
    <3> QED
      BY <1>1, <2>1, <3>1
  <2>2. CASE i # 1 /\ j # 1
    <3>1. /\ s[i - 1] = s[j - 1] /\ i - 1 \in 1 .. n /\ j - 1 \in 1 .. n
          /\ i \in Int /\ j \in Int
      BY <1>5, <2>2, Zenon
    <3>2. i - 1 = j - 1
      BY <1>4, <3>1, Zenon
    <3> QED
      BY <3>1, <3>2
  <2> QED
    BY <2>1, <2>2
<1>7. Range(u) = Range(s) \cup {x}
  <2>1. ASSUME NEW y \in Range(u), y # x PROVE y \in Range(s)
    <3>1. PICK i \in 1 .. (n + 1) : y = u[i]
      BY <1>1, <2>1 DEF Range
    <3>2. y = s[i - 1] /\ i - 1 \in 1 .. n
      BY <1>1, <1>5, <2>1, <3>1
    <3> QED
      BY <1>1, <3>2 DEF Range
  <2>2. ASSUME NEW y \in Range(s) PROVE y \in Range(u)
    <3>1. PICK i \in 1 .. n : y = s[i]
      BY <1>1, <2>2 DEF Range
    <3>2. y = u[i + 1] /\ i + 1 \in 1 .. (n + 1)
      BY <1>1, <1>3, <3>1
    <3> QED
      BY <1>1, <3>2 DEF Range
  <2>3. x \in Range(u)
    BY <1>1, <1>3 DEF Range
  <2> QED
    BY <2>1, <2>2, <2>3
<1> QED
  BY <1>1, <1>6, <1>7 DEF u

\* Their number.
LEMMA LenIsCardinality ==
  ASSUME NEW T, NEW s \in Seq(T), IsInjective(s)
  PROVE  IsFiniteSet(Range(s)) /\ Cardinality(Range(s)) = Len(s)
<1>1. Len(s) \in Nat /\ DOMAIN s = 1 .. Len(s) /\ s \in [1 .. Len(s) -> Range(s)]
  BY DEF Range
<1>2. IsFiniteSet(1 .. Len(s)) /\ Cardinality(1 .. Len(s)) = Len(s)
  BY <1>1, FS_Interval, SMTT(40)
<1>3. s \in Bijection(1 .. Len(s), Range(s))
  BY <1>1 DEF Bijection, Injection, Surjection, IsInjective, Range
<1>4. ExistsBijection(1 .. Len(s), Range(s))
  BY <1>3 DEF ExistsBijection
<1> QED
  BY <1>2, <1>4, FS_Bijection

-----------------------------------------------------------------------------
(* The invariant *)

Places == {"idle", "batch", "work", "check", "retry", "cleanup", "overflow", "done", "remove"}

TskType == [state : {"none", "live", "removed", "freed"}, ready : BOOLEAN,
            working : BOOLEAN, closing : BOOLEAN, disconnecting : BOOLEAN,
            disconnect_ops : 0..2]

WType == [at : Places, list : Seq(Acceptors)]

LstType == [active_count : Nat, overflow_count : Nat, pending : 0..backlog,
            events : {<<>>, <<"OPEN">>, <<"CLOSE">>, <<"OPEN", "CLOSE">>},
            close_dispatched : BOOLEAN, last : {NULL, "OPEN", "CLOSE", "ACCEPT"}]

AccType == [open : BOOLEAN, armed : BOOLEAN, shut : BOOLEAN, overflowed : BOOLEAN,
            requests : Nat]

ConType == [fd : BOOLEAN, arm : BOOLEAN, io : BOOLEAN, closed : BOOLEAN,
            events : BOOLEAN, queued : BOOLEAN, reported : BOOLEAN]

PType == [tasks : Seq(Tasks), disconnects_pending : Nat, need_inactive : BOOLEAN,
          ready : BOOLEAN, working : BOOLEAN, event : BOOLEAN, overflow : Seq(Acceptors),
          ready_list_active : BOOLEAN, signal : BOOLEAN, asleep : BOOLEAN, told : BOOLEAN]

DType == [at : {"idle", "pass"}, todo : Seq(Tasks), notify : BOOLEAN]

\* TypeOK, with the sets of records named.
Types ==
  /\ tsk \in [Tasks -> TskType] /\ w \in [Tasks -> WType] /\ lst \in LstType
  /\ acc \in [Acceptors -> AccType] /\ con \in [Conns -> ConType]
  /\ p \in PType /\ d \in DType

\* Where a task is in its life, with x its task_t, list and todo whether it is on the
\* proactor's list or the one of pn_proactor_disconnect, and idle whether no thread is at it.
Life(x, list, todo, idle) ==
  /\ list <=> x.state = "live" /\ ~x.disconnecting
  /\ todo => x.disconnecting /\ x.state \in {"live", "removed"}
  /\ x.state = "live" => x.disconnect_ops = IF ~x.disconnecting THEN 0
                                            ELSE IF todo THEN 2 ELSE 1
  /\ x.state = "removed" => todo /\ x.disconnect_ops = 1
  /\ x.state = "none" => ~x.closing /\ ~x.disconnecting /\ x.disconnect_ops = 0 /\ ~x.working
  /\ x.state # "live" => ~x.ready /\ idle

\* pn_proactor_disconnect has taken these over, and they have not left.
Disconnecting(f) == {t \in Tasks : f[t].state = "live" /\ f[t].disconnecting}

TasksInv ==
  /\ \A t \in Tasks : Life(tsk[t], t \in Range(p.tasks), t \in Range(d.todo), w[t].at = "idle")
  /\ IsInjective(p.tasks) /\ IsInjective(d.todo)
  /\ d.at = "idle" => d.todo = <<>>
  /\ p.disconnects_pending = Cardinality(Disconnecting(tsk))

\* A connection, its task_t being x, that leaves has no more events of epoll to come.
Leaving(x, k, at) ==
  /\ x.closing => k.closed
  /\ at \in {"cleanup", "overflow", "remove"} => x.closing /\ ~x.ready
  /\ at \in {"cleanup", "overflow", "remove"} \/ x.state # "live" => ~k.arm

ConnsInv == \A c \in Conns : Leaving(tsk[c], con[c], w[c].at)

Open(f) == {i \in Acceptors : f[i].open}

\* The listener: the open sockets are counted, after PN_LISTENER_CLOSE there are no
\* events, it leaves when nothing is left of it, and is not deaf.
Listening(x, l, f, at) ==
  /\ l.active_count = Cardinality(Open(f))
  /\ x.closing => l.pending = 0
  /\ ~x.closing => /\ l.events \in {<<>>, <<"OPEN">>} /\ ~l.close_dispatched
                   /\ \A i \in Acceptors : ~f[i].shut
  /\ l.close_dispatched => l.events = <<>>
  /\ at = "remove" \/ x.state \in {"removed", "freed"} =>
       x.closing /\ ~x.ready /\ l.active_count = 0 /\ l.overflow_count = 0
  /\ x.state = "none" => \A i \in Acceptors : ~f[i].overflowed
  /\ x.state = "live" /\ ~x.closing /\ at = "idle" =>
       \A i \in Acceptors :
         f[i].open => f[i].armed \/ f[i].overflowed \/ (x.ready /\ l.pending > 0)

ListenerInv == Listening(tsk[L], lst, acc, w[L].at)

\* A socket that waits for a file descriptor is on one of the lists, once.
OverflowInv ==
  /\ \A i \in Acceptors :
       /\ acc[i].overflowed => ~acc[i].armed /\ lst.overflow_count > 0
       /\ acc[i].overflowed <=> i \in Range(p.overflow) \/ \E t \in Tasks : i \in Range(w[t].list)
  /\ IsInjective(p.overflow)
  /\ \A t \in Tasks : /\ IsInjective(w[t].list)
                      /\ Range(w[t].list) \cap Range(p.overflow) = {}
                      /\ w[t].at # "overflow" => w[t].list = <<>>
  /\ \A t, u \in Tasks : t # u => Range(w[t].list) \cap Range(w[u].list) = {}

IInv == Types /\ TasksInv /\ ConnsInv /\ ListenerInv /\ OverflowInv /\ ok

-----------------------------------------------------------------------------
(* What the functions of the scheduler return *)

SType == [tsk : [Tasks -> TskType], p : PType, acc : [Acceptors -> AccType], lst : LstType]

\* The lists and counts of the proactor are the same.
PKept(x, y) ==
  /\ y \in PType /\ y.tasks = x.tasks /\ y.overflow = x.overflow
  /\ y.disconnects_pending = x.disconnects_pending

Scheduled(x) == [x EXCEPT !.ready = x.ready \/ ~x.working]

\* The tasks, of which there are finitely many, are the listener and the connections.
LEMMA NullIsNoTask == L \in Tasks /\ Conns \subseteq Tasks /\ NULL \notin Tasks
                      /\ L \notin Conns /\ IsFiniteSet(Tasks)
<1>1. IsFiniteSet(Tasks)
  BY TasksConstants, FS_AddElement DEF Tasks
<1> QED
  BY <1>1, TasksConstants DEF Tasks

\* The record of the state that the functions take.
LEMMA SIs ==
  ASSUME Types
  PROVE  S \in SType /\ S.tsk = tsk /\ S.p = p /\ S.acc = acc /\ S.lst = lst
  BY DEF Types, S, SType

\* What is not changed keeps the lists and the counter.
LEMMA PkRefl == \A x \in PType : PKept(x, x)
  BY DEF PKept

\* schedule, for a task, without the notification.
LEMMA ScheduleOnly ==
  ASSUME NEW a \in SType, NEW t \in Tasks
  PROVE  LET b == schedule_only(a, t)
         IN  /\ b \in SType /\ b.acc = a.acc /\ b.lst = a.lst /\ PKept(a.p, b.p)
             /\ b.tsk = [a.tsk EXCEPT ![t] = Scheduled(a.tsk[t])]
<1> DEFINE q == [a.p EXCEPT !.ready_list_active = TRUE]
           x == [a.tsk[t] EXCEPT !.ready = TRUE]
           b == schedule_only(a, t)
<1>1. a.tsk \in [Tasks -> TskType] /\ a.p \in PType /\ a.tsk[t] \in TskType /\ t # NULL
  BY NullIsNoTask DEF SType
<1>2. q \in PType /\ PKept(a.p, q)
  BY <1>1, Zenon DEF PType, PKept
<1>3. x \in TskType
  BY <1>1, Zenon DEF TskType
<1>4. CASE a.tsk[t].ready \/ a.tsk[t].working
  <2>1. b = a
    BY <1>1, <1>4, Zenon DEF schedule_only, IsReady, IsWorking
  <2>2. Scheduled(a.tsk[t]) = a.tsk[t]
    BY <1>1, <1>4, Zenon DEF Scheduled, TskType
  <2> QED
    BY <1>1, <2>1, <2>2, PkRefl
<1>5. CASE ~(a.tsk[t].ready \/ a.tsk[t].working)
  <2>1. b = [a EXCEPT !.p = q, !.tsk = [a.tsk EXCEPT ![t] = x]]
    BY <1>1, <1>5 DEF schedule_only, IsReady, IsWorking, SType
  <2>2. Scheduled(a.tsk[t]) = x
    BY <1>1, <1>5, Zenon DEF Scheduled, TskType
  <2> HIDE DEF q, x, b
  <2>3. [a.tsk EXCEPT ![t] = x] \in [Tasks -> TskType]
    BY <1>1, <1>3
  <2>4. /\ b \in SType /\ b.acc = a.acc /\ b.lst = a.lst /\ b.p = q
        /\ b.tsk = [a.tsk EXCEPT ![t] = x]
    BY <1>2, <2>1, <2>3, Zenon DEF SType
  <2> QED
    BY <1>2, <2>2, <2>4 DEF b
<1> QED
  BY <1>4, <1>5, Zenon

\* notify_poller only raises the signal.
LEMMA NotifyPoller ==
  ASSUME NEW a \in SType, NEW n \in BOOLEAN
  PROVE  LET b == notify_poller(a, n)
         IN  /\ b \in SType /\ b.acc = a.acc /\ b.lst = a.lst /\ PKept(a.p, b.p)
             /\ b.tsk = a.tsk
<1> DEFINE q == [a.p EXCEPT !.signal = a.p.signal \/ n]
           b == notify_poller(a, n)
<1>1. a.p \in PType
  BY DEF SType
<1>2. (a.p.signal \/ n) \in BOOLEAN
  BY <1>1 DEF PType
<1>3. q \in PType /\ PKept(a.p, q)
  BY <1>1, <1>2, Zenon DEF PType, PKept
<1>4. b = [a EXCEPT !.p = q]
  BY DEF notify_poller, SType
<1> HIDE DEF q, b
<1>5. b \in SType /\ b.acc = a.acc /\ b.lst = a.lst /\ b.p = q /\ b.tsk = a.tsk
  BY <1>3, <1>4 DEF SType
<1> QED
  BY <1>3, <1>5 DEF b

\* Notify says yes or no.
LEMMA NotifyIsBoolean ==
  ASSUME NEW a \in SType, NEW b \in SType
  PROVE  Notify(a, b) \in BOOLEAN
  BY DEF Notify

\* schedule, for a task.
LEMMA ScheduleIs ==
  ASSUME NEW a \in SType, NEW t \in Tasks
  PROVE  LET b == schedule(a, t)
         IN  /\ b \in SType /\ b.acc = a.acc /\ b.lst = a.lst /\ PKept(a.p, b.p)
             /\ b.tsk = [a.tsk EXCEPT ![t] = Scheduled(a.tsk[t])]
<1> DEFINE c == schedule_only(a, t)
           b == schedule(a, t)
<1>1. /\ c \in SType /\ c.acc = a.acc /\ c.lst = a.lst /\ PKept(a.p, c.p)
      /\ c.tsk = [a.tsk EXCEPT ![t] = Scheduled(a.tsk[t])]
  BY ScheduleOnly
<1>2. b = notify_poller(c, Notify(a, c))
  BY DEF schedule
<1> HIDE DEF c, b
<1>3. /\ b \in SType /\ b.acc = c.acc /\ b.lst = c.lst /\ PKept(c.p, b.p)
      /\ b.tsk = c.tsk
  BY <1>1, <1>2, NotifyPoller, NotifyIsBoolean, ZenonT(40)
<1> QED
  BY <1>1, <1>3, Zenon DEF PKept, b

\* The proactor's own task is scheduled.
LEMMA ScheduleProactor ==
  ASSUME NEW a \in SType
  PROVE  LET b == schedule_only(a, NULL)
         IN  /\ b \in SType /\ b.acc = a.acc /\ b.lst = a.lst /\ PKept(a.p, b.p)
             /\ b.tsk = a.tsk
<1> DEFINE q == [a.p EXCEPT !.ready_list_active = TRUE, !.ready = TRUE]
           b == schedule_only(a, NULL)
<1>1. a.p \in PType
  BY DEF SType
<1>2. q \in PType /\ PKept(a.p, q)
  BY <1>1, Zenon DEF PType, PKept
<1>3. CASE b = a
  BY <1>1, <1>3, PkRefl
<1>4. CASE b = [a EXCEPT !.p = q]
  <2> HIDE DEF q, b
  <2>1. b \in SType /\ b.acc = a.acc /\ b.lst = a.lst /\ b.p = q /\ b.tsk = a.tsk
    BY <1>2, <1>4 DEF SType
  <2> QED
    BY <1>2, <2>1 DEF b
<1>5. b = a \/ b = [a EXCEPT !.p = q]
  BY Zenon DEF schedule_only, SType
<1> QED
  BY <1>3, <1>4, <1>5

\* schedule_if_inactive, which touches no task.
LEMMA ScheduleIfInactive ==
  ASSUME NEW a \in SType
  PROVE  LET b == schedule_if_inactive(a)
         IN  /\ b \in SType /\ b.acc = a.acc /\ b.lst = a.lst /\ PKept(a.p, b.p)
             /\ b.tsk = a.tsk
<1> DEFINE q == [a.p EXCEPT !.need_inactive = TRUE]
           c == [a EXCEPT !.p = q]
           e == schedule_only(c, NULL)
           b == schedule_if_inactive(a)
<1>1. a.p \in PType
  BY DEF SType
<1>2. q \in PType /\ PKept(a.p, q)
  BY <1>1, Zenon DEF PType, PKept
<1>3. b = a \/ b = e
  BY DEF schedule_if_inactive, SType
<1> HIDE DEF q
<1>4. c \in SType /\ c.acc = a.acc /\ c.lst = a.lst /\ c.p = q /\ c.tsk = a.tsk
  BY <1>2 DEF SType
<1> HIDE DEF c, b
<1>5. e \in SType /\ e.acc = a.acc /\ e.lst = a.lst /\ PKept(q, e.p) /\ e.tsk = a.tsk
  BY <1>4, ScheduleProactor
<1>6. PKept(a.p, e.p)
  BY <1>2, <1>5, Zenon DEF PKept
<1> QED
  BY <1>1, <1>3, <1>5, <1>6, PkRefl DEF b

\* A new task is put on the list of the proactor.
LEMMA AddIs ==
  ASSUME NEW a \in SType, NEW t \in Tasks
  PROVE  LET b == proactor_add(a, t)
         IN  /\ b \in SType /\ b.acc = a.acc /\ b.lst = a.lst
             /\ b.p.tasks = <<t>> \o a.p.tasks /\ b.p.overflow = a.p.overflow
             /\ b.p.disconnects_pending = a.p.disconnects_pending
             /\ b.tsk = [a.tsk EXCEPT ![t] = [a.tsk[t] EXCEPT !.state = "live"]]
<1> DEFINE q == [a.p EXCEPT !.tasks = <<t>> \o a.p.tasks, !.told = FALSE]
           x == [a.tsk[t] EXCEPT !.state = "live"]
           f == [a.tsk EXCEPT ![t] = x]
           b == proactor_add(a, t)
<1>1. a.p \in PType /\ a.tsk \in [Tasks -> TskType] /\ a.tsk[t] \in TskType
  BY DEF SType
<1>2. <<t>> \o a.p.tasks \in Seq(Tasks)
  BY <1>1 DEF PType
<1>3. /\ q \in PType /\ q.tasks = <<t>> \o a.p.tasks /\ q.overflow = a.p.overflow
      /\ q.disconnects_pending = a.p.disconnects_pending
  BY <1>1, <1>2, Zenon DEF PType
<1>4. x \in TskType
  BY <1>1, Zenon DEF TskType
<1>5. b = [a EXCEPT !.p = q, !.tsk = f]
  BY Zenon DEF proactor_add, SType
<1> HIDE DEF x
<1>6. f \in [Tasks -> TskType]
  BY <1>1, <1>4
<1> HIDE DEF q, b, f
<1>7. b \in SType /\ b.acc = a.acc /\ b.lst = a.lst /\ b.p = q /\ b.tsk = f
  BY <1>3, <1>5, <1>6, Zenon DEF SType
<1> QED
  BY <1>3, <1>7, Zenon DEF b, f, x

\* What proactor_remove makes of a task.
Removed(x) ==
  [x EXCEPT !.disconnect_ops = IF x.disconnecting THEN x.disconnect_ops - 1 ELSE 0,
            !.state = IF x.disconnecting /\ x.disconnect_ops = 2 THEN "removed" ELSE "freed"]

\* The task that proactor_remove leaves behind.
LEMMA RemovedIs ==
  ASSUME NEW x \in TskType, IF x.disconnecting THEN x.disconnect_ops \in 1..2
                            ELSE x.disconnect_ops = 0
  PROVE  LET y == Removed(x)
         IN  /\ y \in TskType
             /\ y.disconnecting = x.disconnecting /\ y.closing = x.closing
             /\ y.ready = x.ready /\ y.working = x.working
             /\ y.disconnect_ops = IF x.disconnecting THEN x.disconnect_ops - 1 ELSE 0
             /\ y.state = IF x.disconnecting /\ x.disconnect_ops = 2 THEN "removed" ELSE "freed"
<1> DEFINE o == IF x.disconnecting THEN x.disconnect_ops - 1 ELSE 0
           s == IF x.disconnecting /\ x.disconnect_ops = 2 THEN "removed" ELSE "freed"
<1>1. o \in 0..2 /\ s \in {"removed", "freed"}
  BY DEF TskType
<1>2. Removed(x) = [x EXCEPT !.disconnect_ops = o, !.state = s]
  BY DEF Removed
<1> HIDE DEF o, s
<1>3. /\ Removed(x) \in TskType
      /\ Removed(x).disconnecting = x.disconnecting /\ Removed(x).closing = x.closing
      /\ Removed(x).ready = x.ready /\ Removed(x).working = x.working
      /\ Removed(x).disconnect_ops = o /\ Removed(x).state = s
  BY <1>1, <1>2, Zenon DEF TskType
<1> QED
  BY <1>3 DEF o, s

\* proactor_remove: the task leaves the list of tasks, or disconnects_pending.
LEMMA RemoveIs ==
  ASSUME NEW a \in SType, NEW t \in Tasks, IsInjective(a.p.tasks),
         IF a.tsk[t].disconnecting
         THEN a.tsk[t].disconnect_ops \in 1..2 /\ a.p.disconnects_pending # 0
         ELSE a.tsk[t].disconnect_ops = 0 /\ t \in Range(a.p.tasks)
  PROVE  LET b == proactor_remove(a, t)
         IN  /\ b \in SType /\ b.acc = a.acc /\ b.lst = a.lst
             /\ b.p.overflow = a.p.overflow
             /\ b.p.tasks = IF a.tsk[t].disconnecting THEN a.p.tasks ELSE unlink(a.p.tasks, t)
             /\ b.p.disconnects_pending = IF a.tsk[t].disconnecting
                                          THEN a.p.disconnects_pending - 1
                                          ELSE a.p.disconnects_pending
             /\ b.tsk = [a.tsk EXCEPT ![t] = Removed(a.tsk[t])]
<1> DEFINE x == a.tsk[t]
           l == IF x.disconnecting THEN a.p.tasks ELSE unlink(a.p.tasks, t)
           n == IF x.disconnecting THEN a.p.disconnects_pending - 1
                ELSE a.p.disconnects_pending
           q == [a.p EXCEPT !.tasks = l, !.disconnects_pending = n]
           f == [a.tsk EXCEPT ![t] = Removed(x)]
           b1 == IF ~x.disconnecting
                 THEN [a EXCEPT !.p.tasks = unlink(@, t)]
                 ELSE [a EXCEPT !.p.disconnects_pending = @ - 1,
                                !.tsk[t].disconnect_ops = @ - 1]
           b2 == [b1 EXCEPT !.tsk[t].state =
                    IF b1.tsk[t].disconnect_ops = 0 THEN "freed" ELSE "removed"]
           b3 == schedule_if_inactive(b2)
           b == proactor_remove(a, t)
<1>1. a.p \in PType /\ a.tsk \in [Tasks -> TskType] /\ x \in TskType
  BY DEF SType
<1>2. l \in Seq(Tasks) /\ n \in Nat
  BY <1>1, Unlink DEF PType
<1>3. q \in PType /\ q.tasks = l /\ q.overflow = a.p.overflow /\ q.disconnects_pending = n
  <2> HIDE DEF l, n
  <2> QED
    BY <1>1, <1>2, Zenon DEF PType
<1>4. Removed(x) \in TskType
  BY <1>1, RemovedIs, Zenon
<1>5. f \in [Tasks -> TskType]
  <2> HIDE DEF x
  <2> QED
    BY <1>1, <1>4, Zenon
<1>6. b2 = [a EXCEPT !.p = q, !.tsk = f]
  <2>1. CASE x.disconnecting
    <3> DEFINE y == [x EXCEPT !.disconnect_ops = @ - 1]
               st == IF y.disconnect_ops = 0 THEN "freed" ELSE "removed"
    <3>1. b1 = [a EXCEPT !.p = [a.p EXCEPT !.disconnects_pending = n],
                         !.tsk = [a.tsk EXCEPT ![t] = y]]
      BY <2>1 DEF SType
    <3>2. q = [a.p EXCEPT !.disconnects_pending = n]
      BY <1>1, <2>1, Zenon DEF PType
    <3>3. Removed(x) = [y EXCEPT !.state = st]
      <4> DEFINE o == x.disconnect_ops - 1
      <4>1. o \in 0..1 /\ x.disconnect_ops \in {1, 2}
        BY <2>1
      <4>2. y = [x EXCEPT !.disconnect_ops = o]
        BY Zenon
      <4>3. Removed(x) = [x EXCEPT !.disconnect_ops = o,
                            !.state = IF o = 0 THEN "freed" ELSE "removed"]
        <5>1. (IF x.disconnecting THEN x.disconnect_ops - 1 ELSE 0) = o
          BY <2>1
        <5>2. (IF x.disconnecting /\ x.disconnect_ops = 2 THEN "removed" ELSE "freed")
              = IF o = 0 THEN "freed" ELSE "removed"
          BY <2>1, <4>1
        <5> HIDE DEF o
        <5> QED
          BY <5>1, <5>2, Zenon DEF Removed
      <4> HIDE DEF o, y
      <4>4. y.disconnect_ops = o
        BY <1>1, <4>1, <4>2, Zenon DEF TskType
      <4>5. st = IF o = 0 THEN "freed" ELSE "removed"
        BY <4>4, Zenon
      <4> HIDE DEF st
      <4> QED
        BY <1>1, <4>2, <4>3, <4>5, Zenon DEF TskType
    <3> HIDE DEF q, x, n
    <3>4. b1.tsk = [a.tsk EXCEPT ![t] = y] /\ b1 = [a EXCEPT !.p = q, !.tsk = b1.tsk]
      BY <3>1, <3>2, ZenonT(40) DEF SType
    <3>5. b1.tsk[t] = y
      BY <1>1, <3>4
    <3> HIDE DEF b1, y
    <3>6. b2 = [a EXCEPT !.p = q, !.tsk = [b1.tsk EXCEPT ![t] = [y EXCEPT !.state = st]]]
      BY <3>4, <3>5, Zenon DEF SType
    <3>7. [b1.tsk EXCEPT ![t] = [y EXCEPT !.state = st]] = [a.tsk EXCEPT ![t] = Removed(x)]
      BY <1>1, <3>3, <3>4, Zenon
    <3> QED
      BY <3>6, <3>7, Zenon DEF x
  <2>2. CASE ~x.disconnecting
    <3>1. b1 = [a EXCEPT !.p = [a.p EXCEPT !.tasks = l]]
      BY <2>2 DEF SType
    <3>2. q = [a.p EXCEPT !.tasks = l]
      BY <1>1, <2>2, Zenon DEF PType
    <3>3. Removed(x) = [x EXCEPT !.state = "freed"]
      BY <1>1, <2>2, Zenon DEF TskType, Removed
    <3>4. x.disconnect_ops = 0
      BY <2>2
    <3> HIDE DEF q, x, l
    <3>5. b1.tsk = a.tsk /\ b1 = [a EXCEPT !.p = q]
      BY <3>1, <3>2, Zenon DEF SType
    <3> HIDE DEF b1
    <3>6. b2 = [a EXCEPT !.p = q, !.tsk = [a.tsk EXCEPT ![t] = [a.tsk[t] EXCEPT !.state = "freed"]]]
      BY <3>4, <3>5 DEF SType, x
    <3> QED
      BY <3>3, <3>6, Zenon DEF x
  <2> QED
    BY <2>1, <2>2, Zenon
<1>7. b = notify_poller(b3, Notify(a, b3))
  BY Zenon DEF proactor_remove
<1> HIDE DEF q, f, b2
<1>8. b2 \in SType /\ b2.acc = a.acc /\ b2.lst = a.lst /\ b2.p = q /\ b2.tsk = f
  BY <1>3, <1>5, <1>6, Zenon DEF SType
<1>9. b3 \in SType /\ b3.acc = a.acc /\ b3.lst = a.lst /\ PKept(q, b3.p) /\ b3.tsk = f
  BY <1>8, ScheduleIfInactive, Zenon
<1> HIDE DEF b3, b
<1>10. b \in SType /\ b.acc = a.acc /\ b.lst = a.lst /\ PKept(b3.p, b.p) /\ b.tsk = f
  BY <1>7, <1>9, NotifyPoller, NotifyIsBoolean, Zenon
<1>11. b.p.overflow = a.p.overflow /\ b.p.tasks = l /\ b.p.disconnects_pending = n
  BY <1>3, <1>9, <1>10, Zenon DEF PKept
<1> QED
  BY <1>10, <1>11, Zenon DEF b, f

\* PN_LISTENER_CLOSE after PN_LISTENER_OPEN.
LEMMA AppendOne ==
  ASSUME NEW a, NEW b
  PROVE  Append(<<a>>, b) = <<a, b>>
<1> DEFINE T == {a, b}
           s == Append(<<a>>, b)
           r == <<a, b>>
<1>1. <<a>> \in Seq(T) /\ b \in T /\ r \in Seq(T)
  OBVIOUS
<1>2. s \in Seq(T) /\ Len(s) = 2 /\ s[1] = a /\ s[2] = b
  BY <1>1
<1>3. Len(r) = 2 /\ r[1] = a /\ r[2] = b
  OBVIOUS
<1> HIDE DEF s, r, T
<1>4. s \in [1 .. 2 -> T] /\ r \in [1 .. 2 -> T] /\ \A i \in 1 .. 2 : s[i] = r[i]
  BY <1>1, <1>2, <1>3
<1>5. s = r
  BY <1>4
<1> QED
  BY <1>5 DEF s, r

\* What listener_begin_close does: the sockets that are not armed are closed, and counted.
LEMMA BeginCloseIs ==
  ASSUME NEW a \in SType, a.lst.active_count = Cardinality(Open(a.acc)),
         a.lst.events \in {<<>>, <<"OPEN">>}, ~a.tsk[L].closing
  PROVE  LET b == listener_begin_close(a)
         IN  /\ b \in SType /\ b.p = a.p
             /\ b.tsk = [a.tsk EXCEPT ![L] = [a.tsk[L] EXCEPT !.closing = TRUE]]
             /\ \A i \in Acceptors : /\ b.acc[i].armed = a.acc[i].armed
                                     /\ b.acc[i].overflowed = a.acc[i].overflowed
             /\ b.lst.active_count = Cardinality(Open(b.acc))
             /\ b.lst.pending = 0
             /\ b.lst.overflow_count = a.lst.overflow_count
             /\ b.lst.close_dispatched = a.lst.close_dispatched
             /\ b.lst.last = a.lst.last
<1> DEFINE now == {i \in Acceptors : a.acc[i].open /\ ~a.acc[i].armed}
           x == [a.tsk[L] EXCEPT !.closing = TRUE]
           f == [a.tsk EXCEPT ![L] = x]
           g == [i \in Acceptors |->
                  [a.acc[i] EXCEPT !.open = a.acc[i].open /\ i \notin now,
                                   !.shut = a.acc[i].shut \/ a.acc[i].armed]]
           n == a.lst.active_count - Cardinality(now)
           e == Append(a.lst.events, "CLOSE")
           l == [a.lst EXCEPT !.active_count = n, !.pending = 0, !.events = e]
           b == listener_begin_close(a)
<1>1. /\ a.p \in PType /\ a.tsk \in [Tasks -> TskType] /\ a.tsk[L] \in TskType
      /\ a.acc \in [Acceptors -> AccType] /\ a.lst \in LstType /\ L \in Tasks
  BY NullIsNoTask DEF SType
<1>2. b = [a EXCEPT !.tsk = f, !.acc = g, !.lst = l]
  BY ZenonT(40) DEF listener_begin_close, SType
<1>3. x \in TskType
  BY <1>1, Zenon DEF TskType
<1>4. f \in [Tasks -> TskType]
  <2> HIDE DEF x
  <2> QED
    BY <1>1, <1>3, Zenon
<1>5. \A i \in Acceptors : /\ g[i] \in AccType
                           /\ g[i].open = (a.acc[i].open /\ i \notin now)
                           /\ g[i].armed = a.acc[i].armed
                           /\ g[i].overflowed = a.acc[i].overflowed
  <2> SUFFICES ASSUME NEW i \in Acceptors
               PROVE  /\ g[i] \in AccType
                      /\ g[i].open = (a.acc[i].open /\ i \notin now)
                      /\ g[i].armed = a.acc[i].armed
                      /\ g[i].overflowed = a.acc[i].overflowed
    BY Zenon
  <2> DEFINE o == a.acc[i].open /\ i \notin now
             s == a.acc[i].shut \/ a.acc[i].armed
  <2>1. o \in BOOLEAN /\ s \in BOOLEAN /\ a.acc[i] \in AccType
    BY <1>1, Zenon DEF AccType
  <2>2. g[i] = [a.acc[i] EXCEPT !.open = o, !.shut = s]
    OBVIOUS
  <2> HIDE DEF o, s, g
  <2>3. /\ g[i] \in AccType /\ g[i].open = o /\ g[i].armed = a.acc[i].armed
        /\ g[i].overflowed = a.acc[i].overflowed
    BY <2>1, <2>2, Zenon DEF AccType
  <2> QED
    BY <2>3, Zenon DEF o
<1>6. g \in [Acceptors -> AccType]
  <2>1. g = [i \in Acceptors |-> g[i]]
    OBVIOUS
  <2> HIDE DEF g
  <2> QED
    BY <1>5, <2>1, Zenon
<1> HIDE DEF g, f
<1>7. /\ IsFiniteSet(Open(a.acc)) /\ IsFiniteSet(now) /\ now \subseteq Open(a.acc)
      /\ Open(g) = Open(a.acc) \ now
  <2>1. IsFiniteSet(Open(a.acc)) /\ IsFiniteSet(now)
    BY TasksConstants, FS_Subset, Zenon DEF Open
  <2> QED
    BY <1>5, <2>1, Zenon DEF Open
<1>8. n = Cardinality(Open(g)) /\ n \in Nat
  <2>1. /\ IsFiniteSet(Open(a.acc) \ now)
        /\ Cardinality(Open(a.acc) \ now) =
             Cardinality(Open(a.acc)) - Cardinality(Open(a.acc) \cap now)
    BY <1>7, FS_Difference, Zenon
  <2>2. Open(a.acc) \cap now = now
    BY <1>7, Zenon
  <2> QED
    BY <1>7, <2>1, <2>2, FS_CardinalityType, Zenon
<1>9. e \in {<<"CLOSE">>, <<"OPEN", "CLOSE">>}
  <2>1. Append(<<>>, "CLOSE") = <<"CLOSE">>
    OBVIOUS
  <2> QED
    BY <2>1, AppendOne, Zenon
<1> HIDE DEF n, e
<1>10. /\ l \in LstType /\ l.active_count = n /\ l.pending = 0
       /\ l.overflow_count = a.lst.overflow_count
       /\ l.close_dispatched = a.lst.close_dispatched /\ l.last = a.lst.last
  <2>1. 0 \in 0..backlog
    BY TasksConstants
  <2> QED
    BY <1>1, <1>8, <1>9, <2>1, ZenonT(40) DEF LstType
<1> HIDE DEF l, b
<1>11. b \in SType /\ b.p = a.p /\ b.tsk = f /\ b.acc = g /\ b.lst = l
  BY <1>1, <1>2, <1>4, <1>6, <1>10, Zenon DEF SType
<1> QED
  BY <1>5, <1>8, <1>10, <1>11, Zenon DEF b, f

-----------------------------------------------------------------------------
(* What does not touch a part of the invariant *)

\* The lists of tasks stay, and so do the tasks that are not live.
LEMMA TasksKept ==
  ASSUME TasksInv, p'.tasks = p.tasks, p'.disconnects_pending = p.disconnects_pending,
         UNCHANGED d,
         \A t \in Tasks :
           /\ tsk'[t].state = tsk[t].state /\ tsk'[t].disconnecting = tsk[t].disconnecting
           /\ tsk'[t].disconnect_ops = tsk[t].disconnect_ops
           /\ tsk[t].state # "live" => tsk'[t] = tsk[t] /\ w'[t].at = w[t].at
  PROVE  TasksInv'
<1>1. Disconnecting(tsk)' = Disconnecting(tsk)
  BY Zenon DEF Disconnecting
<1>2. ASSUME NEW t \in Tasks
      PROVE  Life(tsk[t], t \in Range(p.tasks), t \in Range(d.todo), w[t].at = "idle")'
  <2>1. Life(tsk[t], t \in Range(p.tasks), t \in Range(d.todo), w[t].at = "idle")
    BY Zenon DEF TasksInv
  <2> QED
    BY <2>1, Zenon DEF Life
<1> QED
  BY <1>1, <1>2, Zenon DEF TasksInv

\* No list of sockets changes.
LEMMA OverflowKept ==
  ASSUME OverflowInv, p'.overflow = p.overflow, lst'.overflow_count = lst.overflow_count,
         \A i \in Acceptors :
           /\ acc'[i].overflowed = acc[i].overflowed
           /\ acc[i].overflowed => acc'[i].armed = acc[i].armed,
         \A t \in Tasks :
           /\ w'[t].list = w[t].list
           /\ w'[t].at # "overflow" => w[t].list = <<>>
  PROVE  OverflowInv'
  BY SMTT(40) DEF OverflowInv

\* The connections go on as they were.
LEMMA ConnsKept ==
  ASSUME ConnsInv,
         \A c \in Conns :
           /\ con'[c].arm = con[c].arm /\ con'[c].closed = con[c].closed
           /\ tsk'[c] = tsk[c] /\ w'[c].at = w[c].at
  PROVE  ConnsInv'
  BY Zenon DEF ConnsInv, Leaving

\* What leaves the listener's own state alone keeps its part of the invariant.
LEMMA ListenerKept ==
  ASSUME ListenerInv, tsk'[L] = tsk[L], UNCHANGED <<lst, acc>>, w'[L].at = w[L].at
  PROVE  ListenerInv'
  BY DEF ListenerInv

\* A thread is at work for live tasks only.
LEMMA WorkIsForLive ==
  ASSUME TasksInv, NEW t \in Tasks, w[t].at # "idle"
  PROVE  Live(t)
  BY Zenon DEF TasksInv, Life, Live

\* A step of a connection, for a connection that does not wait for the overflow list.
LEMMA ConnStepKeeps ==
  ASSUME IInv, NEW c \in Conns, NEW x \in TskType, NEW k \in ConType, NEW at \in Places,
         Live(c), w[c].at # "overflow", at # "overflow",
         tsk' = [tsk EXCEPT ![c] = x], con' = [con EXCEPT ![c] = k],
         w' = [w EXCEPT ![c].at = at], PKept(p, p'), UNCHANGED <<lst, acc, d, ok>>,
         x.state = tsk[c].state, x.disconnecting = tsk[c].disconnecting,
         x.disconnect_ops = tsk[c].disconnect_ops, Leaving(x, k, at)
  PROVE  IInv'
<1>1. /\ tsk \in [Tasks -> TskType] /\ w \in [Tasks -> WType] /\ con \in [Conns -> ConType]
      /\ c \in Tasks /\ c # L /\ L \in Tasks /\ Conns \subseteq Tasks
  BY NullIsNoTask, Zenon DEF IInv, Types
<1>2. /\ tsk' \in [Tasks -> TskType] /\ con' \in [Conns -> ConType]
      /\ tsk'[c] = x /\ \A t \in Tasks \ {c} : tsk'[t] = tsk[t]
      /\ con'[c] = k /\ \A t \in Conns \ {c} : con'[t] = con[t]
  BY <1>1
<1>3. /\ w' \in [Tasks -> WType]
      /\ w'[c].at = at /\ w'[c].list = w[c].list /\ \A t \in Tasks \ {c} : w'[t] = w[t]
  BY <1>1, Zenon DEF WType
<1>4. Types'
  BY <1>2, <1>3, Zenon DEF IInv, Types, PKept
<1>5. TasksInv'
  BY <1>1, <1>2, <1>3, TasksKept, Zenon DEF IInv, Live, PKept
<1>6. ConnsInv'
  BY <1>1, <1>2, <1>3, Zenon DEF IInv, ConnsInv
<1>7. ListenerInv'
  BY <1>1, <1>2, <1>3, ListenerKept DEF IInv
<1>8. OverflowInv'
  <2>1. \A t \in Tasks : w[t].at # "overflow" => w[t].list = <<>>
    BY Zenon DEF IInv, OverflowInv
  <2>2. \A t \in Tasks : w'[t].list = w[t].list /\ (w'[t].at # "overflow" => w[t].list = <<>>)
    BY <1>3, <2>1, Zenon
  <2> QED
    BY <2>2, OverflowKept, Zenon DEF IInv, PKept
<1> QED
  BY <1>4, <1>5, <1>6, <1>7, <1>8 DEF IInv

-----------------------------------------------------------------------------
(* The connections *)

\* pconnection_process keeps the invariant.
LEMMA ProcessKeeps ==
  ASSUME IInv, NEW c \in Conns, NEW sched \in BOOLEAN, NEW io \in BOOLEAN,
         pconnection_process(c, sched, io)
  PROVE  IInv'
<1> DEFINE close == con[c].queued /\ ~tsk[c].closing
           a == [S EXCEPT !.tsk[c].ready = @ /\ ~sched, !.tsk[c].working = TRUE]
           r == tsk[c].ready /\ ~sched
           x == [tsk[c] EXCEPT !.ready = r, !.working = TRUE]
           k == [con[c] EXCEPT !.arm = @ /\ ~io, !.io = @ /\ ~io, !.queued = FALSE,
                   !.closed = @ \/ close, !.events = @ \/ (close /\ ~con[c].closed)]
           at == CASE k.events -> "batch"
                   [] ~k.events /\ tsk[c].closing /\ ~k.arm /\ ~a.tsk[c].ready -> "cleanup"
                   [] OTHER -> "work"
<1>1. /\ tsk \in [Tasks -> TskType] /\ tsk[c] \in TskType /\ con[c] \in ConType
      /\ c \in Tasks /\ p \in PType
  BY NullIsNoTask DEF IInv, Types
<1>2. a.tsk = [tsk EXCEPT ![c] = x] /\ a.p = p /\ a.acc = acc /\ a.lst = lst
  BY <1>1, Zenon DEF S
<1>3. /\ Become(a) /\ con' = [con EXCEPT ![c] = k] /\ w' = [w EXCEPT ![c].at = at]
      /\ UNCHANGED <<d, env, ok>>
      /\ w[c].at \in {"idle", "retry"} /\ (w[c].at = "idle" => Live(c))
  BY Zenon DEF pconnection_process, Goto, MayProcess
<1>4. Live(c)
  BY <1>1, <1>3, WorkIsForLive, Zenon DEF IInv
<1>5. r \in BOOLEAN /\ close \in BOOLEAN
  BY <1>1 DEF TskType, ConType
<1>6. /\ x \in TskType /\ x.ready = r /\ x.closing = tsk[c].closing
      /\ x.state = tsk[c].state /\ x.disconnecting = tsk[c].disconnecting
      /\ x.disconnect_ops = tsk[c].disconnect_ops
  <2> HIDE DEF r
  <2> QED
    BY <1>1, <1>5, Zenon DEF TskType
<1>7. k \in ConType /\ (con[c].closed => k.closed)
  <2> DEFINE k1 == con[c].arm /\ ~io
             k2 == con[c].io /\ ~io
             k3 == con[c].closed \/ close
             k4 == con[c].events \/ (close /\ ~con[c].closed)
  <2>1. k1 \in BOOLEAN /\ k2 \in BOOLEAN /\ k3 \in BOOLEAN /\ k4 \in BOOLEAN
    BY <1>1, <1>5 DEF ConType
  <2>2. k = [con[c] EXCEPT !.arm = k1, !.io = k2, !.queued = FALSE,
                           !.closed = k3, !.events = k4]
    BY Zenon
  <2>3. con[c].closed => k3
    OBVIOUS
  <2> HIDE DEF k, k1, k2, k3, k4
  <2>4. k \in ConType /\ k.closed = k3
    BY <1>1, <2>1, <2>2, ZenonT(40) DEF ConType
  <2> QED
    BY <2>3, <2>4
<1>8. a.tsk[c].ready = x.ready
  BY <1>1, <1>2, Zenon
<1> HIDE DEF a, x, k
<1>9. at \in Places /\ at # "overflow" /\ at # "remove"
      /\ (at = "cleanup" => tsk[c].closing /\ ~k.arm /\ ~x.ready)
  BY <1>8 DEF Places
<1>10. Leaving(tsk[c], con[c], w[c].at)
  BY DEF IInv, ConnsInv
<1>11. Leaving(x, k, at)
  BY <1>4, <1>6, <1>7, <1>9, <1>10, Zenon DEF Leaving, Live
<1>12. tsk' = [tsk EXCEPT ![c] = x] /\ PKept(p, p') /\ UNCHANGED <<acc, lst>>
  BY <1>1, <1>2, <1>3, PkRefl, Zenon DEF Become
<1> HIDE DEF at
<1> QED
  BY <1>3, <1>4, <1>6, <1>7, <1>9, <1>11, <1>12, ConnStepKeeps, Zenon

\* So does what it does without the lock.
LEMMA WorkKeeps ==
  ASSUME IInv, NEW c \in Conns, NEW events \in BOOLEAN, NEW closed \in BOOLEAN,
         pconnection_work(c, events, closed)
  PROVE  IInv'
<1> DEFINE e == con[c].events \/ events
           o == con[c].closed \/ closed
           k == [con[c] EXCEPT !.events = e, !.closed = o]
           at == IF events THEN "batch" ELSE "check"
<1>1. /\ tsk \in [Tasks -> TskType] /\ tsk[c] \in TskType /\ con[c] \in ConType
      /\ con \in [Conns -> ConType] /\ c \in Tasks /\ p \in PType
  BY NullIsNoTask DEF IInv, Types
<1>2. /\ w[c].at = "work" /\ w' = [w EXCEPT ![c].at = at]
      /\ con' = [con EXCEPT ![c] = k] /\ UNCHANGED <<tsk, lst, acc, p, d, ok>>
  BY <1>1, Zenon DEF pconnection_work, Goto
<1>3. Live(c)
  BY <1>1, <1>2, WorkIsForLive DEF IInv
<1>4. e \in BOOLEAN /\ o \in BOOLEAN /\ (con[c].closed => o)
  BY <1>1 DEF ConType
<1> HIDE DEF e, o
<1>5. k \in ConType /\ k.closed = o
  BY <1>1, <1>4, ZenonT(40) DEF ConType
<1> HIDE DEF k
<1>6. Leaving(tsk[c], con[c], w[c].at)
  BY DEF IInv, ConnsInv
<1>7. at \in Places /\ at \notin {"cleanup", "overflow", "remove"}
  BY DEF Places
<1>8. Leaving(tsk[c], k, at)
  BY <1>3, <1>4, <1>5, <1>6, <1>7, Zenon DEF Leaving, Live
<1>9. tsk' = [tsk EXCEPT ![c] = tsk[c]] /\ PKept(p, p')
  BY <1>1, <1>2, PkRefl
<1> HIDE DEF at
<1> QED
  BY <1>1, <1>2, <1>3, <1>5, <1>7, <1>8, <1>9, ConnStepKeeps, Zenon

\* The step that leaves a thread where it is.
LEMMA WSame ==
  ASSUME Types, NEW t \in Tasks
  PROVE  w = [w EXCEPT ![t].at = w[t].at]
  BY DEF Types, WType

\* The common end of pconnection_process and pconnection_done.
LEMMA FinishKeeps ==
  ASSUME IInv, NEW c \in Conns, w[c].at \in {"check", "batch"}, NEW x,
         x = [tsk[c] EXCEPT !.working = FALSE, !.closing = tsk[c].closing \/ finished(c)],
         tsk' = [tsk EXCEPT ![c] = x],
         Goto(c, IF x.closing /\ ~con[c].arm /\ ~x.ready THEN "cleanup" ELSE "idle"),
         IF ~tsk[c].closing /\ finished(c) THEN begin_close(c)
         ELSE con' = [con EXCEPT ![c].arm = @ \/ ~con[c].closed],
         UNCHANGED <<lst, acc, p, d, ok>>
  PROVE  IInv'
<1> DEFINE begin == ~tsk[c].closing /\ finished(c)
           cl == tsk[c].closing \/ finished(c)
           i == con[c].io \/ con[c].arm
           r == con[c].arm \/ ~con[c].closed
           k == IF begin THEN [con[c] EXCEPT !.io = i] ELSE [con[c] EXCEPT !.arm = r]
           at == IF x.closing /\ ~con[c].arm /\ ~x.ready THEN "cleanup" ELSE "idle"
<1>1. /\ tsk \in [Tasks -> TskType] /\ tsk[c] \in TskType /\ con[c] \in ConType
      /\ con \in [Conns -> ConType] /\ c \in Tasks /\ p \in PType
  BY NullIsNoTask, Zenon DEF IInv, Types
<1>2. con' = [con EXCEPT ![c] = k]
  <2>1. CASE begin
    BY <1>1, <2>1 DEF begin_close
  <2>2. CASE ~begin
    BY <1>1, <2>2, Zenon
  <2> QED
    BY <2>1, <2>2, Zenon
<1>3. Live(c)
  BY <1>1, WorkIsForLive DEF IInv
<1>4. cl \in BOOLEAN /\ i \in BOOLEAN /\ r \in BOOLEAN /\ (cl => tsk[c].closing \/ con[c].closed)
      /\ (finished(c) => con[c].closed)
  BY <1>1, Zenon DEF TskType, ConType, finished
<1>5. /\ x \in TskType /\ x.ready = tsk[c].ready /\ x.closing = cl
      /\ x.state = tsk[c].state /\ x.disconnecting = tsk[c].disconnecting
      /\ x.disconnect_ops = tsk[c].disconnect_ops
  <2>1. x = [tsk[c] EXCEPT !.working = FALSE, !.closing = cl]
    BY Zenon
  <2> HIDE DEF cl
  <2> QED
    BY <1>1, <1>4, <2>1, Zenon DEF TskType
<1>6. /\ k \in ConType /\ k.closed = con[c].closed
      /\ k.arm => con[c].arm \/ ~con[c].closed
  <2>1. /\ [con[c] EXCEPT !.io = i] \in ConType
        /\ [con[c] EXCEPT !.io = i].closed = con[c].closed
        /\ [con[c] EXCEPT !.io = i].arm = con[c].arm
    <3> HIDE DEF i
    <3> QED
      BY <1>1, <1>4, Zenon DEF ConType
  <2>2. /\ [con[c] EXCEPT !.arm = r] \in ConType
        /\ [con[c] EXCEPT !.arm = r].closed = con[c].closed
        /\ [con[c] EXCEPT !.arm = r].arm = r
    <3> HIDE DEF r
    <3> QED
      BY <1>1, <1>4, Zenon DEF ConType
  <2> HIDE DEF i, begin
  <2>3. r => con[c].arm \/ ~con[c].closed
    BY Zenon
  <2> HIDE DEF r
  <2> QED
    BY <2>1, <2>2, <2>3, Zenon
<1> HIDE DEF k
<1>7. Leaving(tsk[c], con[c], w[c].at)
  BY Zenon DEF IInv, ConnsInv
<1>8. at \in {"cleanup", "idle"} /\ (at = "cleanup" => x.closing /\ ~con[c].arm /\ ~x.ready)
  BY Zenon
<1>9. w' = [w EXCEPT ![c].at = at]
  BY Zenon DEF Goto
<1> HIDE DEF at
<1>10. Leaving(x, k, at)
  BY <1>3, <1>4, <1>5, <1>6, <1>7, <1>8, Zenon DEF Leaving, Live
<1>11. PKept(p, p') /\ at \in Places /\ at # "overflow" /\ w[c].at # "overflow"
  BY <1>1, <1>8, PkRefl, Zenon DEF Places
<1> QED
  BY <1>2, <1>3, <1>5, <1>6, <1>9, <1>10, <1>11, ConnStepKeeps, Zenon

\* The end of pconnection_process keeps the invariant.
LEMMA CheckKeeps ==
  ASSUME IInv, NEW c \in Conns, pconnection_check(c)
  PROVE  IInv'
<1> DEFINE a == [S EXCEPT !.tsk[c].working = FALSE, !.tsk[c].closing = @ \/ finished(c)]
           x == [tsk[c] EXCEPT !.working = FALSE, !.closing = tsk[c].closing \/ finished(c)]
<1>1. /\ tsk \in [Tasks -> TskType] /\ tsk[c] \in TskType /\ con[c] \in ConType
      /\ con \in [Conns -> ConType] /\ c \in Tasks /\ p \in PType /\ Types
  BY NullIsNoTask DEF IInv, Types
<1>2. a.tsk = [tsk EXCEPT ![c] = x] /\ a.p = p /\ a.acc = acc /\ a.lst = lst
  BY <1>1, Zenon DEF S
<1>3. a.tsk[c] = x
  BY <1>1, <1>2, Zenon
<1>4. w[c].at = "check" /\ UNCHANGED <<d, ok>>
  BY Zenon DEF pconnection_check
<1>5. CASE con[c].queued
  <2>1. UNCHANGED <<tsk, lst, acc, con, p>> /\ w' = [w EXCEPT ![c].at = "retry"]
    BY <1>5 DEF pconnection_check, Goto
  <2>2. Live(c)
    BY <1>1, <1>4, WorkIsForLive DEF IInv
  <2>3. Leaving(tsk[c], con[c], "retry")
    BY <1>4, <2>2, Zenon DEF IInv, ConnsInv, Leaving, Live
  <2>4. tsk' = [tsk EXCEPT ![c] = tsk[c]] /\ con' = [con EXCEPT ![c] = con[c]] /\ PKept(p, p')
    BY <1>1, <2>1, PkRefl
  <2>5. "retry" \in Places /\ w[c].at # "overflow"
    BY <1>4 DEF Places
  <2> QED
    BY <1>1, <1>4, <2>1, <2>2, <2>3, <2>4, <2>5, ConnStepKeeps, Zenon
<1>6. CASE ~con[c].queued
  <2>1. /\ Become(a)
        /\ Goto(c, IF a.tsk[c].closing /\ pconnection_is_final(a, c) THEN "cleanup" ELSE "idle")
        /\ IF ~tsk[c].closing /\ finished(c) THEN begin_close(c)
           ELSE con' = [con EXCEPT ![c].arm = @ \/ ~con[c].closed]
    BY <1>6, Zenon DEF pconnection_check
  <2> HIDE DEF a, x
  <2>2. Goto(c, IF x.closing /\ ~con[c].arm /\ ~x.ready THEN "cleanup" ELSE "idle")
    BY <1>3, <2>1 DEF pconnection_is_final
  <2>3. tsk' = [tsk EXCEPT ![c] = x] /\ UNCHANGED <<lst, acc, p>>
    BY <1>2, <2>1 DEF Become
  <2>4. x = [tsk[c] EXCEPT !.working = FALSE, !.closing = tsk[c].closing \/ finished(c)]
    BY DEF x
  <2> QED
    BY <1>4, <2>1, <2>2, <2>3, <2>4, FinishKeeps, Zenon
<1> QED
  BY <1>5, <1>6

\* So does taking the events of the batch.
LEMMA BatchNextKeeps ==
  ASSUME IInv, NEW c \in Conns, pconnection_batch_next(c)
  PROVE  IInv'
<1> DEFINE k == [con[c] EXCEPT !.events = FALSE, !.reported = con[c].closed]
<1>1. /\ tsk \in [Tasks -> TskType] /\ tsk[c] \in TskType /\ con[c] \in ConType
      /\ con \in [Conns -> ConType] /\ c \in Tasks /\ p \in PType /\ Types
  BY NullIsNoTask DEF IInv, Types
<1>2. /\ w[c].at = "batch" /\ con' = [con EXCEPT ![c] = k]
      /\ UNCHANGED <<tsk, w, lst, acc, p, d, ok>>
  BY <1>1, Zenon DEF pconnection_batch_next
<1>3. k \in ConType /\ k.closed = con[c].closed /\ k.arm = con[c].arm
  BY <1>1, Zenon DEF ConType
<1> HIDE DEF k
<1>4. Live(c)
  BY <1>1, <1>2, WorkIsForLive DEF IInv
<1>5. Leaving(tsk[c], k, "batch")
  BY <1>2, <1>3, <1>4, Zenon DEF IInv, ConnsInv, Leaving, Live
<1>6. tsk' = [tsk EXCEPT ![c] = tsk[c]] /\ PKept(p, p')
  BY <1>1, <1>2, PkRefl
<1>7. w' = [w EXCEPT ![c].at = "batch"]
  BY <1>1, <1>2, WSame
<1>8. "batch" \in Places /\ w[c].at # "overflow"
  BY <1>2 DEF Places
<1> QED
  BY <1>1, <1>2, <1>3, <1>4, <1>5, <1>6, <1>7, <1>8, ConnStepKeeps, Zenon

\* What schedule does to a task.
LEMMA ScheduledIs ==
  ASSUME NEW x \in TskType
  PROVE  LET y == Scheduled(x)
         IN  /\ y \in TskType /\ y.ready = (x.ready \/ ~x.working)
             /\ y.state = x.state /\ y.working = x.working /\ y.closing = x.closing
             /\ y.disconnecting = x.disconnecting /\ y.disconnect_ops = x.disconnect_ops
<1> DEFINE r == x.ready \/ ~x.working
<1>1. r \in BOOLEAN
  BY DEF TskType
<1>2. Scheduled(x) = [x EXCEPT !.ready = r]
  BY DEF Scheduled
<1> HIDE DEF r
<1>3. /\ Scheduled(x) \in TskType /\ Scheduled(x).ready = r
      /\ Scheduled(x).state = x.state /\ Scheduled(x).working = x.working
      /\ Scheduled(x).closing = x.closing /\ Scheduled(x).disconnecting = x.disconnecting
      /\ Scheduled(x).disconnect_ops = x.disconnect_ops
  BY <1>1, <1>2, Zenon DEF TskType
<1> QED
  BY <1>3 DEF r

\* pconnection_done keeps the invariant.
LEMMA DoneKeeps ==
  ASSUME IInv, NEW c \in Conns, pconnection_done(c)
  PROVE  IInv'
<1> DEFINE a == [S EXCEPT !.tsk[c].working = FALSE]
           b == [a EXCEPT !.tsk[c].closing = @ \/ finished(c)]
           y == [tsk[c] EXCEPT !.working = FALSE]
           cl == tsk[c].closing \/ finished(c)
           x == [tsk[c] EXCEPT !.working = FALSE, !.closing = cl]
<1>1. /\ tsk \in [Tasks -> TskType] /\ tsk[c] \in TskType /\ con[c] \in ConType
      /\ con \in [Conns -> ConType] /\ c \in Tasks /\ p \in PType /\ Types
      /\ acc \in [Acceptors -> AccType] /\ lst \in LstType
  BY NullIsNoTask DEF IInv, Types
<1>2. a.tsk = [tsk EXCEPT ![c] = y] /\ a.p = p /\ a.acc = acc /\ a.lst = lst
  BY <1>1 DEF S
<1>3. /\ y \in TskType /\ y.closing = tsk[c].closing /\ y.ready = tsk[c].ready
      /\ y.state = tsk[c].state /\ y.disconnecting = tsk[c].disconnecting
      /\ y.disconnect_ops = tsk[c].disconnect_ops
  BY <1>1, Zenon DEF TskType
<1>4. /\ w[c].at = "batch" /\ UNCHANGED <<d, ok>>
      /\ IF con[c].queued
         THEN /\ Become(schedule(a, c)) /\ Goto(c, "idle")
              /\ con' = [con EXCEPT ![c].arm = @ \/ ~con[c].closed]
         ELSE /\ Become(b)
              /\ Goto(c, IF b.tsk[c].closing /\ pconnection_is_final(b, c)
                         THEN "cleanup" ELSE "idle")
              /\ IF ~tsk[c].closing /\ finished(c) THEN begin_close(c)
                 ELSE con' = [con EXCEPT ![c].arm = @ \/ ~con[c].closed]
  BY Zenon DEF pconnection_done
<1>5. CASE con[c].queued
  <2> DEFINE r == con[c].arm \/ ~con[c].closed
             k == [con[c] EXCEPT !.arm = r]
             z == Scheduled(y)
             e == schedule(a, c)
  <2>1. a \in SType
    BY <1>1, <1>3, Zenon DEF S, SType
  <2>2. e.acc = acc /\ e.lst = lst /\ PKept(p, e.p) /\ e.tsk = [a.tsk EXCEPT ![c] = Scheduled(a.tsk[c])]
    BY <1>1, <1>2, <2>1, ScheduleIs, Zenon
  <2> HIDE DEF y, a
  <2>3. a.tsk[c] = y /\ e.tsk = [tsk EXCEPT ![c] = z]
    BY <1>1, <1>2, <2>2, Zenon
  <2>4. /\ z \in TskType /\ z.state = tsk[c].state /\ z.closing = tsk[c].closing
        /\ z.disconnecting = tsk[c].disconnecting /\ z.disconnect_ops = tsk[c].disconnect_ops
    BY <1>3, ScheduledIs, Zenon
  <2>5. r \in BOOLEAN
    BY <1>1 DEF ConType
  <2>6. k \in ConType /\ k.closed = con[c].closed
    <3> HIDE DEF r
    <3> QED
      BY <1>1, <2>5, Zenon DEF ConType
  <2>7. con' = [con EXCEPT ![c] = k]
    BY <1>1, <1>4, <1>5
  <2> HIDE DEF k, z, e
  <2>8. /\ tsk' = [tsk EXCEPT ![c] = z] /\ PKept(p, p') /\ UNCHANGED <<lst, acc>>
        /\ w' = [w EXCEPT ![c].at = "idle"]
    BY <1>4, <1>5, <2>2, <2>3, Zenon DEF Become, Goto, e
  <2>9. Live(c)
    BY <1>1, <1>4, WorkIsForLive, Zenon DEF IInv
  <2>10. Leaving(z, k, "idle")
    BY <1>4, <2>4, <2>6, <2>9, Zenon DEF IInv, ConnsInv, Leaving, Live
  <2>11. "idle" \in Places /\ w[c].at # "overflow"
    BY <1>4, Zenon DEF Places
  <2> QED
    BY <1>4, <2>4, <2>6, <2>7, <2>8, <2>9, <2>10, <2>11, ConnStepKeeps, Zenon
<1>6. CASE ~con[c].queued
  <2>1. x = [y EXCEPT !.closing = cl]
    BY <1>1 DEF TskType
  <2> HIDE DEF cl, y, a
  <2>2. a.tsk[c] = y
    BY <1>1, <1>2
  <2>3. b = [a EXCEPT !.tsk[c].closing = cl]
    BY <1>3, <2>2, Zenon DEF cl
  <2>4. b.tsk = [tsk EXCEPT ![c] = x] /\ b.p = p /\ b.acc = acc /\ b.lst = lst
    <3>1. a \in SType
      BY <1>1, <1>3, Zenon DEF S, SType, a, y
    <3>2. b.tsk = [a.tsk EXCEPT ![c] = x] /\ b.p = p /\ b.acc = acc /\ b.lst = lst
      BY <1>1, <1>2, <2>1, <2>2, <2>3, <3>1, ZenonT(40) DEF SType
    <3>3. [a.tsk EXCEPT ![c] = x] = [tsk EXCEPT ![c] = x]
      BY <1>1, <1>2, Zenon
    <3> QED
      BY <3>2, <3>3, Zenon
  <2> HIDE DEF b, x
  <2>5. b.tsk[c] = x
    BY <1>1, <2>4
  <2>6. Goto(c, IF x.closing /\ ~con[c].arm /\ ~x.ready THEN "cleanup" ELSE "idle")
    BY <1>4, <1>6, <2>5, Zenon DEF pconnection_is_final
  <2>7. tsk' = [tsk EXCEPT ![c] = x] /\ UNCHANGED <<lst, acc, p>>
    BY <1>4, <1>6, <2>4, Zenon DEF Become
  <2>8. x = [tsk[c] EXCEPT !.working = FALSE, !.closing = tsk[c].closing \/ finished(c)]
    BY DEF x, cl
  <2>9. IF ~tsk[c].closing /\ finished(c) THEN begin_close(c)
        ELSE con' = [con EXCEPT ![c].arm = @ \/ ~con[c].closed]
    BY <1>4, <1>6, Zenon
  <2> QED
    BY <1>4, <2>6, <2>7, <2>8, <2>9, FinishKeeps, Zenon
<1> QED
  BY <1>5, <1>6
=============================================================================

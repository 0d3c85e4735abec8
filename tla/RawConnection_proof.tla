------------------------ MODULE RawConnection_proof ------------------------
(***************************************************************************)
(* Theorems about RawConnection, for any number of buffer slots: no wrong  *)
(* transition, exact counts of buffers, and what DISCONNECTED promises.    *)
(*                                                                         *)
(* The inductive invariant IInv says that the connection is Good, which is *)
(* about the record rc alone, and that the application has been Told what  *)
(* it should know.  A Good connection is either Open or Finished: the      *)
(* state rs_ws, and a draining state with nothing to drain, exist only     *)
(* inside a function, between two of its transitions.  Each function is    *)
(* shown to take a Good record to a Good one (the lemmas ...Keeps), and    *)
(* the actions are then one step each.                                     *)
(*                                                                         *)
(* The theorems assume WellUsed: none of the uses that the switches of     *)
(* RawConnection allow, each of which TLC refutes a property with.         *)
(***************************************************************************)
EXTENDS RawConnection, TLAPS

\* The states that wait for the writes to drain.
Draining == {"ro_wd", "rc_wd", "rs_wd"}

\* The counts of slots in use are the lengths of the lists.
Counted(c) ==
  /\ c.rcount = c.unused + c.rread
  /\ c.wcount = c.towrite + c.written

\* Nothing changes in the lists.
SameBuffers(c, d) ==
  /\ d.rcount = c.rcount /\ d.unused = c.unused /\ d.rread = c.rread
  /\ d.wcount = c.wcount /\ d.towrite = c.towrite /\ d.written = c.written

\* Nothing changes in the disconnect state and the collector.
SameEnd(c, d) ==
  /\ d.disc = c.disc /\ d.disconnectpending = c.disconnectpending /\ d.ev = c.ev

\* What holds between the transitions of one call, before the disconnect.
Loose(c) ==
  /\ c \in RawType /\ Counted(c)
  /\ c.state \in States \ {"fini"}
  /\ c.state = "init" => c.towrite = 0
  /\ c.disc = "init" /\ ~c.disconnectpending

\* A connection that has not been disconnected.
Open(c) ==
  /\ Loose(c)
  /\ c.state \in Draining => c.towrite > 0

\* A disconnected one: all buffers are back on the lists of the application.
Finished(c) ==
  /\ c \in RawType /\ Counted(c)
  /\ c.state = "fini" /\ c.unused = 0 /\ c.towrite = 0
  /\ c.disconnectpending \/ c.disc = "fini"
  /\ c.disc = "fini" => c.pend = {} /\ ~c.disconnectpending

\* What holds between calls.
Good(c) == (Open(c) /\ c.state # "rs_ws") \/ Finished(c)

\* From c to d no event is lost, CONNECTED is not invented, and whichever side has
\* been closed is reported so; and nothing goes back to init.  The collector is left
\* alone.
Reports(c, d) ==
  /\ c.pend \subseteq d.pend
  /\ "CONNECTED" \in d.pend => "CONNECTED" \in c.pend
  /\ pni_raw_rclosed(d) => pni_raw_rclosed(c) \/ "CLOSED_READ" \in d.pend
  /\ pni_raw_wclosed(d) => pni_raw_wclosed(c) \/ "CLOSED_WRITE" \in d.pend
  /\ c.state # "init" => d.state # "init"
  /\ d.ev = c.ev

\* The rows of state_transitions that the calls on the read side use.
LEMMA ReadTable ==
  /\ NewState("init", conn_connected) = "ro_wo"
  /\ \A s \in {"init", "ro_wo"} : NewState(s, api_read_close) = "rc_wo"
  /\ NewState("ro_wd", api_read_close) = "rc_wd"
  /\ \A s \in {"ro_wc", "ro_ws"} : NewState(s, api_read_close) = "rs_ws"
  /\ \A s \in {"rc_wo", "rc_wd", "rs_wo", "rs_wd"} : NewState(s, api_read_close) = s
  /\ NewState("ro_wo", conn_read_closed) = "rc_wo"
  /\ NewState("ro_wd", conn_read_closed) = "rc_wd"
  /\ \A s \in {"ro_wc", "ro_ws"} : NewState(s, conn_read_closed) = "rs_ws"
  /\ NewState("rc_wo", int_read_shutdown) = "rs_wo"
  /\ NewState("rc_wd", int_read_shutdown) = "rs_wd"
  BY DEF NewState, state_transitions, W, Self, conn_connected, api_read_close,
         conn_read_closed, int_read_shutdown

\* The rows of state_transitions that the calls on the write side use, and the
\* disconnect.
LEMMA WriteTable ==
  /\ \A s \in {"ro_wo", "ro_wd"} : NewState(s, api_write_close) = "ro_wd"
  /\ \A s \in {"rc_wo", "rc_wd"} : NewState(s, api_write_close) = "rc_wd"
  /\ \A s \in {"rs_wo", "rs_wd"} : NewState(s, api_write_close) = "rs_wd"
  /\ \A s \in {"ro_wo", "rc_wo", "rs_wo"} : NewState(s, conn_write_drained) = s
  /\ NewState("ro_wd", conn_write_drained) = "ro_wc"
  /\ \A s \in {"rc_wd", "rs_wd"} : NewState(s, conn_write_drained) = "rs_ws"
  /\ \A s \in {"ro_wo", "ro_wd"} : NewState(s, conn_write_closed) = "ro_wc"
  /\ \A s \in {"rc_wo", "rc_wd", "rs_wo", "rs_wd"} :
       NewState(s, conn_write_closed) = "rs_ws"
  /\ NewState("ro_wc", int_write_shutdown) = "ro_ws"
  /\ \A s \in {"rs_ws", "fini"} : NewState(s, int_disconnect) = "fini"
  BY DEF NewState, state_transitions, W, Self, api_write_close, conn_write_drained,
         conn_write_closed, int_write_shutdown, int_disconnect

\* pni_raw_new_state changes the state, to what the table says, and no more.
LEMMA NewStateIs ==
  ASSUME NEW c \in RawType, NEW e, NewState(c.state, e) \in States
  PROVE  LET d == pni_raw_new_state(c, e)
         IN  /\ d \in RawType /\ d.state = NewState(c.state, e) /\ d.pend = c.pend
             /\ SameBuffers(c, d) /\ SameEnd(c, d)
  BY DEF pni_raw_new_state, RawType, SameBuffers, SameEnd

\* Setting pending booleans changes nothing else.
LEMMA PendIs ==
  ASSUME NEW c \in RawType, NEW E \in SUBSET Pending
  PROVE  LET d == Pend(c, E)
         IN  /\ d \in RawType /\ d.state = c.state /\ d.pend = c.pend \cup E
             /\ SameBuffers(c, d) /\ SameEnd(c, d)
  BY DEF Pend, RawType, SameBuffers, SameEnd

\* pni_raw_release_buffers gives every buffer back and keeps the counts exact.
LEMMA ReleaseIs ==
  ASSUME NEW c \in RawType, Counted(c)
  PROVE  LET d == pni_raw_release_buffers(c)
         IN  /\ d \in RawType /\ Counted(d) /\ d.state = c.state /\ d.pend = c.pend
             /\ d.unused = 0 /\ d.towrite = 0 /\ SameEnd(c, d)
<1>1. /\ c.rread + c.unused \in 0..read_buffer_count
      /\ c.written + c.towrite \in 0..write_buffer_count
      /\ 0 \in 0..read_buffer_count /\ 0 \in 0..write_buffer_count
  BY RawBounds DEF RawType, Counted
<1>2. pni_raw_release_buffers(c) \in RawType
  BY <1>1, Zenon DEF RawType, pni_raw_release_buffers
<1> QED
  BY <1>1, <1>2 DEF RawType, pni_raw_release_buffers, SameEnd, Counted

\* pni_raw_disconnect finishes a connection that is closed on both sides, and
\* loses no event.
LEMMA DisconnectIs ==
  ASSUME NEW c \in RawType, Counted(c), c.state \in {"rs_ws", "fini"}
  PROVE  LET d == pni_raw_disconnect(c)
         IN  Finished(d) /\ d.pend = c.pend /\ d.disc = "init" /\ d.ev = c.ev
<1> DEFINE r == pni_raw_release_buffers(c)
           f == [r EXCEPT !.disconnectpending = TRUE, !.disc = "init"]
<1>1. /\ r \in RawType /\ Counted(r) /\ r.state = c.state /\ r.pend = c.pend
      /\ r.unused = 0 /\ r.towrite = 0 /\ r.ev = c.ev
  BY ReleaseIs DEF SameEnd
<1> HIDE DEF r
<1>2. /\ f \in RawType /\ Counted(f) /\ f.state = c.state /\ f.pend = c.pend
      /\ f.unused = 0 /\ f.towrite = 0 /\ f.ev = c.ev
      /\ f.disconnectpending = TRUE /\ f.disc = "init"
  BY <1>1, Zenon DEF RawType, Counted
<1> HIDE DEF f
<1>3. NewState(f.state, int_disconnect) = "fini"
  BY <1>2, WriteTable
<1>4. "fini" \in States
  BY DEF States
<1>5. pni_raw_disconnect(c) = pni_raw_new_state(f, int_disconnect)
  BY DEF pni_raw_disconnect, f, r
<1> QED
  BY <1>2, <1>3, <1>4, <1>5, NewStateIs DEF Finished, Counted, SameBuffers, SameEnd

\* The check that ends each of the closing functions leaves a Good connection.
LEMMA DisconnectIfClosedIs ==
  ASSUME NEW c, Open(c)
  PROVE  LET d == DisconnectIfClosed(c)
         IN  /\ Good(d) /\ Reports(c, d) /\ d.disc = "init"
             /\ c.state = "rs_ws" => d.state = "fini"
<1>1. CASE c.state = "rs_ws"
  <2>1. DisconnectIfClosed(c) = pni_raw_disconnect(c)
    BY <1>1 DEF DisconnectIfClosed, pni_raw_rwclosed
  <2> QED
    BY <1>1, <2>1, DisconnectIs
       DEF Open, Loose, Good, Finished, Reports, SameEnd, pni_raw_rclosed, pni_raw_wclosed
<1>2. CASE c.state # "rs_ws"
  <2>1. DisconnectIfClosed(c) = c
    BY <1>2 DEF DisconnectIfClosed, pni_raw_rwclosed, Open, Loose
  <2> QED
    BY <1>2, <2>1 DEF Open, Loose, Good, Reports, SameEnd
<1> QED
  BY <1>1, <1>2

\* The read half of pni_raw_close closes the read side, reports it, and leaves the
\* buffers to be written alone.
LEMMA CloseReadIs ==
  ASSUME NEW c, Loose(c), c.state # "rs_ws"
  PROVE  LET d == CloseRead(c)
         IN  /\ Loose(d)
             /\ Open(c) => Open(d)
             /\ Reports(c, d) /\ d.state # "init"
             /\ d.towrite = c.towrite /\ pni_raw_rclosed(d)
<1> DEFINE q == IF pni_raw_rclosed(c) THEN c ELSE Pend(c, {"CLOSED_READ"})
           d == CloseRead(c)
<1>1. /\ q \in RawType /\ q.state = c.state /\ SameBuffers(c, q) /\ SameEnd(c, q)
      /\ q.pend = IF pni_raw_rclosed(c) THEN c.pend ELSE c.pend \cup {"CLOSED_READ"}
  <2>1. {"CLOSED_READ"} \in SUBSET Pending
    BY DEF Pending, PendingOrder
  <2> QED
    BY <2>1, PendIs, Zenon DEF Open, Loose, SameBuffers, SameEnd
<1> HIDE DEF q
<1>2. c.state \in {"init", "ro_wo", "ro_wd", "ro_wc", "ro_ws", "rc_wo", "rc_wd",
                   "rs_wo", "rs_wd"}
  BY DEF Open, Loose, States
<1>3. /\ NewState(c.state, api_read_close)
           \in {"rc_wo", "rc_wd", "rs_ws", "rs_wo", "rs_wd"}
      /\ NewState(c.state, api_read_close) \in Draining => c.state \in Draining
      /\ NewState(c.state, api_read_close) \in Draining \cup {"rs_ws"} =>
           pni_raw_wclosed(c)
  BY <1>2, ReadTable DEF Draining, pni_raw_wclosed
<1>4. d = pni_raw_new_state(q, api_read_close)
  BY DEF d, q, CloseRead
<1>5. /\ d \in RawType /\ d.state = NewState(c.state, api_read_close)
      /\ d.pend = q.pend /\ SameBuffers(q, d) /\ SameEnd(q, d)
  BY <1>1, <1>3, <1>4, NewStateIs DEF States
<1> HIDE DEF d
<1>6. /\ Loose(d)
      /\ Open(c) => Open(d)
      /\ d.state # "init" /\ d.towrite = c.towrite /\ pni_raw_rclosed(d)
  BY <1>1, <1>3, <1>5
     DEF Open, Loose, Counted, SameBuffers, SameEnd, States, pni_raw_rclosed
<1>7. Reports(c, d)
  BY <1>1, <1>3, <1>5 DEF Reports, SameEnd, pni_raw_wclosed, pni_raw_rclosed, Draining
<1> QED
  BY <1>6, <1>7 DEF d

\* The write half of pni_raw_close leaves a draining state only when there is
\* something to drain.
LEMMA CloseWriteIs ==
  ASSUME NEW c, Loose(c), c.state # "init"
  PROVE  LET d == CloseWrite(c)
         IN  /\ Open(d) /\ Reports(c, d) /\ d.state # "init"
             /\ c.towrite = 0 /\ pni_raw_rclosed(c) => d.state = "rs_ws"
<1>1. CASE pni_raw_wdrained(c)
  BY <1>1, Zenon DEF CloseWrite, Reports, SameEnd, pni_raw_wdrained, pni_raw_rclosed, Open, Loose,
              Draining
<1>2. CASE ~pni_raw_wdrained(c)
  <2> DEFINE q == IF pni_raw_wclosed(c) THEN c ELSE Pend(c, {"CLOSED_WRITE"})
             k == pni_raw_new_state(q, api_write_close)
             d == CloseWrite(c)
  <2>1. /\ q \in RawType /\ q.state = c.state /\ SameBuffers(c, q) /\ SameEnd(c, q)
        /\ q.pend = IF pni_raw_wclosed(c) THEN c.pend ELSE c.pend \cup {"CLOSED_WRITE"}
    <3>1. {"CLOSED_WRITE"} \in SUBSET Pending
      BY DEF Pending, PendingOrder
    <3> QED
      BY <3>1, PendIs, Zenon DEF Open, Loose, SameBuffers, SameEnd
  <2> HIDE DEF q
  <2>2. c.state \in {"ro_wo", "ro_wd", "rc_wo", "rc_wd", "rs_wo", "rs_wd"}
    BY <1>2 DEF Open, Loose, States, pni_raw_wdrained
  <2>3. /\ NewState(c.state, api_write_close) \in Draining
        /\ NewState(c.state, api_write_close) = "ro_wd" <=> ~pni_raw_rclosed(c)
    BY <2>2, WriteTable DEF Draining, pni_raw_rclosed
  <2>4. /\ k \in RawType /\ k.state = NewState(c.state, api_write_close)
        /\ k.pend = q.pend /\ SameBuffers(q, k) /\ SameEnd(q, k)
    BY <2>1, <2>3, NewStateIs DEF Draining, States
  <2>5. d = IF k.towrite = 0 THEN pni_raw_new_state(k, conn_write_drained) ELSE k
    BY <1>2 DEF d, k, q, CloseWrite
  <2> HIDE DEF k, d
  <2>6. CASE k.towrite = 0
    <3>1. /\ NewState(k.state, conn_write_drained)
               = IF pni_raw_rclosed(c) THEN "rs_ws" ELSE "ro_wc"
      BY <2>3, <2>4, WriteTable DEF Draining
    <3>2. /\ d \in RawType /\ d.state = IF pni_raw_rclosed(c) THEN "rs_ws" ELSE "ro_wc"
          /\ d.pend = k.pend /\ SameBuffers(k, d) /\ SameEnd(k, d)
      BY <2>4, <2>5, <2>6, <3>1, NewStateIs DEF States
    <3>3. Open(d)
      BY <2>1, <2>4, <3>2 DEF Open, Loose, Counted, SameBuffers, SameEnd, States, Draining
    <3>4. Reports(c, d)
      BY <2>1, <2>4, <3>2 DEF Reports, SameEnd, pni_raw_rclosed, pni_raw_wclosed
    <3> QED
      BY <3>2, <3>3, <3>4 DEF d
  <2>7. CASE k.towrite # 0
    <3>1. Open(d)
      BY <2>1, <2>3, <2>4, <2>5, <2>7
         DEF Open, Loose, Counted, RawType, SameBuffers, SameEnd, States, Draining
    <3>2. Reports(c, d)
      BY <2>1, <2>3, <2>4, <2>5, <2>7
         DEF Reports, SameEnd, pni_raw_rclosed, pni_raw_wclosed, Draining
    <3>3. d.state # "init" /\ c.towrite # 0
      BY <2>1, <2>3, <2>4, <2>5, <2>7 DEF Draining, SameBuffers
    <3> QED
      BY <3>1, <3>2, <3>3 DEF d
  <2> QED
    BY <2>6, <2>7
<1> QED
  BY <1>1, <1>2

\* Reports composes, so that a function reports what its parts report.
LEMMA ReportsTransitive ==
  ASSUME NEW c, NEW d, NEW e, Reports(c, d), Reports(d, e)
  PROVE  Reports(c, e)
  BY DEF Reports, SameEnd

\* What each call does with a Good connection.
Keeps(c, d) ==
  /\ Good(d) /\ Reports(c, d) /\ d.disc = c.disc
  /\ c.disc # "init" => d.rread + d.written <= c.rread + c.written

\* A Good connection is closed on both sides exactly when it is Finished.
LEMMA GoodClosed ==
  ASSUME NEW c, Good(c)
  PROVE  /\ c \in RawType
         /\ pni_raw_rwclosed(c) <=> Finished(c)
         /\ ~pni_raw_rwclosed(c) => Open(c) /\ c.state # "rs_ws" /\ c.disc = "init"
  BY DEF Good, Open, Loose, Finished, pni_raw_rwclosed

\* A call that returns early keeps a Good connection.
LEMMA NothingKeeps ==
  ASSUME NEW c, Good(c)
  PROVE  Keeps(c, c)
  BY GoodClosed DEF Keeps, Reports, RawType

\* pni_raw_read_close keeps a Good connection.
LEMMA ReadCloseKeeps ==
  ASSUME NEW c, Good(c)
  PROVE  Keeps(c, pni_raw_read_close(c))
<1>1. CASE pni_raw_rwclosed(c)
  BY <1>1, NothingKeeps DEF pni_raw_read_close
<1>2. CASE ~pni_raw_rwclosed(c)
  <2> DEFINE r == CloseRead(c)
  <2>1. Open(c) /\ c.state # "rs_ws" /\ c.disc = "init"
    BY <1>2, GoodClosed
  <2>2. Open(r) /\ Reports(c, r)
    BY <2>1, CloseReadIs DEF Open
  <2>3. pni_raw_read_close(c) = DisconnectIfClosed(r)
    BY <1>2 DEF pni_raw_read_close
  <2> HIDE DEF r
  <2> QED
    BY <2>1, <2>2, <2>3, DisconnectIfClosedIs, ReportsTransitive DEF Keeps
<1> QED
  BY <1>1, <1>2

\* pni_raw_write_close keeps a Good connection, once it is connected.
LEMMA WriteCloseKeeps ==
  ASSUME NEW c, Good(c), c.state # "init"
  PROVE  Keeps(c, pni_raw_write_close(c))
<1>1. CASE pni_raw_rwclosed(c)
  BY <1>1, NothingKeeps DEF pni_raw_write_close
<1>2. CASE ~pni_raw_rwclosed(c)
  <2> DEFINE w == CloseWrite(c)
  <2>1. Open(c) /\ c.state # "rs_ws" /\ c.disc = "init"
    BY <1>2, GoodClosed
  <2>2. Open(w) /\ Reports(c, w)
    BY <2>1, CloseWriteIs DEF Open
  <2>3. pni_raw_write_close(c) = DisconnectIfClosed(w)
    BY <1>2 DEF pni_raw_write_close
  <2> HIDE DEF w
  <2> QED
    BY <2>1, <2>2, <2>3, DisconnectIfClosedIs, ReportsTransitive DEF Keeps
<1> QED
  BY <1>1, <1>2

\* pni_raw_close, which an I/O error may call between two transitions, makes a Good
\* connection, and ends one that was never connected.
LEMMA CloseIs ==
  ASSUME NEW c, Loose(c), c.state # "rs_ws"
  PROVE  LET d == pni_raw_close(c)
         IN  /\ Good(d) /\ Reports(c, d) /\ d.disc = "init"
             /\ c.state = "init" => d.state = "fini"
<1> DEFINE r == CloseRead(c)
           w == CloseWrite(r)
<1>1. /\ Loose(r) /\ Reports(c, r) /\ r.state # "init"
      /\ r.towrite = c.towrite /\ pni_raw_rclosed(r)
  BY CloseReadIs
<1>2. pni_raw_close(c) = DisconnectIfClosed(w)
  BY DEF pni_raw_close, pni_raw_rwclosed, Loose
<1> HIDE DEF r
<1>3. /\ Open(w) /\ Reports(r, w)
      /\ r.towrite = 0 => w.state = "rs_ws"
  BY <1>1, CloseWriteIs
<1>4. c.state = "init" => c.towrite = 0
  BY DEF Loose
<1> HIDE DEF w
<1>5. Reports(c, w)
  BY <1>1, <1>3, ReportsTransitive
<1> QED
  BY <1>1, <1>2, <1>3, <1>4, <1>5, DisconnectIfClosedIs, ReportsTransitive

\* pni_raw_close keeps a Good connection.
LEMMA CloseKeeps ==
  ASSUME NEW c, Good(c)
  PROVE  /\ Keeps(c, pni_raw_close(c))
         /\ c.state = "init" => pni_raw_close(c).state = "fini"
<1>1. CASE pni_raw_rwclosed(c)
  BY <1>1, NothingKeeps DEF pni_raw_close, pni_raw_rwclosed
<1>2. CASE ~pni_raw_rwclosed(c)
  <2>1. Loose(c) /\ c.state # "rs_ws" /\ c.disc = "init"
    BY <1>2, GoodClosed DEF Open
  <2> QED
    BY <2>1, CloseIs DEF Keeps
<1> QED
  BY <1>1, <1>2

\* pn_raw_connection_give_read_buffers, within the capacity, keeps a Good connection.
LEMMA GiveReadKeeps ==
  ASSUME NEW c, Good(c), NEW n \in 1..pn_raw_connection_read_buffers_capacity(c)
  PROVE  /\ Keeps(c, pn_raw_connection_give_read_buffers(c, n))
         /\ pn_raw_connection_give_read_buffers(c, n).state = c.state
<1> DEFINE d == pn_raw_connection_give_read_buffers(c, n)
<1>1. /\ c \in RawType /\ Counted(c) /\ n \in Nat
      /\ n <= read_buffer_count - c.rcount /\ ~pni_raw_rclosed(c)
  BY RawBounds DEF Good, Open, Loose, Finished, RawType, pn_raw_connection_read_buffers_capacity
<1>2. Open(c) /\ c.state # "rs_ws"
  BY <1>1, GoodClosed DEF pni_raw_rclosed, pni_raw_rwclosed
<1>3. c.unused + n \in 0..read_buffer_count /\ c.rcount + n \in 0..read_buffer_count
  BY <1>1, RawBounds DEF Counted, RawType
<1>4. /\ d \in RawType /\ d.state = c.state /\ d.pend = c.pend /\ SameEnd(c, d)
      /\ d.unused = c.unused + n /\ d.rcount = c.rcount + n /\ d.rread = c.rread
      /\ d.wcount = c.wcount /\ d.towrite = c.towrite /\ d.written = c.written
  BY <1>1, <1>3, ZenonT(40) DEF RawType, pn_raw_connection_give_read_buffers, SameEnd
<1> HIDE DEF d
<1>5. Open(d)
  BY <1>1, <1>2, <1>4 DEF Open, Loose, Counted, RawType, SameEnd
<1> QED
  BY <1>2, <1>4, <1>5
     DEF d, Good, Keeps, Reports, Open, Loose, SameEnd, pni_raw_rclosed, pni_raw_wclosed

\* pn_raw_connection_take_read_buffers keeps a Good connection.
LEMMA TakeReadKeeps ==
  ASSUME NEW c, Good(c), NEW n \in 1..c.rread
  PROVE  /\ Keeps(c, pn_raw_connection_take_read_buffers(c, n))
         /\ pn_raw_connection_take_read_buffers(c, n).state = c.state
<1> DEFINE d == pn_raw_connection_take_read_buffers(c, n)
<1>1. c \in RawType /\ Counted(c) /\ n \in Nat /\ n <= c.rread
  BY DEF Good, Open, Loose, Finished, RawType
<1>2. c.rread - n \in 0..read_buffer_count /\ c.rcount - n \in 0..read_buffer_count
  BY <1>1, RawBounds DEF Counted, RawType
<1>3. /\ d \in RawType /\ d.state = c.state /\ d.pend = c.pend /\ SameEnd(c, d)
      /\ d.rread = c.rread - n /\ d.rcount = c.rcount - n /\ d.unused = c.unused
      /\ d.wcount = c.wcount /\ d.towrite = c.towrite /\ d.written = c.written
  BY <1>1, <1>2, Zenon DEF RawType, pn_raw_connection_take_read_buffers, SameEnd
<1> HIDE DEF d
<1>4. Counted(d) /\ d.rread + d.written <= c.rread + c.written
  BY <1>1, <1>3 DEF Counted, RawType
<1>5. Good(d)
  BY <1>3, <1>4 DEF Good, Open, Loose, Finished, SameEnd
<1> QED
  BY <1>3, <1>4, <1>5 DEF d, Keeps, Reports, SameEnd, pni_raw_rclosed, pni_raw_wclosed

\* pn_raw_connection_write_buffers, within the capacity and after CONNECTED, keeps
\* a Good connection.
LEMMA WriteBuffersKeeps ==
  ASSUME NEW c, Good(c), c.state # "init",
         NEW n \in 1..pn_raw_connection_write_buffers_capacity(c)
  PROVE  /\ Keeps(c, pn_raw_connection_write_buffers(c, n))
         /\ pn_raw_connection_write_buffers(c, n).state = c.state
<1> DEFINE d == pn_raw_connection_write_buffers(c, n)
<1>1. /\ c \in RawType /\ Counted(c) /\ n \in Nat
      /\ n <= write_buffer_count - c.wcount /\ ~pni_raw_wclosed(c)
  BY RawBounds DEF Good, Open, Loose, Finished, RawType, pn_raw_connection_write_buffers_capacity
<1>2. Open(c) /\ c.state # "rs_ws"
  BY <1>1, GoodClosed DEF pni_raw_wclosed, pni_raw_rwclosed
<1>3. c.towrite + n \in 0..write_buffer_count /\ c.wcount + n \in 0..write_buffer_count
  BY <1>1, RawBounds DEF Counted, RawType
<1>4. /\ d \in RawType /\ d.state = c.state /\ d.pend = c.pend /\ SameEnd(c, d)
      /\ d.towrite = c.towrite + n /\ d.wcount = c.wcount + n /\ d.written = c.written
      /\ d.rcount = c.rcount /\ d.unused = c.unused /\ d.rread = c.rread
  BY <1>1, <1>3, Zenon DEF RawType, pn_raw_connection_write_buffers, SameEnd
<1> HIDE DEF d
<1>5. Open(d)
  BY <1>1, <1>2, <1>4 DEF Open, Loose, Counted, RawType, SameEnd
<1> QED
  BY <1>2, <1>4, <1>5
     DEF d, Good, Keeps, Reports, Open, Loose, SameEnd, pni_raw_rclosed, pni_raw_wclosed

\* pn_raw_connection_take_written_buffers keeps a Good connection.
LEMMA TakeWrittenKeeps ==
  ASSUME NEW c, Good(c), NEW n \in 1..c.written
  PROVE  /\ Keeps(c, pn_raw_connection_take_written_buffers(c, n))
         /\ pn_raw_connection_take_written_buffers(c, n).state = c.state
<1> DEFINE d == pn_raw_connection_take_written_buffers(c, n)
<1>1. c \in RawType /\ Counted(c) /\ n \in Nat /\ n <= c.written
  BY DEF Good, Open, Loose, Finished, RawType
<1>2. c.written - n \in 0..write_buffer_count /\ c.wcount - n \in 0..write_buffer_count
  BY <1>1, RawBounds DEF Counted, RawType
<1>3. /\ d \in RawType /\ d.state = c.state /\ d.pend = c.pend /\ SameEnd(c, d)
      /\ d.written = c.written - n /\ d.wcount = c.wcount - n /\ d.towrite = c.towrite
      /\ d.rcount = c.rcount /\ d.unused = c.unused /\ d.rread = c.rread
  BY <1>1, <1>2, Zenon DEF RawType, pn_raw_connection_take_written_buffers, SameEnd
<1> HIDE DEF d
<1>4. Counted(d) /\ d.rread + d.written <= c.rread + c.written
  BY <1>1, <1>3 DEF Counted, RawType
<1>5. Good(d)
  BY <1>3, <1>4 DEF Good, Open, Loose, Finished, SameEnd
<1> QED
  BY <1>3, <1>4, <1>5 DEF d, Keeps, Reports, SameEnd, pni_raw_rclosed, pni_raw_wclosed

\* pni_raw_wake keeps a Good connection, a disconnected one included.
LEMMA WakeKeeps ==
  ASSUME NEW c, Good(c)
  PROVE  Keeps(c, pni_raw_wake(c)) /\ pni_raw_wake(c).state = c.state
<1>1. CASE ~pni_raw_can_wake(c)
  BY <1>1, NothingKeeps DEF pni_raw_wake
<1>2. CASE pni_raw_can_wake(c)
  <2> DEFINE d == Pend(c, {"WAKE"})
  <2>1. {"WAKE"} \in SUBSET Pending /\ c \in RawType
    BY GoodClosed DEF Pending, PendingOrder
  <2>2. /\ d \in RawType /\ d.state = c.state /\ d.pend = c.pend \cup {"WAKE"}
        /\ SameBuffers(c, d) /\ SameEnd(c, d)
    BY <2>1, PendIs
  <2>3. pni_raw_wake(c) = d
    BY <1>2 DEF pni_raw_wake
  <2> HIDE DEF d
  <2>4. Good(d)
    BY <1>2, <2>2 DEF Good, Open, Loose, Finished, Counted, SameBuffers, SameEnd, pni_raw_can_wake
  <2>5. Reports(c, d)
    BY <2>2 DEF Reports, SameEnd, pni_raw_rclosed, pni_raw_wclosed
  <2> QED
    BY <2>1, <2>2, <2>3, <2>4, <2>5 DEF Keeps, SameBuffers, SameEnd, RawType
<1> QED
  BY <1>1, <1>2

\* pni_raw_connected opens a connection.
LEMMA ConnectedIs ==
  ASSUME NEW c, Good(c), c.state = "init"
  PROVE  LET d == pni_raw_connected(c)
         IN  Good(d) /\ d.state = "ro_wo" /\ d.disc = "init" /\ d.ev = c.ev
<1> DEFINE q == Pend(c, {"CONNECTED"})
<1>1. Open(c) /\ c \in RawType /\ {"CONNECTED"} \in SUBSET Pending
  BY DEF Good, Open, Loose, Finished, Pending, PendingOrder
<1>2. q \in RawType /\ q.state = "init" /\ SameBuffers(c, q) /\ SameEnd(c, q)
  BY <1>1, PendIs
<1> HIDE DEF q
<1>3. /\ pni_raw_connected(c) \in RawType /\ pni_raw_connected(c).state = "ro_wo"
      /\ SameBuffers(q, pni_raw_connected(c)) /\ SameEnd(q, pni_raw_connected(c))
  BY <1>2, ReadTable, NewStateIs DEF pni_raw_connected, q, States
<1> QED
  BY <1>1, <1>2, <1>3
     DEF Good, Open, Loose, Counted, SameBuffers, SameEnd, States, Draining

\* pni_raw_connect_failed finishes a connection that was never open.
LEMMA ConnectFailedIs ==
  ASSUME NEW c, Good(c), c.state = "init"
  PROVE  LET d == pni_raw_connect_failed(c)
         IN  /\ Good(d) /\ d.state = "fini" /\ d.pend = c.pend /\ d.disc = "init"
             /\ d.ev = c.ev
<1> DEFINE f == [c EXCEPT !.state = "fini"]
<1>1. Open(c) /\ c \in RawType
  BY DEF Good, Open, Loose, Finished
<1>2. /\ f \in RawType /\ f.state = "fini" /\ f.pend = c.pend /\ Counted(f)
      /\ f.ev = c.ev
  BY <1>1 DEF Open, Loose, RawType, States, Counted
<1> HIDE DEF f
<1>3. Finished(pni_raw_disconnect(f)) /\ pni_raw_disconnect(f).pend = c.pend
      /\ pni_raw_disconnect(f).disc = "init" /\ pni_raw_disconnect(f).ev = c.ev
  BY <1>2, DisconnectIs
<1> QED
  BY <1>3 DEF f, pni_raw_connect_failed, Good, Finished

\* An Open connection stays Open when events other than CONNECTED become pending.
LEMMA PendOpen ==
  ASSUME NEW c, Open(c), NEW E \in SUBSET (Pending \ {"CONNECTED"})
  PROVE  LET d == Pend(c, E)
         IN  /\ Open(d) /\ Reports(c, d) /\ d.state = c.state /\ d.pend = c.pend \cup E
             /\ SameBuffers(c, d)
<1>1. c \in RawType /\ E \in SUBSET Pending
  BY DEF Open, Loose
<1> DEFINE d == Pend(c, E)
<1>2. /\ d \in RawType /\ d.state = c.state /\ d.pend = c.pend \cup E
      /\ SameBuffers(c, d) /\ SameEnd(c, d)
  BY <1>1, PendIs
<1> HIDE DEF d
<1>3. Open(d)
  BY <1>2 DEF Open, Loose, Counted, SameBuffers, SameEnd
<1>4. Reports(c, d)
  BY <1>2 DEF Reports, SameEnd, pni_raw_rclosed, pni_raw_wclosed
<1> QED
  BY <1>2, <1>3, <1>4 DEF d

\* pni_raw_read keeps a Good connection, however many buffers it fills and however
\* it ends: blocked, end of stream or error.
LEMMA ReadKeeps ==
  ASSUME NEW c, Good(c), pni_raw_ropen(c), NEW o \in ReadOutcomes(c)
  PROVE  Keeps(c, pni_raw_read(c, o[1], o[2]))
<1> DEFINE k == o[1]
           n == IF o[2] = "eof" THEN k + 1 ELSE k
           m == [c EXCEPT !.unused = @ - n, !.rread = @ + n]
           t == IF m.rread > 0 THEN Pend(m, {"READ"}) ELSE m
           d == pni_raw_read(c, o[1], o[2])
<1>1. /\ Open(c) /\ c.state # "rs_ws" /\ c.disc = "init"
      /\ c.state \in {"ro_wo", "ro_wd", "ro_wc", "ro_ws"}
  BY GoodClosed DEF pni_raw_ropen, pni_raw_rwclosed
<1>2. c \in RawType /\ Counted(c)
  BY <1>1 DEF Open, Loose
<1>3. /\ k \in 0..c.unused /\ o[2] \in {"blocked", "eof", "error"}
      /\ k = c.unused => o[2] = "blocked"
  BY DEF ReadOutcomes
<1>4. n \in Nat /\ n <= c.unused
  BY <1>2, <1>3 DEF RawType
<1>5. d = CASE o[2] = "error"   -> pni_raw_close(m)
            [] o[2] = "blocked" -> t
            [] o[2] = "eof"     ->
                 DisconnectIfClosed(
                   pni_raw_new_state(Pend(t, {"CLOSED_READ"}), conn_read_closed))
  BY Zenon DEF pni_raw_read
<1> HIDE DEF n, d
<1>6. c.unused - n \in 0..read_buffer_count /\ c.rread + n \in 0..read_buffer_count
  BY <1>2, <1>4, RawBounds DEF RawType, Counted
<1>7. /\ m \in RawType /\ m.state = c.state /\ m.pend = c.pend /\ SameEnd(c, m)
      /\ m.unused = c.unused - n /\ m.rread = c.rread + n /\ m.rcount = c.rcount
      /\ m.wcount = c.wcount /\ m.towrite = c.towrite /\ m.written = c.written
  BY <1>2, <1>6, Zenon DEF RawType, SameEnd
<1> HIDE DEF m
<1>8. Open(m) /\ Reports(c, m)
  <2>1. Counted(m)
    BY <1>2, <1>4, <1>7 DEF Counted, RawType
  <2> QED
    BY <1>1, <1>7, <2>1 DEF Open, Loose, Reports, SameEnd, pni_raw_rclosed, pni_raw_wclosed
<1>9. /\ {"READ"} \in SUBSET (Pending \ {"CONNECTED"})
      /\ {"CLOSED_READ"} \in SUBSET (Pending \ {"CONNECTED"})
  BY DEF Pending, PendingOrder
<1>10. Open(t) /\ Reports(m, t) /\ t.state = c.state
  BY <1>7, <1>8, <1>9, PendOpen DEF Reports, SameEnd
<1>11. Reports(c, t)
  BY <1>8, <1>10, ReportsTransitive
<1> HIDE DEF t
<1>12. CASE o[2] = "error"
  <2>1. Good(m)
    BY <1>1, <1>7, <1>8 DEF Good
  <2>2. Keeps(m, pni_raw_close(m)) /\ m.disc = "init"
    BY <2>1, CloseKeeps, <1>8 DEF Open, Loose
  <2>3. d = pni_raw_close(m)
    BY <1>5, <1>12
  <2> QED
    BY <1>1, <1>8, <2>2, <2>3, ReportsTransitive DEF Keeps, d
<1>13. CASE o[2] = "blocked"
  <2>1. d = t
    BY <1>5, <1>13
  <2> QED
    BY <1>1, <1>10, <1>11, <2>1 DEF Keeps, Good, Open, Loose, d
<1>14. CASE o[2] = "eof"
  <2> DEFINE q == Pend(t, {"CLOSED_READ"})
             e == pni_raw_new_state(q, conn_read_closed)
  <2>1. /\ Open(q) /\ Reports(t, q) /\ q.state = c.state /\ "CLOSED_READ" \in q.pend
    BY <1>9, <1>10, PendOpen
  <2> HIDE DEF q
  <2>2. /\ NewState(c.state, conn_read_closed) \in {"rc_wo", "rc_wd", "rs_ws"}
        /\ NewState(c.state, conn_read_closed) # "rc_wo" => pni_raw_wclosed(c)
        /\ NewState(c.state, conn_read_closed) = "rc_wd" => c.state = "ro_wd"
    BY <1>1, ReadTable DEF pni_raw_wclosed
  <2>3. /\ e \in RawType /\ e.state = NewState(c.state, conn_read_closed)
        /\ e.pend = q.pend /\ SameBuffers(q, e) /\ SameEnd(q, e)
    BY <2>1, <2>2, NewStateIs DEF Open, Loose, States
  <2> HIDE DEF e
  <2>4. Open(e)
    BY <2>1, <2>2, <2>3 DEF Open, Loose, Counted, SameBuffers, SameEnd, States, Draining
  <2>5. Reports(c, q)
    BY <1>11, <2>1, ReportsTransitive
  <2>6. Reports(c, e)
    BY <2>1, <2>2, <2>3, <2>5 DEF Reports, SameEnd, pni_raw_rclosed, pni_raw_wclosed
  <2>7. d = DisconnectIfClosed(e)
    BY <1>5, <1>14 DEF e, q
  <2> QED
    BY <1>1, <2>4, <2>6, <2>7, DisconnectIfClosedIs, ReportsTransitive DEF Keeps, d
<1> QED
  BY <1>3, <1>12, <1>13, <1>14 DEF d

\* pni_raw_write keeps a Good connection, however many buffers it empties and
\* however it ends.
LEMMA WriteKeeps ==
  ASSUME NEW c, Good(c), c.state # "init", ~pni_raw_wdrained(c), NEW o \in WriteOutcomes(c)
  PROVE  Keeps(c, pni_raw_write(c, o[1], o[2]))
<1> DEFINE k == o[1]
           m == [c EXCEPT !.towrite = @ - k, !.written = @ + k]
           t == IF m.written > 0 THEN Pend(m, {"WRITTEN"}) ELSE m
           r == IF t.towrite = 0 THEN pni_raw_new_state(t, conn_write_drained) ELSE t
           q == Pend(r, {"CLOSED_WRITE"})
           z == IF o[2] = "zero" THEN pni_raw_new_state(q, conn_write_closed) ELSE r
           d == pni_raw_write(c, o[1], o[2])
<1>1. /\ Open(c) /\ c.state # "rs_ws" /\ c.disc = "init"
      /\ c.state \in {"ro_wo", "ro_wd", "rc_wo", "rc_wd", "rs_wo", "rs_wd"}
  <2>1. Open(c) /\ c.state # "rs_ws" /\ c.disc = "init"
    BY GoodClosed DEF pni_raw_wdrained, pni_raw_rwclosed
  <2> QED
    BY <2>1 DEF Open, Loose, States, pni_raw_wdrained
<1>2. c \in RawType /\ Counted(c) /\ ~c.disconnectpending
  BY <1>1 DEF Open, Loose
<1>3. /\ k \in 0..c.towrite /\ o[2] \in {"blocked", "zero", "error"}
      /\ k = c.towrite => o[2] = "blocked"
  BY DEF WriteOutcomes
<1>4. d = IF o[2] = "error" THEN pni_raw_close(pni_raw_release_buffers(m))
          ELSE IF z.state # c.state THEN DisconnectIfClosed(z) ELSE z
  BY DEF pni_raw_write
<1> HIDE DEF d, k
<1>5. c.towrite - k \in 0..write_buffer_count /\ c.written + k \in 0..write_buffer_count
  BY <1>2, <1>3, RawBounds DEF RawType, Counted
<1>6. /\ m \in RawType /\ m.state = c.state /\ m.pend = c.pend /\ SameEnd(c, m)
      /\ m.towrite = c.towrite - k /\ m.written = c.written + k /\ m.wcount = c.wcount
      /\ m.rcount = c.rcount /\ m.unused = c.unused /\ m.rread = c.rread
  BY <1>2, <1>5, Zenon DEF RawType, SameEnd
<1> HIDE DEF m
<1>7. Loose(m) /\ Reports(c, m)
  <2>1. Counted(m)
    BY <1>2, <1>3, <1>6 DEF Counted, RawType
  <2> QED
    BY <1>1, <1>6, <2>1
       DEF Open, Loose, Reports, SameEnd, pni_raw_rclosed, pni_raw_wclosed
<1>8. CASE o[2] = "error"
  <2> DEFINE f == pni_raw_release_buffers(m)
  <2>1. Loose(f) /\ f.state = c.state /\ f.pend = m.pend /\ f.ev = c.ev
    BY <1>1, <1>6, <1>7, ReleaseIs DEF Loose, SameEnd
  <2> HIDE DEF f
  <2>2. Reports(c, f)
    BY <1>6, <1>7, <2>1 DEF Reports, SameEnd, pni_raw_rclosed, pni_raw_wclosed
  <2>3. d = pni_raw_close(f)
    BY <1>4, <1>8 DEF f
  <2> QED
    BY <1>1, <2>1, <2>2, <2>3, CloseIs, ReportsTransitive DEF Keeps, d
<1>9. CASE o[2] # "error"
  <2>1. /\ {"WRITTEN"} \in SUBSET Pending /\ {"CLOSED_WRITE"} \in SUBSET Pending
    BY DEF Pending, PendingOrder
  <2>2. /\ t \in RawType /\ t.state = c.state /\ SameBuffers(m, t) /\ SameEnd(c, t)
        /\ t.pend \in {m.pend, m.pend \cup {"WRITTEN"}}
    BY <1>6, <2>1, PendIs DEF SameBuffers, SameEnd
  <2> HIDE DEF t
  <2>3. /\ c.pend \subseteq t.pend
        /\ "CONNECTED" \in t.pend => "CONNECTED" \in c.pend
    BY <1>6, <2>2
  <2>4. CASE t.towrite = 0
    <3>1. o[2] = "blocked"
      BY <1>2, <1>3, <1>6, <2>2, <2>4 DEF SameBuffers, RawType
    <3>2. /\ NewState(c.state, conn_write_drained)
               \in {"ro_wo", "rc_wo", "rs_wo", "ro_wc", "rs_ws"}
          /\ NewState(c.state, conn_write_drained) \in {"ro_wc", "rs_ws"} =>
               pni_raw_wclosed(c)
          /\ pni_raw_rclosed(c) <=>
               NewState(c.state, conn_write_drained) \in {"rc_wo", "rs_wo", "rs_ws"}
      BY <1>1, WriteTable DEF pni_raw_wclosed, pni_raw_rclosed
    <3>3. /\ r \in RawType /\ r.state = NewState(c.state, conn_write_drained)
          /\ r.pend = t.pend /\ SameBuffers(t, r) /\ SameEnd(t, r)
      BY <2>2, <2>4, <3>2, NewStateIs DEF States
    <3> HIDE DEF r
    <3>4. z = r
      BY <3>1
    <3>5. Open(r)
      BY <1>1, <1>7, <2>2, <3>2, <3>3
         DEF Open, Loose, Counted, SameBuffers, SameEnd, States, Draining
    <3>6. Reports(c, r)
      BY <2>2, <2>3, <3>2, <3>3 DEF Reports, SameEnd, pni_raw_rclosed, pni_raw_wclosed
    <3>7. d = IF r.state # c.state THEN DisconnectIfClosed(r) ELSE r
      BY <1>4, <1>9, <3>4
    <3>8. CASE r.state = c.state
      BY <1>1, <3>5, <3>6, <3>7, <3>8 DEF Keeps, Good, Open, Loose, d
    <3>9. CASE r.state # c.state
      BY <1>1, <3>5, <3>6, <3>7, <3>9, DisconnectIfClosedIs, ReportsTransitive
         DEF Keeps, d
    <3> QED
      BY <3>8, <3>9
  <2>5. CASE t.towrite # 0
    <3>1. r = t
      BY <2>5
    <3>2. Open(t)
      BY <1>1, <1>7, <2>2, <2>5 DEF Open, Loose, Counted, RawType, SameBuffers, SameEnd
    <3>3. Reports(c, t)
      BY <2>2, <2>3 DEF Reports, SameEnd, pni_raw_rclosed, pni_raw_wclosed
    <3>4. CASE o[2] = "blocked"
      <4>1. d = t
        BY <1>4, <2>2, <3>1, <3>4
      <4> QED
        BY <1>1, <2>2, <3>2, <3>3, <4>1, Zenon DEF Keeps, Good, Open, Loose, d
    <3>5. CASE o[2] = "zero"
      <4>1. /\ NewState(c.state, conn_write_closed) \in {"ro_wc", "rs_ws"}
            /\ NewState(c.state, conn_write_closed) = "rs_ws" => pni_raw_rclosed(c)
        BY <1>1, WriteTable DEF pni_raw_rclosed
      <4> DEFINE p == Pend(t, {"CLOSED_WRITE"})
                 e == pni_raw_new_state(p, conn_write_closed)
      <4>2. /\ p \in RawType /\ p.state = c.state /\ SameBuffers(t, p) /\ SameEnd(t, p)
            /\ p.pend = t.pend \cup {"CLOSED_WRITE"}
        BY <2>1, <2>2, PendIs
      <4>3. z = e
        BY <3>1, <3>5
      <4> HIDE DEF p
      <4>4. /\ e \in RawType /\ e.state = NewState(c.state, conn_write_closed)
            /\ e.pend = p.pend /\ SameBuffers(p, e) /\ SameEnd(p, e)
        BY <4>1, <4>2, NewStateIs DEF States
      <4> HIDE DEF e, z
      <4>5. Open(e)
        BY <3>2, <4>1, <4>2, <4>4
           DEF Open, Loose, Counted, SameBuffers, SameEnd, States, Draining
      <4>6. Reports(c, e)
        BY <2>2, <2>3, <4>1, <4>2, <4>4 DEF Reports, SameEnd, pni_raw_rclosed, pni_raw_wclosed
      <4>7. d = DisconnectIfClosed(e)
        BY <1>1, <1>4, <1>9, <4>1, <4>3, <4>4
      <4> QED
        BY <1>1, <4>5, <4>6, <4>7, DisconnectIfClosedIs, ReportsTransitive DEF Keeps, d
    <3> QED
      BY <1>3, <1>9, <3>4, <3>5
  <2> QED
    BY <2>4, <2>5
<1> QED
  BY <1>8, <1>9 DEF d

\* pni_raw_process_shutdown keeps a Good connection.
LEMMA ShutdownKeeps ==
  ASSUME NEW c, Good(c)
  PROVE  /\ Keeps(c, pni_raw_process_shutdown(c))
         /\ c.state = "init" => pni_raw_process_shutdown(c).state = "init"
<1> DEFINE d == pni_raw_process_shutdown(c)
<1>1. CASE pni_raw_rclosing(c)
  <2> DEFINE e == pni_raw_new_state(c, int_read_shutdown)
  <2>1. Open(c) /\ c \in RawType /\ c.state \in {"rc_wo", "rc_wd"} /\ c.disc = "init"
    BY <1>1 DEF pni_raw_rclosing, Good, Open, Loose, Finished
  <2>2. NewState(c.state, int_read_shutdown) = IF c.state = "rc_wo" THEN "rs_wo" ELSE "rs_wd"
    BY <2>1, ReadTable
  <2>3. /\ e \in RawType /\ e.state = IF c.state = "rc_wo" THEN "rs_wo" ELSE "rs_wd"
        /\ e.pend = c.pend /\ SameBuffers(c, e) /\ SameEnd(c, e)
    BY <2>1, <2>2, NewStateIs DEF States
  <2>4. d = e
    <3> HIDE DEF e
    <3>1. ~pni_raw_wclosing(e)
      BY <2>1, <2>3 DEF pni_raw_wclosing
    <3> QED
      BY <1>1, <3>1 DEF pni_raw_process_shutdown, e
  <2> HIDE DEF e, d
  <2>5. Open(e) /\ e.state # "rs_ws"
    BY <2>1, <2>3 DEF Open, Loose, Counted, SameBuffers, SameEnd, States, Draining
  <2>6. Reports(c, e)
    BY <2>1, <2>3 DEF Reports, SameEnd, pni_raw_rclosed, pni_raw_wclosed
  <2> QED
    BY <2>1, <2>3, <2>4, <2>5, <2>6 DEF Keeps, Good, SameEnd, d
<1>2. CASE ~pni_raw_rclosing(c) /\ pni_raw_wclosing(c)
  <2> DEFINE e == pni_raw_new_state(c, int_write_shutdown)
  <2>1. Open(c) /\ c \in RawType /\ c.state = "ro_wc" /\ c.disc = "init"
    BY <1>2 DEF pni_raw_wclosing, Good, Open, Loose, Finished
  <2>2. /\ e \in RawType /\ e.state = "ro_ws"
        /\ e.pend = c.pend /\ SameBuffers(c, e) /\ SameEnd(c, e)
    BY <2>1, WriteTable, NewStateIs DEF States
  <2>3. d = e
    BY <1>2 DEF pni_raw_process_shutdown
  <2> HIDE DEF e, d
  <2>4. Open(e) /\ e.state # "rs_ws"
    BY <2>1, <2>2 DEF Open, Loose, Counted, SameBuffers, SameEnd, States, Draining
  <2>5. Reports(c, e)
    BY <2>1, <2>2 DEF Reports, SameEnd, pni_raw_rclosed, pni_raw_wclosed
  <2> QED
    BY <2>1, <2>2, <2>3, <2>4, <2>5 DEF Keeps, Good, SameEnd, d
<1>3. CASE ~pni_raw_rclosing(c) /\ ~pni_raw_wclosing(c)
  BY <1>3, NothingKeeps DEF pni_raw_process_shutdown
<1> QED
  BY <1>1, <1>2, <1>3

\* pni_raw_async_disconnect keeps a Good connection, unless its writes are draining.
LEMMA AsyncDisconnectKeeps ==
  ASSUME NEW c, Good(c), c.state \notin Draining \cup {"init"}
  PROVE  Keeps(c, pni_raw_async_disconnect(c))
<1>1. CASE pni_raw_rwclosed(c)
  BY <1>1, NothingKeeps DEF pni_raw_async_disconnect
<1>2. CASE ~pni_raw_rwclosed(c)
  <2> DEFINE r == AsyncCloseRead(c)
             w == AsyncCloseWrite(r)
             d == pni_raw_async_disconnect(c)
  <2>1. Open(c) /\ c \in RawType /\ c.disc = "init"
        /\ c.state \in {"ro_wo", "ro_wc", "ro_ws", "rc_wo", "rs_wo"}
    BY <1>2, GoodClosed DEF Open, Loose, States, Draining
  <2>2. /\ {"CLOSED_READ"} \in SUBSET (Pending \ {"CONNECTED"})
        /\ {"CLOSED_WRITE"} \in SUBSET (Pending \ {"CONNECTED"})
    BY DEF Pending, PendingOrder
  <2>3. /\ Open(r) /\ Reports(c, r)
        /\ r.state \in {"rc_wo", "rs_wo", "rs_ws"}
    <3>1. CASE pni_raw_rclosed(c)
      BY <2>1, <3>1 DEF AsyncCloseRead, Reports, SameEnd, pni_raw_rclosed
    <3>2. CASE ~pni_raw_rclosed(c)
      <4> DEFINE q == Pend(c, {"CLOSED_READ"})
      <4>1. /\ Open(q) /\ q \in RawType /\ Reports(c, q) /\ q.state = c.state
            /\ "CLOSED_READ" \in q.pend
        BY <2>1, <2>2, PendOpen DEF Open, Loose
      <4>2. r = pni_raw_new_state(q, conn_read_closed)
        BY <3>2 DEF AsyncCloseRead
      <4> HIDE DEF q, r
      <4>3. /\ NewState(q.state, conn_read_closed)
                 = IF c.state = "ro_wo" THEN "rc_wo" ELSE "rs_ws"
        BY <2>1, <3>2, <4>1, ReadTable DEF pni_raw_rclosed
      <4>4. /\ r \in RawType /\ r.state = IF c.state = "ro_wo" THEN "rc_wo" ELSE "rs_ws"
            /\ r.pend = q.pend /\ SameBuffers(q, r) /\ SameEnd(q, r)
        BY <4>1, <4>2, <4>3, NewStateIs DEF States
      <4>5. Open(r)
        BY <4>1, <4>4 DEF Open, Loose, Counted, SameBuffers, SameEnd, States, Draining
      <4>6. Reports(c, r)
        BY <2>1, <3>2, <4>1, <4>4 DEF Reports, SameEnd, pni_raw_rclosed, pni_raw_wclosed
      <4> QED
        BY <4>4, <4>5, <4>6
    <3> QED
      BY <3>1, <3>2
  <2>4. d = pni_raw_disconnect(w)
    BY <1>2 DEF pni_raw_async_disconnect
  <2> HIDE DEF r
  <2>5. /\ w \in RawType /\ Counted(w) /\ w.state = "rs_ws" /\ w.ev = r.ev
        /\ Reports(r, w)
    <3>1. CASE pni_raw_wclosed(r)
      BY <2>3, <3>1, Zenon
         DEF AsyncCloseWrite, pni_raw_wclosed, pni_raw_rclosed, Open, Loose, Reports, SameEnd
    <3>2. CASE ~pni_raw_wclosed(r)
      <4> DEFINE f == pni_raw_release_buffers(r)
                 q == Pend(f, {"CLOSED_WRITE"})
      <4>1. /\ f \in RawType /\ Counted(f) /\ f.state = r.state /\ f.pend = r.pend
            /\ SameEnd(r, f)
        BY <2>3, ReleaseIs DEF Open, Loose
      <4> HIDE DEF f
      <4>2. /\ q \in RawType /\ q.state = r.state /\ SameEnd(f, q) /\ SameBuffers(f, q)
            /\ q.pend = r.pend \cup {"CLOSED_WRITE"}
        BY <2>2, <4>1, PendIs
      <4>3. w = pni_raw_new_state(q, conn_write_closed)
        BY <3>2 DEF AsyncCloseWrite, f
      <4> HIDE DEF q, w
      <4>4. NewState(q.state, conn_write_closed) = "rs_ws" /\ pni_raw_rclosed(r)
        BY <2>3, <3>2, <4>2, WriteTable DEF pni_raw_wclosed, pni_raw_rclosed
      <4>5. /\ w \in RawType /\ w.state = "rs_ws"
            /\ w.pend = q.pend /\ SameBuffers(q, w) /\ SameEnd(q, w)
        BY <4>2, <4>3, <4>4, NewStateIs DEF States
      <4>6. Counted(w) /\ w.ev = r.ev
        BY <2>3, <4>1, <4>2, <4>5 DEF Open, Loose, Counted, SameBuffers, SameEnd
      <4>7. Reports(r, w)
        BY <4>1, <4>2, <4>4, <4>5 DEF Reports, SameEnd, pni_raw_rclosed, pni_raw_wclosed
      <4> QED
        BY <4>5, <4>6, <4>7
    <3> QED
      BY <3>1, <3>2
  <2> HIDE DEF w, d
  <2>6. Finished(d) /\ d.pend = w.pend /\ d.disc = "init" /\ d.ev = w.ev
    BY <2>4, <2>5, DisconnectIs
  <2>7. Reports(w, d)
    BY <2>5, <2>6 DEF Reports, SameEnd, Finished, pni_raw_rclosed, pni_raw_wclosed
  <2>8. Reports(c, w)
    BY <2>3, <2>5, ReportsTransitive
  <2> QED
    BY <2>1, <2>6, <2>7, <2>8, ReportsTransitive DEF Keeps, Good, d
<1> QED
  BY <1>1, <1>2

\* The first pending event, in the order of pni_raw_batch_has_events, is pending.
LEMMA FirstPendingIs ==
  ASSUME NEW pend \in SUBSET Pending, pend # {}
  PROVE  FirstPending(pend) \in pend
<1> DEFINE First(i) == /\ PendingOrder[i] \in pend
                       /\ \A j \in 1..(i - 1) : PendingOrder[j] \notin pend
<1>1. \E i \in 1..6 : PendingOrder[i] \in pend
  BY DEF Pending
<1>2. \E i \in 1..6 : First(i)
  <2>1. CASE PendingOrder[1] \in pend
    BY <2>1
  <2>2. CASE PendingOrder[1] \notin pend /\ PendingOrder[2] \in pend
    BY <2>2
  <2>3. CASE /\ PendingOrder[1] \notin pend /\ PendingOrder[2] \notin pend
             /\ PendingOrder[3] \in pend
    BY <2>3
  <2>4. CASE /\ PendingOrder[1] \notin pend /\ PendingOrder[2] \notin pend
             /\ PendingOrder[3] \notin pend /\ PendingOrder[4] \in pend
    BY <2>4
  <2>5. CASE /\ PendingOrder[1] \notin pend /\ PendingOrder[2] \notin pend
             /\ PendingOrder[3] \notin pend /\ PendingOrder[4] \notin pend
             /\ PendingOrder[5] \in pend
    BY <2>5
  <2>6. CASE /\ PendingOrder[1] \notin pend /\ PendingOrder[2] \notin pend
             /\ PendingOrder[3] \notin pend /\ PendingOrder[4] \notin pend
             /\ PendingOrder[5] \notin pend
    BY <1>1, <2>6
  <2> QED
    BY <2>1, <2>2, <2>3, <2>4, <2>5, <2>6
<1> QED
  BY <1>2 DEF FirstPending

\* pni_raw_batch_has_events, and the removal of its event by pni_raw_event_next,
\* leave the connection Good; a finished one has no event; DISCONNECTED comes only
\* when there are no buffers left to take or DRAIN_BUFFERS has come before.
LEMMA NextEventIs ==
  ASSUME NEW c, Good(c), c.ev = "none",
         NEW e, e = pni_raw_batch_has_events(c), e.ev # "none"
  PROVE  LET d == [e EXCEPT !.ev = "none"]
         IN  /\ Good(d) /\ d.state = c.state /\ d.ev = "none" /\ e.ev \in Events
             /\ d.pend = c.pend \ {e.ev}
             /\ e.ev \in {"CONNECTED", "CLOSED_READ", "CLOSED_WRITE"} => e.ev \in c.pend
             /\ c.disc # "fini"
             /\ \/ d.disc = c.disc /\ e.ev \notin {"DRAIN_BUFFERS", "DISCONNECTED"}
                \/ d.disc = "drain_msg" /\ e.ev = "DRAIN_BUFFERS"
                \/ /\ d.disc = "fini" /\ e.ev = "DISCONNECTED"
                   /\ c.disc = "init" => d.rread + d.written = 0
<1> DEFINE d == [e EXCEPT !.ev = "none"]
<1>1. c \in RawType /\ Counted(c) /\ c.ev = "none"
  BY DEF Good, Open, Loose, Finished
<1>2. CASE c.pend # {}
  <2> DEFINE f == FirstPending(c.pend)
  <2>1. f \in c.pend /\ f \in Pending /\ f \in Events
    BY <1>1, <1>2, FirstPendingIs DEF RawType, Events
  <2>2. e = [c EXCEPT !.ev = f, !.pend = @ \ {f}]
    BY <1>1, <1>2 DEF pni_raw_batch_has_events
  <2>a. c.pend \ {f} \in SUBSET Pending
    BY <1>1 DEF RawType
  <2> HIDE DEF f
  <2>b. /\ e \in RawType /\ e.state = c.state /\ e.pend = c.pend \ {f} /\ e.ev = f
        /\ SameBuffers(c, e) /\ e.disc = c.disc
        /\ e.disconnectpending = c.disconnectpending
    BY <1>1, <2>a, <2>1, <2>2, ZenonT(40) DEF RawType, SameBuffers
  <2>3. /\ d \in RawType /\ d.state = c.state /\ d.pend = c.pend \ {f} /\ e.ev = f
        /\ SameBuffers(c, d) /\ d.disc = c.disc /\ d.ev = "none"
        /\ d.disconnectpending = c.disconnectpending
    BY <2>b DEF RawType, SameBuffers
  <2>4. f \notin {"DRAIN_BUFFERS", "DISCONNECTED"}
    BY <2>1 DEF Pending, PendingOrder
  <2> HIDE DEF d
  <2>5. Good(d) /\ c.disc # "fini"
    BY <1>2, <2>3 DEF Good, Open, Loose, Finished, Counted, SameBuffers
  <2> QED
    BY <2>1, <2>3, <2>4, <2>5 DEF d
<1>3. CASE c.pend = {} /\ c.disconnectpending
  <2>1. Finished(c) /\ c.disc # "fini"
    BY <1>3 DEF Good, Open, Loose, Finished
  <2>2. CASE c.disc = "init" /\ c.rread + c.written > 0
    <3>1. e = [c EXCEPT !.ev = "DRAIN_BUFFERS", !.disc = "drain_msg"]
      BY <1>1, <1>3, <2>2 DEF pni_raw_batch_has_events
    <3>2. /\ d \in RawType /\ d.state = c.state /\ d.pend = {} /\ e.ev = "DRAIN_BUFFERS"
          /\ SameBuffers(c, d) /\ d.disc = "drain_msg" /\ d.ev = "none"
          /\ d.disconnectpending = c.disconnectpending
      BY <1>1, <1>3, <3>1, ZenonT(40) DEF RawType, SameBuffers
    <3> HIDE DEF d
    <3>3. Good(d)
      BY <1>3, <2>1, <3>2 DEF Good, Finished, Counted, SameBuffers
    <3>4. e.ev \in Events
      BY <3>2 DEF Events, Lifecycle
    <3> QED
      BY <1>3, <2>1, <3>2, <3>3, <3>4 DEF d
  <2>3. CASE ~(c.disc = "init" /\ c.rread + c.written > 0)
    <3>1. e = [c EXCEPT !.ev = "DISCONNECTED", !.disc = "fini", !.disconnectpending = FALSE]
      BY <1>1, <1>3, <2>3 DEF pni_raw_batch_has_events
    <3>2. /\ d \in RawType /\ d.state = c.state /\ d.pend = {} /\ e.ev = "DISCONNECTED"
          /\ SameBuffers(c, d) /\ d.disc = "fini" /\ d.ev = "none"
          /\ d.disconnectpending = FALSE
      BY <1>1, <1>3, <3>1, ZenonT(40) DEF RawType, SameBuffers
    <3> HIDE DEF d
    <3>3. Good(d)
      BY <1>3, <2>1, <3>2 DEF Good, Finished, Counted, SameBuffers
    <3>4. e.ev \in Events
      BY <3>2 DEF Events, Lifecycle
    <3>5. c.disc = "init" => d.rread + d.written = 0
      BY <1>1, <2>3, <3>2 DEF SameBuffers, RawType
    <3> QED
      BY <1>3, <2>1, <3>2, <3>3, <3>4, <3>5 DEF d
  <2> QED
    BY <2>2, <2>3
<1>4. CASE c.pend = {} /\ ~c.disconnectpending
  <2>1. \/ /\ e = [c EXCEPT !.ev = "NEED_WRITE_BUFFERS", !.wreq = TRUE]
           /\ ~pni_raw_wdrained(c)
        \/ /\ e = [c EXCEPT !.ev = "NEED_READ_BUFFERS", !.rreq = TRUE]
           /\ ~pni_raw_rclosed(c)
    BY <1>1, <1>4 DEF pni_raw_batch_has_events
  <2>2. Open(c) /\ c.state # "rs_ws"
    BY <2>1 DEF Good, Finished, pni_raw_wdrained, pni_raw_rclosed
  <2>3. /\ d \in RawType /\ d.state = c.state /\ d.pend = {}
        /\ e.ev \in {"NEED_WRITE_BUFFERS", "NEED_READ_BUFFERS"}
        /\ SameBuffers(c, d) /\ d.disc = c.disc /\ d.ev = "none"
        /\ d.disconnectpending = c.disconnectpending
    <3>1. CASE e = [c EXCEPT !.ev = "NEED_WRITE_BUFFERS", !.wreq = TRUE]
      BY <1>1, <1>4, <3>1, ZenonT(40) DEF RawType, SameBuffers
    <3>2. CASE e = [c EXCEPT !.ev = "NEED_READ_BUFFERS", !.rreq = TRUE]
      BY <1>1, <1>4, <3>2, ZenonT(40) DEF RawType, SameBuffers
    <3> QED
      BY <2>1, <3>1, <3>2
  <2> HIDE DEF d
  <2>4. Good(d)
    BY <2>2, <2>3 DEF Good, Open, Loose, Counted, SameBuffers
  <2>5. e.ev \in Events
    BY <2>3 DEF Events
  <2> QED
    BY <1>4, <2>2, <2>3, <2>4, <2>5 DEF d, Open, Loose
<1> QED
  BY <1>2, <1>3, <1>4

\* What the application and the socket know of the connection.
Told ==
  /\ seen \in [Lifecycle -> 0..2]
  /\ delivered \in Events \cup {"none"}
  /\ link \in {"connecting", "up", "failed"}
  /\ link = "connecting" => rc.state \in {"init", "fini"}
  /\ link = "up" => rc.state # "init"
  /\ link # "up" => seen["CONNECTED"] = 0 /\ "CONNECTED" \notin rc.pend
  /\ link = "up" /\ pni_raw_rclosed(rc) =>
       "CLOSED_READ" \in rc.pend \/ seen["CLOSED_READ"] > 0
  /\ link = "up" /\ pni_raw_wclosed(rc) =>
       "CLOSED_WRITE" \in rc.pend \/ seen["CLOSED_WRITE"] > 0
  /\ rc.disc = "drain_msg" => seen["DRAIN_BUFFERS"] > 0
  /\ rc.disc = "fini" /\ rc.rread + rc.written > 0 => seen["DRAIN_BUFFERS"] > 0
  /\ delivered = "DISCONNECTED" => rc.disc = "fini"

\* The inductive invariant.
IInv == Good(rc) /\ rc.ev = "none" /\ Told

\* None of the uses that the switches of RawConnection stand for.
WellUsed == ~MayWriteEarly /\ ~MayCloseEarly /\ ~MayResetDraining

\* An action that keeps the connection Good and delivers nothing preserves IInv.
LEMMA KeepsIInv ==
  ASSUME IInv, Keeps(rc, rc'), UNCHANGED <<seen, delivered, link>>,
         link = "connecting" => rc'.state \in {"init", "fini"}
  PROVE  IInv'
<1>1. Good(rc')
  BY DEF Keeps
<1>2. rc \in RawType /\ rc' \in RawType
  BY <1>1 DEF IInv, Good, Open, Loose, Finished
<1>3. rc'.disc = "fini" /\ rc'.rread + rc'.written > 0 => seen["DRAIN_BUFFERS"] > 0
  BY <1>2 DEF Keeps, IInv, Told, RawType
<1>4. Told'
  BY <1>3 DEF IInv, Told, Keeps, Reports
<1>5. rc'.ev = "none"
  BY DEF IInv, Keeps, Reports
<1> QED
  BY <1>1, <1>4, <1>5 DEF IInv

\* pni_raw_initialize establishes IInv.
LEMMA InitIInv ==
  ASSUME Init
  PROVE  IInv
<1>1. rc \in RawType
  BY RawBounds DEF Init, pni_raw_initialize, RawType, States, Pending
<1>2. Good(rc)
  BY <1>1 DEF Init, pni_raw_initialize, Good, Open, Loose, Counted, States, Draining
<1>3. Told
  BY DEF Init, pni_raw_initialize, Told, pni_raw_rclosed, pni_raw_wclosed, Lifecycle
<1>4. rc.ev = "none"
  BY DEF Init, pni_raw_initialize
<1> QED
  BY <1>2, <1>3, <1>4 DEF IInv

\* The calls of the application preserve IInv.
LEMMA CallIInv ==
  ASSUME WellUsed, IInv, ApplicationCall
  PROVE  IInv'
<1> USE DEF IInv
<1>1. rc \in RawType /\ UNCHANGED <<seen, delivered, link>>
  BY GoodClosed DEF ApplicationCall
<1>2. link = "connecting" => rc.state \in {"init", "fini"}
  BY DEF Told
<1>3. CASE GiveRead
  BY <1>1, <1>2, <1>3, GiveReadKeeps, KeepsIInv DEF GiveRead
<1>4. CASE TakeRead
  BY <1>1, <1>2, <1>4, TakeReadKeeps, KeepsIInv DEF TakeRead
<1>5. CASE WriteBuffers
  BY <1>1, <1>2, <1>5, WriteBuffersKeeps, KeepsIInv DEF WriteBuffers, WellUsed
<1>6. CASE TakeWritten
  BY <1>1, <1>2, <1>6, TakeWrittenKeeps, KeepsIInv DEF TakeWritten
<1>7. CASE HalfClose
  <2>1. rc.state # "init" /\ rc' \in {pni_raw_read_close(rc), pni_raw_write_close(rc)}
    BY <1>7 DEF HalfClose, WellUsed
  <2>2. Keeps(rc, rc')
    BY <2>1, ReadCloseKeeps, WriteCloseKeeps
  <2>3. rc.state = "fini" => rc' = rc
    BY <2>1 DEF pni_raw_read_close, pni_raw_write_close, pni_raw_rwclosed
  <2> QED
    BY <1>1, <1>2, <2>1, <2>2, <2>3, KeepsIInv
<1>8. CASE Close
  <2>1. rc.state = "fini" => rc' = rc
    BY <1>8 DEF Close, pni_raw_close, pni_raw_rwclosed
  <2> QED
    BY <1>1, <1>2, <1>8, <2>1, CloseKeeps, KeepsIInv DEF Close
<1> QED
  BY <1>3, <1>4, <1>5, <1>6, <1>7, <1>8 DEF ApplicationCall

\* The calls of the I/O driver preserve IInv.
LEMMA DriverIInv ==
  ASSUME WellUsed, IInv, DriverCall
  PROVE  IInv'
<1> USE DEF IInv
<1>1. rc \in RawType /\ UNCHANGED <<seen, delivered, link>>
  BY GoodClosed DEF DriverCall
<1>2. link = "connecting" => rc.state \in {"init", "fini"}
  BY DEF Told
<1>3. CASE DoRead
  BY <1>1, <1>3, ReadKeeps, KeepsIInv DEF DoRead, pni_raw_can_read
<1>4. CASE DoWrite
  <2>1. rc.state \notin {"init", "fini"}
    BY <1>1, <1>4 DEF DoWrite, pni_raw_can_write, Good, Open, Loose, Finished, RawType
  <2> QED
    BY <1>1, <1>2, <1>4, <2>1, WriteKeeps, KeepsIInv DEF DoWrite, pni_raw_can_write
<1>5. CASE DoShutdown
  <2>1. rc.state = "fini" => rc' = rc
    BY <1>5 DEF DoShutdown, pni_raw_process_shutdown, pni_raw_rclosing, pni_raw_wclosing
  <2> QED
    BY <1>1, <1>2, <1>5, <2>1, ShutdownKeeps, KeepsIInv DEF DoShutdown
<1>6. CASE DoReset
  <2>1. link = "up" /\ rc.state \notin Draining \cup {"init"}
    BY <1>6 DEF DoReset, WellUsed, Draining, Told
  <2> QED
    BY <1>1, <1>6, <2>1, AsyncDisconnectKeeps, KeepsIInv DEF DoReset
<1> QED
  BY <1>3, <1>4, <1>5, <1>6 DEF DriverCall

\* The end of connect(), either way, preserves IInv.
LEMMA ConnectIInv ==
  ASSUME IInv, Connect
  PROVE  IInv'
<1> USE DEF IInv
<1>1. /\ rc.state = "init" /\ link = "connecting" /\ UNCHANGED <<seen, delivered>>
      /\ rc.pend \in SUBSET Pending
  BY GoodClosed DEF Connect, Told, pni_raw_rwclosed, RawType
<1>2. rc.disc = "init"
  BY <1>1 DEF Good, Open, Loose, Finished
<1>3. CASE link' = "up" /\ rc' = pni_raw_connected(rc)
  <2>1. Good(rc') /\ rc'.state = "ro_wo" /\ rc'.disc = "init" /\ rc'.ev = rc.ev
    BY <1>1, <1>3, ConnectedIs
  <2> QED
    BY <1>1, <1>2, <1>3, <2>1 DEF Told, pni_raw_rclosed, pni_raw_wclosed
<1>4. CASE link' = "failed" /\ rc' = pni_raw_connect_failed(rc)
  <2>1. /\ Good(rc') /\ rc'.state = "fini" /\ rc'.pend = rc.pend /\ rc'.disc = "init"
        /\ rc'.ev = rc.ev
    BY <1>1, <1>4, ConnectFailedIs
  <2> QED
    BY <1>1, <1>2, <1>4, <2>1 DEF Told
<1> QED
  BY <1>3, <1>4 DEF Connect

\* The delivery of an event preserves IInv, and does not happen after DISCONNECTED.
LEMMA EventIInv ==
  ASSUME IInv, pni_raw_event_next
  PROVE  IInv' /\ delivered # "DISCONNECTED"
<1> USE DEF IInv
<1> DEFINE e == pni_raw_batch_has_events(rc)
<1>1. /\ e.ev # "none" /\ rc' = [e EXCEPT !.ev = "none"] /\ delivered' = e.ev
      /\ seen' = [f \in Lifecycle |->
                    IF f = e.ev /\ seen[f] < 2 THEN seen[f] + 1 ELSE seen[f]]
      /\ link' = link
  BY DEF pni_raw_event_next
<1>2. /\ Good(rc') /\ rc'.state = rc.state /\ rc'.ev = "none" /\ e.ev \in Events
      /\ rc'.pend = rc.pend \ {e.ev}
      /\ e.ev \in {"CONNECTED", "CLOSED_READ", "CLOSED_WRITE"} => e.ev \in rc.pend
      /\ rc.disc # "fini"
      /\ \/ rc'.disc = rc.disc /\ e.ev \notin {"DRAIN_BUFFERS", "DISCONNECTED"}
         \/ rc'.disc = "drain_msg" /\ e.ev = "DRAIN_BUFFERS"
         \/ /\ rc'.disc = "fini" /\ e.ev = "DISCONNECTED"
            /\ rc.disc = "init" => rc'.rread + rc'.written = 0
  BY <1>1, NextEventIs
<1>3. rc \in RawType /\ rc' \in RawType
  BY <1>2, GoodClosed
<1> HIDE DEF e
<1>4. seen' \in [Lifecycle -> 0..2]
  BY <1>1 DEF Told
<1>5. \A f \in Lifecycle : /\ seen[f] > 0 => seen'[f] > 0
                           /\ f = e.ev => seen'[f] > 0
                           /\ f # e.ev => seen'[f] = seen[f]
  BY <1>1 DEF Told
<1>6. {"CONNECTED", "CLOSED_READ", "CLOSED_WRITE", "DRAIN_BUFFERS"} \subseteq Lifecycle
  BY DEF Lifecycle
<1>7. link # "up" => seen'["CONNECTED"] = 0 /\ "CONNECTED" \notin rc'.pend
  BY <1>2, <1>5, <1>6 DEF Told
<1>8. /\ link = "up" /\ pni_raw_rclosed(rc) =>
           "CLOSED_READ" \in rc'.pend \/ seen'["CLOSED_READ"] > 0
      /\ link = "up" /\ pni_raw_wclosed(rc) =>
           "CLOSED_WRITE" \in rc'.pend \/ seen'["CLOSED_WRITE"] > 0
  BY <1>2, <1>5, <1>6 DEF Told
<1>9. rc'.disc = "drain_msg" => seen'["DRAIN_BUFFERS"] > 0
  BY <1>2, <1>5, <1>6 DEF Told
<1>10. rc'.disc = "fini" /\ rc'.rread + rc'.written > 0 => seen'["DRAIN_BUFFERS"] > 0
  BY <1>2, <1>3, <1>5, <1>6 DEF Told, RawType
<1>11. Told'
  BY <1>1, <1>2, <1>4, <1>7, <1>8, <1>9, <1>10
     DEF Told, pni_raw_rclosed, pni_raw_wclosed
<1> QED
  BY <1>2, <1>11 DEF Told

\* Every step preserves IInv, and no step delivers an event after DISCONNECTED.
LEMMA NextIInv ==
  ASSUME WellUsed, IInv, [Next]_vars
  PROVE  IInv' /\ (delivered = "DISCONNECTED" => UNCHANGED <<delivered, seen>>)
<1>1. CASE ApplicationCall
  BY <1>1, CallIInv DEF ApplicationCall
<1>2. CASE pni_raw_event_next
  BY <1>2, EventIInv
<1>3. CASE Wake
  <2>1. link = "connecting" => rc.state \in {"init", "fini"}
    BY DEF IInv, Told
  <2> QED
    BY <1>3, <2>1, WakeKeeps, KeepsIInv DEF Wake, IInv
<1>4. CASE Connect
  BY <1>4, ConnectIInv DEF Connect
<1>5. CASE DriverCall
  BY <1>5, DriverIInv DEF DriverCall
<1>6. CASE UNCHANGED vars
  BY <1>6 DEF vars, IInv, Told, pni_raw_rclosed, pni_raw_wclosed
<1> QED
  BY <1>1, <1>2, <1>3, <1>4, <1>5, <1>6 DEF Next

\* IInv implies the invariants that the run checks.
LEMMA IInvImplies ==
  ASSUME IInv
  PROVE  /\ NoWrongTransition /\ BuffersAccounted
         /\ DisconnectReturnsBuffers /\ ClosedBeforeDisconnected
<1>1. NoWrongTransition
  BY DEF IInv, Good, Open, Loose, Finished, NoWrongTransition, States, W
<1>2. BuffersAccounted
  BY DEF IInv, Good, Open, Loose, Finished, Counted, Told, BuffersAccounted, TypeOK,
         Draining
<1>3. DisconnectReturnsBuffers
  BY DEF IInv, Good, Open, Loose, Finished, Told, DisconnectReturnsBuffers
<1>4. ClosedBeforeDisconnected
  <2> SUFFICES ASSUME delivered = "DISCONNECTED", seen["CONNECTED"] > 0
               PROVE  seen["CLOSED_READ"] > 0 /\ seen["CLOSED_WRITE"] > 0
    BY DEF ClosedBeforeDisconnected
  <2>1. rc.disc = "fini" /\ link = "up"
    BY DEF IInv, Told
  <2>2. rc.state = "fini" /\ rc.pend = {}
    BY <2>1 DEF IInv, Good, Open, Loose, Finished
  <2> QED
    BY <2>1, <2>2 DEF IInv, Told, pni_raw_rclosed, pni_raw_wclosed
<1> QED
  BY <1>1, <1>2, <1>3, <1>4

\* IInv is an invariant: what the calls of raw_connection.c preserve, between any two
\* of them.
THEOREM Invariance ==
  ASSUME WellUsed
  PROVE  Spec => []IInv
<1>1. Init => IInv
  BY InitIInv
<1>2. IInv /\ [Next]_vars => IInv'
  BY NextIInv
<1> QED
  BY <1>1, <1>2, PTL DEF Spec

\* The assertion of pni_raw_new_state never fails, whatever the order of calls, I/O
\* results and resets.
THEOREM TransitionsRight ==
  ASSUME WellUsed
  PROVE  Spec => []NoWrongTransition
<1>1. IInv => NoWrongTransition
  BY IInvImplies
<1> QED
  BY <1>1, Invariance, PTL

\* The counting part of pni_raw_validate holds between calls, and a connection that
\* waits for its writes to drain has something to write.
THEOREM BuffersRight ==
  ASSUME WellUsed
  PROVE  Spec => []BuffersAccounted
<1>1. IInv => BuffersAccounted
  BY IInvImplies
<1> QED
  BY <1>1, Invariance, PTL

\* DISCONNECTED is the last event; it comes after the two closing events of a
\* connection that was connected, with all buffers given back and DRAIN_BUFFERS
\* delivered if the application has not taken them.
THEOREM ClosingRight ==
  ASSUME WellUsed
  PROVE  Spec => ClosingEvents
<1> DEFINE Closing == /\ DisconnectReturnsBuffers' /\ ClosedBeforeDisconnected'
                      /\ delivered = "DISCONNECTED" => UNCHANGED <<delivered, seen>>
<1>1. IInv /\ [Next]_vars => [Closing]_vars
  <2> SUFFICES ASSUME IInv, [Next]_vars
               PROVE  Closing
    OBVIOUS
  <2>1. IInv' /\ (delivered = "DISCONNECTED" => UNCHANGED <<delivered, seen>>)
    BY NextIInv
  <2>2. (IInv => DisconnectReturnsBuffers /\ ClosedBeforeDisconnected)'
    BY IInvImplies, PTL
  <2> QED
    BY <2>1, <2>2
<1>2. Spec => [][Closing]_vars
  BY <1>1, Invariance, PTL DEF Spec
<1> QED
  BY <1>2 DEF ClosingEvents
=============================================================================

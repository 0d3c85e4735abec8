--------------------- MODULE EpollRawConnection_proof ----------------------
(***************************************************************************)
(* Theorems about EpollRawConnection, for any number of buffer slots and   *)
(* of addresses: no wake is lost, nothing is freed that the poller still   *)
(* refers to, a parked connection with a socket waits for what it needs,   *)
(* and what RawConnection promises holds under this driver, too.           *)
(*                                                                         *)
(* The inductive invariant EInv has, beside the types and Good of          *)
(* RawConnection_proof: Registered, the one-shot registration is in one of *)
(* three hands (the kernel, the poller, the scheduler) exactly while armed *)
(* is set; Connecting, what the flags of the task say of the state of the  *)
(* connection until it is connected; Parked, why an idle task will run     *)
(* again; and Reported, which events the application has seen.             *)
(***************************************************************************)
EXTENDS EpollRawConnection, RawConnection_proof

\* Events of a connecting socket decide how the connect ended.
Tells(io) == io # {} => io \cap {"OUT", "HUP", "ERR"} # {}

Flags == Interests \cup {"ERR", "HUP"}

\* The type of t in EpollTypeOK.
TaskType ==
  [phase : {"new", "idle", "working", "freed"}, ready : BOOLEAN,
   waking : BOOLEAN, closing : BOOLEAN, armed : BOOLEAN,
   current_arm : SUBSET Interests, connected : BOOLEAN,
   disconnected : BOOLEAN, hup_detected : BOOLEAN, read_check : BOOLEAN,
   first_schedule : BOOLEAN, lookup : BOOLEAN, addresses : 0..MaxAddresses,
   kernel : BOOLEAN, wanted : SUBSET Interests,
   harvested : SUBSET Flags, sched_io : SUBSET Flags]

\* The registration: one of the kernel, the poller and the scheduler has it, exactly
\* while armed is set.
Registered ==
  /\ t.armed <=> t.kernel \/ t.harvested # {} \/ t.sched_io # {}
  /\ t.kernel => t.harvested = {} /\ t.sched_io = {} /\ t.wanted = t.current_arm
  /\ t.harvested # {} => t.sched_io = {}
  /\ t.phase \in {"new", "freed"} => ~t.armed

\* Before pn_proactor_raw_connect or pn_listener_raw_accept.
Unused ==
  /\ rc.state = "init" /\ link = "none" /\ ~t.connected /\ ~t.closing
  /\ ~t.disconnected /\ ~t.first_schedule /\ ~t.lookup /\ ~t.waking

\* Until the socket is connected.
Unconnected ==
  /\ rc.state \in {"init", "fini"}
  /\ t.armed => link # "none"
  /\ t.kernel => t.wanted = Interests
  /\ Tells(t.harvested) /\ Tells(t.sched_io)
  /\ t.closing => rc.state = "fini"
  /\ rc.state = "fini" /\ ~t.closing => ~t.armed /\ ~t.lookup
  /\ link # "none" /\ t.phase # "freed" => t.armed \/ rc.state = "fini"

\* What the flags of the task say of the connection.
Connecting ==
  /\ t.phase = "new" => Unused
  /\ t.connected => link # "none" /\ rc.state # "init" /\ ~t.disconnected
  /\ ~t.connected => Unconnected
  /\ t.first_schedule => t.phase = "idle" /\ rc.state = "init" /\ ~t.lookup
  /\ t.first_schedule \/ t.lookup =>
       ~t.armed /\ ~t.connected /\ link = "none" /\ ~t.disconnected
  /\ t.disconnected => ~t.armed

\* An idle task is scheduled for a wake, an ended connection will be cleaned up, and
\* one with a socket waits for what it needs.
Parked ==
  t.phase = "idle" =>
    /\ WakeNotLost
    /\ rc.state = "fini" => /\ t.ready \/ t.lookup \/ t.armed
                            /\ t.disconnected => pni_raw_finished(rc)
    /\ link # "none" => Attended

\* The application has seen, or will see before DISCONNECTED, the events it is owed;
\* conn says whether the socket was connected.
Reported(c, conn, sn, dl) ==
  /\ sn \in [Lifecycle -> 0..2]
  /\ dl \in Events \cup {"none"}
  /\ ~conn => sn["CONNECTED"] = 0 /\ "CONNECTED" \notin c.pend /\ c.ev # "CONNECTED"
  /\ conn /\ pni_raw_rclosed(c) =>
       "CLOSED_READ" \in c.pend \/ c.ev = "CLOSED_READ" \/ sn["CLOSED_READ"] > 0
  /\ conn /\ pni_raw_wclosed(c) =>
       "CLOSED_WRITE" \in c.pend \/ c.ev = "CLOSED_WRITE" \/ sn["CLOSED_WRITE"] > 0
  /\ c.disc = "drain_msg" => c.ev = "DRAIN_BUFFERS" \/ sn["DRAIN_BUFFERS"] > 0
  /\ c.disc = "fini" /\ c.rread + c.written > 0 => sn["DRAIN_BUFFERS"] > 0
  /\ dl = "DISCONNECTED" => c.disc = "fini" /\ c.ev = "none"
  /\ c.ev = "DISCONNECTED" <=> c.disc = "fini" /\ c.ev # "none"

Typed ==
  /\ t \in TaskType /\ link \in Sockets /\ peer \in {"open", "fin", "rst"}
  /\ data \in BOOLEAN

\* The inductive invariant.
EInv ==
  /\ Typed /\ Good(rc) /\ Registered /\ Connecting /\ Parked
  /\ Reported(rc, t.connected, seen, delivered)

\* None of the uses that the switches stand for.
EpollWellUsed == WellUsed /\ ~MayRearmLate /\ ~MayStopEarly

-----------------------------------------------------------------------------
(* Events *)

\* From c to e a new event is put in the collector.
NewEvent(c, e) ==
  /\ c.ev = "none" /\ c.disc # "fini" /\ e.ev \in Events
  /\ e.pend = c.pend \ {e.ev}
  /\ e.ev = "CONNECTED" => "CONNECTED" \in c.pend
  /\ \/ e.disc = c.disc /\ e.ev \notin {"DRAIN_BUFFERS", "DISCONNECTED"}
     \/ e.disc = "drain_msg" /\ e.ev = "DRAIN_BUFFERS"
     \/ /\ e.disc = "fini" /\ e.ev = "DISCONNECTED"
        /\ c.disc = "init" => c.rread + c.written = 0

\* pni_raw_batch_has_events puts an event in an empty collector and leaves the state
\* and the buffers alone; a connection that has ended and has no more events has
\* reported DISCONNECTED.
LEMMA HasEventsIs ==
  ASSUME NEW c, Good(c), NEW e, e = pni_raw_batch_has_events(c)
  PROVE  /\ Good(e) /\ e.state = c.state /\ SameBuffers(c, e)
         /\ e.ev = "none" => e = c
         /\ e.ev = "none" /\ c.state = "fini" => c.disc = "fini"
         /\ c.disc = "fini" => e = c
         /\ e = c \/ NewEvent(c, e)
<1>1. c \in RawType /\ Counted(c)
  BY DEF Good, Open, Loose, Finished
<1>2. CASE c.ev # "none"
  <2>1. e = c
    BY <1>2 DEF pni_raw_batch_has_events
  <2> QED
    BY <1>2, <2>1 DEF SameBuffers
<1>3. CASE c.ev = "none" /\ c.pend # {}
  <2> DEFINE f == FirstPending(c.pend)
  <2>1. f \in c.pend /\ f \in Events
    BY <1>1, <1>3, FirstPendingIs DEF RawType, Events
  <2>2. e = [c EXCEPT !.ev = f, !.pend = @ \ {f}]
    BY <1>3 DEF pni_raw_batch_has_events
  <2>3. /\ c.pend \ {f} \in SUBSET Pending
        /\ f \notin {"none", "DRAIN_BUFFERS", "DISCONNECTED"}
    BY <1>1, <2>1 DEF RawType, Pending, PendingOrder
  <2> HIDE DEF f
  <2>4. /\ e \in RawType /\ e.state = c.state /\ e.pend = c.pend \ {f} /\ e.ev = f
        /\ SameBuffers(c, e) /\ e.disc = c.disc
        /\ e.disconnectpending = c.disconnectpending
    BY <1>1, <2>1, <2>2, <2>3, ZenonT(40) DEF RawType, SameBuffers
  <2>5. Good(e) /\ c.disc # "fini"
    BY <1>3, <2>4 DEF Good, Open, Loose, Finished, Counted, SameBuffers
  <2> QED
    BY <1>3, <2>1, <2>3, <2>4, <2>5 DEF NewEvent
<1>4. CASE c.ev = "none" /\ c.pend = {} /\ c.disconnectpending
  <2>1. Finished(c) /\ c.disc # "fini"
    BY <1>4 DEF Good, Open, Loose, Finished
  <2>2. \/ e = [c EXCEPT !.ev = "DRAIN_BUFFERS", !.disc = "drain_msg"]
        \/ /\ e = [c EXCEPT !.ev = "DISCONNECTED", !.disc = "fini",
                            !.disconnectpending = FALSE]
           /\ c.disc = "init" => c.rread + c.written = 0
    BY <1>1, <1>4 DEF pni_raw_batch_has_events, RawType
  <2>3. {"DRAIN_BUFFERS", "DISCONNECTED"} \subseteq Events
    BY DEF Events, Lifecycle
  <2>4. /\ e \in RawType /\ e.state = c.state /\ e.pend = {} /\ e.ev # "none"
        /\ SameBuffers(c, e)
        /\ \/ e.disc = "drain_msg" /\ e.disconnectpending /\ e.ev = "DRAIN_BUFFERS"
           \/ /\ e.disc = "fini" /\ ~e.disconnectpending /\ e.ev = "DISCONNECTED"
              /\ c.disc = "init" => c.rread + c.written = 0
    <3>1. CASE e = [c EXCEPT !.ev = "DRAIN_BUFFERS", !.disc = "drain_msg"]
      BY <1>1, <1>4, <2>3, <3>1, ZenonT(40) DEF RawType, SameBuffers
    <3>2. CASE /\ e = [c EXCEPT !.ev = "DISCONNECTED", !.disc = "fini",
                                !.disconnectpending = FALSE]
               /\ c.disc = "init" => c.rread + c.written = 0
      BY <1>1, <1>4, <2>3, <3>2, ZenonT(40) DEF RawType, SameBuffers
    <3> QED
      BY <2>2, <3>1, <3>2
  <2>5. Good(e)
    BY <2>1, <2>4 DEF Good, Finished, Counted, SameBuffers
  <2> QED
    BY <1>4, <2>1, <2>3, <2>4, <2>5 DEF NewEvent
<1>5. CASE c.ev = "none" /\ c.pend = {} /\ ~c.disconnectpending
  <2>1. \/ /\ e = [c EXCEPT !.ev = "NEED_WRITE_BUFFERS", !.wreq = TRUE]
           /\ ~pni_raw_wdrained(c)
        \/ /\ e = [c EXCEPT !.ev = "NEED_READ_BUFFERS", !.rreq = TRUE]
           /\ ~pni_raw_rclosed(c)
        \/ e = c
    BY <1>5 DEF pni_raw_batch_has_events
  <2>2. CASE e = c
    BY <1>5, <2>2 DEF SameBuffers, Good, Open, Loose, Finished
  <2>3. CASE e # c
    <3>1. Open(c) /\ c.state # "rs_ws" /\ c.state # "fini" /\ c.disc = "init"
      BY <2>1, <2>3 DEF Good, Open, Loose, Finished, pni_raw_wdrained, pni_raw_rclosed
    <3>2. {"NEED_WRITE_BUFFERS", "NEED_READ_BUFFERS"} \subseteq Events
      BY DEF Events
    <3>3. /\ e \in RawType /\ e.state = c.state /\ e.pend = {} /\ e.ev # "none"
          /\ SameBuffers(c, e) /\ e.disc = c.disc
          /\ e.disconnectpending = c.disconnectpending
          /\ e.ev \in {"NEED_WRITE_BUFFERS", "NEED_READ_BUFFERS"}
      <4>1. CASE e = [c EXCEPT !.ev = "NEED_WRITE_BUFFERS", !.wreq = TRUE]
        BY <1>1, <1>5, <3>2, <4>1, ZenonT(40) DEF RawType, SameBuffers
      <4>2. CASE e = [c EXCEPT !.ev = "NEED_READ_BUFFERS", !.rreq = TRUE]
        BY <1>1, <1>5, <3>2, <4>2, ZenonT(40) DEF RawType, SameBuffers
      <4> QED
        BY <2>1, <2>3, <4>1, <4>2
    <3>4. Good(e)
      BY <3>1, <3>3 DEF Good, Open, Loose, Counted, SameBuffers
    <3> QED
      BY <1>5, <3>1, <3>2, <3>3, <3>4 DEF NewEvent
  <2> QED
    BY <2>2, <2>3
<1> QED
  BY <1>2, <1>3, <1>4, <1>5

\* A call that keeps the connection Good owes the application no less.
LEMMA KeepsReported ==
  ASSUME NEW c, NEW d, NEW conn \in BOOLEAN, NEW sn, NEW dl,
         Good(c), Keeps(c, d), Reported(c, conn, sn, dl)
  PROVE  Reported(d, conn, sn, dl)
<1>1. c \in RawType /\ d \in RawType
  BY GoodClosed DEF Keeps
<1>2. d.disc = "fini" /\ d.rread + d.written > 0 => sn["DRAIN_BUFFERS"] > 0
  BY <1>1 DEF Keeps, Reported, RawType
<1> QED
  BY <1>2 DEF Keeps, Reports, Reported

\* Nor is anything lost when an event moves into the collector,
LEMMA HasEventsReported ==
  ASSUME NEW c, NEW conn \in BOOLEAN, NEW sn, NEW dl,
         Good(c), Reported(c, conn, sn, dl)
  PROVE  Reported(pni_raw_batch_has_events(c), conn, sn, dl)
<1> DEFINE e == pni_raw_batch_has_events(c)
<1>1. /\ Good(e) /\ e.state = c.state /\ SameBuffers(c, e)
      /\ e = c \/ NewEvent(c, e)
  BY HasEventsIs
<1> HIDE DEF e
<1>2. CASE e = c
  BY <1>2 DEF e
<1>3. CASE NewEvent(c, e)
  <2>1. c \in RawType /\ e \in RawType
    BY <1>1, GoodClosed
  <2>2. e.disc = "fini" /\ e.rread + e.written > 0 => sn["DRAIN_BUFFERS"] > 0
    BY <1>1, <1>3, <2>1 DEF NewEvent, Reported, SameBuffers, RawType
  <2>3. e.ev # "none"
    BY <1>3 DEF NewEvent, Events, Pending, PendingOrder, Lifecycle
  <2>4. Reported(e, conn, sn, dl)
    BY <1>1, <1>3, <2>2, <2>3 DEF NewEvent, Reported, pni_raw_rclosed, pni_raw_wclosed
  <2> QED
    BY <2>4 DEF e
<1> QED
  BY <1>1, <1>2, <1>3

\* or from the collector to the application.
LEMMA DeliveredReported ==
  ASSUME NEW e, NEW conn \in BOOLEAN, NEW sn, NEW dl, NEW sm,
         Good(e), Reported(e, conn, sn, dl), e.ev # "none",
         sm = [f \in Lifecycle |-> IF f = e.ev /\ sn[f] < 2 THEN sn[f] + 1 ELSE sn[f]]
  PROVE  LET d == [e EXCEPT !.ev = "none"]
         IN  /\ Good(d) /\ d.state = e.state /\ dl # "DISCONNECTED"
             /\ Reported(d, conn, sm, e.ev)
<1> DEFINE d == [e EXCEPT !.ev = "none"]
<1>1. e \in RawType
  BY GoodClosed
<1>2. /\ d \in RawType /\ d.state = e.state /\ d.pend = e.pend /\ d.ev = "none"
      /\ SameBuffers(e, d) /\ d.disc = e.disc
      /\ d.disconnectpending = e.disconnectpending
  BY <1>1 DEF RawType, SameBuffers
<1> HIDE DEF d
<1>3. Good(d)
  BY <1>2 DEF Good, Open, Loose, Finished, Counted, SameBuffers
<1>4. sm \in [Lifecycle -> 0..2]
  BY DEF Reported
<1>5. \A f \in Lifecycle : /\ sn[f] > 0 => sm[f] > 0
                           /\ f = e.ev => sm[f] > 0
                           /\ f # e.ev => sm[f] = sn[f]
  BY DEF Reported
<1>6. {"CONNECTED", "CLOSED_READ", "CLOSED_WRITE", "DRAIN_BUFFERS"} \subseteq Lifecycle
  BY DEF Lifecycle
<1>7. e.ev \in Events /\ dl # "DISCONNECTED"
  BY <1>1 DEF RawType, Reported
<1>8. d.disc = "fini" /\ d.rread + d.written > 0 => sm["DRAIN_BUFFERS"] > 0
  BY <1>2, <1>5, <1>6 DEF Reported, SameBuffers
<1>9. Reported(d, conn, sm, e.ev)
  BY <1>2, <1>4, <1>5, <1>6, <1>7, <1>8 DEF Reported, pni_raw_rclosed, pni_raw_wclosed
<1> QED
  BY <1>2, <1>3, <1>7, <1>9 DEF d

-----------------------------------------------------------------------------
(* The kernel and the poller *)

\* The initial state satisfies EInv.
LEMMA InitEInv ==
  ASSUME EpollInit
  PROVE  EInv
<1>1. rc \in RawType
  BY RawBounds DEF EpollInit, pni_raw_initialize, RawType, States, Pending
<1>2. Good(rc)
  BY <1>1 DEF EpollInit, pni_raw_initialize, Good, Open, Loose, Counted, States, Draining
<1>3. Typed
  <2>1. 0 \in 0..MaxAddresses
    BY EpollBounds
  <2> QED
    BY <2>1, Zenon DEF EpollInit, Typed, TaskType, Sockets
<1>4. Registered /\ Connecting /\ Parked
  BY DEF EpollInit, Registered, Connecting, Unused, Unconnected, Tells, Parked,
         pni_raw_initialize
<1>5. Reported(rc, t.connected, seen, delivered)
  BY DEF EpollInit, Reported, pni_raw_initialize, Lifecycle
<1> QED
  BY <1>2, <1>3, <1>4, <1>5 DEF EInv

\* A connecting socket has something to tell when it shows an event.
LEMMA SocketTells ==
  ASSUME link \in Sockets, SocketEvents \cap Flags # {}
  PROVE  Tells(SocketEvents \cap Flags)
<1>1. CASE link \in {"none", "connecting"}
  BY <1>1 DEF SocketEvents
<1>2. CASE link = "failed"
  BY <1>2 DEF SocketEvents, Tells, Flags
<1>3. CASE link = "shut"
  BY <1>3 DEF SocketEvents, Tells, Flags, Interests
<1>4. CASE link = "up"
  BY <1>4 DEF SocketEvents, Tells, Flags, Interests
<1> QED
  BY <1>1, <1>2, <1>3, <1>4 DEF Sockets

\* epoll_wait hands the registration to the poller.
LEMMA WaitEInv ==
  ASSUME EInv, epoll_wait
  PROVE  EInv'
<1> DEFINE H == SocketEvents \cap (t.wanted \cup {"ERR", "HUP"})
<1>1. /\ t.kernel /\ H # {} /\ t' = [t EXCEPT !.kernel = FALSE, !.harvested = H]
      /\ UNCHANGED <<rc, seen, delivered, link, peer, data>>
  BY DEF epoll_wait
<1>2. t \in TaskType /\ link \in Sockets
  BY DEF EInv, Typed
<1>3. H \in SUBSET Flags
  BY <1>2 DEF TaskType, Flags
<1>4. ~t.connected => Tells(H)
  <2> SUFFICES ASSUME ~t.connected
               PROVE  Tells(H)
    OBVIOUS
  <2>1. t.wanted = Interests
    BY <1>1 DEF EInv, Connecting, Unconnected
  <2>2. H = SocketEvents \cap Flags
    BY <2>1 DEF Flags
  <2> QED
    BY <1>1, <1>2, <2>2, SocketTells
<1> HIDE DEF H
<1>5. /\ t' \in TaskType /\ ~t'.kernel /\ t'.harvested = H /\ t'.sched_io = t.sched_io
      /\ t'.phase = t.phase /\ t'.ready = t.ready /\ t'.waking = t.waking
      /\ t'.closing = t.closing /\ t'.armed = t.armed /\ t'.connected = t.connected
      /\ t'.disconnected = t.disconnected /\ t'.first_schedule = t.first_schedule
      /\ t'.lookup = t.lookup
  BY <1>1, <1>2, <1>3, ZenonT(40) DEF TaskType
<1>6. Typed'
  BY <1>1, <1>5 DEF EInv, Typed
<1>7. Registered'
  BY <1>1, <1>5 DEF EInv, Registered
<1>8. Connecting'
  BY <1>1, <1>4, <1>5 DEF EInv, Connecting, Unused, Unconnected
<1>9. Parked'
  BY <1>1, <1>5 DEF EInv, Parked, WakeNotLost, Attended
<1> QED
  BY <1>1, <1>5, <1>6, <1>7, <1>8, <1>9 DEF EInv

\* post_event hands it to the scheduler.
LEMMA PostEInv ==
  ASSUME EInv, post_event
  PROVE  EInv'
<1>1. /\ t.harvested # {} /\ t' = [t EXCEPT !.sched_io = t.harvested, !.harvested = {}]
      /\ UNCHANGED <<rc, seen, delivered, link, peer, data>>
  BY DEF post_event
<1>2. t \in TaskType
  BY DEF EInv, Typed
<1>3. /\ t' \in TaskType /\ t'.harvested = {} /\ t'.sched_io = t.harvested
      /\ t'.phase = t.phase /\ t'.ready = t.ready /\ t'.waking = t.waking
      /\ t'.closing = t.closing /\ t'.armed = t.armed /\ t'.connected = t.connected
      /\ t'.disconnected = t.disconnected /\ t'.first_schedule = t.first_schedule
      /\ t'.lookup = t.lookup /\ t'.kernel = t.kernel
  BY <1>1, <1>2, Zenon DEF TaskType
<1>4. Typed'
  BY <1>1, <1>3 DEF EInv, Typed
<1>5. Registered'
  BY <1>1, <1>3 DEF EInv, Registered
<1>6. Connecting'
  BY <1>1, <1>3 DEF EInv, Registered, Connecting, Unused, Unconnected, Tells
<1>7. Parked'
  BY <1>1, <1>3 DEF EInv, Parked, WakeNotLost, Attended
<1> QED
  BY <1>1, <1>3, <1>4, <1>5, <1>6, <1>7 DEF EInv

\* The other end changes only what its socket shows.
LEMMA NetworkEInv ==
  ASSUME EInv, Network
  PROVE  EInv'
<1>1. /\ UNCHANGED <<rc, seen, delivered, t>>
      /\ link' = link \/ (link = "connecting" /\ link' \in {"up", "failed"})
      /\ peer' \in {peer, "fin", "rst"} /\ data' \in {data, TRUE}
  BY Zenon DEF Network
<1>2. Typed'
  BY <1>1, Zenon DEF EInv, Typed, Sockets
<1>3. Registered' /\ Connecting' /\ Parked'
  BY <1>1 DEF EInv, Registered, Connecting, Unused, Unconnected, Parked, WakeNotLost,
              Attended
<1> QED
  BY <1>1, <1>2, <1>3 DEF EInv

-----------------------------------------------------------------------------
(* Starting *)

\* pn_proactor_raw_connect schedules the task for the first time.
LEMMA RawConnectEInv ==
  ASSUME EInv, pn_proactor_raw_connect
  PROVE  EInv'
<1>1. /\ t.phase = "new" /\ UNCHANGED <<rc, seen, delivered, link, peer, data>>
      /\ t' = [[t EXCEPT !.phase = "idle", !.first_schedule = TRUE] EXCEPT !.ready = TRUE]
  BY DEF pn_proactor_raw_connect, schedule, EInv, Typed, TaskType
<1>2. t \in TaskType
  BY DEF EInv, Typed
<1>3. /\ t' \in TaskType /\ t'.phase = "idle" /\ t'.first_schedule /\ t'.ready
      /\ t'.waking = t.waking /\ t'.closing = t.closing /\ t'.armed = t.armed
      /\ t'.connected = t.connected /\ t'.disconnected = t.disconnected
      /\ t'.lookup = t.lookup /\ t'.kernel = t.kernel /\ t'.wanted = t.wanted
      /\ t'.current_arm = t.current_arm /\ t'.harvested = t.harvested
      /\ t'.sched_io = t.sched_io
  BY <1>1, <1>2, ZenonT(40) DEF TaskType
<1>4. Unused
  BY <1>1 DEF EInv, Connecting
<1>5. Typed' /\ Registered' /\ Connecting' /\ Parked'
  BY <1>1, <1>3, <1>4
     DEF EInv, Typed, Registered, Connecting, Unused, Unconnected, Parked, WakeNotLost,
         Attended
<1> QED
  BY <1>1, <1>3, <1>5 DEF EInv

\* pni_raw_connected and pni_raw_connect_failed report what they should.
LEMMA ConnectReported ==
  ASSUME NEW c, Good(c), c.state = "init", NEW sn, NEW dl, Reported(c, FALSE, sn, dl)
  PROVE  /\ Reported(pni_raw_connected(c), TRUE, sn, dl)
         /\ Reported(pni_raw_connect_failed(c), FALSE, sn, dl)
<1>1. c.disc = "init"
  BY DEF Good, Open, Loose, Finished
<1> DEFINE d == pni_raw_connected(c)
           f == pni_raw_connect_failed(c)
<1>2. d.state = "ro_wo" /\ d.disc = "init" /\ d.ev = c.ev
  BY ConnectedIs
<1>3. f.state = "fini" /\ f.disc = "init" /\ f.ev = c.ev /\ f.pend = c.pend
  BY ConnectFailedIs
<1> HIDE DEF d, f
<1>4. Reported(d, TRUE, sn, dl)
  BY <1>1, <1>2 DEF Reported, pni_raw_rclosed, pni_raw_wclosed
<1>5. Reported(f, FALSE, sn, dl)
  BY <1>1, <1>3 DEF Reported
<1> QED
  BY <1>4, <1>5, Zenon DEF d, f

\* pn_listener_raw_accept starts with a connected socket or with a failure.
LEMMA RawAcceptEInv ==
  ASSUME EInv, pn_listener_raw_accept
  PROVE  EInv'
<1>1. /\ t.phase = "new" /\ UNCHANGED <<seen, delivered, peer, data>>
      /\ t \in TaskType /\ Unused /\ ~t.armed /\ Good(rc)
      /\ Reported(rc, FALSE, seen, delivered)
  BY Zenon DEF pn_listener_raw_accept, EInv, Typed, Connecting, Unused, Registered, TaskType
<1>2. ~t.kernel /\ t.harvested = {} /\ t.sched_io = {}
  BY <1>1 DEF EInv, Registered
<1>3. CASE /\ link' = "up" /\ rc' = pni_raw_connected(rc)
           /\ t' = [Poll(t, Interests) EXCEPT !.phase = "idle", !.connected = TRUE]
  <2>1. /\ t' \in TaskType /\ t'.phase = "idle" /\ t'.connected /\ t'.armed /\ t'.kernel
        /\ t'.wanted = Interests /\ t'.current_arm = Interests
        /\ t'.waking = t.waking /\ t'.closing = t.closing
        /\ t'.disconnected = t.disconnected /\ t'.first_schedule = t.first_schedule
        /\ t'.lookup = t.lookup /\ t'.harvested = {} /\ t'.sched_io = {}
    BY <1>1, <1>2, <1>3, ZenonT(40) DEF TaskType, Poll
  <2>2. Good(rc') /\ rc'.state = "ro_wo" /\ Reported(rc', TRUE, seen, delivered)
    BY <1>1, <1>3, ConnectedIs, ConnectReported, Zenon DEF Unused
  <2>3. Typed' /\ Registered' /\ Connecting'
    BY <1>1, <1>3, <2>1, <2>2 DEF EInv, Typed, Sockets, Registered, Connecting, Unused
  <2>4. Parked'
    BY <1>1, <2>1, <2>2 DEF Unused, Parked, WakeNotLost, Attended, Interests
  <2> QED
    BY <1>1, <2>1, <2>2, <2>3, <2>4, Zenon DEF EInv
<1>4. CASE /\ link' = link /\ rc' = pni_raw_connect_failed(rc)
           /\ t' = schedule([t EXCEPT !.phase = "idle"])
  <2>1. t' = [[t EXCEPT !.phase = "idle"] EXCEPT !.ready = TRUE]
    BY <1>1, <1>4 DEF schedule, TaskType
  <2>2. /\ t' \in TaskType /\ t'.phase = "idle" /\ t'.ready
        /\ t'.connected = t.connected /\ t'.armed = t.armed /\ t'.kernel = t.kernel
        /\ t'.waking = t.waking /\ t'.closing = t.closing
        /\ t'.disconnected = t.disconnected /\ t'.first_schedule = t.first_schedule
        /\ t'.lookup = t.lookup /\ t'.harvested = {} /\ t'.sched_io = {}
    BY <1>1, <1>2, <2>1, Zenon DEF TaskType
  <2>3. Good(rc') /\ rc'.state = "fini" /\ Reported(rc', FALSE, seen, delivered)
    BY <1>1, <1>4, ConnectFailedIs, ConnectReported, Zenon DEF Unused
  <2>4. Typed' /\ Registered' /\ Connecting'
    BY <1>1, <1>2, <1>4, <2>2, <2>3
       DEF EInv, Typed, Registered, Connecting, Unused, Unconnected, Tells
  <2>5. Parked'
    BY <1>1, <1>4, <2>2, <2>3 DEF Unused, Parked, WakeNotLost, Attended
  <2>6. t'.connected = FALSE
    BY <1>1, <2>2 DEF Unused, TaskType
  <2> QED
    BY <1>1, <2>3, <2>4, <2>5, <2>6, Zenon DEF EInv
<1> QED
  BY <1>3, <1>4 DEF pn_listener_raw_accept

\* The task's flags and its registration are left alone.
SameFlags(x, y) ==
  /\ y.waking = x.waking /\ y.closing = x.closing /\ y.connected = x.connected
  /\ y.disconnected = x.disconnected /\ y.first_schedule = x.first_schedule
  /\ y.lookup = x.lookup

SameArm(x, y) ==
  /\ y.armed = x.armed /\ y.kernel = x.kernel /\ y.wanted = x.wanted
  /\ y.current_arm = x.current_arm /\ y.harvested = x.harvested
  /\ y.sched_io = x.sched_io

\* schedule only makes a task ready that is not being worked on.
LEMMA ScheduleIs ==
  ASSUME NEW x \in TaskType
  PROVE  LET y == schedule(x)
         IN  /\ y \in TaskType /\ y.phase = x.phase
             /\ x.phase # "working" => y.ready
             /\ SameFlags(x, y) /\ SameArm(x, y)
<1>1. CASE x.phase = "working"
  BY <1>1 DEF schedule, SameFlags, SameArm
<1>2. CASE x.phase # "working"
  BY <1>2, Zenon DEF schedule, SameFlags, SameArm, TaskType
<1> QED
  BY <1>1, <1>2

\* Poll arms the registration.
LEMMA PollIs ==
  ASSUME NEW x \in TaskType, NEW w \in SUBSET Interests
  PROVE  LET y == Poll(x, w)
         IN  /\ y \in TaskType /\ y.phase = x.phase /\ y.ready = x.ready
             /\ SameFlags(x, y) /\ y.armed /\ y.kernel
             /\ y.wanted = w /\ y.current_arm = w
             /\ y.harvested = x.harvested /\ y.sched_io = x.sched_io
  BY Zenon DEF Poll, TaskType, SameFlags

\* praw_connection_maybe_connect_lh leaves a closing connection alone; else it polls
\* for the end of a connect or reports that none started.
LEMMA MaybeConnectIs ==
  ASSUME NEW x \in TaskType, NEW m \in MaybeConnect(x)
  PROVE  LET y == m[1]
         IN  \/ x.closing /\ m = <<x, link>>
             \/ /\ ~x.closing /\ m[2] = "connecting" /\ y \in TaskType
                /\ y.phase = x.phase /\ y.ready = x.ready /\ SameFlags(x, y)
                /\ y.armed /\ y.kernel /\ y.wanted = Interests
                /\ y.current_arm = Interests
                /\ y.harvested = x.harvested /\ y.sched_io = x.sched_io
             \/ /\ ~x.closing /\ m[2] = link /\ y \in TaskType
                /\ y.phase = x.phase /\ y.ready = x.ready /\ SameArm(x, y)
                /\ y.disconnected /\ y.waking = x.waking /\ y.closing = x.closing
                /\ y.connected = x.connected /\ y.lookup = x.lookup
                /\ y.first_schedule = x.first_schedule
<1>1. CASE x.closing
  BY <1>1 DEF MaybeConnect
<1>2. CASE ~x.closing /\ m = <<[x EXCEPT !.addresses = 0, !.disconnected = TRUE], link>>
  <2>1. 0 \in 0..MaxAddresses
    BY EpollBounds
  <2> QED
    BY <1>2, <2>1, Zenon DEF TaskType, SameArm
<1>3. ASSUME ~x.closing, NEW n \in 0..(x.addresses - 1),
             m = <<[Poll(x, Interests) EXCEPT !.addresses = n], "connecting">>
      PROVE  /\ m[2] = "connecting" /\ m[1] \in TaskType
             /\ m[1].phase = x.phase /\ m[1].ready = x.ready /\ SameFlags(x, m[1])
             /\ m[1].armed /\ m[1].kernel /\ m[1].wanted = Interests
             /\ m[1].current_arm = Interests
             /\ m[1].harvested = x.harvested /\ m[1].sched_io = x.sched_io
  <2> DEFINE p == Poll(x, Interests)
  <2>1. n \in 0..MaxAddresses
    BY <1>3, EpollBounds DEF TaskType
  <2>2. /\ p \in TaskType /\ p.phase = x.phase /\ p.ready = x.ready
        /\ SameFlags(x, p) /\ p.armed /\ p.kernel
        /\ p.wanted = Interests /\ p.current_arm = Interests
        /\ p.harvested = x.harvested /\ p.sched_io = x.sched_io
    BY PollIs
  <2> HIDE DEF p
  <2>3. m[1] = [p EXCEPT !.addresses = n]
    BY <1>3 DEF p
  <2> QED
    BY <1>3, <2>1, <2>2, <2>3 DEF TaskType, SameFlags
<1>4. CASE ~x.closing
  <2>1. \/ m = <<[x EXCEPT !.addresses = 0, !.disconnected = TRUE], link>>
        \/ \E n \in 0..(x.addresses - 1) :
             m = <<[Poll(x, Interests) EXCEPT !.addresses = n], "connecting">>
    BY <1>4 DEF MaybeConnect
  <2> QED
    BY <1>2, <1>3, <1>4, <2>1
<1> QED
  BY <1>1, <1>4

\* raw_connection_lookup_done_lh starts a connect or schedules the task.
LEMMA LookupEInv ==
  ASSUME EInv, raw_connection_lookup_done
  PROVE  EInv'
<1>1. /\ t.phase \in {"idle", "working"} /\ t.lookup /\ t \in TaskType
      /\ UNCHANGED <<rc, seen, delivered, peer, data>>
      /\ ~t.armed /\ ~t.connected /\ link = "none" /\ ~t.disconnected
      /\ ~t.first_schedule /\ Unconnected
      /\ rc.state = "fini" => t.closing
      /\ link \in Sockets /\ peer \in {"open", "fin", "rst"} /\ data \in BOOLEAN
  BY Zenon DEF raw_connection_lookup_done, Alive, EInv, Typed, Connecting, Unconnected
<1>2. ~t.kernel /\ t.harvested = {} /\ t.sched_io = {}
  BY <1>1 DEF EInv, Registered
<1>3. ~pni_raw_can_read(rc) /\ ~pni_raw_can_write(rc)
  BY <1>1 DEF Unconnected, EInv, Good, Open, Loose, Finished, RawType, pni_raw_can_read,
              pni_raw_can_write, pni_raw_ropen, pni_raw_wdrained
<1>4. ASSUME link' = "none", t' \in TaskType, t'.phase = t.phase,
             t'.phase = "idle" => t'.ready, SameArm(t, t'), ~t'.connected,
             t'.closing = t.closing, ~t'.first_schedule, ~t'.lookup,
             t'.disconnected => ~t.closing
      PROVE  EInv'
  <2>1. Typed' /\ Registered'
    BY <1>1, <1>2, <1>4 DEF Typed, Sockets, Registered, SameArm
  <2>2. Connecting'
    BY <1>1, <1>2, <1>4 DEF Connecting, Unconnected, Tells, SameArm
  <2>3. Parked'
    BY <1>1, <1>4 DEF Parked, WakeNotLost, Unconnected
  <2>4. t'.connected = t.connected
    BY <1>1, <1>4 DEF TaskType
  <2> QED
    BY <1>1, <2>1, <2>2, <2>3, <2>4 DEF EInv
<1>5. CASE t' = schedule([t EXCEPT !.lookup = FALSE]) /\ link' = link
  <2> DEFINE x == [t EXCEPT !.lookup = FALSE]
  <2>1. /\ x \in TaskType /\ x.phase = t.phase /\ SameArm(t, x) /\ ~x.connected
        /\ x.closing = t.closing /\ ~x.first_schedule /\ ~x.lookup /\ ~x.disconnected
    BY <1>1, Zenon DEF TaskType, SameArm
  <2> HIDE DEF x
  <2>2. t' = schedule(x)
    BY <1>5 DEF x
  <2> QED
    BY <1>1, <1>4, <1>5, <2>1, <2>2, ScheduleIs DEF SameArm, SameFlags
<1>6. ASSUME NEW n \in 1..MaxAddresses,
             NEW m \in MaybeConnect([t EXCEPT !.lookup = FALSE, !.addresses = n]),
             link' = m[2],
             t' = IF m[2] # "none" /\ ~t.waking THEN m[1] ELSE schedule(m[1])
      PROVE  EInv'
  <2> DEFINE x == [t EXCEPT !.lookup = FALSE, !.addresses = n]
             y == m[1]
  <2>1. /\ x \in TaskType /\ x.phase = t.phase /\ SameArm(t, x) /\ ~x.connected
        /\ x.closing = t.closing /\ ~x.first_schedule /\ ~x.lookup /\ ~x.disconnected
        /\ x.waking = t.waking
    <3>1. n \in 0..MaxAddresses
      BY EpollBounds
    <3> QED
      BY <1>1, <3>1, Zenon DEF TaskType, SameArm
  <2>2. m \in MaybeConnect(x)
    BY <1>6
  <2> HIDE DEF x
  <2>3. CASE x.closing /\ m = <<x, link>>
    BY <1>1, <1>4, <1>6, <2>1, <2>3, ScheduleIs, ZenonT(40) DEF SameArm, SameFlags
  <2>4. CASE /\ ~x.closing /\ m[2] = link /\ y \in TaskType
             /\ y.phase = x.phase /\ y.ready = x.ready /\ SameArm(x, y)
             /\ y.disconnected /\ y.waking = x.waking /\ y.closing = x.closing
             /\ y.connected = x.connected /\ y.lookup = x.lookup
             /\ y.first_schedule = x.first_schedule
    <3>1. t' = schedule(y)
      BY <1>1, <1>6, <2>4
    <3> HIDE DEF y
    <3> QED
      BY <1>1, <1>4, <1>6, <2>1, <2>4, <3>1, ScheduleIs DEF SameArm, SameFlags
  <2>5. CASE /\ ~x.closing /\ m[2] = "connecting" /\ y \in TaskType
             /\ y.phase = x.phase /\ y.ready = x.ready /\ SameFlags(x, y)
             /\ y.armed /\ y.kernel /\ y.wanted = Interests
             /\ y.current_arm = Interests
             /\ y.harvested = x.harvested /\ y.sched_io = x.sched_io
    <3>1. t' = IF ~t.waking THEN y ELSE schedule(y)
      BY <1>6, <2>5
    <3> HIDE DEF y
    <3>2. /\ t' \in TaskType /\ t'.phase = t.phase /\ SameFlags(y, t') /\ SameArm(y, t')
          /\ t.waking /\ t'.phase = "idle" => t'.ready
      BY <2>1, <2>5, <3>1, ScheduleIs, Zenon DEF SameFlags, SameArm
    <3>3. /\ link' = "connecting" /\ rc.state = "init" /\ rc' = rc
          /\ t'.armed /\ t'.kernel /\ t'.wanted = Interests /\ t'.current_arm = Interests
          /\ t'.harvested = {} /\ t'.sched_io = {} /\ ~t'.connected /\ ~t'.closing
          /\ ~t'.first_schedule /\ ~t'.lookup /\ ~t'.disconnected
          /\ t'.waking = t.waking
      BY <1>1, <1>2, <1>6, <2>1, <2>5, <3>2, ZenonT(40) DEF SameArm, SameFlags, Unconnected
    <3>4. Typed' /\ Registered' /\ Connecting'
      BY <1>1, <3>2, <3>3 DEF Typed, Sockets, Registered, Connecting, Unconnected, Tells
    <3>5. ~pni_raw_can_read(rc') /\ ~pni_raw_can_write(rc')
      BY <1>3, <3>3
    <3>6. Parked'
      BY <3>2, <3>3, <3>5 DEF Parked, WakeNotLost, Attended
    <3>7. t'.connected = t.connected
      BY <1>1, <3>2, <3>3 DEF TaskType
    <3> QED
      BY <1>1, <3>4, <3>6, <3>7 DEF EInv
  <2> QED
    BY <2>1, <2>2, <2>3, <2>4, <2>5, MaybeConnectIs
<1> QED
  BY <1>5, <1>6, Zenon DEF raw_connection_lookup_done

-----------------------------------------------------------------------------
(* Running *)

\* What the task is when it starts to run: the event it runs for has been taken.
Taken(x, io) ==
  /\ x \in TaskType /\ x.phase = t.phase
  /\ x.waking => pni_raw_can_wake(rc)
  /\ x.closing = t.closing /\ x.connected = t.connected
  /\ x.disconnected = t.disconnected /\ x.first_schedule = t.first_schedule
  /\ x.lookup = t.lookup /\ x.sched_io = {}
  /\ x.kernel = t.kernel /\ x.wanted = t.wanted /\ x.harvested = t.harvested
  /\ x.armed <=> x.kernel \/ x.harvested # {}
  /\ x.kernel => x.harvested = {} /\ x.wanted = x.current_arm
  /\ x.armed => t.armed
  /\ io # {} => t.armed /\ ~x.armed
  /\ io = {} => x.armed = t.armed
  /\ io = t.sched_io

\* praw_initiate_cleanup of a finished connection frees it, or waits for the event
\* that is armed after it has shut the socket.
LEMMA CleanupEInv ==
  ASSUME EInv, NEW x \in TaskType, praw_initiate_cleanup(x),
         UNCHANGED <<seen, delivered, peer, data>>,
         Good(rc'), Reported(rc', t.connected, seen, delivered),
         pni_raw_finished(rc'), x.phase = "idle", ~x.lookup, ~x.first_schedule,
         x.closing = t.closing, x.connected = t.connected,
         x.disconnected = t.disconnected, x.disconnected => ~x.armed,
         ~x.connected => Unconnected /\ rc'.state = rc.state,
         x.armed => t.armed /\ (x.kernel \/ x.harvested # {} \/ x.sched_io # {}),
         ~x.armed => ~x.kernel /\ x.harvested = {} /\ x.sched_io = {},
         x.kernel => x.harvested = {} /\ x.sched_io = {} /\ x.wanted = x.current_arm,
         x.kernel => t.kernel /\ x.wanted = t.wanted, x.harvested = t.harvested,
         x.sched_io \in {{}, t.sched_io}, x.harvested # {} => x.sched_io = {}
  PROVE  EInv'
<1>1. /\ Typed /\ Connecting /\ UNCHANGED <<seen, delivered, peer, data>>
      /\ x.connected => link # "none"
  BY DEF EInv, Connecting
<1>2. rc'.state = "fini" /\ rc'.disc = "fini" /\ rc'.ev = "none"
  BY DEF pni_raw_finished, Good, Open, Loose, Finished
<1>3. ~x.connected => Tells(x.harvested) /\ Tells(x.sched_io)
  BY Zenon DEF Unconnected, Tells
<1>4. ~pni_raw_can_wake(rc') /\ ~pni_raw_can_read(rc') /\ ~pni_raw_can_write(rc')
  BY <1>2 DEF pni_raw_can_wake, pni_raw_can_read, pni_raw_can_write, pni_raw_ropen,
              pni_raw_wdrained
<1>5. pni_raw_batch_has_events(rc').ev = "none"
  BY <1>2, HasEventsIs
<1>6. CASE x.armed
  <2>1. t' = x /\ link' = IF link # "none" THEN "shut" ELSE link
    BY <1>6 DEF praw_initiate_cleanup
  <2>2. Typed' /\ Registered'
    BY <1>1, <1>6, <2>1 DEF Typed, Sockets, Registered
  <2>3. ~x.connected => Unconnected'
    BY <1>2, <1>3, <1>6, <2>1 DEF Unconnected
  <2>4. Connecting'
    BY <1>1, <1>2, <1>6, <2>1, <2>3 DEF Connecting
  <2>5. Parked'
    BY <1>2, <1>4, <1>5, <1>6, <2>1 DEF Parked, WakeNotLost, Attended, pni_raw_finished
  <2> QED
    BY <1>1, <2>1, <2>2, <2>4, <2>5 DEF EInv
<1>7. CASE ~x.armed
  <2>1. t' = [x EXCEPT !.phase = "freed", !.kernel = FALSE] /\ link' = link
    BY <1>7 DEF praw_initiate_cleanup
  <2>2. /\ t' \in TaskType /\ t'.phase = "freed" /\ ~t'.kernel /\ ~t'.armed
        /\ t'.harvested = {} /\ t'.sched_io = {} /\ ~t'.lookup /\ ~t'.first_schedule
        /\ t'.connected = x.connected /\ t'.disconnected = x.disconnected
    BY <1>7, <2>1, Zenon DEF TaskType
  <2>3. Typed' /\ Registered' /\ Parked'
    BY <1>1, <2>1, <2>2 DEF Typed, Registered, Parked
  <2>4. Connecting'
    BY <1>1, <1>2, <2>1, <2>2 DEF Connecting, Unconnected, Tells
  <2> QED
    BY <1>1, <2>2, <2>3, <2>4, Zenon DEF EInv
<1> QED
  BY <1>6, <1>7

\* A step that hands the batch to the application.
LEMMA WorkingEInv ==
  ASSUME EInv, NEW x, NEW io, Taken(x, io), UNCHANGED <<seen, delivered, peer>>,
         data' \in BOOLEAN, link' \in Sockets, t' \in TaskType, t'.phase = "working",
         SameArm(x, t'), t'.first_schedule = FALSE,
         Good(rc'), Reported(rc', t'.connected, seen, delivered),
         Connecting'
  PROVE  EInv'
<1>1. Typed'
  BY DEF EInv, Typed
<1>2. Registered' /\ Parked'
  BY DEF Registered, Parked, Taken, SameArm
<1> QED
  BY <1>1, <1>2 DEF EInv

\* The first run starts the name lookup.
LEMMA FirstEInv ==
  ASSUME EInv, NEW x, NEW io, Taken(x, io), t.phase = "idle", x.first_schedule,
         t' = [x EXCEPT !.first_schedule = FALSE, !.lookup = TRUE,
                        !.phase = IF x.waking THEN "working" ELSE "idle"],
         UNCHANGED <<rc, link, data, seen, delivered, peer>>
  PROVE  EInv'
<1>1. /\ x \in TaskType /\ rc.state = "init" /\ ~t.armed /\ ~t.connected
      /\ link = "none" /\ ~t.disconnected /\ Unconnected
  BY DEF EInv, Connecting, Taken
<1>2. /\ t' \in TaskType /\ t'.phase = (IF x.waking THEN "working" ELSE "idle")
      /\ SameArm(x, t') /\ t'.lookup /\ ~t'.first_schedule /\ t'.connected = x.connected
      /\ t'.closing = x.closing /\ t'.disconnected = x.disconnected
      /\ t'.waking = x.waking
  BY <1>1, ZenonT(40) DEF TaskType, SameArm
<1>3. Typed' /\ Registered'
  BY <1>1, <1>2 DEF EInv, Typed, Registered, Taken, SameArm
<1>4. Connecting'
  BY <1>1, <1>2 DEF Connecting, Unconnected, Taken, SameArm, Tells
<1>5. Parked'
  BY <1>1, <1>2 DEF Parked, WakeNotLost
<1> QED
  BY <1>2, <1>3, <1>4, <1>5 DEF EInv, Taken

\* A task that is not connected hears how its connect ended, tries the next address
\* or gives up.
LEMMA ConnectingEInv ==
  ASSUME EInv, NEW x, NEW io, Taken(x, io), t.phase = "idle", ~x.closing, ~x.connected,
         ~(pni_raw_finished(rc) /\ ~x.lookup), ProcessConnecting(x, io),
         UNCHANGED <<seen, delivered, peer>>
  PROVE  EInv'
<1>1. CASE x.first_schedule
  BY <1>1, FirstEInv, Zenon DEF ProcessConnecting
<1>2. CASE ~x.first_schedule
  <2> DEFINE Ended == io \cap {"HUP", "ERR"} # {}
  <2>1. PICK m \in (IF Ended THEN MaybeConnect(x) ELSE {<<x, link>>}) :
          /\ link' = m[2]
          /\ IF m[1].disconnected
             THEN /\ rc' = pni_raw_connect_failed(rc)
                  /\ t' = [m[1] EXCEPT !.phase = "working"]
             ELSE IF Ended
             THEN /\ UNCHANGED rc
                  /\ t' = [m[1] EXCEPT !.phase =
                       IF (x.waking /\ pni_raw_can_wake(rc)) \/ "WAKE" \in rc.pend \/ rc.ev # "none"
                       THEN "working" ELSE "idle"]
             ELSE IF "OUT" \in io
             THEN /\ rc' = pni_raw_connected(rc)
                  /\ t' = [x EXCEPT !.phase = "working", !.connected = TRUE]
             ELSE UNCHANGED rc /\ t' = [x EXCEPT !.phase = "working"]
    BY <1>2 DEF ProcessConnecting
  <2>2. /\ x \in TaskType /\ Unconnected /\ Connecting /\ Typed /\ Good(rc) /\ data' = data
        /\ ~t.connected /\ ~t.closing /\ ~t.first_schedule
        /\ Reported(rc, FALSE, seen, delivered)
    BY <1>2, Zenon DEF EInv, Connecting, Taken, ProcessConnecting, Typed, TaskType
  <2>3. /\ io # {} => /\ t.armed /\ ~t.disconnected /\ ~t.lookup /\ rc.state = "init"
                      /\ link # "none"
        /\ t.disconnected => rc.state = "init" /\ ~t.armed /\ ~t.lookup
    BY <2>2, Zenon DEF Taken, Connecting, Unconnected, EInv, Parked
  <2>4. ASSUME rc.state = "init", NEW y \in TaskType, t' = [y EXCEPT !.phase = "working"],
               rc' = pni_raw_connect_failed(rc), SameArm(x, y), ~x.armed,
               ~y.connected, ~y.closing, ~y.lookup, ~y.first_schedule, link' = link
        PROVE  EInv'
    <3>1. /\ t' \in TaskType /\ t'.phase = "working" /\ SameArm(x, t')
          /\ ~t'.connected /\ ~t'.closing /\ ~t'.lookup /\ ~t'.first_schedule
      BY <2>4 DEF TaskType, SameArm
    <3>2. Good(rc') /\ rc'.state = "fini" /\ Reported(rc', FALSE, seen, delivered)
      BY <2>2, <2>4, ConnectFailedIs, ConnectReported, Zenon
    <3>3. ~t'.armed /\ ~t'.kernel /\ t'.harvested = {} /\ t'.sched_io = {}
      BY <2>4, <3>1 DEF SameArm, Taken
    <3>4. Connecting'
      BY <2>2, <2>4, <3>1, <3>2, <3>3 DEF Connecting, Unconnected, Tells
    <3>5. t'.connected = FALSE /\ t'.first_schedule = FALSE /\ link' \in Sockets
          /\ data' \in BOOLEAN
      BY <2>2, <2>4, <3>1 DEF TaskType, Typed
    <3> QED
      BY <3>1, <3>2, <3>4, <3>5, WorkingEInv, Zenon
  <2>5. CASE Ended
    <3>1. /\ io # {} /\ ~x.armed /\ m \in MaybeConnect(x) /\ ~x.disconnected /\ ~x.lookup
          /\ rc.state = "init" /\ link # "none" /\ ~x.kernel /\ x.harvested = {}
          /\ x.sched_io = {}
      BY <2>1, <2>3, <2>5 DEF Taken
    <3> DEFINE y == m[1]
    <3>2. CASE /\ ~x.closing /\ m[2] = link /\ y \in TaskType
               /\ y.phase = x.phase /\ y.ready = x.ready /\ SameArm(x, y)
               /\ y.disconnected /\ y.waking = x.waking /\ y.closing = x.closing
               /\ y.connected = x.connected /\ y.lookup = x.lookup
               /\ y.first_schedule = x.first_schedule
      BY <1>2, <2>1, <2>4, <3>1, <3>2
    <3>3. CASE /\ ~x.closing /\ m[2] = "connecting" /\ y \in TaskType
               /\ y.phase = x.phase /\ y.ready = x.ready /\ SameFlags(x, y)
               /\ y.armed /\ y.kernel /\ y.wanted = Interests
               /\ y.current_arm = Interests
               /\ y.harvested = x.harvested /\ y.sched_io = x.sched_io
      <4>1. /\ rc' = rc /\ link' = "connecting"
            /\ \E p \in {"idle", "working"} :
                 /\ t' = [y EXCEPT !.phase = p]
                 /\ p = "idle" => ~(x.waking /\ pni_raw_can_wake(rc))
        BY <2>1, <2>5, <3>1, <3>3 DEF SameFlags
      <4> HIDE DEF y
      <4>2. PICK p \in {"idle", "working"} :
                 /\ t' = [y EXCEPT !.phase = p]
                 /\ p = "idle" => ~(x.waking /\ pni_raw_can_wake(rc))
        BY <4>1
      <4>3. /\ t' \in TaskType /\ t'.phase = p /\ SameFlags(x, t') /\ t'.armed /\ t'.kernel
            /\ t'.wanted = Interests /\ t'.current_arm = Interests
            /\ t'.harvested = {} /\ t'.sched_io = {}
        BY <3>1, <3>3, <4>2 DEF TaskType, SameFlags
      <4>4. Typed' /\ Registered'
        BY <2>2, <4>1, <4>3 DEF Typed, Sockets, Registered
      <4>5. Connecting'
        BY <1>2, <3>1, <4>1, <4>3 DEF Connecting, Unconnected, SameFlags, Tells
      <4>6. ~pni_raw_can_read(rc') /\ ~pni_raw_can_write(rc')
        BY <2>2, <3>1, <4>1 DEF Good, Open, Loose, Finished, RawType, pni_raw_can_read,
              pni_raw_can_write, pni_raw_ropen, pni_raw_wdrained
      <4>7. Parked'
        BY <3>1, <4>1, <4>2, <4>3, <4>6 DEF Parked, WakeNotLost, Attended, SameFlags
      <4>8. t'.connected = FALSE
        BY <4>3 DEF SameFlags, TaskType
      <4> QED
        BY <2>2, <4>1, <4>4, <4>5, <4>7, <4>8, Zenon DEF EInv
    <3>4. \/ x.closing /\ m = <<x, link>>
          \/ /\ ~x.closing /\ m[2] = "connecting" /\ y \in TaskType
             /\ y.phase = x.phase /\ y.ready = x.ready /\ SameFlags(x, y)
             /\ y.armed /\ y.kernel /\ y.wanted = Interests
             /\ y.current_arm = Interests
             /\ y.harvested = x.harvested /\ y.sched_io = x.sched_io
          \/ /\ ~x.closing /\ m[2] = link /\ y \in TaskType
             /\ y.phase = x.phase /\ y.ready = x.ready /\ SameArm(x, y)
             /\ y.disconnected /\ y.waking = x.waking /\ y.closing = x.closing
             /\ y.connected = x.connected /\ y.lookup = x.lookup
             /\ y.first_schedule = x.first_schedule
      BY <2>2, <3>1, MaybeConnectIs, Zenon
    <3> HIDE DEF y
    <3> QED
      BY <3>2, <3>3, <3>4, Zenon
  <2>6. CASE ~Ended
    <3>1. m = <<x, link>> /\ link' = link
      BY <2>1, <2>6
    <3>2. CASE x.disconnected
      <4>1. rc.state = "init" /\ ~x.armed /\ ~x.lookup
        BY <2>3, <3>2 DEF Taken
      <4>2. rc' = pni_raw_connect_failed(rc) /\ t' = [x EXCEPT !.phase = "working"]
        BY <2>1, <3>1, <3>2
      <4>3. SameArm(x, x)
        BY DEF SameArm
      <4> QED
        BY <1>2, <2>2, <2>4, <3>1, <4>1, <4>2, <4>3
    <3>3. CASE ~x.disconnected /\ "OUT" \in io
      <4>1. rc' = pni_raw_connected(rc) /\ t' = [x EXCEPT !.phase = "working", !.connected = TRUE]
        BY <2>1, <2>6, <3>1, <3>3
      <4>2. /\ rc.state = "init" /\ link # "none" /\ ~x.armed /\ ~x.lookup
        BY <2>3, <3>3 DEF Taken
      <4>3. /\ t' \in TaskType /\ t'.phase = "working" /\ SameArm(x, t') /\ t'.connected = TRUE
            /\ ~t'.lookup /\ ~t'.disconnected /\ t'.first_schedule = FALSE
        BY <1>2, <2>2, <3>3, <4>1, <4>2, Zenon DEF TaskType, SameArm
      <4>4. Good(rc') /\ rc'.state = "ro_wo" /\ Reported(rc', TRUE, seen, delivered)
        BY <2>2, <4>1, <4>2, ConnectedIs, ConnectReported, Zenon
      <4>5. Connecting'
        BY <3>1, <4>2, <4>3, <4>4 DEF Connecting
      <4>6. link' \in Sockets /\ data' \in BOOLEAN
        BY <2>2, <3>1 DEF Typed
      <4> QED
        BY <4>3, <4>4, <4>5, <4>6, WorkingEInv, Zenon
    <3>4. CASE ~x.disconnected /\ "OUT" \notin io
      <4>1. rc' = rc /\ t' = [x EXCEPT !.phase = "working"]
        BY <2>1, <2>6, <3>1, <3>4
      <4>2. io = {} /\ x.armed = t.armed
        BY <2>2, <2>6, <3>4 DEF Taken, Unconnected, Tells
      <4>3. /\ t' \in TaskType /\ t'.phase = "working" /\ SameArm(x, t') /\ SameFlags(x, t')
            /\ t'.first_schedule = FALSE /\ t'.connected = FALSE
        BY <1>2, <2>2, <4>1 DEF TaskType, SameArm, SameFlags
      <4>4. Connecting'
        BY <2>2, <3>1, <3>4, <4>1, <4>2, <4>3
           DEF Connecting, Unconnected, Taken, SameArm, SameFlags, Tells
      <4>5. link' \in Sockets /\ data' \in BOOLEAN
        BY <2>2, <3>1 DEF Typed
      <4> QED
        BY <2>2, <4>1, <4>3, <4>4, <4>5, WorkingEInv, Zenon
    <3> QED
      BY <3>2, <3>3, <3>4
  <2> QED
    BY <2>5, <2>6
<1> QED
  BY <1>1, <1>2

\* Reading and writing, each if it is called for, keep the connection Good.
LEMMA ReadWriteKeeps ==
  ASSUME NEW c, Good(c), c.state # "init", NEW o \in WriteOutcomes(c)
  PROVE  Keeps(c, pni_raw_write(c, o[1], o[2]))
<1>1. CASE pni_raw_wdrained(c)
  BY <1>1, NothingKeeps DEF pni_raw_write
<1> QED
  BY <1>1, WriteKeeps

\* Keeps is transitive while the disconnect has not started.
LEMMA KeepsTransitive ==
  ASSUME NEW c, NEW d, NEW e, Keeps(c, d), Keeps(d, e), Good(c)
  PROVE  Keeps(c, e)
<1>1. c \in RawType /\ d \in RawType /\ e \in RawType
  BY GoodClosed DEF Keeps
<1>2. Reports(c, e)
  BY ReportsTransitive DEF Keeps
<1> QED
  BY <1>1, <1>2 DEF Keeps, RawType

\* A connected task reads, writes or is reset.
LEMMA ConnectedEInv ==
  ASSUME EpollWellUsed, EInv, NEW x, NEW io, Taken(x, io), t.phase = "idle",
         x.connected, ProcessConnected(x, io), UNCHANGED <<seen, delivered, peer>>
  PROVE  EInv'
<1>1. /\ x \in TaskType /\ t.connected /\ link # "none" /\ rc.state # "init"
      /\ ~t.disconnected /\ ~t.first_schedule /\ ~t.lookup /\ Good(rc) /\ Typed
      /\ link' = link /\ t.connected = TRUE
      /\ Reported(rc, TRUE, seen, delivered)
  BY Zenon DEF EInv, Connecting, Taken, ProcessConnected, Typed, TaskType
<1>2. ASSUME Keeps(rc, rc'), data' \in BOOLEAN, t' \in TaskType, t'.phase = "working",
             SameArm(x, t'), SameFlags(x, t')
      PROVE  EInv'
  <2>1. t'.connected = TRUE /\ t'.first_schedule = FALSE
    BY <1>1, <1>2 DEF SameFlags, Taken, TaskType
  <2>2. Good(rc') /\ rc'.state # "init" /\ Reported(rc', TRUE, seen, delivered)
    BY <1>1, <1>2, KeepsReported, Zenon DEF Keeps, Reports
  <2>3. Connecting'
    BY <1>1, <1>2, <2>1, <2>2 DEF Connecting, SameFlags, Taken
  <2>4. link' \in Sockets
    BY <1>1 DEF Typed
  <2> QED
    BY <1>2, <2>1, <2>2, <2>3, <2>4, WorkingEInv, Zenon
<1>3. CASE "ERR" \in io
  <2>1. /\ rc' = pni_raw_async_disconnect(rc) /\ t' = [x EXCEPT !.phase = "working"]
        /\ data' = data /\ rc.state \notin Draining
    BY <1>3 DEF ProcessConnected, EpollWellUsed, WellUsed, Draining
  <2>2. Keeps(rc, rc')
    BY <1>1, <2>1, AsyncDisconnectKeeps
  <2>3. t' \in TaskType /\ t'.phase = "working" /\ SameArm(x, t') /\ SameFlags(x, t')
    BY <1>1, <2>1, ZenonT(40) DEF TaskType, SameArm, SameFlags
  <2> QED
    BY <1>1, <1>2, <2>1, <2>2, <2>3 DEF Typed
<1>4. CASE "ERR" \notin io
  <2> DEFINE reads == ("IN" \in io \/ x.read_check) /\ pni_raw_ropen(rc)
  <2>1. t' = [x EXCEPT !.phase = "working", !.read_check = FALSE,
                       !.hup_detected = @ \/ "HUP" \in io]
    BY <1>4 DEF ProcessConnected
  <2>2. PICK o \in (IF reads THEN RecvOutcomes(rc) ELSE {<<0, "none">>}) :
          /\ data' = IF reads /\ o[1] < rc.unused THEN FALSE ELSE data
          /\ \E c \in {IF reads THEN pni_raw_read(rc, o[1], o[2]) ELSE rc} :
               IF "OUT" \in io
               THEN \E w \in SendOutcomes(c) : rc' = pni_raw_write(c, w[1], w[2])
               ELSE rc' = c
    BY <1>4, Zenon DEF ProcessConnected
  <2>3. t' \in TaskType /\ t'.phase = "working" /\ SameArm(x, t') /\ SameFlags(x, t')
    BY <1>1, <2>1, ZenonT(40) DEF TaskType, SameArm, SameFlags
  <2> DEFINE c == IF reads THEN pni_raw_read(rc, o[1], o[2]) ELSE rc
  <2>4. Keeps(rc, c)
    <3>1. CASE reads
      <4>1. o \in ReadOutcomes(rc)
        BY <2>2, <3>1 DEF RecvOutcomes
      <4> QED
        BY <1>1, <3>1, <4>1, ReadKeeps
    <3>2. CASE ~reads
      BY <1>1, <3>2, NothingKeeps
    <3> QED
      BY <3>1, <3>2
  <2>5. IF "OUT" \in io
        THEN \E w \in SendOutcomes(c) : rc' = pni_raw_write(c, w[1], w[2])
        ELSE rc' = c
    BY <2>2
  <2>6. data' \in BOOLEAN
    BY <1>1, <2>2, Zenon DEF Typed
  <2> HIDE DEF c
  <2>7. Keeps(rc, rc')
    <3>1. CASE "OUT" \in io
      <4>1. PICK w \in SendOutcomes(c) : rc' = pni_raw_write(c, w[1], w[2])
        BY <2>5, <3>1
      <4>2. w \in WriteOutcomes(c)
        BY <4>1 DEF SendOutcomes
      <4>3. Good(c) /\ c.state # "init"
        BY <1>1, <2>4 DEF Keeps, Reports
      <4> QED
        BY <1>1, <2>4, <4>1, <4>2, <4>3, ReadWriteKeeps, KeepsTransitive
    <3> QED
      BY <2>4, <2>5, <3>1
  <2> QED
    BY <1>2, <2>3, <2>6, <2>7
<1> QED
  BY <1>3, <1>4

\* Taking what the task is run for leaves a task.
LEMMA StartedType ==
  ASSUME NEW x \in TaskType, NEW r \in BOOLEAN, NEW w \in BOOLEAN, NEW a \in BOOLEAN,
         NEW k \in SUBSET Interests
  PROVE  [x EXCEPT !.ready = r, !.waking = w, !.sched_io = {}, !.armed = a,
                   !.current_arm = k] \in TaskType
<1> DEFINE y == [x EXCEPT !.ready = r, !.waking = w]
<1>1. y \in TaskType
  BY Zenon DEF TaskType
<1> HIDE DEF y
<1>2. [y EXCEPT !.sched_io = {}, !.armed = a, !.current_arm = k] \in TaskType
  BY <1>1, Zenon DEF TaskType
<1> QED
  BY <1>2 DEF y

\* pni_raw_connection_process.
LEMMA ProcessEInv ==
  ASSUME EpollWellUsed, EInv, pni_raw_connection_process
  PROVE  EInv'
<1> DEFINE io == t.sched_io
<1>1. PICK s \in {t.ready, FALSE} :
        IF pni_raw_finished(rc) /\ ~Started(s).lookup
        THEN praw_initiate_cleanup(Started(s)) /\ UNCHANGED <<rc, data>>
        ELSE IF Started(s).closing
        THEN t' = [Started(s) EXCEPT !.phase = "working"] /\ UNCHANGED <<rc, link, data>>
        ELSE IF ~Started(s).connected THEN ProcessConnecting(Started(s), io)
        ELSE ProcessConnected(Started(s), io)
  BY Zenon DEF pni_raw_connection_process
<1>2. t.phase = "idle" /\ UNCHANGED <<seen, delivered, peer>> /\ t \in TaskType
  BY DEF pni_raw_connection_process, EInv, Typed
<1> DEFINE y == Started(s)
<1>3. /\ y \in TaskType /\ y.phase = t.phase /\ (y.waking => pni_raw_can_wake(rc))
      /\ y.closing = t.closing /\ y.connected = t.connected
      /\ y.disconnected = t.disconnected /\ y.first_schedule = t.first_schedule
      /\ y.lookup = t.lookup /\ y.sched_io = {} /\ y.kernel = t.kernel
      /\ y.wanted = t.wanted /\ y.harvested = t.harvested
      /\ y.armed <=> t.armed /\ io = {}
      /\ y.current_arm = (IF io = {} THEN t.current_arm ELSE {})
  <2> DEFINE r == t.ready /\ ~s
             w == t.waking /\ pni_raw_can_wake(rc)
             a == t.armed /\ io = {}
             k == IF io = {} THEN t.current_arm ELSE {}
  <2>1. r \in BOOLEAN /\ w \in BOOLEAN /\ a \in BOOLEAN /\ k \in SUBSET Interests
    BY <1>2 DEF TaskType
  <2>2. y = [t EXCEPT !.ready = r, !.waking = w, !.sched_io = {}, !.armed = a,
                      !.current_arm = k]
    BY DEF Started
  <2>3. (w => pni_raw_can_wake(rc)) /\ (a <=> t.armed /\ io = {})
    OBVIOUS
  <2> HIDE DEF r, w, a, k, y
  <2>4. y \in TaskType
    BY <1>2, <2>1, <2>2, StartedType, Zenon
  <2>5. /\ y.phase = t.phase /\ y.closing = t.closing /\ y.connected = t.connected
        /\ y.disconnected = t.disconnected /\ y.first_schedule = t.first_schedule
        /\ y.lookup = t.lookup /\ y.sched_io = {} /\ y.kernel = t.kernel
        /\ y.wanted = t.wanted /\ y.harvested = t.harvested
        /\ y.armed = a /\ y.waking = w /\ y.current_arm = k
    BY <1>2, <2>2 DEF TaskType
  <2> QED
    BY <2>3, <2>4, <2>5 DEF k
<1>4. /\ IF pni_raw_finished(rc) /\ ~y.lookup
         THEN praw_initiate_cleanup(y) /\ UNCHANGED <<rc, data>>
         ELSE IF y.closing
         THEN t' = [y EXCEPT !.phase = "working"] /\ UNCHANGED <<rc, link, data>>
         ELSE IF ~y.connected THEN ProcessConnecting(y, io)
         ELSE ProcessConnected(y, io)
  BY <1>1
<1> HIDE DEF y
<1>5. Taken(y, io)
  <2>1. Registered /\ t.armed \in BOOLEAN /\ y.armed \in BOOLEAN
    BY <1>2, <1>3 DEF EInv, TaskType
  <2>2. /\ y.armed <=> y.kernel \/ y.harvested # {}
        /\ y.kernel => y.harvested = {} /\ y.wanted = y.current_arm
        /\ y.armed => t.armed
        /\ io # {} => t.armed /\ ~y.armed
        /\ io = {} => y.armed = t.armed
    BY <1>3, <2>1 DEF Registered
  <2> QED
    BY <1>3, <2>2 DEF Taken
<1> HIDE DEF io
<1>6. CASE pni_raw_finished(rc) /\ ~y.lookup
  <2>1. praw_initiate_cleanup(y) /\ UNCHANGED <<rc, data>>
    BY <1>4, <1>6
  <2>2. /\ rc.state = "fini" /\ Good(rc') /\ Reported(rc', t.connected, seen, delivered)
        /\ pni_raw_finished(rc')
    BY <1>6, <2>1, Zenon DEF EInv, pni_raw_finished, Good, Open, Loose, Finished
  <2>3. ~y.first_schedule /\ (y.disconnected => ~y.armed) /\ (~y.connected => Unconnected)
    BY <1>5, <2>2 DEF EInv, Connecting, Taken
  <2> QED
    BY <1>2, <1>3, <1>5, <1>6, <2>1, <2>2, <2>3, CleanupEInv, Zenon DEF Taken
<1>7. CASE ~(pni_raw_finished(rc) /\ ~y.lookup) /\ y.closing
  <2>1. t' = [y EXCEPT !.phase = "working"] /\ UNCHANGED <<rc, link, data>>
    BY <1>4, <1>7
  <2>2. /\ t' \in TaskType /\ t'.phase = "working" /\ SameArm(y, t') /\ SameFlags(y, t')
    BY <1>3, <2>1 DEF TaskType, SameArm, SameFlags
  <2>3. t'.first_schedule = FALSE /\ t'.connected = t.connected
    BY <1>3, <1>7, <2>2, ZenonT(40) DEF EInv, Connecting, Unconnected, SameFlags, TaskType
  <2>4. Connecting'
    BY <1>5, <1>7, <2>1, <2>2, <2>3
       DEF EInv, Connecting, Unconnected, Taken, SameArm, SameFlags, Tells
  <2> QED
    BY <1>2, <1>5, <2>1, <2>2, <2>3, <2>4, WorkingEInv, Zenon DEF EInv, Typed
<1>8. CASE ~(pni_raw_finished(rc) /\ ~y.lookup) /\ ~y.closing /\ ~y.connected
  BY <1>2, <1>4, <1>5, <1>8, ConnectingEInv
<1>9. CASE ~(pni_raw_finished(rc) /\ ~y.lookup) /\ ~y.closing /\ y.connected
  BY <1>2, <1>4, <1>5, <1>9, ConnectedEInv
<1> QED
  BY <1>6, <1>7, <1>8, <1>9

-----------------------------------------------------------------------------
(* The application *)

\* pn_raw_connection_wake schedules the task, unless it is being worked on.
LEMMA WakeEInv ==
  ASSUME EInv, pn_raw_connection_wake
  PROVE  EInv'
<1>1. /\ t \in TaskType /\ t.phase \in {"idle", "working"}
      /\ UNCHANGED <<rc, seen, delivered, link, peer, data>>
      /\ t' = IF t.waking THEN t ELSE schedule([t EXCEPT !.waking = TRUE])
  BY DEF pn_raw_connection_wake, Alive, EInv, Typed
<1>2. CASE t.waking
  <2>1. UNCHANGED epollVars
    BY <1>1, <1>2 DEF epollVars
  <2> QED
    BY <2>1, ZenonT(40) DEF epollVars, EInv, Typed, Registered, Connecting, Unused, Unconnected,
                Parked, WakeNotLost, Attended
<1>3. CASE ~t.waking
  <2> DEFINE x == [t EXCEPT !.waking = TRUE]
  <2>1. /\ x \in TaskType /\ x.phase = t.phase /\ SameArm(t, x)
        /\ x.closing = t.closing /\ x.connected = t.connected
        /\ x.disconnected = t.disconnected /\ x.first_schedule = t.first_schedule
        /\ x.lookup = t.lookup
    BY <1>1, Zenon DEF TaskType, SameArm
  <2> HIDE DEF x
  <2>2. t' = schedule(x)
    BY <1>1, <1>3 DEF x
  <2>3. /\ t' \in TaskType /\ t'.phase = t.phase /\ SameArm(t, t')
        /\ t'.phase = "idle" => t'.ready
        /\ t'.closing = t.closing /\ t'.connected = t.connected
        /\ t'.disconnected = t.disconnected /\ t'.first_schedule = t.first_schedule
        /\ t'.lookup = t.lookup
    BY <2>1, <2>2, ScheduleIs DEF SameArm, SameFlags
  <2>4. Typed' /\ Registered'
    BY <1>1, <2>3, Zenon DEF EInv, Typed, Registered, SameArm
  <2>5. Connecting'
    BY <1>1, <2>3 DEF EInv, Connecting, Unconnected, SameArm
  <2>6. Parked'
    BY <1>1, <2>3 DEF EInv, Parked, WakeNotLost, Attended
  <2> QED
    BY <1>1, <2>3, <2>4, <2>5, <2>6 DEF EInv
<1> QED
  BY <1>2, <1>3

\* The calls on the buffers keep the connection Good and its state as it is.
LEMMA BufferCallKeeps ==
  ASSUME WellUsed, Good(rc), GiveRead \/ TakeRead \/ WriteBuffers \/ TakeWritten
  PROVE  Keeps(rc, rc') /\ rc'.state = rc.state
<1>1. CASE GiveRead
  BY <1>1, GiveReadKeeps DEF GiveRead
<1>2. CASE TakeRead
  BY <1>2, TakeReadKeeps DEF TakeRead
<1>3. CASE WriteBuffers
  BY <1>3, WriteBuffersKeeps DEF WriteBuffers, WellUsed
<1>4. CASE TakeWritten
  BY <1>4, TakeWrittenKeeps DEF TakeWritten
<1> QED
  BY <1>1, <1>2, <1>3, <1>4

\* What the application does with the batch in hand.
LEMMA ApplicationEInv ==
  ASSUME EpollWellUsed, EInv, Application
  PROVE  EInv'
<1>1. /\ t \in TaskType /\ t.phase = "working" /\ Good(rc) /\ Typed /\ Registered
      /\ Connecting /\ Reported(rc, t.connected, seen, delivered)
      /\ UNCHANGED <<seen, delivered, link, peer, data>> /\ WellUsed
      /\ t.connected \in BOOLEAN
  BY DEF Application, EInv, Typed, EpollWellUsed, TaskType
<1>2. ASSUME Keeps(rc, rc'), NEW b \in BOOLEAN, t' = [t EXCEPT !.closing = b],
             ~t.connected => rc'.state \in {"init", "fini"},
             rc'.state = "init" => rc.state = "init",
             ~t.connected /\ b => rc'.state = "fini",
             ~t.connected /\ ~b => ~t.closing /\ rc'.state = rc.state
      PROVE  EInv'
  <2>1. /\ t' \in TaskType /\ t'.phase = "working" /\ SameArm(t, t') /\ t'.closing = b
        /\ t'.connected = t.connected /\ t'.disconnected = t.disconnected
        /\ t'.first_schedule = t.first_schedule /\ t'.lookup = t.lookup
    BY <1>1, <1>2 DEF TaskType, SameArm
  <2>2. Good(rc') /\ Reported(rc', t.connected, seen, delivered)
    BY <1>1, <1>2, KeepsReported DEF Keeps
  <2>3. Typed' /\ Registered' /\ Parked'
    BY <1>1, <2>1 DEF Typed, Registered, Parked, SameArm
  <2>4. ~t.connected => Unconnected'
    BY <1>1, <1>2, <2>1 DEF Connecting, Unconnected, SameArm
  <2>5. Connecting'
    BY <1>1, <1>2, <2>1, <2>4 DEF Connecting, SameArm
  <2> QED
    BY <1>1, <2>1, <2>2, <2>3, <2>5 DEF EInv
<1>3. ~t.connected => rc.state \in {"init", "fini"} /\ (t.closing => rc.state = "fini")
  BY <1>1 DEF Connecting, Unconnected
<1>4. t.closing \in BOOLEAN /\ t = [t EXCEPT !.closing = t.closing]
  BY <1>1 DEF TaskType
<1>5. CASE (GiveRead \/ TakeRead \/ WriteBuffers \/ TakeWritten) /\ UNCHANGED t
  <2>1. Keeps(rc, rc') /\ rc'.state = rc.state
    BY <1>1, <1>5, BufferCallKeeps
  <2> QED
    BY <1>2, <1>3, <1>4, <1>5, <2>1
<1>6. CASE rc' = pni_raw_close(rc) /\ t' = [t EXCEPT !.closing = TRUE]
  <2>1. /\ Keeps(rc, rc') /\ (rc.state = "init" => rc'.state = "fini")
        /\ rc.state = "fini" => rc' = rc
    BY <1>1, <1>6, CloseKeeps DEF pni_raw_close, pni_raw_rwclosed
  <2>2. rc'.state = "init" => rc.state = "init"
    BY <2>1 DEF Keeps, Reports
  <2>3. ~t.connected => rc'.state = "fini"
    BY <1>3, <2>1
  <2>4. TRUE \in BOOLEAN
    OBVIOUS
  <2> QED
    BY <1>2, <1>6, <2>1, <2>2, <2>3, <2>4, Zenon
<1>7. CASE /\ rc.state # "init" /\ rc' = pni_raw_read_close(rc)
           /\ t' = [t EXCEPT !.closing = @ \/ pni_raw_wclosed(rc)]
  <2> DEFINE b == t.closing \/ pni_raw_wclosed(rc)
  <2>1. /\ Keeps(rc, rc') /\ (rc.state = "fini" => rc' = rc /\ b)
    BY <1>1, <1>7, ReadCloseKeeps DEF pni_raw_read_close, pni_raw_rwclosed, pni_raw_wclosed
  <2>2. b \in BOOLEAN /\ t' = [t EXCEPT !.closing = b]
    BY <1>7
  <2> HIDE DEF b
  <2>3. rc'.state = "init" => rc.state = "init"
    BY <2>1 DEF Keeps, Reports
  <2> QED
    BY <1>2, <1>3, <1>7, <2>1, <2>2, <2>3
<1>8. CASE /\ rc.state # "init" /\ rc' = pni_raw_write_close(rc)
           /\ t' = [t EXCEPT !.closing = @ \/ pni_raw_rclosed(rc)]
  <2> DEFINE b == t.closing \/ pni_raw_rclosed(rc)
  <2>1. /\ Keeps(rc, rc') /\ (rc.state = "fini" => rc' = rc /\ b)
    BY <1>1, <1>8, WriteCloseKeeps DEF pni_raw_write_close, pni_raw_rwclosed, pni_raw_rclosed
  <2>2. b \in BOOLEAN /\ t' = [t EXCEPT !.closing = b]
    BY <1>8
  <2> HIDE DEF b
  <2>3. rc'.state = "init" => rc.state = "init"
    BY <2>1 DEF Keeps, Reports
  <2> QED
    BY <1>2, <1>3, <1>8, <2>1, <2>2, <2>3
<1> QED
  BY <1>1, <1>5, <1>6, <1>7, <1>8 DEF Application, pn_raw_connection_close, WellUsed

\* pni_raw_batch_next turns a wake into an event and delivers the next event; none
\* after DISCONNECTED.
LEMMA BatchNextEInv ==
  ASSUME EInv, pni_raw_batch_next
  PROVE  EInv' /\ delivered # "DISCONNECTED"
<1> DEFINE w == IF t.waking THEN pni_raw_wake(rc) ELSE rc
           c == pni_raw_batch_has_events(w)
<1>1. /\ t.phase = "working" /\ c.ev # "none" /\ rc' = [c EXCEPT !.ev = "none"]
      /\ delivered' = c.ev
      /\ seen' = [e \in Lifecycle |->
                     IF e = c.ev /\ seen[e] < 2 THEN seen[e] + 1 ELSE seen[e]]
      /\ t' = [t EXCEPT !.waking = FALSE] /\ UNCHANGED <<link, peer, data>>
  BY DEF pni_raw_batch_next
<1>2. /\ t \in TaskType /\ Good(rc) /\ Typed /\ Registered
      /\ Connecting /\ Reported(rc, t.connected, seen, delivered)
      /\ t.connected \in BOOLEAN
  BY DEF EInv, Typed, TaskType
<1>3. Keeps(rc, w) /\ w.state = rc.state
  BY <1>2, WakeKeeps, NothingKeeps
<1> HIDE DEF w
<1>4. Good(w) /\ Reported(w, t.connected, seen, delivered)
  BY <1>2, <1>3, KeepsReported DEF Keeps
<1>5. Good(c) /\ c.state = rc.state /\ Reported(c, t.connected, seen, delivered)
  BY <1>2, <1>3, <1>4, HasEventsIs, HasEventsReported
<1> HIDE DEF c
<1>6. /\ Good(rc') /\ rc'.state = rc.state /\ delivered # "DISCONNECTED"
      /\ Reported(rc', t.connected, seen', delivered')
  BY <1>1, <1>2, <1>5, DeliveredReported
<1>7. /\ t' \in TaskType /\ t'.phase = "working" /\ SameArm(t, t')
      /\ t'.closing = t.closing /\ t'.connected = t.connected
      /\ t'.disconnected = t.disconnected /\ t'.first_schedule = t.first_schedule
      /\ t'.lookup = t.lookup
  BY <1>1, <1>2, ZenonT(40) DEF TaskType, SameArm
<1>8. Typed' /\ Registered' /\ Parked'
  BY <1>1, <1>2, <1>7 DEF Typed, Registered, Parked, SameArm
<1>9. Connecting'
  BY <1>1, <1>2, <1>6, <1>7 DEF Connecting, Unconnected, SameArm
<1> QED
  BY <1>6, <1>7, <1>8, <1>9 DEF EInv

\* What pni_raw_connection_done does with the connection: a last write, the shutdown,
\* and the next event if there is one.
LEMMA DoneIs ==
  ASSUME EInv, t.phase = "working", pni_raw_batch_has_events(rc).ev = "none",
         NEW o \in (IF pni_raw_can_write(rc) THEN SendOutcomes(rc) ELSE {<<0, "none">>}),
         NEW c,
         c = pni_raw_batch_has_events(pni_raw_process_shutdown(
               IF pni_raw_can_write(rc) THEN pni_raw_write(rc, o[1], o[2]) ELSE rc))
  PROVE  /\ Good(c) /\ Reported(c, t.connected, seen, delivered)
         /\ rc.state # "init" => c.state # "init"
         /\ ~t.connected => c = rc
         /\ c.ev = "none" => pni_raw_batch_has_events(c).ev = "none"
         /\ c.ev = "none" /\ c.state = "fini" => pni_raw_finished(c)
<1> DEFINE w == IF pni_raw_can_write(rc) THEN pni_raw_write(rc, o[1], o[2]) ELSE rc
           s == pni_raw_process_shutdown(w)
<1>1. /\ Good(rc) /\ Reported(rc, t.connected, seen, delivered) /\ t.connected \in BOOLEAN
      /\ ~t.connected => rc.state \in {"init", "fini"}
  BY DEF EInv, Typed, TaskType, Connecting, Unconnected
<1>2. pni_raw_batch_has_events(rc) = rc
  BY <1>1, HasEventsIs
<1>3. pni_raw_can_write(rc) => rc.state # "init" /\ ~pni_raw_wdrained(rc)
  BY <1>1 DEF pni_raw_can_write, Good, Open, Loose, Finished, RawType
<1>4. Keeps(rc, w)
  <2>1. CASE pni_raw_can_write(rc)
    <3>1. o \in WriteOutcomes(rc)
      BY <2>1 DEF SendOutcomes
    <3> QED
      BY <1>1, <1>3, <2>1, <3>1, WriteKeeps
  <2>2. CASE ~pni_raw_can_write(rc)
    BY <1>1, <2>2, NothingKeeps
  <2> QED
    BY <2>1, <2>2
<1>5. ~t.connected => w = rc
  BY <1>1, <1>3 DEF pni_raw_can_write, pni_raw_wdrained
<1> HIDE DEF w
<1>6. Keeps(w, s)
  BY <1>4, ShutdownKeeps DEF Keeps
<1>7. ~t.connected => s = rc
  BY <1>1, <1>5 DEF pni_raw_process_shutdown, pni_raw_rclosing, pni_raw_wclosing
<1>8. c = pni_raw_batch_has_events(s)
  BY DEF w
<1> HIDE DEF s
<1>9. Keeps(rc, s)
  BY <1>1, <1>4, <1>6, KeepsTransitive
<1>10. Good(s) /\ Reported(s, t.connected, seen, delivered)
  BY <1>1, <1>9, KeepsReported DEF Keeps
<1>11. /\ Good(c) /\ Reported(c, t.connected, seen, delivered) /\ c.state = s.state
       /\ c.ev = "none" => c = s
       /\ c.ev = "none" /\ s.state = "fini" => s.disc = "fini"
  BY <1>1, <1>8, <1>10, HasEventsIs, HasEventsReported
<1>12. rc.state # "init" => c.state # "init"
  BY <1>9, <1>11 DEF Keeps, Reports
<1>13. ~t.connected => c = rc
  BY <1>2, <1>7, <1>8
<1> QED
  BY <1>8, <1>11, <1>12, <1>13 DEF pni_raw_finished

\* A task given back waits for what it needs.
LEMMA ParkedAgain ==
  ASSUME EInv, t' \in TaskType, t'.phase = "idle",
         t'.lookup = t.lookup, t'.connected = t.connected,
         t'.disconnected = t.disconnected, SameFlags(t, t'),
         Connecting', Registered', link' = link,
         ~t.connected => rc' = rc /\ (rc.state = "fini" => pni_raw_finished(rc)),
         rc'.ev = "none" => pni_raw_batch_has_events(rc').ev = "none",
         rc'.ev = "none" /\ rc'.state = "fini" => pni_raw_finished(rc'),
         ~t'.ready => rc'.ev = "none" /\ ~(t'.waking /\ pni_raw_can_wake(rc')),
         pni_raw_finished(rc') => t'.lookup \/ t'.ready,
         ~t'.ready /\ t'.connected /\ t'.harvested = {} /\ t'.sched_io = {}
            /\ Wanted(rc') # {} => t'.armed /\ t'.current_arm = Wanted(rc')
  PROVE  Parked'
<1>1. WakeNotLost'
  BY DEF WakeNotLost
<1>2. rc'.state = "fini" => /\ t'.ready \/ t'.lookup \/ t'.armed
                            /\ t'.disconnected => pni_raw_finished(rc')
  BY Zenon DEF EInv, Connecting
<1>3. ASSUME link # "none", ~t'.ready, ~t'.lookup, t'.sched_io = {}, t'.harvested = {}
      PROVE  /\ ~t'.connected => t'.kernel
             /\ t'.connected => pni_raw_batch_has_events(rc').ev = "none"
             /\ pni_raw_can_read(rc') => t'.kernel /\ "IN" \in t'.wanted
             /\ pni_raw_can_write(rc') => t'.kernel /\ "OUT" \in t'.wanted
  <2>1. t'.armed => t'.kernel /\ t'.wanted = t'.current_arm
    BY <1>3 DEF Registered
  <2>2. ~pni_raw_finished(rc')
    BY <1>3
  <2>3. ~t'.connected => t'.armed
    BY <1>3, <2>2 DEF Connecting, Unconnected
  <2>4. CASE t'.connected
    <3>1. pni_raw_can_read(rc') => "IN" \in Wanted(rc')
      BY DEF Wanted
    <3>2. pni_raw_can_write(rc') => "OUT" \in Wanted(rc')
      BY DEF Wanted
    <3>3. Wanted(rc') # {} => t'.armed /\ t'.current_arm = Wanted(rc')
      BY <1>3, <2>4, Zenon
    <3>4. /\ pni_raw_can_read(rc') => t'.kernel /\ "IN" \in t'.wanted
          /\ pni_raw_can_write(rc') => t'.kernel /\ "OUT" \in t'.wanted
      BY <2>1, <3>1, <3>2, <3>3, Zenon
    <3>5. pni_raw_batch_has_events(rc').ev = "none"
      BY <1>3, Zenon
    <3> QED
      BY <2>4, <3>4, <3>5, Zenon
  <2>5. CASE ~t'.connected
    <3>1. rc.state \in {"init", "fini"} /\ rc' = rc /\ Good(rc)
      BY <2>5, Zenon DEF EInv, Connecting, Unconnected
    <3>2. ~pni_raw_can_read(rc') /\ ~pni_raw_can_write(rc')
      BY <3>1 DEF Good, Open, Loose, Finished, RawType, pni_raw_can_read,
              pni_raw_can_write, pni_raw_ropen, pni_raw_wdrained
    <3> QED
      BY <2>1, <2>3, <2>5, <3>2
  <2> QED
    BY <2>4, <2>5
<1>4. link' # "none" => Attended'
  BY <1>3, Zenon DEF Attended
<1> QED
  BY <1>1, <1>2, <1>4 DEF Parked

\* pni_raw_connection_done.
LEMMA DoneEInv ==
  ASSUME EpollWellUsed, EInv, pni_raw_connection_done
  PROVE  EInv'
<1>1. /\ t.phase = "working" /\ pni_raw_batch_has_events(rc).ev = "none"
      /\ UNCHANGED <<seen, delivered, peer, data>>
  BY DEF pni_raw_connection_done, EpollWellUsed
<1>2. PICK o \in (IF pni_raw_can_write(rc) THEN SendOutcomes(rc) ELSE {<<0, "none">>}) :
        \E c \in {pni_raw_batch_has_events(pni_raw_process_shutdown(
                     IF pni_raw_can_write(rc) THEN pni_raw_write(rc, o[1], o[2]) ELSE rc))} :
          LET x == Release(t, c)
              wanted == Wanted(c)
              polls == /\ ~x.ready /\ x.connected
                       /\ wanted # {} \/ ~x.hup_detected
                       /\ ~x.armed \/ wanted # x.current_arm
          IN  /\ rc' = c
              /\ IF pni_raw_finished(c) /\ ~x.lookup /\ ~x.ready
                 THEN praw_initiate_cleanup(x)
                 ELSE /\ UNCHANGED link
                      /\ polls /\ x.armed /\ ~x.kernel => MayRearmLate
                      /\ t' = IF x.ready THEN [x EXCEPT !.read_check = pni_raw_can_read(c)]
                              ELSE IF polls THEN Poll(x, wanted) ELSE x
  BY DEF pni_raw_connection_done
<1> DEFINE x == Release(t, rc')
           wanted == Wanted(rc')
           polls == /\ ~x.ready /\ x.connected
                    /\ wanted # {} \/ ~x.hup_detected
                    /\ ~x.armed \/ wanted # x.current_arm
<1>3. /\ rc' = pni_raw_batch_has_events(pni_raw_process_shutdown(
               IF pni_raw_can_write(rc) THEN pni_raw_write(rc, o[1], o[2]) ELSE rc))
      /\ IF pni_raw_finished(rc') /\ ~x.lookup /\ ~x.ready
         THEN praw_initiate_cleanup(x)
         ELSE /\ UNCHANGED link
              /\ polls /\ x.armed => x.kernel
              /\ t' = IF x.ready THEN [x EXCEPT !.read_check = pni_raw_can_read(rc')]
                      ELSE IF polls THEN Poll(x, wanted) ELSE x
  BY <1>2 DEF EpollWellUsed
<1>4. /\ Good(rc') /\ Reported(rc', t.connected, seen, delivered)
      /\ rc.state # "init" => rc'.state # "init"
      /\ ~t.connected => rc' = rc
      /\ rc'.ev = "none" => pni_raw_batch_has_events(rc').ev = "none"
      /\ rc'.ev = "none" /\ rc'.state = "fini" => pni_raw_finished(rc')
  BY <1>1, <1>3, DoneIs
<1>5. /\ t \in TaskType /\ Typed /\ Registered /\ Connecting /\ ~t.first_schedule
      /\ ~t.connected => rc.ev = "none"
  <2>1. rc.ev = "none"
    BY <1>1, HasEventsIs DEF EInv
  <2> QED
    BY <1>1, <2>1 DEF EInv, Typed, Connecting
<1>6. /\ x \in TaskType /\ x.phase = "idle" /\ SameFlags(t, x) /\ SameArm(t, x)
      /\ ~x.ready => rc'.ev = "none" /\ ~(x.waking /\ pni_raw_can_wake(rc'))
  <2> DEFINE r == t.ready \/ (t.waking /\ pni_raw_can_wake(rc')) \/ rc'.ev # "none"
  <2>1. r \in BOOLEAN /\ x = [t EXCEPT !.phase = "idle", !.ready = r]
    BY <1>5 DEF Release, TaskType
  <2>2. ~r => rc'.ev = "none" /\ ~(t.waking /\ pni_raw_can_wake(rc'))
    OBVIOUS
  <2> HIDE DEF r, x
  <2>3. /\ x \in TaskType /\ x.phase = "idle" /\ SameFlags(t, x) /\ SameArm(t, x)
        /\ x.ready = r
    BY <1>5, <2>1, Zenon DEF TaskType, SameFlags, SameArm
  <2> QED
    BY <2>2, <2>3 DEF SameFlags
<1>7. wanted \in SUBSET Interests
  BY DEF Wanted, Interests
<1> HIDE DEF x, wanted
<1>8. CASE pni_raw_finished(rc') /\ ~x.lookup /\ ~x.ready
  <2>1. praw_initiate_cleanup(x)
    BY <1>3, <1>8
  <2>2. /\ x.disconnected => ~x.armed
        /\ ~x.connected => Unconnected /\ rc'.state = rc.state
    BY <1>4, <1>5, <1>6 DEF Connecting, SameFlags, SameArm
  <2> QED
    BY <1>1, <1>4, <1>5, <1>6, <1>8, <2>1, <2>2, CleanupEInv, Zenon
       DEF SameFlags, SameArm, Registered
<1>9. CASE ~(pni_raw_finished(rc') /\ ~x.lookup /\ ~x.ready)
  <2>1. /\ link' = link
        /\ polls /\ x.armed => x.kernel
        /\ t' = IF x.ready THEN [x EXCEPT !.read_check = pni_raw_can_read(rc')]
                ELSE IF polls THEN Poll(x, wanted) ELSE x
    BY <1>3, <1>9
  <2>2. ~t.connected => (rc.state = "fini" => pni_raw_finished(rc))
    BY <1>4, <1>5
  <2>3. ASSUME t' \in TaskType, t'.phase = "idle", SameFlags(t, t'), Registered',
               t'.ready = x.ready,
               ~t.connected => SameArm(t, t'),
               ~t'.ready /\ t'.connected /\ t'.harvested = {} /\ t'.sched_io = {}
                 /\ Wanted(rc') # {} => t'.armed /\ t'.current_arm = Wanted(rc')
        PROVE  EInv'
    <3>1. Typed'
      BY <1>1, <1>5, <2>1, <2>3 DEF Typed
    <3>2. Connecting'
      <4>1. ~t.connected => Unconnected'
        BY <1>1, <1>4, <1>5, <2>1, <2>3 DEF Connecting, Unconnected, SameFlags, SameArm
      <4>2. /\ t'.connected = t.connected /\ t'.lookup = t.lookup
            /\ t'.disconnected = t.disconnected /\ ~t'.first_schedule
        BY <1>5, <2>3 DEF SameFlags
      <4>3. t.lookup \/ t.disconnected => ~t.connected /\ ~t'.armed
        BY <1>5, <2>3 DEF Connecting, SameArm
      <4> QED
        BY <1>4, <1>5, <2>1, <2>3, <4>1, <4>2, <4>3 DEF Connecting
    <3>3. Parked'
      BY <1>4, <1>6, <1>9, <2>1, <2>2, <2>3, <3>2, ParkedAgain DEF SameFlags
    <3>4. t'.connected = t.connected
      BY <2>3 DEF SameFlags
    <3> QED
      BY <1>1, <1>4, <2>3, <3>1, <3>2, <3>3, <3>4 DEF EInv
  <2>4. CASE x.ready
    <3> DEFINE b == pni_raw_can_read(rc')
    <3>1. b \in BOOLEAN /\ t' = [x EXCEPT !.read_check = b]
      BY <2>1, <2>4 DEF pni_raw_can_read
    <3> HIDE DEF b
    <3>2. /\ t' \in TaskType /\ t'.phase = "idle" /\ SameFlags(t, t') /\ SameArm(t, t')
          /\ t'.ready = x.ready
      BY <1>6, <3>1 DEF TaskType, SameFlags, SameArm
    <3>3. Registered'
      BY <1>5, <3>2 DEF Registered, SameArm
    <3> QED
      BY <2>3, <2>4, <3>2, <3>3 DEF SameArm
  <2>5. CASE ~x.ready /\ polls
    <3>1. t' = Poll(x, wanted) /\ x.connected /\ (x.armed => x.kernel)
      BY <2>1, <2>5
    <3>2. /\ t' \in TaskType /\ t'.phase = "idle" /\ t'.ready = x.ready /\ SameFlags(x, t')
          /\ t'.armed /\ t'.kernel /\ t'.wanted = wanted /\ t'.current_arm = wanted
          /\ t'.harvested = x.harvested /\ t'.sched_io = x.sched_io
      BY <1>6, <1>7, <3>1, PollIs
    <3>3. Registered'
      BY <1>5, <1>6, <3>1, <3>2 DEF Registered, SameArm
    <3>4. SameFlags(t, t') /\ t.connected
      BY <1>6, <3>1, <3>2 DEF SameFlags
    <3> QED
      BY <2>3, <3>2, <3>3, <3>4 DEF wanted
  <2>6. CASE ~x.ready /\ ~polls
    <3>1. t' = x
      BY <2>1, <2>6
    <3>2. Registered'
      BY <1>5, <1>6, <3>1 DEF Registered, SameArm
    <3>3. t'.connected /\ Wanted(rc') # {} => t'.armed /\ t'.current_arm = Wanted(rc')
      BY <2>6, <3>1 DEF wanted
    <3> QED
      BY <1>6, <2>3, <3>1, <3>2, <3>3
  <2> QED
    BY <2>4, <2>5, <2>6
<1> QED
  BY <1>8, <1>9

-----------------------------------------------------------------------------
(* Theorems *)

\* EInv is inductive, and no event follows DISCONNECTED.
LEMMA NextEInv ==
  ASSUME EpollWellUsed, EInv, [EpollNext]_epollVars
  PROVE  EInv' /\ (delivered = "DISCONNECTED" => UNCHANGED <<delivered, seen>>)
<1>1. CASE epoll_wait
  BY <1>1, WaitEInv DEF epoll_wait
<1>2. CASE post_event
  BY <1>2, PostEInv DEF post_event
<1>3. CASE Network
  BY <1>3, NetworkEInv, Zenon DEF Network
<1>4. CASE pn_proactor_raw_connect
  BY <1>4, RawConnectEInv DEF pn_proactor_raw_connect
<1>5. CASE pn_listener_raw_accept
  BY <1>5, RawAcceptEInv DEF pn_listener_raw_accept
<1>6. CASE raw_connection_lookup_done
  BY <1>6, LookupEInv, Zenon DEF raw_connection_lookup_done
<1>7. CASE pni_raw_connection_process
  <2>1. UNCHANGED <<delivered, seen>>
    BY <1>7 DEF pni_raw_connection_process
  <2> QED
    BY <1>7, <2>1, ProcessEInv
<1>8. CASE pn_raw_connection_wake
  BY <1>8, WakeEInv DEF pn_raw_connection_wake
<1>9. CASE Application
  BY <1>9, ApplicationEInv DEF Application
<1>10. CASE pni_raw_batch_next
  BY <1>10, BatchNextEInv
<1>11. CASE pni_raw_connection_done
  <2>1. UNCHANGED <<delivered, seen>>
    BY <1>11 DEF pni_raw_connection_done
  <2> QED
    BY <1>11, <2>1, DoneEInv
<1>12. CASE UNCHANGED epollVars
  BY <1>12, ZenonT(40) DEF epollVars, EInv, Typed, Registered, Connecting, Unused, Unconnected,
                Parked, WakeNotLost, Attended
<1> QED
  BY <1>1, <1>2, <1>3, <1>4, <1>5, <1>6, <1>7, <1>8, <1>9, <1>10, <1>11, <1>12
     DEF EpollNext

\* EInv has the properties of EpollRawConnection, and those of RawConnection.
LEMMA EInvImplies ==
  ASSUME EInv
  PROVE  /\ WakeNotLost /\ NoLateEvent /\ SocketAttended /\ NoWrongTransition
         /\ DisconnectReturnsBuffers /\ ClosedBeforeDisconnected
<1>1. WakeNotLost
  BY DEF EInv, Parked, WakeNotLost
<1>2. NoLateEvent
  BY DEF EInv, Registered, NoLateEvent
<1>3. SocketAttended
  <2>1. rc \in RawType
    BY GoodClosed DEF EInv
  <2>2. EpollTypeOK
    BY <2>1 DEF EInv, Typed, TaskType, Flags, EpollTypeOK
  <2>3. link # "none" => Attended
    BY DEF EInv, Parked, Attended
  <2> QED
    BY <2>2, <2>3 DEF SocketAttended
<1>4. NoWrongTransition
  BY DEF EInv, Good, Open, Loose, Finished, NoWrongTransition, States, W
<1>5. DisconnectReturnsBuffers
  BY DEF EInv, Good, Open, Loose, Finished, Reported, DisconnectReturnsBuffers
<1>6. ClosedBeforeDisconnected
  <2> SUFFICES ASSUME delivered = "DISCONNECTED", seen["CONNECTED"] > 0
               PROVE  seen["CLOSED_READ"] > 0 /\ seen["CLOSED_WRITE"] > 0
    BY DEF ClosedBeforeDisconnected
  <2>1. rc.disc = "fini" /\ rc.ev = "none" /\ t.connected
    BY DEF EInv, Reported
  <2>2. rc.state = "fini" /\ rc.pend = {}
    BY <2>1 DEF EInv, Good, Open, Loose, Finished
  <2> QED
    BY <2>1, <2>2 DEF EInv, Reported, pni_raw_rclosed, pni_raw_wclosed
<1> QED
  BY <1>1, <1>2, <1>3, <1>4, <1>5, <1>6

\* EInv is an invariant: what the process and done functions, the poller, the lookup
\* and the wakes preserve between them.
THEOREM EpollInvariance ==
  ASSUME EpollWellUsed
  PROVE  EpollSpec => []EInv
<1>1. EpollInit => EInv
  BY InitEInv
<1>2. EInv /\ [EpollNext]_epollVars => EInv'
  BY NextEInv
<1> QED
  BY <1>1, <1>2, PTL DEF EpollSpec

\* A wake that pn_raw_connection_wake accepted is never forgotten, whenever it arrives
\* between process, the application's calls and done.
THEOREM WakesKept ==
  ASSUME EpollWellUsed
  PROVE  EpollSpec => []WakeNotLost
<1>1. EInv => WakeNotLost
  BY EInvImplies
<1> QED
  BY <1>1, EpollInvariance, PTL

\* praw_initiate_cleanup frees nothing that the poller still has an event for.
THEOREM NothingLate ==
  ASSUME EpollWellUsed
  PROVE  EpollSpec => []NoLateEvent
<1>1. EInv => NoLateEvent
  BY EInvImplies
<1> QED
  BY <1>1, EpollInvariance, PTL

\* A connection with a socket that nothing is scheduled for is polled for all that it
\* could do.
THEOREM AllAttended ==
  ASSUME EpollWellUsed
  PROVE  EpollSpec => []SocketAttended
<1>1. EInv => SocketAttended
  BY EInvImplies
<1> QED
  BY <1>1, EpollInvariance, PTL

\* The epoll driver calls raw_connection.c only in an order in which the assertion of
\* pni_raw_new_state holds.
THEOREM EpollTransitionsRight ==
  ASSUME EpollWellUsed
  PROVE  EpollSpec => []NoWrongTransition
<1>1. EInv => NoWrongTransition
  BY EInvImplies
<1> QED
  BY <1>1, EpollInvariance, PTL

\* What DISCONNECTED promises holds under the epoll driver: both sides were reported
\* closed, every buffer was given back, and no event follows.
THEOREM EpollClosingRight ==
  ASSUME EpollWellUsed
  PROVE  EpollSpec => ClosingEvents
<1> DEFINE Closing == /\ DisconnectReturnsBuffers' /\ ClosedBeforeDisconnected'
                      /\ delivered = "DISCONNECTED" => UNCHANGED <<delivered, seen>>
<1>1. EInv /\ [EpollNext]_epollVars => [Closing]_vars
  <2> SUFFICES ASSUME EInv, [EpollNext]_epollVars
               PROVE  Closing
    OBVIOUS
  <2>1. EInv' /\ (delivered = "DISCONNECTED" => UNCHANGED <<delivered, seen>>)
    BY NextEInv
  <2>2. (EInv => DisconnectReturnsBuffers /\ ClosedBeforeDisconnected)'
    BY EInvImplies, PTL
  <2> QED
    BY <2>1, <2>2
<1>2. EpollSpec => [][Closing]_vars
  BY <1>1, EpollInvariance, PTL DEF EpollSpec
<1> QED
  BY <1>2 DEF ClosingEvents
=============================================================================

------------------------ MODULE EpollRawConnection -------------------------
(***************************************************************************)
(* A raw connection run by the epoll proactor,                             *)
(* c/src/proactor/epoll_raw_connection.c: how a name lookup, the socket,   *)
(* the poller, wakes from any thread and the application that holds the    *)
(* batch drive the component of module RawConnection.                      *)
(*                                                                         *)
(* The record t is praw_connection_t with its task.  Only one thread runs  *)
(* the task at a time (assign_thread), so pni_raw_connection_process and   *)
(* pni_raw_connection_done are steps; the poller (epoll_wait, then         *)
(* post_event), the lookup and the wakes run concurrently.                 *)
(***************************************************************************)
EXTENDS RawConnection

CONSTANTS
  MaxAddresses,    \* addresses a name lookup may return
  LookupMayFail,   \* getaddrinfo may fail
  MayFailUnseen,   \* every connect may fail while the application is working
  MayRearmLate,    \* an event may arrive while the task runs and arms again
  MayStopEarly     \* pn_proactor_done may come before the batch is empty

ASSUME EpollBounds ==
  /\ MaxAddresses \in Nat \ {0}
  /\ {LookupMayFail, MayFailUnseen, MayRearmLate, MayStopEarly} \subseteq BOOLEAN

VARIABLES
  t,     \* the praw_connection_t, its task and its epoll registration
  peer,  \* the other end: "open", "fin" (it closed) or "rst" (it reset)
  data   \* there are bytes to read

epollVars == <<rc, seen, delivered, link, t, peer, data>>

\* link is the socket here: "none", "connecting", "up", "failed" or "shut".

Interests == {"IN", "OUT"}
Sockets == {"none", "connecting", "up", "failed", "shut"}

EpollInit ==
  /\ rc = pni_raw_initialize
  /\ seen = [e \in Lifecycle |-> 0]
  /\ delivered = "none"
  /\ link = "none" /\ peer = "open" /\ data = FALSE
  /\ t = [phase |-> "new", ready |-> FALSE, waking |-> FALSE, closing |-> FALSE,
          armed |-> FALSE, current_arm |-> {}, connected |-> FALSE,
          disconnected |-> FALSE, hup_detected |-> FALSE, read_check |-> FALSE,
          first_schedule |-> FALSE, lookup |-> FALSE, addresses |-> 0,
          kernel |-> FALSE, wanted |-> {}, harvested |-> {}, sched_io |-> {}]

\* phase: "new", "idle", "working" (the application holds the batch), "freed"
Alive == t.phase \in {"idle", "working"} /\ Running

schedule(x) == IF x.phase = "working" THEN x ELSE [x EXCEPT !.ready = TRUE]

-----------------------------------------------------------------------------
(* The kernel and the poller *)

SocketEvents ==
  CASE link \in {"none", "connecting"} -> {}
    [] link = "failed" -> {"ERR", "HUP"}
    [] link = "shut" -> {"IN", "OUT", "HUP"}
    [] link = "up" ->
         {"OUT"} \cup (IF data \/ peer # "open" THEN {"IN"} ELSE {})
                 \cup (IF peer = "rst" THEN {"ERR", "HUP"} ELSE {})
                 \cup (IF peer = "fin" /\ rc.state \in {"ro_ws", "fini"} THEN {"HUP"} ELSE {})

\* rearm_polling and start_polling: a one-shot registration
Poll(x, wanted) ==
  [x EXCEPT !.kernel = TRUE, !.wanted = wanted, !.armed = TRUE, !.current_arm = wanted]

epoll_wait ==
  /\ t.kernel
  /\ SocketEvents \cap (t.wanted \cup {"ERR", "HUP"}) # {}
  /\ t' = [t EXCEPT !.kernel = FALSE,
                    !.harvested = SocketEvents \cap (t.wanted \cup {"ERR", "HUP"})]
  /\ UNCHANGED <<rc, seen, delivered, link, peer, data>>

post_event ==
  /\ t.harvested # {}
  /\ t' = [t EXCEPT !.sched_io = t.harvested, !.harvested = {}]
  /\ UNCHANGED <<rc, seen, delivered, link, peer, data>>

Network ==
  /\ Running
  /\ \/ link = "connecting" /\ link' \in {"up", "failed"} /\ UNCHANGED <<peer, data>>
     \/ link = "up" /\ peer = "open" /\ UNCHANGED link
        /\ \/ ~data /\ data' = TRUE /\ UNCHANGED peer
           \/ peer' \in {"fin", "rst"} /\ UNCHANGED data
  /\ UNCHANGED <<rc, seen, delivered, t>>

-----------------------------------------------------------------------------
(* Starting *)

pn_proactor_raw_connect ==
  /\ t.phase = "new"
  /\ t' = schedule([t EXCEPT !.phase = "idle", !.first_schedule = TRUE])
  /\ UNCHANGED <<rc, seen, delivered, link, peer, data>>

pn_listener_raw_accept ==
  /\ t.phase = "new"
  /\ \/ /\ link' = "up"
        /\ t' = [Poll(t, Interests) EXCEPT !.phase = "idle", !.connected = TRUE]
        /\ rc' = pni_raw_connected(rc)
     \/ /\ t' = schedule([t EXCEPT !.phase = "idle"])
        /\ rc' = pni_raw_connect_failed(rc)
        /\ UNCHANGED link
  /\ UNCHANGED <<seen, delivered, peer, data>>

\* The results of praw_connection_maybe_connect_lh: any number of addresses
\* fail at once; the last connect() started or none.
MaybeConnect(x) ==
  IF x.closing THEN {<<x, link>>}
  ELSE {<<[Poll(x, Interests) EXCEPT !.addresses = n], "connecting">>
          : n \in 0..(x.addresses - 1)}
       \cup {<<[x EXCEPT !.addresses = 0, !.disconnected = TRUE], link>>}

\* raw_connection_lookup_done_lh
raw_connection_lookup_done ==
  /\ Alive /\ t.lookup
  /\ \/ /\ LookupMayFail
        /\ t' = schedule([t EXCEPT !.lookup = FALSE])
        /\ UNCHANGED link
     \/ \E n \in 1..MaxAddresses :
        \E m \in MaybeConnect([t EXCEPT !.lookup = FALSE, !.addresses = n]) :
          /\ m[1].disconnected /\ t.phase = "working" => MayFailUnseen
          /\ link' = m[2]
          /\ t' = IF m[2] # "none" /\ ~t.waking THEN m[1] ELSE schedule(m[1])
  /\ UNCHANGED <<rc, seen, delivered, peer, data>>

-----------------------------------------------------------------------------
(* Running *)

\* What recv and send return, given the socket.
RecvOutcomes(c) ==
  {o \in ReadOutcomes(c) :
     /\ (o[1] > 0) => data
     /\ (o[1] = 0 /\ data) => (o[2] = "error" \/ c.unused = 0)
     /\ (o[2] = "eof") => (peer = "fin" \/ link = "shut")
     /\ (o[2] = "error") => peer = "rst"
     /\ (o[2] = "blocked" /\ o[1] < c.unused) => peer = "open"}

SendOutcomes(c) ==
  {o \in WriteOutcomes(c) :
     /\ o[2] = "error" => (peer = "rst" \/ link \in {"none", "failed", "shut"})
     /\ link \in {"none", "failed"} /\ c.towrite > 0 => o = <<0, "error">>
     /\ link = "connecting" => o[1] = 0
     /\ o[2] # "zero"}

\* Mutant of praw_initiate_cleanup: it does not wait for the armed event.
CleanupWhileArmed(x) ==
  /\ t' = [x EXCEPT !.phase = "freed", !.kernel = FALSE]
  /\ UNCHANGED link

praw_initiate_cleanup(x) ==
  /\ t' = IF x.armed THEN x ELSE [x EXCEPT !.phase = "freed", !.kernel = FALSE]
  /\ link' = IF x.armed /\ link # "none" THEN "shut" ELSE link

ProcessConnecting(x, io) ==
  \/ /\ x.first_schedule
     /\ t' = [x EXCEPT !.first_schedule = FALSE, !.lookup = TRUE,
                       !.phase = IF x.waking THEN "working" ELSE "idle"]
     /\ UNCHANGED <<rc, link>>
  \/ /\ ~x.first_schedule
     /\ \E m \in (IF io \cap {"HUP", "ERR"} # {} THEN MaybeConnect(x) ELSE {<<x, link>>}) :
          /\ link' = m[2]
          /\ IF m[1].disconnected
             THEN /\ rc' = pni_raw_connect_failed(rc)
                  /\ t' = [m[1] EXCEPT !.phase = "working"]
             ELSE IF io \cap {"HUP", "ERR"} # {}
             THEN /\ UNCHANGED rc
                  /\ t' = [m[1] EXCEPT !.phase =
                       IF (x.waking /\ pni_raw_can_wake(rc)) \/ "WAKE" \in rc.pend \/ rc.ev # "none"
                       THEN "working" ELSE "idle"]
             ELSE IF "OUT" \in io
             THEN /\ rc' = pni_raw_connected(rc)
                  /\ t' = [x EXCEPT !.phase = "working", !.connected = TRUE]
             ELSE UNCHANGED rc /\ t' = [x EXCEPT !.phase = "working"]
  /\ UNCHANGED data

ProcessConnected(x, io) ==
  /\ UNCHANGED link
  /\ IF "ERR" \in io
     THEN /\ rc.state \in {"ro_wd", "rc_wd", "rs_wd"} => MayResetDraining
          /\ rc' = pni_raw_async_disconnect(rc)
          /\ t' = [x EXCEPT !.phase = "working"]
          /\ UNCHANGED data
     ELSE LET reads == ("IN" \in io \/ x.read_check) /\ pni_raw_ropen(rc) IN
          /\ t' = [x EXCEPT !.phase = "working", !.read_check = FALSE,
                            !.hup_detected = @ \/ "HUP" \in io]
          /\ \E o \in (IF reads THEN RecvOutcomes(rc) ELSE {<<0, "none">>}) :
               /\ data' = IF reads /\ o[1] < rc.unused THEN FALSE ELSE data
               /\ \E c \in {IF reads THEN pni_raw_read(rc, o[1], o[2]) ELSE rc} :
                    IF "OUT" \in io
                    THEN \E w \in SendOutcomes(c) : rc' = pni_raw_write(c, w[1], w[2])
                    ELSE rc' = c

\* What the task is run for, a schedule() and the posted event, is taken first.
Started(sched_ready) ==
  [t EXCEPT !.ready = @ /\ ~sched_ready,
            !.waking = @ /\ pni_raw_can_wake(rc),
            !.sched_io = {},
            !.armed = @ /\ t.sched_io = {},
            !.current_arm = IF t.sched_io = {} THEN @ ELSE {}]

\* The scheduler runs the task for a posted event, a schedule() or both.
pni_raw_connection_process ==
  /\ Alive /\ t.phase = "idle"
  /\ \E sched_ready \in {t.ready, FALSE} :
       /\ sched_ready \/ t.sched_io # {}
       /\ LET io == t.sched_io
              x  == Started(sched_ready)
          IN  IF pni_raw_finished(rc) /\ ~x.lookup
              THEN praw_initiate_cleanup(x) /\ UNCHANGED <<rc, data>>
              ELSE IF x.closing
              THEN t' = [x EXCEPT !.phase = "working"] /\ UNCHANGED <<rc, link, data>>
              ELSE IF ~x.connected THEN ProcessConnecting(x, io)
              ELSE ProcessConnected(x, io)
  /\ UNCHANGED <<seen, delivered, peer>>

-----------------------------------------------------------------------------
(* The application *)

pn_raw_connection_wake ==
  /\ Alive /\ ~t.closing
  /\ delivered = "DISCONNECTED" => t.phase = "working"
  /\ t' = IF t.waking THEN t ELSE schedule([t EXCEPT !.waking = TRUE])
  /\ UNCHANGED <<rc, seen, delivered, link, peer, data>>

\* pn_raw_connection_close, _read_close and _write_close
pn_raw_connection_close ==
  /\ \/ rc' = pni_raw_close(rc) /\ t' = [t EXCEPT !.closing = TRUE]
     \/ /\ rc.state # "init" \/ MayCloseEarly
        /\ \/ /\ rc' = pni_raw_read_close(rc)
              /\ t' = [t EXCEPT !.closing = @ \/ pni_raw_wclosed(rc)]
           \/ /\ rc' = pni_raw_write_close(rc)
              /\ t' = [t EXCEPT !.closing = @ \/ pni_raw_rclosed(rc)]

Application ==
  /\ Alive /\ t.phase = "working"
  /\ \/ (GiveRead \/ TakeRead \/ WriteBuffers \/ TakeWritten) /\ UNCHANGED t
     \/ pn_raw_connection_close
  /\ UNCHANGED <<seen, delivered, link, peer, data>>

pni_raw_batch_next ==
  /\ Alive /\ t.phase = "working"
  /\ \E c \in {pni_raw_batch_has_events(IF t.waking THEN pni_raw_wake(rc) ELSE rc)} :
       /\ c.ev # "none"
       /\ rc' = [c EXCEPT !.ev = "none"]
       /\ delivered' = c.ev
       /\ seen' = [e \in Lifecycle |->
                     IF e = c.ev /\ seen[e] < 2 THEN seen[e] + 1 ELSE seen[e]]
  /\ t' = [t EXCEPT !.waking = FALSE]
  /\ UNCHANGED <<link, peer, data>>

\* Mutant of Release: a wake that came while the application worked is lost.
ReleaseForgetsWake(x, c) == [x EXCEPT !.phase = "idle", !.ready = @ \/ c.ev # "none"]

\* The batch is given back; the task is scheduled again for a wake or an event.
Release(x, c) ==
  [x EXCEPT !.phase = "idle",
            !.ready = @ \/ (x.waking /\ pni_raw_can_wake(c)) \/ c.ev # "none"]

\* Mutant of Wanted: a blocked write is not polled for.
WantedForgetsOut(c) == IF pni_raw_can_read(c) THEN {"IN"} ELSE {}

Wanted(c) ==
  (IF pni_raw_can_read(c) THEN {"IN"} ELSE {})
    \cup (IF pni_raw_can_write(c) THEN {"OUT"} ELSE {})

pni_raw_connection_done ==
  /\ Alive /\ t.phase = "working"
  /\ pni_raw_batch_has_events(rc).ev = "none" \/ MayStopEarly
  /\ \E o \in (IF pni_raw_can_write(rc) THEN SendOutcomes(rc) ELSE {<<0, "none">>}) :
     \E c \in {pni_raw_batch_has_events(pni_raw_process_shutdown(
                 IF pni_raw_can_write(rc) THEN pni_raw_write(rc, o[1], o[2]) ELSE rc))} :
       LET x == Release(t, c)
           wanted == Wanted(c)
           polls == /\ ~x.ready /\ x.connected
                    /\ wanted # {} \/ ~x.hup_detected
                    /\ ~x.armed \/ wanted # x.current_arm
       IN  /\ rc' = c
           /\ IF pni_raw_finished(c) /\ ~x.lookup /\ ~x.ready
              THEN praw_initiate_cleanup(x)
              ELSE /\ UNCHANGED link
                   /\ polls /\ x.armed /\ ~x.kernel => MayRearmLate
                   /\ t' = IF x.ready THEN [x EXCEPT !.read_check = pni_raw_can_read(c)]
                           ELSE IF polls THEN Poll(x, wanted) ELSE x
  /\ UNCHANGED <<seen, delivered, peer, data>>

EpollNext ==
  \/ epoll_wait \/ post_event \/ Network
  \/ pn_proactor_raw_connect \/ pn_listener_raw_accept \/ raw_connection_lookup_done
  \/ pni_raw_connection_process \/ pn_raw_connection_wake
  \/ Application \/ pni_raw_batch_next \/ pni_raw_connection_done

EpollSpec == EpollInit /\ [][EpollNext]_epollVars

-----------------------------------------------------------------------------
(* Properties *)

\* Types of the proactor's part of the connection.
EpollTypeOK ==
  /\ rc \in RawType
  /\ t \in [phase : {"new", "idle", "working", "freed"}, ready : BOOLEAN,
            waking : BOOLEAN, closing : BOOLEAN, armed : BOOLEAN,
            current_arm : SUBSET Interests, connected : BOOLEAN,
            disconnected : BOOLEAN, hup_detected : BOOLEAN, read_check : BOOLEAN,
            first_schedule : BOOLEAN, lookup : BOOLEAN, addresses : 0..MaxAddresses,
            kernel : BOOLEAN, wanted : SUBSET Interests,
            harvested : SUBSET (Interests \cup {"ERR", "HUP"}),
            sched_io : SUBSET (Interests \cup {"ERR", "HUP"})]
  /\ link \in Sockets /\ peer \in {"open", "fin", "rst"} /\ data \in BOOLEAN

\* A connection the scheduler has no reason to run is waiting for what it
\* needs: for the name lookup, for the connect, or, when connected, for
\* EPOLLIN if it can read and EPOLLOUT if it can write; and if an event is
\* left for the application (CONNECTED, after pn_listener_raw_accept), for the
\* socket to be writable.  Nothing else would run it again.
Attended ==
  t.phase = "idle" /\ ~t.ready /\ ~t.lookup /\ t.sched_io = {} /\ t.harvested = {} =>
    /\ ~t.connected => t.kernel
    /\ t.connected => \/ pni_raw_batch_has_events(rc).ev = "none"
                      \/ t.kernel /\ "OUT" \in t.wanted
    /\ pni_raw_can_read(rc) => t.kernel /\ "IN" \in t.wanted
    /\ pni_raw_can_write(rc) => t.kernel /\ "OUT" \in t.wanted

\* The same for a connection that has a socket, whether or not the name lookup
\* found an address: between arming and disarming in the process and done
\* functions of the task (praw_connection_process, pni_raw_connection_done) no
\* connection with something to read or write is left without its interest.
SocketAttended == EpollTypeOK /\ (link # "none" => Attended)

\* A wake that was accepted is never forgotten: until it is turned into an
\* event the task is scheduled, or held by the application.
WakeNotLost ==
  t.phase = "idle" /\ t.waking => t.ready \/ t.lookup \/ ~pni_raw_can_wake(rc)

\* praw_initiate_cleanup frees the connection only when the poller holds no
\* event for it.
NoLateEvent == t.phase = "freed" => t.harvested = {}
=============================================================================

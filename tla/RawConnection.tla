--------------------------- MODULE RawConnection ---------------------------
(***************************************************************************)
(* The raw connection of the proactor, c/src/proactor/raw_connection.c: a  *)
(* byte stream that the application drives with buffers of its own.        *)
(*                                                                         *)
(* The record rc is pn_raw_connection_t.  The lists of buffers, which the  *)
(* code links through the slots of two arrays, are represented by their    *)
(* lengths; the pending booleans other than disconnectpending by the set   *)
(* of the events they announce; the collector by its only slot ev, because *)
(* pni_raw_batch_has_events puts an event only when the collector is       *)
(* empty.  Bytes, offsets and the condition are left out.                  *)
(*                                                                         *)
(* The operators named after functions map a record to a record.  The      *)
(* actions of this module call them in any order an I/O driver and an      *)
(* application may; EpollRawConnection calls them in the order the epoll   *)
(* proactor does.                                                          *)
(***************************************************************************)
EXTENDS Integers, Sequences, FiniteSets

CONSTANTS
  read_buffer_count,   \* slots for read buffers (16 in the code)
  write_buffer_count,  \* slots for write buffers (16 in the code)
  MayWriteEarly,       \* buffers may be written before CONNECTED
  MayCloseEarly,       \* one side may be closed before CONNECTED
  MayResetDraining     \* the peer may reset while writes are draining

ASSUME RawBounds ==
  /\ read_buffer_count \in Nat
  /\ write_buffer_count \in Nat

ASSUME RawUse ==
  {MayWriteEarly, MayCloseEarly, MayResetDraining} \subseteq BOOLEAN

VARIABLES
  rc,         \* the pn_raw_connection_t
  seen,       \* how often each lifecycle event has been delivered (at most 2)
  delivered,  \* the last event delivered to the application
  link        \* the socket: "connecting", "up" or "failed"

vars == <<rc, seen, delivered, link>>

States == {"init", "ro_wo", "ro_wd", "ro_wc", "ro_ws", "rc_wo", "rc_wd",
           "rs_wo", "rs_wd", "rs_ws", "fini"}

\* The events of the raw_event enumeration, as columns of the table.
conn_connected     == 1
conn_read_closed   == 2
conn_write_closed  == 3
conn_write_drained == 4
int_read_shutdown  == 5
int_write_shutdown == 6
int_disconnect     == 7
api_read_close     == 8
api_write_close    == 9

W == "wrong"
Self == "self"

state_transitions ==
  [init  |-> <<"ro_wo", W, W, W, W, W, W, "rc_wo", "ro_wd">>,
   ro_wo |-> <<W, "rc_wo", "ro_wc", Self, W, W, W, "rc_wo", "ro_wd">>,
   ro_wd |-> <<W, "rc_wd", "ro_wc", "ro_wc", W, W, W, "rc_wd", Self>>,
   ro_wc |-> <<W, "rs_ws", Self, W, W, "ro_ws", W, "rs_ws", Self>>,
   ro_ws |-> <<W, "rs_ws", Self, Self, W, W, W, "rs_ws", Self>>,
   rc_wo |-> <<W, Self, "rs_ws", Self, "rs_wo", W, W, Self, "rc_wd">>,
   rc_wd |-> <<W, Self, "rs_ws", "rs_ws", "rs_wd", W, W, Self, Self>>,
   rs_wo |-> <<W, Self, "rs_ws", Self, W, W, W, Self, "rs_wd">>,
   rs_wd |-> <<W, Self, "rs_ws", "rs_ws", W, W, W, Self, Self>>,
   rs_ws |-> <<W, Self, Self, W, W, W, "fini", Self, Self>>,
   fini  |-> <<W, W, W, W, W, W, Self, Self, Self>>,
   wrong |-> <<W, W, W, W, W, W, W, W, W>>]

\* The failed assertion of pni_raw_new_state is the state "wrong".
NewState(state, event) ==
  LET new == state_transitions[state][event]
  IN  IF new = Self THEN state ELSE new

pni_raw_new_state(c, event) == [c EXCEPT !.state = NewState(@, event)]

pni_raw_ropen(c)    == c.state \in {"ro_wo", "ro_wd", "ro_wc", "ro_ws"}
pni_raw_rclosed(c)  == c.state \in {"rc_wo", "rc_wd", "rs_wo", "rs_wd", "rs_ws", "fini"}
pni_raw_rclosing(c) == c.state \in {"rc_wo", "rc_wd"}
pni_raw_wclosed(c)  ==
  c.state \in {"ro_wd", "ro_wc", "ro_ws", "rc_wd", "rs_wd", "rs_ws", "fini"}
pni_raw_wdrained(c) == c.state \in {"ro_wc", "ro_ws", "rs_ws", "fini"}
pni_raw_wclosing(c) == c.state = "ro_wc"
pni_raw_rwclosed(c) == c.state \in {"rs_ws", "fini"}

-----------------------------------------------------------------------------
(* Buffers *)

pn_raw_connection_read_buffers_capacity(c) ==
  IF pni_raw_rclosed(c) THEN 0 ELSE read_buffer_count - c.rcount

pn_raw_connection_write_buffers_capacity(c) ==
  IF pni_raw_wclosed(c) THEN 0 ELSE write_buffer_count - c.wcount

\* n is what is left of the caller's number after pn_min with the capacity.
pn_raw_connection_give_read_buffers(c, n) ==
  [c EXCEPT !.unused = @ + n, !.rcount = @ + n, !.rreq = FALSE]

pn_raw_connection_take_read_buffers(c, n) ==
  [c EXCEPT !.rread = @ - n, !.rcount = @ - n]

pn_raw_connection_write_buffers(c, n) ==
  [c EXCEPT !.towrite = @ + n, !.wcount = @ + n, !.wreq = FALSE]

pn_raw_connection_take_written_buffers(c, n) ==
  [c EXCEPT !.written = @ - n, !.wcount = @ - n]

pni_raw_release_buffers(c) ==
  [c EXCEPT !.rread = @ + c.unused, !.unused = 0,
            !.written = @ + c.towrite, !.towrite = 0]

-----------------------------------------------------------------------------
(* Connecting, closing, disconnecting *)

Pend(c, events) == [c EXCEPT !.pend = @ \cup events]

\* Mutant: the buffers are not given back.
DisconnectKeepsBuffers(c) ==
  pni_raw_new_state([c EXCEPT !.disconnectpending = TRUE, !.disc = "init"], int_disconnect)

pni_raw_disconnect(c) ==
  pni_raw_new_state(
    [pni_raw_release_buffers(c) EXCEPT !.disconnectpending = TRUE, !.disc = "init"],
    int_disconnect)

DisconnectIfClosed(c) == IF pni_raw_rwclosed(c) THEN pni_raw_disconnect(c) ELSE c

pni_raw_connected(c) == pni_raw_new_state(Pend(c, {"CONNECTED"}), conn_connected)

pni_raw_connect_failed(c) == pni_raw_disconnect([c EXCEPT !.state = "fini"])

pni_raw_can_wake(c) == c.disc # "fini"

pni_raw_wake(c) == IF pni_raw_can_wake(c) THEN Pend(c, {"WAKE"}) ELSE c

pni_raw_finished(c) == c.disc = "fini" /\ c.ev = "none"

CloseRead(c) ==
  pni_raw_new_state(
    IF pni_raw_rclosed(c) THEN c ELSE Pend(c, {"CLOSED_READ"}), api_read_close)

\* Mutants: the write side is closed a second time; an idle connection is
\* left draining.
CloseWriteTwice(c) ==
  LET closed == pni_raw_new_state(
                  IF pni_raw_wclosed(c) THEN c ELSE Pend(c, {"CLOSED_WRITE"}),
                  api_write_close)
  IN  IF closed.towrite = 0 THEN pni_raw_new_state(closed, conn_write_drained) ELSE closed

CloseWriteLeavesDraining(c) ==
  IF pni_raw_wdrained(c) THEN c
  ELSE pni_raw_new_state(
         IF pni_raw_wclosed(c) THEN c ELSE Pend(c, {"CLOSED_WRITE"}), api_write_close)

CloseWrite(c) ==
  IF pni_raw_wdrained(c) THEN c
  ELSE LET closed == pni_raw_new_state(
                       IF pni_raw_wclosed(c) THEN c ELSE Pend(c, {"CLOSED_WRITE"}),
                       api_write_close)
       IN  IF closed.towrite = 0
           THEN pni_raw_new_state(closed, conn_write_drained)
           ELSE closed

pni_raw_read_close(c) ==
  IF pni_raw_rwclosed(c) THEN c ELSE DisconnectIfClosed(CloseRead(c))

pni_raw_write_close(c) ==
  IF pni_raw_rwclosed(c) THEN c ELSE DisconnectIfClosed(CloseWrite(c))

pni_raw_close(c) ==
  IF pni_raw_rwclosed(c) THEN c ELSE DisconnectIfClosed(CloseWrite(CloseRead(c)))

\* The read side goes first; the write side is closed, and its buffers
\* returned, only when the application has not closed it.
AsyncCloseRead(c) ==
  IF pni_raw_rclosed(c) THEN c
  ELSE pni_raw_new_state(Pend(c, {"CLOSED_READ"}), conn_read_closed)

AsyncCloseWrite(c) ==
  IF pni_raw_wclosed(c) THEN c
  ELSE pni_raw_new_state(
         Pend(pni_raw_release_buffers(c), {"CLOSED_WRITE"}), conn_write_closed)

pni_raw_async_disconnect(c) ==
  IF pni_raw_rwclosed(c) THEN c
  ELSE pni_raw_disconnect(AsyncCloseWrite(AsyncCloseRead(c)))

-----------------------------------------------------------------------------
(* Reading and writing.  A call fills or empties k buffers and then stops  *)
(* at the outcome: out of buffers, blocked, end of stream, or an error.    *)

ReadOutcomes(c) ==
  {o \in (0..c.unused) \X {"blocked", "eof", "error"} :
     o[1] = c.unused => o[2] = "blocked"}

pni_raw_read(c, k, outcome) ==
  IF ~pni_raw_ropen(c) THEN c
  ELSE LET n == IF outcome = "eof" THEN k + 1 ELSE k   \* the empty last buffer
           moved == [c EXCEPT !.unused = @ - n, !.rread = @ + n]
           told == IF moved.rread > 0 THEN Pend(moved, {"READ"}) ELSE moved
       IN  CASE outcome = "error"   -> pni_raw_close(moved)
             [] outcome = "blocked" -> told
             [] outcome = "eof"     ->
                  DisconnectIfClosed(
                    pni_raw_new_state(Pend(told, {"CLOSED_READ"}), conn_read_closed))

WriteOutcomes(c) ==
  {o \in (0..c.towrite) \X {"blocked", "zero", "error"} :
     o[1] = c.towrite => o[2] = "blocked"}

\* Mutant: the write that drains a closed connection does not disconnect it.
WriteNeverDisconnects(c, k, outcome) ==
  IF pni_raw_wdrained(c) THEN c
  ELSE LET moved == [c EXCEPT !.towrite = @ - k, !.written = @ + k]
           told == IF moved.written > 0 THEN Pend(moved, {"WRITTEN"}) ELSE moved
       IN  IF outcome = "blocked" /\ told.towrite = 0
           THEN pni_raw_new_state(told, conn_write_drained) ELSE told

pni_raw_write(c, k, outcome) ==
  IF pni_raw_wdrained(c) THEN c
  ELSE LET moved == [c EXCEPT !.towrite = @ - k, !.written = @ + k]
           told == IF moved.written > 0 THEN Pend(moved, {"WRITTEN"}) ELSE moved
           drained == IF told.towrite = 0
                      THEN pni_raw_new_state(told, conn_write_drained) ELSE told
           closed == IF outcome = "zero"
                     THEN pni_raw_new_state(Pend(drained, {"CLOSED_WRITE"}), conn_write_closed)
                     ELSE drained
       IN  IF outcome = "error" THEN pni_raw_close(pni_raw_release_buffers(moved))
           ELSE IF closed.state # c.state THEN DisconnectIfClosed(closed) ELSE closed

pni_raw_process_shutdown(c) ==
  LET r == IF pni_raw_rclosing(c) THEN pni_raw_new_state(c, int_read_shutdown) ELSE c
  IN  IF pni_raw_wclosing(r) THEN pni_raw_new_state(r, int_write_shutdown) ELSE r

pni_raw_can_read(c)  == pni_raw_ropen(c) /\ c.unused > 0
pni_raw_can_write(c) == ~pni_raw_wdrained(c) /\ c.towrite > 0

-----------------------------------------------------------------------------
(* Events *)

Lifecycle == {"CONNECTED", "CLOSED_READ", "CLOSED_WRITE", "DRAIN_BUFFERS", "DISCONNECTED"}

\* The order in which pni_raw_batch_has_events looks at the pending booleans.
PendingOrder ==
  <<"CONNECTED", "WAKE", "READ", "WRITTEN", "CLOSED_READ", "CLOSED_WRITE">>

Pending == {PendingOrder[i] : i \in 1..6}

Events == Pending \cup Lifecycle \cup {"NEED_WRITE_BUFFERS", "NEED_READ_BUFFERS"}

FirstPending(pend) ==
  PendingOrder[CHOOSE i \in 1..6 : /\ PendingOrder[i] \in pend
                                   /\ \A j \in 1..(i - 1) : PendingOrder[j] \notin pend]

pni_raw_batch_has_events(c) ==
  IF c.ev # "none" THEN c
  ELSE IF c.pend # {}
  THEN [c EXCEPT !.ev = FirstPending(c.pend), !.pend = @ \ {FirstPending(c.pend)}]
  ELSE IF c.disconnectpending
  THEN IF c.disc = "init" /\ c.rread + c.written > 0
       THEN [c EXCEPT !.ev = "DRAIN_BUFFERS", !.disc = "drain_msg"]
       ELSE [c EXCEPT !.ev = "DISCONNECTED", !.disc = "fini", !.disconnectpending = FALSE]
  ELSE IF ~pni_raw_wdrained(c) /\ c.towrite = 0 /\ ~c.wreq
  THEN [c EXCEPT !.ev = "NEED_WRITE_BUFFERS", !.wreq = TRUE]
  ELSE IF ~pni_raw_rclosed(c) /\ c.unused = 0 /\ ~c.rreq
  THEN [c EXCEPT !.ev = "NEED_READ_BUFFERS", !.rreq = TRUE]
  ELSE c

-----------------------------------------------------------------------------
(* The actions *)

pni_raw_initialize ==
  [state |-> "init", disc |-> "init", disconnectpending |-> FALSE, pend |-> {},
   rreq |-> FALSE, wreq |-> FALSE, rcount |-> 0, wcount |-> 0,
   unused |-> 0, rread |-> 0, towrite |-> 0, written |-> 0, ev |-> "none"]

Init ==
  /\ rc = pni_raw_initialize
  /\ seen = [e \in Lifecycle |-> 0]
  /\ delivered = "none"
  /\ link = "connecting"

Running == rc.state # "wrong"

\* What the application calls while it holds the batch of the connection.
GiveRead ==
  \E n \in 1..pn_raw_connection_read_buffers_capacity(rc) :
    rc' = pn_raw_connection_give_read_buffers(rc, n)

TakeRead ==
  \E n \in 1..rc.rread : rc' = pn_raw_connection_take_read_buffers(rc, n)

WriteBuffers ==
  /\ rc.state # "init" \/ MayWriteEarly
  /\ \E n \in 1..pn_raw_connection_write_buffers_capacity(rc) :
       rc' = pn_raw_connection_write_buffers(rc, n)

TakeWritten ==
  \E n \in 1..rc.written : rc' = pn_raw_connection_take_written_buffers(rc, n)

\* A half close before CONNECTED leaves the other half to be connected.
HalfClose ==
  /\ rc.state # "init" \/ MayCloseEarly
  /\ rc' \in {pni_raw_read_close(rc), pni_raw_write_close(rc)}

Close == rc' = pni_raw_close(rc)

ApplicationCall ==
  /\ Running
  /\ GiveRead \/ TakeRead \/ WriteBuffers \/ TakeWritten \/ HalfClose \/ Close
  /\ UNCHANGED <<seen, delivered, link>>

pni_raw_event_next ==
  /\ Running
  /\ \E c \in {pni_raw_batch_has_events(rc)} :
       /\ c.ev # "none"
       /\ rc' = [c EXCEPT !.ev = "none"]
       /\ delivered' = c.ev
       /\ seen' = [e \in Lifecycle |->
                     IF e = c.ev /\ seen[e] < 2 THEN seen[e] + 1 ELSE seen[e]]
  /\ UNCHANGED link

Wake ==
  /\ Running
  /\ rc' = pni_raw_wake(rc)
  /\ UNCHANGED <<seen, delivered, link>>

\* The socket connects once, unless the application closed it meanwhile.
Connect ==
  /\ Running /\ link = "connecting" /\ ~pni_raw_rwclosed(rc)
  /\ \/ link' = "up" /\ rc' = pni_raw_connected(rc)
     \/ link' = "failed" /\ rc' = pni_raw_connect_failed(rc)
  /\ UNCHANGED <<seen, delivered>>

DoRead ==
  /\ link = "up" /\ pni_raw_can_read(rc)
  /\ \E o \in ReadOutcomes(rc) : rc' = pni_raw_read(rc, o[1], o[2])

\* The driver writes before the socket is connected, too.
DoWrite ==
  /\ link # "failed" /\ pni_raw_can_write(rc)
  /\ \E o \in WriteOutcomes(rc) : rc' = pni_raw_write(rc, o[1], o[2])

DoShutdown == rc' = pni_raw_process_shutdown(rc)

DoReset ==
  /\ link = "up"
  /\ rc.state \in {"ro_wd", "rc_wd", "rs_wd"} => MayResetDraining
  /\ rc' = pni_raw_async_disconnect(rc)

DriverCall ==
  /\ Running
  /\ DoRead \/ DoWrite \/ DoShutdown \/ DoReset
  /\ UNCHANGED <<seen, delivered, link>>

Next == ApplicationCall \/ pni_raw_event_next \/ Wake \/ Connect \/ DriverCall

Spec == Init /\ [][Next]_vars

-----------------------------------------------------------------------------
(* Fairness.  The application consumes its events and the peer keeps       *)
(* reading, so a write that is tried again in the end writes a buffer.     *)

WriteProgress ==
  /\ Running /\ DoWrite /\ rc'.towrite < rc.towrite
  /\ UNCHANGED <<seen, delivered, link>>

FairSpec == Spec /\ WF_vars(pni_raw_event_next) /\ WF_vars(WriteProgress)

-----------------------------------------------------------------------------
(* Properties *)

RawType ==
  [state : States \cup {W}, disc : {"init", "drain_msg", "fini"},
   disconnectpending : BOOLEAN, pend : SUBSET Pending,
   rreq : BOOLEAN, wreq : BOOLEAN,
   rcount : 0..read_buffer_count, wcount : 0..write_buffer_count,
   unused : 0..read_buffer_count, rread : 0..read_buffer_count,
   towrite : 0..write_buffer_count, written : 0..write_buffer_count,
   ev : Events \cup {"none"}]

\* Types; in particular no list of buffers outgrows the slots it has.
TypeOK ==
  /\ rc \in RawType
  /\ seen \in [Lifecycle -> 0..2]
  /\ delivered \in Events \cup {"none"}
  /\ link \in {"connecting", "up", "failed"}

\* What the assertion of pni_raw_new_state says: whatever the order of the
\* application's calls, the I/O results and the resets, no event arrives in
\* a state whose row of state_transitions calls it wrong.
NoWrongTransition == rc.state # W

\* The counting part of pni_raw_validate: the number of slots in use, from
\* which the capacities are computed, is the number of buffers on the lists,
\* and no list outgrows its slots.  And a connection that waits for its writes to
\* drain has something to write: the driver polls for EPOLLOUT only while there is
\* a buffer, so an empty draining connection would never be disconnected.
BuffersAccounted ==
  /\ TypeOK
  /\ rc.rcount = rc.unused + rc.rread
  /\ rc.wcount = rc.towrite + rc.written
  /\ rc.state \in {"ro_wd", "rc_wd", "rs_wd"} => rc.towrite > 0

\* When DISCONNECTED is announced the connection has given every buffer
\* back to the lists the application takes from, and if any is left there
\* DRAIN_BUFFERS has told the application so.
DisconnectReturnsBuffers ==
  rc.disc = "fini" =>
    /\ rc.unused = 0 /\ rc.towrite = 0
    /\ rc.rread + rc.written > 0 => seen["DRAIN_BUFFERS"] > 0

\* A connection that was connected reports both of its sides closed before
\* it reports DISCONNECTED, whether the application, the peer, an error or
\* a reset closed them.
ClosedBeforeDisconnected ==
  delivered = "DISCONNECTED" /\ seen["CONNECTED"] > 0 =>
    seen["CLOSED_READ"] > 0 /\ seen["CLOSED_WRITE"] > 0

\* What DISCONNECTED promises: both sides were reported closed before it and every
\* buffer was given back, and it is the last event: no wake, close, read or second
\* DISCONNECTED follows it, whatever is still called on the connection.
ClosingEvents ==
  [][/\ DisconnectReturnsBuffers' /\ ClosedBeforeDisconnected'
     /\ delivered = "DISCONNECTED" => UNCHANGED <<delivered, seen>>]_vars

\* A connection closed on both sides is reported DISCONNECTED, unless the
\* application keeps waking it: every wake goes ahead of the disconnect.
EventuallyDisconnected ==
  (<>[]("WAKE" \notin rc.pend)) =>
    ((pni_raw_rclosed(rc) /\ pni_raw_wclosed(rc)) ~> (delivered = "DISCONNECTED"))
=============================================================================

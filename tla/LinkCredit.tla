----------------------------- MODULE LinkCredit -----------------------------
(***************************************************************************)
(* One link between two proton engines: the credit the receiver grants,    *)
(* the deliveries the sender queues against it, their transfer in one or   *)
(* more frames, abort and early settlement, and the drain handshake.       *)
(*                                                                         *)
(* Both links are attached.  The session window is left to SessionFlow:    *)
(* here a pass of the sender's transport may post any number of frames up  *)
(* to MaxWindow, and the receiver's session may need a FLOW at any pass.   *)
(* A frame carries at most one unit of payload.  Delivery counts are       *)
(* pn_sequence_t; the model keeps them unwrapped and wraps (% U32) the two *)
(* differences that pn_do_flow computes.                                   *)
(***************************************************************************)
EXTENDS Integers, Sequences, SequencesExt, FiniteSetsExt

CONSTANTS
  MaxDeliveries,     \* bound: deliveries the sender creates
  MaxBytes,          \* bound: units of payload of a delivery
  MaxCredit,         \* bound: credit granted in a behaviour
  max_buffered_delivery_bytes,  \* limit of the receiver's transport, 0: none
  MaxWindow,         \* remote_incoming_window the sender's session has at most
  MaxChannel,        \* bound: frames in flight in one direction
  U32,               \* 2^32, the range of pn_sequence_t
  MayDrain,          \* does the receiver use drain?
  WindowMayClose,    \* may a pass find the session window closed?
  MayDrainBusy,      \* may pn_link_drained be called with payload still unsent?
  MayInterruptDrain, \* may the link be used, or a FLOW come in, before the next pass?
  MayAbortQueued,    \* may it abort a delivery it has advanced over, unsent?
  MayDropPartial     \* may the receiver advance over or settle a partial one?

ASSUME LinkBounds ==
  /\ MaxDeliveries \in Nat /\ MaxBytes \in Nat /\ MaxCredit \in Nat
  /\ max_buffered_delivery_bytes \in Nat
  /\ MaxWindow \in Nat \ {0} /\ MaxChannel \in Nat /\ U32 \in Nat \ {0}
ASSUME LinkUse ==
  {MayDrain, WindowMayClose, MayDrainBusy, MayInterruptDrain, MayAbortQueued,
   MayDropPartial} \subseteq BOOLEAN

VARIABLES
  s,       \* the sending pn_link_t with its pn_link_state_t
  r,       \* the receiving one
  toRcv,   \* frames in flight: TRANSFERs and the sender's FLOWs
  toSnd    \* FLOWs of the receiver
vars == <<s, r, toRcv, toSnd>>

Ids == 1..MaxDeliveries

\* A pn_delivery_t: "none" before pn_delivery, "freed" after pn_full_settle.
\* total and got count payload, for DeliveredIntact; src is the sender's delivery
\* that a receiver's one stands for.
NoSend == [st |-> "none", bytes |-> 0, total |-> 0, done |-> FALSE,
           aborted |-> FALSE, settled |-> FALSE, sending |-> FALSE, sent |-> FALSE]
NoRecv == [st |-> "none", bytes |-> 0, got |-> 0, src |-> 0, done |-> FALSE,
           aborted |-> FALSE, settled |-> FALSE]

Init ==
  /\ s = [credit |-> 0, queued |-> 0, drain |-> FALSE, drained |-> 0,
          link_credit |-> 0, delivery_count |-> 0, current |-> 0,
          outgoing_bytes |-> 0, dlv |-> [d \in Ids |-> NoSend],
          tpwork |-> <<>>, modified |-> FALSE]
  /\ r = [credit |-> 0, queued |-> 0, drain |-> FALSE, drain_flag_mode |-> TRUE,
          drained |-> 0, link_credit |-> 0, delivery_count |-> 0, current |-> 0,
          incoming_bytes |-> 0, buffered_delivery_bytes |-> 0,
          more_pending |-> FALSE, dlv |-> [d \in Ids |-> NoRecv],
          tpwork |-> <<>>, modified |-> FALSE, granted |-> 0, error |-> FALSE]
  /\ toRcv = <<>> /\ toSnd = <<>>

-----------------------------------------------------------------------------
(* Lists of deliveries.  They are numbered in the order they are created,  *)
(* which is their order in the unsettled list.                             *)

Live(l) == {d \in Ids : l.dlv[d].st = "live"}
Created(l) == {d \in Ids : l.dlv[d].st # "none"}
UnsettledTail(l) == IF Live(l) = {} THEN 0 ELSE Max(Live(l))
UnsettledNext(l, d) ==
  LET after == {e \in Live(l) : e > d} IN IF after = {} THEN 0 ELSE Min(after)

\* pni_add_tpwork
AddTpwork(list, d) == IF Contains(list, d) THEN list ELSE Append(list, d)

\* pn_clear_tpwork
ClearTpwork(list, d) == SelectSeq(list, LAMBDA e : e # d)

\* pn_delivery_buffered
Buffered(x) == ~x.sent /\ (x.done \/ x.bytes > 0)

-----------------------------------------------------------------------------
(* Application of the sender                                               *)

\* pn_link_drained was called and the transport has not reported it yet.
MayUse == s.drained = 0 \/ MayInterruptDrain

pn_delivery ==
  LET d == Cardinality(Created(s)) + 1 IN
  /\ d \in Ids /\ MayUse
  /\ s' = [s EXCEPT !.dlv[d].st = "live",
                    !.current = IF @ = 0 THEN d ELSE @]
  /\ UNCHANGED <<r, toRcv, toSnd>>

pn_link_send ==
  /\ s.current # 0 /\ MayUse
  /\ s.dlv[s.current].total < MaxBytes
  /\ s' = [s EXCEPT !.dlv[s.current].bytes = @ + 1,
                    !.dlv[s.current].total = @ + 1,
                    !.outgoing_bytes = @ + 1,
                    !.tpwork = AddTpwork(@, s.current)]
  /\ UNCHANGED <<r, toRcv, toSnd>>

\* Mutant of AdvanceSender: a delivery that is forgotten is counted too.
AdvanceSenderCountsAll(l) ==
  [l EXCEPT !.dlv[l.current].done = TRUE,
            !.queued = @ + 1, !.credit = @ - 1,
            !.tpwork = AddTpwork(@, l.current),
            !.current = UnsettledNext(l, l.current)]

\* pni_advance_sender: a delivery aborted before its first frame is not counted.
AdvanceSender(l) ==
  LET d == l.current
      n == IF l.dlv[d].aborted /\ ~l.dlv[d].sending THEN 0 ELSE 1
  IN  [l EXCEPT !.dlv[d].done = TRUE,
                !.queued = @ + n, !.credit = @ - n,
                !.tpwork = AddTpwork(@, d),
                !.current = UnsettledNext(l, d)]

\* pn_delivery_settle of the sender's delivery d
SettleSender(l, d) ==
  LET m == IF l.current = d THEN AdvanceSender(l) ELSE l
  IN  [m EXCEPT !.dlv[d].settled = TRUE, !.tpwork = AddTpwork(@, d)]

\* Deliveries that are current or advanced over, and not settled yet.
Settleable(l) ==
  {d \in Live(l) : ~l.dlv[d].settled /\ (l.current = 0 \/ d <= l.current)}

pn_link_advance_sender ==
  /\ s.current # 0 /\ MayUse
  /\ s' = AdvanceSender(s)
  /\ UNCHANGED <<r, toRcv, toSnd>>

pn_delivery_settle_sender ==
  /\ MayUse
  /\ \E d \in Settleable(s) : s' = SettleSender(s, d)
  /\ UNCHANGED <<r, toRcv, toSnd>>

pn_delivery_abort ==
  /\ MayUse
  /\ \E d \in Settleable(s) :
       /\ MayAbortQueued \/ d = s.current \/ s.dlv[d].sending
       /\ LET m == SettleSender([s EXCEPT !.dlv[d].aborted = TRUE], d) IN
          s' = [m EXCEPT !.outgoing_bytes = @ - m.dlv[d].bytes,
                         !.dlv[d].bytes = 0]
  /\ UNCHANGED <<r, toRcv, toSnd>>

\* A frame of the current delivery is out, the last one is not.
SendingPartial == s.current # 0 /\ s.dlv[s.current].sending

\* Nothing is left to send.
Idle == ~SendingPartial /\ \A d \in Live(s) : ~Buffered(s.dlv[d])

\* Mutant of pn_link_drained_sender: the transport is not told.
DrainedSilently ==
  /\ s.drain /\ s.credit > 0
  /\ MayDrainBusy \/ Idle
  /\ s' = [s EXCEPT !.drained = s.credit, !.credit = 0]
  /\ UNCHANGED <<r, toRcv, toSnd>>

pn_link_drained_sender ==
  /\ s.drain /\ s.credit > 0
  /\ MayDrainBusy \/ Idle
  /\ s' = [s EXCEPT !.drained = s.credit, !.credit = 0, !.modified = TRUE]
  /\ UNCHANGED <<r, toRcv, toSnd>>

-----------------------------------------------------------------------------
(* Application of the receiver                                             *)

LinkFlow(l, c) ==
  [l EXCEPT !.credit = @ + c, !.granted = @ + c, !.modified = TRUE,
            !.drain = IF l.drain_flag_mode THEN @ ELSE FALSE]

SetDrain(l, b) ==
  [l EXCEPT !.drain = b, !.modified = TRUE, !.drain_flag_mode = TRUE]

Credits == 0..(MaxCredit - r.granted)

pn_link_flow ==
  /\ \E c \in Credits \ {0} : r' = LinkFlow(r, c)
  /\ UNCHANGED <<s, toRcv, toSnd>>

pn_link_drain ==
  /\ MayDrain
  /\ \E c \in Credits :
       r' = [LinkFlow(SetDrain(r, TRUE), c) EXCEPT !.drain_flag_mode = FALSE]
  /\ UNCHANGED <<s, toRcv, toSnd>>

pn_link_set_drain ==
  /\ MayDrain
  /\ \E b \in BOOLEAN : r' = SetDrain(r, b)
  /\ UNCHANGED <<s, toRcv, toSnd>>

pn_link_drained_receiver ==
  /\ r.drained # 0
  /\ r' = [r EXCEPT !.drained = 0]
  /\ UNCHANGED <<s, toRcv, toSnd>>

pn_link_recv ==
  /\ r.current # 0 /\ ~r.dlv[r.current].aborted
  /\ \E n \in 1..r.dlv[r.current].bytes :
       r' = [r EXCEPT !.dlv[r.current].bytes = @ - n,
                      !.incoming_bytes = @ - n,
                      !.buffered_delivery_bytes = @ - n]
  /\ UNCHANGED <<s, toRcv, toSnd>>

\* Mutant of AdvanceReceiver: the payload dropped stays counted as buffered.
AdvanceReceiverLeaks(l) ==
  [l EXCEPT !.credit = @ - 1, !.queued = @ - 1,
            !.dlv[l.current].bytes = 0,
            !.current = UnsettledNext(l, l.current)]

\* pni_advance_receiver: unread payload is dropped.
AdvanceReceiver(l) ==
  LET drop == l.dlv[l.current].bytes IN
  [l EXCEPT !.credit = @ - 1, !.queued = @ - 1,
            !.dlv[l.current].bytes = 0,
            !.incoming_bytes = @ - drop,
            !.buffered_delivery_bytes = @ - drop,
            !.current = UnsettledNext(l, l.current)]

pn_link_advance_receiver ==
  /\ r.current # 0
  /\ MayDropPartial \/ r.dlv[r.current].done
  /\ r' = AdvanceReceiver(r)
  /\ UNCHANGED <<s, toRcv, toSnd>>

pn_delivery_settle_receiver ==
  /\ \E d \in Settleable(r) :
       /\ MayDropPartial \/ r.dlv[d].done
       /\ LET m == IF r.current = d THEN AdvanceReceiver(r) ELSE r IN
          r' = [m EXCEPT !.dlv[d].settled = TRUE, !.tpwork = AddTpwork(@, d)]
  /\ UNCHANGED <<s, toRcv, toSnd>>

-----------------------------------------------------------------------------
(* Transport of the sender                                                 *)

Transfer(d, size, more, aborted) ==
  [type |-> "transfer", id |-> d, size |-> size, more |-> more,
   aborted |-> aborted]
FlowFrame(l) ==
  [type |-> "flow", delivery_count |-> l.delivery_count,
   link_credit |-> l.link_credit, drain |-> l.drain]

\* Mutant of TransferFrames: a delivery cut short by the window does not say more.
TransferFramesForgetMore(x, d, limit) ==
  IF x.bytes = 0 THEN <<Transfer(d, 0, ~x.done, x.aborted)>>
  ELSE LET n == Min({x.bytes, limit}) IN
       [i \in 1..n |-> Transfer(d, 1, ~x.done \/ i < n, x.aborted)]

\* pni_post_amqp_transfer_frame: one frame per unit, one frame if there is none;
\* every frame but the last of a finished delivery says more.
TransferFrames(x, d, limit) ==
  IF x.bytes = 0 THEN <<Transfer(d, 0, ~x.done, x.aborted)>>
  ELSE [i \in 1..Min({x.bytes, limit}) |->
          Transfer(d, 1, ~x.done \/ i < x.bytes, x.aborted)]

\* pni_process_tpwork_sender and what pni_process_tpwork does with its answer.
\* acc carries the link, the window left and the frames posted in this pass.
TpworkSender(acc, d) ==
  LET l == acc.l
      x == l.dlv[d]
  IN
  IF x.aborted /\ ~x.sending
  THEN [acc EXCEPT !.l.dlv[d].st = "freed", !.l.tpwork = ClearTpwork(@, d)]
  ELSE
  LET post   == ~x.sent /\ (x.done \/ x.bytes > 0) /\ acc.w > 0 /\ l.link_credit > 0
      frames == IF post THEN TransferFrames(x, d, acc.w) ELSE <<>>
      size   == Min({x.bytes, Len(frames)})
      all    == post /\ x.done /\ size = x.bytes
      n      == IF all THEN 1 ELSE 0
      y      == [x EXCEPT !.bytes = @ - size, !.sending = @ \/ post, !.sent = @ \/ all]
      settle == y.settled /\ y.sending /\ y.sent
  IN
  [l   |-> [l EXCEPT !.dlv[d] = IF settle THEN [y EXCEPT !.st = "freed"] ELSE y,
                     !.outgoing_bytes = @ - size,
                     !.delivery_count = @ + n, !.link_credit = @ - n,
                     !.queued = @ - n,
                     !.tpwork = IF settle \/ ~Buffered(y) THEN ClearTpwork(@, d)
                                ELSE @],
   w   |-> acc.w - Len(frames),
   out |-> acc.out \o frames]

\* pni_process of the sender, the session window being w: the work list, then
\* pni_process_flow_sender if the link is modified.  The list is gone through
\* twice; what the first time leaves on it is blocked by the credit or by the
\* window, and the second time changes nothing.
pni_process_sender(w) ==
  /\ s.modified \/ s.tpwork # <<>>
  /\ Len(toRcv) < MaxChannel
  /\ \E done \in {FoldLeft(TpworkSender, [l |-> s, w |-> w, out |-> <<>>], s.tpwork)} :
       LET l       == done.l
           tail    == UnsettledTail(l)
           drained == /\ l.modified /\ l.drain /\ l.drained # 0
                      /\ tail = 0 \/ ~Buffered(l.dlv[tail])
           m       == IF drained
                      THEN [l EXCEPT !.delivery_count = @ + l.link_credit,
                                     !.link_credit = 0, !.drained = 0]
                      ELSE l
       IN  /\ Len(toRcv) + Len(done.out) < MaxChannel
           /\ s' = [m EXCEPT !.modified = FALSE]
           /\ toRcv' = toRcv \o done.out
                            \o (IF drained THEN <<FlowFrame(m)>> ELSE <<>>)
  /\ UNCHANGED <<r, toSnd>>

\* Mutant of pn_do_flow_sender: deliveries in flight are not subtracted.
FlowIgnoresCount ==
  /\ toSnd # <<>> /\ MayUse
  /\ s' = [s EXCEPT !.link_credit = Head(toSnd).link_credit,
                    !.credit = @ + Head(toSnd).link_credit - s.link_credit,
                    !.drain = Head(toSnd).drain]
  /\ toSnd' = Tail(toSnd)
  /\ UNCHANGED <<r, toRcv>>

\* pn_do_flow on a sending link
pn_do_flow_sender ==
  LET f   == Head(toSnd)
      new == (f.delivery_count + f.link_credit - s.delivery_count) % U32
  IN
  /\ toSnd # <<>>
  /\ MayUse
  /\ s' = [s EXCEPT !.link_credit = new,
                    !.credit = @ + new - s.link_credit,
                    !.drain = f.drain]
  /\ toSnd' = Tail(toSnd)
  /\ UNCHANGED <<r, toRcv>>

-----------------------------------------------------------------------------
(* Transport of the receiver                                               *)

\* pni_process of the receiver: pni_process_flow_receiver looks at a modified
\* link, pni_process_tpwork_receiver at the work list, each posting a FLOW when
\* the session needs one.
pni_process_receiver(need) ==
  LET grant == r.modified /\ (r.drain \/ r.link_credit # r.credit - r.queued \/ need)
      l     == IF grant THEN [r EXCEPT !.link_credit = r.credit - r.queued] ELSE r
      free  == {d \in ToSet(r.tpwork) : r.dlv[d].settled}
  IN
  /\ r.modified \/ r.tpwork # <<>>
  /\ ~r.error /\ Len(toSnd) < MaxChannel
  /\ r' = [l EXCEPT !.modified = FALSE, !.tpwork = <<>>,
                    !.dlv = [d \in Ids |-> IF d \in free
                                           THEN [l.dlv[d] EXCEPT !.st = "freed"]
                                           ELSE l.dlv[d]]]
  /\ toSnd' = IF grant \/ (need /\ r.tpwork # <<>>) THEN Append(toSnd, FlowFrame(l))
              ELSE toSnd
  /\ UNCHANGED <<s, toRcv>>

\* A new delivery of pn_do_transfer
NewDelivery(l, d, f) ==
  [l EXCEPT !.dlv[d] = [NoRecv EXCEPT !.st = "live", !.src = f.id],
            !.current = IF @ = 0 THEN d ELSE @,
            !.delivery_count = @ + 1, !.link_credit = @ - 1, !.queued = @ + 1]

\* What is left of a delivery that the application has settled and the transport
\* has freed.
Discarded(l) ==
  l.more_pending /\ (UnsettledTail(l) = 0 \/ l.dlv[UnsettledTail(l)].done)

OverLimit(l, f) ==
  /\ max_buffered_delivery_bytes > 0
  /\ l.buffered_delivery_bytes + f.size > max_buffered_delivery_bytes

\* pn_do_transfer: a frame continues the delivery being assembled, or starts a
\* new one, or is discarded; over the limit the transport closes its input with
\* amqp:resource-limit-exceeded (pn_do_error) and processes nothing any more.
pn_do_transfer ==
  LET f    == Head(toRcv)
      drop == Discarded(r)
      d    == IF r.more_pending THEN UnsettledTail(r) ELSE Cardinality(Created(r)) + 1
      l    == IF r.more_pending THEN r ELSE NewDelivery(r, d, f)
  IN
  /\ toRcv # <<>> /\ f.type = "transfer" /\ ~r.error
  /\ r' = IF ~drop /\ OverLimit(l, f) THEN [l EXCEPT !.error = TRUE]
          ELSE LET m == [l EXCEPT !.more_pending = f.more /\ ~f.aborted,
                                  !.incoming_bytes = @ + f.size] IN
               IF drop THEN m
               ELSE [m EXCEPT !.buffered_delivery_bytes = @ + f.size,
                              !.dlv[d].bytes = @ + f.size,
                              !.dlv[d].got = @ + f.size,
                              !.dlv[d].done = ~f.more \/ f.aborted,
                              !.dlv[d].aborted = f.aborted]
  /\ toRcv' = Tail(toRcv)
  /\ UNCHANGED <<s, toSnd>>

\* Mutant of pn_do_flow_receiver: the credit the sender has used up is ignored.
FlowKeepsCredit ==
  /\ toRcv # <<>> /\ Head(toRcv).type = "flow" /\ ~r.error
  /\ toRcv' = Tail(toRcv)
  /\ UNCHANGED <<s, r, toSnd>>

\* pn_do_flow on a receiving link: the sender has used credit up by draining.
pn_do_flow_receiver ==
  LET f     == Head(toRcv)
      delta == (f.delivery_count - r.delivery_count) % U32
  IN
  /\ toRcv # <<>> /\ f.type = "flow" /\ ~r.error
  /\ r' = [r EXCEPT !.delivery_count = @ + delta, !.link_credit = @ - delta,
                    !.credit = @ - delta, !.drained = @ + delta]
  /\ toRcv' = Tail(toRcv)
  /\ UNCHANGED <<s, toSnd>>

-----------------------------------------------------------------------------
Windows == (IF WindowMayClose THEN 0 ELSE 1)..MaxWindow

Next ==
  \/ pn_delivery
  \/ pn_link_send
  \/ pn_link_advance_sender
  \/ pn_delivery_settle_sender
  \/ pn_delivery_abort
  \/ pn_link_drained_sender
  \/ pn_link_flow
  \/ pn_link_drain
  \/ pn_link_set_drain
  \/ pn_link_drained_receiver
  \/ pn_link_recv
  \/ pn_link_advance_receiver
  \/ pn_delivery_settle_receiver
  \/ \E w \in Windows : pni_process_sender(w)
  \/ pn_do_flow_sender
  \/ \E need \in BOOLEAN : pni_process_receiver(need)
  \/ pn_do_transfer
  \/ pn_do_flow_receiver

Spec == Init /\ [][Next]_vars

-----------------------------------------------------------------------------
\* Both transports keep being driven with an open window now and then, and the
\* sender's application finishes its delivery and answers a drain.
Fairness ==
  /\ WF_vars(\E w \in 1..MaxWindow : pni_process_sender(w))
  /\ WF_vars(\E need \in BOOLEAN : pni_process_receiver(need))
  /\ WF_vars(pn_do_flow_sender)
  /\ WF_vars(pn_do_transfer \/ pn_do_flow_receiver)
  /\ WF_vars(pn_link_drained_sender)
  /\ WF_vars(SendingPartial /\ pn_link_advance_sender)

FairSpec == Spec /\ Fairness

SumOver(D, f(_)) == FoldSet(LAMBDA d, n : f(d) + n, 0, D)

\* The two links and the frames in flight have their types; in particular the
\* unsigned counters of the links never go below zero.
TypeOK ==
  /\ s.queued \in Nat /\ s.drained \in Nat /\ s.outgoing_bytes \in Nat
  /\ s.link_credit \in 0..(U32 - 1) /\ s.delivery_count \in Nat
  /\ s.credit \in Int /\ s.current \in Live(s) \cup {0}
  /\ ToSet(s.tpwork) \subseteq Live(s)
  /\ r.queued \in Nat /\ r.drained \in Nat /\ r.credit \in Nat
  /\ r.link_credit \in Int /\ r.delivery_count \in Nat
  /\ r.incoming_bytes \in Nat /\ r.buffered_delivery_bytes \in Nat
  /\ r.current \in Live(r) \cup {0}
  /\ ToSet(r.tpwork) \subseteq Live(r)
  /\ \A i \in DOMAIN toRcv : toRcv[i].type \in {"transfer", "flow"}
  /\ \A i \in DOMAIN toSnd : toSnd[i].type = "flow"

\* The sender never believes in credit for a delivery the receiver has not
\* granted, however FLOWs, TRANSFERs and drains cross (pn_do_flow), and so the
\* receiver never gets a delivery without credit (pn_do_transfer).
CreditLimit ==
  /\ TypeOK
  /\ s.credit + s.drained = s.link_credit - s.queued
  /\ s.delivery_count + s.link_credit <= r.delivery_count + r.link_credit
  /\ r.link_credit >= 0

\* pn_link_queued counts exactly the deliveries the application has advanced
\* over and the transport has not finished sending (pni_advance_sender,
\* pni_process_tpwork_sender); on a receiver, those it has not advanced over
\* (pn_do_transfer, pni_advance_receiver).
QueuedCount ==
  /\ s.queued = Cardinality({d \in Live(s) :
       LET x == s.dlv[d] IN x.done /\ ~x.sent /\ (x.sending \/ ~x.aborted)})
  /\ r.queued = Cardinality({d \in Live(r) : r.current # 0 /\ d >= r.current})

\* The bytes a session and a transport count as buffered are the bytes in the
\* buffers of its deliveries (pn_session_incoming_bytes, buffered_delivery_bytes,
\* pn_session_outgoing_bytes), and what a transport holds for the application, in
\* all the deliveries together, never exceeds max_buffered_delivery_bytes
\* (pn_do_transfer, pn_link_recv, pni_advance_receiver).
BytesMatch ==
  /\ r.incoming_bytes = SumOver(Live(r), LAMBDA d : r.dlv[d].bytes)
  /\ r.buffered_delivery_bytes = r.incoming_bytes
  /\ s.outgoing_bytes = SumOver(Live(s), LAMBDA d : s.dlv[d].bytes)
  /\ max_buffered_delivery_bytes > 0 =>
       r.buffered_delivery_bytes <= max_buffered_delivery_bytes

\* A delivery that the receiver sees complete and not aborted has the payload
\* the sender gave it, whatever frames it took (pni_post_amqp_transfer_frame,
\* pn_do_transfer), and none that was sent is missing once nothing is in flight.
DeliveredIntact ==
  /\ \A e \in Created(r) : r.dlv[e].done /\ ~r.dlv[e].aborted =>
       r.dlv[e].got = s.dlv[r.dlv[e].src].total
  /\ toRcv = <<>> /\ ~r.error => \A d \in Ids : s.dlv[d].sent =>
       \E e \in Created(r) : r.dlv[e].src = d /\ r.dlv[e].done

\* With no FLOW on its way the two links agree on the last delivery that may be
\* sent; with nothing on its way to the receiver they agree on the deliveries
\* sent, the receiver counting one from its first frame on (pn_do_transfer) and
\* the sender from its last (pni_process_tpwork_sender).
Agreement ==
  /\ toSnd = <<>> => s.delivery_count + s.link_credit
                      = r.delivery_count + r.link_credit
  /\ toRcv = <<>> /\ ~r.error => s.delivery_count + (IF r.more_pending THEN 1 ELSE 0)
                      = r.delivery_count

\* A receiver that drains ends with no credit outstanding (pn_link_draining):
\* the sender uses it up or gives it back (pn_link_drained).
DrainCompletes ==
  (r.drain /\ r.credit > r.queued) ~> ~(r.drain /\ r.credit > r.queued) \/ r.error

=============================================================================

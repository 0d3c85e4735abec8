---------------------------- MODULE SessionFlow ----------------------------
(***************************************************************************)
(* Session flow control between two proton engines: the incoming window    *)
(* that the receiving engine grants in BEGIN and FLOW frames, and the      *)
(* remote incoming window that the sending engine keeps of it.             *)
(*                                                                         *)
(* Links are abstracted: a TRANSFER is its payload size, the application   *)
(* of the receiver consumes bytes (pn_link_recv, pn_link_advance) and now  *)
(* and then grants link credit, which makes the engine send a FLOW.        *)
(*                                                                         *)
(* The transfer counters are pn_sequence_t (uint32_t).  They are only used *)
(* in differences, so the model keeps the number of transfers ever sent    *)
(* and wraps the one difference the code stores, in pn_do_flow.            *)
(***************************************************************************)
EXTENDS Integers, Sequences

CONSTANTS
  MaxFrame,              \* transport->local_max_frame of the receiver, 0: unset
  Payloads,              \* payload sizes of a transfer frame
  Capacities,            \* arguments of pn_session_set_incoming_capacity
  Windows, Lwms,         \* arguments of pn_session_set_incoming_window_and_lwm
  MayShrink,             \* may the application lower the limit of an open session?
  MayRepeatEarlyFlow,    \* may it cause a second FLOW before the peer's BEGIN is in?
  AMQP_MAX_WINDOW_SIZE,  \* the window when session flow control is off
  U32,                   \* 2^32, the range of pn_sequence_t and pn_frame_count_t
  MaxTransfers,          \* bound: transfers sent in a behaviour
  MaxChannel             \* bound: frames in flight in one direction

ASSUME FrameAssumption ==
  /\ MaxFrame \in Nat
  /\ Payloads \subseteq Nat
  /\ MaxFrame > 0 => \A p \in Payloads : p <= MaxFrame
ASSUME LimitAssumption ==
  /\ U32 \in Nat \ {0}
  /\ AMQP_MAX_WINDOW_SIZE \in Nat \ {0}
  /\ AMQP_MAX_WINDOW_SIZE < U32
  /\ Capacities \subseteq Nat
  /\ Windows \subseteq 1..AMQP_MAX_WINDOW_SIZE
  /\ Lwms \subseteq Nat
ASSUME BoundAssumption ==
  /\ MayShrink \in BOOLEAN
  /\ MayRepeatEarlyFlow \in BOOLEAN
  /\ MaxTransfers \in Nat
  /\ MaxChannel \in Nat

VARIABLES
  \* the receiving engine
  bound,                    \* the connection has a transport
  ssn,                      \* "uninit", "active" (opened), "begun" (BEGIN sent)
  remote_begun,             \* the peer's BEGIN is in: remote_channel >= 0
  early_flow,               \* a link credit FLOW was asked for before that
  incoming_capacity, max_incoming_window, lwm_default, incoming_window_lwm,
  incoming_window, incoming_transfer_count, incoming_bytes,
  check_flow, need_flow,
  modified,                 \* what the next pni_process will look at
  error,                    \* condition the transport closed its input with
  \* the sending engine
  remote_active,            \* the receiver's BEGIN is in; its own is sent in reply
  has_credit,               \* a FLOW with link credit is in
  remote_incoming_window, outgoing_transfer_count,
  \* frames in flight: TRANSFERs, and the receiver's BEGIN and FLOWs
  toRcv, toSnd

setup   == <<bound, ssn, remote_begun, early_flow>>
config  == <<incoming_capacity, max_incoming_window, lwm_default,
             incoming_window_lwm>>
window  == <<incoming_window, incoming_transfer_count, incoming_bytes>>
flags   == <<check_flow, need_flow, modified>>
sndVars == <<remote_active, has_credit, remote_incoming_window,
             outgoing_transfer_count>>
vars    == <<setup, config, window, flags, error, sndVars, toRcv, toSnd>>

Init ==
  /\ bound = FALSE /\ ssn = "uninit"
  /\ remote_begun = FALSE /\ early_flow = FALSE
  /\ incoming_capacity = 0 /\ max_incoming_window = 0
  /\ lwm_default = TRUE /\ incoming_window_lwm = 1
  /\ incoming_window = 0 /\ incoming_transfer_count = 0 /\ incoming_bytes = 0
  /\ check_flow = FALSE /\ need_flow = FALSE
  /\ modified = {} /\ error = "none"
  /\ remote_active = FALSE /\ has_credit = FALSE
  /\ remote_incoming_window = 0 /\ outgoing_transfer_count = 0
  /\ toRcv = <<>> /\ toSnd = <<>>

-----------------------------------------------------------------------------
(* The configured limit                                                    *)

Disabled(cap, win) == MaxFrame = 0 \/ (cap = 0 /\ win = 0)

\* The bytes the configuration allows the session to buffer.
Limit(cap, win) == IF cap > 0 THEN cap ELSE win * MaxFrame

CapacityTooSmall(cap) == cap > 0 /\ cap < MaxFrame

\* Mutant of IncomingWindow: a partly filled frame is not counted as a frame.
IncomingWindowRoundsDown(cap, win, bytes) ==
  IF Disabled(cap, win) THEN AMQP_MAX_WINDOW_SIZE
  ELSE IF cap > 0
  THEN IF cap >= MaxFrame /\ cap > bytes THEN (cap - bytes) \div MaxFrame ELSE 0
  ELSE IF bytes \div MaxFrame >= win THEN 0 ELSE win - (bytes \div MaxFrame)

\* Mutant of IncomingWindow: a whole number of frames is rounded up too.
IncomingWindowCountsTwice(cap, win, bytes) ==
  IF Disabled(cap, win) THEN AMQP_MAX_WINDOW_SIZE
  ELSE IF cap > 0
  THEN IF cap >= MaxFrame /\ cap > bytes THEN (cap - bytes) \div MaxFrame ELSE 0
  ELSE LET nominal == IF bytes = 0 THEN 0 ELSE bytes \div MaxFrame + 1
       IN  IF nominal >= win THEN 0 ELSE win - nominal

\* pni_session_incoming_window.  The cast to pn_frame_count_t binds tighter
\* than the division.
IncomingWindow(cap, win, bytes) ==
  IF Disabled(cap, win) THEN AMQP_MAX_WINDOW_SIZE
  ELSE IF cap > 0
  THEN IF cap >= MaxFrame /\ cap > bytes
       THEN ((cap - bytes) % U32) \div MaxFrame
       ELSE 0
  ELSE LET nominal == (bytes + MaxFrame - 1) \div MaxFrame
       IN  IF nominal >= win THEN 0 ELSE win - nominal

\* pni_session_update_incoming_lwm: the low water mark it leaves.
UpdatedLwm(cap, win, lwm) ==
  IF cap > 0
  THEN IF ~bound THEN lwm
       ELSE IF MaxFrame = 0 \/ (cap \div MaxFrame) \div 2 = 0 THEN 1
       ELSE (cap \div MaxFrame) \div 2
  ELSE IF win > 0
  THEN IF bound /\ MaxFrame > 0 /\ lwm_default THEN (win + 1) \div 2 ELSE lwm
  ELSE 1

-----------------------------------------------------------------------------
(* Application of the receiver                                             *)

pn_connection_bind ==
  /\ ~bound
  /\ bound' = TRUE
  /\ UNCHANGED <<ssn, remote_begun, early_flow, config, window, flags, error,
                 sndVars, toRcv, toSnd>>

pn_session_open ==
  /\ ssn = "uninit"
  /\ ssn' = "active"
  /\ modified' = modified \cup {"session"}
  /\ UNCHANGED <<bound, remote_begun, early_flow, config, window, check_flow,
                 need_flow, error, sndVars, toRcv, toSnd>>

\* A FLOW is on its way to a peer whose BEGIN is not in yet; once it grants link
\* credit the peer may already be sending.
FlowAllowed == remote_begun \/ ~early_flow \/ MayRepeatEarlyFlow

\* A capacity that leaves the limit of a begun session where it is or raises it.
Widens(c) ==
  \/ Disabled(c, 0)
  \/ /\ ~Disabled(incoming_capacity, max_incoming_window)
     /\ c >= Limit(incoming_capacity, max_incoming_window)

pn_session_set_incoming_capacity(c) ==
  /\ FlowAllowed
  /\ MayShrink \/ ssn # "begun" \/ Widens(c)
  /\ incoming_capacity' = c
  /\ max_incoming_window' = 0
  /\ lwm_default' = TRUE
  /\ incoming_window_lwm' = UpdatedLwm(c, 0, 1)
  /\ check_flow' = (bound \/ check_flow)
  /\ need_flow' = (bound \/ need_flow)
  /\ modified' = IF bound THEN modified \cup {"session"} ELSE modified
  /\ UNCHANGED <<setup, window, error, sndVars, toRcv, toSnd>>

pn_session_set_incoming_window_and_lwm(w, l) ==
  /\ w > 0 /\ l <= w
  /\ ssn = "uninit"
  /\ incoming_capacity' = 0
  /\ max_incoming_window' = w
  /\ lwm_default' = (l = 0)
  /\ incoming_window_lwm' = l
  /\ UNCHANGED <<setup, window, flags, error, sndVars, toRcv, toSnd>>

\* Mutant of ConsumeBytes: the flow check is not put on the work list.
ConsumeBytesSilently(n) ==
  /\ n > 0 /\ n <= incoming_bytes
  /\ incoming_bytes' = incoming_bytes - n
  /\ check_flow' = (check_flow \/ incoming_window < incoming_window_lwm)
  /\ UNCHANGED <<setup, config, incoming_window, incoming_transfer_count,
                 need_flow, modified, error, sndVars, toRcv, toSnd>>

\* pn_link_recv of n bytes, or pn_link_advance over n unread bytes.
ConsumeBytes(n) ==
  /\ n > 0 /\ n <= incoming_bytes
  /\ incoming_bytes' = incoming_bytes - n
  /\ IF ~check_flow /\ incoming_window < incoming_window_lwm
     THEN check_flow' = TRUE /\ modified' = modified \cup {"tpwork"}
     ELSE UNCHANGED <<check_flow, modified>>
  /\ UNCHANGED <<setup, config, incoming_window, incoming_transfer_count,
                 need_flow, error, sndVars, toRcv, toSnd>>

\* pn_delivery_settle and pn_delivery_update put a delivery on the transport's
\* work list whatever the window is.
pn_delivery_settle ==
  /\ incoming_transfer_count > 0
  /\ modified' = modified \cup {"tpwork"}
  /\ UNCHANGED <<setup, config, window, check_flow, need_flow, error, sndVars,
                 toRcv, toSnd>>

\* pn_link_flow on a receiving link: its credit no longer agrees with the link
\* credit the peer knows of.
pn_link_flow ==
  /\ ssn # "uninit"
  /\ FlowAllowed
  /\ early_flow' = (early_flow \/ ~remote_begun)
  /\ modified' = modified \cup {"link", "credit"}
  /\ UNCHANGED <<bound, ssn, remote_begun, config, window, check_flow, need_flow,
                 error, sndVars, toRcv, toSnd>>

-----------------------------------------------------------------------------
(* Transport of the receiver                                               *)

\* pni_session_need_flow, for a window and low water mark as BEGIN left them.
NeedFlow(win, lwm) ==
  \/ need_flow
  \/ /\ check_flow
     /\ win < lwm
     /\ IncomingWindow(incoming_capacity, max_incoming_window, incoming_bytes) > win

\* What BEGIN or FLOW says of the session; next-incoming-id is left out until
\* the peer's BEGIN is in.
Frame(win, link) ==
  [known |-> remote_begun, inext |-> incoming_transfer_count, iwin |-> win,
   link |-> link]

\* pni_process: BEGIN if it is due (pni_process_ssn_setup), then at most one
\* FLOW, from pni_process_flow_receiver, pni_process_tpwork_receiver or
\* pni_process_flush_disp, each of which clears the flags it acted on.
pni_process ==
  LET begin    == ssn = "active"
      computed == IncomingWindow(incoming_capacity, max_incoming_window,
                                 incoming_bytes)
      win      == IF begin THEN computed ELSE incoming_window
      lwm      == IF begin THEN UpdatedLwm(incoming_capacity, max_incoming_window,
                                           incoming_window_lwm)
                           ELSE incoming_window_lwm
      credit   == "credit" \in modified
      looks    == modified \cap {"link", "tpwork"} # {}
      post     == \/ credit
                  \/ looks /\ NeedFlow(win, lwm)
                  \/ "session" \in modified /\ need_flow
  IN
  /\ bound /\ ssn # "uninit" /\ modified # {} /\ error = "none"
  /\ Len(toSnd) + 2 <= MaxChannel
  /\ ssn' = "begun"
  /\ incoming_window_lwm' = lwm
  /\ incoming_window' = IF post THEN computed ELSE win
  /\ toSnd' = toSnd \o (IF begin THEN <<Frame(computed, FALSE)>> ELSE <<>>)
                    \o (IF post THEN <<Frame(computed, credit)>> ELSE <<>>)
  /\ check_flow' = (check_flow /\ ~post /\ ~looks)
  /\ need_flow' = (need_flow /\ ~post)
  /\ modified' = {}
  /\ error' = IF CapacityTooSmall(incoming_capacity) /\ (begin \/ post)
              THEN "internal-error" ELSE "none"
  /\ UNCHANGED <<bound, remote_begun, early_flow, incoming_capacity,
                 max_incoming_window, lwm_default, incoming_transfer_count,
                 incoming_bytes, sndVars, toRcv>>

\* The peer's BEGIN; it precedes every TRANSFER, and may precede or follow ours.
pn_do_begin ==
  /\ bound /\ ~remote_begun /\ error = "none"
  /\ remote_begun' = TRUE
  /\ UNCHANGED <<bound, ssn, early_flow, config, window, flags, error, sndVars,
                 toRcv, toSnd>>

pn_do_transfer ==
  /\ toRcv # <<>> /\ remote_begun /\ error = "none"
  /\ toRcv' = Tail(toRcv)
  /\ IF incoming_window = 0
     THEN /\ error' = "window-violation"
          /\ UNCHANGED <<window, check_flow, modified>>
     ELSE /\ incoming_bytes' = incoming_bytes + Head(toRcv)
          /\ incoming_transfer_count' = incoming_transfer_count + 1
          /\ incoming_window' = incoming_window - 1
          /\ IF incoming_window' < incoming_window_lwm /\ ~check_flow
             THEN check_flow' = TRUE /\ modified' = modified \cup {"link"}
             ELSE UNCHANGED <<check_flow, modified>>
          /\ UNCHANGED error
  /\ UNCHANGED <<setup, config, need_flow, sndVars, toSnd>>

-----------------------------------------------------------------------------
(* Transport of the sender                                                 *)

\* Mutant of SendTransfers: one frame is counted, however many are sent.
SendTransfersCountsOne(ps) ==
  /\ has_credit
  /\ remote_incoming_window > 0 /\ Len(ps) <= remote_incoming_window
  /\ outgoing_transfer_count + Len(ps) <= MaxTransfers
  /\ Len(toRcv) + Len(ps) <= MaxChannel
  /\ outgoing_transfer_count' = outgoing_transfer_count + Len(ps)
  /\ remote_incoming_window' = remote_incoming_window - 1
  /\ toRcv' = toRcv \o ps
  /\ UNCHANGED <<setup, config, window, flags, error, remote_active, has_credit,
                 toSnd>>

\* pni_process_tpwork_sender: as many frames as the delivery needs, up to the
\* remote window; ps are their payloads.
SendTransfers(ps) ==
  /\ has_credit
  /\ remote_incoming_window > 0 /\ Len(ps) <= remote_incoming_window
  /\ outgoing_transfer_count + Len(ps) <= MaxTransfers
  /\ Len(toRcv) + Len(ps) <= MaxChannel
  /\ outgoing_transfer_count' = outgoing_transfer_count + Len(ps)
  /\ remote_incoming_window' = remote_incoming_window - Len(ps)
  /\ toRcv' = toRcv \o ps
  /\ UNCHANGED <<setup, config, window, flags, error, remote_active, has_credit,
                 toSnd>>

\* Mutant of pn_do_flow: the transfers in flight are not subtracted.
FlowIgnoresInFlight ==
  /\ toSnd # <<>>
  /\ remote_active' = TRUE
  /\ has_credit' = (has_credit \/ Head(toSnd).link)
  /\ remote_incoming_window' = Head(toSnd).iwin
  /\ toSnd' = Tail(toSnd)
  /\ UNCHANGED <<setup, config, window, flags, error, outgoing_transfer_count,
                 toRcv>>

\* The receiver's BEGIN (pn_do_begin) sets the remote window, a FLOW
\* (pn_do_flow) computes it, modulo 2^32.
pn_do_flow ==
  /\ toSnd # <<>>
  /\ LET f == Head(toSnd) IN
     /\ remote_active' = TRUE
     /\ has_credit' = (has_credit \/ f.link)
     /\ remote_incoming_window' =
          IF f.known /\ remote_active
          THEN (f.inext + f.iwin - outgoing_transfer_count) % U32
          ELSE f.iwin
  /\ toSnd' = Tail(toSnd)
  /\ UNCHANGED <<setup, config, window, flags, error, outgoing_transfer_count,
                 toRcv>>

-----------------------------------------------------------------------------
Next ==
  \/ pn_connection_bind
  \/ pn_session_open
  \/ \E c \in Capacities : pn_session_set_incoming_capacity(c)
  \/ \E w \in Windows, l \in Lwms : pn_session_set_incoming_window_and_lwm(w, l)
  \/ \E n \in 1..incoming_bytes : ConsumeBytes(n)
  \/ pn_delivery_settle
  \/ pn_link_flow
  \/ pni_process
  \/ pn_do_begin
  \/ pn_do_transfer
  \/ \E k \in 1..MaxChannel : \E ps \in [1..k -> Payloads] : SendTransfers(ps)
  \/ pn_do_flow

Spec == Init /\ [][Next]_vars

\* Both transports keep being driven and the application keeps reading.
Fairness ==
  /\ WF_vars(pni_process)
  /\ WF_vars(pn_do_begin)
  /\ WF_vars(pn_do_transfer)
  /\ WF_vars(pn_do_flow)
  /\ WF_vars(\E n \in 1..incoming_bytes : ConsumeBytes(n))

FairSpec == Spec /\ Fairness

-----------------------------------------------------------------------------
SndFrame == [known : BOOLEAN, inext : Nat, iwin : Nat, link : BOOLEAN]

\* Every variable of the session has its type.
TypeOK ==
  /\ bound \in BOOLEAN /\ ssn \in {"uninit", "active", "begun"}
  /\ remote_begun \in BOOLEAN /\ early_flow \in BOOLEAN
  /\ incoming_capacity \in Nat /\ max_incoming_window \in Nat
  /\ lwm_default \in BOOLEAN /\ incoming_window_lwm \in Nat
  /\ incoming_window \in Nat /\ incoming_transfer_count \in Nat
  /\ incoming_bytes \in Nat
  /\ check_flow \in BOOLEAN /\ need_flow \in BOOLEAN
  /\ modified \subseteq {"session", "link", "tpwork", "credit"}
  /\ error \in {"none", "window-violation", "internal-error"}
  /\ remote_active \in BOOLEAN /\ has_credit \in BOOLEAN
  /\ remote_incoming_window \in Nat /\ outgoing_transfer_count \in Nat
  /\ toRcv \in Seq(Nat) /\ toSnd \in Seq(SndFrame)

\* The bytes a session buffers stay within what was configured: the capacity,
\* or max_incoming_window * max_frame_size (pn_session_set_incoming_capacity,
\* pn_session_set_incoming_window_and_lwm).
BufferBound ==
  ~Disabled(incoming_capacity, max_incoming_window)
    => incoming_bytes <= Limit(incoming_capacity, max_incoming_window)

\* A proton sender never makes a proton receiver fail with
\* amqp:session:window-violation (pn_do_transfer), however FLOW and TRANSFER
\* frames cross.
NoWindowViolation == error # "window-violation"

\* The sender's view of the window never reaches beyond the last transfer the
\* receiver will accept, and the difference pn_do_flow computes never wraps.
RemoteViewSound ==
  outgoing_transfer_count + remote_incoming_window
    <= incoming_transfer_count + incoming_window

\* A transfer the receiver has once offered to accept is not taken back: the
\* last acceptable transfer never moves down (pni_post_flow).
WindowNeverRevoked ==
  [][ssn = "begun" => incoming_transfer_count' + incoming_window'
                        >= incoming_transfer_count + incoming_window]_vars

\* A closed remote window opens again: the FLOWs the low water mark calls for
\* are sent while the application reads (check_flow, pni_session_need_flow).
WindowReopens ==
  (remote_active /\ remote_incoming_window = 0 /\ error = "none")
    ~> (remote_incoming_window > 0 \/ error # "none")

=============================================================================

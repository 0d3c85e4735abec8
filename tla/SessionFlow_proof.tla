------------------------- MODULE SessionFlow_proof -------------------------
(***************************************************************************)
(* Proofs about SessionFlow, for every value of the constants: a session   *)
(* never buffers more than was configured, and a proton sender never runs  *)
(* a proton receiver into a window violation.                              *)
(***************************************************************************)
EXTENDS SessionFlow, SequenceTheorems, TLAPS

(* What the application has to respect: it does not lower the limit of an  *)
(* open session, does not make the engine send a second FLOW before the    *)
(* peer's BEGIN is in, and sets capacities that a frame count can express. *)
WellUsed ==
  /\ ~MayShrink
  /\ ~MayRepeatEarlyFlow
  /\ \A c \in Capacities :
       /\ c < U32
       /\ MaxFrame > 0 => c \div MaxFrame <= AMQP_MAX_WINDOW_SIZE

(* The first transfer a BEGIN or FLOW does not allow. *)
Edge(f) == (IF f.known THEN f.inext ELSE 0) + f.iwin

ConfigOK ==
  /\ incoming_capacity < U32
  /\ MaxFrame > 0 => incoming_capacity \div MaxFrame <= AMQP_MAX_WINDOW_SIZE
  /\ max_incoming_window <= AMQP_MAX_WINDOW_SIZE

Untouched ==
  /\ ssn # "begun" => /\ toSnd = <<>> /\ ~remote_active
                      /\ incoming_window = 0 /\ incoming_transfer_count = 0
                      /\ incoming_bytes = 0
  /\ ~remote_begun => incoming_transfer_count = 0 /\ incoming_bytes = 0
  /\ ~remote_active => ~has_credit /\ remote_incoming_window = 0
  /\ ~has_credit => outgoing_transfer_count = 0

(* The window granted fits into the part of the limit that is not in use. *)
WindowFits ==
  /\ incoming_window <= AMQP_MAX_WINDOW_SIZE
  /\ ~Disabled(incoming_capacity, max_incoming_window) =>
       incoming_bytes + MaxFrame * incoming_window
         <= Limit(incoming_capacity, max_incoming_window)

(* The transfers sent are those accepted and those in flight. *)
Counted ==
  /\ toRcv \in Seq(Payloads)
  /\ outgoing_transfer_count = incoming_transfer_count + Len(toRcv)

(* Sender, frames in flight and receiver agree on ever later edges. *)
Ordered ==
  /\ outgoing_transfer_count + remote_incoming_window
       <= incoming_transfer_count + incoming_window
  /\ \A i \in 1..Len(toSnd) :
       /\ outgoing_transfer_count + remote_incoming_window <= Edge(toSnd[i])
       /\ Edge(toSnd[i]) <= incoming_transfer_count + incoming_window
  /\ \A i, j \in 1..Len(toSnd) : i < j => Edge(toSnd[i]) <= Edge(toSnd[j])

LinkFlowSent == has_credit \/ \E i \in 1..Len(toSnd) : toSnd[i].link

(* A frame without next-incoming-id is only in flight to a sender that has *)
(* sent nothing.                                                           *)
Early ==
  /\ \A i \in 1..Len(toSnd) : ~toSnd[i].known => ~has_credit
  /\ \A i, j \in 1..Len(toSnd) :
       i < j /\ toSnd[i].link => toSnd[j].known
  /\ ~remote_begun /\ ~early_flow => ~LinkFlowSent /\ "credit" \notin modified
  /\ ~remote_begun /\ LinkFlowSent =>
       ssn = "begun" /\ ~need_flow /\ ~check_flow /\ "credit" \notin modified

IInv ==
  /\ TypeOK
  /\ ConfigOK
  /\ Untouched
  /\ WindowFits
  /\ Counted
  /\ Ordered
  /\ Early
  /\ NoWindowViolation

-----------------------------------------------------------------------------
(* The arithmetic of pni_session_incoming_window.                          *)

(* Dividing rounds down: a frame count times the frame size never exceeds  *)
(* the bytes it was computed from, and one frame more does.                *)
LEMMA DivLemma ==
  ASSUME NEW a \in Nat, NEW s \in Nat \ {0}
  PROVE  /\ a \div s \in Nat
         /\ s * (a \div s) <= a
         /\ a < s * (a \div s) + s
  OBVIOUS

(* Raising a window raises the edge it gives. *)
LEMMA SumMonotone ==
  ASSUME NEW a \in Nat, NEW b \in Nat, NEW c \in Nat, NEW d \in Nat,
         NEW e \in Nat, a + b <= c + d, d <= e
  PROVE  a + b <= c + e
  OBVIOUS

(* A sum of counters below the edge of a frame that is below another sum. *)
LEMMA SumTransitive ==
  ASSUME NEW a \in Nat, NEW b \in Nat, NEW c \in Nat, NEW d \in Nat,
         NEW e \in Nat, a + b <= e, e <= c + d
  PROVE  a + b <= c + d
  OBVIOUS

(* An edge is a number of transfers, comparable with itself. *)
LEMMA SumReflexive ==
  ASSUME NEW a \in Nat, NEW b \in Nat
  PROVE  a + b \in Nat /\ a + b <= a + b
  OBVIOUS

(* A number of frames that fits is at most the quotient. *)
LEMMA QuotientIsLargest ==
  ASSUME NEW a \in Nat, NEW s \in Nat \ {0}, NEW w \in Nat, s * w <= a
  PROVE  w <= a \div s
<1>1. CASE w >= (a \div s) + 1
  <2>1. s * w >= s * ((a \div s) + 1)
    BY <1>1, DivLemma
  <2> QED
    BY <2>1, DivLemma
<1> QED
  BY <1>1, DivLemma

(* The window computed is a frame count that the sequence space can hold   *)
(* (pni_session_incoming_window).                                          *)
LEMMA IncomingWindowType ==
  ASSUME NEW cap \in Nat, NEW win \in Nat, NEW bytes \in Nat,
         cap < U32, win <= AMQP_MAX_WINDOW_SIZE,
         MaxFrame > 0 => cap \div MaxFrame <= AMQP_MAX_WINDOW_SIZE
  PROVE  /\ IncomingWindow(cap, win, bytes) \in Nat
         /\ IncomingWindow(cap, win, bytes) <= AMQP_MAX_WINDOW_SIZE
<1>1. CASE Disabled(cap, win)
  BY <1>1, LimitAssumption DEF IncomingWindow
<1>2. CASE ~Disabled(cap, win) /\ cap > 0 /\ cap >= MaxFrame /\ cap > bytes
  <2>1. MaxFrame \in Nat \ {0} /\ cap - bytes \in Nat /\ cap - bytes < U32
    BY <1>2, FrameAssumption, LimitAssumption DEF Disabled
  <2>2. (cap - bytes) % U32 = cap - bytes
    BY <2>1, LimitAssumption
  <2>3. (cap - bytes) \div MaxFrame <= cap \div MaxFrame
    <3>1. MaxFrame * ((cap - bytes) \div MaxFrame) <= cap
      BY <2>1, DivLemma
    <3> QED
      BY <2>1, <3>1, DivLemma, QuotientIsLargest
  <2>4. IncomingWindow(cap, win, bytes) = (cap - bytes) \div MaxFrame
    BY <1>2, <2>2 DEF IncomingWindow
  <2>5. cap \div MaxFrame <= AMQP_MAX_WINDOW_SIZE /\ cap \div MaxFrame \in Nat
    BY <2>1, DivLemma
  <2>6. (cap - bytes) \div MaxFrame \in Nat
    BY <2>1, DivLemma
  <2> QED
    BY <2>3, <2>4, <2>5, <2>6, LimitAssumption
<1>3. CASE ~Disabled(cap, win) /\ cap > 0 /\ ~(cap >= MaxFrame /\ cap > bytes)
  BY <1>3, LimitAssumption DEF IncomingWindow
<1>4. CASE ~Disabled(cap, win) /\ ~(cap > 0)
  <2>1. MaxFrame \in Nat \ {0}
    BY <1>4, FrameAssumption DEF Disabled
  <2>2. (bytes + MaxFrame - 1) \div MaxFrame \in Nat
    BY <2>1, DivLemma
  <2> QED
    BY <1>4, <2>2, LimitAssumption DEF IncomingWindow
<1> QED
  BY <1>1, <1>2, <1>3, <1>4

(* The window computed fits beside the bytes already buffered. *)
LEMMA IncomingWindowFits ==
  ASSUME NEW cap \in Nat, NEW win \in Nat, NEW bytes \in Nat,
         cap < U32, ~Disabled(cap, win), bytes <= Limit(cap, win)
  PROVE  bytes + MaxFrame * IncomingWindow(cap, win, bytes) <= Limit(cap, win)
<1>0. MaxFrame \in Nat \ {0}
  BY FrameAssumption DEF Disabled
<1>1. CASE cap > 0 /\ cap >= MaxFrame /\ cap > bytes
  <2>1. (cap - bytes) % U32 = cap - bytes /\ cap - bytes \in Nat
    BY <1>1, LimitAssumption
  <2>2. IncomingWindow(cap, win, bytes) = (cap - bytes) \div MaxFrame
    BY <1>1, <2>1 DEF IncomingWindow
  <2>3. /\ (cap - bytes) \div MaxFrame \in Nat
        /\ MaxFrame * ((cap - bytes) \div MaxFrame) <= cap - bytes
    BY <1>0, <2>1, DivLemma
  <2> QED
    BY <1>0, <1>1, <2>2, <2>3 DEF Limit
<1>2. CASE cap > 0 /\ ~(cap >= MaxFrame /\ cap > bytes)
  BY <1>0, <1>2 DEF IncomingWindow, Limit
<1>3. CASE ~(cap > 0)
  <2> DEFINE nominal == (bytes + MaxFrame - 1) \div MaxFrame
  <2>1. nominal \in Nat /\ bytes + MaxFrame - 1 < MaxFrame * nominal + MaxFrame
    BY <1>0, DivLemma
  <2>2. bytes <= MaxFrame * nominal
    BY <1>0, <2>1
  <2>3. CASE nominal >= win
    BY <1>0, <1>3, <2>1, <2>3 DEF IncomingWindow, Limit
  <2>4. CASE nominal < win
    <3>1. IncomingWindow(cap, win, bytes) = win - nominal
      BY <1>3, <2>1, <2>4 DEF IncomingWindow
    <3>2. MaxFrame * (win - nominal) = win * MaxFrame - MaxFrame * nominal
      BY <1>0, <2>1
    <3> QED
      BY <1>0, <1>3, <2>1, <2>2, <3>1, <3>2 DEF Limit
  <2> QED
    BY <2>1, <2>3, <2>4
<1> QED
  BY <1>1, <1>2, <1>3

(* A window that fits is at most the window computed: a new FLOW never     *)
(* takes back what an earlier one granted.                                 *)
LEMMA IncomingWindowIsLargest ==
  ASSUME NEW cap \in Nat, NEW win \in Nat, NEW bytes \in Nat, NEW w \in Nat,
         cap < U32, ~Disabled(cap, win),
         bytes + MaxFrame * w <= Limit(cap, win)
  PROVE  w <= IncomingWindow(cap, win, bytes)
<1>0. MaxFrame \in Nat \ {0} /\ MaxFrame * w \in Nat
  BY FrameAssumption DEF Disabled
<1>1. CASE cap > 0 /\ cap >= MaxFrame /\ cap > bytes
  <2>1. (cap - bytes) % U32 = cap - bytes /\ cap - bytes \in Nat
    BY <1>1, LimitAssumption
  <2>2. MaxFrame * w <= cap - bytes
    BY <1>0, <1>1 DEF Limit
  <2>3. w <= (cap - bytes) \div MaxFrame
    BY <1>0, <2>1, <2>2, QuotientIsLargest
  <2> QED
    BY <1>1, <2>1, <2>3 DEF IncomingWindow
<1>2. CASE cap > 0 /\ ~(cap >= MaxFrame /\ cap > bytes)
  <2>1. MaxFrame * w <= cap - bytes
    BY <1>0, <1>2 DEF Limit
  <2>2. MaxFrame * w < MaxFrame
    BY <1>0, <1>2, <2>1
  <2>3. w = 0
    BY <1>0, <2>2
  <2> QED
    BY <1>2, <2>3 DEF IncomingWindow
<1>3. CASE ~(cap > 0)
  <2> DEFINE nominal == (bytes + MaxFrame - 1) \div MaxFrame
  <2>1. nominal \in Nat /\ MaxFrame * nominal <= bytes + MaxFrame - 1
    BY <1>0, DivLemma
  <2>2. bytes + MaxFrame * w <= win * MaxFrame
    BY <1>3 DEF Limit
  <2>3. MaxFrame * (nominal + w) < MaxFrame * (win + 1)
    BY <1>0, <2>1, <2>2
  <2>4. nominal + w < win + 1
    BY <1>0, <2>1, <2>3
  <2> QED
    BY <1>3, <2>1, <2>4 DEF IncomingWindow
<1> QED
  BY <1>1, <1>2, <1>3

(* Payload sizes in flight are numbers. *)
LEMMA SeqOfSubset ==
  ASSUME NEW S, NEW T, S \subseteq T, NEW s \in Seq(S)
  PROVE  s \in Seq(T)
<1>1. PICK n \in Nat : s \in [1..n -> S]
  BY SeqDef
<1>2. s \in [1..n -> T]
  BY <1>1
<1> QED
  BY <1>2, SeqDef

-----------------------------------------------------------------------------
(* IInv is inductive.                                                      *)

(* The invariant holds when the session is created (pn_session). *)
LEMMA InitIInv == Init => IInv
<1> SUFFICES ASSUME Init PROVE IInv
  OBVIOUS
<1>1. TypeOK
  <2>1. toRcv \in Seq(Nat) /\ toSnd \in Seq(SndFrame) /\ modified = {}
    BY DEF Init
  <2> QED
    BY <2>1, Zenon DEF Init, TypeOK
<1>4. Untouched /\ Counted /\ NoWindowViolation
  BY DEF Init, Untouched, Counted, NoWindowViolation
<1>5. Ordered /\ Early
  BY DEF Init, Ordered, Early, LinkFlowSent
<1>2. ConfigOK
  <2>1. MaxFrame > 0 => 0 \div MaxFrame = 0
    BY FrameAssumption
  <2> QED
    BY <2>1, LimitAssumption DEF Init, ConfigOK
<1>3. WindowFits
  BY LimitAssumption, FrameAssumption DEF Init, WindowFits, Limit, Disabled
<1> QED
  BY <1>1, <1>2, <1>3, <1>4, <1>5 DEF IInv

(* The edge of a frame is a number of transfers. *)
LEMMA EdgeType ==
  ASSUME TypeOK, NEW i \in 1..Len(toSnd)
  PROVE  toSnd[i] \in SndFrame /\ Edge(toSnd[i]) \in Nat
<1>1. toSnd[i] \in SndFrame
  BY DEF TypeOK
<1> QED
  BY <1>1 DEF SndFrame, Edge

(* Frames appended by pni_process: all of them state the window the        *)
(* receiver is left with, and only the last one grants link credit.        *)
LEMMA ProcessFrames ==
  ASSUME IInv, pni_process
  PROVE  /\ toSnd' \in Seq(SndFrame)
         /\ Len(toSnd') >= Len(toSnd)
         /\ \A i \in 1..Len(toSnd) : toSnd'[i] = toSnd[i]
         /\ \A i \in 1..Len(toSnd') : i > Len(toSnd) =>
              /\ toSnd'[i].known = remote_begun
              /\ toSnd'[i].inext = incoming_transfer_count
              /\ toSnd'[i].iwin = incoming_window'
              /\ toSnd'[i].link => i = Len(toSnd') /\ "credit" \in modified
<1> DEFINE begin == ssn = "active"
           computed == IncomingWindow(incoming_capacity, max_incoming_window,
                                      incoming_bytes)
           credit == "credit" \in modified
           F == Frame(computed, FALSE)
           G == Frame(computed, credit)
<1>1. computed \in Nat
  BY IncomingWindowType, Zenon DEF IInv, TypeOK, ConfigOK
<1>2. F \in SndFrame /\ G \in SndFrame
  BY <1>1 DEF Frame, SndFrame, IInv, TypeOK
<1>3. /\ F.known = remote_begun /\ G.known = remote_begun
      /\ F.inext = incoming_transfer_count /\ G.inext = incoming_transfer_count
      /\ F.iwin = computed /\ G.iwin = computed
      /\ ~F.link /\ (G.link => "credit" \in modified)
  BY Zenon DEF Frame
<1>4. toSnd \in Seq(SndFrame)
  BY DEF IInv, TypeOK
<1>5. \/ toSnd' = toSnd \o <<>> \o <<>> /\ ~begin
      \/ toSnd' = toSnd \o <<F>> \o <<>> /\ incoming_window' = computed
      \/ toSnd' = toSnd \o <<>> \o <<G>> /\ incoming_window' = computed
      \/ toSnd' = toSnd \o <<F>> \o <<G>> /\ incoming_window' = computed
  BY Zenon DEF pni_process
<1> HIDE DEF F, G, computed, credit, begin
<1>6. CASE toSnd' = toSnd \o <<>> \o <<>> /\ ~begin
  BY <1>4, <1>6
<1>7. CASE toSnd' = toSnd \o <<F>> \o <<>> /\ incoming_window' = computed
  BY <1>2, <1>3, <1>4, <1>7
<1>8. CASE toSnd' = toSnd \o <<>> \o <<G>> /\ incoming_window' = computed
  BY <1>2, <1>3, <1>4, <1>8
<1>9. CASE toSnd' = toSnd \o <<F>> \o <<G>> /\ incoming_window' = computed
  <2>1. /\ toSnd' \in Seq(SndFrame) /\ Len(toSnd') = Len(toSnd) + 2
        /\ \A i \in 1..Len(toSnd) : toSnd'[i] = toSnd[i]
    BY <1>2, <1>4, <1>9
  <2>2. toSnd'[Len(toSnd) + 1] = F /\ toSnd'[Len(toSnd) + 2] = G
    BY <1>2, <1>4, <1>9
  <2>3. \A i \in 1..Len(toSnd') : i > Len(toSnd) =>
           i = Len(toSnd) + 1 \/ i = Len(toSnd) + 2
    BY <1>4, <2>1
  <2> SUFFICES ASSUME NEW i \in 1..Len(toSnd'), i > Len(toSnd)
               PROVE  /\ toSnd'[i].known = remote_begun
                      /\ toSnd'[i].inext = incoming_transfer_count
                      /\ toSnd'[i].iwin = incoming_window'
                      /\ toSnd'[i].link => i = Len(toSnd') /\ "credit" \in modified
    BY <1>4, <2>1
  <2>4. CASE toSnd'[i] = F
    BY <1>3, <1>9, <2>4, Zenon
  <2>5. CASE toSnd'[i] = G /\ i = Len(toSnd')
    BY <1>3, <1>9, <2>5
  <2> QED
    BY <2>1, <2>2, <2>3, <2>4, <2>5
<1> QED
  BY <1>5, <1>6, <1>7, <1>8, <1>9

(* Steps of the application of the receiver keep the invariant. *)
LEMMA AppKeepsIInv ==
  ASSUME WellUsed, IInv,
         \/ pn_connection_bind
         \/ pn_session_open
         \/ \E c \in Capacities : pn_session_set_incoming_capacity(c)
         \/ \E w \in Windows, l \in Lwms : pn_session_set_incoming_window_and_lwm(w, l)
         \/ \E n \in 1..incoming_bytes : ConsumeBytes(n)
         \/ pn_delivery_settle
         \/ pn_link_flow
  PROVE  IInv'
<1> USE DEF IInv
<1>1. CASE pn_connection_bind
  BY <1>1 DEF pn_connection_bind, config, window, flags, sndVars, TypeOK, ConfigOK,
              Untouched, WindowFits, Counted, Ordered, Early, LinkFlowSent,
              NoWindowViolation
<1>2. CASE pn_session_open
  BY <1>2 DEF pn_session_open, config, window, sndVars, TypeOK, ConfigOK,
              Untouched, WindowFits, Counted, Ordered, Early, LinkFlowSent,
              NoWindowViolation
<1>3. ASSUME NEW c \in Capacities, pn_session_set_incoming_capacity(c)
      PROVE  IInv'
  <2> USE <1>3 DEF pn_session_set_incoming_capacity, setup, window, sndVars
  <2>1. UpdatedLwm(c, 0, 1) \in Nat
    BY FrameAssumption, LimitAssumption DEF UpdatedLwm
  <2>2. TypeOK'
    BY <2>1, LimitAssumption DEF TypeOK
  <2>3. ConfigOK'
    BY LimitAssumption DEF ConfigOK, WellUsed
  <2>4. WindowFits'
    BY LimitAssumption, FrameAssumption
    DEF WindowFits, Untouched, TypeOK, WellUsed, Widens, Disabled, Limit
  <2>5. Untouched' /\ Counted' /\ Ordered' /\ NoWindowViolation'
    BY DEF Untouched, Counted, Ordered, NoWindowViolation
  <2>6. Early'
    BY DEF Early, LinkFlowSent, FlowAllowed, WellUsed
  <2> QED
    BY <2>2, <2>3, <2>4, <2>5, <2>6
<1>4. ASSUME NEW w \in Windows, NEW l \in Lwms,
             pn_session_set_incoming_window_and_lwm(w, l)
      PROVE  IInv'
  <2> USE <1>4 DEF pn_session_set_incoming_window_and_lwm, setup, window, flags,
                   sndVars
  <2>1. TypeOK'
    BY LimitAssumption DEF TypeOK
  <2>2. ConfigOK'
    <3>1. MaxFrame > 0 => 0 \div MaxFrame = 0
      BY FrameAssumption
    <3> QED
      BY <3>1, LimitAssumption DEF ConfigOK
  <2>3. WindowFits'
    BY LimitAssumption, FrameAssumption
    DEF WindowFits, Untouched, TypeOK, Disabled, Limit
  <2>4. Untouched' /\ Counted' /\ Ordered' /\ NoWindowViolation' /\ Early'
    BY DEF Untouched, Counted, Ordered, NoWindowViolation, Early, LinkFlowSent
  <2> QED
    BY <2>1, <2>2, <2>3, <2>4
<1>5. ASSUME NEW n \in 1..incoming_bytes, ConsumeBytes(n)
      PROVE  IInv'
  <2> USE <1>5 DEF ConsumeBytes, setup, config, sndVars
  <2>1. TypeOK'
    <3>1. incoming_bytes' \in Nat
      BY DEF TypeOK
    <3>2. CASE ~check_flow /\ incoming_window < incoming_window_lwm
      BY <3>1, <3>2, ZenonT(40) DEF TypeOK
    <3>3. CASE ~(~check_flow /\ incoming_window < incoming_window_lwm)
      <4>1. check_flow' = check_flow /\ modified' = modified
        BY <3>3
      <4> QED
        BY <3>1, <4>1 DEF TypeOK
    <3> QED
      BY <3>2, <3>3
  <2>2. WindowFits'
    <3>1. MaxFrame * incoming_window \in Nat /\ incoming_bytes' <= incoming_bytes
      BY FrameAssumption DEF TypeOK
    <3>2. Limit(incoming_capacity, max_incoming_window) \in Nat
      BY FrameAssumption DEF TypeOK, Limit
    <3> QED
      BY <3>1, <3>2, FrameAssumption DEF WindowFits, TypeOK, Limit, Disabled
  <2>3. Early'
    BY DEF Early, LinkFlowSent, Untouched, TypeOK
  <2>4. ConfigOK' /\ Untouched' /\ Counted' /\ Ordered' /\ NoWindowViolation'
    BY DEF ConfigOK, Untouched, Counted, Ordered, NoWindowViolation, TypeOK
  <2> QED
    BY <2>1, <2>2, <2>3, <2>4
<1>6. CASE pn_delivery_settle
  BY <1>6 DEF pn_delivery_settle, setup, config, window, sndVars, TypeOK, ConfigOK,
              Untouched, WindowFits, Counted, Ordered, Early, LinkFlowSent,
              NoWindowViolation
<1>7. CASE pn_link_flow
  <2> USE <1>7 DEF pn_link_flow, config, window, sndVars
  <2>1. TypeOK'
    BY DEF TypeOK
  <2>2. Early'
    BY Zenon DEF Early, LinkFlowSent, FlowAllowed, WellUsed
  <2>3. ConfigOK' /\ Untouched' /\ WindowFits' /\ Counted' /\ Ordered'
        /\ NoWindowViolation'
    BY DEF ConfigOK, Untouched, WindowFits, Counted, Ordered, NoWindowViolation
  <2> QED
    BY <2>1, <2>2, <2>3
<1> QED
  BY <1>1, <1>2, <1>3, <1>4, <1>5, <1>6, <1>7

(* The window a pass of the transport announces fits, and is never smaller *)
(* than the one it replaces.                                               *)
LEMMA ProcessWidens ==
  ASSUME IInv, pni_process
  PROVE  /\ incoming_window' \in Nat /\ incoming_window <= incoming_window'
         /\ incoming_window' <= AMQP_MAX_WINDOW_SIZE
         /\ ~Disabled(incoming_capacity, max_incoming_window) =>
              incoming_bytes + MaxFrame * incoming_window'
                <= Limit(incoming_capacity, max_incoming_window)
<1> USE DEF IInv
<1> DEFINE computed == IncomingWindow(incoming_capacity, max_incoming_window,
                                      incoming_bytes)
<1>1. computed \in Nat /\ computed <= AMQP_MAX_WINDOW_SIZE
  BY IncomingWindowType, Zenon DEF TypeOK, ConfigOK
<1>2. ~Disabled(incoming_capacity, max_incoming_window) =>
        /\ incoming_bytes + MaxFrame * computed
             <= Limit(incoming_capacity, max_incoming_window)
        /\ incoming_window <= computed
  <2> SUFFICES ASSUME ~Disabled(incoming_capacity, max_incoming_window)
               PROVE  /\ incoming_bytes + MaxFrame * computed
                           <= Limit(incoming_capacity, max_incoming_window)
                      /\ incoming_window <= computed
    OBVIOUS
  <2>1. /\ incoming_bytes + MaxFrame * incoming_window
             <= Limit(incoming_capacity, max_incoming_window)
        /\ MaxFrame * incoming_window \in Nat
        /\ Limit(incoming_capacity, max_incoming_window) \in Nat
    BY FrameAssumption DEF WindowFits, TypeOK, Limit
  <2>2. incoming_bytes <= Limit(incoming_capacity, max_incoming_window)
    BY <2>1 DEF TypeOK
  <2> QED
    BY <2>1, <2>2, IncomingWindowFits, IncomingWindowIsLargest DEF TypeOK, ConfigOK
<1>3. incoming_window <= computed
  <2>1. CASE Disabled(incoming_capacity, max_incoming_window)
    BY <2>1 DEF IncomingWindow, WindowFits
  <2> QED
    BY <2>1, <1>2
<1>4. incoming_window' = incoming_window \/ incoming_window' = computed
  BY DEF pni_process
<1>5. incoming_window' \in Nat /\ incoming_window <= incoming_window'
  BY <1>1, <1>3, <1>4 DEF TypeOK
<1> QED
  BY <1>1, <1>2, <1>4, <1>5 DEF WindowFits

(* A pass of the receiver's transport keeps the invariant. *)
LEMMA ProcessKeepsIInv ==
  ASSUME WellUsed, IInv, pni_process
  PROVE  IInv'
<1> USE DEF IInv
<1>5. incoming_window' \in Nat /\ incoming_window <= incoming_window'
  BY ProcessWidens
<1>6. TypeOK'
  <2>1. UpdatedLwm(incoming_capacity, max_incoming_window, incoming_window_lwm)
          \in Nat
    BY FrameAssumption, SMTT(40) DEF UpdatedLwm, TypeOK
  <2>2. incoming_window_lwm' \in Nat
    BY <2>1 DEF pni_process, TypeOK
  <2> QED
    BY <1>5, <2>2, ProcessFrames, ZenonT(40) DEF pni_process, TypeOK, sndVars
<1>7. ConfigOK' /\ Counted' /\ NoWindowViolation'
  <2>1. ConfigOK'
    BY DEF pni_process, ConfigOK
  <2>2. Counted'
    <3>1. UNCHANGED <<incoming_transfer_count, sndVars, toRcv>>
      BY DEF pni_process
    <3> QED
      BY <3>1 DEF Counted, sndVars
  <2>3. NoWindowViolation'
    BY DEF pni_process, NoWindowViolation
  <2> QED
    BY <2>1, <2>2, <2>3
<1>8. Untouched'
  BY DEF pni_process, Untouched, sndVars
<1>9. WindowFits'
  BY ProcessWidens DEF WindowFits, pni_process, Disabled, Limit
<1>10. \A i \in 1..Len(toSnd') : i > Len(toSnd) =>
         Edge(toSnd'[i]) = incoming_transfer_count + incoming_window'
  BY ProcessFrames, <1>5, SMTT(40) DEF Edge, Untouched, TypeOK
<1>11. Ordered'
  <2>1. outgoing_transfer_count' = outgoing_transfer_count
        /\ remote_incoming_window' = remote_incoming_window
        /\ incoming_transfer_count' = incoming_transfer_count
    BY DEF pni_process, sndVars
  <2>2. outgoing_transfer_count + remote_incoming_window
          <= incoming_transfer_count + incoming_window'
    <3>1. outgoing_transfer_count + remote_incoming_window
            <= incoming_transfer_count + incoming_window
      BY DEF Ordered
    <3>2. /\ outgoing_transfer_count \in Nat /\ remote_incoming_window \in Nat
          /\ incoming_transfer_count \in Nat /\ incoming_window \in Nat
      BY DEF TypeOK
    <3> QED
      BY <1>5, <3>1, <3>2, SumMonotone, Zenon
  <2>3. ASSUME NEW i \in 1..Len(toSnd')
        PROVE  /\ outgoing_transfer_count + remote_incoming_window
                    <= Edge(toSnd'[i])
               /\ Edge(toSnd'[i]) <= incoming_transfer_count + incoming_window'
    <3>1. CASE i > Len(toSnd)
      <4>1. Edge(toSnd'[i]) = incoming_transfer_count + incoming_window'
        BY <1>10, <3>1
      <4>2. incoming_transfer_count \in Nat /\ incoming_window' \in Nat
        BY <1>5 DEF TypeOK
      <4>3. incoming_transfer_count + incoming_window'
              <= incoming_transfer_count + incoming_window'
        BY <4>2, SumReflexive, Zenon
      <4> QED
        BY <2>2, <4>1, <4>3, Zenon
    <3>2. CASE i \in 1..Len(toSnd)
      <4>1. /\ toSnd'[i] = toSnd[i]
            /\ toSnd[i] \in SndFrame
        BY <3>2, ProcessFrames DEF TypeOK
      <4>2. /\ outgoing_transfer_count + remote_incoming_window <= Edge(toSnd[i])
            /\ Edge(toSnd[i]) <= incoming_transfer_count + incoming_window
        BY <3>2 DEF Ordered
      <4>3. /\ incoming_transfer_count \in Nat /\ incoming_window \in Nat
        BY DEF TypeOK
      <4>4. Edge(toSnd[i]) \in Nat
        BY <3>2, EdgeType
      <4> HIDE DEF IInv
      <4> QED
        BY <1>5, <4>1, <4>2, <4>3, <4>4
    <3> QED
      BY <3>1, <3>2 DEF TypeOK
  <2>4. ASSUME NEW i \in 1..Len(toSnd'), NEW j \in 1..Len(toSnd'), i < j
        PROVE  Edge(toSnd'[i]) <= Edge(toSnd'[j])
    <3>1. CASE j > Len(toSnd)
      BY <1>10, <2>3, <3>1
    <3>2. CASE i \in 1..Len(toSnd) /\ j \in 1..Len(toSnd)
      BY <2>4, <3>2, ProcessFrames DEF Ordered
    <3> QED
      BY <2>4, <3>1, <3>2 DEF TypeOK
  <2> QED
    BY <2>1, <2>2, <2>3, <2>4, Zenon DEF Ordered
<1>12. Early'
  <2>1. has_credit' = has_credit /\ remote_begun' = remote_begun
        /\ early_flow' = early_flow /\ modified' = {} /\ ssn' = "begun"
    BY DEF pni_process, sndVars
  <2>2. ~remote_begun /\ LinkFlowSent => toSnd' = toSnd
    <3>1. toSnd \o <<>> \o <<>> = toSnd
      BY DEF TypeOK
    <3> QED
      BY <3>1, Zenon DEF Early, pni_process, NeedFlow
  <2>3. ASSUME NEW i \in 1..Len(toSnd'), ~toSnd'[i].known
        PROVE  ~has_credit
    <3>1. CASE i \in 1..Len(toSnd)
      BY <2>3, <3>1, ProcessFrames DEF Early
    <3>2. CASE i > Len(toSnd)
      <4>1. ~remote_begun
        BY <2>3, <3>2, ProcessFrames
      <4> QED
        BY <2>2, <3>2, <4>1 DEF LinkFlowSent
    <3> QED
      BY <3>1, <3>2 DEF TypeOK
  <2>4. ASSUME NEW i \in 1..Len(toSnd'), NEW j \in 1..Len(toSnd'), i < j,
               toSnd'[i].link
        PROVE  toSnd'[j].known
    <3>1. CASE i \in 1..Len(toSnd) /\ j \in 1..Len(toSnd)
      BY <2>4, <3>1, ProcessFrames DEF Early
    <3>2. CASE i \in 1..Len(toSnd) /\ j > Len(toSnd)
      <4>1. LinkFlowSent
        BY <2>4, <3>2, ProcessFrames DEF LinkFlowSent
      <4>2. remote_begun
        BY <2>2, <3>2, <4>1
      <4> QED
        BY <3>2, <4>2, ProcessFrames, Zenon
    <3>3. CASE i > Len(toSnd)
      BY <2>4, <3>3, ProcessFrames
    <3> QED
      BY <2>4, <3>1, <3>2, <3>3 DEF TypeOK
  <2>5. ~remote_begun /\ ~early_flow => ~LinkFlowSent'
    BY <2>1, ProcessFrames DEF Early, LinkFlowSent
  <2>6. ~remote_begun /\ LinkFlowSent' => ~need_flow' /\ ~check_flow'
    <3> SUFFICES ASSUME ~remote_begun, LinkFlowSent'
                 PROVE  ~need_flow' /\ ~check_flow'
      OBVIOUS
    <3>1. CASE LinkFlowSent
      BY <3>1, Zenon DEF Early, pni_process
    <3>2. CASE ~LinkFlowSent
      <4>1. "credit" \in modified
        BY <2>1, <3>2, ProcessFrames DEF LinkFlowSent
      <4> QED
        BY <4>1, Zenon DEF pni_process
    <3> QED
      BY <3>1, <3>2
  <2> QED
    BY <2>1, <2>3, <2>4, <2>5, <2>6 DEF Early
<1> QED
  BY <1>6, <1>7, <1>8, <1>9, <1>11, <1>12

(* Receiving the peer's BEGIN keeps the invariant. *)
LEMMA BeginKeepsIInv ==
  ASSUME IInv, pn_do_begin
  PROVE  IInv'
  BY DEF IInv, pn_do_begin, config, window, flags, sndVars, TypeOK, ConfigOK,
         Untouched, WindowFits, Counted, Ordered, Early, LinkFlowSent,
         NoWindowViolation

(* Receiving a TRANSFER keeps the invariant: the window is open. *)
LEMMA TransferKeepsIInv ==
  ASSUME IInv, pn_do_transfer
  PROVE  IInv'
<1> USE DEF IInv
<1>1. /\ toRcv \in Seq(Payloads) /\ toRcv # <<>>
      /\ Payloads \subseteq Nat
  BY FrameAssumption DEF Counted, pn_do_transfer
<1>2. /\ Len(toRcv) \in Nat /\ Len(toRcv) >= 1
      /\ Tail(toRcv) \in Seq(Payloads)
      /\ Len(Tail(toRcv)) = Len(toRcv) - 1
      /\ Head(toRcv) \in Payloads
  BY <1>1
<1>3. incoming_window > 0
  BY <1>2 DEF Counted, Ordered, TypeOK
<1>4. /\ incoming_bytes' = incoming_bytes + Head(toRcv)
      /\ incoming_transfer_count' = incoming_transfer_count + 1
      /\ incoming_window' = incoming_window - 1
      /\ error' = error /\ toRcv' = Tail(toRcv)
      /\ need_flow' = need_flow /\ toSnd' = toSnd /\ remote_begun
      /\ UNCHANGED <<setup, config, sndVars>>
      /\ \/ check_flow' = TRUE /\ modified' = modified \cup {"link"}
         \/ check_flow' = check_flow /\ modified' = modified
  BY <1>3 DEF pn_do_transfer, TypeOK
<1> USE DEF setup, config, sndVars
<1>5. /\ incoming_bytes' \in Nat /\ incoming_window' \in Nat
      /\ incoming_transfer_count' \in Nat
  BY <1>1, <1>2, <1>3, <1>4 DEF TypeOK
<1>6. TypeOK'
  <2>1. toRcv' \in Seq(Nat)
    BY <1>1, <1>4 DEF TypeOK
  <2>2. CASE check_flow' = TRUE /\ modified' = modified \cup {"link"}
    BY <1>4, <1>5, <2>1, <2>2 DEF TypeOK
  <2>3. CASE check_flow' = check_flow /\ modified' = modified
    BY <1>4, <1>5, <2>1, <2>3 DEF TypeOK
  <2> QED
    BY <1>4, <2>2, <2>3, Zenon
<1>7. ConfigOK' /\ NoWindowViolation' /\ Early'
  BY <1>4 DEF ConfigOK, NoWindowViolation, Early, LinkFlowSent
<1>8. Counted'
  BY <1>2, <1>4 DEF Counted, TypeOK
<1>9. Untouched'
  <2>1. has_credit /\ remote_active /\ ssn = "begun"
    BY <1>2 DEF Untouched, Counted, TypeOK
  <2> QED
    BY <1>4, <2>1 DEF Untouched
<1>10. WindowFits'
  <2>1. incoming_window' <= AMQP_MAX_WINDOW_SIZE
    BY <1>4, LimitAssumption DEF WindowFits, TypeOK
  <2> SUFFICES ASSUME ~Disabled(incoming_capacity, max_incoming_window)
               PROVE  incoming_bytes' + MaxFrame * incoming_window'
                        <= Limit(incoming_capacity, max_incoming_window)
    BY <1>4, <2>1 DEF WindowFits, Disabled, Limit
  <2>2. Head(toRcv) <= MaxFrame /\ MaxFrame \in Nat /\ Head(toRcv) \in Nat
    <3>1. MaxFrame \in Nat /\ MaxFrame > 0
      BY FrameAssumption DEF Disabled
    <3> HIDE DEF IInv
    <3> QED
      BY <1>1, <1>2, <3>1, FrameAssumption, Zenon
  <2>3. Limit(incoming_capacity, max_incoming_window) \in Nat
    BY FrameAssumption DEF Limit, TypeOK
  <2>4. incoming_bytes + MaxFrame * incoming_window
          <= Limit(incoming_capacity, max_incoming_window)
    BY DEF WindowFits
  <2>5. MaxFrame * incoming_window' = MaxFrame * incoming_window - MaxFrame
    BY <1>4, <2>2 DEF TypeOK
  <2>6. MaxFrame * incoming_window \in Nat /\ incoming_bytes \in Nat
    BY <2>2 DEF TypeOK
  <2>7. incoming_bytes' + MaxFrame * incoming_window'
          = (incoming_bytes + Head(toRcv)) + (MaxFrame * incoming_window - MaxFrame)
    BY <1>4, <2>5
  <2> HIDE DEF IInv
  <2> QED
    BY <2>2, <2>3, <2>4, <2>6, <2>7
<1>11. Ordered'
  <2>1. incoming_transfer_count' + incoming_window'
          = incoming_transfer_count + incoming_window
    BY <1>4 DEF TypeOK
  <2> QED
    BY <1>4, <2>1 DEF Ordered
<1> QED
  BY <1>6, <1>7, <1>8, <1>9, <1>10, <1>11

(* Sending a run of TRANSFERs within the remote window keeps the invariant. *)
LEMMA SendKeepsIInv ==
  ASSUME IInv, NEW k \in 1..MaxChannel, NEW ps \in [1..k -> Payloads],
         SendTransfers(ps)
  PROVE  IInv'
<1> USE DEF IInv
<1>0. k \in Nat /\ Payloads \subseteq Nat
  BY BoundAssumption, FrameAssumption
<1>1. ps \in Seq(Payloads) /\ Len(ps) = k
  BY <1>0, SeqDef
<1>2. /\ toRcv' \in Seq(Payloads) /\ Len(toRcv') = Len(toRcv) + k
      /\ Len(toRcv) \in Nat
  <2>1. toRcv' = toRcv \o ps /\ toRcv \in Seq(Payloads)
    BY DEF SendTransfers, Counted
  <2> HIDE DEF IInv
  <2> QED
    BY <1>1, <2>1, ConcatProperties, LenProperties, Zenon
<1>3. /\ outgoing_transfer_count' = outgoing_transfer_count + k
      /\ remote_incoming_window' = remote_incoming_window - k
      /\ k <= remote_incoming_window /\ has_credit
      /\ remote_active' = remote_active /\ has_credit' = has_credit
      /\ toSnd' = toSnd /\ error' = error
      /\ UNCHANGED <<setup, config, window, flags>>
  BY <1>1 DEF SendTransfers
<1> USE DEF setup, config, window, flags
<1>4. outgoing_transfer_count' \in Nat /\ remote_incoming_window' \in Nat
      /\ outgoing_transfer_count' + remote_incoming_window'
            = outgoing_transfer_count + remote_incoming_window
  BY <1>0, <1>3 DEF TypeOK
<1>5. TypeOK'
  <2>1. toRcv' \in Seq(Nat)
    BY <1>0, <1>2, SeqOfSubset, Zenon
  <2> QED
    BY <1>3, <1>4, <2>1 DEF TypeOK
<1>6. ConfigOK' /\ NoWindowViolation' /\ Early' /\ WindowFits' /\ Untouched'
  BY <1>3 DEF ConfigOK, NoWindowViolation, Early, LinkFlowSent, WindowFits,
              Untouched, Disabled, Limit
<1>7. Counted'
  BY <1>0, <1>2, <1>3 DEF Counted, TypeOK
<1>8. Ordered'
  BY <1>3, <1>4 DEF Ordered
<1> QED
  BY <1>5, <1>6, <1>7, <1>8

(* Receiving a BEGIN or FLOW keeps the invariant: the difference that      *)
(* pn_do_flow computes does not wrap.                                      *)
LEMMA FlowKeepsIInv ==
  ASSUME IInv, pn_do_flow
  PROVE  IInv'
<1> USE DEF IInv
<1> DEFINE f == Head(toSnd)
<1>1. /\ toSnd \in Seq(SndFrame) /\ toSnd # <<>>
      /\ Len(toSnd) \in Nat /\ 1 \in 1..Len(toSnd) /\ f = toSnd[1]
      /\ f \in SndFrame
  BY DEF TypeOK, pn_do_flow
<1>2. /\ toSnd' \in Seq(SndFrame) /\ Len(toSnd') = Len(toSnd) - 1
      /\ \A i \in 1..Len(toSnd') : i + 1 \in 1..Len(toSnd)
                                 /\ toSnd'[i] = toSnd[i + 1] /\ 1 < i + 1
  BY <1>1 DEF pn_do_flow
<1>3. /\ f.known \in BOOLEAN /\ f.link \in BOOLEAN
      /\ f.inext \in Nat /\ f.iwin \in Nat /\ Edge(f) \in Nat
  BY <1>1 DEF SndFrame, Edge
<1>4. /\ outgoing_transfer_count + remote_incoming_window <= Edge(f)
      /\ Edge(f) <= incoming_transfer_count + incoming_window
      /\ ~f.known => ~has_credit
      /\ \A i \in 1..Len(toSnd') : Edge(f) <= Edge(toSnd'[i])
                                 /\ (f.link => toSnd'[i].known)
  BY <1>1, <1>2, SMTT(40) DEF Ordered, Early
<1>5. /\ remote_active' = TRUE
      /\ has_credit' = (has_credit \/ f.link)
      /\ remote_incoming_window' =
           IF f.known /\ remote_active
           THEN (f.inext + f.iwin - outgoing_transfer_count) % U32
           ELSE f.iwin
      /\ UNCHANGED <<setup, config, window, flags, error,
                     outgoing_transfer_count, toRcv>>
  BY DEF pn_do_flow
<1> HIDE DEF f
<1> USE DEF setup, config, window, flags
<1>6. /\ remote_incoming_window' \in Nat
      /\ outgoing_transfer_count + remote_incoming_window' <= Edge(f)
  <2>1. CASE f.known /\ remote_active
    <3> DEFINE d == f.inext + f.iwin - outgoing_transfer_count
    <3>1. Edge(f) = f.inext + f.iwin
      BY <2>1 DEF Edge
    <3>2. d \in Nat /\ d <= incoming_window
      <4>1. /\ outgoing_transfer_count = incoming_transfer_count + Len(toRcv)
            /\ Len(toRcv) \in Nat
        BY DEF Counted
      <4>2. /\ outgoing_transfer_count \in Nat /\ incoming_transfer_count \in Nat
            /\ remote_incoming_window \in Nat /\ incoming_window \in Nat
        BY DEF TypeOK
      <4> HIDE DEF IInv
      <4> QED
        BY <1>3, <1>4, <3>1, <4>1, <4>2, SMTT(40)
    <3>3. d < U32 /\ U32 \in Nat \ {0}
      BY <3>2, LimitAssumption DEF WindowFits, TypeOK
    <3>4. d % U32 = d
      <4> HIDE DEF d, IInv
      <4> QED
        BY <3>2, <3>3
    <3>5. remote_incoming_window' = d
      BY <1>5, <2>1, <3>4
    <3> QED
      BY <1>3, <3>1, <3>2, <3>5, SMTT(40) DEF TypeOK
  <2>2. CASE ~(f.known /\ remote_active)
    <3>1. outgoing_transfer_count = 0
      BY <1>4, <2>2 DEF Untouched
    <3>2. remote_incoming_window' = f.iwin /\ f.iwin <= Edge(f)
      BY <1>3, <1>5, <2>2 DEF Edge
    <3> QED
      BY <1>3, <3>1, <3>2
  <2> QED
    BY <2>1, <2>2
<1>7. TypeOK'
  BY <1>2, <1>3, <1>5, <1>6 DEF TypeOK
<1>8. ConfigOK' /\ NoWindowViolation' /\ WindowFits' /\ Counted'
  BY <1>5 DEF ConfigOK, NoWindowViolation, WindowFits, Counted, Disabled, Limit
<1>9. Untouched'
  BY <1>1, <1>5, Zenon DEF Untouched
<1>10. Ordered'
  <2>1. outgoing_transfer_count + remote_incoming_window'
          <= incoming_transfer_count + incoming_window
    <3>1. /\ outgoing_transfer_count \in Nat
          /\ incoming_transfer_count \in Nat /\ incoming_window \in Nat
      BY DEF TypeOK
    <3> QED
      BY <1>3, <1>4, <1>6, <3>1, SumTransitive, Zenon
  <2>2. ASSUME NEW i \in 1..Len(toSnd')
        PROVE  /\ outgoing_transfer_count + remote_incoming_window'
                    <= Edge(toSnd'[i])
               /\ Edge(toSnd'[i]) <= incoming_transfer_count + incoming_window
    <3>1. Edge(toSnd'[i]) \in Nat /\ Edge(f) <= Edge(toSnd'[i])
      BY <1>2, <1>4, EdgeType, Zenon
    <3>2. Edge(toSnd'[i]) <= incoming_transfer_count + incoming_window
      BY <1>2 DEF Ordered
    <3>3. outgoing_transfer_count + remote_incoming_window' \in Nat
      BY <1>6, SumReflexive, Zenon DEF TypeOK
    <3> QED
      BY <1>3, <1>6, <3>1, <3>2, <3>3
  <2>3. ASSUME NEW i \in 1..Len(toSnd'), NEW j \in 1..Len(toSnd'), i < j
        PROVE  Edge(toSnd'[i]) <= Edge(toSnd'[j])
    <3>1. i + 1 < j + 1
      BY <1>1, <1>2, <2>3
    <3> QED
      BY <1>2, <3>1 DEF Ordered
  <2> QED
    BY <1>5, <2>1, <2>2, <2>3 DEF Ordered
<1>11. Early'
  <2>1. LinkFlowSent' => LinkFlowSent
    BY <1>1, <1>2, <1>5, Zenon DEF LinkFlowSent
  <2>2. ASSUME NEW i \in 1..Len(toSnd'), ~toSnd'[i].known
        PROVE  ~has_credit'
    BY <1>2, <1>4, <1>5, <2>2, Zenon DEF Early
  <2>3. ASSUME NEW i \in 1..Len(toSnd'), NEW j \in 1..Len(toSnd'), i < j,
               toSnd'[i].link
        PROVE  toSnd'[j].known
    <3>1. i + 1 < j + 1
      BY <1>1, <1>2, <2>3
    <3> QED
      BY <1>2, <2>3, <3>1, Zenon DEF Early
  <2> QED
    BY <1>5, <2>1, <2>2, <2>3 DEF Early
<1> QED
  BY <1>7, <1>8, <1>9, <1>10, <1>11

(* Every step keeps the invariant. *)
LEMMA NextIInv ==
  ASSUME WellUsed, IInv, [Next]_vars
  PROVE  IInv'
<1>1. CASE UNCHANGED vars
  <2>1. TypeOK' /\ ConfigOK' /\ Untouched'
    BY <1>1 DEF vars, setup, config, window, flags, sndVars, IInv, TypeOK, ConfigOK, Untouched
  <2>2. WindowFits' /\ Counted' /\ NoWindowViolation'
    BY <1>1 DEF vars, setup, config, window, flags, sndVars, IInv, WindowFits, Counted,
                NoWindowViolation
  <2>3. Ordered' /\ Early'
    BY <1>1 DEF vars, setup, config, window, flags, sndVars, IInv, Ordered, Early, LinkFlowSent
  <2> QED
    BY <2>1, <2>2, <2>3, Zenon DEF IInv
<1>2. CASE pni_process
  BY <1>2, ProcessKeepsIInv
<1>3. CASE pn_do_begin
  BY <1>3, BeginKeepsIInv
<1>4. CASE pn_do_transfer
  BY <1>4, TransferKeepsIInv
<1>5. CASE \E k \in 1..MaxChannel : \E ps \in [1..k -> Payloads] : SendTransfers(ps)
  BY <1>5, SendKeepsIInv
<1>6. CASE pn_do_flow
  BY <1>6, FlowKeepsIInv
<1> QED
  BY <1>1, <1>2, <1>3, <1>4, <1>5, <1>6, AppKeepsIInv DEF Next

-----------------------------------------------------------------------------
(* The inductive invariant holds of every behaviour of a well used session. *)
THEOREM Invariance == WellUsed => (Spec => []IInv)
<1> SUFFICES ASSUME WellUsed PROVE Spec => []IInv
  OBVIOUS
<1>1. IInv /\ [Next]_vars => IInv'
  BY NextIInv
<1> QED
  BY <1>1, InitIInv, PTL DEF Spec

(* Every variable of the session keeps its type. *)
THEOREM TypeCorrect == WellUsed => (Spec => []TypeOK)
<1>1. IInv => TypeOK
  BY DEF IInv
<1> QED
  BY <1>1, Invariance, PTL

(* A session never buffers more than its capacity, or than its window      *)
(* times the frame size (pn_session_set_incoming_window_and_lwm).          *)
THEOREM BufferBounded == WellUsed => (Spec => []BufferBound)
<1>1. IInv => BufferBound
  <2> SUFFICES ASSUME IInv, ~Disabled(incoming_capacity, max_incoming_window)
               PROVE  incoming_bytes <= Limit(incoming_capacity, max_incoming_window)
    BY DEF BufferBound
  <2>1. /\ MaxFrame * incoming_window \in Nat /\ incoming_bytes \in Nat
        /\ Limit(incoming_capacity, max_incoming_window) \in Nat
    BY FrameAssumption DEF IInv, TypeOK, Limit
  <2>2. incoming_bytes + MaxFrame * incoming_window
          <= Limit(incoming_capacity, max_incoming_window)
    BY DEF IInv, WindowFits
  <2> QED
    BY <2>1, <2>2
<1> QED
  BY <1>1, Invariance, PTL

(* pn_do_transfer never fails with amqp:session:window-violation. *)
THEOREM NoViolation == WellUsed => (Spec => []NoWindowViolation)
<1>1. IInv => NoWindowViolation
  BY DEF IInv
<1> QED
  BY <1>1, Invariance, PTL

(* The remote window that pn_do_flow computes is sound at every moment. *)
THEOREM RemoteViewIsSound == WellUsed => (Spec => []RemoteViewSound)
<1>1. IInv => RemoteViewSound
  BY DEF IInv, Ordered, RemoteViewSound
<1> QED
  BY <1>1, Invariance, PTL

(* No step takes back a transfer that the receiver has offered to accept   *)
(* (pni_post_flow sends the window that pni_session_incoming_window finds). *)
THEOREM NothingRevoked == WellUsed => (Spec => WindowNeverRevoked)
<1> DEFINE Step == ssn = "begun" => incoming_transfer_count' + incoming_window'
                                      >= incoming_transfer_count + incoming_window
<1>1. ASSUME IInv, [Next]_vars
      PROVE  [Step]_vars
  <2>1. incoming_transfer_count \in Nat /\ incoming_window \in Nat
    BY <1>1 DEF IInv, TypeOK
  <2>2. CASE UNCHANGED <<incoming_transfer_count, incoming_window>>
    BY <2>1, <2>2
  <2>3. CASE pni_process
    <3>1. incoming_transfer_count' = incoming_transfer_count
      BY <2>3 DEF pni_process
    <3> QED
      BY <1>1, <2>1, <2>3, <3>1, ProcessWidens
  <2>4. CASE pn_do_transfer
    BY <2>1, <2>4 DEF pn_do_transfer, window
  <2>5. ASSUME \/ pn_connection_bind \/ pn_session_open
               \/ \E c \in Capacities : pn_session_set_incoming_capacity(c)
               \/ \E w \in Windows, l \in Lwms :
                    pn_session_set_incoming_window_and_lwm(w, l)
               \/ \E n \in 1..incoming_bytes : ConsumeBytes(n)
        PROVE  UNCHANGED <<incoming_transfer_count, incoming_window>>
    BY <2>5 DEF pn_connection_bind, pn_session_open,
         pn_session_set_incoming_capacity, pn_session_set_incoming_window_and_lwm,
         ConsumeBytes, window
  <2>6. ASSUME \/ pn_delivery_settle \/ pn_link_flow \/ pn_do_begin \/ pn_do_flow
               \/ \E k \in 1..MaxChannel : \E ps \in [1..k -> Payloads] :
                    SendTransfers(ps)
               \/ UNCHANGED vars
        PROVE  UNCHANGED <<incoming_transfer_count, incoming_window>>
    BY <2>6 DEF pn_delivery_settle, pn_link_flow, pn_do_begin, pn_do_flow,
         SendTransfers, vars, window
  <2> QED
    BY <1>1, <2>2, <2>3, <2>4, <2>5, <2>6 DEF Next
<1> QED
  BY <1>1, Invariance, PTL DEF Spec, WindowNeverRevoked

=============================================================================

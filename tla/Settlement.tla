----------------------------- MODULE Settlement -----------------------------
(***************************************************************************)
(* Outcomes and settlement of deliveries over one session between two      *)
(* peers: c/src/core/transport.c (pni_process_tpwork_*, pni_post_disp,     *)
(* pni_flush_disp, pn_do_transfer, pn_do_disposition, the delivery maps)   *)
(* and c/src/core/engine.c (pn_delivery_update, pn_delivery_settle).       *)
(*                                                                         *)
(* Both peers send.  A delivery's frames are one transfer (LinkCredit has  *)
(* the frames), and credit and window are a choice of the deliveries that  *)
(* may be sent when the engine produces output.  Delivery ids are numbers  *)
(* modulo Ids, which is 2^32 in the code, and start anywhere.  Dispositions*)
(* for consecutive ids with the same outcome travel as one frame for a     *)
(* range of ids.                                                           *)
(***************************************************************************)
EXTENDS Integers, Sequences, FiniteSets, SequencesExt

CONSTANTS
  Peers,       \* the two peers
  Deliveries,
  From,        \* the sender of each delivery
  Outcomes,    \* what an application may say of a delivery
  Batchable,   \* the outcomes without parameters (pni_disposition_batchable)
  None,        \* no outcome: type 0
  Ids,         \* the number of delivery ids
  Start,       \* the first delivery id
  MaxCalls     \* bound: calls of pn_delivery_update and pn_delivery_settle

ASSUME SettlementConstants ==
  /\ Cardinality(Peers) = 2 /\ From \in [Deliveries -> Peers]
  /\ Batchable \subseteq Outcomes /\ None \notin Outcomes
  /\ Ids \in Nat /\ Ids % 2 = 0 /\ Start \in 0..Ids - 1
  /\ Cardinality(Deliveries) < Ids \div 2 /\ MaxCalls \in Nat

VARIABLES
  del,      \* del[p][m]: the pn_delivery_t of m at the peer p
  tpwork,   \* tpwork[p]: the deliveries the engine of p has to look at
  next,     \* next[p]: the next id of the deliveries that p sends, and receives
  wire,     \* wire[p]: frames on their way to p
  said,     \* what the application of p has said of m; the last word, once
  final,    \*   it has settled m
  calls     \* calls of pn_delivery_update and pn_delivery_settle

vars == <<del, tpwork, next, wire, said, final, calls>>

Other(p) == CHOOSE q \in Peers : q # p

\* A delivery that does not exist (yet, or any more): it is on no list.
NoDelivery(st) ==
  [st |-> st, type |-> None, settled |-> FALSE, remote |-> None,
   remote_settled |-> FALSE, init |-> FALSE, id |-> 0, sent |-> FALSE]

NoBatch == [disp |-> FALSE, role |-> FALSE, code |-> None, settled |-> FALSE,
            first |-> 0, last |-> 0]

\* a comes before b, or is b, in the cyclic order.
sequence_lte(a, b) == (b - a) % Ids < Ids \div 2

Init ==
  /\ del = [p \in Peers |-> [m \in Deliveries |-> NoDelivery("none")]]
  /\ tpwork = [p \in Peers |-> <<>>]
  /\ next = [p \in Peers |-> [out |-> Start, in |-> Start]]
  /\ wire = [p \in Peers |-> <<>>]
  /\ said = [p \in Peers |-> [m \in Deliveries |-> {}]]
  /\ final = [p \in Peers |-> [m \in Deliveries |-> "open"]]
  /\ calls = 0

-----------------------------------------------------------------------------
(* The application *)

pni_add_tpwork(p, m) ==
  tpwork' = IF m \in Range(tpwork[p]) THEN tpwork
            ELSE [tpwork EXCEPT ![p] = Append(@, m)]

\* pn_delivery, pn_link_send and pn_link_advance.
pn_delivery(m) ==
  LET p == From[m]
  IN  /\ del[p][m].st = "none"
      /\ del' = [del EXCEPT ![p][m].st = "live"]
      /\ pni_add_tpwork(p, m)
      /\ UNCHANGED <<next, wire, said, final, calls>>

pn_delivery_update(p, m, outcome) ==
  /\ del[p][m].st = "live" /\ final[p][m] = "open" /\ calls < MaxCalls
  /\ del' = [del EXCEPT ![p][m].type = outcome]
  /\ pni_add_tpwork(p, m)
  /\ said' = [said EXCEPT ![p][m] = @ \cup {outcome}]
  /\ calls' = calls + 1
  /\ UNCHANGED <<next, wire, final>>

pn_delivery_settle(p, m) ==
  /\ del[p][m].st = "live" /\ final[p][m] = "open" /\ calls < MaxCalls
  /\ del' = [del EXCEPT ![p][m].settled = TRUE]
  /\ pni_add_tpwork(p, m)
  /\ final' = [final EXCEPT ![p][m] = del[p][m].type]
  /\ calls' = calls + 1
  /\ UNCHANGED <<next, wire, said>>

-----------------------------------------------------------------------------
(* Output.  a is the state of the engine of one peer: its deliveries, work *)
(* list, ids, batch and the frames written.                                *)

\* pni_flush_disp.
pni_flush_disp(a) ==
  IF ~a.batch.disp THEN a
  ELSE [a EXCEPT !.batch = NoBatch,
                 !.frames = Append(@, [kind |-> "disposition", role |-> a.batch.role,
                                       first |-> a.batch.first, last |-> a.batch.last,
                                       settled |-> a.batch.settled, code |-> a.batch.code])]

\* Mutant: the two directions of a session share a batch.
PostMixesRoles(a, p, m) ==
  LET x    == a.del[m]
      role == From[m] # p
      same == a.batch.disp /\ a.batch.code = x.type /\ a.batch.settled = x.settled
  IN  CASE x.type = None /\ ~x.settled -> a
        [] ~(x.type = None /\ ~x.settled) /\ x.type \notin Batchable ->
             [a EXCEPT !.frames = Append(@, [kind |-> "disposition", role |-> role,
                first |-> x.id, last |-> x.id, settled |-> x.settled, code |-> x.type])]
        [] x.type \in Batchable /\ same /\ x.id = (a.batch.first - 1) % Ids ->
             [a EXCEPT !.batch.first = x.id]
        [] x.type \in Batchable /\ same /\ x.id = (a.batch.last + 1) % Ids ->
             [a EXCEPT !.batch.last = x.id]
        [] OTHER ->
             [pni_flush_disp(a) EXCEPT !.batch =
                [disp |-> TRUE, role |-> role, code |-> x.type, settled |-> x.settled,
                 first |-> x.id, last |-> x.id]]

\* pni_post_disp: an outcome with parameters goes out at once, another joins
\* the batch at either end or, after a flush, begins one.
pni_post_disp(a, p, m) ==
  LET x     == a.del[m]
      role  == From[m] # p
      joins == /\ a.batch.disp /\ a.batch.code = x.type
               /\ a.batch.settled = x.settled /\ a.batch.role = role
      frame == [kind |-> "disposition", role |-> role, first |-> x.id, last |-> x.id,
                settled |-> x.settled, code |-> x.type]
      batch == [disp |-> TRUE, role |-> role, code |-> x.type, settled |-> x.settled,
                first |-> x.id, last |-> x.id]
  IN  IF x.type = None /\ ~x.settled THEN a
      ELSE IF x.type \notin Batchable THEN [a EXCEPT !.frames = Append(@, frame)]
      ELSE IF joins /\ x.id = (a.batch.first - 1) % Ids THEN [a EXCEPT !.batch.first = x.id]
      ELSE IF joins /\ x.id = (a.batch.last + 1) % Ids THEN [a EXCEPT !.batch.last = x.id]
      ELSE [pni_flush_disp(a) EXCEPT !.batch = batch]

\* The transfer of a delivery, with the next id: pni_delivery_map_push and
\* pni_post_amqp_transfer_frame.
PostTransfer(a, m) ==
  [a EXCEPT !.del[m].init = TRUE, !.del[m].id = a.next.out, !.del[m].sent = TRUE,
            !.next.out = (@ + 1) % Ids,
            !.frames = Append(@, [kind |-> "transfer", m |-> m, id |-> a.next.out,
                                  settled |-> a.del[m].settled, code |-> a.del[m].type])]

pni_process_tpwork_sender(a, p, m, can) ==
  LET x == a.del[m]
  IN  IF ~x.sent /\ m \in can THEN PostTransfer(a, m)
      ELSE IF x.sent /\ ~x.remote_settled THEN pni_post_disp(a, p, m)
      ELSE a

pni_process_tpwork_receiver(a, p, m) ==
  IF ~a.del[m].remote_settled THEN pni_post_disp(a, p, m) ELSE a

\* pn_full_settle: off the work list, out of the map, and freed.
pn_full_settle(a, m) ==
  [a EXCEPT !.del[m] = NoDelivery("gone"), !.tpwork = SelectSeq(@, LAMBDA x : x # m)]

\* pni_process_tpwork, for one delivery.
Work(a, p, m, can) ==
  LET sender == From[m] = p
      b == IF sender THEN pni_process_tpwork_sender(a, p, m, can)
           ELSE pni_process_tpwork_receiver(a, p, m)
  IN  IF b.del[m].settled /\ (sender => b.del[m].sent) THEN pn_full_settle(b, m)
      ELSE IF sender /\ ~b.del[m].sent THEN b
      ELSE [b EXCEPT !.tpwork = SelectSeq(@, LAMBDA x : x # m)]

pni_process_tpwork(a, p, can) ==
  FoldLeft(LAMBDA b, m : Work(b, p, m, can), a, a.tpwork)

\* Mutant: what is batched waits for the next disposition.
ProcessWithoutFlush(p, can) ==
  LET a == [del |-> del[p], tpwork |-> tpwork[p], next |-> next[p], batch |-> NoBatch,
            frames |-> <<>>]
      b == pni_process_tpwork(pni_process_tpwork(a, p, can), p, can)
  IN  /\ tpwork[p] # <<>>
      /\ del' = [del EXCEPT ![p] = b.del]
      /\ tpwork' = [tpwork EXCEPT ![p] = b.tpwork]
      /\ next' = [next EXCEPT ![p] = b.next]
      /\ wire' = [wire EXCEPT ![Other(p)] = @ \o b.frames]
      /\ UNCHANGED <<said, final, calls>>

\* pni_process: the work list is gone through twice, then the batch is flushed.
pni_process(p, can) ==
  LET a == [del |-> del[p], tpwork |-> tpwork[p], next |-> next[p], batch |-> NoBatch,
            frames |-> <<>>]
      b == pni_flush_disp(pni_process_tpwork(pni_process_tpwork(a, p, can), p, can))
  IN  /\ tpwork[p] # <<>>
      /\ del' = [del EXCEPT ![p] = b.del]
      /\ tpwork' = [tpwork EXCEPT ![p] = b.tpwork]
      /\ next' = [next EXCEPT ![p] = b.next]
      /\ wire' = [wire EXCEPT ![Other(p)] = @ \o b.frames]
      /\ UNCHANGED <<said, final, calls>>

-----------------------------------------------------------------------------
(* Input *)

\* The first frame on the way to p, of one kind.
Arrives(p, kind) == wire[p] # <<>> /\ Head(wire[p]).kind = kind

\* pn_do_transfer: the id must be the next one.
pn_do_transfer(p) ==
  LET f == Head(wire[p])
  IN  /\ Arrives(p, "transfer") /\ f.id = next[p].in
      /\ del' = [del EXCEPT ![p][f.m] =
                   [NoDelivery("live") EXCEPT !.init = TRUE, !.id = f.id,
                      !.remote = f.code, !.remote_settled = f.settled]]
      /\ next' = [next EXCEPT ![p].in = (@ + 1) % Ids]
      /\ wire' = [wire EXCEPT ![p] = Tail(@)]
      /\ UNCHANGED <<tpwork, said, final, calls>>

\* The delivery map that a disposition is about: what p sends, for the role
\* of a receiver, or what it receives.
deliveries(p, role) == {m \in Deliveries : del[p][m].init /\ (From[m] = p) = role}

\* The two ways through the map: all of its entries, compared with the range,
\* or all ids of the range, looked up.
WalkEntries(p, map, first, last) ==
  {m \in map : sequence_lte(first, del[p][m].id) /\ sequence_lte(del[p][m].id, last)}

WalkIds(p, map, first, last) ==
  LET ids == IF sequence_lte(first, last)
             THEN {(first + i) % Ids : i \in 0..(last - first) % Ids} ELSE {}
  IN  {m \in map : del[p][m].id \in ids}

\* The deliveries of p that a disposition is for.
Affects(p, f) ==
  LET map  == deliveries(p, f.role)
      end  == IF f.role THEN next[p].out ELSE next[p].in
      last == IF sequence_lte(f.last, end) THEN f.last ELSE end
  IN  IF (last - f.first + 1) % Ids >= Cardinality(map)
      THEN WalkEntries(p, map, f.first, last)
      ELSE WalkIds(p, map, f.first, last)

\* pn_do_disposition, and pni_do_delivery_disposition for each delivery.
pn_do_disposition(p) ==
  LET f == Head(wire[p])
  IN  /\ Arrives(p, "disposition")
      /\ del' = [del EXCEPT ![p] = [m \in Deliveries |->
                   IF m \notin Affects(p, f) THEN del[p][m]
                   ELSE [del[p][m] EXCEPT !.remote_settled = f.settled,
                                          !.remote = IF f.code = None THEN @ ELSE f.code]]]
      /\ wire' = [wire EXCEPT ![p] = Tail(@)]
      /\ UNCHANGED <<tpwork, next, said, final, calls>>

-----------------------------------------------------------------------------
Next ==
  \/ \E m \in Deliveries : pn_delivery(m)
  \/ \E p \in Peers :
       \/ \E m \in Deliveries :
            \/ \E outcome \in Outcomes : pn_delivery_update(p, m, outcome)
            \/ pn_delivery_settle(p, m)
       \/ \E can \in SUBSET {m \in Deliveries : From[m] = p} : pni_process(p, can)
       \/ pn_do_transfer(p) \/ pn_do_disposition(p)

Spec == Init /\ [][Next]_vars

-----------------------------------------------------------------------------
(* Properties *)

\* Types.
TypeOK ==
  /\ \A p \in Peers, m \in Deliveries :
       /\ del[p][m].st \in {"none", "live", "gone"}
       /\ {del[p][m].type, del[p][m].remote} \subseteq Outcomes \cup {None}
       /\ del[p][m].id \in 0..Ids - 1
  /\ next \in [Peers -> [out : 0..Ids - 1, in : 0..Ids - 1]]
  /\ \A p \in Peers : IsInjective(tpwork[p])

\* Transfers arrive in the order of their ids, and the two walks through a
\* delivery map find the same deliveries for any disposition that arrives.
IdsInStep ==
  \A p \in Peers :
    /\ Arrives(p, "transfer") => Head(wire[p]).id = next[p].in
    /\ Arrives(p, "disposition") =>
         LET f == Head(wire[p])
             map == deliveries(p, f.role)
         IN  Affects(p, f) = {m \in map : del[p][m].id \in
               {(f.first + i) % Ids : i \in 0..(f.last - f.first) % Ids}}

\* What a peer knows of the other side is what the other application said of
\* that very delivery, and a settled delivery has the last outcome given: a
\* range never covers a delivery that its outcome was not meant for, and an
\* older disposition never arrives after a newer one.
OutcomesFaithful ==
  /\ TypeOK /\ IdsInStep
  /\ \A p \in Peers, m \in Deliveries :
       LET q == Other(p)
       IN  /\ del[p][m].remote \in said[q][m] \cup {None}
           /\ del[p][m].remote_settled => final[q][m] = del[p][m].remote

\* Nothing is left to do, to send or on its way.
Quiet == \A p \in Peers : tpwork[p] = <<>> /\ wire[p] = <<>>

\* At rest both sides agree: a delivery that one side has settled is gone
\* there and settled, as far as the other knows; what neither has settled is
\* known to both, each with the other's outcome.
AgreeAtRest ==
  Quiet => \A p \in Peers, m \in Deliveries :
    LET mine == del[p][m]  other == del[Other(p)][m]
    IN  /\ final[p][m] # "open" => mine.st = "gone" /\ (other.st = "gone" \/ other.remote_settled)
        /\ mine.st = "live" /\ other.st = "live" => other.remote = mine.type

=============================================================================

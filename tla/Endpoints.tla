----------------------------- MODULE Endpoints -----------------------------
(***************************************************************************)
(* The life of connections, sessions and links between two proton engines: *)
(* opening and closing by the applications, the numbering of channels and  *)
(* handles, the frames OPEN, BEGIN, ATTACH, DETACH, END and CLOSE, the     *)
(* list of modified endpoints that a pass of the transport works through,  *)
(* and the endpoint reference counts behind the FINAL events.              *)
(*                                                                         *)
(* A sender's deliveries are reduced to the flag queued: it withholds      *)
(* DETACH and END.  Objects are numbered in the order they are created.    *)
(***************************************************************************)
EXTENDS Integers, Sequences, SequencesExt, FiniteSetsExt

CONSTANTS
  MaxSsn, MaxLink,      \* bounds: sessions and links that exist at one peer
  OwnSsn, OwnLink,      \* bounds: those its application creates, by peer
  MaxNet,               \* bound: frames in flight in one direction
  MaxQueue,             \* bound: times the sender of a link queues deliveries
  Names,                \* names of links
  local_channel_max,    \* pn_transport_set_channel_max, by peer
  local_handle_max,     \* of every session
  U16,                  \* 2^16, the range of what allocate_alias returns
  Directions,           \* which links: sender is TRUE or FALSE
  Closable,             \* which kinds of endpoints the applications close
  Established,          \* start with one session open on both sides?
  MayBindLate,          \* may the server bind its transport after input came?
  MayOpenOutOfOrder,    \* may a child be opened before its parent is?
  MayCloseEarly,        \* may a session be closed before the peer's BEGIN came?
  MayFreeEarly,         \* may an endpoint be freed before both sides closed it?
  MayOpenAfterClose,    \* may it be opened after it or its parent was closed?
  MayReuseName          \* may a name be used again before both DETACHes are out?

Peers == {"client", "server"}
Other(p) == IF p = "client" THEN "server" ELSE "client"

ASSUME EndpointBounds ==
  /\ MaxSsn \in Nat /\ MaxLink \in Nat /\ MaxNet \in Nat /\ MaxQueue \in Nat
  /\ U16 \in Nat \ {0}
  /\ OwnSsn \in [Peers -> Nat] /\ OwnLink \in [Peers -> Nat]
  /\ local_channel_max \in [Peers -> Nat] /\ local_handle_max \in Nat
ASSUME EndpointUse ==
  {Established, MayBindLate, MayOpenOutOfOrder, MayCloseEarly, MayFreeEarly,
   MayOpenAfterClose, MayReuseName} \subseteq BOOLEAN

VARIABLES
  e,     \* by peer: its pn_transport_t with the pn_connection_t bound to it
  net    \* by peer: the frames on their way to it
vars == <<e, net>>

Conn == <<"connection", 0>>
Ssn(i) == <<"session", i>>
Link(j) == <<"link", j>>
Ssns == 1..MaxSsn
Links == 1..MaxLink
Ids == {Conn} \cup {Ssn(i) : i \in Ssns} \cup {Link(j) : j \in Links}
Channels == 0..MaxSsn
Handles == 0..MaxLink

\* State of pn_endpoint_init; the connection's count includes its transport.
NewEndpoint == [local |-> "UNINIT", remote |-> "UNINIT", freed |-> FALSE,
                refcount |-> 1]
NoEndpoint == [NewEndpoint EXCEPT !.refcount = 0]

\* Channel and handle -1: never had one; -2: had one.  peer is the object of the
\* other engine whose BEGIN or ATTACH this one was matched with.
NewSsn == [local_channel |-> -1, remote_channel |-> -1,
           remote_handle_max |-> MaxLink,
           local_handles |-> [h \in Handles |-> 0],
           remote_handles |-> [h \in Handles |-> 0], peer |-> 0]
NewLink == [ssn |-> 0, name |-> CHOOSE n \in Names : TRUE, sender |-> FALSE,
            detached |-> FALSE, local_handle |-> -1, remote_handle |-> -1,
            queued |-> FALSE, queues |-> 0, peer |-> 0]

\* out and err are scratch of one step: the frames it emits, the error of a phase.
NewPeer(p) ==
  [bound |-> TRUE, open_sent |-> FALSE, open_rcvd |-> FALSE,
   close_sent |-> FALSE, close_rcvd |-> FALSE,
   done_processing |-> FALSE, error |-> FALSE,
   local_channel_max |-> local_channel_max[p], remote_channel_max |-> MaxSsn,
   ep |-> [id \in Ids |-> IF id = Conn THEN [NewEndpoint EXCEPT !.refcount = 2]
                          ELSE NoEndpoint],
   ssn |-> [i \in Ssns |-> NewSsn], link |-> [j \in Links |-> NewLink],
   sessions |-> 0, links |-> 0, ownSsn |-> 0, ownLink |-> 0,
   local_channels |-> [c \in Channels |-> 0],
   remote_channels |-> [c \in Channels |-> 0],
   transport_list |-> <<>>, out |-> <<>>, err |-> FALSE]

-----------------------------------------------------------------------------
(* Endpoints: reference counts and the list of modified endpoints          *)

pn_ep_incref(x, id) == [x EXCEPT !.ep[id].refcount = @ + 1]
pn_ep_decref(x, id) == [x EXCEPT !.ep[id].refcount = @ - 1]

\* A phase works on one kind of endpoint, so the list's order matters only within
\* a kind: the model keeps the kinds apart.
Rank(id) == CASE id[1] = "connection" -> 1 [] id[1] = "session" -> 2 [] OTHER -> 3
pn_modified(x, id) ==
  LET before == SelectSeq(x.transport_list, LAMBDA k : Rank(k) <= Rank(id))
      after == SelectSeq(x.transport_list, LAMBDA k : Rank(k) > Rank(id))
  IN  IF Contains(x.transport_list, id) THEN x
      ELSE [x EXCEPT !.transport_list = before \o <<id>> \o after]
pn_clear_modified(x, id) == [x EXCEPT !.transport_list = Remove(@, id)]

Exists(x, id) ==
  CASE id[1] = "connection" -> x.bound
    [] id[1] = "session" -> id[2] <= x.sessions
    [] OTHER -> id[2] <= x.links
Parent(x, id) == IF id[1] = "link" THEN Ssn(x.link[id[2]].ssn) ELSE Conn

\* The links of a session that are still in session->links.
LinksOf(x, i) ==
  {j \in 1..x.links : x.link[j].ssn = i /\ ~x.ep[Link(j)].freed}

\* pn_session: the caller ensures there is room within the bound
pn_session(x) ==
  LET i == x.sessions + 1
      y == [x EXCEPT !.sessions = i, !.ep[Ssn(i)] = NewEndpoint]
  IN  pn_ep_incref(y, Conn)

pn_link_new(x, i, name, sender) ==
  LET j == x.links + 1
      y == [x EXCEPT !.links = j, !.ep[Link(j)] = NewEndpoint,
                     !.link[j] = [NewLink EXCEPT !.ssn = i, !.name = name,
                                                 !.sender = sender]]
  IN  pn_ep_incref(y, Ssn(i))

pn_endpoint_open(x, id) == pn_modified([x EXCEPT !.ep[id].local = "ACTIVE"], id)
pn_endpoint_close(x, id) == pn_modified([x EXCEPT !.ep[id].local = "CLOSED"], id)

\* pn_link_free: leaves the session's list; settling what is queued is work for
\* the transport, for which pni_add_tpwork marks the connection.
pn_link_free(x, j) ==
  LET y == pn_ep_decref(pn_ep_decref([x EXCEPT !.ep[Link(j)].freed = TRUE],
                                     Ssn(x.link[j].ssn)), Link(j))
  IN  IF x.link[j].queued THEN pn_modified(y, Conn) ELSE y

pn_session_free(x, i) ==
  LET y == FoldSet(LAMBDA j, z : pn_link_free(z, j), x, LinksOf(x, i))
  IN  pn_ep_decref(pn_ep_decref([y EXCEPT !.ep[Ssn(i)].freed = TRUE], Conn),
                   Ssn(i))

-----------------------------------------------------------------------------
(* Channels and handles                                                    *)

Lowest(a, b) == IF a < b THEN a ELSE b

\* pni_calculate_channel_max: the peer's limit counts once its OPEN is here
channel_max(x) ==
  IF x.open_rcvd THEN Lowest(x.local_channel_max, x.remote_channel_max)
  ELSE x.local_channel_max

\* allocate_alias: the lowest free index, returned as a uint16_t
FreeAliases(aliases, max) == {a \in DOMAIN aliases : a <= max /\ aliases[a] = 0}
allocate_alias(aliases, max) == Min(FreeAliases(aliases, max)) % U16

pni_map_local_channel(x, i) ==
  LET c == allocate_alias(x.local_channels, channel_max(x))
  IN  pn_ep_incref([x EXCEPT !.ssn[i].local_channel = c,
                             !.local_channels[c] = i], Ssn(i))
pni_map_remote_channel(x, i, c) ==
  pn_ep_incref([x EXCEPT !.ssn[i].remote_channel = c,
                         !.remote_channels[c] = i], Ssn(i))
pni_map_local_handle(x, j) ==
  LET i == x.link[j].ssn
      h == allocate_alias(x.ssn[i].local_handles, x.ssn[i].remote_handle_max)
  IN  pn_ep_incref([x EXCEPT !.link[j].local_handle = h,
                             !.ssn[i].local_handles[h] = j], Link(j))
pni_map_remote_handle(x, j, h) ==
  pn_ep_incref([x EXCEPT !.link[j].remote_handle = h,
                         !.ssn[x.link[j].ssn].remote_handles[h] = j], Link(j))

\* Drop a number from its table, and with it the reference, if it is there.
Mapped(table, n) == n \in DOMAIN table /\ table[n] # 0
Dropped(table, n) == IF n \in DOMAIN table THEN [table EXCEPT ![n] = 0] ELSE table

pni_unmap_local_handle(x, j) ==
  LET i == x.link[j].ssn
      h == x.link[j].local_handle
      y == [x EXCEPT !.link[j].local_handle = -2,
                     !.ssn[i].local_handles = Dropped(@, h)]
  IN  IF Mapped(x.ssn[i].local_handles, h) THEN pn_ep_decref(y, Link(j)) ELSE y
pni_unmap_remote_handle(x, j) ==
  LET i == x.link[j].ssn
      h == x.link[j].remote_handle
      y == [x EXCEPT !.link[j].remote_handle = -2,
                     !.ssn[i].remote_handles = Dropped(@, h)]
  IN  IF Mapped(x.ssn[i].remote_handles, h) THEN pn_ep_decref(y, Link(j)) ELSE y

\* pni_transport_unbind_handles(handles, false): the links keep their numbers
ReleaseAll(x, handles) ==
  FoldSet(LAMBDA h, y : pn_ep_decref(y, Link(handles[h])), x,
          {h \in Handles : handles[h] # 0})

\* Mutant: the number is free again, the reference stays.
UnmapLocalChannelKeepsReference(x, i) ==
  [x EXCEPT !.ssn[i].local_channel = -2,
            !.local_channels = Dropped(@, x.ssn[i].local_channel)]
pni_unmap_local_channel(x, i) ==
  LET c == x.ssn[i].local_channel
      y == [ReleaseAll(x, x.ssn[i].local_handles) EXCEPT
              !.ssn[i].local_handles = [h \in Handles |-> 0],
              !.ssn[i].local_channel = -2,
              !.local_channels = Dropped(@, c)]
  IN  IF Mapped(x.local_channels, c) THEN pn_ep_decref(y, Ssn(i)) ELSE y
pni_unmap_remote_channel(x, i) ==
  LET c == x.ssn[i].remote_channel
      y == [ReleaseAll(x, x.ssn[i].remote_handles) EXCEPT
              !.ssn[i].remote_handles = [h \in Handles |-> 0],
              !.ssn[i].remote_channel = -2,
              !.remote_channels = Dropped(@, c)]
  IN  IF Mapped(x.remote_channels, c) THEN pn_ep_decref(y, Ssn(i)) ELSE y

-----------------------------------------------------------------------------
(* A pass of the transport: pni_process                                    *)

Send(x, frame) == [x EXCEPT !.out = Append(@, frame)]

OpenFrame(x) == [type |-> "OPEN", channel_max |-> channel_max(x)]
CloseFrame == [type |-> "CLOSE"]

pni_process_conn_setup(x, id) ==
  IF id = Conn /\ x.ep[id].local # "UNINIT" /\ ~x.open_sent
    THEN [Send(x, OpenFrame(x)) EXCEPT !.open_sent = TRUE]
    ELSE x

pni_process_ssn_setup(x, id) ==
  LET i == id[2]
      y == pni_map_local_channel(x, i)
      begin == [type |-> "BEGIN", channel |-> y.ssn[i].local_channel,
                reply |-> y.ssn[i].remote_channel >= 0,
                remote_channel |-> y.ssn[i].remote_channel,
                handle_max |-> local_handle_max, from |-> i]
  IN  IF ~(id[1] = "session" /\ x.open_sent /\ x.ep[id].local # "UNINIT"
           /\ x.ssn[i].local_channel = -1) THEN x
      ELSE IF FreeAliases(x.local_channels, channel_max(x)) = {}
        THEN [x EXCEPT !.err = TRUE]
        ELSE Send(y, begin)

pni_process_link_setup(x, id) ==
  LET j == id[2]
      i == x.link[j].ssn
      y == pni_map_local_handle(x, j)
      attach == [type |-> "ATTACH", channel |-> x.ssn[i].local_channel,
                 handle |-> y.link[j].local_handle, name |-> x.link[j].name,
                 is_sender |-> ~x.link[j].sender, from |-> j]
  IN  IF ~(id[1] = "link" /\ x.open_sent /\ x.ssn[i].local_channel >= 0
           /\ x.ep[id].local # "UNINIT" /\ x.link[j].local_handle = -1) THEN x
      ELSE IF FreeAliases(x.ssn[i].local_handles, x.ssn[i].remote_handle_max) = {}
        THEN [x EXCEPT !.err = TRUE]
        ELSE Send(y, attach)

\* pni_process_tpwork: the links in ready find credit and an open window
pni_process_tpwork(x, id, ready) ==
  LET Transfer(y, j) ==
        IF /\ y.link[j].queued /\ y.link[j].local_handle >= 0
           /\ y.ssn[y.link[j].ssn].local_channel >= 0
          THEN Send([y EXCEPT !.link[j].queued = FALSE],
                    [type |-> "TRANSFER", handle |-> y.link[j].local_handle,
                     channel |-> y.ssn[y.link[j].ssn].local_channel])
          ELSE y
  IN  IF id = Conn /\ ~x.close_sent
        THEN FoldSet(LAMBDA j, y : Transfer(y, j), x, ready) ELSE x

\* Mutant: the link leaves the list though its DETACH is withheld.
LinkTeardownForgets(x, id) ==
  LET j == id[2]
      i == x.link[j].ssn
      leaves == /\ x.ep[id].local = "CLOSED" \/ x.link[j].detached
                /\ x.link[j].local_handle >= 0 /\ x.ssn[i].local_channel >= 0
                /\ ~x.close_sent /\ ~x.link[j].queued
      detach == [type |-> "DETACH", channel |-> x.ssn[i].local_channel,
                 handle |-> x.link[j].local_handle, closed |-> ~x.link[j].detached]
  IN  IF id[1] # "link" THEN x
      ELSE pn_clear_modified(
             IF leaves THEN pni_unmap_local_handle(Send(x, detach), j) ELSE x, id)
pni_process_link_teardown(x, id) ==
  LET j == id[2]
      i == x.link[j].ssn
      leaves == /\ x.ep[id].local = "CLOSED" \/ x.link[j].detached
                /\ x.link[j].local_handle >= 0 /\ x.ssn[i].local_channel >= 0
                /\ ~x.close_sent
      waits == /\ x.link[j].sender /\ x.link[j].queued /\ ~x.close_rcvd
               /\ x.link[j].remote_handle # -2 /\ x.ssn[i].remote_channel # -2
      detach == [type |-> "DETACH", channel |-> x.ssn[i].local_channel,
                 handle |-> x.link[j].local_handle, closed |-> ~x.link[j].detached]
  IN  IF id[1] # "link" \/ (leaves /\ waits) THEN x
      ELSE pn_clear_modified(
             IF leaves THEN pni_unmap_local_handle(Send(x, detach), j) ELSE x, id)

\* Mutant: deliveries that are queued hold nothing up.
PointfulOnlyBeforeOpen(x, i) == ~x.close_rcvd /\ ~x.open_rcvd
\* Mutant: each side waits for the CLOSE of the other.
PointfulUntilClosed(x, i) == ~x.close_rcvd
\* pni_pointful_buffering for a session; for a connection, i = 0: no link is in it
pni_pointful_buffering(x, i) ==
  /\ ~x.close_rcvd
  /\ \/ ~x.open_rcvd
     \/ i # 0 /\ \E j \in LinksOf(x, i) :
          /\ x.link[j].sender /\ x.link[j].queued
          /\ x.link[j].remote_handle # -2 /\ x.ssn[i].remote_channel # -2

pni_process_ssn_teardown(x, id) ==
  LET i == id[2]
      ends == /\ x.ep[id].local = "CLOSED" /\ x.ssn[i].local_channel >= 0
              /\ ~x.close_sent
      end == [type |-> "END", channel |-> x.ssn[i].local_channel]
  IN  IF id[1] # "session" \/ (ends /\ pni_pointful_buffering(x, i)) THEN x
      ELSE pn_clear_modified(
             IF ends THEN pni_unmap_local_channel(Send(x, end), i) ELSE x, id)

\* Mutant: the connection leaves the list though its CLOSE is withheld.
ConnTeardownForgets(x, id) ==
  LET closes == x.ep[id].local = "CLOSED" /\ ~x.close_sent
                /\ ~pni_pointful_buffering(x, 0)
  IN  IF id # Conn THEN x
      ELSE pn_clear_modified(
             IF closes THEN [Send(x, CloseFrame) EXCEPT !.close_sent = TRUE]
             ELSE x, id)
pni_process_conn_teardown(x, id) ==
  LET closes == x.ep[id].local = "CLOSED" /\ ~x.close_sent
  IN  IF id # Conn \/ (closes /\ pni_pointful_buffering(x, 0)) THEN x
      ELSE pn_clear_modified(
             IF closes THEN [Send(x, CloseFrame) EXCEPT !.close_sent = TRUE]
             ELSE x, id)

\* F(x), with x evaluated once
Apply(F(_), x) == CHOOSE y \in {F(z) : z \in {x}} : TRUE

\* pni_phase: an error ends the pass
pni_phase(x, phase(_, _)) ==
  LET Step(y, id) == IF y.err THEN y ELSE phase(y, id)
  IN  Apply(LAMBDA u : FoldLeft(LAMBDA y, id : Apply(LAMBDA v : Step(v, id), y),
                                u, u.transport_list), x)

pni_process(x, ready) ==
  LET a == pni_phase(x, pni_process_conn_setup)
      b == pni_phase(a, pni_process_ssn_setup)
      c == pni_phase(b, pni_process_link_setup)
      d == pni_phase(c, LAMBDA y, id : pni_process_tpwork(y, id, ready))
      f == pni_phase(d, pni_process_link_teardown)
      g == pni_phase(f, pni_process_ssn_teardown)
      h == pni_phase(g, pni_process_conn_teardown)
  IN  IF ~h.err /\ \E j \in 1..h.links : h.link[j].queued
        THEN pn_modified(h, Conn) ELSE h

-----------------------------------------------------------------------------
(* Frames that arrive                                                      *)

\* pn_do_error with pn_error_amqp: CLOSE goes out, after an OPEN if need be
pn_do_error(x) ==
  LET y == IF x.open_sent THEN x
           ELSE Send(x, [type |-> "OPEN", channel_max |-> MaxSsn])
      z == IF x.close_sent THEN x ELSE Send(y, CloseFrame)
  IN  [z EXCEPT !.close_sent = TRUE, !.done_processing = TRUE, !.error = TRUE]

pn_do_open(x, f) ==
  LET y == [x EXCEPT !.open_rcvd = TRUE, !.remote_channel_max = f.channel_max]
  IN  IF x.bound THEN [y EXCEPT !.ep[Conn].remote = "ACTIVE"] ELSE y

\* Mutant: an answer is looked up among the numbers of the peer.
BeginLooksUpRemote(x, f) ==
  LET known == ~f.reply \/ x.remote_channels[f.remote_channel] # 0
      i == IF f.reply THEN x.remote_channels[f.remote_channel] ELSE x.sessions + 1
      y == IF f.reply THEN x ELSE pn_session(x)
  IN  IF ~known THEN pn_do_error(x)
      ELSE pni_map_remote_channel(
             [y EXCEPT !.ep[Ssn(i)].remote = "ACTIVE",
                       !.ssn[i].peer = f.from], i, f.channel)
\* Mutant: an answer is looked up by the number of the sender.
BeginLooksUpChannel(x, f) ==
  LET i == IF f.reply THEN x.local_channels[f.channel] ELSE x.sessions + 1
      y == IF f.reply THEN x ELSE pn_session(x)
  IN  IF i = 0 THEN pn_do_error(x)
      ELSE pni_map_remote_channel(
             [y EXCEPT !.ep[Ssn(i)].remote = "ACTIVE",
                       !.ssn[i].peer = f.from], i, f.channel)
pn_do_begin(x, f) ==
  LET known == ~f.reply \/ x.local_channels[f.remote_channel] # 0
      i == IF f.reply THEN x.local_channels[f.remote_channel] ELSE x.sessions + 1
      y == IF f.reply THEN x ELSE pn_session(x)
  IN  IF f.channel > channel_max(x) \/ ~known THEN pn_do_error(x)
      ELSE pni_map_remote_channel(
             [y EXCEPT !.ssn[i].remote_handle_max = Lowest(f.handle_max, MaxLink),
                       !.ep[Ssn(i)].remote = "ACTIVE",
                       !.ssn[i].peer = f.from], i, f.channel)

pni_find_link(x, i, name, is_sender) ==
  {j \in LinksOf(x, i) :
     /\ x.link[j].sender = is_sender /\ x.link[j].name = name
     /\ x.ep[Link(j)].remote # "CLOSED" /\ x.link[j].remote_handle # -2}

pn_do_attach(x, f) ==
  LET i == x.remote_channels[f.channel]
      found == pni_find_link(x, i, f.name, f.is_sender)
      j == IF found = {} THEN x.links + 1 ELSE Min(found)
      y == IF found = {} THEN pn_link_new(x, i, f.name, f.is_sender) ELSE x
  IN  IF \/ i = 0 \/ f.handle > local_handle_max
         \/ found # {} /\ x.link[j].remote_handle >= 0
        THEN pn_do_error(x)
        ELSE pni_map_remote_handle(
               [y EXCEPT !.ep[Link(j)].remote = "ACTIVE",
                         !.link[j].peer = f.from], j, f.handle)

\* The link a frame names, 0 if there is none
LinkOf(x, f) ==
  LET i == x.remote_channels[f.channel]
  IN  IF i = 0 THEN 0 ELSE x.ssn[i].remote_handles[f.handle]

pn_do_transfer(x, f) == IF LinkOf(x, f) = 0 THEN pn_do_error(x) ELSE x

pn_do_detach(x, f) ==
  LET j == LinkOf(x, f)
      y == IF f.closed THEN [x EXCEPT !.ep[Link(j)].remote = "CLOSED"] ELSE x
  IN  IF j = 0 THEN pn_do_error(x) ELSE pni_unmap_remote_handle(y, j)

pn_do_end(x, f) ==
  LET i == x.remote_channels[f.channel]
  IN  IF i = 0 THEN pn_do_error(x)
      ELSE pni_unmap_remote_channel([x EXCEPT !.ep[Ssn(i)].remote = "CLOSED"], i)

pn_do_close(x) == [x EXCEPT !.close_rcvd = TRUE, !.ep[Conn].remote = "CLOSED"]

Dispatch(x, f) ==
  CASE f.type = "OPEN" -> pn_do_open(x, f)
    [] f.type = "BEGIN" -> pn_do_begin(x, f)
    [] f.type = "ATTACH" -> pn_do_attach(x, f)
    [] f.type = "TRANSFER" -> pn_do_transfer(x, f)
    [] f.type = "DETACH" -> pn_do_detach(x, f)
    [] f.type = "END" -> pn_do_end(x, f)
    [] OTHER -> pn_do_close(x)

\* Is there room, within the bounds, for what the frame creates?
Room(x, f) ==
  /\ f.type = "BEGIN" /\ x.sessions = MaxSsn => f.reply
  /\ f.type = "ATTACH" /\ x.links = MaxLink =>
       LET i == x.remote_channels[f.channel]
       IN  i = 0 \/ pni_find_link(x, i, f.name, f.is_sender) # {}

-----------------------------------------------------------------------------
(* Steps                                                                   *)

\* The peer's new state, less the frames it put out, which are now in flight.
Become(p, x) == e' = [e EXCEPT ![p] = [x EXCEPT !.out = <<>>, !.err = FALSE]]

\* transport_produce: one pass; an error stops all later ones.  After CLOSE passes
\* go on while the output is not drained: here always.  A pass over an empty list
\* does nothing.
Produce(p) ==
  /\ e[p].bound /\ ~e[p].done_processing /\ e[p].transport_list # <<>>
  /\ \E ready \in SUBSET {j \in 1..e[p].links :
                            /\ e[p].link[j].queued
                            /\ e[p].ep[Link(j)].remote # "UNINIT"} :
       \E x \in {pni_process(e[p], ready)} :
         /\ net[Other(p)] # <<>> => Len(net[Other(p)]) + Len(x.out) <= MaxNet
         /\ Become(p, [x EXCEPT !.done_processing = x.err])
         /\ net' = [net EXCEPT ![Other(p)] = @ \o x.out]

\* pn_dispatcher_amqp_input takes a frame; it halts after OPEN until bound.  The
\* tail closes after an error and after CLOSE, which nothing follows: CloseIsLast.
Consume(p) ==
  /\ net[p] # <<>> /\ ~e[p].error /\ ~e[p].close_rcvd
  /\ (e[p].bound \/ ~e[p].open_rcvd)
  /\ Room(e[p], Head(net[p]))
  /\ \E x \in {Dispatch(e[p], Head(net[p]))} :
       /\ Become(p, x)
       /\ net' = [net EXCEPT ![p] = Tail(@), ![Other(p)] = @ \o x.out]

pn_transport_bind(p) ==
  /\ ~e[p].bound
  /\ LET x == pn_ep_incref([e[p] EXCEPT !.bound = TRUE], Conn)
     IN  Become(p, IF x.open_rcvd THEN [x EXCEPT !.ep[Conn].remote = "ACTIVE"]
                   ELSE x)
  /\ UNCHANGED net

\* An endpoint both sides are done with: closed, or a link both detached.
Finished(x, id) ==
  \/ x.ep[id].local = "CLOSED" /\ x.ep[id].remote = "CLOSED"
  \/ id[1] = "link" /\ x.link[id[2]].local_handle = -2
                    /\ x.link[id[2]].remote_handle = -2

Ancestors(x, id) == IF id = Conn THEN {} ELSE {Parent(x, id), Conn}
Usable(p, id) == Exists(e[p], id) /\ ~e[p].ep[id].freed
MayStart(p, id) ==
  \A a \in Ancestors(e[p], id) :
    /\ e[p].ep[a].local = "UNINIT" => MayOpenOutOfOrder
    /\ e[p].ep[a].local = "CLOSED" => MayOpenAfterClose

Open(p, id) ==
  /\ Usable(p, id) /\ e[p].ep[id].local # "ACTIVE" /\ MayStart(p, id)
  /\ e[p].ep[id].local = "CLOSED" => MayOpenAfterClose
  /\ Become(p, pn_endpoint_open(e[p], id)) /\ UNCHANGED net

Close(p, id) ==
  /\ id[1] \in Closable /\ Usable(p, id) /\ e[p].ep[id].local # "CLOSED"
  /\ e[p].ep[id].local = "UNINIT" => MayStart(p, id)
  /\ id[1] = "session" /\ e[p].ep[id].remote = "UNINIT" => MayCloseEarly
  /\ Become(p, pn_endpoint_close(e[p], id)) /\ UNCHANGED net

pn_link_detach(p, j) ==
  /\ Usable(p, Link(j)) /\ ~e[p].link[j].detached
  /\ Become(p, pn_modified([e[p] EXCEPT !.link[j].detached = TRUE], Link(j)))
  /\ UNCHANGED net

NewSession(p) ==
  /\ e[p].bound /\ e[p].ownSsn < OwnSsn[p] /\ e[p].sessions < MaxSsn
  /\ Become(p, [pn_session(e[p]) EXCEPT !.ownSsn = @ + 1]) /\ UNCHANGED net

\* A name is used by one link at a time in each direction (link.h).
NewLinkOf(p, i, name, sender) ==
  /\ Usable(p, Ssn(i)) /\ e[p].ownLink < OwnLink[p] /\ e[p].links < MaxLink
  /\ \A j \in 1..e[p].links :
       e[p].link[j].name = name /\ e[p].link[j].sender = sender
         => \/ e[p].link[j].local_handle = -2 /\ e[p].link[j].remote_handle = -2
            \/ MayReuseName /\ e[p].ep[Link(j)].local = "CLOSED"
  /\ Become(p, [pn_link_new(e[p], i, name, sender) EXCEPT !.ownLink = @ + 1])
  /\ UNCHANGED net

Queue(p, j) ==
  /\ Usable(p, Link(j)) /\ e[p].link[j].sender /\ ~e[p].link[j].queued
  /\ e[p].ep[Link(j)].local = "ACTIVE" /\ ~e[p].link[j].detached
  /\ e[p].link[j].queues < MaxQueue
  /\ Become(p, pn_modified([e[p] EXCEPT !.link[j].queued = TRUE,
                                        !.link[j].queues = @ + 1], Conn))
  /\ UNCHANGED net

FreeLink(p, j) ==
  /\ Usable(p, Link(j)) /\ (Finished(e[p], Link(j)) \/ MayFreeEarly)
  /\ Become(p, pn_link_free(e[p], j)) /\ UNCHANGED net
FreeSession(p, i) ==
  /\ Usable(p, Ssn(i)) /\ (Finished(e[p], Ssn(i)) \/ MayFreeEarly)
  /\ Become(p, pn_session_free(e[p], i)) /\ UNCHANGED net

Application(p) ==
  \/ \E id \in Ids : Open(p, id) \/ Close(p, id)
  \/ NewSession(p)
  \/ \E i \in Ssns : FreeSession(p, i)
  \/ \E i \in Ssns, name \in Names, sender \in Directions : NewLinkOf(p, i, name, sender)
  \/ \E j \in Links : pn_link_detach(p, j) \/ Queue(p, j) \/ FreeLink(p, j)

\* A server's transport may take input before a connection is bound to it.
Unbound(x) == [x EXCEPT !.bound = FALSE, !.ep[Conn].refcount = 1]

\* Both sides after the client opened its connection and a session, the server
\* answered, and each took the frames of the other.
Idle(x) == [x EXCEPT !.out = <<>>]
Take(x, frames) == FoldLeft(Dispatch, x, frames)
Opened(x) == pni_process(pn_endpoint_open(pn_endpoint_open(x, Conn), Ssn(1)), {})
OpenPair ==
  LET c == Opened([pn_session(NewPeer("client")) EXCEPT !.ownSsn = 1])
      s == Opened(Take(NewPeer("server"), c.out))
  IN  [p \in Peers |-> IF p = "client" THEN Idle(Take(Idle(c), s.out)) ELSE Idle(s)]

Init ==
  /\ net = [p \in Peers |-> <<>>]
  /\ IF Established THEN e = OpenPair
     ELSE \E x \in {NewPeer("server")} \cup
                   (IF MayBindLate THEN {Unbound(NewPeer("server"))} ELSE {}) :
            e = [p \in Peers |-> IF p = "server" THEN x ELSE NewPeer(p)]

Next ==
  \E p \in Peers :
    Produce(p) \/ Consume(p) \/ pn_transport_bind(p) \/ Application(p)

Spec == Init /\ [][Next]_vars
FairSpec ==
  /\ Spec
  /\ \A p \in Peers : WF_vars(Produce(p)) /\ WF_vars(Consume(p))
                      /\ WF_vars(pn_transport_bind(p))

-----------------------------------------------------------------------------
(* Properties                                                              *)

LocalStates == {"UNINIT", "ACTIVE", "CLOSED"}

\* Every field has its type and the scratch fields are empty between steps.
TypeOK ==
  \A p \in Peers : LET x == e[p] IN
    /\ \A id \in Ids : x.ep[id].local \in LocalStates
                       /\ x.ep[id].remote \in LocalStates
                       /\ x.ep[id].refcount \in Nat
    /\ \A i \in Ssns : x.ssn[i].local_channel \in Channels \cup {-1, -2}
                       /\ x.ssn[i].remote_channel \in Channels \cup {-1, -2}
    /\ \A j \in Links : x.link[j].local_handle \in Handles \cup {-1, -2}
                        /\ x.link[j].remote_handle \in Handles \cup {-1, -2}
    /\ Range(x.transport_list) \subseteq Ids
    /\ x.out = <<>> /\ x.err = FALSE

\* Two proton engines whose applications respect the uses named by the constants
\* never find fault with each other's frames: no frame names a channel or handle
\* that its receiver does not know or refuses (every pn_do_error of the handlers),
\* and none follows CLOSE.
NoProtocolError ==
  \A p \in Peers :
    /\ ~e[p].error
    /\ \A k \in 1..Len(net[p]) : net[p][k].type = "CLOSE" => k = Len(net[p])

\* The engines agree on who talks to whom: when a session or link was matched with
\* an object of the peer, that object, once matched, was matched with this one, and
\* matched links are in matched sessions.  Numbers are reused, and a BEGIN is
\* answered by number, a link by name.
Paired ==
  \A p \in Peers : LET x == e[p]  y == e[Other(p)] IN
    /\ \A i \in 1..x.sessions : LET k == x.ssn[i].peer IN
         k # 0 => y.ssn[k].peer \in {0, i}
    /\ \A j \in 1..x.links : LET k == x.link[j].peer IN
         k # 0 => /\ y.link[k].peer \in {0, j}
                  /\ x.ssn[x.link[j].ssn].peer = y.link[k].ssn

Count(S) == Cardinality(S)

\* An endpoint's reference count is what holds it: the application until it frees
\* it, each table of numbers it is in, its children, a connection's transport.  So
\* the assertion in pn_ep_decref holds and FINAL comes once, when nothing is left.
RefcountExact ==
  \A p \in Peers : LET x == e[p]
                       Held(id) == IF x.ep[id].freed THEN 0 ELSE 1 IN
    /\ TypeOK
    /\ x.ep[Conn].refcount =
         Held(Conn) + (IF x.bound THEN 1 ELSE 0)
         + Count({i \in 1..x.sessions : ~x.ep[Ssn(i)].freed})
    /\ \A i \in 1..x.sessions :
         x.ep[Ssn(i)].refcount =
           Held(Ssn(i)) + Count({c \in Channels : x.local_channels[c] = i})
           + Count({c \in Channels : x.remote_channels[c] = i})
           + Count(LinksOf(x, i))
    /\ \A j \in 1..x.links : LET t == x.ssn[x.link[j].ssn] IN
         x.ep[Link(j)].refcount =
           Held(Link(j)) + Count({h \in Handles : t.local_handles[h] = j})
           + Count({h \in Handles : t.remote_handles[h] = j})

\* What the application opened or closed and the peer was not told yet is still on
\* the list of the transport: a teardown phase that takes an endpoint off the list
\* never forgets it.
NotForgotten ==
  \A p \in Peers : LET x == e[p]  Listed(id) == Contains(x.transport_list, id) IN
    x.bound /\ ~x.done_processing /\ ~x.close_sent =>
      /\ x.ep[Conn].local # "UNINIT" /\ ~x.open_sent => Listed(Conn)
      /\ x.ep[Conn].local = "CLOSED" => Listed(Conn)
      /\ \A i \in 1..x.sessions : LET s == x.ep[Ssn(i)]  c == x.ssn[i].local_channel IN
           /\ s.local # "UNINIT" /\ c = -1 => Listed(Ssn(i))
           /\ s.local = "CLOSED" /\ c >= 0 => Listed(Ssn(i))
      /\ \A j \in 1..x.links :
           LET l == x.link[j]
               c == x.ssn[l.ssn].local_channel
               local == x.ep[Link(j)].local
           IN  /\ local # "UNINIT" /\ l.local_handle = -1 /\ c # -2
                    => Listed(Link(j))
               /\ (local = "CLOSED" \/ l.detached) /\ l.local_handle >= 0 /\ c >= 0
                    => Listed(Link(j))

\* With links: their reference counts, and those of the sessions that hold them,
\* are exact too (pn_link_free, pni_unmap_local_handle), and a link's ATTACH or
\* DETACH that its session's phase of pni_process passes over is not forgotten.
LinksKept == RefcountExact /\ NotForgotten

\* DETACH or END goes out with deliveries still queued only when the peer is gone:
\* it detached, ended or closed, or the application freed the link.
DrainedBeforeLeaving ==
  [][\A p \in Peers, j \in Links : LET x == e[p]  y == e'[p]  i == x.link[j].ssn IN
       /\ j <= x.links /\ x.link[j].local_handle >= 0 /\ y.link[j].queued
       /\ x.ssn[i].local_channel >= 0
       /\ y.link[j].local_handle = -2 \/ y.ssn[i].local_channel = -2
       => \/ x.close_rcvd \/ x.link[j].remote_handle = -2
          \/ x.ssn[i].remote_channel = -2 \/ x.ep[Link(j)].freed]_vars

\* A connection closed by its application is closed at the peer in the end, if the
\* peer's application opens its own: CLOSE is withheld until OPEN came.  None of
\* the three is ever taken back, so that this holds from some point on for both.
CloseCompletes ==
  <>[](\A p \in Peers :
         e[p].ep[Conn].local = "CLOSED" /\ e[Other(p)].ep[Conn].local # "UNINIT"
           => e[Other(p)].close_rcvd)
=============================================================================

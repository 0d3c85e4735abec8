---------------------------- MODULE IdleTimeout -----------------------------
(***************************************************************************)
(* The idle timeouts of a transport, c/src/core/transport.c: pn_tick_amqp  *)
(* closes a connection whose peer has been silent for too long, and sends  *)
(* an empty frame before the peer can find this side silent.               *)
(*                                                                         *)
(* Of the byte counts only their difference from the value at the last     *)
(* tick matters: unseen_input says that bytes_input # last_bytes_input,    *)
(* and unseen_output is bytes_output - last_bytes_output with a frame      *)
(* counted as 1.  last_in and last_out, the times of the last input and    *)
(* output, are history (a peer counts from its open at the earliest).      *)
(***************************************************************************)
EXTENDS Integers

\* A new transport, at time n.
pn_transport(n) ==
  [local_idle_timeout |-> 0, remote_idle_timeout |-> 0,
   dead_remote_deadline |-> 0, keepalive_deadline |-> 0,
   unseen_input |-> FALSE, unseen_output |-> 0, output_buffer |-> 0,
   posted_idle_timeout |-> FALSE, close_sent |-> FALSE,
   last_in |-> n, last_out |-> n]

\* A deadline of 0 means that there is none.
pn_timestamp_min(a, b) ==
  IF a = 0 THEN b ELSE IF b = 0 \/ a < b THEN a ELSE b

\* Input: some frame, which is the peer's open if it has an idle timeout r.
\* (With 0 it has none, or has said so before.)
read_done(t, r, n) ==
  [t EXCEPT !.unseen_input = TRUE, !.last_in = n,
            !.remote_idle_timeout = IF r = 0 THEN @ ELSE r,
            !.last_out = IF r = 0 THEN @ ELSE n]

\* Output: all that is in the buffer.
write_done(t, n) ==
  IF t.output_buffer = 0 THEN t
  ELSE [t EXCEPT !.unseen_output = IF @ + t.output_buffer > 1 THEN 1
                                   ELSE @ + t.output_buffer,
                 !.output_buffer = 0, !.last_out = n]

\* Mutant: input since the last tick is not noticed.
DeadUnlessHeardAtTick(t, n) ==
  IF t.local_idle_timeout = 0 THEN t
  ELSE IF t.dead_remote_deadline = 0
  THEN [t EXCEPT !.dead_remote_deadline = n + t.local_idle_timeout,
                 !.unseen_input = FALSE]
  ELSE IF t.dead_remote_deadline <= n
  THEN [t EXCEPT !.dead_remote_deadline = n + t.local_idle_timeout,
                 !.posted_idle_timeout = TRUE]
  ELSE t

\* pn_tick_amqp, for the local idle timeout ...
check_remote(t, n) ==
  IF t.local_idle_timeout = 0 THEN t
  ELSE IF t.dead_remote_deadline = 0 \/ t.unseen_input
  THEN [t EXCEPT !.dead_remote_deadline = n + t.local_idle_timeout,
                 !.unseen_input = FALSE]
  ELSE IF t.dead_remote_deadline <= n
  THEN [t EXCEPT !.dead_remote_deadline = n + t.local_idle_timeout,
                 !.posted_idle_timeout = TRUE]
  ELSE t

\* Mutant: the whole of the peer's timeout passes between two empty frames.
LazyKeepalive(t, n) ==
  IF t.remote_idle_timeout = 0 \/ t.close_sent THEN t
  ELSE LET later == [t EXCEPT !.keepalive_deadline = n + t.remote_idle_timeout]
       IN  IF t.keepalive_deadline = 0 \/ t.unseen_output # 0
           THEN [later EXCEPT !.unseen_output = 0]
           ELSE IF t.keepalive_deadline > n THEN t
           ELSE IF t.output_buffer # 0 THEN later
           ELSE [later EXCEPT !.output_buffer = 1, !.unseen_output = -1]

\* ... and for the peer's.
keepalive(t, n) ==
  IF t.remote_idle_timeout = 0 \/ t.close_sent THEN t
  ELSE LET later == [t EXCEPT !.keepalive_deadline = n + t.remote_idle_timeout \div 2]
       IN  IF t.keepalive_deadline = 0 \/ t.unseen_output # 0
           THEN [later EXCEPT !.unseen_output = 0]
           ELSE IF t.keepalive_deadline > n THEN t
           ELSE IF t.output_buffer # 0 THEN later
           ELSE [later EXCEPT !.output_buffer = 1, !.unseen_output = -1]

pn_tick_amqp(t, n) == keepalive(check_remote(t, n), n)

\* What pn_tick_amqp returns: when it is to be called again.
next_tick(t) ==
  pn_timestamp_min(IF t.local_idle_timeout = 0 THEN 0 ELSE t.dead_remote_deadline,
                   IF t.remote_idle_timeout = 0 \/ t.close_sent THEN 0
                   ELSE t.keepalive_deadline)
=============================================================================

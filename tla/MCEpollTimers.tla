--------------------------- MODULE MCEpollTimers ----------------------------
(* EpollTimers with one or two connections. *)
EXTENDS EpollTimers
=============================================================================

-------------------------- MODULE MCEpollScheduler --------------------------
(* EpollScheduler with a few tasks and threads. *)
EXTENDS EpollScheduler
=============================================================================

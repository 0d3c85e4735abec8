---------------------------- MODULE MCEpollTasks ----------------------------
(* EpollTasks, for TLC. *)
EXTENDS EpollTasks

=============================================================================

------------------------ MODULE MCEpollRawConnection ------------------------
(* EpollRawConnection with one or two buffer slots. *)
EXTENDS EpollRawConnection
=============================================================================

-------------------------- MODULE MCRawConnection --------------------------
(* RawConnection with a few buffer slots. *)
EXTENDS RawConnection
=============================================================================

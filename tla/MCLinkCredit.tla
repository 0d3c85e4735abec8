---------------------------- MODULE MCLinkCredit ----------------------------
(***************************************************************************)
(* Small instances of LinkCredit for TLC.                                  *)
(***************************************************************************)
EXTENDS LinkCredit

=============================================================================

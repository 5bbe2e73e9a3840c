--------------------------- MODULE MCUserAccount ---------------------------
(***************************************************************************)
(* A small instance of UserAccount for TLC: one address and two requests   *)
(* at a time.                                                              *)
(***************************************************************************)
EXTENDS UserAccount

CONSTANTS u1, q1, q2

=============================================================================

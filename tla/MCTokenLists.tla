---------------------------- MODULE MCTokenLists ----------------------------
(***************************************************************************)
(* An instance of TokenLists for TLC: every list of up to MaxLength        *)
(* entries over three tokens, added to and subtracted from every normal    *)
(* list.  A method that has returned stops.                                *)
(***************************************************************************)
EXTENDS TokenLists

Three == 1 .. 3
=============================================================================

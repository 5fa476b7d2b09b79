------------------------------ MODULE MCPayouts ------------------------------
(***************************************************************************)
(* A small instance of Payouts: the two lenders of MCClearbook, whose      *)
(* ledger and signatures it shares.  The watcher is PROTOCOL_SINK as well, *)
(* so its code may run twice in one challenge; the rival accepts no money. *)
(***************************************************************************)
EXTENDS Payouts, MCClearbook
=============================================================================

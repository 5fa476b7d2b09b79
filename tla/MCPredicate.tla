----------------------------- MODULE MCPredicate -----------------------------
(***************************************************************************)
(* The challenge console beside one lender and one loan: every fact of     *)
(* OneLedger is cited against it in every state.                           *)
(***************************************************************************)
EXTENDS MCClearbook, Predicate
=============================================================================

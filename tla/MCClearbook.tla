----------------------------- MODULE MCClearbook -----------------------------
(***************************************************************************)
(* Small instances of Clearbook.                                           *)
(***************************************************************************)
EXTENDS ClearbookSafety, TLC

CONSTANTS
    Lender, Rival, Watcher,         \* accounts
    T, U, B, P,                     \* addresses: two treasuries, a borrower, a payer
    Usd, Eur,                       \* tokens
    d, x, r, q, late, far,          \* transfers
    u, v

Of(chain, height, token, from, to, amount) ==
    [ chainKey |-> chain, blockHeight |-> height, token |-> token,
      from |-> from, to |-> to, amount |-> amount ]

(***************************************************************************)
(* One lender with treasury T.  d lends 2 to B and x lends 2 to the payer  *)
(* P; r repays 2 from P one block after x, so that x funds r when r is     *)
(* claimed for d; q repays 2 from B, so that d funds q when q is claimed   *)
(* for x; late comes after r; far is on another chain.                     *)
(***************************************************************************)
OneLedger ==
    ( d :> Of(1, 1, Usd, T, B, 2) @@
      x :> Of(1, 2, Usd, T, P, 2) @@
      q :> Of(1, 2, Usd, B, T, 2) @@
      r :> Of(1, 3, Usd, P, T, 2) @@
      late :> Of(1, 4, Usd, T, P, 2) @@
      far :> Of(2, 3, Usd, T, P, 2) )

OneSignatures == {<<1, T, 0>>}

OneTerms ==
    { [token |-> Usd, borrower |-> B, principal |-> 2, maturityBlock |-> 2],
      [token |-> Usd, borrower |-> P, principal |-> 2, maturityBlock |-> 4] }

(***************************************************************************)
(* Two lenders, with treasuries T and U that both sign for either of them, *)
(* twice.  u lends to P from U, and v is a repayment too small for d.      *)
(***************************************************************************)
TwoLedger ==
    ( d :> Of(1, 1, Usd, T, P, 2) @@
      r :> Of(1, 2, Usd, P, T, 2) @@
      u :> Of(1, 2, Usd, U, P, 2) @@
      v :> Of(1, 3, Usd, P, U, 1) )

TwoSignatures == {1, 2} \X {T, U} \X {0, 1}

TwoTerms ==
    { [token |-> Usd, borrower |-> P, principal |-> 2, maturityBlock |-> 3],
      [token |-> Usd, borrower |-> P, principal |-> 1, maturityBlock |-> 3],
      [token |-> Eur, borrower |-> P, principal |-> 2, maturityBlock |-> 3] }
=============================================================================

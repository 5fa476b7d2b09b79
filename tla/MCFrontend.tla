----------------------------- MODULE MCFrontend -----------------------------
(***************************************************************************)
(* A small instance of Frontend.  The lender and the rival are registered, *)
(* nobody has bound a treasury or registered a loan, and the vault holds u *)
(* and r.  Both hold a signature for T, of which one can be used; the      *)
(* rival holds one for U, and the lender one for U's next nonce, of which  *)
(* none can be used again.  d is the pinned fact, a transfer from T to B;  *)
(* x one from T to P in the other token; u one from U to P; r a repayment  *)
(* from P to T, which u funds.  One transaction carries d alone, one d and *)
(* u, one nothing, and what is pasted may be no hash.  The console opens   *)
(* on a later book: the rival's loan on d claims r, and u is not in the    *)
(* vault nor U bound.                                                      *)
(***************************************************************************)
EXTENDS Frontend, TLC

CONSTANTS Lender, Rival, T, U, B, P, Usd, Eur, d, x, r, u, One, Both, Empty, Junk,
          Here, There

Of(height, token, from, to) ==
    [ chainKey |-> 1, blockHeight |-> height, token |-> token,
      from |-> from, to |-> to, amount |-> 2 ]

BookLedger ==
    d :> Of(2, Usd, T, B) @@ x :> Of(1, Eur, T, P) @@
    u :> Of(2, Usd, U, P) @@ r :> Of(3, Usd, P, T)

BookSignatures == {<<1, T, 0>>, <<2, T, 0>>, <<2, U, 0>>, <<1, U, 1>>}

Loan2(token, borrower) ==
    [ token |-> token, borrower |-> borrower, principal |-> 2, maturityBlock |-> 9 ]

Pinned == Loan2(Usd, B)

BookTerms == {Pinned, Loan2(Eur, P), Loan2(Usd, P)}

Legs == One :> {d} @@ Both :> {d, u} @@ Empty :> {}

Registered(sender) ==
    [ owner |-> sender, bond |-> 6, exposure |-> 0, circularWindow |-> 1,
      challengeWindow |-> 1, lastClaimBlock |-> 0, active |-> TRUE ]

\* Both originators are registered; nothing else has happened.
Opened ==
    /\ number = DeployBlock
    /\ stored = {u, r}
    /\ originators = [o \in 0..2 |-> CASE o = 1 -> Registered(Lender)
                                       [] o = 2 -> Registered(Rival)
                                       [] OTHER -> NoOriginator]
    /\ nextOriginatorId = 3
    /\ loans = [l \in LoanIds |-> NoLoan]
    /\ nextLoanId = 1
    /\ treasuryOwner = [a \in Addresses |-> 0]
    /\ bindingNonce = [a \in Addresses |-> 0]
    /\ factConsumedBy = [f \in FactIds |-> 0]
    /\ balance = 12
    /\ paidBounties = 0
    /\ paidSink = 0

SymmetricCallers == Permutations(Callers)

\* The rival's two loans, one of them claimed.
ClaimMade ==
    /\ number = DeployBlock
    /\ stored = {d, x, r}
    /\ originators = [o \in 0..2 |->
           CASE o = 1 -> Registered(Lender)
             [] o = 2 -> [Registered(Rival) EXCEPT !.exposure = 6, !.lastClaimBlock = 1]
             [] OTHER -> NoOriginator]
    /\ nextOriginatorId = 3
    /\ loans = 1 :> [NewLoan(2, Pinned, d) EXCEPT !.repaymentFactId = r, !.claimBlock = 1,
                                                  !.status = "REPAYMENT_CLAIMED"]
            @@ 2 :> NewLoan(2, Loan2(Eur, P), x)
    /\ nextLoanId = 3
    /\ treasuryOwner = [a \in Addresses |-> IF a = T THEN 2 ELSE 0]
    /\ bindingNonce = [a \in Addresses |-> IF a = T THEN 1 ELSE 0]
    /\ factConsumedBy = d :> 1 @@ r :> 1 @@ x :> 2 @@ u :> 0
    /\ balance = 12
    /\ paidBounties = 0
    /\ paidSink = 0

OpenedInit ==
    /\ visitor \in Parts
    /\ IF visitor = "console" THEN ClaimMade ELSE Opened
    /\ boundAt = [a \in Addresses |-> 0]
    /\ SurfacesInit

OpenedSpec == OpenedInit /\ [][FrontendNext]_frontendVars
=============================================================================

----------------------------- MODULE MCChallenger -----------------------------
(***************************************************************************)
(* A small instance of Challenger.  The book is already open: the lender   *)
(* has bound T and registered a loan to B on d and one to P on x, with a   *)
(* bond of six, and claims r, a repayment from P, for one of them.  x and  *)
(* y fund r when that is the first loan; y alone, with the shape of honest *)
(* re-lending, when it is the second, and then the challenger is strict.   *)
(* q repays from B and may be claimed for the other loan; d funds it when  *)
(* that is the second.  y comes from U, which may be bound at any time.    *)
(***************************************************************************)
EXTENDS Challenger, TLC

CONSTANTS Lender, Watcher, T, U, B, P, Usd, d, x, r, q, y

Of(height, from, to) ==
    [ chainKey |-> 1, blockHeight |-> height, token |-> Usd,
      from |-> from, to |-> to, amount |-> 2 ]

BookLedger ==
    d :> Of(1, T, B) @@ x :> Of(2, T, P) @@ y :> Of(2, U, P) @@
    q :> Of(2, B, T) @@ r :> Of(3, P, T)

BookSignatures == {<<1, U, 0>>}

NoTerms == {}

LoanTo(borrower, f) ==
    NewLoan(1, [token |-> Usd, borrower |-> borrower, principal |-> 2,
                maturityBlock |-> 3], f)

ClaimedBy(loan) ==
    [loan EXCEPT !.repaymentFactId = r, !.claimBlock = DeployBlock,
                 !.status = "REPAYMENT_CLAIMED"]

\* l is the loan that claims r.
OpenBook(l) ==
    /\ number = DeployBlock
    /\ stored = FactIds \ {y}
    /\ storedAt = [f \in FactIds |-> IF f = y THEN 0 ELSE DeployBlock]
    /\ originators = [o \in 0..1 |-> IF o = 0 THEN NoOriginator ELSE
           [ owner |-> Lender, bond |-> 6, exposure |-> 6, circularWindow |-> 1,
             challengeWindow |-> 1, lastClaimBlock |-> DeployBlock, active |-> TRUE ]]
    /\ nextOriginatorId = 2
    /\ loans = [(1 :> LoanTo(B, d) @@ 2 :> LoanTo(P, x)) EXCEPT ![l] = ClaimedBy(@)]
    /\ nextLoanId = 3
    /\ treasuryOwner = [a \in Addresses |-> IF a = T THEN 1 ELSE 0]
    /\ bindingNonce = [a \in Addresses |-> IF a = T THEN 1 ELSE 0]
    /\ factConsumedBy = [f \in FactIds |->
           CASE f = d -> 1 [] f = x -> 2 [] f = r -> l [] OTHER -> 0]
    /\ balance = 6
    /\ paidBounties = 0
    /\ paidSink = 0

OpenBookInit ==
    /\ ProcessInit
    /\ OpenBook(IF strict THEN 2 ELSE 1)

OpenBookSpec ==
    OpenBookInit /\ [][ChallengerNext]_challengerVars /\ ChallengerFairness
=============================================================================

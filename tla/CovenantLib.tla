----------------------------- MODULE CovenantLib -----------------------------
(***************************************************************************)
(* contracts/src/libraries/CovenantLib.sol: conditions 3 to 9 of the       *)
(* CIRCULAR_REPAYMENT covenant, over the funding and the repayment fact,   *)
(* the originator that bound funding.from (0 when none did), the loan's    *)
(* originator and the window it published.  A fact is a record with the    *)
(* fields chainKey, blockHeight, token, from, to and amount.               *)
(***************************************************************************)
EXTENDS Integers

SameChain(funding, repayment) == funding.chainKey = repayment.chainKey

SameToken(funding, repayment) == funding.token = repayment.token

SamePayer(funding, repayment) == funding.to = repayment.from

FromBoundTreasury(fundingOriginator, loanOriginator) ==
    fundingOriginator = loanOriginator

CoversRepayment(funding, repayment) == funding.amount >= repayment.amount

FundingBefore(funding, repayment) ==
    funding.blockHeight <= repayment.blockHeight

WithinWindow(funding, repayment, window) ==
    repayment.blockHeight - funding.blockHeight <= window

\* A bug: the ordering check is gone and only the distance is bounded.
BreachInEitherOrder(funding, repayment, fundingOriginator, loanOriginator, window) ==
    /\ SameChain(funding, repayment)
    /\ SameToken(funding, repayment)
    /\ SamePayer(funding, repayment)
    /\ FromBoundTreasury(fundingOriginator, loanOriginator)
    /\ CoversRepayment(funding, repayment)
    /\ WithinWindow(funding, repayment, window)

requireCircularRepaymentBreach(funding, repayment, fundingOriginator, loanOriginator, window) ==
    /\ SameChain(funding, repayment)
    /\ SameToken(funding, repayment)
    /\ SamePayer(funding, repayment)
    /\ FromBoundTreasury(fundingOriginator, loanOriginator)
    /\ CoversRepayment(funding, repayment)
    /\ FundingBefore(funding, repayment)
    /\ WithinWindow(funding, repayment, window)
=============================================================================

------------------------------ MODULE Predicate ------------------------------
(***************************************************************************)
(* frontend/lib/predicate.ts: the challenge console evaluates the eleven   *)
(* conditions of a challenge before a wallet opens.  dryRun judges what    *)
(* the page has read, applyTreasuryBinding resolves condition 6 with one   *)
(* more read.  A fact the vault does not hold reads as null, and what      *)
(* cannot be judged is unknown.  The contract is module Clearbook.         *)
(***************************************************************************)
EXTENDS ClearbookSafety

Verdict(known, holds) ==
    IF ~known THEN "unknown" ELSE IF holds THEN "pass" ELSE "fail"

VerdictStrictWindow(l) ==
    Verdict(loans[l].claimBlock # 0, number < WindowEnd(l))

WindowVerdict(l) == Verdict(loans[l].claimBlock # 0, number <= WindowEnd(l))

\* applyTreasuryBinding: an unbound treasury is originator 0, never a match.
BindingVerdict(l, f) ==
    LET fundingFromOriginatorId == treasuryOwner[Ledger[f].from]
    IN  Verdict(f \in stored, /\ fundingFromOriginatorId = loans[l].originatorId
                              /\ fundingFromOriginatorId # 0)

\* The conditions, by the number the page shows them under.
dryRun(l, f) ==
    LET loan == loans[l]
        funding == Ledger[f]
        repayment == Ledger[loan.repaymentFactId]
        both == {f, loan.repaymentFactId} \subseteq stored
        window == originators[loan.originatorId].circularWindow
    IN  << Verdict(TRUE, loan.status = "REPAYMENT_CLAIMED"),
           WindowVerdict(l),
           Verdict(both, SameChain(funding, repayment)),
           Verdict(both, SameToken(funding, repayment)),
           Verdict(both, SamePayer(funding, repayment)),
           BindingVerdict(l, f),
           Verdict(both, CoversRepayment(funding, repayment)),
           Verdict(both, FundingBefore(funding, repayment)),
           Verdict(both /\ FundingBefore(funding, repayment),
                   WithinWindow(funding, repayment, window)),
           Verdict(TRUE, f # loan.repaymentFactId),
           Verdict(TRUE, f # loan.disbursementFactId) >>

Conditions == 1..11

errorName ==
    << "WrongStatus", "WindowClosed", "ChainMismatch", "TokenMismatch",
       "NotTheSamePayer", "FundingNotFromBoundTreasury", "FundingBelowRepayment",
       "FundingNotBefore", "OutsideWindow", "SameFact", "DisbursementNotFunding" >>

wouldSucceed(l, f) ==
    LET conditions == dryRun(l, f) IN \A n \in Conditions : conditions[n] = "pass"

\* The conditions are sorted by number before the first failing one is taken.
firstFailure(l, f) ==
    LET conditions == dryRun(l, f)
        failed == {n \in Conditions : conditions[n] = "fail"}
    IN  IF failed = {} THEN "none" ELSE errorName[Min(failed)]

projectBounty == (BOND_PER_LOAN * BOUNTY_BPS) \div 10000

-----------------------------------------------------------------------------
(* What challenge() reverts with: its checks in the order the code makes   *)
(* them, "none" when all of them pass.                                     *)

covenantRevert(funding, repayment, fundingOriginator, o, window) ==
    IF ~SameChain(funding, repayment) THEN "ChainMismatch"
    ELSE IF ~SameToken(funding, repayment) THEN "TokenMismatch"
    ELSE IF ~SamePayer(funding, repayment) THEN "NotTheSamePayer"
    ELSE IF ~FromBoundTreasury(fundingOriginator, o) THEN "FundingNotFromBoundTreasury"
    ELSE IF ~CoversRepayment(funding, repayment) THEN "FundingBelowRepayment"
    ELSE IF ~FundingBefore(funding, repayment) THEN "FundingNotBefore"
    ELSE IF ~WithinWindow(funding, repayment, window) THEN "OutsideWindow"
    ELSE "none"

challengeRevert(l, f) ==
    LET loan == loans[l]
        o == loan.originatorId
    IN  IF loan.status # "REPAYMENT_CLAIMED" THEN "WrongStatus"
        ELSE IF number > WindowEnd(l) THEN "WindowClosed"
        ELSE IF f = loan.repaymentFactId THEN "SameFact"
        ELSE IF f = loan.disbursementFactId THEN "DisbursementNotFunding"
        ELSE IF f \notin stored THEN "UnknownFact"
        ELSE covenantRevert(Ledger[f], Ledger[loan.repaymentFactId],
                treasuryOwner[Ledger[f].from], o, originators[o].circularWindow)

-----------------------------------------------------------------------------
(***************************************************************************)
(* predicate.ts:8-12: the preview is never wrong about the outcome.  Read  *)
(* from one block, all eleven conditions pass exactly when the contract    *)
(* finds a breach, in every state of a loan and for every fact cited,      *)
(* stored or not: an unknown condition hides no breach.                    *)
(***************************************************************************)
MirrorAgrees ==
    \A l \in LoanIds, f \in FactIds :
        /\ wouldSucceed(l, f) <=> Challengeable(l, f)
        /\ wouldSucceed(l, f) <=> challengeRevert(l, f) = "none"

(***************************************************************************)
(* predicate.ts:48: the payout the page promises, a constant, is what the  *)
(* contract would pay, which caps the slash at the bond that is left.      *)
(***************************************************************************)
ProjectionIsPaid ==
    \A l \in LoanIds, f \in FactIds :
        wouldSucceed(l, f) => projectBounty = Bounty(Slash(loans[l].originatorId))

(***************************************************************************)
(* A challenger may give up on a fact for good when the evidence itself    *)
(* fails: no later step turns such a verdict on a claimed loan.  (Condition *)
(* 6 is not among them: a treasury may still be bound.)                    *)
(***************************************************************************)
EvidenceVerdictIsFinal ==
    [][\A l \in LoanIds, f \in FactIds :
          loans[l].status = "REPAYMENT_CLAIMED" =>
            LET before == dryRun(l, f)
                after == dryRun(l, f)'
            IN  \A n \in Conditions \ {1, 2, 6} :
                    before[n] = "fail" => after[n] = "fail"]_vars

(***************************************************************************)
(* predicate.ts:46: "The first failing condition, which is what the        *)
(* contract would revert with."                                            *)
(***************************************************************************)
FirstFailureIsTheRevert ==
    \A l \in LoanIds, f \in FactIds :
        firstFailure(l, f) # "none" => firstFailure(l, f) = challengeRevert(l, f)
=============================================================================

---------------------------- MODULE VerdictProofs -----------------------------
(***************************************************************************)
(* What a verdict is worth, for every value of the constants: who can reach *)
(* it and when, that it can be recomputed, that nobody defuses it, that it  *)
(* is paid once and in full, and that no bond escapes before it.            *)
(*                                                                         *)
(* To Core and Evidence comes Standing: the originator of a loan is active, *)
(* and no claim is newer than the block its cooldown is counted from.       *)
(***************************************************************************)
EXTENDS EvidenceProofs, Predicate

Standing ==
    /\ \A o \in OriginatorIds : originators[o].lastClaimBlock <= number
    /\ \A l \in LoanIds : loans[l].status # "NONE" =>
          originators[loans[l].originatorId].active
    /\ \A l \in LoanIds : loans[l].status # "NONE" /\ loans[l].repaymentFactId # Zero =>
          loans[l].claimBlock <= originators[loans[l].originatorId].lastClaimBlock

\* A breach with the fact that condemned it.
Condemned(l, f) ==
    LET funding == Ledger[f]
        repayment == Ledger[loans[l].repaymentFactId]
        o == loans[l].originatorId
    IN  /\ treasuryOwner[funding.from] = o
        /\ funding.to = repayment.from
        /\ funding.token = repayment.token
        /\ funding.chainKey = repayment.chainKey
        /\ funding.amount >= repayment.amount
        /\ funding.blockHeight <= repayment.blockHeight
        /\ repayment.blockHeight <= funding.blockHeight + originators[o].circularWindow

-----------------------------------------------------------------------------
LEMMA OriginatorsTyped ==
    ASSUME Core
    PROVE  /\ originators \in [0..MaxOriginators -> Originator]
           /\ \A o \in OriginatorIds : o \in 0..MaxOriginators /\ o # 0
           /\ \A o \in OriginatorIds : originators[o] \in Originator
           /\ number \in Nat
BY InputAssumption DEF Core, TypeOK, OriginatorIds

\* The block a cooldown is counted from stays or becomes the present one.
LEMMA LastClaimStep ==
    ASSUME Core, [Next]_vars, NEW o \in OriginatorIds
    PROVE  originators'[o].lastClaimBlock \in {originators[o].lastClaimBlock, number}
<1>0. \A l \in LoanIds : loans[l].originatorId \in 0..MaxOriginators
  BY LoansTyped DEF Loan
<1>1. CASE UNCHANGED originators
  BY <1>1
<1>2. CASE \E sender \in Accounts, value \in Values, cw \in CircularWindows,
              w \in ChallengeWindows, covenants \in 0..3 :
                registerOriginator(sender, value, cw, w, covenants)
  <2>1. nextOriginatorId \in 0..MaxOriginators /\ originators[nextOriginatorId] = NoOriginator
    BY <1>2, InputAssumption DEF registerOriginator, Core, TypeOK, Slots
  <2>2. /\ \A p \in 0..MaxOriginators : p # nextOriginatorId => originators'[p] = originators[p]
        /\ originators'[nextOriginatorId].lastClaimBlock = 0
    BY <2>1, OriginatorsTyped, <1>2 DEF registerOriginator
  <2>3. QED
    BY OriginatorsTyped, <2>1, <2>2 DEF NoOriginator
<1>3. CASE \E p \in OriginatorIds, value \in Values : topUpBond(p, value)
  BY OriginatorsTyped, <1>3 DEF topUpBond, Originator
<1>4. CASE \E sender \in Accounts, p \in OriginatorIds, amount \in Values :
              withdrawBond(sender, p, amount)
  BY OriginatorsTyped, <1>4 DEF withdrawBond, Originator
<1>5. CASE \E sender \in Accounts, p \in OriginatorIds, terms \in LoanTerms, f \in FactIds :
              registerLoan(sender, p, terms, f)
  BY OriginatorsTyped, <1>5 DEF registerLoan, Originator
<1>6. CASE \E sender \in Accounts, l \in LoanIds, f \in FactIds :
              claimRepayment(sender, l, f)
  BY OriginatorsTyped, <1>0, <1>6 DEF claimRepayment, Originator
<1>7. CASE \E l \in LoanIds : finalize(l)
  BY OriginatorsTyped, <1>0, <1>7 DEF finalize, Released, Originator
<1>8. CASE \E sender \in Accounts, l \in LoanIds, f \in FactIds : challenge(sender, l, f)
  BY OriginatorsTyped, <1>0, <1>8 DEF challenge, Originator
<1>9. CASE \/ UNCHANGED vars
           \/ Tick
           \/ \E f \in FactIds : StoreFact(f)
           \/ \E sender \in Accounts, p \in OriginatorIds, a \in Addresses :
                 bindTreasury(sender, p, a)
           \/ \E l \in LoanIds : markDelinquent(l)
  <2>1. UNCHANGED originators
    BY <1>9 DEF vars, books, Tick, StoreFact, bindTreasury, markDelinquent
  <2>2. QED
    BY <1>1, <2>1
<1>10. QED
  BY <1>2, <1>3, <1>4, <1>5, <1>6, <1>7, <1>8, <1>9 DEF Next

LEMMA StandingInit == Init => Standing
<1> SUFFICES ASSUME Init PROVE Standing
  OBVIOUS
<1>1. \A o \in OriginatorIds : originators[o].lastClaimBlock = 0
  BY InputAssumption DEF Init, NoOriginator, OriginatorIds
<1>2. \A l \in LoanIds : loans[l].status = "NONE"
  BY DEF Init, NoLoan
<1>3. number \in Nat
  BY ParameterAssumption DEF Init
<1>4. QED
  BY <1>1, <1>2, <1>3 DEF Standing

LEMMA StandingNext == Core /\ Evidence /\ Standing /\ [Next]_vars => Standing'
<1> SUFFICES ASSUME Core, Evidence, Standing, [Next]_vars PROVE Standing'
  OBVIOUS
<1>1. LoanBookStep /\ Kept
  BY StepsOf
<1>2. \A o \in OriginatorIds :
         /\ originators[o].lastClaimBlock \in Nat
         /\ originators[o].lastClaimBlock <= originators'[o].lastClaimBlock
         /\ originators'[o].lastClaimBlock <= number
  BY OriginatorsTyped, LastClaimStep DEF Standing, Originator
<1>3. \A o \in OriginatorIds : originators'[o].lastClaimBlock <= number'
  <2>1. \A o \in OriginatorIds : originators'[o].lastClaimBlock \in Nat
    BY <1>2, LastClaimStep, OriginatorsTyped
  <2>2. QED
    BY <1>1, <1>2, <2>1, OriginatorsTyped DEF Kept
<1> DEFINE Stands(m) ==
      loans[m].status # "NONE" =>
        /\ originators[loans[m].originatorId].active
        /\ loans[m].repaymentFactId # Zero =>
             loans[m].claimBlock <= originators[loans[m].originatorId].lastClaimBlock
<1>4. \A m \in LoanIds : Stands(m)
  BY DEF Standing
<1>5. \A o \in OriginatorIds : originators[o].active => originators'[o].active
  BY PublishedStep DEF PublishedKept
<1>6. ASSUME NEW m \in LoanIds, loans[m].status # "NONE",
             loans'[m].originatorId = loans[m].originatorId,
             loans'[m].repaymentFactId = loans[m].repaymentFactId,
             loans'[m].claimBlock = loans[m].claimBlock
      PROVE  Stands(m)'
  <2>1. loans[m].originatorId \in OriginatorIds /\ loans[m].claimBlock \in Nat
    BY <1>6, LoanOriginator, LoansTyped DEF Loan
  <2>2. originators'[loans[m].originatorId].lastClaimBlock \in Nat
    BY <2>1, <1>2, LastClaimStep, OriginatorsTyped
  <2>3. QED
    BY <1>2, <1>4, <1>5, <1>6, <2>1, <2>2
<1>7. ASSUME NEW m \in LoanIds, loans'[m] = loans[m] PROVE Stands(m)'
  BY <1>6, <1>7
<1>8. ASSUME NEW l \in LoanIds, Moves(l) PROVE \A m \in LoanIds : Stands(m)'
  <2>1. \A m \in LoanIds : m # l => loans'[m] = loans[m]
    BY <1>8, MovesWrites
  <2>2. loans[l].status # "NONE"
    BY <1>8, MovesWrites
  <2>3. Stands(l)'
    BY <1>6, <1>8, <2>2, MovesKeeps
  <2>4. QED
    BY <1>7, <2>1, <2>3
<1>9. ASSUME NEW l \in LoanIds, NEW o \in OriginatorIds, NEW terms \in LoanTerms,
             NEW f \in FactIds, Opens(l, o, terms, f)
      PROVE  \A m \in LoanIds : Stands(m)'
  <2>1. originators[o].active
    BY <1>9 DEF Opens
  <2>2. loans'[l].originatorId = o /\ loans'[l].repaymentFactId = Zero
    BY <1>9, OpensWrites
  <2>3. Stands(l)'
    BY <1>5, <2>1, <2>2
  <2>4. \A m \in LoanIds : m # l => loans'[m] = loans[m]
    BY <1>9, OpensWrites
  <2>5. QED
    BY <1>7, <2>3, <2>4
<1>10. ASSUME NEW l \in LoanIds, NEW f \in FactIds, Claims(l, f)
      PROVE  \A m \in LoanIds : Stands(m)'
  <2>1. loans[l].status # "NONE"
    BY <1>10 DEF Claims, ClaimableStatus
  <2>2. loans[l].originatorId \in OriginatorIds
    BY <2>1, LoanOriginator
  <2>3. /\ loans'[l].originatorId = loans[l].originatorId
        /\ loans'[l].claimBlock = number
    BY <1>10, ClaimsWrites
  <2>4. originators'[loans[l].originatorId].lastClaimBlock = number
    BY <1>10 DEF Claims
  <2>5. originators'[loans[l].originatorId].active
    BY <1>4, <1>5, <2>1, <2>2
  <2>6. Stands(l)'
    BY <2>3, <2>4, <2>5, OriginatorsTyped
  <2>7. \A m \in LoanIds : m # l => loans'[m] = loans[m]
    BY <1>10, ClaimsWrites
  <2>8. QED
    BY <1>7, <2>6, <2>7
<1>11. \A m \in LoanIds : Stands(m)'
  BY <1>1, <1>7, <1>8, <1>9, <1>10 DEF LoanBookStep
<1>12. QED
  BY <1>3, <1>11 DEF Standing

LEMMA StandingHolds == Spec => []Standing
<1>1. QED
  BY StandingInit, StandingNext, CoreHolds, EvidenceHolds, PTL DEF Spec

-----------------------------------------------------------------------------
(* The two ends of a claim.                                                *)

LEMMA WindowTyped ==
    ASSUME Core, NEW l \in LoanIds, loans[l].status # "NONE"
    PROVE  WindowEnd(l) \in Nat
<1>1. loans[l].originatorId \in OriginatorIds /\ loans[l].claimBlock \in Nat
  BY LoanOriginator, LoansTyped DEF Loan
<1>2. QED
  BY <1>1, OriginatorsTyped DEF WindowEnd, Originator

\* A claim the covenant condemns can be challenged in each block in which it cannot be
\* finalized and in no other: challenge's "<=" and finalize's ">" leave no gap.
THEOREM VerdictsExclude == Spec => []VerdictIsUnambiguous
<1>1. Core => VerdictIsUnambiguous
  <2> SUFFICES ASSUME Core, NEW l \in LoanIds, NEW f \in FactIds, Condemns(l, f)
               PROVE  Challengeable(l, f) <=> ~Finalizable(l)
    BY DEF VerdictIsUnambiguous
  <2>1. loans[l].status = "REPAYMENT_CLAIMED" /\ f \in stored /\ Covenant(l, f)
    BY DEF Condemns
  <2>2. f # loans[l].repaymentFactId /\ f # loans[l].disbursementFactId
    BY LoansTyped DEF Condemns, Cited
  <2>3. number \in Nat /\ WindowEnd(l) \in Nat
    BY <2>1, WindowTyped, OriginatorsTyped
  <2>4. QED
    BY <2>1, <2>2, <2>3 DEF Challengeable, Finalizable
<1>2. QED
  BY <1>1, CoreHolds, PTL

-----------------------------------------------------------------------------
(* A breach stays recomputable.                                            *)

\* What the contract compares is what a reader of the chain can compare.
LEMMA CovenantCondemns ==
    ASSUME Core, Evidence, NEW l \in LoanIds, NEW f \in FactIds, Challengeable(l, f)
    PROVE  Condemned(l, f) /\ f \in stored \ Cited(l)
<1>1. loans[l].originatorId \in OriginatorIds
  BY LoanOriginator DEF Challengeable
<1>2. originators[loans[l].originatorId].circularWindow \in Nat
  BY <1>1, OriginatorsTyped DEF Originator
<1>3. loans[l].repaymentFactId \in FactIds
  BY LoansTyped DEF Challengeable, Evidence, ClaimedNamesRepayment, ClaimableStatus, Loan
<1>4. Ledger[f].blockHeight \in Nat /\ Ledger[loans[l].repaymentFactId].blockHeight \in Nat
  BY <1>3, LedgerAssumption DEF Transfer
<1>5. Covenant(l, f) /\ f \in stored /\ f \notin Cited(l)
  BY DEF Challengeable, Cited
<1>6. QED
  BY <1>2, <1>4, <1>5
  DEF Covenant, requireCircularRepaymentBreach, SameChain, SameToken, SamePayer,
      FromBoundTreasury, CoversRepayment, FundingBefore, WithinWindow, Condemned

\* The parts of a state a verdict reads are never rewritten.
LEMMA JudgementKept ==
    ASSUME Core, Standing, Kept, \A o \in OriginatorIds : PublishedKept(o),
           NEW l \in LoanIds, loans[l].status # "NONE",
           loans'[l].originatorId = loans[l].originatorId
    PROVE  /\ loans[l].originatorId \in OriginatorIds
           /\ originators'[loans[l].originatorId].circularWindow
                = originators[loans[l].originatorId].circularWindow
           /\ originators'[loans[l].originatorId].challengeWindow
                = originators[loans[l].originatorId].challengeWindow
           /\ \A f \in stored :
                treasuryOwner[Ledger[f].from] = loans[l].originatorId =>
                    treasuryOwner'[Ledger[f].from] = loans[l].originatorId
<1>1. loans[l].originatorId \in OriginatorIds
  BY LoanOriginator
<1>2. originators[loans[l].originatorId].active
  BY DEF Standing
<1>3. /\ originators'[loans[l].originatorId].circularWindow
           = originators[loans[l].originatorId].circularWindow
      /\ originators'[loans[l].originatorId].challengeWindow
           = originators[loans[l].originatorId].challengeWindow
  BY <1>1, <1>2 DEF PublishedKept, Published
<1>4. QED
  BY <1>1, <1>3, TransferKept

LEMMA CondemnedKept ==
    ASSUME Core, Standing, Kept, \A o \in OriginatorIds : PublishedKept(o),
           NEW l \in LoanIds, loans[l].status # "NONE",
           loans'[l].originatorId = loans[l].originatorId,
           loans'[l].disbursementFactId = loans[l].disbursementFactId,
           loans'[l].repaymentFactId = loans[l].repaymentFactId,
           NEW f \in stored \ Cited(l), Condemned(l, f)
    PROVE  Condemned(l, f)' /\ f \in (stored \ Cited(l))'
<1>1. Cited(l)' = Cited(l)
  BY DEF Cited
<1>2. f \in (stored \ Cited(l))'
  BY <1>1 DEF Kept
<1>3. Condemned(l, f)'
  BY JudgementKept DEF Condemned
<1>4. QED
  BY <1>2, <1>3

LEMMA RecomputableNext ==
    ASSUME Core, Evidence, Standing, BreachIsRecomputable, [Next]_vars
    PROVE  BreachIsRecomputable'
<1>1. LoanBookStep /\ Kept /\ \A o \in OriginatorIds : PublishedKept(o)
  BY StepsOf, PublishedStep
<1>2. ASSUME NEW l \in LoanIds, loans'[l].status = "BREACHED",
             NEW f \in stored \ Cited(l), Condemned(l, f),
             loans[l].status # "NONE",
             Terms(loans'[l]) = Terms(loans[l]), Claim(loans'[l]) = Claim(loans[l])
      PROVE  \E g \in (stored \ Cited(l))' : Condemned(l, g)'
  <2>1. /\ loans'[l].originatorId = loans[l].originatorId
        /\ loans'[l].disbursementFactId = loans[l].disbursementFactId
        /\ loans'[l].repaymentFactId = loans[l].repaymentFactId
    BY <1>2 DEF Terms, Claim
  <2>2. QED
    BY <1>1, <1>2, <2>1, CondemnedKept
<1>3. ASSUME NEW l \in LoanIds, loans'[l].status = "BREACHED"
      PROVE  \E g \in (stored \ Cited(l))' : Condemned(l, g)'
  <2>1. CASE loans[l].status = "BREACHED"
    <3>1. PICK f \in stored \ Cited(l) : Condemned(l, f)
      BY <2>1 DEF BreachIsRecomputable, Breached, Condemned
    <3>2. loans[l].repaymentFactId # Zero
      BY <2>1 DEF Evidence, ClaimedNamesRepayment, ClaimableStatus
    <3>3. Terms(loans'[l]) = Terms(loans[l]) /\ Claim(loans'[l]) = Claim(loans[l])
      BY <1>1, <2>1, <3>2, LoanAdvances DEF Advances
    <3>4. QED
      BY <1>2, <1>3, <2>1, <3>1, <3>3
  <2>2. CASE loans[l].status # "BREACHED"
    <3>1. \E f \in FactIds : Challengeable(l, f)
      <4>1. ~ UNCHANGED <<loans, factConsumedBy>>
        BY <1>3, <2>2
      <4>2. ASSUME NEW m \in LoanIds, Moves(m) PROVE \E f \in FactIds : Challengeable(l, f)
        <5>1. m = l
          BY <1>3, <2>2, <4>2, MovesWrites
        <5>2. QED
          BY <1>3, <4>2, <5>1, LoansTyped DEF Moves, Loan
      <4>3. ASSUME NEW m \in LoanIds, NEW o \in OriginatorIds, NEW terms \in LoanTerms,
                   NEW f \in FactIds, Opens(m, o, terms, f)
            PROVE  FALSE
        BY <1>3, <2>2, <4>3, OpensWrites
      <4>4. ASSUME NEW m \in LoanIds, NEW f \in FactIds, Claims(m, f) PROVE FALSE
        BY <1>3, <2>2, <4>4, ClaimsWrites
      <4>5. QED
        BY <1>1, <4>1, <4>2, <4>3, <4>4 DEF LoanBookStep
    <3>2. PICK f \in FactIds : Challengeable(l, f)
      BY <3>1
    <3>3. f \in stored \ Cited(l) /\ Condemned(l, f)
      BY <3>2, CovenantCondemns
    <3>4. loans[l].status = "REPAYMENT_CLAIMED" /\ loans[l].repaymentFactId # Zero
      BY <3>2 DEF Challengeable, Evidence, ClaimedNamesRepayment, ClaimableStatus
    <3>5. Terms(loans'[l]) = Terms(loans[l]) /\ Claim(loans'[l]) = Claim(loans[l])
      BY <1>1, <3>4, LoanAdvances DEF Advances
    <3>6. QED
      BY <1>2, <1>3, <3>3, <3>4, <3>5
  <2>3. QED
    BY <2>1, <2>2
<1>4. QED
  BY <1>3 DEF BreachIsRecomputable, Breached, Condemned

\* A slash leaves its proof behind: no later binding, storage, claim or settlement
\* removes from public state the transfer that condemned a breached loan.
THEOREM BreachesStayRecomputable == Spec => []BreachIsRecomputable
<1>1. Init => BreachIsRecomputable
  BY DEF Init, BreachIsRecomputable, Breached, NoLoan
<1>2. Core /\ Evidence /\ Standing /\ BreachIsRecomputable /\ [Next]_vars
        => BreachIsRecomputable'
  BY RecomputableNext
<1>3. QED
  BY <1>1, <1>2, CoreHolds, EvidenceHolds, StandingHolds, PTL DEF Spec

-----------------------------------------------------------------------------
(* Nobody takes a breach back.                                             *)

\* While a loan is claimed, its whole slash is there.
SlashIsFull ==
    \A l \in LoanIds : loans[l].status = "REPAYMENT_CLAIMED" =>
        Slash(loans[l].originatorId) = BOND_PER_LOAN

LEMMA ClaimedSlashIsFull == Core => SlashIsFull
<1> SUFFICES ASSUME Core, NEW l \in LoanIds, loans[l].status = "REPAYMENT_CLAIMED"
             PROVE  Slash(loans[l].originatorId) = BOND_PER_LOAN
  BY DEF SlashIsFull
<1>1. PICK o : o = loans[l].originatorId
  OBVIOUS
<1>2. /\ originators[o] \in Originator
      /\ originators[o].bond - BOND_PER_LOAN \in Nat
  BY <1>1, OpenLoanIsCovered DEF IsOpen
<1>3. originators[o].bond \in Nat
  BY <1>2 DEF Originator
<1>4. originators[o].bond >= BOND_PER_LOAN
  BY <1>2, <1>3, ParameterAssumption
<1>5. QED
  BY <1>1, <1>3, <1>4, FullSlash

\* A challenge that would succeed still would after a step that leaves the claim open.
LEMMA ChallengeKept ==
    ASSUME Core, Evidence, Standing, Kept, \A o \in OriginatorIds : PublishedKept(o),
           NEW l \in LoanIds, NEW f \in FactIds, Challengeable(l, f),
           loans'[l] = loans[l]
    PROVE  Challengeable(l, f)' \/ number' > WindowEnd(l)
<1>1. /\ loans[l].status = "REPAYMENT_CLAIMED"
      /\ f \in stored
      /\ Covenant(l, f)
      /\ f # loans[l].repaymentFactId /\ f # loans[l].disbursementFactId
  BY DEF Challengeable
<1>2. WindowEnd(l)' = WindowEnd(l)
  BY <1>1, JudgementKept DEF WindowEnd
<1>3. f \in stored'
  BY <1>1 DEF Kept
<1>4. Covenant(l, f)'
  <2>1. /\ treasuryOwner[Ledger[f].from] = loans[l].originatorId
        /\ treasuryOwner'[Ledger[f].from] = loans[l].originatorId
    BY <1>1, JudgementKept DEF Covenant, requireCircularRepaymentBreach, FromBoundTreasury
  <2>2. QED
    BY <1>1, <2>1, JudgementKept DEF Covenant
<1>5. WindowEnd(l) \in Nat /\ number' \in Nat
  BY <1>1, WindowTyped DEF Kept
<1>6. QED
  BY <1>1, <1>2, <1>3, <1>4, <1>5 DEF Challengeable

LEMMA DefuseStep ==
    ASSUME Core, Evidence, Standing, SlashIsFull', [Next]_vars,
           NEW l \in LoanIds, NEW f \in FactIds, Challengeable(l, f)
    PROVE  \/ Challengeable(l, f)' /\ Slash(loans[l].originatorId)' = BOND_PER_LOAN
           \/ loans'[l].status = "BREACHED"
           \/ number' > WindowEnd(l)
<1>1. LoanBookStep /\ Kept /\ \A o \in OriginatorIds : PublishedKept(o)
  BY StepsOf, PublishedStep
<1>2. /\ loans[l].status = "REPAYMENT_CLAIMED"
      /\ number \in Nat /\ WindowEnd(l) \in Nat /\ number <= WindowEnd(l)
  BY WindowTyped, OriginatorsTyped DEF Challengeable
<1>3. loans'[l] = loans[l] \/ loans'[l].status = "BREACHED"
  <2>1. ASSUME NEW m \in LoanIds, Moves(m)
        PROVE  loans'[l] = loans[l] \/ loans'[l].status = "BREACHED"
    <3>1. CASE m # l
      BY <2>1, <3>1, MovesWrites
    <3>2. CASE m = l
      <4>1. loans'[l].status \in {"SETTLED", "BREACHED"}
        BY <1>2, <2>1, <3>2, MovesWrites
      <4>2. loans'[l].status = "SETTLED" => Finalizable(l)
        BY <2>1, <3>2, LoansTyped DEF Moves, Loan
      <4>3. ~ Finalizable(l)
        BY <1>2 DEF Finalizable
      <4>4. QED
        BY <4>1, <4>2, <4>3
    <3>3. QED
      BY <3>1, <3>2
  <2>2. ASSUME NEW m \in LoanIds, NEW o \in OriginatorIds, NEW terms \in LoanTerms,
               NEW g \in FactIds, Opens(m, o, terms, g)
        PROVE  loans'[l] = loans[l]
    <3>1. loans[m].status = "NONE"
      BY <2>2 DEF Opens, NoLoan
    <3>2. QED
      BY <1>2, <2>2, <3>1, OpensWrites
  <2>3. ASSUME NEW m \in LoanIds, NEW g \in FactIds, Claims(m, g)
        PROVE  loans'[l] = loans[l]
    <3>1. loans[m].status # "REPAYMENT_CLAIMED"
      BY <2>3 DEF Claims, ClaimableStatus
    <3>2. QED
      BY <1>2, <2>3, <3>1, ClaimsWrites
  <2>4. QED
    BY <1>1, <2>1, <2>2, <2>3 DEF LoanBookStep
<1>4. ASSUME loans'[l] = loans[l]
      PROVE  Slash(loans[l].originatorId)' = BOND_PER_LOAN
  BY <1>2, <1>4 DEF SlashIsFull
<1>5. QED
  BY <1>1, <1>3, <1>4, ChallengeKept

\* Once a challenge would succeed, no withdrawal, top-up, claim, binding or settlement,
\* of the originator or of anyone else, makes it fail before the window has run out.
THEOREM BreachesCannotBeDefused == Spec => BreachCannotBeDefused
<1>1. Core /\ Evidence /\ Standing /\ SlashIsFull' /\ [Next]_vars =>
        [\A l \in LoanIds, f \in FactIds :
          Challengeable(l, f) =>
            \/ Challengeable(l, f)' /\ Slash(loans[l].originatorId)' = BOND_PER_LOAN
            \/ loans'[l].status = "BREACHED"
            \/ number' > WindowEnd(l)]_vars
  BY DefuseStep
<1>2. QED
  BY <1>1, ClaimedSlashIsFull, CoreHolds, EvidenceHolds, StandingHolds, PTL
  DEF Spec, BreachCannotBeDefused

-----------------------------------------------------------------------------
(* No bond escapes while a claim is fresh.                                 *)

\* A bond falls by a withdrawal after the cooldown or by a breach.
LEMMA BondFalls ==
    ASSUME Core, [Next]_vars, NEW o \in OriginatorIds,
           originators'[o].bond < originators[o].bond
    PROVE  \/ CooldownOver(o)
           \/ \E m \in LoanIds : loans[m].originatorId = o /\ m \in Breached' \ Breached
<1>0. \A l \in LoanIds : loans[l].originatorId \in 0..MaxOriginators
  BY LoansTyped DEF Loan
<1>1. originators' # originators /\ originators[o].bond \in Nat
  <2>1. originators[o].bond \in Nat
    BY OriginatorsTyped DEF Originator
  <2>2. ~ (originators[o].bond < originators[o].bond)
    BY <2>1
  <2>3. QED
    BY <2>1, <2>2
<1>2. CASE \E sender \in Accounts, value \in Values, cw \in CircularWindows,
              w \in ChallengeWindows, covenants \in 0..3 :
                registerOriginator(sender, value, cw, w, covenants)
  <2>1. PICK sender \in Accounts, value \in Values, cw \in CircularWindows,
             w \in ChallengeWindows, covenants \in 0..3 :
                registerOriginator(sender, value, cw, w, covenants)
    BY <1>2
  <2>2. nextOriginatorId \in 0..MaxOriginators /\ originators[nextOriginatorId] = NoOriginator
    BY <2>1, InputAssumption DEF registerOriginator, Core, TypeOK, Slots
  <2>3. /\ \A p \in 0..MaxOriginators : p # nextOriginatorId => originators'[p] = originators[p]
        /\ originators'[nextOriginatorId].bond = value
    BY <2>1, <2>2, OriginatorsTyped DEF registerOriginator
  <2>4. value \in Nat
    BY InputAssumption
  <2>5. QED
    BY <1>1, <2>2, <2>3, <2>4, OriginatorsTyped DEF NoOriginator
<1>3. CASE \E p \in OriginatorIds, value \in Values : topUpBond(p, value)
  <2>1. PICK p \in OriginatorIds, value \in Values : topUpBond(p, value)
    BY <1>3
  <2>2. /\ \A q \in 0..MaxOriginators : q # p => originators'[q] = originators[q]
        /\ originators'[p].bond = originators[p].bond + value
    BY <2>1, OriginatorsTyped DEF topUpBond, Originator
  <2>3. value \in Nat
    BY InputAssumption
  <2>4. QED
    BY <1>1, <2>2, <2>3, OriginatorsTyped
<1>4. CASE \E sender \in Accounts, p \in OriginatorIds, amount \in Values :
              withdrawBond(sender, p, amount)
  BY OriginatorsTyped, <1>1, <1>4 DEF withdrawBond
<1>5. CASE \E sender \in Accounts, p \in OriginatorIds, terms \in LoanTerms, f \in FactIds :
              registerLoan(sender, p, terms, f)
  BY OriginatorsTyped, <1>1, <1>5 DEF registerLoan, Originator
<1>6. CASE \E sender \in Accounts, l \in LoanIds, f \in FactIds :
              claimRepayment(sender, l, f)
  BY OriginatorsTyped, <1>0, <1>1, <1>6 DEF claimRepayment, Originator
<1>7. CASE \E l \in LoanIds : finalize(l)
  BY OriginatorsTyped, <1>0, <1>1, <1>7 DEF finalize, Released, Originator
<1>8. CASE \E sender \in Accounts, l \in LoanIds, f \in FactIds : challenge(sender, l, f)
  <2>1. PICK sender \in Accounts, l \in LoanIds, f \in FactIds : challenge(sender, l, f)
    BY <1>8
  <2>2. loans[l].status = "REPAYMENT_CLAIMED" /\ loans'[l].status = "BREACHED"
    BY <2>1, LoansTyped DEF challenge, Challengeable, Loan
  <2>3. l \in Breached' \ Breached
    BY <2>2 DEF Breached
  <2>4. \A p \in 0..MaxOriginators : p # loans[l].originatorId =>
            originators'[p] = originators[p]
    BY <1>0, <2>1, OriginatorsTyped DEF challenge
  <2>5. QED
    BY <1>1, <2>3, <2>4, OriginatorsTyped
<1>9. CASE \/ UNCHANGED vars
           \/ Tick
           \/ \E f \in FactIds : StoreFact(f)
           \/ \E sender \in Accounts, p \in OriginatorIds, a \in Addresses :
                 bindTreasury(sender, p, a)
           \/ \E l \in LoanIds : markDelinquent(l)
  BY <1>1, <1>9 DEF vars, books, Tick, StoreFact, bindTreasury, markDelinquent
<1>10. QED
  BY <1>2, <1>3, <1>4, <1>5, <1>6, <1>7, <1>8, <1>9 DEF Next

LEMMA CooldownStep ==
    ASSUME Core, Evidence, Standing, [Next]_vars,
           NEW o \in OriginatorIds, originators'[o].bond < originators[o].bond,
           NEW l \in LoanIds, loans[l].originatorId = o, loans[l].repaymentFactId # Zero
    PROVE  \/ number > loans[l].claimBlock + WITHDRAW_COOLDOWN
           \/ \E m \in LoanIds : loans[m].originatorId = o /\ m \in Breached' \ Breached
<1>1. loans[l].status # "NONE"
  BY DEF Evidence, ClaimedNamesRepayment
<1>2. loans[l].claimBlock <= originators[o].lastClaimBlock
  BY <1>1 DEF Standing
<1>3. /\ loans[l].claimBlock \in Nat /\ originators[o].lastClaimBlock \in Nat
      /\ number \in Nat /\ WITHDRAW_COOLDOWN \in Nat
  BY LoansTyped, OriginatorsTyped, ParameterAssumption DEF Loan, Originator
<1>4. CASE CooldownOver(o)
  BY <1>2, <1>3, <1>4 DEF CooldownOver
<1>5. QED
  BY <1>4, BondFalls

\* withdrawBond looks at one block number, lastClaimBlock, and by it keeps the bond
\* still for WITHDRAW_COOLDOWN blocks after each claim of the originator.
THEOREM CooldownAlwaysHolds == Spec => CooldownHolds
<1>1. Core /\ Evidence /\ Standing /\ [Next]_vars =>
        [\A o \in OriginatorIds :
          originators'[o].bond < originators[o].bond =>
            \A l \in LoanIds :
              loans[l].originatorId = o /\ loans[l].repaymentFactId # Zero =>
                \/ number > loans[l].claimBlock + WITHDRAW_COOLDOWN
                \/ \E m \in LoanIds : /\ loans[m].originatorId = o
                                      /\ m \in Breached' \ Breached]_vars
  BY CooldownStep
<1>2. QED
  BY <1>1, CoreHolds, EvidenceHolds, StandingHolds, PTL DEF Spec, CooldownHolds

-----------------------------------------------------------------------------
(* Each breach is paid once and in full.                                   *)

UnitBounty == (BOND_PER_LOAN * BOUNTY_BPS) \div 10000

\* One more loan counts for one more unit, whatever the unit.
LEMMA OneMoreBreach ==
    ASSUME NEW S \in SUBSET LoanIds, NEW l \in LoanIds, l \notin S, NEW unit \in Nat
    PROVE  /\ Cardinality(S) * unit \in Nat
           /\ Cardinality(S \cup {l}) * unit = Cardinality(S) * unit + unit
<1>1. Cardinality(S \cup {l}) = Cardinality(S) + 1 /\ Cardinality(S) \in Nat
  BY LoanSetsFinite, FS_AddElement
<1>2. \A n, u \in Nat : n * u \in Nat /\ (n + 1) * u = n * u + u
  OBVIOUS
<1>3. QED
  BY <1>1, <1>2

LEMMA PaidStep ==
    ASSUME Core, [Next]_vars
    PROVE  \/ UNCHANGED <<Breached, payments>>
           \/ \E l \in LoanIds \ Breached :
                 /\ Breached' = Breached \cup {l}
                 /\ paidBounties' = paidBounties + Bounty(BOND_PER_LOAN)
                 /\ paidSink' = paidSink + ToSink(BOND_PER_LOAN)
<1>1. CASE \E sender \in Accounts, l \in LoanIds, f \in FactIds : challenge(sender, l, f)
  <2>1. PICK sender \in Accounts, l \in LoanIds, f \in FactIds : challenge(sender, l, f)
    BY <1>1
  <2>2. loans[l].status = "REPAYMENT_CLAIMED" /\ loans'[l].status = "BREACHED"
    BY <2>1, LoansTyped DEF challenge, Challengeable, Loan
  <2>3. \A m \in LoanIds : m # l => loans'[m] = loans[m]
    BY <2>1, LoansTyped DEF challenge
  <2>4. l \notin Breached /\ Breached' = Breached \cup {l}
    BY <2>2, <2>3 DEF Breached
  <2>5. Slash(loans[l].originatorId) = BOND_PER_LOAN
    BY <2>2, ClaimedSlashIsFull DEF SlashIsFull
  <2>6. QED
    BY <2>1, <2>4, <2>5 DEF challenge
<1>2. CASE \E l \in LoanIds : finalize(l)
  <2>1. PICK l \in LoanIds : finalize(l)
    BY <1>2
  <2>2. /\ loans[l].status # "BREACHED" /\ loans'[l].status # "BREACHED"
        /\ \A m \in LoanIds : m # l => loans'[m] = loans[m]
    BY <2>1, LoansTyped DEF finalize, Finalizable, Loan
  <2>3. QED
    BY <2>1, <2>2 DEF finalize, Breached
<1>3. CASE \E l \in LoanIds : markDelinquent(l)
  <2>1. PICK l \in LoanIds : markDelinquent(l)
    BY <1>3
  <2>2. /\ loans[l].status # "BREACHED" /\ loans'[l].status # "BREACHED"
        /\ \A m \in LoanIds : m # l => loans'[m] = loans[m]
    BY <2>1, LoansTyped DEF markDelinquent, Delinquent, Loan
  <2>3. QED
    BY <2>1, <2>2 DEF markDelinquent, Breached
<1>4. CASE \E sender \in Accounts, l \in LoanIds, f \in FactIds :
              claimRepayment(sender, l, f)
  <2>1. PICK sender \in Accounts, l \in LoanIds, f \in FactIds :
              claimRepayment(sender, l, f)
    BY <1>4
  <2>2. /\ loans[l].status # "BREACHED" /\ loans'[l].status # "BREACHED"
        /\ \A m \in LoanIds : m # l => loans'[m] = loans[m]
    BY <2>1, LoansTyped DEF claimRepayment, ClaimableStatus, Loan
  <2>3. QED
    BY <2>1, <2>2 DEF claimRepayment, Breached
<1>5. CASE \E sender \in Accounts, o \in OriginatorIds, terms \in LoanTerms, f \in FactIds :
              registerLoan(sender, o, terms, f)
  <2>1. PICK sender \in Accounts, o \in OriginatorIds, terms \in LoanTerms, f \in FactIds :
              registerLoan(sender, o, terms, f)
    BY <1>5
  <2>2. nextLoanId \in LoanIds /\ loans[nextLoanId] = NoLoan
    BY <2>1, InputAssumption DEF registerLoan, Core, TypeOK, Slots, LoanIds
  <2>3. /\ \A m \in LoanIds : m # nextLoanId => loans'[m] = loans[m]
        /\ loans'[nextLoanId].status = "REGISTERED"
    BY <2>1, <2>2, LoansTyped DEF registerLoan, NewLoan
  <2>4. QED
    BY <2>1, <2>2, <2>3 DEF registerLoan, Breached, NoLoan
<1>6. CASE UNCHANGED <<loans, payments>>
  BY <1>6 DEF Breached
<1>7. CASE \/ UNCHANGED vars
           \/ Tick
           \/ \E f \in FactIds : StoreFact(f)
           \/ \E sender \in Accounts, value \in Values, cw \in CircularWindows,
                 w \in ChallengeWindows, covenants \in 0..3 :
                   registerOriginator(sender, value, cw, w, covenants)
           \/ \E sender \in Accounts, o \in OriginatorIds, a \in Addresses :
                 bindTreasury(sender, o, a)
           \/ \E o \in OriginatorIds, value \in Values : topUpBond(o, value)
           \/ \E sender \in Accounts, o \in OriginatorIds, amount \in Values :
                 withdrawBond(sender, o, amount)
  BY <1>6, <1>7 DEF vars, loanBook, Tick, StoreFact, registerOriginator, bindTreasury,
                    topUpBond, withdrawBond
<1>8. QED
  BY <1>1, <1>2, <1>3, <1>4, <1>5, <1>7 DEF Next

\* Every breach is slashed in full and shared out once: the cap of the slash at the
\* remaining bond never binds, whatever was withdrawn or slashed before.
THEOREM SlashesArePaidOnce == Spec => []SlashPaidOncePerBreach
<1>1. Init => SlashPaidOncePerBreach
  <2> SUFFICES ASSUME Init PROVE SlashPaidOncePerBreach
    OBVIOUS
  <2>1. Breached = {}
    BY DEF Init, Breached, NoLoan
  <2>2. UnitBounty \in Nat /\ Cardinality(Breached) = 0
    BY SMTT(30), <2>1, FS_EmptySet, ParameterAssumption, SlashSplits DEF UnitBounty, Bounty
  <2>3. 0 * UnitBounty = 0 /\ 0 * BOND_PER_LOAN = 0
    BY <2>2, ParameterAssumption
  <2>4. paidBounties = 0 /\ paidSink = 0
    BY DEF Init
  <2>5. QED
    BY <2>2, <2>3, <2>4 DEF SlashPaidOncePerBreach, UnitBounty
<1>2. Core /\ SlashPaidOncePerBreach /\ [Next]_vars => SlashPaidOncePerBreach'
  <2> SUFFICES ASSUME Core, SlashPaidOncePerBreach, [Next]_vars
               PROVE  SlashPaidOncePerBreach'
    OBVIOUS
  <2>1. CASE UNCHANGED <<Breached, payments>>
    BY <2>1 DEF SlashPaidOncePerBreach, payments
  <2>2. CASE \E l \in LoanIds \ Breached :
               /\ Breached' = Breached \cup {l}
               /\ paidBounties' = paidBounties + Bounty(BOND_PER_LOAN)
               /\ paidSink' = paidSink + ToSink(BOND_PER_LOAN)
    <3>1. PICK l \in LoanIds \ Breached :
               /\ Breached' = Breached \cup {l}
               /\ paidBounties' = paidBounties + Bounty(BOND_PER_LOAN)
               /\ paidSink' = paidSink + ToSink(BOND_PER_LOAN)
      BY <2>2
    <3>2. Bounty(BOND_PER_LOAN) = UnitBounty
      BY DEF Bounty, UnitBounty
    <3>3. /\ UnitBounty \in Nat
          /\ ToSink(BOND_PER_LOAN) \in Nat
          /\ UnitBounty + ToSink(BOND_PER_LOAN) = BOND_PER_LOAN
          /\ BOND_PER_LOAN \in Nat
      BY <3>2, SlashSplits, ParameterAssumption
    <3>4. Breached \in SUBSET LoanIds
      BY DEF Breached
    <3>5. /\ Cardinality(Breached') * UnitBounty
                = Cardinality(Breached) * UnitBounty + UnitBounty
          /\ Cardinality(Breached') * BOND_PER_LOAN
                = Cardinality(Breached) * BOND_PER_LOAN + BOND_PER_LOAN
      BY <3>1, <3>3, <3>4, OneMoreBreach
    <3>6. /\ paidBounties = Cardinality(Breached) * UnitBounty
          /\ paidBounties + paidSink = Cardinality(Breached) * BOND_PER_LOAN
          /\ paidBounties \in Nat /\ paidSink \in Nat
      BY DEF SlashPaidOncePerBreach, UnitBounty, Core, TypeOK
    <3>7. /\ paidBounties' = Cardinality(Breached') * UnitBounty
          /\ paidBounties' + paidSink' = Cardinality(Breached') * BOND_PER_LOAN
      <4>1. paidBounties' = paidBounties + UnitBounty
        BY <3>1, <3>2
      <4>2. paidBounties' + paidSink' = paidBounties + paidSink + BOND_PER_LOAN
        BY <3>1, <3>3, <3>6, <4>1
      <4>3. QED
        BY <3>5, <3>6, <4>1, <4>2
    <3>8. QED
      BY <3>7 DEF SlashPaidOncePerBreach, UnitBounty
  <2>3. QED
    BY <2>1, <2>2, PaidStep
<1>3. QED
  BY <1>1, <1>2, CoreHolds, PTL DEF Spec

-----------------------------------------------------------------------------
(* The preview of the console.                                             *)

\* A claim has a block, and it is not the 0 by which the preview knows that there is none.
Dated ==
    /\ number # 0
    /\ \A l \in LoanIds : loans[l].repaymentFactId # Zero => loans[l].claimBlock # 0

LEMMA DatedNext == Core /\ Evidence /\ Dated /\ [Next]_vars => Dated'
<1> SUFFICES ASSUME Core, Evidence, Dated, [Next]_vars PROVE Dated'
  OBVIOUS
<1>1. LoanBookStep /\ Kept
  BY StepsOf
<1>2. number' # 0
  BY <1>1, OriginatorsTyped DEF Dated, Kept
<1> DEFINE HasBlock(m) == loans[m].repaymentFactId # Zero => loans[m].claimBlock # 0
<1>3. \A m \in LoanIds : HasBlock(m)
  BY DEF Dated
<1>4. ASSUME NEW m \in LoanIds, loans'[m] = loans[m] PROVE HasBlock(m)'
  BY <1>3, <1>4
<1>5. ASSUME NEW l \in LoanIds, Moves(l) PROVE \A m \in LoanIds : HasBlock(m)'
  BY <1>3, <1>5, MovesKeeps
<1>6. ASSUME NEW l \in LoanIds, NEW o \in OriginatorIds, NEW terms \in LoanTerms,
             NEW f \in FactIds, Opens(l, o, terms, f)
      PROVE  \A m \in LoanIds : HasBlock(m)'
  BY <1>4, <1>6, OpensWrites
<1>7. ASSUME NEW l \in LoanIds, NEW f \in FactIds, Claims(l, f)
      PROVE  \A m \in LoanIds : HasBlock(m)'
  <2>1. HasBlock(l)'
    BY <1>7, ClaimsWrites DEF Dated
  <2>2. \A m \in LoanIds : m # l => loans'[m] = loans[m]
    BY <1>7, ClaimsWrites
  <2>3. QED
    BY <1>4, <2>1, <2>2
<1>8. \A m \in LoanIds : HasBlock(m)'
  BY <1>1, <1>4, <1>5, <1>6, <1>7 DEF LoanBookStep
<1>9. QED
  BY <1>2, <1>8 DEF Dated

LEMMA DatedHolds == Spec => []Dated
<1>1. Init => Dated
  BY ParameterAssumption DEF Init, Dated, NoLoan
<1>2. QED
  BY <1>1, DatedNext, CoreHolds, EvidenceHolds, PTL DEF Spec

\* A condition passes when it is known and holds, and fails when it is known and does not.
LEMMA Judged ==
    ASSUME NEW known \in BOOLEAN, NEW holds \in BOOLEAN
    PROVE  /\ Verdict(known, holds) = "pass" <=> known /\ holds
           /\ Verdict(known, holds) = "fail" <=> known /\ ~holds
BY DEF Verdict

\* The conditions one by one.
LEMMA ElevenConditions ==
    ASSUME NEW l, NEW f
    PROVE  wouldSucceed(l, f) <=>
             /\ dryRun(l, f)[1] = "pass"
             /\ dryRun(l, f)[2] = "pass"
             /\ dryRun(l, f)[3] = "pass"
             /\ dryRun(l, f)[4] = "pass"
             /\ dryRun(l, f)[5] = "pass"
             /\ dryRun(l, f)[6] = "pass"
             /\ dryRun(l, f)[7] = "pass"
             /\ dryRun(l, f)[8] = "pass"
             /\ dryRun(l, f)[9] = "pass"
             /\ dryRun(l, f)[10] = "pass"
             /\ dryRun(l, f)[11] = "pass"
<1> DEFINE c == dryRun(l, f)
<1> HIDE DEF c
<1>1. (\A n \in 1..11 : c[n] = "pass") <=>
        /\ c[1] = "pass" /\ c[2] = "pass" /\ c[3] = "pass" /\ c[4] = "pass"
        /\ c[5] = "pass" /\ c[6] = "pass" /\ c[7] = "pass" /\ c[8] = "pass"
        /\ c[9] = "pass" /\ c[10] = "pass" /\ c[11] = "pass"
  <2>1. \A n \in 1..11 : \/ n = 1 \/ n = 2 \/ n = 3 \/ n = 4 \/ n = 5 \/ n = 6
                         \/ n = 7 \/ n = 8 \/ n = 9 \/ n = 10 \/ n = 11
    OBVIOUS
  <2>2. {1, 2, 3, 4, 5, 6, 7, 8, 9, 10, 11} \subseteq 1..11
    OBVIOUS
  <2>3. QED
    BY <2>1, <2>2
<1>2. QED
  BY <1>1 DEF c, wouldSucceed, Conditions

\* What each of them compares.
LEMMA WhatPasses ==
    ASSUME NEW l, NEW f
    PROVE  wouldSucceed(l, f) <=>
             /\ loans[l].status = "REPAYMENT_CLAIMED"
             /\ loans[l].claimBlock # 0
             /\ number <= WindowEnd(l)
             /\ f \in stored /\ loans[l].repaymentFactId \in stored
             /\ Covenant(l, f)
             /\ loans[l].originatorId # 0
             /\ f # loans[l].repaymentFactId
             /\ f # loans[l].disbursementFactId
<1> DEFINE funding == Ledger[f]
           repayment == Ledger[loans[l].repaymentFactId]
           both == {f, loans[l].repaymentFactId} \subseteq stored
           window == originators[loans[l].originatorId].circularWindow
           c == dryRun(l, f)
<1>1. /\ c[1] = Verdict(TRUE, loans[l].status = "REPAYMENT_CLAIMED")
      /\ c[2] = WindowVerdict(l)
      /\ c[3] = Verdict(both, SameChain(funding, repayment))
      /\ c[4] = Verdict(both, SameToken(funding, repayment))
      /\ c[5] = Verdict(both, SamePayer(funding, repayment))
      /\ c[6] = BindingVerdict(l, f)
      /\ c[7] = Verdict(both, CoversRepayment(funding, repayment))
      /\ c[8] = Verdict(both, FundingBefore(funding, repayment))
      /\ c[9] = Verdict(both /\ FundingBefore(funding, repayment),
                        WithinWindow(funding, repayment, window))
      /\ c[10] = Verdict(TRUE, f # loans[l].repaymentFactId)
      /\ c[11] = Verdict(TRUE, f # loans[l].disbursementFactId)
  BY DEF dryRun
<1>2. both <=> f \in stored /\ loans[l].repaymentFactId \in stored
  OBVIOUS
<1> HIDE DEF funding, repayment, both, window, c
<1>3. /\ c[1] = "pass" <=> loans[l].status = "REPAYMENT_CLAIMED"
      /\ c[10] = "pass" <=> f # loans[l].repaymentFactId
      /\ c[11] = "pass" <=> f # loans[l].disbursementFactId
  BY <1>1 DEF Verdict
<1>4. c[2] = "pass" <=> loans[l].claimBlock # 0 /\ number <= WindowEnd(l)
  BY <1>1 DEF WindowVerdict, Verdict
<1>5. /\ c[3] = "pass" <=> both /\ SameChain(funding, repayment)
      /\ c[4] = "pass" <=> both /\ SameToken(funding, repayment)
      /\ c[5] = "pass" <=> both /\ SamePayer(funding, repayment)
  BY <1>1 DEF Verdict
<1>6. c[6] = "pass" <=> /\ f \in stored
                        /\ treasuryOwner[Ledger[f].from] = loans[l].originatorId
                        /\ loans[l].originatorId # 0
  BY <1>1 DEF BindingVerdict, Verdict
<1>7. /\ c[7] = "pass" <=> both /\ CoversRepayment(funding, repayment)
      /\ c[8] = "pass" <=> both /\ FundingBefore(funding, repayment)
      /\ c[9] = "pass" <=> /\ both /\ FundingBefore(funding, repayment)
                           /\ WithinWindow(funding, repayment, window)
  BY <1>1 DEF Verdict
<1>8. Covenant(l, f) <=>
        /\ SameChain(funding, repayment)
        /\ SameToken(funding, repayment)
        /\ SamePayer(funding, repayment)
        /\ treasuryOwner[Ledger[f].from] = loans[l].originatorId
        /\ CoversRepayment(funding, repayment)
        /\ FundingBefore(funding, repayment)
        /\ WithinWindow(funding, repayment, window)
  BY DEF Covenant, requireCircularRepaymentBreach, FromBoundTreasury, funding, repayment, window
<1>9. QED
  BY <1>2, <1>3, <1>4, <1>5, <1>6, <1>7, <1>8, ElevenConditions DEF c

\* challenge() reverts exactly when one of its conditions fails.
LEMMA RevertsOrBreaches ==
    ASSUME Core, NEW l \in LoanIds, NEW f \in FactIds
    PROVE  challengeRevert(l, f) = "none" <=> Challengeable(l, f)
<1> DEFINE o == loans[l].originatorId
           funding == Ledger[f]
           repayment == Ledger[loans[l].repaymentFactId]
           revert == covenantRevert(funding, repayment, treasuryOwner[funding.from], o,
                                    originators[o].circularWindow)
<1>1. revert = "none" <=> Covenant(l, f)
  BY DEF covenantRevert, Covenant, requireCircularRepaymentBreach
<1>2. CASE loans[l].status # "REPAYMENT_CLAIMED"
  BY <1>2 DEF challengeRevert, Challengeable
<1>3. CASE loans[l].status = "REPAYMENT_CLAIMED"
  <2>1. number \in Nat /\ WindowEnd(l) \in Nat
    BY <1>3, WindowTyped, OriginatorsTyped
  <2>2. number > WindowEnd(l) <=> ~(number <= WindowEnd(l))
    BY <2>1
  <2>3. QED
    BY <1>1, <1>3, <2>2 DEF challengeRevert, Challengeable
<1>4. QED
  BY <1>2, <1>3

LEMMA PreviewAgrees ==
    ASSUME Core, Evidence, Dated, NEW l \in LoanIds, NEW f \in FactIds
    PROVE  wouldSucceed(l, f) <=> Challengeable(l, f)
<1>1. loans[l].status = "REPAYMENT_CLAIMED" =>
        /\ loans[l].repaymentFactId # Zero
        /\ loans[l].claimBlock # 0
        /\ loans[l].originatorId # 0
        /\ loans[l].repaymentFactId \in stored
  <2> SUFFICES ASSUME loans[l].status = "REPAYMENT_CLAIMED"
               PROVE  /\ loans[l].repaymentFactId # Zero
                      /\ loans[l].claimBlock # 0
                      /\ loans[l].originatorId # 0
                      /\ loans[l].repaymentFactId \in stored
    OBVIOUS
  <2>1. loans[l].repaymentFactId # Zero
    BY DEF Evidence, ClaimedNamesRepayment, ClaimableStatus
  <2>2. loans[l].repaymentFactId \in stored
    BY <2>1 DEF Evidence, EvidenceBacked, Registered
  <2>3. QED
    BY <2>1, <2>2, LoanOriginator, OriginatorsTyped DEF Dated
<1>2. QED
  BY <1>1, WhatPasses DEF Challengeable

\* predicate.ts dryRun is never wrong about the outcome: for every loan and every fact,
\* stored or not, the eleven conditions pass exactly when challenge() would not revert.
THEOREM PreviewMirrorsTheContract == Spec => []MirrorAgrees
<1>1. Core /\ Evidence /\ Dated => MirrorAgrees
  BY PreviewAgrees, RevertsOrBreaches DEF MirrorAgrees
<1>2. QED
  BY <1>1, CoreHolds, EvidenceHolds, DatedHolds, PTL

\* The bounty the page promises, a constant, is what challenge() pays: no bond that stands
\* behind a claim is ever smaller than the slash.
THEOREM ProjectedBountyIsPaid == Spec => []ProjectionIsPaid
<1>1. Core /\ Evidence /\ Dated => ProjectionIsPaid
  <2> SUFFICES ASSUME Core, Evidence, Dated, NEW l \in LoanIds, NEW f \in FactIds,
                      wouldSucceed(l, f)
               PROVE  projectBounty = Bounty(Slash(loans[l].originatorId))
    BY DEF ProjectionIsPaid
  <2>1. loans[l].status = "REPAYMENT_CLAIMED"
    BY WhatPasses
  <2>2. QED
    BY <2>1, ClaimedSlashIsFull DEF SlashIsFull, projectBounty, Bounty
<1>2. QED
  BY <1>1, CoreHolds, EvidenceHolds, DatedHolds, PTL

\* What condition n compares, over the two facts (both: whether the vault holds them), the
\* window of the originator and the fact each of the loan's two references is.
Fails(n, f, d, r, both, window) ==
    CASE n = 3 -> both /\ ~SameChain(Ledger[f], Ledger[r])
      [] n = 4 -> both /\ ~SameToken(Ledger[f], Ledger[r])
      [] n = 5 -> both /\ ~SamePayer(Ledger[f], Ledger[r])
      [] n = 7 -> both /\ ~CoversRepayment(Ledger[f], Ledger[r])
      [] n = 8 -> both /\ ~FundingBefore(Ledger[f], Ledger[r])
      [] n = 9 -> /\ both /\ FundingBefore(Ledger[f], Ledger[r])
                  /\ ~WithinWindow(Ledger[f], Ledger[r], window)
      [] n = 10 -> f = r
      [] n = 11 -> f = d

LEMMA WhatFails ==
    ASSUME NEW l, NEW f, NEW n \in Conditions \ {1, 2, 6}
    PROVE  dryRun(l, f)[n] = "fail" <=>
             Fails(n, f, loans[l].disbursementFactId, loans[l].repaymentFactId,
                   {f, loans[l].repaymentFactId} \subseteq stored,
                   originators[loans[l].originatorId].circularWindow)
<1> DEFINE r == loans[l].repaymentFactId
           both == {f, r} \subseteq stored
           window == originators[loans[l].originatorId].circularWindow
           c == dryRun(l, f)
<1>1. /\ c[3] = Verdict(both, SameChain(Ledger[f], Ledger[r]))
      /\ c[4] = Verdict(both, SameToken(Ledger[f], Ledger[r]))
      /\ c[5] = Verdict(both, SamePayer(Ledger[f], Ledger[r]))
      /\ c[7] = Verdict(both, CoversRepayment(Ledger[f], Ledger[r]))
      /\ c[8] = Verdict(both, FundingBefore(Ledger[f], Ledger[r]))
      /\ c[9] = Verdict(both /\ FundingBefore(Ledger[f], Ledger[r]),
                        WithinWindow(Ledger[f], Ledger[r], window))
      /\ c[10] = Verdict(TRUE, f # r)
      /\ c[11] = Verdict(TRUE, f # loans[l].disbursementFactId)
  BY DEF dryRun
<1>2. n \in {3, 4, 5, 7, 8, 9, 10, 11}
  BY DEF Conditions
<1> HIDE DEF r, both, window, c
<1>3. c[n] = "fail" <=> Fails(n, f, loans[l].disbursementFactId, r, both, window)
  <2>1. CASE n = 3
    BY <1>1, <2>1 DEF Verdict, Fails
  <2>2. CASE n = 4
    BY <1>1, <2>2 DEF Verdict, Fails
  <2>3. CASE n = 5
    BY <1>1, <2>3 DEF Verdict, Fails
  <2>4. CASE n = 7
    BY <1>1, <2>4 DEF Verdict, Fails
  <2>5. CASE n = 8
    BY <1>1, <2>5 DEF Verdict, Fails
  <2>6. CASE n = 9
    BY <1>1, <2>6 DEF Verdict, Fails
  <2>7. CASE n = 10
    BY <1>1, <2>7 DEF Verdict, Fails
  <2>8. CASE n = 11
    BY <1>1, <2>8 DEF Verdict, Fails
  <2>9. QED
    BY <1>2, <2>1, <2>2, <2>3, <2>4, <2>5, <2>6, <2>7, <2>8
<1>4. QED
  BY <1>3 DEF r, both, window, c

FailuresAre ==
    \A l \in LoanIds, f \in FactIds, n \in Conditions \ {1, 2, 6} :
        dryRun(l, f)[n] = "fail" <=>
          Fails(n, f, loans[l].disbursementFactId, loans[l].repaymentFactId,
                {f, loans[l].repaymentFactId} \subseteq stored,
                originators[loans[l].originatorId].circularWindow)

LEMMA WhatFailsNow == FailuresAre
BY WhatFails DEF FailuresAre

LEMMA WhatFailsNext == FailuresAre'
BY WhatFailsNow, PTL

\* More facts in the vault excuse nothing.
LEMMA FailsForGood ==
    ASSUME NEW n \in Conditions \ {1, 2, 6}, NEW f, NEW d, NEW r, NEW window,
           NEW both \in BOOLEAN, NEW later \in BOOLEAN, both => later,
           Fails(n, f, d, r, both, window)
    PROVE  Fails(n, f, d, r, later, window)
<1>1. n \in {3, 4, 5, 7, 8, 9, 10, 11}
  BY DEF Conditions
<1>2. CASE n = 3
  BY <1>2 DEF Fails
<1>3. CASE n = 4
  BY <1>3 DEF Fails
<1>4. CASE n = 5
  BY <1>4 DEF Fails
<1>5. CASE n = 7
  BY <1>5 DEF Fails
<1>6. CASE n = 8
  BY <1>6 DEF Fails
<1>7. CASE n = 9
  BY <1>7 DEF Fails
<1>8. CASE n = 10
  BY <1>8 DEF Fails
<1>9. CASE n = 11
  BY <1>9 DEF Fails
<1>10. QED
  BY <1>1, <1>2, <1>3, <1>4, <1>5, <1>6, <1>7, <1>8, <1>9

FailureKept(l, f) ==
    loans[l].status = "REPAYMENT_CLAIMED" =>
        \A n \in Conditions \ {1, 2, 6} :
            dryRun(l, f)[n] = "fail" => dryRun(l, f)'[n] = "fail"

LEMMA FailureStays ==
    ASSUME Core, Evidence, Standing, [Next]_vars, NEW l \in LoanIds, NEW f \in FactIds
    PROVE  FailureKept(l, f)
<1> SUFFICES ASSUME loans[l].status = "REPAYMENT_CLAIMED", NEW n \in Conditions \ {1, 2, 6},
                    dryRun(l, f)[n] = "fail"
             PROVE  dryRun(l, f)'[n] = "fail"
  BY DEF FailureKept
<1> DEFINE d == loans[l].disbursementFactId
           r == loans[l].repaymentFactId
           both == {f, r} \subseteq stored
           window == originators[loans[l].originatorId].circularWindow
<1>1. LoanBookStep /\ Kept /\ \A o \in OriginatorIds : PublishedKept(o)
  BY StepsOf, PublishedStep
<1>2. /\ loans'[l].originatorId = loans[l].originatorId
      /\ d' = d /\ r' = r
  <2>1. loans[l].repaymentFactId # Zero
    BY DEF Evidence, ClaimedNamesRepayment, ClaimableStatus
  <2>2. QED
    BY <1>1, <2>1, LoanAdvances DEF Advances, Terms, Claim
<1>3. window' = window
  BY <1>1, <1>2, JudgementKept
<1>4. both => both'
  BY <1>1, <1>2 DEF Kept
<1>5. Fails(n, f, d, r, both, window)
  BY WhatFails
<1>6. Fails(n, f, d, r, both', window)
  BY <1>4, <1>5, FailsForGood
<1>7. dryRun(l, f)'[n] = "fail" <=> Fails(n, f, d', r', both', window')
  BY WhatFailsNext DEF FailuresAre
<1>8. QED
  BY <1>2, <1>3, <1>6, <1>7

\* A challenger may give up for good on a fact whose evidence fails: no step of the
\* contract, the vault or the originator turns such a verdict on a claimed loan.
THEOREM FailedEvidenceStaysFailed == Spec => EvidenceVerdictIsFinal
<1>1. Core /\ Evidence /\ Standing /\ [Next]_vars =>
        [\A l \in LoanIds, f \in FactIds :
          loans[l].status = "REPAYMENT_CLAIMED" =>
            LET before == dryRun(l, f)
                after == dryRun(l, f)'
            IN  \A n \in Conditions \ {1, 2, 6} :
                    before[n] = "fail" => after[n] = "fail"]_vars
  BY FailureStays DEF FailureKept
<1>2. QED
  BY <1>1, CoreHolds, EvidenceHolds, StandingHolds, PTL DEF Spec, EvidenceVerdictIsFinal
=============================================================================

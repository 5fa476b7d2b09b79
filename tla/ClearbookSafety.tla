--------------------------- MODULE ClearbookSafety ---------------------------
(***************************************************************************)
(* What Clearbook.sol must never do: the global invariants of SECURITY.md  *)
(* section 6 (I1 is in Payouts, I5 in EvidenceVault), the evidence behind  *)
(* every loan and every breach, and what no step may undo.                 *)
(***************************************************************************)
EXTENDS Clearbook, FiniteSetsExt

Registered == {l \in LoanIds : loans[l].status # "NONE"}

IsOpen(loan) ==
    loan.status \in {"REGISTERED", "REPAYMENT_CLAIMED", "DELINQUENT"}

OpenLoans(o) ==
    {l \in LoanIds : loans[l].originatorId = o /\ IsOpen(loans[l])}

Breached == {l \in LoanIds : loans[l].status = "BREACHED"}

\* The facts a loan rests on.
Cited(l) == {loans[l].disbursementFactId, loans[l].repaymentFactId} \ {Zero}

-----------------------------------------------------------------------------
(* Every variable has its type; in particular no bond or exposure is ever  *)
(* negative, so no checked subtraction of the contract reverts.            *)
TypeOK ==
    /\ number \in Nat
    /\ stored \subseteq FactIds
    /\ originators \in [0..MaxOriginators -> Originator]
    /\ nextOriginatorId \in 1..(MaxOriginators + 1)
    /\ loans \in [LoanIds -> Loan]
    /\ nextLoanId \in 1..(MaxLoans + 1)
    /\ treasuryOwner \in [Addresses -> 0..MaxOriginators]
    /\ bindingNonce \in [Addresses -> Nat]
    /\ factConsumedBy \in [FactIds -> 0..MaxLoans]
    /\ balance \in Int
    /\ paidBounties \in Nat
    /\ paidSink \in Nat

(* I2: no withdrawal or slash leaves an open loan without its bond. *)
BondCoversExposure ==
    \A o \in OriginatorIds : originators[o].bond >= originators[o].exposure

(***************************************************************************)
(* I6: the exposure is BOND_PER_LOAN for each open loan, whichever of the  *)
(* three ways out a loan takes or has not taken yet.                       *)
(***************************************************************************)
ExposureCountsOpenLoans ==
    \A o \in OriginatorIds :
        originators[o].exposure = BOND_PER_LOAN * Cardinality(OpenLoans(o))

(***************************************************************************)
(* I3, EVIDENCE_UNIQUENESS: one transfer never backs two claims, of one    *)
(* loan or of two, of one originator or of two, open or ended; and         *)
(* factConsumedBy tells exactly which loan it backs.                       *)
(***************************************************************************)
EvidenceSpentOnce ==
    /\ \A f \in FactIds, l \in LoanIds : factConsumedBy[f] = l <=> f \in Cited(l)
    /\ \A l \in Registered :
          loans[l].disbursementFactId # loans[l].repaymentFactId

(***************************************************************************)
(* EVIDENCE_FIRST, for the whole life of a loan: what it says about token, *)
(* borrower and principal is what a stored transfer out of a treasury of   *)
(* its originator says, and its repayment is a stored transfer of at least *)
(* that much of that token into such a treasury.                           *)
(***************************************************************************)
EvidenceBacked ==
    \A l \in Registered :
        LET loan == loans[l]
            disbursement == Ledger[loan.disbursementFactId]
            repayment == Ledger[loan.repaymentFactId]
        IN  /\ loan.disbursementFactId \in stored
            /\ disbursement.token = loan.token
            /\ disbursement.to = loan.borrower
            /\ disbursement.amount = loan.principal
            /\ treasuryOwner[disbursement.from] = loan.originatorId
            /\ loan.repaymentFactId # Zero =>
                 /\ loan.repaymentFactId \in stored
                 /\ repayment.token = loan.token
                 /\ repayment.amount >= loan.principal
                 /\ treasuryOwner[repayment.to] = loan.originatorId

(***************************************************************************)
(* docs/THREAT_MODEL.md, T18: no ancient transfer passes for a fresh       *)
(* repayment.  No loan settles on a transfer that the source chain made    *)
(* before the loan's own disbursement.                                     *)
(***************************************************************************)
RepaymentIsFresh ==
    \A l \in LoanIds :
        loans[l].status = "SETTLED" =>
          LET disbursement == Ledger[loans[l].disbursementFactId]
              repayment == Ledger[loans[l].repaymentFactId]
          IN  disbursement.chainKey = repayment.chainKey =>
                  disbursement.blockHeight <= repayment.blockHeight

(***************************************************************************)
(* A breach stays recomputable by anyone from public state: the vault      *)
(* holds a transfer, distinct from the loan's own two, that went from a    *)
(* treasury of the originator to the payer of the claimed repayment, of    *)
(* the same token on the same chain, at least as large, no later, and      *)
(* within the window the originator published.                             *)
(***************************************************************************)
BreachIsRecomputable ==
    \A l \in Breached : \E f \in stored \ Cited(l) :
        LET funding == Ledger[f]
            repayment == Ledger[loans[l].repaymentFactId]
            o == loans[l].originatorId
        IN  /\ treasuryOwner[funding.from] = o
            /\ funding.to = repayment.from
            /\ funding.token = repayment.token
            /\ funding.chainKey = repayment.chainKey
            /\ funding.amount >= repayment.amount
            /\ funding.blockHeight <= repayment.blockHeight
            /\ repayment.blockHeight <= funding.blockHeight + originators[o].circularWindow

(***************************************************************************)
(* Every breach is slashed in full and paid out once, half to its          *)
(* challenger: the cap of the slash at the remaining bond never binds,     *)
(* whatever was withdrawn or slashed before.                               *)
(***************************************************************************)
SlashPaidOncePerBreach ==
    LET bounty == (BOND_PER_LOAN * BOUNTY_BPS) \div 10000
    IN  /\ paidBounties = Cardinality(Breached) * bounty
        /\ paidBounties + paidSink = Cardinality(Breached) * BOND_PER_LOAN

(***************************************************************************)
(* The two ends of a claim exclude each other and leave no gap: a claim    *)
(* that the covenant condemns can be challenged in every block up to the   *)
(* one in which it can be finalized, and in no later one.                  *)
(***************************************************************************)
Condemns(l, f) ==
    /\ loans[l].status = "REPAYMENT_CLAIMED"
    /\ f \in stored \ Cited(l)
    /\ Covenant(l, f)

VerdictIsUnambiguous ==
    \A l \in LoanIds, f \in FactIds :
        Condemns(l, f) => (Challengeable(l, f) <=> ~Finalizable(l))

-----------------------------------------------------------------------------
(***************************************************************************)
(* Nothing the originator or anyone else does takes a breach back: once a  *)
(* challenge would succeed it keeps succeeding, for the full slash, until  *)
(* the loan is breached or the window has run out.                         *)
(***************************************************************************)
BreachCannotBeDefused ==
    [][\A l \in LoanIds, f \in FactIds :
          Challengeable(l, f) =>
            \/ Challengeable(l, f)' /\ Slash(loans[l].originatorId)' = BOND_PER_LOAN
            \/ loans'[l].status = "BREACHED"
            \/ number' > WindowEnd(l)]_vars

(***************************************************************************)
(* No bond is withdrawn within WITHDRAW_COOLDOWN blocks of any claim of    *)
(* the originator: a bond falls only by a breach of one of its loans or    *)
(* when each of its claims is old enough.                                  *)
(***************************************************************************)
CooldownHolds ==
    [][\A o \in OriginatorIds :
          originators'[o].bond < originators[o].bond =>
            \A l \in LoanIds :
              loans[l].originatorId = o /\ loans[l].repaymentFactId # Zero =>
                \/ number > loans[l].claimBlock + WITHDRAW_COOLDOWN
                \/ \E m \in LoanIds : /\ loans[m].originatorId = o
                                      /\ m \in Breached' \ Breached]_vars

(***************************************************************************)
(* I4: a loan only moves forward.  Its terms and disbursement never change *)
(* once registered, its claim never changes once made, and a settled or    *)
(* breached loan never changes at all.                                     *)
(***************************************************************************)
Terms(loan) ==
    <<loan.originatorId, loan.token, loan.borrower, loan.principal,
      loan.maturityBlock, loan.disbursementFactId>>

Claim(loan) == <<loan.repaymentFactId, loan.claimBlock>>

Forward(loan, next) ==
    CASE loan.status = "NONE" -> next.status \in {"NONE", "REGISTERED"}
      [] loan.status = "REGISTERED" ->
            next.status \in {"REGISTERED", "DELINQUENT", "REPAYMENT_CLAIMED"}
      [] loan.status = "DELINQUENT" ->
            next.status \in {"DELINQUENT", "REPAYMENT_CLAIMED"}
      [] loan.status = "REPAYMENT_CLAIMED" ->
            next.status \in {"REPAYMENT_CLAIMED", "SETTLED", "BREACHED"}
      [] loan.status \in {"SETTLED", "BREACHED"} -> next.status = loan.status

LoansOnlyAdvance ==
    [][\A l \in LoanIds :
          /\ Forward(loans[l], loans'[l])
          /\ loans[l].status # "NONE" => Terms(loans'[l]) = Terms(loans[l])
          /\ loans[l].repaymentFactId # Zero => Claim(loans'[l]) = Claim(loans[l])]_vars

(***************************************************************************)
(* What an originator is judged by is never rewritten: its owner and its   *)
(* published windows, the originator a treasury is bound to, the loan a    *)
(* fact was spent on.                                                      *)
(***************************************************************************)
Published(o) ==
    <<originators[o].owner, originators[o].circularWindow, originators[o].challengeWindow>>

RecordsArePermanent ==
    [][/\ \A o \in OriginatorIds :
             originators[o].active => originators'[o].active /\ Published(o)' = Published(o)
       /\ \A a \in Addresses : treasuryOwner[a] # 0 => treasuryOwner'[a] = treasuryOwner[a]
       /\ \A f \in FactIds : factConsumedBy[f] # 0 => factConsumedBy'[f] = factConsumedBy[f]]_vars

-----------------------------------------------------------------------------
(***************************************************************************)
(* The contract implements the abstract book, the free bond being what the *)
(* bond leaves when each open loan is counted (and not what the running    *)
(* total `exposure' says).                                                 *)
(***************************************************************************)
Phase(status) ==
    CASE status = "NONE" -> "none"
      [] status \in {"REGISTERED", "DELINQUENT"} -> "open"
      [] status = "REPAYMENT_CLAIMED" -> "claimed"
      [] status = "SETTLED" -> "settled"
      [] status = "BREACHED" -> "breached"

FreeBond(o) == originators[o].bond - BOND_PER_LOAN * Cardinality(OpenLoans(o))

Book == INSTANCE CovenantBook WITH
    Lenders <- OriginatorIds,
    Evidence <- FactIds,
    Unit <- BOND_PER_LOAN,
    Amounts <- Values,
    free <- [o \in OriginatorIds |-> FreeBond(o)],
    lender <- [l \in LoanIds |-> loans[l].originatorId],
    phase <- [l \in LoanIds |-> Phase(loans[l].status)],
    evidence <- [l \in LoanIds |-> Cited(l)],
    paidOut <- paidBounties + paidSink

ImplementsCovenantBook == Book!Spec
=============================================================================

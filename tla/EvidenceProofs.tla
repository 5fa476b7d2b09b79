---------------------------- MODULE EvidenceProofs ----------------------------
(***************************************************************************)
(* What the contract's records are worth, for every value of the constants: *)
(* a fact is spent once and backs its loan for ever, a loan only advances,  *)
(* what an originator is judged by is never rewritten, and the contract     *)
(* implements the abstract book of module CovenantBook.                     *)
(*                                                                         *)
(* Core of ClearbookProofs is strengthened with Evidence.  Each step of the *)
(* contract does one of four things to the loan book (LoanSteps), so each   *)
(* part of Evidence has one case for each of them.                          *)
(***************************************************************************)
EXTENDS ClearbookProofs

\* The loans that have been claimed, and no other, name a repayment: a claim overwrites
\* nothing, and a verdict is about a transfer.
ClaimedNamesRepayment ==
    \A l \in LoanIds :
        loans[l].status \in {"NONE"} \cup ClaimableStatus <=> loans[l].repaymentFactId = Zero

Evidence ==
    /\ ClaimedNamesRepayment
    /\ EvidenceSpentOnce
    /\ EvidenceBacked

-----------------------------------------------------------------------------
(* The four things a step does to the loan book.                           *)

\* A loan falls due, or ends: by time alone, or by a fact that condemns it.
Moves(l) ==
    /\ \E next \in LoanStatus :
          /\ <<loans[l].status, next>> \in
                {<<"REGISTERED", "DELINQUENT">>, <<"REPAYMENT_CLAIMED", "SETTLED">>,
                 <<"REPAYMENT_CLAIMED", "BREACHED">>}
          /\ next = "SETTLED" => Finalizable(l)
          /\ next = "BREACHED" => \E f \in FactIds : Challengeable(l, f)
          /\ loans' = [loans EXCEPT ![l].status = next]
    /\ UNCHANGED factConsumedBy

Opens(l, o, terms, f) ==
    /\ loans[l] = NoLoan
    /\ originators[o].active
    /\ Disburses(o, terms, f)
    /\ loans' = [loans EXCEPT ![l] = NewLoan(o, terms, f)]
    /\ factConsumedBy' = [factConsumedBy EXCEPT ![f] = l]

Claims(l, f) ==
    /\ loans[l].status \in ClaimableStatus
    /\ loans[l].originatorId # 0
    /\ Repays(l, f)
    /\ loans' = [loans EXCEPT ![l].repaymentFactId = f,
                              ![l].claimBlock = number,
                              ![l].status = "REPAYMENT_CLAIMED"]
    /\ originators'[loans[l].originatorId].lastClaimBlock = number
    /\ factConsumedBy' = [factConsumedBy EXCEPT ![f] = l]

LoanBookStep ==
    \/ UNCHANGED <<loans, factConsumedBy>>
    \/ \E l \in LoanIds : Moves(l)
    \/ \E l \in LoanIds, o \in OriginatorIds, terms \in LoanTerms, f \in FactIds :
          Opens(l, o, terms, f)
    \/ \E l \in LoanIds, f \in FactIds : Claims(l, f)

\* Blocks only grow, the vault keeps its facts and a treasury its originator.
Kept ==
    /\ number' \in Nat /\ number' >= number
    /\ stored \subseteq stored'
    /\ \A a \in Addresses : treasuryOwner[a] # 0 => treasuryOwner'[a] = treasuryOwner[a]

LEMMA LoansTyped ==
    ASSUME Core
    PROVE  /\ loans \in [LoanIds -> Loan]
           /\ factConsumedBy \in [FactIds -> 0..MaxLoans]
           /\ 0 \notin LoanIds
           /\ Zero \notin FactIds
BY ZeroAssumption DEF Core, TypeOK, LoanIds

LEMMA StepsOf ==
    ASSUME Core, [Next]_vars
    PROVE  LoanBookStep /\ Kept
<1>0. number \in Nat
  BY DEF Core, TypeOK
<1>1. CASE UNCHANGED vars
  BY <1>0, <1>1 DEF vars, vault, books, loanBook, LoanBookStep, Kept
<1>2. CASE Tick
  BY <1>0, <1>2 DEF Tick, books, loanBook, LoanBookStep, Kept
<1>3. CASE \E f \in FactIds : StoreFact(f)
  BY <1>0, <1>3 DEF StoreFact, books, loanBook, LoanBookStep, Kept
<1>4. CASE \E sender \in Accounts, value \in Values, cw \in CircularWindows,
              w \in ChallengeWindows, covenants \in 0..3 :
                registerOriginator(sender, value, cw, w, covenants)
  BY <1>0, <1>4 DEF registerOriginator, vault, loanBook, LoanBookStep, Kept
<1>5. CASE \E sender \in Accounts, o \in OriginatorIds, a \in Addresses :
              bindTreasury(sender, o, a)
  BY <1>0, <1>5 DEF bindTreasury, MayBind, vault, loanBook, LoanBookStep, Kept, Core, TypeOK
<1>6. CASE \E o \in OriginatorIds, value \in Values : topUpBond(o, value)
  BY <1>0, <1>6 DEF topUpBond, vault, loanBook, LoanBookStep, Kept
<1>7. CASE \E sender \in Accounts, o \in OriginatorIds, amount \in Values :
              withdrawBond(sender, o, amount)
  BY <1>0, <1>7 DEF withdrawBond, vault, loanBook, LoanBookStep, Kept
<1>8. CASE \E sender \in Accounts, o \in OriginatorIds, terms \in LoanTerms, f \in FactIds :
              registerLoan(sender, o, terms, f)
  <2>1. PICK sender \in Accounts, o \in OriginatorIds, terms \in LoanTerms, f \in FactIds :
              registerLoan(sender, o, terms, f)
    BY <1>8
  <2>2. nextLoanId \in LoanIds /\ loans[nextLoanId] = NoLoan
    BY <2>1, InputAssumption DEF registerLoan, Core, TypeOK, Slots, LoanIds
  <2>3. Opens(nextLoanId, o, terms, f)
    BY <2>1, <2>2 DEF registerLoan, Opens
  <2>4. Kept
    BY <1>0, <2>1 DEF registerLoan, vault, Kept
  <2>5. QED
    BY <2>2, <2>3, <2>4 DEF LoanBookStep
<1>9. CASE \E sender \in Accounts, l \in LoanIds, f \in FactIds :
              claimRepayment(sender, l, f)
  <2>1. PICK sender \in Accounts, l \in LoanIds, f \in FactIds :
              claimRepayment(sender, l, f)
    BY <1>9
  <2>2. loans[l].status \in ClaimableStatus
    BY <2>1 DEF claimRepayment
  <2>3. loans[l].originatorId # 0
    BY <2>2, LoanOriginator DEF ClaimableStatus
  <2>4. originators'[loans[l].originatorId].lastClaimBlock = number
    <3>1. /\ loans[l].originatorId \in 0..MaxOriginators
          /\ originators \in [0..MaxOriginators -> Originator]
      BY LoansTyped DEF Core, TypeOK, Loan
    <3>2. QED
      BY <2>1, <3>1 DEF claimRepayment, Originator
  <2>5. Claims(l, f)
    BY <2>1, <2>2, <2>3, <2>4 DEF claimRepayment, Claims
  <2>6. Kept
    BY <1>0, <2>1 DEF claimRepayment, vault, Kept
  <2>7. QED
    BY <2>5, <2>6 DEF LoanBookStep
<1>10. CASE \E l \in LoanIds : markDelinquent(l)
  <2>1. PICK l \in LoanIds : markDelinquent(l)
    BY <1>10
  <2>2. Moves(l)
    BY <2>1 DEF markDelinquent, Delinquent, Moves, LoanStatus
  <2>3. QED
    BY <1>0, <2>1, <2>2 DEF markDelinquent, vault, books, LoanBookStep, Kept
<1>11. CASE \E l \in LoanIds : finalize(l)
  <2>1. PICK l \in LoanIds : finalize(l)
    BY <1>11
  <2>2. Moves(l)
    BY <2>1 DEF finalize, Finalizable, Moves, LoanStatus
  <2>3. QED
    BY <1>0, <2>1, <2>2 DEF finalize, vault, LoanBookStep, Kept
<1>12. CASE \E sender \in Accounts, l \in LoanIds, f \in FactIds : challenge(sender, l, f)
  <2>1. PICK sender \in Accounts, l \in LoanIds, f \in FactIds : challenge(sender, l, f)
    BY <1>12
  <2>2. Moves(l)
    BY <2>1 DEF challenge, Challengeable, Moves, LoanStatus
  <2>3. QED
    BY <1>0, <2>1, <2>2 DEF challenge, vault, LoanBookStep, Kept
<1>13. QED
  BY <1>1, <1>2, <1>3, <1>4, <1>5, <1>6, <1>7, <1>8, <1>9, <1>10, <1>11, <1>12 DEF Next

-----------------------------------------------------------------------------
(* What each of them writes.                                               *)

LEMMA MovesWrites ==
    ASSUME Core, NEW l \in LoanIds, Moves(l)
    PROVE  /\ \A m \in LoanIds : m # l => loans'[m] = loans[m]
           /\ loans'[l] = [loans[l] EXCEPT !.status = loans'[l].status]
           /\ <<loans[l].status, loans'[l].status>> \in
                 {<<"REGISTERED", "DELINQUENT">>, <<"REPAYMENT_CLAIMED", "SETTLED">>,
                  <<"REPAYMENT_CLAIMED", "BREACHED">>}
<1>1. PICK next \in LoanStatus :
          /\ <<loans[l].status, next>> \in
                {<<"REGISTERED", "DELINQUENT">>, <<"REPAYMENT_CLAIMED", "SETTLED">>,
                 <<"REPAYMENT_CLAIMED", "BREACHED">>}
          /\ loans' = [loans EXCEPT ![l].status = next]
  BY DEF Moves
<1>2. loans'[l] = [loans[l] EXCEPT !.status = next] /\ loans[l] \in Loan
  BY <1>1, LoansTyped
<1>3. loans'[l].status = next
  BY <1>2 DEF Loan
<1>4. QED
  BY <1>1, <1>2, <1>3, LoansTyped

\* A moved loan keeps its terms and its claim.
LEMMA MovesKeeps ==
    ASSUME Core, NEW l \in LoanIds, Moves(l), NEW m \in LoanIds
    PROVE  /\ loans'[m].originatorId = loans[m].originatorId
           /\ loans'[m].token = loans[m].token
           /\ loans'[m].borrower = loans[m].borrower
           /\ loans'[m].principal = loans[m].principal
           /\ loans'[m].maturityBlock = loans[m].maturityBlock
           /\ loans'[m].disbursementFactId = loans[m].disbursementFactId
           /\ loans'[m].repaymentFactId = loans[m].repaymentFactId
           /\ loans'[m].claimBlock = loans[m].claimBlock
           /\ loans[m].status = "NONE" <=> loans'[m].status = "NONE"
<1>1. CASE m # l
  BY <1>1, MovesWrites
<1>2. CASE m = l
  <2>1. PICK next \in LoanStatus : loans'[l] = [loans[l] EXCEPT !.status = next]
    BY LoansTyped DEF Moves
  <2>2. loans[l].status # "NONE" /\ loans'[l].status # "NONE"
    BY MovesWrites
  <2>3. loans[l] \in Loan
    BY LoansTyped
  <2>4. QED
    BY <1>2, <2>1, <2>2, <2>3 DEF Loan
<1>3. QED
  BY <1>1, <1>2

LEMMA OpensWrites ==
    ASSUME Core, NEW l \in LoanIds, NEW o \in OriginatorIds, NEW terms \in LoanTerms,
           NEW f \in FactIds, Opens(l, o, terms, f)
    PROVE  /\ \A m \in LoanIds : m # l => loans'[m] = loans[m]
           /\ loans'[l].originatorId = o
           /\ loans'[l].token = terms.token
           /\ loans'[l].borrower = terms.borrower
           /\ loans'[l].principal = terms.principal
           /\ loans'[l].disbursementFactId = f
           /\ loans'[l].repaymentFactId = Zero
           /\ loans'[l].status = "REGISTERED"
           /\ \A g \in FactIds : g # f => factConsumedBy'[g] = factConsumedBy[g]
           /\ factConsumedBy[f] = 0 /\ factConsumedBy'[f] = l
<1>1. loans'[l] = NewLoan(o, terms, f)
  BY LoansTyped DEF Opens
<1>2. QED
  BY <1>1, LoansTyped DEF Opens, Disburses, NewLoan

LEMMA ClaimsWrites ==
    ASSUME Core, NEW l \in LoanIds, NEW f \in FactIds, Claims(l, f)
    PROVE  /\ \A m \in LoanIds : m # l => loans'[m] = loans[m]
           /\ loans'[l].originatorId = loans[l].originatorId
           /\ loans'[l].token = loans[l].token
           /\ loans'[l].borrower = loans[l].borrower
           /\ loans'[l].principal = loans[l].principal
           /\ loans'[l].maturityBlock = loans[l].maturityBlock
           /\ loans'[l].disbursementFactId = loans[l].disbursementFactId
           /\ loans'[l].repaymentFactId = f
           /\ loans'[l].claimBlock = number
           /\ loans'[l].status = "REPAYMENT_CLAIMED"
           /\ \A g \in FactIds : g # f => factConsumedBy'[g] = factConsumedBy[g]
           /\ factConsumedBy[f] = 0 /\ factConsumedBy'[f] = l
<1>1. loans' = [loans EXCEPT ![l].repaymentFactId = f,
                             ![l].claimBlock = number,
                             ![l].status = "REPAYMENT_CLAIMED"]
  BY DEF Claims
<1>2. loans[l] \in Loan
  BY LoansTyped
<1>3. loans'[l] = [loans[l] EXCEPT !.repaymentFactId = f, !.claimBlock = number,
                                   !.status = "REPAYMENT_CLAIMED"]
  BY <1>1, LoansTyped
<1>4. /\ loans'[l].originatorId = loans[l].originatorId
      /\ loans'[l].token = loans[l].token
      /\ loans'[l].borrower = loans[l].borrower
      /\ loans'[l].principal = loans[l].principal
      /\ loans'[l].maturityBlock = loans[l].maturityBlock
      /\ loans'[l].disbursementFactId = loans[l].disbursementFactId
      /\ loans'[l].repaymentFactId = f
      /\ loans'[l].claimBlock = number
      /\ loans'[l].status = "REPAYMENT_CLAIMED"
  BY <1>2, <1>3 DEF Loan
<1>5. \A m \in LoanIds : m # l => loans'[m] = loans[m]
  BY <1>1, LoansTyped
<1>6. factConsumedBy[f] = 0 /\ factConsumedBy' = [factConsumedBy EXCEPT ![f] = l]
  BY DEF Claims, Repays
<1>7. QED
  BY <1>4, <1>5, <1>6, LoansTyped

-----------------------------------------------------------------------------
(* Evidence is inductive, one part after the other.                        *)

LEMMA EvidenceInit == Init => Evidence
<1> SUFFICES ASSUME Init PROVE Evidence
  OBVIOUS
<1>1. \A l \in LoanIds : loans[l] = NoLoan
  BY DEF Init
<1>2. Registered = {}
  BY <1>1 DEF Registered, NoLoan
<1>3. \A f \in FactIds, l \in LoanIds : factConsumedBy[f] = 0 /\ l # 0
  BY DEF Init, LoanIds
<1>4. EvidenceSpentOnce
  BY <1>1, <1>2, <1>3 DEF EvidenceSpentOnce, Cited, NoLoan
<1>5. QED
  BY <1>1, <1>2, <1>4 DEF Evidence, ClaimedNamesRepayment, EvidenceBacked, NoLoan

LEMMA ClaimedStep ==
    ASSUME Core, ClaimedNamesRepayment, LoanBookStep
    PROVE  ClaimedNamesRepayment'
<1> DEFINE Names(m) ==
      loans[m].status \in {"NONE"} \cup ClaimableStatus <=> loans[m].repaymentFactId = Zero
<1>1. ASSUME NEW m \in LoanIds, loans'[m] = loans[m] PROVE Names(m)'
  BY <1>1 DEF ClaimedNamesRepayment
<1>2. ASSUME NEW l \in LoanIds, Moves(l) PROVE \A m \in LoanIds : Names(m)'
  <2>1. /\ loans[l].status \in {"NONE"} \cup ClaimableStatus
             <=> loans'[l].status \in {"NONE"} \cup ClaimableStatus
        /\ \A m \in LoanIds : m # l => loans'[m] = loans[m]
    BY <1>2, MovesWrites DEF ClaimableStatus
  <2>2. loans'[l].repaymentFactId = loans[l].repaymentFactId
    BY <1>2, MovesKeeps
  <2>3. Names(l)'
    BY <2>1, <2>2 DEF ClaimedNamesRepayment
  <2>4. QED
    BY <1>1, <2>1, <2>3
<1>3. ASSUME NEW l \in LoanIds, NEW o \in OriginatorIds, NEW terms \in LoanTerms,
             NEW f \in FactIds, Opens(l, o, terms, f)
      PROVE  \A m \in LoanIds : Names(m)'
  <2>1. loans'[l].status = "REGISTERED" /\ loans'[l].repaymentFactId = Zero
    BY <1>3, OpensWrites
  <2>2. Names(l)'
    BY <2>1 DEF ClaimableStatus
  <2>3. QED
    BY <1>1, <1>3, <2>2, OpensWrites
<1>4. ASSUME NEW l \in LoanIds, NEW f \in FactIds, Claims(l, f)
      PROVE  \A m \in LoanIds : Names(m)'
  <2>1. loans'[l].status = "REPAYMENT_CLAIMED" /\ loans'[l].repaymentFactId # Zero
    BY <1>4, ClaimsWrites, LoansTyped
  <2>2. Names(l)'
    BY <2>1 DEF ClaimableStatus
  <2>3. QED
    BY <1>1, <1>4, <2>2, ClaimsWrites
<1>5. \A m \in LoanIds : Names(m)'
  BY <1>1, <1>2, <1>3, <1>4 DEF LoanBookStep
<1>6. QED
  BY <1>5 DEF ClaimedNamesRepayment

\* A fact no loan has been charged for is cited by none.
LEMMA UnspentIsUncited ==
    ASSUME Core, EvidenceSpentOnce, NEW f \in FactIds, factConsumedBy[f] = 0,
           NEW l \in LoanIds
    PROVE  /\ loans[l].disbursementFactId # f
           /\ loans[l].repaymentFactId # f
BY LoansTyped DEF EvidenceSpentOnce, Cited

LEMMA SpentOnceStep ==
    ASSUME Core, ClaimedNamesRepayment, EvidenceSpentOnce, LoanBookStep
    PROVE  EvidenceSpentOnce'
<1>1. CASE UNCHANGED <<loans, factConsumedBy>>
  BY <1>1 DEF EvidenceSpentOnce, Cited, Registered
<1>2. ASSUME NEW l \in LoanIds, Moves(l) PROVE EvidenceSpentOnce'
  <2>1. factConsumedBy' = factConsumedBy
    BY <1>2 DEF Moves
  <2>2. Registered' = Registered
    BY <1>2, MovesKeeps DEF Registered
  <2>3. \A m \in LoanIds : Cited(m)' = Cited(m)
    BY <1>2, MovesKeeps DEF Cited
  <2>4. \A m \in Registered : m \in LoanIds
    BY DEF Registered
  <2>5. QED
    BY <1>2, <2>1, <2>2, <2>3, <2>4, MovesKeeps DEF EvidenceSpentOnce
<1>3. ASSUME NEW l \in LoanIds, NEW o \in OriginatorIds, NEW terms \in LoanTerms,
             NEW f \in FactIds, Opens(l, o, terms, f)
      PROVE  EvidenceSpentOnce'
  <2>1. loans[l] = NoLoan /\ Cited(l) = {}
    BY <1>3 DEF Opens, Cited, NoLoan
  <2>2. Cited(l)' = {f}
    BY <1>3, OpensWrites, LoansTyped DEF Cited
  <2>3. \A m \in LoanIds : m # l => Cited(m)' = Cited(m)
    BY <1>3, OpensWrites DEF Cited
  <2>4. \A g \in FactIds, m \in LoanIds : factConsumedBy'[g] = m <=> g \in Cited(m)'
    BY <1>3, <2>1, <2>2, <2>3, OpensWrites, LoansTyped DEF EvidenceSpentOnce
  <2>5. \A m \in Registered' : loans'[m].disbursementFactId # loans'[m].repaymentFactId
    BY <1>3, OpensWrites, LoansTyped DEF EvidenceSpentOnce, Registered
  <2>6. QED
    BY <2>4, <2>5 DEF EvidenceSpentOnce
<1>4. ASSUME NEW l \in LoanIds, NEW f \in FactIds, Claims(l, f)
      PROVE  EvidenceSpentOnce'
  <2>1. loans[l].repaymentFactId = Zero /\ loans[l].status # "NONE"
    BY <1>4 DEF Claims, ClaimedNamesRepayment, ClaimableStatus
  <2>2. Cited(l)' = Cited(l) \cup {f}
    BY <1>4, <2>1, ClaimsWrites, LoansTyped DEF Cited
  <2>3. \A m \in LoanIds : m # l => Cited(m)' = Cited(m)
    BY <1>4, ClaimsWrites DEF Cited
  <2>4. \A m \in LoanIds : f \notin Cited(m)
    BY <1>4, ClaimsWrites, UnspentIsUncited DEF Cited
  <2>5. \A g \in FactIds, m \in LoanIds : factConsumedBy'[g] = m <=> g \in Cited(m)'
    BY <1>4, <2>2, <2>3, <2>4, ClaimsWrites, LoansTyped DEF EvidenceSpentOnce
  <2>6. \A m \in Registered' : loans'[m].disbursementFactId # loans'[m].repaymentFactId
    BY <1>4, ClaimsWrites, UnspentIsUncited DEF EvidenceSpentOnce, Registered
  <2>7. QED
    BY <2>5, <2>6 DEF EvidenceSpentOnce
<1>5. QED
  BY <1>1, <1>2, <1>3, <1>4 DEF LoanBookStep

\* The two halves of EvidenceBacked, for one loan.
Disbursed(l) ==
    LET disbursement == Ledger[loans[l].disbursementFactId]
    IN  /\ loans[l].disbursementFactId \in stored
        /\ disbursement.token = loans[l].token
        /\ disbursement.to = loans[l].borrower
        /\ disbursement.amount = loans[l].principal
        /\ treasuryOwner[disbursement.from] = loans[l].originatorId

Repaid(l) ==
    LET repayment == Ledger[loans[l].repaymentFactId]
    IN  /\ loans[l].repaymentFactId \in stored
        /\ repayment.token = loans[l].token
        /\ repayment.amount >= loans[l].principal
        /\ treasuryOwner[repayment.to] = loans[l].originatorId

LEMMA BackedByParts ==
    EvidenceBacked <=>
        \A l \in LoanIds :
            loans[l].status # "NONE" =>
                Disbursed(l) /\ (loans[l].repaymentFactId # Zero => Repaid(l))
BY DEF EvidenceBacked, Registered, Disbursed, Repaid

\* A transfer the vault holds is still held, and its treasury still bound.
LEMMA TransferKept ==
    ASSUME Core, Kept, NEW f \in stored
    PROVE  /\ f \in stored'
           /\ \A o \in OriginatorIds :
                /\ treasuryOwner[Ledger[f].from] = o => treasuryOwner'[Ledger[f].from] = o
                /\ treasuryOwner[Ledger[f].to] = o => treasuryOwner'[Ledger[f].to] = o
<1>1. f \in FactIds
  BY DEF Core, TypeOK
<1>2. Ledger[f].from \in Addresses /\ Ledger[f].to \in Addresses
  BY <1>1, LedgerAssumption DEF Transfer
<1>3. \A o \in OriginatorIds : o # 0
  BY DEF OriginatorIds
<1>4. QED
  BY <1>2, <1>3 DEF Kept

\* What backs a loan goes on backing it as long as its record says the same.
LEMMA BackingKept ==
    ASSUME Core, Kept, NEW l \in LoanIds, loans[l].status # "NONE",
           loans'[l].originatorId = loans[l].originatorId,
           loans'[l].token = loans[l].token,
           loans'[l].borrower = loans[l].borrower,
           loans'[l].principal = loans[l].principal
    PROVE  /\ Disbursed(l) /\ loans'[l].disbursementFactId = loans[l].disbursementFactId
                => Disbursed(l)'
           /\ Repaid(l) /\ loans'[l].repaymentFactId = loans[l].repaymentFactId
                => Repaid(l)'
<1>1. loans[l].originatorId \in OriginatorIds
  BY LoanOriginator
<1>2. ASSUME Disbursed(l), loans'[l].disbursementFactId = loans[l].disbursementFactId
      PROVE  Disbursed(l)'
  BY <1>1, <1>2, TransferKept DEF Disbursed
<1>3. ASSUME Repaid(l), loans'[l].repaymentFactId = loans[l].repaymentFactId
      PROVE  Repaid(l)'
  BY <1>1, <1>3, TransferKept DEF Repaid
<1>4. QED
  BY <1>2, <1>3

\* The whole principal is asked back.
LEMMA RepaymentIsWhole ==
    ASSUME NEW principal \in Nat
    PROVE  (principal * REPAYMENT_BPS) \div 10000 = principal
BY DEF REPAYMENT_BPS

LEMMA BackedStep ==
    ASSUME Core, ClaimedNamesRepayment, EvidenceBacked, LoanBookStep, Kept
    PROVE  EvidenceBacked'
<1> DEFINE Fine(m) ==
      loans[m].status # "NONE" =>
          Disbursed(m) /\ (loans[m].repaymentFactId # Zero => Repaid(m))
<1>1. \A m \in LoanIds : Fine(m)
  BY BackedByParts
<1>2. ASSUME NEW m \in LoanIds, loans'[m] = loans[m] PROVE Fine(m)'
  BY <1>1, <1>2, BackingKept
<1>3. ASSUME NEW l \in LoanIds, Moves(l) PROVE \A m \in LoanIds : Fine(m)'
  BY <1>1, <1>3, MovesKeeps, BackingKept
<1>4. ASSUME NEW l \in LoanIds, NEW o \in OriginatorIds, NEW terms \in LoanTerms,
             NEW f \in FactIds, Opens(l, o, terms, f)
      PROVE  \A m \in LoanIds : Fine(m)'
  <2>1. Disburses(o, terms, f)
    BY <1>4 DEF Opens
  <2>2. Disbursed(l)'
    BY <1>4, <2>1, OpensWrites, TransferKept DEF Disburses, Disbursed
  <2>3. loans'[l].repaymentFactId = Zero
    BY <1>4, OpensWrites
  <2>4. \A m \in LoanIds : m # l => loans'[m] = loans[m]
    BY <1>4, OpensWrites
  <2>5. QED
    BY <1>2, <2>2, <2>3, <2>4
<1>5. ASSUME NEW l \in LoanIds, NEW f \in FactIds, Claims(l, f)
      PROVE  \A m \in LoanIds : Fine(m)'
  <2>1. Repays(l, f) /\ loans[l].status # "NONE"
    BY <1>5 DEF Claims, ClaimableStatus
  <2>2. Disbursed(l)'
    BY <1>1, <1>5, <2>1, ClaimsWrites, BackingKept
  <2>3. loans[l].originatorId \in OriginatorIds /\ loans[l].principal \in Nat
    BY <2>1, LoanOriginator, LoansTyped DEF Loan
  <2>4. Ledger[f].amount >= loans[l].principal
    BY <2>1, <2>3, RepaymentIsWhole DEF Repays
  <2>5. Repaid(l)'
    BY <1>5, <2>1, <2>3, <2>4, ClaimsWrites, TransferKept DEF Repays, Repaid
  <2>6. \A m \in LoanIds : m # l => loans'[m] = loans[m]
    BY <1>5, ClaimsWrites
  <2>7. QED
    BY <1>2, <2>2, <2>5, <2>6
<1>6. \A m \in LoanIds : Fine(m)'
  BY <1>2, <1>3, <1>4, <1>5 DEF LoanBookStep
<1>7. QED
  BY <1>6 DEF EvidenceBacked, Registered, Disbursed, Repaid

LEMMA EvidenceNext == Core /\ Evidence /\ [Next]_vars => Evidence'
<1> SUFFICES ASSUME Core, Evidence, [Next]_vars PROVE Evidence'
  OBVIOUS
<1>1. LoanBookStep /\ Kept
  BY StepsOf
<1>2. QED
  BY <1>1, ClaimedStep, SpentOnceStep, BackedStep DEF Evidence

LEMMA EvidenceHolds == Spec => []Evidence
<1>1. QED
  BY EvidenceInit, EvidenceNext, CoreHolds, PTL DEF Spec

\* I3 of SECURITY.md: factConsumedBy names exactly the loan that cites a fact, so no
\* transfer ever backs two claims, whoever registers or claims and in whatever order.
THEOREM EvidenceIsSpentOnce == Spec => []EvidenceSpentOnce
<1>1. Evidence => EvidenceSpentOnce
  BY DEF Evidence
<1>2. QED
  BY <1>1, EvidenceHolds, PTL

\* EVIDENCE_FIRST: registerLoan and claimRepayment check a fact once, and what they
\* checked stays true of the loan for ever, ended loans included.
THEOREM LoansStayBacked == Spec => []EvidenceBacked
<1>1. Evidence => EvidenceBacked
  BY DEF Evidence
<1>2. QED
  BY <1>1, EvidenceHolds, PTL

-----------------------------------------------------------------------------
(* What no step may undo.                                                  *)

\* One step of a loan's life.
Advances(l) ==
    /\ Forward(loans[l], loans'[l])
    /\ loans[l].status # "NONE" => Terms(loans'[l]) = Terms(loans[l])
    /\ loans[l].repaymentFactId # Zero => Claim(loans'[l]) = Claim(loans[l])

LEMMA LoanAdvances ==
    ASSUME Core, Evidence, LoanBookStep, NEW m \in LoanIds
    PROVE  Advances(m)
<1>1. loans[m].status \in LoanStatus
  BY LoansTyped DEF Loan
<1>2. ASSUME loans'[m] = loans[m] PROVE Advances(m)
  BY <1>1, <1>2 DEF Advances, Forward, LoanStatus
<1>3. ASSUME NEW l \in LoanIds, Moves(l) PROVE Advances(m)
  <2>1. CASE m # l
    BY <1>2, <1>3, <2>1, MovesWrites
  <2>2. CASE m = l
    <3>1. Forward(loans[m], loans'[m])
      BY <1>3, <2>2, MovesWrites DEF Forward
    <3>2. QED
      BY <1>3, <3>1, MovesKeeps DEF Advances, Terms, Claim
  <2>3. QED
    BY <2>1, <2>2
<1>4. ASSUME NEW l \in LoanIds, NEW o \in OriginatorIds, NEW terms \in LoanTerms,
             NEW f \in FactIds, Opens(l, o, terms, f)
      PROVE  Advances(m)
  <2>1. CASE m # l
    BY <1>2, <1>4, <2>1, OpensWrites
  <2>2. CASE m = l
    <3>1. loans[m].status = "NONE" /\ loans[m].repaymentFactId = Zero
      BY <1>4, <2>2 DEF Opens, NoLoan
    <3>2. QED
      BY <1>4, <2>2, <3>1, OpensWrites DEF Advances, Forward
  <2>3. QED
    BY <2>1, <2>2
<1>5. ASSUME NEW l \in LoanIds, NEW f \in FactIds, Claims(l, f) PROVE Advances(m)
  <2>1. CASE m # l
    BY <1>2, <1>5, <2>1, ClaimsWrites
  <2>2. CASE m = l
    <3>1. loans[m].status \in ClaimableStatus /\ loans[m].repaymentFactId = Zero
      BY <1>5, <2>2 DEF Claims, Evidence, ClaimedNamesRepayment
    <3>2. Forward(loans[m], loans'[m])
      BY <1>5, <2>2, <3>1, ClaimsWrites DEF Forward, ClaimableStatus
    <3>3. Terms(loans'[m]) = Terms(loans[m])
      BY <1>5, <2>2, ClaimsWrites DEF Terms
    <3>4. QED
      BY <3>1, <3>2, <3>3 DEF Advances
  <2>3. QED
    BY <2>1, <2>2
<1>6. CASE UNCHANGED <<loans, factConsumedBy>>
  BY <1>2, <1>6
<1>7. QED
  BY <1>3, <1>4, <1>5, <1>6 DEF LoanBookStep

\* I4 of SECURITY.md: each of registerLoan, claimRepayment, markDelinquent, finalize
\* and challenge moves a loan forward, keeps its terms and never rewrites a claim.
THEOREM LoansAlwaysAdvance == Spec => LoansOnlyAdvance
<1>1. Core /\ Evidence /\ [Next]_vars =>
        [\A l \in LoanIds :
          /\ Forward(loans[l], loans'[l])
          /\ loans[l].status # "NONE" => Terms(loans'[l]) = Terms(loans[l])
          /\ loans[l].repaymentFactId # Zero => Claim(loans'[l]) = Claim(loans[l])]_vars
  BY StepsOf, LoanAdvances DEF Advances
<1>2. QED
  BY <1>1, CoreHolds, EvidenceHolds, PTL DEF Spec, LoansOnlyAdvance

\* What an originator published stays as it is.
PublishedKept(o) ==
    originators[o].active => originators'[o].active /\ Published(o)' = Published(o)

LEMMA PublishedStep ==
    ASSUME Core, [Next]_vars, NEW o \in OriginatorIds
    PROVE  PublishedKept(o)
<1>0. /\ originators \in [0..MaxOriginators -> Originator]
      /\ \A p \in OriginatorIds : p \in 0..MaxOriginators
      /\ \A l \in LoanIds : loans[l].originatorId \in 0..MaxOriginators
  BY InputAssumption, LoansTyped DEF Core, TypeOK, OriginatorIds, Loan
<1>1. CASE UNCHANGED originators
  BY <1>1 DEF PublishedKept, Published
<1>2. CASE \E sender \in Accounts, value \in Values, cw \in CircularWindows,
              w \in ChallengeWindows, covenants \in 0..3 :
                registerOriginator(sender, value, cw, w, covenants)
  <2>1. nextOriginatorId \in 0..MaxOriginators /\ originators[nextOriginatorId] = NoOriginator
    BY <1>2, InputAssumption DEF registerOriginator, Core, TypeOK, Slots
  <2>2. \A p \in 0..MaxOriginators : p # nextOriginatorId => originators'[p] = originators[p]
    BY <1>0, <1>2 DEF registerOriginator
  <2>3. QED
    BY <1>0, <2>1, <2>2 DEF PublishedKept, Published, NoOriginator
<1>3. CASE \E p \in OriginatorIds, value \in Values : topUpBond(p, value)
  BY <1>0, <1>3 DEF topUpBond, PublishedKept, Published, Originator
<1>4. CASE \E sender \in Accounts, p \in OriginatorIds, amount \in Values :
              withdrawBond(sender, p, amount)
  BY <1>0, <1>4 DEF withdrawBond, PublishedKept, Published, Originator
<1>5. CASE \E sender \in Accounts, p \in OriginatorIds, terms \in LoanTerms, f \in FactIds :
              registerLoan(sender, p, terms, f)
  BY <1>0, <1>5 DEF registerLoan, PublishedKept, Published, Originator
<1>6. CASE \E sender \in Accounts, l \in LoanIds, f \in FactIds :
              claimRepayment(sender, l, f)
  BY <1>0, <1>6 DEF claimRepayment, PublishedKept, Published, Originator
<1>7. CASE \E l \in LoanIds : finalize(l)
  BY <1>0, <1>7 DEF finalize, Released, PublishedKept, Published, Originator
<1>8. CASE \E sender \in Accounts, l \in LoanIds, f \in FactIds : challenge(sender, l, f)
  BY <1>0, <1>8 DEF challenge, PublishedKept, Published, Originator
<1>9. CASE \/ UNCHANGED vars
           \/ Tick
           \/ \E f \in FactIds : StoreFact(f)
           \/ \E sender \in Accounts, p \in OriginatorIds, a \in Addresses :
                 bindTreasury(sender, p, a)
           \/ \E l \in LoanIds : markDelinquent(l)
  <2>1. UNCHANGED originators
    BY <1>9 DEF vars, books, Tick, StoreFact, bindTreasury, markDelinquent
  <2>2. QED
    BY <1>1, <2>1
<1>10. QED
  BY <1>2, <1>3, <1>4, <1>5, <1>6, <1>7, <1>8, <1>9 DEF Next

\* A fact is charged to a loan once and stays charged to it.
LEMMA SpentStaysSpent ==
    ASSUME Core, LoanBookStep, NEW f \in FactIds, factConsumedBy[f] # 0
    PROVE  factConsumedBy'[f] = factConsumedBy[f]
<1>1. ASSUME NEW l \in LoanIds, Moves(l) PROVE factConsumedBy'[f] = factConsumedBy[f]
  BY <1>1 DEF Moves
<1>2. QED
  BY <1>1, OpensWrites, ClaimsWrites DEF LoanBookStep

\* What an originator is judged by is final for every caller: bindTreasury never binds
\* an address twice, no setter touches owner or windows, no fact changes its loan.
THEOREM RecordsStayPermanent == Spec => RecordsArePermanent
<1>1. Core /\ [Next]_vars =>
        [/\ \A o \in OriginatorIds :
             originators[o].active => originators'[o].active /\ Published(o)' = Published(o)
         /\ \A a \in Addresses : treasuryOwner[a] # 0 => treasuryOwner'[a] = treasuryOwner[a]
         /\ \A f \in FactIds : factConsumedBy[f] # 0 => factConsumedBy'[f] = factConsumedBy[f]]_vars
  BY StepsOf, PublishedStep, SpentStaysSpent DEF PublishedKept, Kept
<1>2. QED
  BY <1>1, CoreHolds, PTL DEF Spec, RecordsArePermanent

-----------------------------------------------------------------------------
(***************************************************************************)
(* Clearbook implements CovenantBook: the bond a lender may still use is   *)
(* what its exposure leaves of it, because exposure counts the open loans  *)
(* (Core); evidence is spent once, because factConsumedBy names the loan   *)
(* it backs (Evidence).                                                    *)
(***************************************************************************)

\* The book that Clearbook's storage stands for.
Free == [o \in OriginatorIds |-> FreeBond(o)]
Lender == [l \in LoanIds |-> loans[l].originatorId]
Stage == [l \in LoanIds |-> Phase(loans[l].status)]
Spends == [l \in LoanIds |-> Cited(l)]
PaidOut == paidBounties + paidSink
view == <<Free, Lender, Stage, Spends, PaidOut>>

-----------------------------------------------------------------------------
(* How the book follows the storage.                                       *)

LEMMA FreeIsUnencumbered ==
    ASSUME Core, NEW o \in OriginatorIds
    PROVE  FreeBond(o) = Unencumbered(o) /\ FreeBond(o) \in Nat
<1>1. o \in 0..MaxOriginators
  BY InputAssumption DEF OriginatorIds
<1>2. originators[o].bond \in Nat /\ originators[o].exposure \in Nat
  BY <1>1 DEF Core, TypeOK, Originator
<1>3. /\ originators[o].exposure = BOND_PER_LOAN * Cardinality(OpenLoans(o))
      /\ originators[o].bond >= originators[o].exposure
  BY DEF Core, ExposureCountsOpenLoans, BondCoversExposure
<1>4. QED
  BY <1>2, <1>3 DEF FreeBond, Unencumbered

FreeByExposure == \A o \in OriginatorIds : FreeBond(o) = Unencumbered(o)

LEMMA FreeIsByExposure == Core => FreeByExposure
BY FreeIsUnencumbered DEF FreeByExposure

LEMMA FreeStaysByExposure == Core' => FreeByExposure'
BY FreeIsByExposure, PTL

LEMMA FreeSame ==
    ASSUME Core, Core',
           \A p \in OriginatorIds : Unencumbered(p)' = Unencumbered(p)
    PROVE  Free' = Free
<1>1. \A p \in OriginatorIds : FreeBond(p)' = FreeBond(p)
  BY FreeIsByExposure, FreeStaysByExposure DEF FreeByExposure
<1>2. QED
  BY <1>1 DEF Free

LEMMA FreeChanges ==
    ASSUME Core, Core', NEW o \in OriginatorIds, NEW free,
           \A p \in OriginatorIds : p # o => Unencumbered(p)' = Unencumbered(p),
           Unencumbered(o)' = free
    PROVE  Free' = [Free EXCEPT ![o] = free]
<1>1. \A p \in OriginatorIds : p # o => FreeBond(p)' = FreeBond(p)
  BY FreeIsByExposure, FreeStaysByExposure DEF FreeByExposure
<1>2. FreeBond(o)' = free
  BY FreeStaysByExposure DEF FreeByExposure
<1>3. QED
  BY <1>1, <1>2 DEF Free

LEMMA LoanChanges ==
    ASSUME NEW l \in LoanIds, \A m \in LoanIds : m # l => loans'[m] = loans[m]
    PROVE  /\ Lender' = [Lender EXCEPT ![l] = loans'[l].originatorId]
           /\ Stage' = [Stage EXCEPT ![l] = Phase(loans'[l].status)]
           /\ Spends' = [Spends EXCEPT ![l] = Cited(l)']
<1>1. \A m \in LoanIds : m # l => Cited(m)' = Cited(m)
  BY DEF Cited
<1>2. Spends' = [Spends EXCEPT ![l] = Cited(l)']
  BY <1>1 DEF Spends
<1>3. QED
  BY <1>2 DEF Lender, Stage

\* A loan that keeps its originator and what it cites.
LEMMA LoanKeeps ==
    ASSUME NEW l \in LoanIds, \A m \in LoanIds : m # l => loans'[m] = loans[m],
           loans'[l].originatorId = loans[l].originatorId,
           loans'[l].disbursementFactId = loans[l].disbursementFactId,
           loans'[l].repaymentFactId = loans[l].repaymentFactId
    PROVE  UNCHANGED <<Lender, Spends>>
<1>1. \A m \in LoanIds : loans'[m].originatorId = loans[m].originatorId /\ Cited(m)' = Cited(m)
  BY DEF Cited
<1>2. QED
  BY <1>1 DEF Lender, Spends

LEMMA BookSame ==
    ASSUME UNCHANGED loans
    PROVE  UNCHANGED <<Lender, Stage, Spends>>
<1>1. \A m \in LoanIds : Cited(m)' = Cited(m)
  BY DEF Cited
<1>2. QED
  BY <1>1 DEF Lender, Stage, Spends

-----------------------------------------------------------------------------
(* One lemma per transaction that the book sees.                           *)

LEMMA StutterStep ==
    ASSUME Core, Core', UNCHANGED <<originators, loans, payments>>
    PROVE  UNCHANGED view
<1>1. \A p \in OriginatorIds : Unencumbered(p)' = Unencumbered(p)
  BY DEF Unencumbered
<1>2. QED
  BY <1>1, FreeSame, BookSame DEF view, PaidOut, payments

LEMMA MarkStep ==
    ASSUME Core, Core', NEW l \in LoanIds, markDelinquent(l)
    PROVE  UNCHANGED view
<1>1. /\ loans[l] \in Loan /\ loans[l].status = "REGISTERED"
      /\ loans' = [loans EXCEPT ![l].status = "DELINQUENT"]
      /\ UNCHANGED <<originators, payments>>
  BY LoansTyped DEF markDelinquent, Delinquent, books
<1>2. \A p \in OriginatorIds : Unencumbered(p)' = Unencumbered(p)
  BY <1>1 DEF Unencumbered
<1>3. \A m \in LoanIds : m # l => loans'[m] = loans[m]
  BY <1>1, LoansTyped
<1>4. loans'[l] = [loans[l] EXCEPT !.status = "DELINQUENT"]
  BY <1>1, LoansTyped
<1>5. UNCHANGED <<Lender, Spends>>
  BY <1>1, <1>3, <1>4, LoanKeeps DEF Loan
<1>6. Stage' = Stage
  <2>1. loans'[l].status = "DELINQUENT"
    BY <1>1, <1>4 DEF Loan
  <2>2. Phase(loans'[l].status) = Phase(loans[l].status)
    BY <1>1, <2>1 DEF Phase
  <2>3. QED
    BY <1>3, <2>2 DEF Stage
<1>7. QED
  BY <1>1, <1>2, <1>5, <1>6, FreeSame DEF view, PaidOut, payments

LEMMA BondStep ==
    ASSUME Core, Core', NEW o \in OriginatorIds, NEW free, UNCHANGED <<loans, payments>>,
           \A p \in OriginatorIds : p # o => Unencumbered(p)' = Unencumbered(p),
           Unencumbered(o)' = free
    PROVE  /\ Free' = [Free EXCEPT ![o] = free]
           /\ UNCHANGED <<Lender, Stage, Spends, PaidOut>>
BY FreeChanges, BookSame DEF PaidOut, payments

LEMMA DepositStep ==
    ASSUME Core, Core', NEW o \in OriginatorIds, NEW n \in Values, UNCHANGED <<loans, payments>>,
           \A p \in OriginatorIds : p # o => Unencumbered(p)' = Unencumbered(p),
           Unencumbered(o)' = Unencumbered(o) + n
    PROVE  Book!Deposit(o, n)
<1>1. Free[o] = Unencumbered(o)
  BY FreeIsUnencumbered DEF Free
<1>2. Free' = [Free EXCEPT ![o] = Free[o] + n]
  BY <1>1, BondStep
<1>3. UNCHANGED <<Lender, Stage, Spends, PaidOut>>
  BY BondStep
<1>4. QED
  BY <1>2, <1>3 DEF Book!Deposit, Free, Lender, Stage, Spends, PaidOut

LEMMA RegisterOriginatorStep ==
    ASSUME Core, Core', NEW sender \in Accounts, NEW value \in Values,
           NEW cw \in CircularWindows, NEW w \in ChallengeWindows, NEW covenants \in 0..3,
           registerOriginator(sender, value, cw, w, covenants)
    PROVE  \E o \in OriginatorIds : Book!Deposit(o, value)
<1> DEFINE o == nextOriginatorId
<1>1. o \in OriginatorIds /\ o \in 0..MaxOriginators /\ originators[o] = NoOriginator
  BY InputAssumption DEF registerOriginator, Core, TypeOK, Slots, OriginatorIds
<1>2. /\ originators \in [0..MaxOriginators -> Originator]
      /\ OriginatorIds \subseteq 0..MaxOriginators
      /\ value \in Nat
  BY InputAssumption DEF Core, TypeOK, OriginatorIds
<1>3. \A p \in OriginatorIds : p # o => Unencumbered(p)' = Unencumbered(p)
  BY <1>1, <1>2 DEF registerOriginator, Unencumbered
<1>4. Unencumbered(o) = 0
  BY <1>1 DEF Unencumbered, NoOriginator
<1>5. originators'[o].bond - originators'[o].exposure = value
  BY <1>1, <1>2 DEF registerOriginator
<1>6. PICK new \in OriginatorIds : new = o
  BY <1>1
<1>7. Unencumbered(new)' = Unencumbered(new) + value
  BY <1>2, <1>4, <1>5, <1>6 DEF Unencumbered
<1>8. UNCHANGED <<loans, payments>>
  BY DEF registerOriginator, loanBook
<1>9. Book!Deposit(new, value)
  BY <1>3, <1>6, <1>7, <1>8, DepositStep
<1>10. QED
  BY <1>9

LEMMA TopUpStep ==
    ASSUME Core, Core', NEW o \in OriginatorIds, NEW value \in Values, topUpBond(o, value)
    PROVE  Book!Deposit(o, value)
<1>1. /\ originators \in [0..MaxOriginators -> Originator]
      /\ OriginatorIds \subseteq 0..MaxOriginators
      /\ value \in Nat
  BY InputAssumption DEF Core, TypeOK, OriginatorIds
<1>2. originators[o].bond \in Nat /\ originators[o].exposure \in Nat
  BY <1>1 DEF Originator
<1>3. \A p \in OriginatorIds : p # o => Unencumbered(p)' = Unencumbered(p)
  BY <1>1 DEF topUpBond, Unencumbered
<1>4. /\ originators'[o].bond = originators[o].bond + value
      /\ originators'[o].exposure = originators[o].exposure
  BY <1>1 DEF topUpBond, Originator
<1>5. Unencumbered(o)' = Unencumbered(o) + value
  BY <1>1, <1>2, <1>4 DEF Unencumbered
<1>6. UNCHANGED <<loans, payments>>
  BY DEF topUpBond, loanBook
<1>7. QED
  BY <1>3, <1>5, <1>6, DepositStep

LEMMA WithdrawStep ==
    ASSUME Core, Core', NEW sender \in Accounts, NEW o \in OriginatorIds, NEW amount \in Values,
           withdrawBond(sender, o, amount)
    PROVE  Book!Withdraw(o, amount)
<1>1. /\ originators \in [0..MaxOriginators -> Originator]
      /\ OriginatorIds \subseteq 0..MaxOriginators
      /\ amount \in Nat
  BY InputAssumption DEF Core, TypeOK, OriginatorIds
<1>2. originators[o].bond \in Nat /\ originators[o].exposure \in Nat
  BY <1>1 DEF Originator
<1>3. \A p \in OriginatorIds : p # o => Unencumbered(p)' = Unencumbered(p)
  BY <1>1 DEF withdrawBond, Unencumbered
<1>4. /\ originators'[o].bond = originators[o].bond - amount
      /\ originators'[o].exposure = originators[o].exposure
  BY <1>1 DEF withdrawBond, Originator
<1>5. Unencumbered(o)' = Unencumbered(o) - amount
  BY <1>1, <1>2, <1>4 DEF Unencumbered
<1>6. UNCHANGED <<loans, payments>>
  BY DEF withdrawBond, loanBook
<1>7. Free[o] = Unencumbered(o)
  BY FreeIsUnencumbered DEF Free
<1>8. Free' = [Free EXCEPT ![o] = Free[o] - amount]
  BY <1>3, <1>5, <1>6, <1>7, BondStep
<1>9. UNCHANGED <<Lender, Stage, Spends, PaidOut>>
  BY <1>3, <1>5, <1>6, BondStep
<1>10. Free[o] >= amount
  BY <1>7 DEF withdrawBond
<1>11. QED
  BY <1>8, <1>9, <1>10 DEF Book!Withdraw, Free, Lender, Stage, Spends, PaidOut

LEMMA LendStep ==
    ASSUME Core, Core', Evidence, NEW sender \in Accounts, NEW o \in OriginatorIds,
           NEW terms \in LoanTerms, NEW f \in FactIds, registerLoan(sender, o, terms, f)
    PROVE  \E l \in LoanIds : Book!Lend(o, l, f)
<1>1. PICK l \in LoanIds : l = nextLoanId /\ loans[l] = NoLoan
  BY InputAssumption DEF registerLoan, Core, TypeOK, Slots, LoanIds
<1>2. /\ originators \in [0..MaxOriginators -> Originator]
      /\ OriginatorIds \subseteq 0..MaxOriginators
      /\ BOND_PER_LOAN \in Nat
  BY SMTT(30), InputAssumption, ParameterAssumption DEF Core, TypeOK, OriginatorIds
<1>3. /\ loans' = [loans EXCEPT ![l] = NewLoan(o, terms, f)]
      /\ originators' = [originators EXCEPT ![o].exposure = @ + BOND_PER_LOAN]
      /\ Unencumbered(o) >= BOND_PER_LOAN
      /\ factConsumedBy[f] = 0
      /\ UNCHANGED payments
  BY <1>1 DEF registerLoan, Disburses
<1>4. \A p \in OriginatorIds : p # o => Unencumbered(p)' = Unencumbered(p)
  BY <1>2, <1>3 DEF Unencumbered
<1>5. Unencumbered(o)' = Unencumbered(o) - BOND_PER_LOAN
  <2>1. originators[o].bond \in Nat /\ originators[o].exposure \in Nat
    BY <1>2 DEF Originator
  <2>2. /\ originators'[o].bond = originators[o].bond
        /\ originators'[o].exposure = originators[o].exposure + BOND_PER_LOAN
    BY <1>2, <1>3 DEF Originator
  <2>3. QED
    BY <1>2, <2>1, <2>2 DEF Unencumbered
<1>6. Free[o] = Unencumbered(o)
  BY FreeIsUnencumbered DEF Free
<1>7. Free' = [Free EXCEPT ![o] = Free[o] - BOND_PER_LOAN]
  BY <1>4, <1>5, <1>6, FreeChanges
<1>8. /\ \A m \in LoanIds : m # l => loans'[m] = loans[m]
      /\ loans'[l] = NewLoan(o, terms, f)
  BY <1>3, LoansTyped
<1>9. Cited(l)' = {f}
  BY <1>8, LoansTyped DEF Cited, NewLoan
<1>10. Phase(loans'[l].status) = "open" /\ loans'[l].originatorId = o
  BY <1>8 DEF NewLoan, Phase
<1>11. /\ Lender' = [Lender EXCEPT ![l] = o]
       /\ Stage' = [Stage EXCEPT ![l] = "open"]
       /\ Spends' = [Spends EXCEPT ![l] = {f}]
  BY <1>8, <1>9, <1>10, LoanChanges
<1>12. f \notin UNION {Spends[m] : m \in LoanIds}
  BY <1>3, UnspentIsUncited DEF Spends, Cited, Evidence
<1>13. Stage[l] = "none"
  BY <1>1 DEF Stage, Phase, NoLoan
<1>14. Free[o] >= BOND_PER_LOAN
  BY <1>3, <1>6
<1>15. PaidOut' = PaidOut
  BY <1>3 DEF PaidOut, payments
<1>16. Book!Lend(o, l, f)
  BY <1>7, <1>11, <1>12, <1>13, <1>14, <1>15
  DEF Book!Lend, Book!Spent, Free, Lender, Stage, Spends, PaidOut
<1>17. QED
  BY <1>16

LEMMA ClaimStep ==
    ASSUME Core, Core', Evidence, NEW sender \in Accounts, NEW l \in LoanIds,
           NEW f \in FactIds, claimRepayment(sender, l, f)
    PROVE  Book!ClaimRepaid(l, f)
<1> DEFINE o == loans[l].originatorId
<1>1. /\ originators \in [0..MaxOriginators -> Originator]
      /\ OriginatorIds \subseteq 0..MaxOriginators
      /\ o \in 0..MaxOriginators
      /\ loans[l] \in Loan
  BY SMTT(30), InputAssumption, LoansTyped DEF Core, TypeOK, OriginatorIds, Loan
<1>2. /\ loans[l].status \in ClaimableStatus
      /\ factConsumedBy[f] = 0
      /\ loans' = [loans EXCEPT ![l].repaymentFactId = f,
                                ![l].claimBlock = number,
                                ![l].status = "REPAYMENT_CLAIMED"]
      /\ originators' = [originators EXCEPT ![o].lastClaimBlock = number]
      /\ UNCHANGED payments
  BY DEF claimRepayment, Repays
<1>3. \A p \in OriginatorIds : Unencumbered(p)' = Unencumbered(p)
  BY <1>1, <1>2 DEF Unencumbered, Originator
<1>4. Free' = Free
  BY <1>3, FreeSame
<1>5. /\ \A m \in LoanIds : m # l => loans'[m] = loans[m]
      /\ loans'[l].originatorId = o
      /\ loans'[l].disbursementFactId = loans[l].disbursementFactId
      /\ loans'[l].repaymentFactId = f
      /\ loans'[l].status = "REPAYMENT_CLAIMED"
  BY <1>1, <1>2, LoansTyped DEF Loan
<1>6. loans[l].repaymentFactId = Zero
  BY <1>2 DEF Evidence, ClaimedNamesRepayment
<1>7. Cited(l)' = Cited(l) \cup {f}
  BY <1>5, <1>6, LoansTyped DEF Cited
<1>8. /\ Stage' = [Stage EXCEPT ![l] = "claimed"]
      /\ Spends' = [Spends EXCEPT ![l] = Spends[l] \cup {f}]
      /\ Lender' = Lender
  <2>1. Phase(loans'[l].status) = "claimed"
    BY <1>5 DEF Phase
  <2>2. Spends[l] = Cited(l)
    BY DEF Spends
  <2>3. \A m \in LoanIds : loans'[m].originatorId = loans[m].originatorId
    BY <1>5
  <2>4. QED
    BY <1>5, <1>7, <2>1, <2>2, <2>3, LoanChanges DEF Lender
<1>9. f \notin UNION {Spends[m] : m \in LoanIds}
  BY <1>2, UnspentIsUncited DEF Spends, Cited, Evidence
<1>10. Stage[l] = "open"
  BY <1>2 DEF Stage, Phase, ClaimableStatus
<1>11. PaidOut' = PaidOut
  BY <1>2 DEF PaidOut, payments
<1>12. QED
  BY <1>4, <1>8, <1>9, <1>10, <1>11
  DEF Book!ClaimRepaid, Book!Spent, Free, Lender, Stage, Spends, PaidOut

\* What the two ends of a claim have in common.
LEMMA EndsLoan ==
    ASSUME Core, NEW l \in LoanIds, loans[l].status = "REPAYMENT_CLAIMED",
           NEW end \in {"SETTLED", "BREACHED"},
           loans' = [loans EXCEPT ![l].status = end]
    PROVE  /\ loans[l].originatorId \in OriginatorIds
           /\ Stage[l] = "claimed"
           /\ Stage' = [Stage EXCEPT ![l] = Phase(end)]
           /\ UNCHANGED <<Lender, Spends>>
           /\ Lender[l] = loans[l].originatorId
<1>1. loans[l] \in Loan
  BY LoansTyped
<1>2. /\ \A m \in LoanIds : m # l => loans'[m] = loans[m]
      /\ loans'[l] = [loans[l] EXCEPT !.status = end]
  BY LoansTyped
<1>3. /\ loans'[l].status = end
      /\ loans'[l].originatorId = loans[l].originatorId
      /\ loans'[l].disbursementFactId = loans[l].disbursementFactId
      /\ loans'[l].repaymentFactId = loans[l].repaymentFactId
  BY <1>1, <1>2 DEF Loan
<1>4. UNCHANGED <<Lender, Spends>>
  BY <1>2, <1>3, LoanKeeps
<1>5. Stage' = [Stage EXCEPT ![l] = Phase(end)]
  BY <1>2, <1>3, LoanChanges
<1>6. Stage[l] = "claimed"
  BY DEF Stage, Phase
<1>7. loans[l].originatorId \in OriginatorIds
  BY LoanOriginator
<1>8. QED
  BY <1>4, <1>5, <1>6, <1>7 DEF Lender

LEMMA SettleStep ==
    ASSUME Core, Core', NEW l \in LoanIds, finalize(l)
    PROVE  Book!Settle(l)
<1>1. /\ loans[l].status = "REPAYMENT_CLAIMED"
      /\ loans' = [loans EXCEPT ![l].status = "SETTLED"]
      /\ originators' = Released(loans[l].originatorId)
      /\ UNCHANGED payments
  BY DEF finalize, Finalizable
<1>2. PICK o \in OriginatorIds : o = loans[l].originatorId
  BY <1>1, EndsLoan
<1>3. /\ originators \in [0..MaxOriginators -> Originator]
      /\ OriginatorIds \subseteq 0..MaxOriginators
      /\ BOND_PER_LOAN \in Nat
  BY InputAssumption, ParameterAssumption DEF Core, TypeOK, OriginatorIds
<1>4. originators[o].bond \in Nat /\ originators[o].exposure \in Nat
  BY <1>3 DEF Originator
<1>5. originators' = [originators EXCEPT ![o].exposure = @ - BOND_PER_LOAN]
  BY <1>1, <1>2 DEF Released
<1>6. \A p \in OriginatorIds : p # o => Unencumbered(p)' = Unencumbered(p)
  BY <1>3, <1>5 DEF Unencumbered
<1>7. /\ originators'[o].bond = originators[o].bond
      /\ originators'[o].exposure = originators[o].exposure - BOND_PER_LOAN
  BY <1>3, <1>5 DEF Originator
<1>8. Unencumbered(o)' = Unencumbered(o) + BOND_PER_LOAN
  BY <1>3, <1>4, <1>7 DEF Unencumbered
<1>9. Free[o] = Unencumbered(o)
  BY FreeIsUnencumbered DEF Free
<1>10. Free' = [Free EXCEPT ![o] = Free[o] + BOND_PER_LOAN]
  BY <1>6, <1>8, <1>9, FreeChanges
<1>11. /\ Stage[l] = "claimed"
       /\ Stage' = [Stage EXCEPT ![l] = Phase("SETTLED")]
       /\ UNCHANGED <<Lender, Spends>>
       /\ Lender[l] = o
  BY <1>1, <1>2, EndsLoan
<1>12. Phase("SETTLED") = "settled"
  BY DEF Phase
<1>13. PaidOut' = PaidOut
  BY <1>1 DEF PaidOut, payments
<1>14. QED
  BY <1>10, <1>11, <1>12, <1>13 DEF Book!Settle, Free, Lender, Stage, Spends, PaidOut

LEMMA BreachStep ==
    ASSUME Core, Core', NEW sender \in Accounts, NEW l \in LoanIds, NEW f \in FactIds,
           challenge(sender, l, f)
    PROVE  Book!Breach(l)
<1>1. /\ loans[l].status = "REPAYMENT_CLAIMED"
      /\ loans' = [loans EXCEPT ![l].status = "BREACHED"]
  BY DEF challenge, Challengeable
<1>2. PICK o \in OriginatorIds : o = loans[l].originatorId
  BY <1>1, EndsLoan
<1>3. /\ originators \in [0..MaxOriginators -> Originator]
      /\ OriginatorIds \subseteq 0..MaxOriginators
      /\ BOND_PER_LOAN \in Nat
      /\ paidBounties \in Nat /\ paidSink \in Nat
  BY InputAssumption, ParameterAssumption DEF Core, TypeOK, OriginatorIds
<1>4. originators[o].bond \in Nat /\ originators[o].exposure \in Nat
  BY <1>3 DEF Originator
<1>5. originators[o].bond >= BOND_PER_LOAN
  <2>1. IsOpen(loans[l])
    BY <1>1 DEF IsOpen
  <2>2. originators[o].bond - BOND_PER_LOAN \in Nat
    BY <1>2, <2>1, OpenLoanIsCovered
  <2>3. QED
    BY <1>3, <1>4, <2>2
<1>6. Slash(o) = BOND_PER_LOAN
  BY <1>4, <1>5, FullSlash
<1>7. /\ originators' = [originators EXCEPT ![o].bond = @ - BOND_PER_LOAN,
                                            ![o].exposure = @ - BOND_PER_LOAN]
      /\ paidBounties' = paidBounties + Bounty(BOND_PER_LOAN)
      /\ paidSink' = paidSink + ToSink(BOND_PER_LOAN)
  BY <1>2, <1>6 DEF challenge
<1>8. \A p \in OriginatorIds : Unencumbered(p)' = Unencumbered(p)
  <2>1. \A p \in OriginatorIds : p # o => Unencumbered(p)' = Unencumbered(p)
    BY <1>3, <1>7 DEF Unencumbered
  <2>2. /\ originators'[o].bond = originators[o].bond - BOND_PER_LOAN
        /\ originators'[o].exposure = originators[o].exposure - BOND_PER_LOAN
    BY <1>3, <1>7 DEF Originator
  <2>3. Unencumbered(o)' = Unencumbered(o)
    BY <1>3, <1>4, <2>2 DEF Unencumbered
  <2>4. QED
    BY <2>1, <2>3
<1>9. Free' = Free
  BY <1>8, FreeSame
<1>10. PaidOut' = PaidOut + BOND_PER_LOAN
  BY <1>3, <1>7, SlashSplits DEF PaidOut
<1>11. /\ Stage[l] = "claimed"
       /\ Stage' = [Stage EXCEPT ![l] = Phase("BREACHED")]
       /\ UNCHANGED <<Lender, Spends>>
  BY <1>1, EndsLoan
<1>12. Phase("BREACHED") = "breached"
  BY DEF Phase
<1>13. QED
  BY <1>9, <1>10, <1>11, <1>12 DEF Book!Breach, Free, Lender, Stage, Spends, PaidOut

-----------------------------------------------------------------------------
LEMMA BookInit ==
    ASSUME Init
    PROVE  Book!Init
<1>1. \A o \in OriginatorIds : FreeBond(o) = 0
  <2>1. \A o \in OriginatorIds : o \in 0..MaxOriginators
    BY InputAssumption DEF OriginatorIds
  <2>2. \A o \in OriginatorIds : Unencumbered(o) = 0
    BY <2>1 DEF Init, Unencumbered, NoOriginator
  <2>3. QED
    BY <2>2, CoreInit, FreeIsUnencumbered
<1>2. \A l \in LoanIds : /\ loans[l].originatorId = 0
                         /\ Phase(loans[l].status) = "none"
                         /\ Cited(l) = {}
  BY DEF Init, NoLoan, Phase, Cited
<1>3. paidBounties + paidSink = 0
  BY DEF Init
<1>4. Free = [o \in OriginatorIds |-> 0]
  BY <1>1 DEF Free
<1>5. Lender = [l \in LoanIds |-> 0] /\ Stage = [l \in LoanIds |-> "none"]
  BY <1>2 DEF Lender, Stage
<1>6. Spends = [l \in LoanIds |-> {}]
  BY <1>2 DEF Spends
<1>7. QED
  BY <1>3, <1>4, <1>5, <1>6 DEF Book!Init, Free, Lender, Stage, Spends

LEMMA BookNext ==
    ASSUME Core, Core', Evidence, [Next]_vars
    PROVE  Book!Next \/ UNCHANGED view
<1>1. CASE UNCHANGED vars
  BY <1>1, StutterStep DEF vars, vault, books, loanBook, payments
<1>2. CASE Tick
  BY <1>2, StutterStep DEF Tick, books, loanBook
<1>3. CASE \E f \in FactIds : StoreFact(f)
  BY <1>3, StutterStep DEF StoreFact, books, loanBook
<1>4. CASE \E sender \in Accounts, value \in Values, cw \in CircularWindows,
              w \in ChallengeWindows, covenants \in 0..3 :
                registerOriginator(sender, value, cw, w, covenants)
  BY <1>4, RegisterOriginatorStep DEF Book!Next
<1>5. CASE \E sender \in Accounts, o \in OriginatorIds, a \in Addresses :
              bindTreasury(sender, o, a)
  BY <1>5, StutterStep DEF bindTreasury, loanBook
<1>6. CASE \E o \in OriginatorIds, value \in Values : topUpBond(o, value)
  BY <1>6, TopUpStep DEF Book!Next
<1>7. CASE \E sender \in Accounts, o \in OriginatorIds, amount \in Values :
              withdrawBond(sender, o, amount)
  BY <1>7, WithdrawStep DEF Book!Next
<1>8. CASE \E sender \in Accounts, o \in OriginatorIds, terms \in LoanTerms, f \in FactIds :
              registerLoan(sender, o, terms, f)
  BY <1>8, LendStep DEF Book!Next
<1>9. CASE \E sender \in Accounts, l \in LoanIds, f \in FactIds :
              claimRepayment(sender, l, f)
  BY <1>9, ClaimStep DEF Book!Next
<1>10. CASE \E l \in LoanIds : markDelinquent(l)
  BY <1>10, MarkStep
<1>11. CASE \E l \in LoanIds : finalize(l)
  BY <1>11, SettleStep DEF Book!Next
<1>12. CASE \E sender \in Accounts, l \in LoanIds, f \in FactIds : challenge(sender, l, f)
  BY <1>12, BreachStep DEF Book!Next
<1>13. QED
  BY <1>1, <1>2, <1>3, <1>4, <1>5, <1>6, <1>7, <1>8, <1>9, <1>10, <1>11, <1>12 DEF Next

\* Whoever relies on the book may forget blocks, windows, treasuries and transfers: no
\* order of the contract's transactions sets bond aside twice, ends a loan twice or
\* without a claim, or spends one piece of evidence on two claims.
THEOREM ClearbookIsACovenantBook == Spec => ImplementsCovenantBook
<1>1. Init => Book!Init
  BY BookInit
<1>2. Core /\ Core' /\ Evidence /\ [Next]_vars => [Book!Next]_(Book!vars)
  BY BookNext DEF Book!vars, view, Free, Lender, Stage, Spends, PaidOut
<1>3. QED
  BY <1>1, <1>2, CoreHolds, EvidenceHolds, PTL DEF Spec, ImplementsCovenantBook, Book!Spec
=============================================================================

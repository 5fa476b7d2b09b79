--------------------------- MODULE ClearbookProofs ---------------------------
(***************************************************************************)
(* Proofs about Clearbook, for every number of originators and loans, every *)
(* ledger, every set of inputs and every value of the contract's constants. *)
(*                                                                         *)
(* The inductive invariant Core joins four facts that need each other: a   *)
(* checked subtraction stays natural because the exposure counts the open  *)
(* loans, the count is right because unused slots are empty, and the bond  *)
(* covers the exposure because both move together.                         *)
(***************************************************************************)
EXTENDS ClearbookSafety, FiniteSetTheorems, WellFoundedInduction, TLAPS

\* Slots are filled in order, and every loan belongs to a registered originator.
Slots ==
    /\ \A o \in 0..MaxOriginators :
          (o = 0 \/ o >= nextOriginatorId) => originators[o] = NoOriginator
    /\ \A l \in LoanIds : l >= nextLoanId => loans[l] = NoLoan
    /\ \A l \in LoanIds : l < nextLoanId =>
          /\ loans[l].status # "NONE"
          /\ loans[l].originatorId \in 1..(nextOriginatorId - 1)

Core ==
    /\ TypeOK
    /\ Slots
    /\ ExposureCountsOpenLoans
    /\ BondCoversExposure

-----------------------------------------------------------------------------
(* The open loans of an originator are finitely many, and how a step that  *)
(* opens or ends one changes their number.                                 *)

LEMMA LoanSetsFinite ==
    ASSUME NEW S \in SUBSET LoanIds
    PROVE  IsFiniteSet(S) /\ Cardinality(S) \in Nat
<1>1. IsFiniteSet(LoanIds)
  BY FS_Interval, InputAssumption DEF LoanIds
<1>2. QED
  BY <1>1, FS_Subset, FS_CardinalityType

LEMMA CountAdds ==
    ASSUME NEW S \in SUBSET LoanIds, NEW l \in LoanIds, l \notin S
    PROVE  BOND_PER_LOAN * Cardinality(S \cup {l})
             = BOND_PER_LOAN * Cardinality(S) + BOND_PER_LOAN
<1>1. Cardinality(S \cup {l}) = Cardinality(S) + 1
  BY LoanSetsFinite, FS_AddElement
<1>2. \A a, n \in Nat : a * (n + 1) = a * n + a
  OBVIOUS
<1>3. QED
  BY <1>1, <1>2, LoanSetsFinite, ParameterAssumption

LEMMA CountRemoves ==
    ASSUME NEW S \in SUBSET LoanIds, NEW l \in S
    PROVE  BOND_PER_LOAN * Cardinality(S)
             = BOND_PER_LOAN * Cardinality(S \ {l}) + BOND_PER_LOAN
<1>1. (S \ {l}) \cup {l} = S
  OBVIOUS
<1>2. QED
  BY <1>1, CountAdds

\* Any set of loans counts for a natural amount of bond.
LEMMA CountIsNatural ==
    ASSUME NEW S \in SUBSET LoanIds
    PROVE  BOND_PER_LOAN * Cardinality(S) \in Nat
<1>1. \A a, n \in Nat : a * n \in Nat
  OBVIOUS
<1>2. QED
  BY <1>1, LoanSetsFinite, ParameterAssumption

-----------------------------------------------------------------------------
(* Core is inductive: one lemma for each kind of step.                     *)

LEMMA CoreInit == Init => Core
<1> SUFFICES ASSUME Init PROVE Core
  OBVIOUS
<1>1. TypeOK
  BY ParameterAssumption, InputAssumption
  DEF Init, TypeOK, OriginatorIds, LoanIds, Originator, NoOriginator, Loan, NoLoan, LoanStatus
<1>2. Slots
  BY DEF Init, Slots, LoanIds
<1>3. \A o \in OriginatorIds : OpenLoans(o) = {}
  BY DEF Init, OpenLoans, IsOpen, NoLoan, OriginatorIds
<1>4. ExposureCountsOpenLoans
  <2>1. BOND_PER_LOAN * Cardinality({}) = 0
    BY FS_EmptySet, ParameterAssumption
  <2>2. \A o \in OriginatorIds : originators[o].exposure = 0
    BY DEF Init, NoOriginator, OriginatorIds
  <2>3. QED
    BY <1>3, <2>1, <2>2 DEF ExposureCountsOpenLoans
<1>5. BondCoversExposure
  BY DEF Init, BondCoversExposure, NoOriginator, OriginatorIds
<1>6. QED
  BY <1>1, <1>2, <1>4, <1>5 DEF Core

\* Steps that touch neither an originator nor a loan.
LEMMA CoreStutter ==
    ASSUME Core, TypeOK',
           UNCHANGED <<originators, nextOriginatorId, loans, nextLoanId>>
    PROVE  Core'
<1>1. Slots'
  BY DEF Core, Slots
<1>2. \A o \in OriginatorIds : OpenLoans(o)' = OpenLoans(o)
  BY DEF OpenLoans
<1>3. ExposureCountsOpenLoans' /\ BondCoversExposure'
  BY <1>2 DEF Core, ExposureCountsOpenLoans, BondCoversExposure
<1>4. QED
  BY <1>1, <1>3 DEF Core

LEMMA CoreTick == ASSUME Core, Tick PROVE Core'
<1>1. TypeOK'
  BY DEF Core, TypeOK, Tick, books, loanBook, payments
<1>2. QED
  BY <1>1, CoreStutter DEF Tick, books, loanBook

LEMMA CoreStoreFact ==
    ASSUME Core, NEW f \in FactIds, StoreFact(f) PROVE Core'
<1>1. TypeOK'
  BY DEF Core, TypeOK, StoreFact, books, loanBook, payments
<1>2. QED
  BY <1>1, CoreStutter DEF StoreFact, books, loanBook

LEMMA CoreBindTreasury ==
    ASSUME Core, NEW sender \in Accounts, NEW o \in OriginatorIds,
           NEW a \in Addresses, bindTreasury(sender, o, a)
    PROVE  Core'
<1>1. TypeOK'
  BY DEF Core, TypeOK, bindTreasury, OriginatorIds, vault, loanBook, payments
<1>2. QED
  BY <1>1, CoreStutter DEF bindTreasury, loanBook

\* Steps that change bonds but no loan and no exposure.
LEMMA CoreBond ==
    ASSUME Core, TypeOK', Slots', UNCHANGED loans,
           \A o \in OriginatorIds :
              /\ originators'[o].exposure = originators[o].exposure
              /\ originators'[o].bond >= originators'[o].exposure
    PROVE  Core'
<1>1. \A o \in OriginatorIds : OpenLoans(o)' = OpenLoans(o)
  BY DEF OpenLoans
<1>2. ExposureCountsOpenLoans'
  BY <1>1 DEF Core, ExposureCountsOpenLoans
<1>3. QED
  BY <1>2 DEF Core, BondCoversExposure

LEMMA CoreRegisterOriginator ==
    ASSUME Core, NEW sender \in Accounts, NEW value \in Values,
           NEW cw \in CircularWindows, NEW w \in ChallengeWindows, NEW covenants \in 0..3,
           registerOriginator(sender, value, cw, w, covenants)
    PROVE  Core'
<1> DEFINE n == nextOriginatorId
<1>1. n \in OriginatorIds /\ originators[n] = NoOriginator
  BY DEF Core, TypeOK, Slots, registerOriginator, OriginatorIds
<1>2. /\ originators' = [originators EXCEPT ![n] =
             [ owner |-> sender, bond |-> value, exposure |-> 0, circularWindow |-> cw,
               challengeWindow |-> w, lastClaimBlock |-> 0, active |-> TRUE ]]
      /\ nextOriginatorId' = n + 1
      /\ balance' = balance + value
      /\ UNCHANGED <<vault, treasuryOwner, bindingNonce, loanBook, payments>>
  BY DEF registerOriginator
<1>3. value \in Nat /\ cw \in Nat /\ w \in Nat
  BY InputAssumption
<1>4. TypeOK'
  <2>1. [ owner |-> sender, bond |-> value, exposure |-> 0, circularWindow |-> cw,
          challengeWindow |-> w, lastClaimBlock |-> 0, active |-> TRUE ] \in Originator
    BY <1>3 DEF Originator
  <2>2. originators' \in [0..MaxOriginators -> Originator]
    BY <1>2, <2>1 DEF Core, TypeOK
  <2>3. nextOriginatorId' \in 1..(MaxOriginators + 1)
    BY <1>1, <1>2, InputAssumption DEF OriginatorIds
  <2>4. balance' \in Int
    BY <1>2, <1>3 DEF Core, TypeOK
  <2>5. QED
    BY <1>2, <2>2, <2>3, <2>4 DEF Core, TypeOK, vault, loanBook, payments
<1>5. Slots'
  <2>1. \A o \in 0..MaxOriginators :
           (o = 0 \/ o >= nextOriginatorId') => originators'[o] = NoOriginator
    BY <1>1, <1>2 DEF Core, TypeOK, Slots, OriginatorIds
  <2>2. UNCHANGED <<loans, nextLoanId>>
    BY <1>2 DEF loanBook
  <2>3. 1..(n - 1) \subseteq 1..(nextOriginatorId' - 1)
    BY <1>1, <1>2 DEF OriginatorIds
  <2>4. QED
    BY <2>1, <2>2, <2>3 DEF Core, Slots
<1>6. \A o \in OriginatorIds : /\ originators'[o].exposure = originators[o].exposure
                               /\ originators'[o].bond >= originators'[o].exposure
  BY <1>1, <1>2, <1>3 DEF Core, TypeOK, BondCoversExposure, OriginatorIds, NoOriginator
<1>7. QED
  BY <1>2, <1>4, <1>5, <1>6, CoreBond DEF loanBook

\* A slot that is in use: its originator owns it, or it is active.
LEMMA UsedOriginator ==
    ASSUME Core, NEW o \in 0..MaxOriginators,
           originators[o].owner \in Accounts \/ originators[o].active
    PROVE  o \in OriginatorIds /\ o \in 1..(nextOriginatorId - 1)
<1>1. NoOriginator.owner \notin Accounts /\ ~NoOriginator.active
  BY ZeroAssumption DEF NoOriginator
<1>2. originators[o] # NoOriginator
  BY <1>1
<1>3. QED
  BY <1>2 DEF Core, TypeOK, Slots, OriginatorIds

\* Changing the bond of a used slot keeps the slots and the types.
LEMMA BondStepSlots ==
    ASSUME Core, NEW o \in OriginatorIds, o \in 1..(nextOriginatorId - 1), NEW b \in Nat,
           originators' = [originators EXCEPT ![o].bond = b],
           UNCHANGED <<nextOriginatorId, loans, nextLoanId>>
    PROVE  /\ Slots'
           /\ originators' \in [0..MaxOriginators -> Originator]
           /\ \A p \in OriginatorIds :
                 /\ originators'[p].exposure = originators[p].exposure
                 /\ p # o => originators'[p].bond = originators[p].bond
           /\ originators'[o].bond = b
<1>1. originators \in [0..MaxOriginators -> Originator]
  BY DEF Core, TypeOK
<1>2. \A p \in 0..MaxOriginators : p # o => originators'[p] = originators[p]
  BY <1>1
<1>3. o \in 0..MaxOriginators /\ o # 0 /\ ~(o >= nextOriginatorId)
  BY DEF OriginatorIds, Core, TypeOK
<1>4. originators'[o] = [originators[o] EXCEPT !.bond = b]
  BY <1>1, <1>3
<1>5. originators'[o] \in Originator /\ originators'[o].exposure = originators[o].exposure
  BY <1>1, <1>3, <1>4 DEF Originator
<1>6. originators'[o].bond = b
  BY <1>1, <1>3, <1>4 DEF Originator
<1>7. Slots'
  BY <1>2, <1>3 DEF Core, Slots
<1>8. QED
  BY <1>1, <1>2, <1>5, <1>6, <1>7 DEF OriginatorIds

LEMMA CoreTopUpBond ==
    ASSUME Core, NEW o \in OriginatorIds, NEW value \in Values, topUpBond(o, value)
    PROVE  Core'
<1> DEFINE b == originators[o].bond + value
<1>1. value \in Nat /\ originators[o].bond \in Nat /\ originators[o].exposure \in Nat
  BY InputAssumption DEF Core, TypeOK, Originator, OriginatorIds
<1>2. o \in 1..(nextOriginatorId - 1)
  BY UsedOriginator DEF topUpBond, OriginatorIds
<1>3. /\ originators' = [originators EXCEPT ![o].bond = b]
      /\ balance' = balance + value
      /\ UNCHANGED <<number, stored, nextOriginatorId, treasuryOwner, bindingNonce,
                     loans, nextLoanId, factConsumedBy, paidBounties, paidSink>>
  BY DEF topUpBond, vault, loanBook, payments
<1>4. b \in Nat
  BY <1>1
<1>5. /\ Slots'
      /\ originators' \in [0..MaxOriginators -> Originator]
      /\ \A p \in OriginatorIds :
            /\ originators'[p].exposure = originators[p].exposure
            /\ p # o => originators'[p].bond = originators[p].bond
      /\ originators'[o].bond = b
  BY <1>2, <1>3, <1>4, BondStepSlots
<1>6. TypeOK'
  BY <1>1, <1>3, <1>5 DEF Core, TypeOK
<1>7. \A p \in OriginatorIds : originators'[p].bond >= originators'[p].exposure
  BY <1>1, <1>5 DEF Core, BondCoversExposure
<1>8. QED
  BY <1>3, <1>5, <1>6, <1>7, CoreBond

LEMMA CoreWithdrawBond ==
    ASSUME Core, NEW sender \in Accounts, NEW o \in OriginatorIds, NEW amount \in Values,
           withdrawBond(sender, o, amount)
    PROVE  Core'
<1> DEFINE b == originators[o].bond - amount
<1>1. amount \in Nat /\ originators[o].bond \in Nat /\ originators[o].exposure \in Nat
  BY InputAssumption DEF Core, TypeOK, Originator, OriginatorIds
<1>2. o \in 1..(nextOriginatorId - 1)
  BY UsedOriginator DEF withdrawBond, OriginatorIds
<1>3. /\ originators' = [originators EXCEPT ![o].bond = b]
      /\ balance' = balance - amount
      /\ UNCHANGED <<number, stored, nextOriginatorId, treasuryOwner, bindingNonce,
                     loans, nextLoanId, factConsumedBy, paidBounties, paidSink>>
  BY DEF withdrawBond, vault, loanBook, payments
<1>4. b \in Nat /\ b >= originators[o].exposure
  BY <1>1 DEF withdrawBond, Unencumbered
<1>5. /\ Slots'
      /\ originators' \in [0..MaxOriginators -> Originator]
      /\ \A p \in OriginatorIds :
            /\ originators'[p].exposure = originators[p].exposure
            /\ p # o => originators'[p].bond = originators[p].bond
      /\ originators'[o].bond = b
  BY <1>2, <1>3, <1>4, BondStepSlots
<1>6. TypeOK'
  BY <1>1, <1>3, <1>5 DEF Core, TypeOK
<1>7. \A p \in OriginatorIds : originators'[p].bond >= originators'[p].exposure
  BY <1>4, <1>5 DEF Core, BondCoversExposure
<1>8. QED
  BY <1>3, <1>5, <1>6, <1>7, CoreBond

-----------------------------------------------------------------------------
(* Steps of a loan.                                                        *)

\* A loan with a status belongs to a registered originator.
LEMMA LoanOriginator ==
    ASSUME Core, NEW l \in LoanIds, loans[l].status # "NONE"
    PROVE  /\ l < nextLoanId
           /\ loans[l].originatorId \in OriginatorIds
           /\ loans[l].originatorId \in 1..(nextOriginatorId - 1)
<1>1. l < nextLoanId
  BY DEF Core, TypeOK, Slots, NoLoan, LoanIds
<1>2. loans[l].originatorId \in 1..(nextOriginatorId - 1)
  BY <1>1 DEF Core, Slots
<1>3. nextOriginatorId \in 1..(MaxOriginators + 1) /\ MaxOriginators \in Nat
  BY InputAssumption DEF Core, TypeOK
<1>4. QED
  BY <1>1, <1>2, <1>3 DEF OriginatorIds

\* Steps of an open loan that leave it open.
LEMMA CoreOpenStep ==
    ASSUME Core, TypeOK', UNCHANGED <<nextOriginatorId, nextLoanId>>,
           NEW l \in LoanIds, loans[l].status # "NONE", IsOpen(loans[l]), IsOpen(loans'[l]),
           loans'[l].originatorId = loans[l].originatorId,
           \A m \in LoanIds : m # l => loans'[m] = loans[m],
           \A p \in 0..MaxOriginators :
              /\ originators[p] = NoOriginator => originators'[p] = NoOriginator
              /\ originators'[p].bond = originators[p].bond
              /\ originators'[p].exposure = originators[p].exposure
    PROVE  Core'
<1>1. \A o \in OriginatorIds : OpenLoans(o)' = OpenLoans(o)
  BY DEF OpenLoans
<1>2. ExposureCountsOpenLoans' /\ BondCoversExposure'
  BY <1>1 DEF Core, ExposureCountsOpenLoans, BondCoversExposure, OriginatorIds
<1>3. l < nextLoanId /\ loans'[l].status # "NONE"
  BY LoanOriginator DEF IsOpen
<1>4. Slots'
  BY <1>3 DEF Core, TypeOK, Slots, LoanIds
<1>5. QED
  BY <1>2, <1>4 DEF Core

LEMMA CoreMarkDelinquent ==
    ASSUME Core, NEW l \in LoanIds, markDelinquent(l) PROVE Core'
<1>1. /\ loans[l].status = "REGISTERED"
      /\ loans' = [loans EXCEPT ![l].status = "DELINQUENT"]
      /\ UNCHANGED <<number, stored, originators, nextOriginatorId, treasuryOwner,
                     bindingNonce, nextLoanId, factConsumedBy, balance, paidBounties, paidSink>>
  BY DEF markDelinquent, Delinquent, vault, books, payments
<1>2. loans \in [LoanIds -> Loan] /\ loans[l] \in Loan
  BY DEF Core, TypeOK
<1>3. loans'[l] = [loans[l] EXCEPT !.status = "DELINQUENT"]
  BY <1>1, <1>2
<1>4. /\ loans'[l] \in Loan
      /\ loans'[l].status = "DELINQUENT"
      /\ loans'[l].originatorId = loans[l].originatorId
  BY <1>2, <1>3 DEF Loan, LoanStatus
<1>5. TypeOK'
  BY <1>1, <1>2, <1>4 DEF Core, TypeOK
<1>6. \A m \in LoanIds : m # l => loans'[m] = loans[m]
  BY <1>1, <1>2
<1>7. QED
  BY <1>1, <1>4, <1>5, <1>6, CoreOpenStep DEF IsOpen

LEMMA CoreClaimRepayment ==
    ASSUME Core, NEW sender \in Accounts, NEW l \in LoanIds, NEW f \in FactIds,
           claimRepayment(sender, l, f)
    PROVE  Core'
<1> DEFINE o == loans[l].originatorId
<1>1. /\ originators[o].owner = sender
      /\ loans[l].status \in {"REGISTERED", "DELINQUENT"}
      /\ loans' = [loans EXCEPT ![l].repaymentFactId = f,
                                ![l].claimBlock = number,
                                ![l].status = "REPAYMENT_CLAIMED"]
      /\ originators' = [originators EXCEPT ![o].lastClaimBlock = number]
      /\ factConsumedBy' = [factConsumedBy EXCEPT ![f] = l]
      /\ UNCHANGED <<number, stored, nextOriginatorId, treasuryOwner, bindingNonce,
                     nextLoanId, balance, paidBounties, paidSink>>
  BY DEF claimRepayment, ClaimableStatus, vault, payments
<1>2. loans \in [LoanIds -> Loan] /\ loans[l] \in Loan /\ number \in Nat
  BY DEF Core, TypeOK
<1>3. loans'[l] = [loans[l] EXCEPT !.repaymentFactId = f, !.claimBlock = number,
                                   !.status = "REPAYMENT_CLAIMED"]
  BY <1>1, <1>2
<1>4. /\ loans'[l] \in Loan
      /\ loans'[l].status = "REPAYMENT_CLAIMED"
      /\ loans'[l].originatorId = loans[l].originatorId
  BY <1>2, <1>3 DEF Loan, LoanStatus
<1>5. o \in 1..(nextOriginatorId - 1) /\ o \in OriginatorIds
  BY <1>1, LoanOriginator
<1>6. originators \in [0..MaxOriginators -> Originator] /\ o \in 0..MaxOriginators
  BY <1>5 DEF Core, TypeOK, OriginatorIds
<1>7. originators'[o] = [originators[o] EXCEPT !.lastClaimBlock = number]
  BY <1>1, <1>6
<1>8. /\ originators'[o] \in Originator
      /\ originators'[o].bond = originators[o].bond
      /\ originators'[o].exposure = originators[o].exposure
  BY <1>2, <1>6, <1>7 DEF Originator
<1>9. \A p \in 0..MaxOriginators : p # o => originators'[p] = originators[p]
  BY <1>1, <1>6
<1>10. originators[o] # NoOriginator
  BY <1>1, ZeroAssumption DEF NoOriginator
<1>11. factConsumedBy' \in [FactIds -> 0..MaxLoans]
  BY <1>1 DEF Core, TypeOK, LoanIds
<1>12. TypeOK'
  BY <1>1, <1>2, <1>4, <1>6, <1>8, <1>11 DEF Core, TypeOK
<1>13. \A m \in LoanIds : m # l => loans'[m] = loans[m]
  BY <1>1, <1>2
<1>14. QED
  BY <1>1, <1>4, <1>8, <1>9, <1>10, <1>12, <1>13, CoreOpenStep DEF IsOpen

LEMMA CoreRegisterLoan ==
    ASSUME Core, NEW sender \in Accounts, NEW o \in OriginatorIds,
           NEW terms \in LoanTerms, NEW f \in FactIds,
           registerLoan(sender, o, terms, f)
    PROVE  Core'
<1> DEFINE n == nextLoanId
           e == originators[o].exposure + BOND_PER_LOAN
<1>1. /\ n <= MaxLoans
      /\ originators[o].owner = sender
      /\ originators[o].bond - originators[o].exposure >= BOND_PER_LOAN
      /\ loans' = [loans EXCEPT ![n] = NewLoan(o, terms, f)]
      /\ nextLoanId' = n + 1
      /\ originators' = [originators EXCEPT ![o].exposure = e]
      /\ factConsumedBy' = [factConsumedBy EXCEPT ![f] = n]
      /\ UNCHANGED <<number, stored, nextOriginatorId, treasuryOwner, bindingNonce,
                     balance, paidBounties, paidSink>>
  BY DEF registerLoan, Unencumbered, vault, payments
<1>2. /\ loans \in [LoanIds -> Loan]
      /\ originators \in [0..MaxOriginators -> Originator]
      /\ n \in 1..(MaxLoans + 1) /\ MaxLoans \in Nat /\ BOND_PER_LOAN \in Nat
  BY InputAssumption, ParameterAssumption DEF Core, TypeOK
<1>3. n \in LoanIds /\ loans[n] = NoLoan
  BY <1>1, <1>2 DEF Core, Slots, LoanIds
<1>4. o \in 0..MaxOriginators /\ o # 0 /\ originators[o] \in Originator
  BY <1>2, InputAssumption DEF OriginatorIds
<1>5. o \in 1..(nextOriginatorId - 1)
  BY <1>1, <1>4, UsedOriginator
<1>6. /\ originators[o].bond \in Nat /\ originators[o].exposure \in Nat
      /\ e \in Nat /\ originators[o].bond >= e
  BY <1>1, <1>2, <1>4 DEF Originator
<1>7. originators'[o] = [originators[o] EXCEPT !.exposure = e]
  BY <1>1, <1>2, <1>4
<1>8. /\ originators'[o] \in Originator
      /\ originators'[o].exposure = e
      /\ originators'[o].bond = originators[o].bond
  BY <1>4, <1>6, <1>7 DEF Originator
<1>9. \A p \in 0..MaxOriginators : p # o => originators'[p] = originators[p]
  BY <1>1, <1>2
<1>10. /\ loans'[n] = NewLoan(o, terms, f)
       /\ \A m \in LoanIds : m # n => loans'[m] = loans[m]
  BY <1>1, <1>2, <1>3
<1>11. NewLoan(o, terms, f) \in Loan
  <2>1. /\ terms.token \in Tokens /\ terms.borrower \in Addresses
        /\ terms.principal \in Nat /\ terms.maturityBlock \in Nat
    BY InputAssumption
  <2>2. QED
    BY <1>4, <2>1 DEF NewLoan, Loan, LoanStatus
<1>12. TypeOK'
  <2>1. loans' \in [LoanIds -> Loan]
    BY <1>1, <1>2, <1>3, <1>11
  <2>2. originators' \in [0..MaxOriginators -> Originator]
    BY <1>1, <1>2, <1>4, <1>8
  <2>3. nextLoanId' \in 1..(MaxLoans + 1)
    BY <1>1, <1>2
  <2>4. factConsumedBy' \in [FactIds -> 0..MaxLoans]
    BY <1>1, <1>3 DEF Core, TypeOK, LoanIds
  <2>5. QED
    BY <1>1, <2>1, <2>2, <2>3, <2>4 DEF Core, TypeOK
<1>13. Slots'
  <2>1. \A p \in 0..MaxOriginators :
           (p = 0 \/ p >= nextOriginatorId') => originators'[p] = NoOriginator
    <3>1. ~(o >= nextOriginatorId)
      BY <1>5 DEF Core, TypeOK
    <3>2. QED
      BY <1>1, <1>4, <1>9, <3>1 DEF Core, Slots
  <2>2. \A m \in LoanIds : m >= nextLoanId' => loans'[m] = NoLoan
    BY <1>1, <1>2, <1>10 DEF Core, Slots, LoanIds
  <2>3. /\ loans'[n].status # "NONE"
        /\ loans'[n].originatorId \in 1..(nextOriginatorId' - 1)
    BY <1>1, <1>5, <1>10 DEF NewLoan
  <2>4. \A m \in LoanIds : m < nextLoanId' =>
           /\ loans'[m].status # "NONE"
           /\ loans'[m].originatorId \in 1..(nextOriginatorId' - 1)
    <3>1. \A m \in LoanIds : m < nextLoanId' => m = n \/ m < n
      BY <1>1, <1>2 DEF LoanIds
    <3>2. QED
      BY <1>1, <1>10, <2>3, <3>1 DEF Core, Slots
  <2>5. QED
    BY <2>1, <2>2, <2>4 DEF Slots
<1>14. ExposureCountsOpenLoans'
  <2>1. n \notin OpenLoans(o) /\ OpenLoans(o) \in SUBSET LoanIds
    BY <1>3 DEF OpenLoans, IsOpen, NoLoan
  <2>2. OpenLoans(o)' = OpenLoans(o) \cup {n}
    BY <1>3, <1>10 DEF OpenLoans, IsOpen, NewLoan
  <2>3. \A p \in OriginatorIds : p # o => OpenLoans(p)' = OpenLoans(p)
    BY <1>3, <1>10 DEF OpenLoans, IsOpen, NewLoan, NoLoan
  <2>4. originators[o].exposure = BOND_PER_LOAN * Cardinality(OpenLoans(o))
    BY DEF Core, ExposureCountsOpenLoans
  <2>5. BOND_PER_LOAN * Cardinality(OpenLoans(o) \cup {n})
          = BOND_PER_LOAN * Cardinality(OpenLoans(o)) + BOND_PER_LOAN
    BY <1>3, <2>1, CountAdds
  <2>6. originators'[o].exposure = BOND_PER_LOAN * Cardinality(OpenLoans(o)')
    BY <1>8, <2>2, <2>4, <2>5
  <2>7. \A p \in OriginatorIds : p # o => originators'[p] = originators[p]
    BY <1>9 DEF OriginatorIds
  <2>8. QED
    BY <2>3, <2>6, <2>7 DEF Core, ExposureCountsOpenLoans
<1>15. BondCoversExposure'
  BY <1>6, <1>8, <1>9 DEF Core, BondCoversExposure, OriginatorIds
<1>16. QED
  BY <1>12, <1>13, <1>14, <1>15 DEF Core

\* The bond of an open loan's originator covers at least that loan: a slash is
\* never capped, and releasing the loan leaves a natural exposure.
LEMMA OpenLoanIsCovered ==
    ASSUME Core, NEW l \in LoanIds, IsOpen(loans[l]), NEW o, o = loans[l].originatorId
    PROVE  /\ o \in OriginatorIds
           /\ o \in 1..(nextOriginatorId - 1)
           /\ l < nextLoanId
           /\ originators[o] \in Originator
           /\ originators[o].exposure - BOND_PER_LOAN
                 = BOND_PER_LOAN * Cardinality(OpenLoans(o) \ {l})
           /\ originators[o].exposure - BOND_PER_LOAN \in Nat
           /\ originators[o].bond >= originators[o].exposure
           /\ originators[o].bond - BOND_PER_LOAN \in Nat
<1> DEFINE rest == BOND_PER_LOAN * Cardinality(OpenLoans(o) \ {l})
<1>1. o \in OriginatorIds /\ o \in 1..(nextOriginatorId - 1) /\ l < nextLoanId
  BY LoanOriginator DEF IsOpen
<1>2. OpenLoans(o) \in SUBSET LoanIds /\ l \in OpenLoans(o)
  BY DEF OpenLoans
<1>3. originators[o].exposure = rest + BOND_PER_LOAN
  BY <1>1, <1>2, CountRemoves DEF Core, ExposureCountsOpenLoans
<1>4. rest \in Nat
  BY <1>2, CountIsNatural
<1>5. originators[o] \in Originator /\ originators[o].bond >= originators[o].exposure
  BY <1>1, InputAssumption DEF Core, TypeOK, BondCoversExposure, OriginatorIds
<1>6. originators[o].bond \in Nat /\ BOND_PER_LOAN \in Nat
  BY <1>5, ParameterAssumption DEF Originator
<1> HIDE DEF rest
<1>7. /\ originators[o].exposure - BOND_PER_LOAN = rest
      /\ originators[o].bond - BOND_PER_LOAN \in Nat
  BY <1>3, <1>4, <1>5, <1>6
<1>8. QED
  BY <1>1, <1>4, <1>5, <1>7 DEF rest

\* Steps that end an open loan and release its exposure, slashing or not.
LEMMA CoreEndLoan ==
    ASSUME Core, NEW l \in LoanIds, IsOpen(loans[l]), NEW o, o = loans[l].originatorId,
           loans'[l] \in Loan, loans'[l].originatorId = o,
           loans'[l].status \in {"SETTLED", "BREACHED"},
           \A m \in LoanIds : m # l => loans'[m] = loans[m],
           originators'[o].bond >= originators[o].bond - BOND_PER_LOAN,
           originators'[o].exposure = originators[o].exposure - BOND_PER_LOAN,
           \A p \in 0..MaxOriginators : p # o => originators'[p] = originators[p],
           TypeOK', UNCHANGED <<nextOriginatorId, nextLoanId>>
    PROVE  Core'
<1>1. /\ o \in OriginatorIds
      /\ o \in 1..(nextOriginatorId - 1)
      /\ l < nextLoanId
      /\ originators[o].exposure - BOND_PER_LOAN
            = BOND_PER_LOAN * Cardinality(OpenLoans(o) \ {l})
      /\ originators[o].bond >= originators[o].exposure
  BY OpenLoanIsCovered
<1>2. o \in 0..MaxOriginators /\ o # 0
  BY <1>1, InputAssumption DEF OriginatorIds
<1>3. Slots'
  <2>1. ~(o >= nextOriginatorId) /\ ~(l >= nextLoanId)
    BY <1>1 DEF Core, TypeOK, LoanIds
  <2>2. \A p \in 0..MaxOriginators :
           (p = 0 \/ p >= nextOriginatorId') => originators'[p] = NoOriginator
    BY <1>2, <2>1 DEF Core, Slots
  <2>3. \A m \in LoanIds : m >= nextLoanId' => loans'[m] = NoLoan
    BY <2>1 DEF Core, Slots
  <2>4. \A m \in LoanIds : m < nextLoanId' =>
           /\ loans'[m].status # "NONE"
           /\ loans'[m].originatorId \in 1..(nextOriginatorId' - 1)
    BY <1>1 DEF Core, Slots
  <2>5. QED
    BY <2>2, <2>3, <2>4 DEF Slots
<1>4. ExposureCountsOpenLoans'
  <2>1. OpenLoans(o)' = OpenLoans(o) \ {l}
    BY DEF OpenLoans, IsOpen
  <2>2. \A p \in OriginatorIds : p # o => OpenLoans(p)' = OpenLoans(p)
    BY DEF OpenLoans, IsOpen
  <2>3. \A p \in OriginatorIds : p # o => originators'[p] = originators[p]
    BY InputAssumption DEF OriginatorIds
  <2>4. originators'[o].exposure = BOND_PER_LOAN * Cardinality(OpenLoans(o)')
    BY <1>1, <2>1
  <2>5. QED
    BY <2>2, <2>3, <2>4 DEF Core, ExposureCountsOpenLoans
<1>5. BondCoversExposure'
  <2>1. /\ originators[o] \in Originator /\ originators'[o] \in Originator
        /\ BOND_PER_LOAN \in Nat
    BY <1>2, ParameterAssumption DEF Core, TypeOK
  <2>2. originators'[o].bond >= originators'[o].exposure
    BY <1>1, <2>1 DEF Originator
  <2>3. \A p \in OriginatorIds : p # o => originators'[p] = originators[p]
    BY InputAssumption DEF OriginatorIds
  <2>4. QED
    BY <2>2, <2>3 DEF Core, BondCoversExposure
<1>6. QED
  BY <1>3, <1>4, <1>5 DEF Core

LEMMA CoreFinalize ==
    ASSUME Core, NEW l \in LoanIds, finalize(l) PROVE Core'
<1>0. PICK o : o = loans[l].originatorId
  OBVIOUS
<1> DEFINE e == originators[o].exposure - BOND_PER_LOAN
<1>1. /\ loans[l].status = "REPAYMENT_CLAIMED"
      /\ loans' = [loans EXCEPT ![l].status = "SETTLED"]
      /\ originators' = [originators EXCEPT ![o].exposure = e]
      /\ UNCHANGED <<number, stored, nextOriginatorId, treasuryOwner, bindingNonce,
                     nextLoanId, factConsumedBy, balance, paidBounties, paidSink>>
  BY <1>0 DEF finalize, Finalizable, Released, vault, payments
<1>2. IsOpen(loans[l])
  BY <1>1 DEF IsOpen
<1>3. /\ o \in OriginatorIds
      /\ originators[o] \in Originator
      /\ e \in Nat
  BY <1>0, <1>2, OpenLoanIsCovered
<1>4. /\ loans \in [LoanIds -> Loan] /\ loans[l] \in Loan
      /\ originators \in [0..MaxOriginators -> Originator]
      /\ o \in 0..MaxOriginators
  BY <1>3, InputAssumption DEF Core, TypeOK, OriginatorIds
<1>5. loans'[l] = [loans[l] EXCEPT !.status = "SETTLED"]
  BY <1>1, <1>4
<1>6. /\ loans'[l] \in Loan
      /\ loans'[l].status = "SETTLED"
      /\ loans'[l].originatorId = o
  BY <1>0, <1>4, <1>5 DEF Loan, LoanStatus
<1>7. originators'[o] = [originators[o] EXCEPT !.exposure = e]
  BY <1>1, <1>4
<1>8. /\ originators'[o] \in Originator
      /\ originators'[o].bond = originators[o].bond
      /\ originators'[o].exposure = e
  BY <1>3, <1>7 DEF Originator
<1>9. \A p \in 0..MaxOriginators : p # o => originators'[p] = originators[p]
  BY <1>1, <1>4
<1>10. \A m \in LoanIds : m # l => loans'[m] = loans[m]
  BY <1>1, <1>4
<1>11. TypeOK'
  BY <1>1, <1>4, <1>6, <1>8 DEF Core, TypeOK
<1>12. originators'[o].bond >= originators[o].bond - BOND_PER_LOAN
  BY <1>3, <1>8, ParameterAssumption DEF Originator
<1>13. QED
  BY <1>0, <1>1, <1>2, <1>6, <1>8, <1>9, <1>10, <1>11, <1>12, CoreEndLoan

\* What a challenge pays: the bounty and the sink's share of a full slash.
LEMMA SlashSplits ==
    ASSUME NEW s \in Nat
    PROVE  /\ Bounty(s) \in Nat
           /\ ToSink(s) \in Nat
           /\ Bounty(s) + ToSink(s) = s
<1>1. (s * 5000) \div 10000 \in Nat /\ (s * 5000) \div 10000 <= s
  OBVIOUS
<1>2. QED
  BY <1>1 DEF Bounty, ToSink, BOUNTY_BPS

\* A slash is BOND_PER_LOAN unless the bond is smaller.
LEMMA FullSlash ==
    ASSUME NEW o, originators[o].bond \in Nat, originators[o].bond >= BOND_PER_LOAN
    PROVE  Slash(o) = BOND_PER_LOAN
<1>1. (BOND_PER_LOAN * 10000) \div 10000 = BOND_PER_LOAN
  BY ParameterAssumption
<1>2. ~(BOND_PER_LOAN > originators[o].bond)
  BY ParameterAssumption
<1>3. QED
  BY <1>1, <1>2 DEF Slash, SLASH_BPS

LEMMA CoreChallenge ==
    ASSUME Core, NEW sender \in Accounts, NEW l \in LoanIds, NEW f \in FactIds,
           challenge(sender, l, f)
    PROVE  Core'
<1>0. PICK o : o = loans[l].originatorId
  OBVIOUS
<1> DEFINE e == originators[o].exposure - BOND_PER_LOAN
           b == originators[o].bond - Slash(o)
<1>1. /\ loans[l].status = "REPAYMENT_CLAIMED"
      /\ loans' = [loans EXCEPT ![l].status = "BREACHED"]
      /\ originators' = [originators EXCEPT ![o].bond = b, ![o].exposure = e]
      /\ balance' = balance - Bounty(Slash(o)) - ToSink(Slash(o))
      /\ paidBounties' = paidBounties + Bounty(Slash(o))
      /\ paidSink' = paidSink + ToSink(Slash(o))
      /\ UNCHANGED <<number, stored, nextOriginatorId, treasuryOwner, bindingNonce,
                     nextLoanId, factConsumedBy>>
  BY <1>0 DEF challenge, Challengeable, vault
<1>2. IsOpen(loans[l])
  BY <1>1 DEF IsOpen
<1>3. /\ o \in OriginatorIds
      /\ originators[o] \in Originator
      /\ e \in Nat
      /\ originators[o].bond - BOND_PER_LOAN \in Nat
  BY <1>0, <1>2, OpenLoanIsCovered
<1>4. Slash(o) = BOND_PER_LOAN
  <2>1. originators[o].bond \in Nat
    BY <1>3 DEF Originator
  <2>2. originators[o].bond >= BOND_PER_LOAN
    BY <1>3, <2>1, ParameterAssumption
  <2>3. QED
    BY <2>1, <2>2, FullSlash
<1>5. b \in Nat /\ b = originators[o].bond - BOND_PER_LOAN
  BY <1>3, <1>4
<1>6. balance' \in Int /\ paidBounties' \in Nat /\ paidSink' \in Nat
  <2>1. Bounty(Slash(o)) \in Nat /\ ToSink(Slash(o)) \in Nat
    BY <1>4, SlashSplits, ParameterAssumption
  <2>2. QED
    BY <1>1, <2>1 DEF Core, TypeOK
<1>7. /\ loans \in [LoanIds -> Loan] /\ loans[l] \in Loan
      /\ originators \in [0..MaxOriginators -> Originator]
      /\ o \in 0..MaxOriginators
  BY <1>3, InputAssumption DEF Core, TypeOK, OriginatorIds
<1>8. loans'[l] = [loans[l] EXCEPT !.status = "BREACHED"]
  BY <1>1, <1>7
<1>9. /\ loans'[l] \in Loan
      /\ loans'[l].status = "BREACHED"
      /\ loans'[l].originatorId = o
  BY <1>0, <1>7, <1>8 DEF Loan, LoanStatus
<1> HIDE DEF b, e
<1>10. originators'[o] = [originators[o] EXCEPT !.bond = b, !.exposure = e]
  BY <1>1, <1>7
<1>11. /\ originators'[o] \in Originator
       /\ originators'[o].bond = b
       /\ originators'[o].exposure = e
  BY <1>3, <1>5, <1>10 DEF Originator
<1>12. \A p \in 0..MaxOriginators : p # o => originators'[p] = originators[p]
  BY <1>1, <1>7
<1>13. \A m \in LoanIds : m # l => loans'[m] = loans[m]
  BY <1>1, <1>7
<1>14. TypeOK'
  <2>1. loans' \in [LoanIds -> Loan]
    BY <1>1, <1>7, <1>9
  <2>2. originators' \in [0..MaxOriginators -> Originator]
    BY <1>1, <1>7, <1>11
  <2>3. QED
    BY <1>1, <1>6, <2>1, <2>2 DEF Core, TypeOK
<1>15. originators'[o].bond >= originators[o].bond - BOND_PER_LOAN
  BY <1>3, <1>5, <1>11 DEF Originator
<1>16. originators'[o].exposure = originators[o].exposure - BOND_PER_LOAN
  BY <1>11 DEF e
<1>17. QED
  BY <1>0, <1>1, <1>2, <1>9, <1>12, <1>13, <1>14, <1>15, <1>16, CoreEndLoan

-----------------------------------------------------------------------------
LEMMA CoreNext == Core /\ [Next]_vars => Core'
<1> SUFFICES ASSUME Core, [Next]_vars PROVE Core'
  OBVIOUS
<1>1. CASE UNCHANGED vars
  <2>1. TypeOK'
    BY <1>1 DEF Core, TypeOK, vars, vault, books, loanBook, payments
  <2>2. QED
    BY <1>1, <2>1, CoreStutter DEF vars, books, loanBook
<1>2. CASE Tick
  BY <1>2, CoreTick
<1>3. CASE \E f \in FactIds : StoreFact(f)
  BY <1>3, CoreStoreFact
<1>4. CASE \E sender \in Accounts, value \in Values, cw \in CircularWindows,
              w \in ChallengeWindows, covenants \in 0..3 :
                registerOriginator(sender, value, cw, w, covenants)
  BY <1>4, CoreRegisterOriginator
<1>5. CASE \E sender \in Accounts, o \in OriginatorIds, a \in Addresses :
              bindTreasury(sender, o, a)
  BY <1>5, CoreBindTreasury
<1>6. CASE \E o \in OriginatorIds, value \in Values : topUpBond(o, value)
  BY <1>6, CoreTopUpBond
<1>7. CASE \E sender \in Accounts, o \in OriginatorIds, amount \in Values :
              withdrawBond(sender, o, amount)
  BY <1>7, CoreWithdrawBond
<1>8. CASE \E sender \in Accounts, o \in OriginatorIds, terms \in LoanTerms, f \in FactIds :
              registerLoan(sender, o, terms, f)
  BY <1>8, CoreRegisterLoan
<1>9. CASE \E sender \in Accounts, l \in LoanIds, f \in FactIds :
              claimRepayment(sender, l, f)
  BY <1>9, CoreClaimRepayment
<1>10. CASE \E l \in LoanIds : markDelinquent(l)
  BY <1>10, CoreMarkDelinquent
<1>11. CASE \E l \in LoanIds : finalize(l)
  BY <1>11, CoreFinalize
<1>12. CASE \E sender \in Accounts, l \in LoanIds, f \in FactIds : challenge(sender, l, f)
  BY <1>12, CoreChallenge
<1>13. QED
  BY <1>1, <1>2, <1>3, <1>4, <1>5, <1>6, <1>7, <1>8, <1>9, <1>10, <1>11, <1>12 DEF Next

\* The inductive invariant: the storage of the contract is well typed, its slots
\* are filled in order, and bond, exposure and open loans agree.
THEOREM CoreHolds == Spec => []Core
<1>1. QED
  BY CoreInit, CoreNext, PTL DEF Spec

\* Every variable of the contract keeps its type; in particular no bond and no
\* exposure is ever negative, so no checked subtraction of withdrawBond, finalize
\* or challenge underflows.
THEOREM TypeCorrect == Spec => []TypeOK
<1>1. Core => TypeOK
  BY DEF Core
<1>2. QED
  BY <1>1, CoreHolds, PTL

\* I2 of SECURITY.md: no interleaving of withdrawals, slashes and registrations
\* leaves the open loans of an originator without their bond.
THEOREM BondAlwaysCoversExposure == Spec => []BondCoversExposure
<1>1. Core => BondCoversExposure
  BY DEF Core
<1>2. QED
  BY <1>1, CoreHolds, PTL

\* I6 of SECURITY.md: the running total `exposure' is always BOND_PER_LOAN for
\* each loan that is registered, delinquent or claimed, and nothing else.
THEOREM ExposureAlwaysCountsOpenLoans == Spec => []ExposureCountsOpenLoans
<1>1. Core => ExposureCountsOpenLoans
  BY DEF Core
<1>2. QED
  BY <1>1, CoreHolds, PTL

-----------------------------------------------------------------------------
(***************************************************************************)
(* The money.  Bonds are added up with the library's fold over a set, a    *)
(* CHOOSE of a function that equals its own unfolding; that there is such a *)
(* function, and that changing one bond changes the sum by as much, is     *)
(* shown by induction on the number of accounts added.                     *)
(***************************************************************************)

\* Induction over the naturals, as a fact about sets.
LEMMA Induct ==
    ASSUME NEW Q, 0 \in Q, \A n \in Nat : n \in Q => n + 1 \in Q
    PROVE  Nat \subseteq Q
<1> DEFINE T == Nat \ Q
<1> SUFFICES ASSUME T # {} PROVE FALSE
  OBVIOUS
<1>1. PICK x \in T : \A y \in T : ~ (<<y, x>> \in OpToRel(<, Nat))
  <2>1. T \subseteq Nat
    OBVIOUS
  <2> HIDE DEF T
  <2>2. QED
    BY <2>1, WFMin, NatLessThanWellFounded
<1>2. \A y \in T : ~ (y < x)
  BY <1>1, Zenon DEF OpToRel
<1>3. x # 0 /\ x - 1 \in Nat /\ x - 1 < x
  OBVIOUS
<1>4. x - 1 \notin T
  BY <1>2, <1>3
<1>5. (x - 1) + 1 \in Q /\ (x - 1) + 1 = x
  BY <1>3, <1>4
<1>6. QED
  BY <1>1, <1>5

\* The bonds of some accounts, as HoldsBondsAndDues of module Payouts adds them up.
SumOf(w, Ids) == MapThenSumSet(LAMBDA o : w[o].bond, Ids)

Pick(s) == CHOOSE x \in s : TRUE

\* One unfolding of the sum.
Adds(w, g, s) == IF s = {} THEN 0 ELSE w[Pick(s)].bond + g[s \ {Pick(s)}]

Sums(w, Ids) == CHOOSE g : g = [s \in SUBSET Ids |-> Adds(w, g, s)]

HasBonds(w, Ids) == \A o \in Ids : w[o].bond \in Int

\* The library's fold is this sum.
LEMMA SumIsFold ==
   ASSUME NEW w, NEW Ids
   PROVE  SumOf(w, Ids) = Sums(w, Ids)[Ids]
BY DEF SumOf, MapThenSumSet, MapThenFoldSet, Sums, Adds, Pick

\* What is left after one account is picked is smaller.
LEMMA PickLess ==
    ASSUME NEW Ids, IsFiniteSet(Ids), NEW s \in SUBSET Ids, s # {}
    PROVE  /\ Pick(s) \in s
           /\ s \ {Pick(s)} \in SUBSET Ids
           /\ Cardinality(s) \in Nat \ {0}
           /\ Cardinality(s \ {Pick(s)}) = Cardinality(s) - 1
<1>1. Pick(s) \in s
  BY DEF Pick
<1>2. IsFiniteSet(s)
  BY FS_Subset
<1>3. Cardinality(s) \in Nat \ {0}
  BY <1>2, FS_CardinalityType, FS_EmptySet
<1>4. QED
  BY <1>1, <1>2, <1>3, FS_RemoveElement

LEMMA OnlyEmpty ==
    ASSUME NEW Ids, IsFiniteSet(Ids), NEW s \in SUBSET Ids, Cardinality(s) <= 0
    PROVE  s = {}
<1>1. IsFiniteSet(s)
  BY FS_Subset
<1>2. Cardinality(s) \in Nat
  BY <1>1, FS_CardinalityType
<1>3. QED
  BY <1>1, <1>2, FS_EmptySet

\* The recursion has a solution: one more unfolding serves sets of one more account.
LEMMA SumsExist ==
    ASSUME NEW w, NEW Ids, IsFiniteSet(Ids), HasBonds(w, Ids)
    PROVE  \A s \in SUBSET Ids : Sums(w, Ids)[s] = Adds(w, Sums(w, Ids), s)
<1> DEFINE Upto(g, n) == \A s \in SUBSET Ids : Cardinality(s) <= n => g[s] = Adds(w, g, s)
           Q == {n \in Nat : \E g : g = [s \in SUBSET Ids |-> g[s]] /\ Upto(g, n)}
<1>1. 0 \in Q
  <2> DEFINE g == [s \in SUBSET Ids |-> 0]
  <2>1. \A s \in SUBSET Ids : Cardinality(s) <= 0 => s = {}
    BY OnlyEmpty
  <2>2. Upto(g, 0)
    BY <2>1 DEF Adds
  <2>3. g = [s \in SUBSET Ids |-> g[s]]
    OBVIOUS
  <2> HIDE DEF g
  <2>4. QED
    BY <2>2, <2>3
<1>2. ASSUME NEW n \in Nat, n \in Q PROVE n + 1 \in Q
  <2>1. PICK g : Upto(g, n)
    BY <1>2
  <2> DEFINE h == [s \in SUBSET Ids |-> Adds(w, g, s)]
  <2>2. ASSUME NEW s \in SUBSET Ids, Cardinality(s) <= n + 1
        PROVE  h[s] = Adds(w, h, s)
    <3>1. CASE s = {}
      BY <3>1 DEF Adds
    <3>2. CASE s # {}
      <4> DEFINE t == s \ {Pick(s)}
      <4>1. t \in SUBSET Ids /\ Cardinality(t) <= n
        BY <2>2, <3>2, PickLess
      <4>2. h[t] = g[t]
        BY <2>1, <4>1
      <4>3. h[s] = w[Pick(s)].bond + g[t]
        BY <3>2 DEF Adds
      <4>4. Adds(w, h, s) = w[Pick(s)].bond + h[t]
        BY <3>2 DEF Adds
      <4>5. QED
        BY <4>2, <4>3, <4>4
    <3>3. QED
      BY <3>1, <3>2
  <2>3. h = [s \in SUBSET Ids |-> h[s]]
    OBVIOUS
  <2> HIDE DEF h
  <2>4. Upto(h, n + 1)
    BY <2>2
  <2>5. n + 1 \in Nat
    OBVIOUS
  <2>6. QED
    BY <2>3, <2>4, <2>5
<1>3. Nat \subseteq Q
  <2> HIDE DEF Q
  <2> QED
    BY <1>1, <1>2, Induct
<1>4. Cardinality(Ids) \in Q
  BY <1>3, FS_CardinalityType
<1>5. PICK g : g = [s \in SUBSET Ids |-> g[s]] /\ Upto(g, Cardinality(Ids))
  BY <1>4
<1>6. \A s \in SUBSET Ids : Cardinality(s) <= Cardinality(Ids)
  BY FS_Subset
<1>7. g = [s \in SUBSET Ids |-> Adds(w, g, s)]
  BY <1>5, <1>6
<1>8. Sums(w, Ids) = [s \in SUBSET Ids |-> Adds(w, Sums(w, Ids), s)]
  BY <1>7 DEF Sums
<1> DEFINE f == Sums(w, Ids)
<1>9. f = [s \in SUBSET Ids |-> Adds(w, f, s)]
  BY <1>8
<1> HIDE DEF f
<1>10. \A s \in SUBSET Ids : f[s] = Adds(w, f, s)
  BY <1>9
<1>11. QED
  BY <1>10 DEF f

LEMMA SumUnfolds ==
    ASSUME NEW w, NEW Ids, IsFiniteSet(Ids), HasBonds(w, Ids), NEW s \in SUBSET Ids
    PROVE  Sums(w, Ids)[s] = Adds(w, Sums(w, Ids), s)
BY SumsExist

\* Two accounts that differ at o alone have sums that differ by as much.
LEMMA SumsDiffer ==
    ASSUME NEW v, NEW w, NEW Ids, IsFiniteSet(Ids), HasBonds(v, Ids), HasBonds(w, Ids),
           NEW o, \A p \in Ids : p # o => v[p].bond = w[p].bond
    PROVE  /\ SumOf(v, Ids) \in Int /\ SumOf(w, Ids) \in Int
           /\ SumOf(w, Ids) = IF o \in Ids THEN SumOf(v, Ids) + (w[o].bond - v[o].bond)
                              ELSE SumOf(v, Ids)
<1> DEFINE V(s) == Sums(v, Ids)[s]
           W(s) == Sums(w, Ids)[s]
           D(s) == /\ V(s) \in Int /\ W(s) \in Int
                   /\ W(s) = IF o \in s THEN V(s) + (w[o].bond - v[o].bond) ELSE V(s)
           Q == {n \in Nat : \A s \in SUBSET Ids : Cardinality(s) <= n => D(s)}
<1>0. D({})
  <2>1. V({}) = 0 /\ W({}) = 0
    BY SumUnfolds DEF Adds
  <2>2. QED
    BY <2>1
<1>1. 0 \in Q
  <2>1. \A s \in SUBSET Ids : Cardinality(s) <= 0 => s = {}
    BY OnlyEmpty
  <2> HIDE DEF D
  <2>2. QED
    BY <1>0, <2>1
<1>2. ASSUME NEW n \in Nat, n \in Q PROVE n + 1 \in Q
  <2> SUFFICES ASSUME NEW s \in SUBSET Ids, Cardinality(s) <= n + 1, s # {} PROVE D(s)
    <3> HIDE DEF D
    <3> QED
      BY <1>0
  <2> DEFINE p == Pick(s)
             t == s \ {p}
  <2>1. p \in s /\ t \in SUBSET Ids /\ Cardinality(t) <= n
    BY PickLess
  <2>2. D(t)
    BY <1>2, <2>1
  <2>3. V(s) = v[p].bond + V(t) /\ W(s) = w[p].bond + W(t)
    <3>1. V(s) = Adds(v, Sums(v, Ids), s) /\ W(s) = Adds(w, Sums(w, Ids), s)
      BY SumUnfolds
    <3>2. QED
      BY <3>1 DEF Adds
  <2>4. v[p].bond \in Int /\ w[p].bond \in Int
    BY <2>1 DEF HasBonds
  <2>a. V(s) \in Int /\ W(s) \in Int
    BY <2>2, <2>3, <2>4
  <2>5. CASE p = o
    BY <2>1, <2>2, <2>3, <2>4, <2>5
  <2>6. CASE p # o /\ o \notin s
    BY <2>1, <2>2, <2>3, <2>4, <2>6
  <2>7. CASE p # o /\ o \in s
    <3>1. v[o].bond \in Int /\ w[o].bond \in Int /\ o \in t
      BY <2>7 DEF HasBonds
    <3>2. v[p].bond = w[p].bond
      BY <2>1, <2>7
    <3>3. W(t) = V(t) + (w[o].bond - v[o].bond)
      BY <2>2, <3>1
    <3> HIDE DEF V, W, t, p
    <3>4. W(s) = V(s) + (w[o].bond - v[o].bond)
      BY <2>2, <2>3, <2>4, <3>1, <3>2, <3>3
    <3>5. QED
      BY <2>7, <2>a, <3>4
  <2>8. QED
    BY <2>5, <2>6, <2>7
<1>3. Nat \subseteq Q
  <2> HIDE DEF Q
  <2> QED
    BY <1>1, <1>2, Induct
<1>4. Cardinality(Ids) \in Q
  BY <1>3, FS_CardinalityType
<1>5. D(Ids)
  BY <1>4, FS_CardinalityType
<1>6. QED
  BY <1>5, SumIsFold

LEMMA SumMoves ==
    ASSUME NEW v, NEW w, NEW Ids, IsFiniteSet(Ids), HasBonds(v, Ids), HasBonds(w, Ids),
           NEW o \in Ids, \A p \in Ids : p # o => v[p].bond = w[p].bond
    PROVE  SumOf(w, Ids) = SumOf(v, Ids) + (w[o].bond - v[o].bond)
BY SumsDiffer

LEMMA SumStays ==
    ASSUME NEW v, NEW w, NEW Ids, IsFiniteSet(Ids), HasBonds(v, Ids), HasBonds(w, Ids),
           \A p \in Ids : v[p].bond = w[p].bond
    PROVE  SumOf(w, Ids) = SumOf(v, Ids)
<1>1. PICK o : TRUE
  OBVIOUS
<1>2. SumOf(v, Ids) \in Int
  BY SumsDiffer
<1>3. o \in Ids => v[o].bond = w[o].bond /\ w[o].bond - v[o].bond = 0
  BY DEF HasBonds
<1>4. o \in Ids => SumOf(w, Ids) = SumOf(v, Ids) + (w[o].bond - v[o].bond)
  BY SumMoves
<1>5. o \notin Ids => SumOf(w, Ids) = SumOf(v, Ids)
  BY SumsDiffer
<1>6. QED
  BY <1>2, <1>3, <1>4, <1>5

\* Accounts that hold nothing add up to nothing.
LEMMA NoBondsNoSum ==
    ASSUME NEW w, NEW Ids, IsFiniteSet(Ids), \A o \in Ids : w[o].bond = 0
    PROVE  SumOf(w, Ids) = 0
<1> DEFINE W(s) == Sums(w, Ids)[s]
           Q == {n \in Nat : \A s \in SUBSET Ids : Cardinality(s) <= n => W(s) = 0}
<1>0. HasBonds(w, Ids)
  BY DEF HasBonds
<1>1. \A s \in SUBSET Ids : W(s) = Adds(w, Sums(w, Ids), s)
  BY <1>0, SumUnfolds
<1>2. 0 \in Q
  <2>1. \A s \in SUBSET Ids : Cardinality(s) <= 0 => s = {}
    BY OnlyEmpty
  <2>2. W({}) = 0
    BY <1>1 DEF Adds
  <2> HIDE DEF W
  <2>3. QED
    BY <2>1, <2>2
<1>3. ASSUME NEW n \in Nat, n \in Q PROVE n + 1 \in Q
  <2>1. ASSUME NEW s \in SUBSET Ids, Cardinality(s) <= n + 1 PROVE W(s) = 0
    <3>1. CASE s = {}
      BY <1>1, <3>1 DEF Adds
    <3>2. CASE s # {}
      <4>1. /\ Pick(s) \in Ids
            /\ s \ {Pick(s)} \in SUBSET Ids
            /\ Cardinality(s \ {Pick(s)}) <= n
        BY <2>1, <3>2, PickLess
      <4>2. W(s \ {Pick(s)}) = 0
        BY <1>3, <4>1
      <4>3. W(s) = w[Pick(s)].bond + W(s \ {Pick(s)})
        BY <1>1, <3>2 DEF Adds
      <4>4. QED
        BY <4>1, <4>2, <4>3
    <3>3. QED
      BY <3>1, <3>2
  <2>2. QED
    BY <2>1
<1>4. Nat \subseteq Q
  <2> HIDE DEF Q
  <2> QED
    BY <1>2, <1>3, Induct
<1>5. W(Ids) = 0
  BY <1>4, FS_CardinalityType
<1>6. QED
  BY <1>5, SumIsFold

-----------------------------------------------------------------------------
(* The contract holds the bonds of its originators, to the unit.           *)

Bonds(accounts) == SumOf(accounts, OriginatorIds)

Solvent == balance = Bonds(originators)

LEMMA BondsAreIntegers ==
    ASSUME NEW accounts \in [0..MaxOriginators -> Originator]
    PROVE  IsFiniteSet(OriginatorIds) /\ HasBonds(accounts, OriginatorIds)
<1>1. OriginatorIds \subseteq 0..MaxOriginators
  BY InputAssumption DEF OriginatorIds
<1>2. \A o \in 0..MaxOriginators : accounts[o].bond \in Int
  BY DEF Originator
<1>3. IsFiniteSet(OriginatorIds)
  BY FS_Interval, InputAssumption DEF OriginatorIds
<1>4. QED
  BY <1>1, <1>2, <1>3 DEF HasBonds

LEMMA SolventInit == Init => Solvent
<1> SUFFICES ASSUME Init PROVE Solvent
  OBVIOUS
<1>1. originators \in [0..MaxOriginators -> Originator]
  BY CoreInit DEF Core, TypeOK
<1>2. \A p \in OriginatorIds : originators[p].bond = 0
  BY InputAssumption DEF Init, NoOriginator, OriginatorIds
<1>3. Bonds(originators) = 0
  BY <1>1, <1>2, BondsAreIntegers, NoBondsNoSum DEF Bonds
<1>4. QED
  BY <1>3 DEF Init, Solvent

\* A step that moves money moves it into or out of one bond.
LEMMA MoneyMoves ==
    ASSUME Core, Core', Solvent, NEW o \in OriginatorIds,
           \A p \in OriginatorIds : p # o => originators'[p].bond = originators[p].bond,
           balance' = balance + (originators'[o].bond - originators[o].bond)
    PROVE  Solvent'
<1>1. /\ IsFiniteSet(OriginatorIds)
      /\ HasBonds(originators, OriginatorIds)
      /\ HasBonds(originators', OriginatorIds)
  BY BondsAreIntegers DEF Core, TypeOK
<1>2. Bonds(originators') = Bonds(originators) + (originators'[o].bond - originators[o].bond)
  BY <1>1, SumMoves DEF Bonds
<1>3. QED
  BY <1>2 DEF Solvent

LEMMA MoneyStays ==
    ASSUME Core, Core', Solvent, balance' = balance,
           \A p \in OriginatorIds : originators'[p].bond = originators[p].bond
    PROVE  Solvent'
<1>1. /\ IsFiniteSet(OriginatorIds)
      /\ HasBonds(originators, OriginatorIds)
      /\ HasBonds(originators', OriginatorIds)
  BY BondsAreIntegers DEF Core, TypeOK
<1>2. Bonds(originators') = Bonds(originators)
  BY <1>1, SumStays DEF Bonds
<1>3. QED
  BY <1>2 DEF Solvent

LEMMA SolventNext == Core /\ Core' /\ Solvent /\ [Next]_vars => Solvent'
<1> SUFFICES ASSUME Core, Core', Solvent, [Next]_vars PROVE Solvent'
  OBVIOUS
<1>0. /\ originators \in [0..MaxOriginators -> Originator]
      /\ OriginatorIds \subseteq 0..MaxOriginators
      /\ balance \in Int
      /\ \A p \in 0..MaxOriginators : originators[p].bond \in Nat
      /\ Values \subseteq Nat
  <2>1. /\ originators \in [0..MaxOriginators -> Originator]
        /\ OriginatorIds \subseteq 0..MaxOriginators
        /\ balance \in Int
        /\ Values \subseteq Nat
    BY InputAssumption DEF Core, TypeOK, OriginatorIds
  <2>2. \A p \in 0..MaxOriginators : originators[p].bond \in Nat
    BY <2>1 DEF Originator
  <2>3. QED
    BY <2>1, <2>2
<1>1. CASE UNCHANGED <<originators, balance>>
  BY <1>1, MoneyStays
<1>2. ASSUME NEW sender \in Accounts, NEW value \in Values, NEW cw \in CircularWindows,
             NEW w \in ChallengeWindows, NEW covenants \in 0..3,
             registerOriginator(sender, value, cw, w, covenants)
      PROVE  Solvent'
  <2>1. PICK o \in OriginatorIds : o = nextOriginatorId /\ originators[o] = NoOriginator
    BY <1>2 DEF Core, TypeOK, Slots, registerOriginator, OriginatorIds
  <2>2. /\ \A p \in OriginatorIds : p # o => originators'[p].bond = originators[p].bond
        /\ originators'[o].bond = value
        /\ originators[o].bond = 0
        /\ balance' = balance + value
    BY <1>0, <1>2, <2>1 DEF registerOriginator, NoOriginator
  <2>3. balance' = balance + (originators'[o].bond - originators[o].bond)
    BY <1>0, <2>2
  <2>4. QED
    BY <2>2, <2>3, MoneyMoves
<1>3. ASSUME NEW o \in OriginatorIds, NEW value \in Values, topUpBond(o, value)
      PROVE  Solvent'
  <2>1. /\ \A p \in OriginatorIds : p # o => originators'[p].bond = originators[p].bond
        /\ originators'[o].bond = originators[o].bond + value
        /\ balance' = balance + value
    BY <1>0, <1>3 DEF topUpBond, Originator
  <2>2. balance' = balance + (originators'[o].bond - originators[o].bond)
    BY <1>0, <2>1
  <2>3. QED
    BY <2>1, <2>2, MoneyMoves
<1>4. ASSUME NEW sender \in Accounts, NEW o \in OriginatorIds, NEW amount \in Values,
             withdrawBond(sender, o, amount)
      PROVE  Solvent'
  <2>1. /\ \A p \in OriginatorIds : p # o => originators'[p].bond = originators[p].bond
        /\ originators'[o].bond = originators[o].bond - amount
        /\ balance' = balance - amount
    BY <1>0, <1>4 DEF withdrawBond, Originator
  <2>2. balance' = balance + (originators'[o].bond - originators[o].bond)
    BY <1>0, <2>1
  <2>3. QED
    BY <2>1, <2>2, MoneyMoves
<1>5. ASSUME NEW sender \in Accounts, NEW l \in LoanIds, NEW f \in FactIds,
             challenge(sender, l, f)
      PROVE  Solvent'
  <2>1. loans[l].status = "REPAYMENT_CLAIMED"
    BY <1>5 DEF challenge, Challengeable
  <2>2. PICK o \in OriginatorIds : o = loans[l].originatorId
    BY <2>1, LoanOriginator
  <2>3. Slash(o) \in Nat
    BY <1>0, <2>2, ParameterAssumption DEF Slash, SLASH_BPS
  <2>4. /\ \A p \in OriginatorIds : p # o => originators'[p].bond = originators[p].bond
        /\ originators'[o].bond = originators[o].bond - Slash(o)
        /\ balance' = balance - Bounty(Slash(o)) - ToSink(Slash(o))
    BY <1>0, <1>5, <2>2 DEF challenge, Originator
  <2>5. /\ Bounty(Slash(o)) \in Nat /\ ToSink(Slash(o)) \in Nat
        /\ Bounty(Slash(o)) + ToSink(Slash(o)) = Slash(o)
    BY <2>3, SlashSplits
  <2>6. balance' = balance + (originators'[o].bond - originators[o].bond)
    BY SMTT(30), <1>0, <2>2, <2>3, <2>4, <2>5
  <2>7. QED
    BY <2>4, <2>6, MoneyMoves
<1>6. CASE \E sender \in Accounts, o \in OriginatorIds, terms \in LoanTerms, f \in FactIds :
              registerLoan(sender, o, terms, f)
  <2>1. /\ balance' = balance
        /\ \A p \in OriginatorIds : originators'[p].bond = originators[p].bond
    BY <1>0, <1>6 DEF registerLoan, Originator
  <2>2. QED
    BY <2>1, MoneyStays
<1>7. CASE \E sender \in Accounts, l \in LoanIds, f \in FactIds :
              claimRepayment(sender, l, f)
  <2>1. /\ balance' = balance
        /\ \A p \in OriginatorIds : originators'[p].bond = originators[p].bond
    BY <1>0, <1>7 DEF claimRepayment, Originator
  <2>2. QED
    BY <2>1, MoneyStays
<1>8. CASE \E l \in LoanIds : finalize(l)
  <2>1. /\ balance' = balance
        /\ \A p \in OriginatorIds : originators'[p].bond = originators[p].bond
    BY <1>0, <1>8 DEF finalize, Released, Originator
  <2>2. QED
    BY <2>1, MoneyStays
<1>9. CASE \/ UNCHANGED vars
           \/ Tick
           \/ \E f \in FactIds : StoreFact(f)
           \/ \E sender \in Accounts, o \in OriginatorIds, a \in Addresses :
                 bindTreasury(sender, o, a)
           \/ \E l \in LoanIds : markDelinquent(l)
  <2>1. UNCHANGED <<originators, balance>>
    BY <1>9 DEF vars, books, Tick, StoreFact, bindTreasury, markDelinquent
  <2>2. QED
    BY <1>1, <2>1
<1>10. QED
  BY <1>2, <1>3, <1>4, <1>5, <1>6, <1>7, <1>8, <1>9 DEF Next

\* I1 of SECURITY.md for whole transactions: after each of them the contract holds
\* exactly the bonds of its originators; nothing of a slash is kept or missing.
THEOREM ContractIsSolvent == Spec => []Solvent
<1>1. QED
  BY SolventInit, SolventNext, CoreHolds, PTL DEF Spec
=============================================================================

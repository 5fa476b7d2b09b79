---------------------------- MODULE PayoutsProofs ----------------------------
(***************************************************************************)
(* Callbacks are harmless, for every value of the constants: Payouts, whose *)
(* payees run code in mid-transaction, implements Clearbook, whose          *)
(* transactions are atomic.  The invariant the argument needs is only that  *)
(* amounts are integers; the mapping moves the sink's share, so sums must   *)
(* be regrouped.  What is proved of whole transactions then carries over:   *)
(* the abstract book, and that the contract holds what it owes.             *)
(***************************************************************************)
EXTENDS Payouts, TLAPS

\* An originator's record before anything is known of its amounts' sign.
Account ==
    [ owner : Accounts \cup {Zero}, bond : Int, exposure : Int,
      circularWindow : Nat, challengeWindow : Nat, lastClaimBlock : Nat,
      active : BOOLEAN ]

Typed ==
    /\ number \in Nat
    /\ originators \in [0..MaxOriginators -> Account]
    /\ loans \in [LoanIds -> Loan]
    /\ nextOriginatorId \in Nat \ {0}
    /\ nextLoanId \in Nat \ {0}
    /\ balance \in Int
    /\ paidSink \in Int
    /\ frame.due \in Int
    /\ frame = [ payee |-> frame.payee, due |-> frame.due ]

-----------------------------------------------------------------------------
(* What a slash comes to.                                                  *)

LEMMA IdsInDomain == OriginatorIds \subseteq 0..MaxOriginators
BY InputAssumption DEF OriginatorIds

LEMMA SlashIsInteger ==
    ASSUME Typed, NEW o \in 0..MaxOriginators
    PROVE  /\ Slash(o) \in Int
           /\ Bounty(Slash(o)) \in Int
           /\ ToSink(Slash(o)) \in Int
<1>1. (BOND_PER_LOAN * SLASH_BPS) \div 10000 \in Int
  BY ParameterAssumption DEF SLASH_BPS
<1>2. originators[o].bond \in Int
  BY DEF Typed, Account
<1>3. Slash(o) \in Int
  BY <1>1, <1>2 DEF Slash
<1>4. \A s \in Int : Bounty(s) \in Int /\ ToSink(s) \in Int
  BY DEF Bounty, ToSink, BOUNTY_BPS
<1>5. QED
  BY <1>3, <1>4

LEMMA LoanHasOriginator ==
    ASSUME Typed, NEW l \in LoanIds
    PROVE  loans[l].originatorId \in 0..MaxOriginators
BY DEF Typed, Loan

\* Writing amounts into an account leaves the accounts typed.
LEMMA StatusWrites ==
    ASSUME NEW book \in [LoanIds -> Loan], NEW l \in LoanIds, NEW st \in LoanStatus
    PROVE  [book EXCEPT ![l].status = st] \in [LoanIds -> Loan]
<1>1. book[l] \in Loan
  OBVIOUS
<1>2. [book[l] EXCEPT !.status = st] \in Loan
  BY <1>1 DEF Loan
<1>3. QED
  BY <1>2

LEMMA AccountWrites ==
    ASSUME NEW accounts \in [0..MaxOriginators -> Account], NEW o \in 0..MaxOriginators,
           NEW b \in Int, NEW e \in Int, NEW n \in Nat
    PROVE  /\ [accounts EXCEPT ![o].bond = b] \in [0..MaxOriginators -> Account]
           /\ [accounts EXCEPT ![o].exposure = e] \in [0..MaxOriginators -> Account]
           /\ [accounts EXCEPT ![o].lastClaimBlock = n] \in [0..MaxOriginators -> Account]
           /\ [accounts EXCEPT ![o].bond = b, ![o].exposure = e]
                 \in [0..MaxOriginators -> Account]
<1>1. accounts[o] \in Account
  OBVIOUS
<1>2. /\ [accounts[o] EXCEPT !.bond = b] \in Account
      /\ [accounts[o] EXCEPT !.exposure = e] \in Account
      /\ [accounts[o] EXCEPT !.lastClaimBlock = n] \in Account
      /\ [accounts[o] EXCEPT !.bond = b, !.exposure = e] \in Account
  BY <1>1 DEF Account
<1>3. \A a \in Account : [accounts EXCEPT ![o] = a] \in [0..MaxOriginators -> Account]
  OBVIOUS
<1>4. [accounts EXCEPT ![o].bond = b, ![o].exposure = e]
        = [accounts EXCEPT ![o] = [accounts[o] EXCEPT !.bond = b, !.exposure = e]]
  OBVIOUS
<1>5. QED
  BY <1>2, <1>3, <1>4

\* The amounts of an account are integers.
LEMMA Amounts ==
    ASSUME Typed, NEW o \in 0..MaxOriginators
    PROVE  originators[o].bond \in Int /\ originators[o].exposure \in Int
BY DEF Typed, Account

-----------------------------------------------------------------------------
(* Typed is inductive.                                                     *)

LEMMA TypedInit == PayoutsInit => Typed
<1> SUFFICES ASSUME PayoutsInit PROVE Typed
  OBVIOUS
<1>1. originators \in [0..MaxOriginators -> Account]
  BY DEF PayoutsInit, Init, NoOriginator, Account
<1>2. loans \in [LoanIds -> Loan]
  BY InputAssumption DEF PayoutsInit, Init, NoLoan, Loan, LoanStatus
<1>3. QED
  BY <1>1, <1>2, ParameterAssumption DEF PayoutsInit, Init, Idle, Typed

LEMMA TypedUnguarded == ASSUME Typed, Unguarded, UNCHANGED frame PROVE Typed'
<1> USE DEF Typed
<1>1. CASE \E f \in FactIds : StoreFact(f)
  BY <1>1 DEF StoreFact, books, loanBook, payments
<1>2. ASSUME NEW sender \in Accounts, NEW value \in Values,
             NEW cw \in CircularWindows, NEW w \in ChallengeWindows,
             NEW covenants \in 0..3,
             registerOriginator(sender, value, cw, w, covenants)
      PROVE  Typed'
  <2>1. originators' \in [0..MaxOriginators -> Account]
    BY <1>2, InputAssumption DEF registerOriginator, Account
  <2>2. value \in Nat
    BY InputAssumption
  <2>3. QED
    BY <1>2, <2>1, <2>2 DEF registerOriginator, vault, loanBook, payments
<1>3. ASSUME NEW sender \in Accounts, NEW o \in OriginatorIds, NEW a \in Addresses,
             bindTreasury(sender, o, a)
      PROVE  Typed'
  BY <1>3 DEF bindTreasury, vault, loanBook, payments
<1>4. ASSUME NEW o \in OriginatorIds, NEW value \in Values, topUpBond(o, value)
      PROVE  Typed'
  <2>1. value \in Nat
    BY InputAssumption
  <2> DEFINE b == originators[o].bond + value
  <2>a. b \in Int /\ originators' = [originators EXCEPT ![o].bond = b]
    BY <1>4, <2>1, IdsInDomain, Amounts DEF topUpBond
  <2> HIDE DEF b
  <2>2. originators' \in [0..MaxOriginators -> Account]
    BY <2>a, IdsInDomain, AccountWrites
  <2>3. QED
    BY <1>4, <2>1, <2>2 DEF topUpBond, vault, loanBook, payments
<1>5. ASSUME NEW sender \in Accounts, NEW o \in OriginatorIds, NEW terms \in LoanTerms,
             NEW f \in FactIds, registerLoan(sender, o, terms, f)
      PROVE  Typed'
  <2> DEFINE e == originators[o].exposure + BOND_PER_LOAN
  <2>a. e \in Int /\ originators' = [originators EXCEPT ![o].exposure = e]
    BY <1>5, ParameterAssumption, IdsInDomain, Amounts DEF registerLoan
  <2> HIDE DEF e
  <2>1. originators' \in [0..MaxOriginators -> Account]
    BY <2>a, IdsInDomain, AccountWrites
  <2>2. NewLoan(o, terms, f) \in Loan
    BY InputAssumption DEF NewLoan, Loan, LoanStatus, OriginatorIds
  <2>3. loans' \in [LoanIds -> Loan]
    BY <1>5, <2>2 DEF registerLoan
  <2>4. QED
    BY <1>5, <2>1, <2>3 DEF registerLoan, vault, payments
<1>6. ASSUME NEW sender \in Accounts, NEW l \in LoanIds, NEW f \in FactIds,
             claimRepayment(sender, l, f)
      PROVE  Typed'
  <2> DEFINE o == loans[l].originatorId
  <2>a. originators' = [originators EXCEPT ![o].lastClaimBlock = number]
    BY <1>6 DEF claimRepayment
  <2>b. o \in 0..MaxOriginators
    BY LoanHasOriginator
  <2> HIDE DEF o
  <2>1. originators' \in [0..MaxOriginators -> Account]
    BY <2>a, <2>b, AccountWrites
  <2>c. [loans[l] EXCEPT !.repaymentFactId = f, !.claimBlock = number,
                         !.status = "REPAYMENT_CLAIMED"] \in Loan
    BY DEF Loan, LoanStatus
  <2>d. loans' = [loans EXCEPT ![l] =
                    [loans[l] EXCEPT !.repaymentFactId = f, !.claimBlock = number,
                                     !.status = "REPAYMENT_CLAIMED"]]
    BY <1>6 DEF claimRepayment
  <2>2. loans' \in [LoanIds -> Loan]
    BY <2>c, <2>d
  <2>3. QED
    BY <1>6, <2>1, <2>2 DEF claimRepayment, vault, payments
<1>7. ASSUME NEW l \in LoanIds, markDelinquent(l)
      PROVE  Typed'
  <2>a. loans' = [loans EXCEPT ![l].status = "DELINQUENT"]
    BY <1>7 DEF markDelinquent
  <2>b. "DELINQUENT" \in LoanStatus
    BY DEF LoanStatus
  <2>1. loans' \in [LoanIds -> Loan]
    BY <2>a, <2>b, StatusWrites
  <2>2. QED
    BY <1>7, <2>1 DEF markDelinquent, vault, books, payments
<1>8. ASSUME NEW l \in LoanIds, finalize(l)
      PROVE  Typed'
  <2> DEFINE o == loans[l].originatorId
             e == originators[o].exposure - BOND_PER_LOAN
  <2>a. o \in 0..MaxOriginators /\ e \in Int
    BY LoanHasOriginator, ParameterAssumption, Amounts
  <2>b. originators' = [originators EXCEPT ![o].exposure = e]
    BY <1>8 DEF finalize, Released
  <2> HIDE DEF o, e
  <2>1. originators' \in [0..MaxOriginators -> Account]
    BY <2>a, <2>b, AccountWrites
  <2>c. loans' = [loans EXCEPT ![l].status = "SETTLED"]
    BY <1>8 DEF finalize
  <2>d. "SETTLED" \in LoanStatus
    BY DEF LoanStatus
  <2>2. loans' \in [LoanIds -> Loan]
    BY <2>c, <2>d, StatusWrites
  <2>3. QED
    BY <1>8, <2>1, <2>2 DEF finalize, vault, payments
<1>9. QED
  BY <1>1, <1>2, <1>3, <1>4, <1>5, <1>6, <1>7, <1>8 DEF Unguarded

LEMMA TypedWithdraw ==
    ASSUME Typed, NEW sender \in Accounts, NEW o \in OriginatorIds,
           NEW amount \in Values, withdrawBondCalls(sender, o, amount)
    PROVE  Typed'
<1>1. amount \in Nat
  BY InputAssumption
<1> DEFINE b == originators[o].bond - amount
<1>a. b \in Int /\ originators' = [originators EXCEPT ![o].bond = b]
  BY <1>1, IdsInDomain, Amounts DEF withdrawBondCalls, withdrawBond
<1> HIDE DEF b
<1>2. originators' \in [0..MaxOriginators -> Account]
  BY <1>a, IdsInDomain, AccountWrites DEF Typed
<1>3. frame' = [ payee |-> sender, due |-> 0 ]
  BY DEF withdrawBondCalls
<1>4. /\ balance' \in Int
      /\ UNCHANGED <<number, loans, nextOriginatorId, nextLoanId, paidSink>>
  BY <1>1 DEF withdrawBondCalls, withdrawBond, Typed, vault, loanBook, payments
<1>5. QED
  BY <1>2, <1>3, <1>4 DEF Typed

LEMMA TypedChallenge ==
    ASSUME Typed, NEW sender \in Accounts, NEW l \in LoanIds, NEW f \in FactIds,
           challengeCalls(sender, l, f)
    PROVE  Typed'
<1> DEFINE o == loans[l].originatorId
           s == Slash(o)
           b == originators[o].bond - s
           e == originators[o].exposure - BOND_PER_LOAN
<1>1. o \in 0..MaxOriginators /\ s \in Int /\ Bounty(s) \in Int /\ ToSink(s) \in Int
  BY LoanHasOriginator, SlashIsInteger
<1>a. b \in Int /\ e \in Int
  BY <1>1, Amounts, ParameterAssumption
<1>2. originators' = [originators EXCEPT ![o].bond = b, ![o].exposure = e]
  BY DEF challengeCalls
<1> HIDE DEF o, s, b, e
<1>3. originators' \in [0..MaxOriginators -> Account]
  BY <1>1, <1>a, <1>2, AccountWrites DEF Typed
<1>b. loans' = [loans EXCEPT ![l].status = "BREACHED"]
  BY DEF challengeCalls
<1>c. "BREACHED" \in LoanStatus
  BY DEF LoanStatus
<1>4. loans' \in [LoanIds -> Loan]
  BY <1>b, <1>c, StatusWrites DEF Typed
<1>5. FirstPayment(sender, s)
  BY DEF challengeCalls, o, s
<1>6. /\ balance' \in Int
      /\ paidSink' \in Int
      /\ frame'.due \in Int
      /\ frame' = [ payee |-> frame'.payee, due |-> frame'.due ]
  BY <1>1, <1>5 DEF FirstPayment, Typed, Idle
<1>7. UNCHANGED <<number, nextOriginatorId, nextLoanId>>
  BY DEF challengeCalls, vault
<1>8. QED
  BY <1>3, <1>4, <1>6, <1>7 DEF Typed

LEMMA TypedNext == Typed /\ [PayoutsNext]_allVars => Typed'
<1> SUFFICES ASSUME Typed, [PayoutsNext]_allVars PROVE Typed'
  OBVIOUS
<1>1. CASE Unguarded /\ UNCHANGED frame
  BY <1>1, TypedUnguarded
<1>2. CASE nonReentrant /\ Tick /\ UNCHANGED frame
  BY <1>2 DEF Typed, Tick, books, loanBook, payments
<1>3. CASE \E sender \in Accounts, o \in OriginatorIds, amount \in Values :
              withdrawBondCalls(sender, o, amount)
  BY <1>3, TypedWithdraw
<1>4. CASE \E sender \in Accounts, l \in LoanIds, f \in FactIds :
              challengeCalls(sender, l, f)
  BY <1>4, TypedChallenge
<1>5. CASE PaySink
  BY <1>5 DEF Typed, PaySink, vault, books, loanBook
<1>6. CASE Return
  BY <1>6 DEF Typed, Return, Idle, vars, vault, books, loanBook, payments
<1>7. CASE UNCHANGED allVars
  BY <1>7 DEF Typed, allVars, vars, vault, books, loanBook, payments
<1>8. QED
  BY <1>1, <1>2, <1>3, <1>4, <1>5, <1>6, <1>7 DEF PayoutsNext

-----------------------------------------------------------------------------
(* The refinement.  Whole is Clearbook with the sink's outstanding share   *)
(* moved from the balance to what was paid.                                *)

LEMMA RefinesInit == PayoutsInit => Whole!Init
BY DEF PayoutsInit, Init, Idle, Whole!Init, NoOriginator, NoLoan,
       Whole!NoOriginator, Whole!NoLoan, LoanIds, Whole!LoanIds

\* A deposit or a payment commutes with the outstanding share.
LEMMA Regroup ==
    ASSUME NEW a \in Int, NEW b \in Int, NEW c \in Int
    PROVE  (a + b) - c = (a - c) + b
OBVIOUS

\* A call from anyone's code, in mid-transaction or not, is the same call of
\* the contract whose transactions are atomic.
LEMMA RefinesUnguarded ==
    ASSUME Typed, Unguarded, UNCHANGED frame
    PROVE  Whole!Next
<1>1. ASSUME NEW f \in FactIds, StoreFact(f) PROVE Whole!StoreFact(f)
  BY <1>1 DEF StoreFact, Whole!StoreFact, books, loanBook, payments,
              Whole!books, Whole!loanBook, Whole!payments
<1>2. ASSUME NEW sender \in Accounts, NEW value \in Values,
             NEW cw \in CircularWindows, NEW w \in ChallengeWindows,
             NEW covenants \in 0..3,
             registerOriginator(sender, value, cw, w, covenants)
      PROVE  Whole!registerOriginator(sender, value, cw, w, covenants)
  <2>1. (balance + value) - frame.due = (balance - frame.due) + value
    BY Regroup, InputAssumption DEF Typed
  <2>2. QED
    BY <1>2, <2>1
    DEF registerOriginator, Whole!registerOriginator, vault, loanBook, payments,
        Whole!vault, Whole!loanBook, Whole!payments
<1>3. ASSUME NEW sender \in Accounts, NEW o \in OriginatorIds, NEW a \in Addresses,
             bindTreasury(sender, o, a)
      PROVE  Whole!bindTreasury(sender, o, a)
  BY <1>3 DEF bindTreasury, Whole!bindTreasury, MayBind, Whole!MayBind,
              vault, loanBook, payments, Whole!vault, Whole!loanBook, Whole!payments
<1>4. ASSUME NEW o \in OriginatorIds, NEW value \in Values, topUpBond(o, value)
      PROVE  Whole!topUpBond(o, value)
  <2>1. (balance + value) - frame.due = (balance - frame.due) + value
    BY Regroup, InputAssumption DEF Typed
  <2>2. QED
    BY <1>4, <2>1 DEF topUpBond, Whole!topUpBond, vault, loanBook, payments,
                      Whole!vault, Whole!loanBook, Whole!payments
<1>5. ASSUME NEW sender \in Accounts, NEW o \in OriginatorIds, NEW terms \in LoanTerms,
             NEW f \in FactIds, registerLoan(sender, o, terms, f)
      PROVE  Whole!registerLoan(sender, o, terms, f)
  BY <1>5 DEF registerLoan, Whole!registerLoan, Disburses, Whole!Disburses,
              Unencumbered, Whole!Unencumbered, NewLoan, Whole!NewLoan,
              vault, payments, Whole!vault, Whole!payments
<1>6. ASSUME NEW sender \in Accounts, NEW l \in LoanIds, NEW f \in FactIds,
             claimRepayment(sender, l, f)
      PROVE  Whole!claimRepayment(sender, l, f)
  BY <1>6 DEF claimRepayment, Whole!claimRepayment, Repays, Whole!Repays,
              ClaimableStatus, Whole!ClaimableStatus, REPAYMENT_BPS, Whole!REPAYMENT_BPS,
              vault, payments, Whole!vault, Whole!payments
<1>7. ASSUME NEW l \in LoanIds, markDelinquent(l) PROVE Whole!markDelinquent(l)
  BY <1>7 DEF markDelinquent, Whole!markDelinquent, Delinquent, Whole!Delinquent,
              vault, books, payments, Whole!vault, Whole!books, Whole!payments
<1>8. ASSUME NEW l \in LoanIds, finalize(l) PROVE Whole!finalize(l)
  BY <1>8 DEF finalize, Whole!finalize, Finalizable, Whole!Finalizable,
              WindowEnd, Whole!WindowEnd, Released, Whole!Released,
              vault, payments, Whole!vault, Whole!payments
<1>9. OriginatorIds = Whole!OriginatorIds /\ LoanIds = Whole!LoanIds
  BY DEF OriginatorIds, Whole!OriginatorIds, LoanIds, Whole!LoanIds
<1>10. QED
  BY <1>1, <1>2, <1>3, <1>4, <1>5, <1>6, <1>7, <1>8, <1>9 DEF Unguarded, Whole!Next

LEMMA RefinesWithdraw ==
    ASSUME Typed, NEW sender \in Accounts, NEW o \in OriginatorIds,
           NEW amount \in Values, withdrawBondCalls(sender, o, amount)
    PROVE  Whole!withdrawBond(sender, o, amount)
<1>1. frame.due = 0 /\ frame'.due = 0
  BY DEF withdrawBondCalls, nonReentrant, Idle
<1>2. amount \in Int /\ balance \in Int /\ paidSink \in Int
  BY InputAssumption DEF Typed
<1>3. /\ balance' - frame'.due = (balance - frame.due) - amount
      /\ paidSink' + frame'.due = paidSink + frame.due
  BY <1>1, <1>2 DEF withdrawBondCalls, withdrawBond, payments
<1>4. QED
  BY <1>3 DEF withdrawBondCalls, withdrawBond, Whole!withdrawBond, CooldownOver,
              Whole!CooldownOver, Unencumbered, Whole!Unencumbered,
              vault, loanBook, payments, Whole!vault, Whole!loanBook, Whole!payments

\* Between them the two payments of a challenge move the whole slash.
LEMMA RefinesChallenge ==
    ASSUME Typed, NEW sender \in Accounts, NEW l \in LoanIds, NEW f \in FactIds,
           challengeCalls(sender, l, f)
    PROVE  Whole!challenge(sender, l, f)
<1> DEFINE o == loans[l].originatorId
           s == Slash(o)
           b == Bounty(s)
           t == ToSink(s)
<1>1. b \in Int /\ t \in Int /\ balance \in Int /\ paidSink \in Int
  BY LoanHasOriginator, SlashIsInteger DEF Typed
<1>2. frame.due = 0
  BY DEF challengeCalls, nonReentrant, Idle
<1>3. FirstPayment(sender, s)
  BY DEF challengeCalls
<1>4. /\ paidBounties' = paidBounties + b
      /\ \/ balance' = balance - b /\ frame'.due = t /\ paidSink' = paidSink
         \/ balance' = balance - b - t /\ frame'.due = 0 /\ paidSink' = paidSink + t
  BY <1>3 DEF FirstPayment, Idle
<1>5. /\ balance' - frame'.due = (balance - frame.due) - b - t
      /\ paidSink' + frame'.due = (paidSink + frame.due) + t
  <2> HIDE DEF o, s, b, t
  <2> QED
    BY <1>1, <1>2, <1>4
<1>6. s = Whole!Slash(o) /\ b = Whole!Bounty(s) /\ t = Whole!ToSink(s)
  BY DEF Slash, Whole!Slash, Bounty, Whole!Bounty, ToSink, Whole!ToSink, SLASH_BPS,
         Whole!SLASH_BPS, BOUNTY_BPS, Whole!BOUNTY_BPS
<1>7. Challengeable(l, f) => Whole!Challengeable(l, f)
  BY DEF Challengeable, Whole!Challengeable, WindowEnd, Whole!WindowEnd,
         Covenant, Whole!Covenant,
         requireCircularRepaymentBreach, Whole!requireCircularRepaymentBreach,
         SameChain, SameToken, SamePayer, FromBoundTreasury, CoversRepayment,
         FundingBefore, WithinWindow, Whole!SameChain, Whole!SameToken, Whole!SamePayer,
         Whole!FromBoundTreasury, Whole!CoversRepayment, Whole!FundingBefore,
         Whole!WithinWindow
<1>8. /\ Challengeable(l, f)
      /\ b > 0 => sender \in Payable
      /\ t > 0 => PROTOCOL_SINK \in Payable
      /\ loans' = [loans EXCEPT ![l].status = "BREACHED"]
      /\ originators' = [originators EXCEPT ![o].bond = @ - s,
                                            ![o].exposure = @ - BOND_PER_LOAN]
      /\ UNCHANGED <<number, stored, nextOriginatorId, treasuryOwner, bindingNonce,
                     nextLoanId, factConsumedBy>>
  BY DEF challengeCalls, vault
<1> HIDE DEF s, b, t
<1>9. QED
  BY <1>4, <1>5, <1>6, <1>7, <1>8 DEF Whole!challenge, Whole!vault

LEMMA RefinesNext == Typed /\ [PayoutsNext]_allVars => [Whole!Next]_(Whole!vars)
<1> SUFFICES ASSUME Typed, [PayoutsNext]_allVars PROVE [Whole!Next]_(Whole!vars)
  OBVIOUS
<1>1. CASE Unguarded /\ UNCHANGED frame
  BY <1>1, RefinesUnguarded
<1>2. CASE nonReentrant /\ Tick /\ UNCHANGED frame
  <2>1. Whole!Tick
    BY <1>2 DEF Tick, Whole!Tick, books, loanBook, payments,
                Whole!books, Whole!loanBook, Whole!payments
  <2>2. QED
    BY <2>1 DEF Whole!Next
<1>3. CASE \E sender \in Accounts, o \in OriginatorIds, amount \in Values :
              withdrawBondCalls(sender, o, amount)
  <2>1. OriginatorIds = Whole!OriginatorIds
    BY DEF OriginatorIds, Whole!OriginatorIds
  <2>2. QED
    BY <1>3, <2>1, RefinesWithdraw DEF Whole!Next
<1>4. CASE \E sender \in Accounts, l \in LoanIds, f \in FactIds :
              challengeCalls(sender, l, f)
  <2>1. LoanIds = Whole!LoanIds
    BY DEF LoanIds, Whole!LoanIds
  <2>2. QED
    BY <1>4, <2>1, RefinesChallenge DEF Whole!Next
<1>5. CASE PaySink
  <2>1. /\ balance' = balance - frame.due
        /\ paidSink' = paidSink + frame.due
        /\ frame'.due = 0
    BY <1>5 DEF PaySink
  <2>2. /\ balance' - frame'.due = balance - frame.due
        /\ paidSink' + frame'.due = paidSink + frame.due
    BY <2>1 DEF Typed
  <2>3. QED
    BY <1>5, <2>2 DEF PaySink, vault, books, loanBook, Whole!vars, Whole!vault,
                      Whole!books, Whole!loanBook, Whole!payments
<1>6. CASE Return
  <2>1. frame.due = 0 /\ frame'.due = 0 /\ UNCHANGED vars
    BY <1>6 DEF Return, Idle
  <2>2. QED
    BY <2>1 DEF vars, vault, books, loanBook, payments, Whole!vars, Whole!vault,
                Whole!books, Whole!loanBook, Whole!payments
<1>7. CASE UNCHANGED allVars
  BY <1>7 DEF allVars, vars, vault, books, loanBook, payments, Whole!vars, Whole!vault,
              Whole!books, Whole!loanBook, Whole!payments
<1>8. QED
  BY <1>1, <1>2, <1>3, <1>4, <1>5, <1>6, <1>7 DEF PayoutsNext

(***************************************************************************)
(* Every run of the contract whose payees call back in the middle of       *)
(* withdrawBond and challenge is a run of the contract of module Clearbook, *)
(* where each transaction is one step: nonReentrant on those two, with     *)
(* state written before money leaves, is enough.                           *)
(***************************************************************************)
THEOREM CallbacksAreHarmless == PayoutsSpec => ImplementsClearbook
<1>1. PayoutsInit => Typed
  BY TypedInit
<1>2. Typed /\ [PayoutsNext]_allVars => Typed'
  BY TypedNext
<1>3. PayoutsInit => Whole!Init
  BY RefinesInit
<1>4. Typed /\ [PayoutsNext]_allVars => [Whole!Next]_(Whole!vars)
  BY RefinesNext
<1>5. QED
  BY <1>1, <1>2, <1>3, <1>4, PTL DEF PayoutsSpec, ImplementsClearbook, Whole!Spec

-----------------------------------------------------------------------------
(***************************************************************************)
(* What is proved of whole transactions (modules ClearbookProofs and       *)
(* EvidenceProofs) therefore holds with callbacks, of the balance and the  *)
(* payments that Whole sees.  The proofs come with an instance of Clearbook *)
(* of their own, WholeBook, which is Whole, operator by operator.          *)
(***************************************************************************)
WholeBook == INSTANCE EvidenceProofs WITH
    balance <- balance - frame.due,
    paidSink <- paidSink + frame.due

LEMMA SameInit == Whole!Init => WholeBook!Init
BY DEF Whole!Init, WholeBook!Init, Whole!NoOriginator, WholeBook!NoOriginator,
       Whole!NoLoan, WholeBook!NoLoan, Whole!LoanIds, WholeBook!LoanIds

LEMMA SameNext == [Whole!Next]_(Whole!vars) => [WholeBook!Next]_(WholeBook!vars)
<1>1. Whole!Tick <=> WholeBook!Tick
  BY Zenon DEF Whole!Tick, WholeBook!Tick, Whole!books, WholeBook!books,
             Whole!loanBook, WholeBook!loanBook, Whole!payments,
             WholeBook!payments
<1>2. \A f \in FactIds : Whole!StoreFact(f) <=> WholeBook!StoreFact(f)
  BY Zenon DEF Whole!StoreFact, WholeBook!StoreFact, Whole!books, WholeBook!books,
             Whole!loanBook, WholeBook!loanBook, Whole!payments,
             WholeBook!payments
<1>3. \A sender, value, cw, w, covenants :
        Whole!registerOriginator(sender, value, cw, w, covenants)
          <=> WholeBook!registerOriginator(sender, value, cw, w, covenants)
  BY SMTT(30) DEF Whole!registerOriginator, WholeBook!registerOriginator, Whole!vault,
             WholeBook!vault, Whole!loanBook, WholeBook!loanBook, Whole!payments,
             WholeBook!payments
<1>4. \A sender, o, a :
        Whole!bindTreasury(sender, o, a)
          <=> WholeBook!bindTreasury(sender, o, a)
  BY Zenon DEF Whole!bindTreasury, WholeBook!bindTreasury, Whole!MayBind,
             WholeBook!MayBind, Whole!vault, WholeBook!vault, Whole!loanBook,
             WholeBook!loanBook, Whole!payments, WholeBook!payments
<1>5. \A o, value : Whole!topUpBond(o, value) <=> WholeBook!topUpBond(o, value)
  BY Zenon DEF Whole!topUpBond, WholeBook!topUpBond, Whole!vault, WholeBook!vault,
             Whole!loanBook, WholeBook!loanBook, Whole!payments,
             WholeBook!payments
<1>6. \A sender, o, amount :
        Whole!withdrawBond(sender, o, amount)
          <=> WholeBook!withdrawBond(sender, o, amount)
  BY Zenon DEF Whole!withdrawBond, WholeBook!withdrawBond, Whole!CooldownOver,
             WholeBook!CooldownOver, Whole!Unencumbered, WholeBook!Unencumbered,
             Whole!vault, WholeBook!vault, Whole!loanBook, WholeBook!loanBook,
             Whole!payments, WholeBook!payments
<1>7. \A sender, o, terms, f :
        Whole!registerLoan(sender, o, terms, f)
          <=> WholeBook!registerLoan(sender, o, terms, f)
  <2>1. \A o, terms, f : Whole!Disburses(o, terms, f) <=> WholeBook!Disburses(o, terms, f)
    BY Zenon DEF Whole!Disburses, WholeBook!Disburses
  <2>2. \A o, terms, f : Whole!NewLoan(o, terms, f) = WholeBook!NewLoan(o, terms, f)
    BY Zenon DEF Whole!NewLoan, WholeBook!NewLoan
  <2>3. \A o : Whole!Unencumbered(o) = WholeBook!Unencumbered(o)
    BY Zenon DEF Whole!Unencumbered, WholeBook!Unencumbered
  <2>4. QED
    BY <2>1, <2>2, <2>3 DEF Whole!registerLoan, WholeBook!registerLoan,
                            Whole!vault, WholeBook!vault, Whole!payments,
                            WholeBook!payments
<1>8. \A sender, l, f :
        Whole!claimRepayment(sender, l, f)
          <=> WholeBook!claimRepayment(sender, l, f)
  <2>1. \A l, f : Whole!Repays(l, f) <=> WholeBook!Repays(l, f)
    BY DEF Whole!Repays, WholeBook!Repays, Whole!REPAYMENT_BPS, WholeBook!REPAYMENT_BPS
  <2>2. Whole!ClaimableStatus = WholeBook!ClaimableStatus
    BY DEF Whole!ClaimableStatus, WholeBook!ClaimableStatus
  <2>3. QED
    BY <2>1, <2>2 DEF Whole!claimRepayment, WholeBook!claimRepayment, Whole!vault,
                      WholeBook!vault, Whole!payments, WholeBook!payments
<1>9. \A l : Whole!markDelinquent(l) <=> WholeBook!markDelinquent(l)
  BY Zenon DEF Whole!markDelinquent, WholeBook!markDelinquent, Whole!Delinquent,
             WholeBook!Delinquent, Whole!vault, WholeBook!vault, Whole!books,
             WholeBook!books, Whole!payments, WholeBook!payments
<1>10. \A l : Whole!finalize(l) <=> WholeBook!finalize(l)
  BY Zenon DEF Whole!finalize, WholeBook!finalize, Whole!Finalizable,
             WholeBook!Finalizable, Whole!WindowEnd, WholeBook!WindowEnd,
             Whole!Released, WholeBook!Released, Whole!vault, WholeBook!vault,
             Whole!payments, WholeBook!payments
<1>11. \A sender, l, f : Whole!challenge(sender, l, f) <=> WholeBook!challenge(sender, l, f)
  <2>1. \A l, f : Whole!Covenant(l, f) <=> WholeBook!Covenant(l, f)
    BY Zenon DEF Whole!Covenant, WholeBook!Covenant,
                 Whole!requireCircularRepaymentBreach,
                 WholeBook!requireCircularRepaymentBreach, Whole!SameChain,
                 WholeBook!SameChain, Whole!SameToken, WholeBook!SameToken,
                 Whole!SamePayer, WholeBook!SamePayer, Whole!FromBoundTreasury,
                 WholeBook!FromBoundTreasury, Whole!CoversRepayment,
                 WholeBook!CoversRepayment, Whole!FundingBefore,
                 WholeBook!FundingBefore, Whole!WithinWindow,
                 WholeBook!WithinWindow
  <2>2. \A l, f : Whole!Challengeable(l, f) <=> WholeBook!Challengeable(l, f)
    BY <2>1, Zenon DEF Whole!Challengeable, WholeBook!Challengeable,
                       Whole!WindowEnd, WholeBook!WindowEnd
  <2>3. /\ \A o : Whole!Slash(o) = WholeBook!Slash(o)
        /\ \A s : Whole!Bounty(s) = WholeBook!Bounty(s) /\ Whole!ToSink(s) = WholeBook!ToSink(s)
    BY DEF Whole!Slash, WholeBook!Slash, Whole!Bounty, WholeBook!Bounty,
                 Whole!ToSink, WholeBook!ToSink, Whole!SLASH_BPS,
                 WholeBook!SLASH_BPS, Whole!BOUNTY_BPS, WholeBook!BOUNTY_BPS
  <2>4. QED
    BY <2>2, <2>3 DEF Whole!challenge, WholeBook!challenge, Whole!vault,
                      WholeBook!vault
<1>12. Whole!OriginatorIds = WholeBook!OriginatorIds /\ Whole!LoanIds = WholeBook!LoanIds
  BY DEF Whole!OriginatorIds, WholeBook!OriginatorIds, Whole!LoanIds,
             WholeBook!LoanIds
<1>13. UNCHANGED Whole!vars <=> UNCHANGED WholeBook!vars
  BY DEF Whole!vars, WholeBook!vars, Whole!vault, WholeBook!vault, Whole!books,
             WholeBook!books, Whole!loanBook, WholeBook!loanBook, Whole!payments,
             WholeBook!payments
<1>14. QED
  BY <1>1, <1>2, <1>3, <1>4, <1>5, <1>6, <1>7, <1>8, <1>9, <1>10, <1>11, <1>12,
     <1>13
  DEF Whole!Next, WholeBook!Next

\* Both see the same book.
BookView == << [o \in WholeBook!OriginatorIds |-> WholeBook!FreeBond(o)],
               [l \in WholeBook!LoanIds |-> loans[l].originatorId],
               [l \in WholeBook!LoanIds |-> WholeBook!Phase(loans[l].status)],
               [l \in WholeBook!LoanIds |-> WholeBook!Cited(l)] >>

SafetyView == << [o \in WholeSafety!OriginatorIds |-> WholeSafety!FreeBond(o)],
                 [l \in WholeSafety!LoanIds |-> loans[l].originatorId],
                 [l \in WholeSafety!LoanIds |-> WholeSafety!Phase(loans[l].status)],
                 [l \in WholeSafety!LoanIds |-> WholeSafety!Cited(l)] >>

LEMMA SameIds ==
    /\ WholeSafety!OriginatorIds = WholeBook!OriginatorIds
    /\ WholeSafety!LoanIds = WholeBook!LoanIds
BY DEF WholeSafety!OriginatorIds, WholeBook!OriginatorIds, WholeSafety!LoanIds,
       WholeBook!LoanIds

SameBook == SafetyView = BookView

LEMMA SameView == SameBook
<1>1. \A o : WholeSafety!FreeBond(o) = WholeBook!FreeBond(o)
  <2>1. \A o : WholeSafety!OpenLoans(o) = WholeBook!OpenLoans(o)
    BY SameIds, Zenon DEF WholeSafety!OpenLoans, WholeBook!OpenLoans,
                          WholeSafety!IsOpen, WholeBook!IsOpen
  <2>2. \A S : WholeSafety!Cardinality(S) = WholeBook!Cardinality(S)
    BY DEF WholeSafety!Cardinality, WholeBook!Cardinality
  <2>3. QED
    BY <2>1, <2>2, Zenon DEF WholeSafety!FreeBond, WholeBook!FreeBond
<1>2. \A l : WholeSafety!Cited(l) = WholeBook!Cited(l)
  BY Zenon DEF WholeSafety!Cited, WholeBook!Cited
<1>3. \A s : WholeSafety!Phase(s) = WholeBook!Phase(s)
  BY Zenon DEF WholeSafety!Phase, WholeBook!Phase
<1>4. QED
  BY SameIds, <1>1, <1>2, <1>3 DEF SameBook, SafetyView, BookView

LEMMA SameViewNext == SameBook'
BY SameView, PTL

LEMMA WholeBookRuns == PayoutsSpec => WholeBook!Spec
<1>1. ImplementsClearbook => WholeBook!Spec
  BY SameInit, SameNext, PTL DEF ImplementsClearbook, Whole!Spec, WholeBook!Spec
<1>2. QED
  BY <1>1, CallbacksAreHarmless, PTL

LEMMA BookIsSame == WholeBook!ImplementsCovenantBook => KeepsCovenantBook
<1>1. WholeBook!Book!Init => WholeSafety!Book!Init
  BY SameIds, SameView, Zenon
  DEF SameBook, BookView, SafetyView, WholeSafety!Book!Init, WholeBook!Book!Init
<1>2. [WholeBook!Book!Next]_(WholeBook!Book!vars)
        => [WholeSafety!Book!Next]_(WholeSafety!Book!vars)
  <2>1. UNCHANGED WholeBook!Book!vars => UNCHANGED WholeSafety!Book!vars
    BY SameView, SameViewNext
    DEF SameBook, BookView, SafetyView, WholeSafety!Book!vars, WholeBook!Book!vars
  <2>2. \A o, n : WholeBook!Book!Deposit(o, n) => WholeSafety!Book!Deposit(o, n)
    BY SameView, SameViewNext
    DEF SameBook, BookView, SafetyView, WholeSafety!Book!Deposit, WholeBook!Book!Deposit
  <2>3. \A o, n : WholeBook!Book!Withdraw(o, n) => WholeSafety!Book!Withdraw(o, n)
    BY SameView, SameViewNext
    DEF SameBook, BookView, SafetyView, WholeSafety!Book!Withdraw, WholeBook!Book!Withdraw
  <2>a. WholeSafety!Book!Spent = WholeBook!Book!Spent
    BY SameIds, SameView DEF SameBook, BookView, SafetyView,
                             WholeSafety!Book!Spent, WholeBook!Book!Spent
  <2>4. \A o, l, e : WholeBook!Book!Lend(o, l, e) => WholeSafety!Book!Lend(o, l, e)
    BY <2>a, SameView, SameViewNext DEF SameBook, BookView, SafetyView,
                                        WholeSafety!Book!Lend, WholeBook!Book!Lend
  <2>5. \A l, e : WholeBook!Book!ClaimRepaid(l, e) => WholeSafety!Book!ClaimRepaid(l, e)
    BY <2>a, SameView, SameViewNext DEF SameBook, BookView, SafetyView,
                                        WholeSafety!Book!ClaimRepaid, WholeBook!Book!ClaimRepaid
  <2>6. \A l : WholeBook!Book!Settle(l) => WholeSafety!Book!Settle(l)
    BY SameView, SameViewNext
    DEF SameBook, BookView, SafetyView, WholeSafety!Book!Settle, WholeBook!Book!Settle
  <2>7. \A l : WholeBook!Book!Breach(l) => WholeSafety!Book!Breach(l)
    BY SameView, SameViewNext
    DEF SameBook, BookView, SafetyView, WholeSafety!Book!Breach, WholeBook!Book!Breach
  <2>8. QED
    BY SameIds, <2>1, <2>2, <2>3, <2>4, <2>5, <2>6, <2>7
    DEF WholeSafety!Book!Next, WholeBook!Book!Next
<1>3. QED
  BY <1>1, <1>2, PTL
  DEF KeepsCovenantBook, WholeBook!ImplementsCovenantBook,
      WholeSafety!ImplementsCovenantBook,
     WholeBook!Book!Spec, WholeSafety!Book!Spec

(***************************************************************************)
(* Whatever the code of a payee calls while it is being paid, every bond   *)
(* set aside, every end of a claim and every piece of evidence spent goes  *)
(* by the rules of CovenantBook.                                           *)
(***************************************************************************)
THEOREM CallbacksKeepCovenantBook == PayoutsSpec => KeepsCovenantBook
<1>1. WholeBook!Spec => WholeBook!ImplementsCovenantBook
  BY WholeBook!ClearbookIsACovenantBook, ZeroAssumption, LedgerAssumption,
     AccountAssumption, ParameterAssumption, InputAssumption
  DEF Transfer, WholeBook!Transfer
<1>2. QED
  BY <1>1, WholeBookRuns, BookIsSame, PTL

-----------------------------------------------------------------------------
(* The money, in the middle of a transaction.                              *)

LEMMA SameBonds ==
    WholeBook!Bonds(originators) = MapThenSumSet(LAMBDA o : originators[o].bond, OriginatorIds)
<1>1. WholeBook!OriginatorIds = OriginatorIds
  BY DEF WholeBook!OriginatorIds, OriginatorIds
<1>2. QED
  BY <1>1 DEF WholeBook!Bonds, WholeBook!SumOf, WholeBook!MapThenSumSet,
              WholeBook!MapThenFoldSet, MapThenSumSet, MapThenFoldSet

LEMMA SolventBalance == WholeBook!Solvent => WholeBook!Bonds(originators) = balance - frame.due
BY DEF WholeBook!Solvent

(***************************************************************************)
(* I1 of SECURITY.md at every point of a transaction, in the code of a     *)
(* payee too: the contract holds the bonds of its originators and what it  *)
(* still owes the sink.  The sink's share is therefore always there when   *)
(* the challenger's code returns, and nothing is ever left behind.         *)
(***************************************************************************)
THEOREM BondsAndDuesAreHeld == PayoutsSpec => []HoldsBondsAndDues
<1>1. WholeBook!Spec => []WholeBook!Solvent
  BY WholeBook!ContractIsSolvent, ZeroAssumption, LedgerAssumption,
     AccountAssumption, ParameterAssumption, InputAssumption
  DEF Transfer, WholeBook!Transfer
<1>2. PayoutsSpec => []Typed
  BY TypedInit, TypedNext, PTL DEF PayoutsSpec
<1>3. Typed /\ WholeBook!Solvent => HoldsBondsAndDues
  <2> SUFFICES ASSUME Typed, WholeBook!Solvent PROVE HoldsBondsAndDues
    OBVIOUS
  <2>1. PICK sum : sum = MapThenSumSet(LAMBDA o : originators[o].bond, OriginatorIds)
    OBVIOUS
  <2>2. sum = balance - frame.due
    BY <2>1, SameBonds, SolventBalance
  <2>3. balance = sum + frame.due
    BY <2>2 DEF Typed
  <2>4. QED
    BY <2>1, <2>3 DEF HoldsBondsAndDues
<1>4. QED
  BY <1>1, <1>2, <1>3, WholeBookRuns, PTL
=============================================================================

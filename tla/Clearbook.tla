------------------------------ MODULE Clearbook ------------------------------
(***************************************************************************)
(* contracts/src/Clearbook.sol, the lending contract: originators post a   *)
(* bond and publish their windows, bind source-chain treasuries by         *)
(* signature, register loans against disbursement facts and claim          *)
(* repayments against repayment facts; anyone may mark a loan delinquent,  *)
(* finalize a claim whose window has closed, or challenge a claim with a   *)
(* funding fact and take half of the slashed bond.                         *)
(*                                                                         *)
(* A transaction is one atomic step.  One that reverts changes nothing, so *)
(* each revert of the code is a conjunct of the guard.  The vault is the   *)
(* registry of module FactRegistry: `stored' is its domain, and what a     *)
(* stored fact says is what the source chain did (Ledger).                 *)
(*                                                                         *)
(* An operator used nowhere, directly before another of the same           *)
(* parameters, is the other one with a plausible bug, kept to show that    *)
(* the properties notice it.                                               *)
(***************************************************************************)
EXTENDS CovenantLib, FiniteSets

CONSTANTS
    Accounts,               \* Creditcoin accounts: msg.sender
    Payable,                \* those that accept a payment (a contract may not)
    PROTOCOL_SINK,          \* the account half of a slash goes to
    Addresses,              \* source-chain addresses
    Tokens,                 \* source-chain tokens
    Zero,                   \* the zero address, token and fact id of Solidity
    FactIds,                \* identities of the transfers of the source chains
    Ledger,                 \* what each of them is: fact id -> transfer
    Signatures,             \* <<originatorId, address, nonce>> signed by the address's key
    MIN_BOND,               \* the contract's constants, scaled by the instances
    BOND_PER_LOAN,
    WITHDRAW_COOLDOWN,
    MIN_CIRCULAR_WINDOW,
    MAX_CIRCULAR_WINDOW,
    MIN_CHALLENGE_WINDOW,
    DeployBlock,            \* the block number at deployment
    LoanTerms,              \* [token, borrower, principal, maturityBlock] originators try
    CircularWindows,        \* the windows originators try
    ChallengeWindows,
    Values,                 \* the amounts sent or withdrawn
    MaxOriginators,         \* bound: originators registered
    MaxLoans,               \* bound: loans registered
    MaxBlock,               \* bound: the last block
    MaxBond                 \* bound: no top-up beyond this bond

SLASH_BPS == 10000
BOUNTY_BPS == 5000
HALF_REPAYMENT_BPS == 5000
REPAYMENT_BPS == 10000

VARIABLES
    number,             \* block.number
    stored,             \* the vault: ids of the facts it holds
    originators,        \* the contract's storage
    nextOriginatorId,
    loans,
    nextLoanId,
    treasuryOwner,
    bindingNonce,
    factConsumedBy,
    balance,            \* address(this).balance
    paidBounties,       \* history: what challengers were paid
    paidSink            \* history: what PROTOCOL_SINK was paid

vault == <<number, stored>>
books == <<originators, nextOriginatorId, treasuryOwner, bindingNonce>>
loanBook == <<loans, nextLoanId, factConsumedBy>>
payments == <<paidBounties, paidSink>>
vars == <<vault, books, loanBook, balance, payments>>

-----------------------------------------------------------------------------
(* Types.                                                                  *)

Transfer == [ chainKey : Nat, blockHeight : Nat, token : Tokens,
              from : Addresses, to : Addresses, amount : Nat ]

OriginatorIds == 1..MaxOriginators
LoanIds == 1..MaxLoans

LoanStatus == {"NONE", "REGISTERED", "REPAYMENT_CLAIMED", "DELINQUENT",
               "SETTLED", "BREACHED"}

Originator ==
    [ owner : Accounts \cup {Zero}, bond : Nat, exposure : Nat,
      circularWindow : Nat, challengeWindow : Nat, lastClaimBlock : Nat,
      active : BOOLEAN ]

Loan ==
    [ originatorId : 0..MaxOriginators, token : Tokens \cup {Zero},
      borrower : Addresses \cup {Zero}, principal : Nat, maturityBlock : Nat,
      disbursementFactId : FactIds \cup {Zero},
      repaymentFactId : FactIds \cup {Zero}, claimBlock : Nat,
      status : LoanStatus ]

\* An unset slot of a Solidity mapping.
NoOriginator ==
    [ owner |-> Zero, bond |-> 0, exposure |-> 0, circularWindow |-> 0,
      challengeWindow |-> 0, lastClaimBlock |-> 0, active |-> FALSE ]

NoLoan ==
    [ originatorId |-> 0, token |-> Zero, borrower |-> Zero, principal |-> 0,
      maturityBlock |-> 0, disbursementFactId |-> Zero,
      repaymentFactId |-> Zero, claimBlock |-> 0, status |-> "NONE" ]

ASSUME ZeroAssumption ==
    Zero \notin Accounts \cup Addresses \cup Tokens \cup FactIds

ASSUME LedgerAssumption == Ledger \in [FactIds -> Transfer]

ASSUME AccountAssumption == Payable \subseteq Accounts

ASSUME ParameterAssumption ==
    /\ MIN_BOND \in Nat
    /\ BOND_PER_LOAN \in Nat \ {0}
    /\ WITHDRAW_COOLDOWN \in Nat
    /\ MIN_CIRCULAR_WINDOW \in Nat
    /\ MAX_CIRCULAR_WINDOW \in Nat
    /\ MIN_CHALLENGE_WINDOW \in Nat
    /\ DeployBlock \in Nat \ {0}      \* the genesis block runs no transaction

ASSUME InputAssumption ==
    /\ LoanTerms \subseteq [token : Tokens, borrower : Addresses,
                            principal : Nat, maturityBlock : Nat]
    /\ CircularWindows \subseteq Nat
    /\ ChallengeWindows \subseteq Nat
    /\ Values \subseteq Nat
    /\ MaxOriginators \in Nat
    /\ MaxLoans \in Nat
    /\ MaxBlock \in Nat
    /\ MaxBond \in Nat

-----------------------------------------------------------------------------
Init ==
    /\ number = DeployBlock
    /\ stored = {}
    /\ originators = [o \in 0..MaxOriginators |-> NoOriginator]
    /\ nextOriginatorId = 1
    /\ loans = [l \in LoanIds |-> NoLoan]
    /\ nextLoanId = 1
    /\ treasuryOwner = [a \in Addresses |-> 0]
    /\ bindingNonce = [a \in Addresses |-> 0]
    /\ factConsumedBy = [f \in FactIds |-> 0]
    /\ balance = 0
    /\ paidBounties = 0
    /\ paidSink = 0

(* The environment: blocks pass, and anyone's submission reaches the vault. *)

Tick ==
    /\ number < MaxBlock
    /\ number' = number + 1
    /\ UNCHANGED <<stored, books, loanBook, balance, payments>>

StoreFact(f) ==
    /\ f \notin stored
    /\ stored' = stored \cup {f}
    /\ UNCHANGED <<number, books, loanBook, balance, payments>>

-----------------------------------------------------------------------------
(* Originator lifecycle.                                                   *)

registerOriginator(sender, value, circularWindow, challengeWindow, covenants) ==
    /\ nextOriginatorId <= MaxOriginators
    /\ value >= MIN_BOND
    /\ circularWindow \in MIN_CIRCULAR_WINDOW..MAX_CIRCULAR_WINDOW
    /\ challengeWindow >= MIN_CHALLENGE_WINDOW
    /\ covenants % 2 = 1                \* the CIRCULAR_REPAYMENT bit
    /\ originators' = [originators EXCEPT ![nextOriginatorId] =
           [ owner |-> sender, bond |-> value, exposure |-> 0,
             circularWindow |-> circularWindow,
             challengeWindow |-> challengeWindow,
             lastClaimBlock |-> 0, active |-> TRUE ]]
    /\ nextOriginatorId' = nextOriginatorId + 1
    /\ balance' = balance + value
    /\ UNCHANGED <<vault, treasuryOwner, bindingNonce, loanBook, payments>>

SignedBinding(o, ethAddress) ==
    <<o, ethAddress, bindingNonce[ethAddress]>> \in Signatures

\* One address binds to at most one originator, ever.
MayBind(o, ethAddress) ==
    /\ treasuryOwner[ethAddress] = 0
    /\ <<o, ethAddress, bindingNonce[ethAddress]>> \in Signatures

bindTreasury(sender, o, ethAddress) ==
    /\ originators[o].owner = sender
    /\ originators[o].active
    /\ MayBind(o, ethAddress)
    /\ treasuryOwner' = [treasuryOwner EXCEPT ![ethAddress] = o]
    /\ bindingNonce' = [bindingNonce EXCEPT ![ethAddress] = @ + 1]
    /\ UNCHANGED <<vault, originators, nextOriginatorId, loanBook, balance, payments>>

\* Anyone may top up.
topUpBond(o, value) ==
    /\ originators[o].active
    /\ originators[o].bond + value <= MaxBond
    /\ originators' = [originators EXCEPT ![o].bond = @ + value]
    /\ balance' = balance + value
    /\ UNCHANGED <<vault, nextOriginatorId, treasuryOwner, bindingNonce, loanBook, payments>>

WholeBond(o) == originators[o].bond

\* The bond no open loan rests on.
Unencumbered(o) == originators[o].bond - originators[o].exposure

CooldownOverEarly(o) == number >= originators[o].lastClaimBlock + WITHDRAW_COOLDOWN

CooldownOver(o) == number > originators[o].lastClaimBlock + WITHDRAW_COOLDOWN

withdrawBond(sender, o, amount) ==
    /\ originators[o].owner = sender
    /\ Unencumbered(o) >= amount
    /\ CooldownOver(o)
    /\ sender \in Payable
    /\ originators' = [originators EXCEPT ![o].bond = @ - amount]
    /\ balance' = balance - amount
    /\ UNCHANGED <<vault, nextOriginatorId, treasuryOwner, bindingNonce, loanBook, payments>>

-----------------------------------------------------------------------------
(* Loan lifecycle.                                                         *)

NewLoan(o, terms, f) ==
    [ originatorId |-> o, token |-> terms.token, borrower |-> terms.borrower,
      principal |-> terms.principal, maturityBlock |-> terms.maturityBlock,
      disbursementFactId |-> f, repaymentFactId |-> Zero, claimBlock |-> 0,
      status |-> "REGISTERED" ]

\* What the disbursement fact must say.
FactInVault(o, terms, f) ==
    /\ f \in stored
    /\ Ledger[f].token = terms.token
    /\ Ledger[f].to = terms.borrower
    /\ Ledger[f].amount = terms.principal
    /\ treasuryOwner[Ledger[f].from] = o

Disburses(o, terms, f) ==
    /\ factConsumedBy[f] = 0
    /\ f \in stored
    /\ Ledger[f].token = terms.token
    /\ Ledger[f].to = terms.borrower
    /\ Ledger[f].amount = terms.principal
    /\ treasuryOwner[Ledger[f].from] = o

registerLoan(sender, o, terms, f) ==
    /\ nextLoanId <= MaxLoans
    /\ originators[o].owner = sender
    /\ originators[o].active
    /\ terms.maturityBlock > number
    /\ Unencumbered(o) >= BOND_PER_LOAN
    /\ Disburses(o, terms, f)
    /\ loans' = [loans EXCEPT ![nextLoanId] = NewLoan(o, terms, f)]
    /\ nextLoanId' = nextLoanId + 1
    /\ originators' = [originators EXCEPT ![o].exposure = @ + BOND_PER_LOAN]
    /\ factConsumedBy' = [factConsumedBy EXCEPT ![f] = nextLoanId]
    /\ UNCHANGED <<vault, nextOriginatorId, treasuryOwner, bindingNonce, balance, payments>>

\* What the repayment fact must say, and no more: neither its chain nor its
\* height is compared with the disbursement's.
Repays(l, f) ==
    /\ factConsumedBy[f] = 0
    /\ f \in stored
    /\ Ledger[f].token = loans[l].token
    /\ treasuryOwner[Ledger[f].to] = loans[l].originatorId
    /\ Ledger[f].amount >= (loans[l].principal * REPAYMENT_BPS) \div 10000

OpenStatus == {"REGISTERED", "DELINQUENT", "REPAYMENT_CLAIMED"}

ClaimableStatus == {"REGISTERED", "DELINQUENT"}

claimRepayment(sender, l, f) ==
    LET o == loans[l].originatorId
    IN  /\ originators[o].owner = sender
        /\ loans[l].status \in ClaimableStatus
        /\ Repays(l, f)
        /\ loans' = [loans EXCEPT ![l].repaymentFactId = f,
                                  ![l].claimBlock = number,
                                  ![l].status = "REPAYMENT_CLAIMED"]
        /\ originators' = [originators EXCEPT ![o].lastClaimBlock = number]
        /\ factConsumedBy' = [factConsumedBy EXCEPT ![f] = l]
        /\ UNCHANGED <<vault, nextOriginatorId, treasuryOwner, bindingNonce,
                       nextLoanId, balance, payments>>

Matured(l) == number > loans[l].maturityBlock

Delinquent(l) ==
    /\ loans[l].status = "REGISTERED"
    /\ number > loans[l].maturityBlock

markDelinquent(l) ==
    /\ Delinquent(l)
    /\ loans' = [loans EXCEPT ![l].status = "DELINQUENT"]
    /\ UNCHANGED <<vault, books, nextLoanId, factConsumedBy, balance, payments>>

WindowEnd(l) ==
    loans[l].claimBlock + originators[loans[l].originatorId].challengeWindow

WindowOver(l) == number > WindowEnd(l)

FinalizableOneBlockEarly(l) ==
    /\ loans[l].status = "REPAYMENT_CLAIMED"
    /\ number >= WindowEnd(l)

Finalizable(l) ==
    /\ loans[l].status = "REPAYMENT_CLAIMED"
    /\ number > WindowEnd(l)

StillExposed(o) == originators

Released(o) == [originators EXCEPT ![o].exposure = @ - BOND_PER_LOAN]

finalize(l) ==
    /\ Finalizable(l)
    /\ loans' = [loans EXCEPT ![l].status = "SETTLED"]
    /\ originators' = Released(loans[l].originatorId)
    /\ UNCHANGED <<vault, nextOriginatorId, treasuryOwner, bindingNonce,
                   nextLoanId, factConsumedBy, balance, payments>>

-----------------------------------------------------------------------------
(* Challenge: the eleven conditions, then the slash and its two payments.  *)

Covenant(l, f) ==
    LET o == loans[l].originatorId
        funding == Ledger[f]
        repayment == Ledger[loans[l].repaymentFactId]
    IN  requireCircularRepaymentBreach(funding, repayment,
            treasuryOwner[funding.from], o, originators[o].circularWindow)

Challengeable(l, f) ==
    /\ loans[l].status = "REPAYMENT_CLAIMED"
    /\ number <= WindowEnd(l)
    /\ f # loans[l].repaymentFactId
    /\ f # loans[l].disbursementFactId
    /\ f \in stored
    /\ Covenant(l, f)

Slash(o) ==
    LET slash == (BOND_PER_LOAN * SLASH_BPS) \div 10000
    IN  IF slash > originators[o].bond THEN originators[o].bond ELSE slash

Bounty(slash) == (slash * BOUNTY_BPS) \div 10000

ToSink(slash) == slash - Bounty(slash)

challenge(sender, l, f) ==
    LET o == loans[l].originatorId
        slash == Slash(o)
    IN  /\ Challengeable(l, f)
        /\ Bounty(slash) > 0 => sender \in Payable
        /\ ToSink(slash) > 0 => PROTOCOL_SINK \in Payable
        /\ loans' = [loans EXCEPT ![l].status = "BREACHED"]
        /\ originators' = [originators EXCEPT ![o].bond = @ - slash,
                                              ![o].exposure = @ - BOND_PER_LOAN]
        /\ balance' = balance - Bounty(slash) - ToSink(slash)
        /\ paidBounties' = paidBounties + Bounty(slash)
        /\ paidSink' = paidSink + ToSink(slash)
        /\ UNCHANGED <<vault, nextOriginatorId, treasuryOwner, bindingNonce,
                       nextLoanId, factConsumedBy>>

-----------------------------------------------------------------------------
Next ==
    \/ Tick
    \/ \E f \in FactIds : StoreFact(f)
    \/ \E sender \in Accounts, value \in Values, cw \in CircularWindows,
          w \in ChallengeWindows, covenants \in 0..3 :
            registerOriginator(sender, value, cw, w, covenants)
    \/ \E sender \in Accounts, o \in OriginatorIds, a \in Addresses :
            bindTreasury(sender, o, a)
    \/ \E o \in OriginatorIds, value \in Values : topUpBond(o, value)
    \/ \E sender \in Accounts, o \in OriginatorIds, amount \in Values :
            withdrawBond(sender, o, amount)
    \/ \E sender \in Accounts, o \in OriginatorIds, terms \in LoanTerms, f \in FactIds :
            registerLoan(sender, o, terms, f)
    \/ \E sender \in Accounts, l \in LoanIds, f \in FactIds :
            claimRepayment(sender, l, f)
    \/ \E l \in LoanIds : markDelinquent(l)
    \/ \E l \in LoanIds : finalize(l)
    \/ \E sender \in Accounts, l \in LoanIds, f \in FactIds : challenge(sender, l, f)

Spec == Init /\ [][Next]_vars
=============================================================================

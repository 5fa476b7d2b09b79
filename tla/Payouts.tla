------------------------------- MODULE Payouts -------------------------------
(***************************************************************************)
(* contracts/src/Clearbook.sol again, with its three outgoing calls taken  *)
(* apart.  withdrawBond and challenge write their state first and then     *)
(* hand control to the account they pay, whose code may call the contract  *)
(* back: nonReentrant refuses it withdrawBond and challenge, and nothing   *)
(* else.  Module Clearbook runs each transaction in one step; here the     *)
(* payee's calls come between the writes and the return.                   *)
(*                                                                         *)
(* A payee that refuses its money reverts the transaction and every call   *)
(* nested in it, which leaves the state bit-identical: such a transaction  *)
(* is no step at all, so those that begin here are those that will return. *)
(*                                                                         *)
(* An operator used nowhere, directly before another of the same           *)
(* parameters, is the other one with a plausible bug, kept to show that    *)
(* the properties notice it.                                               *)
(***************************************************************************)
EXTENDS Clearbook, FiniteSetsExt

VARIABLE
    frame       \* the outgoing call in progress: whose code runs, and what
                \* the same transaction still owes PROTOCOL_SINK

allVars == <<vars, frame>>

\* The guard's lock is free: no outgoing call is in progress.
Idle == [ payee |-> Zero, due |-> 0 ]

nonReentrant == frame = Idle

PayoutsInit == Init /\ frame = Idle

withdrawBondCalls(sender, o, amount) ==
    /\ nonReentrant
    /\ withdrawBond(sender, o, amount)
    /\ frame' = [ payee |-> sender, due |-> 0 ]

\* The verdict is written and the bounty leaves; PROTOCOL_SINK's share waits
\* for the challenger's code to return.  A slash too small to pay a bounty
\* goes to the sink alone, and an empty one calls nobody.
FirstPayment(sender, slash) ==
    LET bounty == Bounty(slash)
    IN  /\ paidBounties' = paidBounties + bounty
        /\ IF bounty > 0
           THEN /\ balance' = balance - bounty
                /\ frame' = [ payee |-> sender, due |-> ToSink(slash) ]
                /\ UNCHANGED paidSink
           ELSE /\ balance' = balance - bounty - ToSink(slash)
                /\ paidSink' = paidSink + ToSink(slash)
                /\ frame' = IF ToSink(slash) > 0
                            THEN [ payee |-> PROTOCOL_SINK, due |-> 0 ]
                            ELSE Idle

\* A bug: the verdict is left for after the payments.
VerdictAfterPayment(sender, l, f) ==
    LET o == loans[l].originatorId
        slash == Slash(o)
    IN  /\ nonReentrant
        /\ Challengeable(l, f)
        /\ Bounty(slash) > 0 => sender \in Payable
        /\ ToSink(slash) > 0 => PROTOCOL_SINK \in Payable
        /\ originators' = [originators EXCEPT ![o].bond = @ - slash,
                                              ![o].exposure = @ - BOND_PER_LOAN]
        /\ FirstPayment(sender, slash)
        /\ UNCHANGED <<vault, nextOriginatorId, treasuryOwner, bindingNonce, loanBook>>

challengeCalls(sender, l, f) ==
    LET o == loans[l].originatorId
        slash == Slash(o)
    IN  /\ nonReentrant
        /\ Challengeable(l, f)
        /\ Bounty(slash) > 0 => sender \in Payable
        /\ ToSink(slash) > 0 => PROTOCOL_SINK \in Payable
        /\ loans' = [loans EXCEPT ![l].status = "BREACHED"]
        /\ originators' = [originators EXCEPT ![o].bond = @ - slash,
                                              ![o].exposure = @ - BOND_PER_LOAN]
        /\ FirstPayment(sender, slash)
        /\ UNCHANGED <<vault, nextOriginatorId, treasuryOwner, bindingNonce,
                       nextLoanId, factConsumedBy>>

\* A bug: the sink is paid again each time its code returns.
PaySinkAgain ==
    /\ frame # Idle
    /\ balance' = balance - frame.due
    /\ paidSink' = paidSink + frame.due
    /\ frame' = [ frame EXCEPT !.payee = PROTOCOL_SINK ]
    /\ UNCHANGED <<vault, books, loanBook, paidBounties>>

\* The challenger's code has returned; PROTOCOL_SINK is paid and runs.
PaySink ==
    /\ frame.due > 0
    /\ balance' = balance - frame.due
    /\ paidSink' = paidSink + frame.due
    /\ frame' = [ payee |-> PROTOCOL_SINK, due |-> 0 ]
    /\ UNCHANGED <<vault, books, loanBook, paidBounties>>

Return ==
    /\ frame # Idle
    /\ frame.due = 0
    /\ frame' = Idle
    /\ UNCHANGED vars

\* What the guard does not cover: callable at any time, from a payee's code too.
Unguarded ==
    \/ \E f \in FactIds : StoreFact(f)
    \/ \E sender \in Accounts, value \in Values, cw \in CircularWindows,
          w \in ChallengeWindows, covenants \in 0..3 :
            registerOriginator(sender, value, cw, w, covenants)
    \/ \E sender \in Accounts, o \in OriginatorIds, a \in Addresses :
            bindTreasury(sender, o, a)
    \/ \E o \in OriginatorIds, value \in Values : topUpBond(o, value)
    \/ \E sender \in Accounts, o \in OriginatorIds, terms \in LoanTerms, f \in FactIds :
            registerLoan(sender, o, terms, f)
    \/ \E sender \in Accounts, l \in LoanIds, f \in FactIds :
            claimRepayment(sender, l, f)
    \/ \E l \in LoanIds : markDelinquent(l)
    \/ \E l \in LoanIds : finalize(l)

PayoutsNext ==
    \/ Unguarded /\ UNCHANGED frame
    \/ nonReentrant /\ Tick /\ UNCHANGED frame      \* a block holds whole transactions
    \/ \E sender \in Accounts, o \in OriginatorIds, amount \in Values :
            withdrawBondCalls(sender, o, amount)
    \/ \E sender \in Accounts, l \in LoanIds, f \in FactIds :
            challengeCalls(sender, l, f)
    \/ PaySink
    \/ Return

PayoutsSpec == PayoutsInit /\ [][PayoutsNext]_allVars

-----------------------------------------------------------------------------
(***************************************************************************)
(* I1 of SECURITY.md.  At every point of a transaction, a payee's code     *)
(* included, the contract holds the bonds of its originators and what it   *)
(* still owes the sink, to the unit: a callback that tops a bond up,       *)
(* registers an originator or settles a loan in between cannot leave the   *)
(* second payment of a challenge short, nor leave money behind.            *)
(***************************************************************************)
HoldsBondsAndDues ==
    balance = MapThenSumSet(LAMBDA o : originators[o].bond, OriginatorIds) + frame.due

(***************************************************************************)
(* The calls a payee makes in mid-transaction might as well have been made *)
(* after it: with the sink's share counted as paid once the verdict is     *)
(* written, every behaviour with callbacks is a behaviour of Clearbook,    *)
(* whose transactions run in one step.  This is what "state first,         *)
(* external call last" buys, and all that modules Clearbook and            *)
(* ClearbookSafety show of whole transactions carries over.                *)
(***************************************************************************)
Whole == INSTANCE Clearbook WITH
    balance <- balance - frame.due,
    paidSink <- paidSink + frame.due

ImplementsClearbook == Whole!Spec

(***************************************************************************)
(* So callbacks keep the abstract book too: whatever a payee's code does,  *)
(* every lender's bond, the units it sets aside and the evidence it spends *)
(* go by the rules of CovenantBook.                                        *)
(***************************************************************************)
WholeSafety == INSTANCE ClearbookSafety WITH
    balance <- balance - frame.due,
    paidSink <- paidSink + frame.due

KeepsCovenantBook == WholeSafety!ImplementsCovenantBook
=============================================================================

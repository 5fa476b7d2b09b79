---------------------------- MODULE CovenantBook ----------------------------
(***************************************************************************)
(* What Clearbook promises those who rely on its book, without blocks,     *)
(* treasuries, windows or transfers: each loan sets one unit of its        *)
(* lender's free bond aside, gives it back when it settles and pays it out *)
(* when it is breached; it ends once, in one of the two ways and only      *)
(* after a claim; and no piece of evidence serves twice.                   *)
(***************************************************************************)
EXTENDS Integers

CONSTANTS
    Lenders,
    LoanIds,
    Evidence,
    Unit,       \* the bond set aside for a loan
    Amounts     \* what may be deposited or withdrawn at once

VARIABLES
    free,       \* lender -> bond no loan rests on
    lender,     \* loan -> its lender, 0 before there is one
    phase,      \* loan -> "none", "open", "claimed", "settled" or "breached"
    evidence,   \* loan -> the evidence spent on it
    paidOut     \* the bond paid out over breaches

vars == <<free, lender, phase, evidence, paidOut>>

Init ==
    /\ free = [o \in Lenders |-> 0]
    /\ lender = [l \in LoanIds |-> 0]
    /\ phase = [l \in LoanIds |-> "none"]
    /\ evidence = [l \in LoanIds |-> {}]
    /\ paidOut = 0

Spent == UNION {evidence[l] : l \in LoanIds}

Deposit(o, n) ==
    /\ free' = [free EXCEPT ![o] = @ + n]
    /\ UNCHANGED <<lender, phase, evidence, paidOut>>

Withdraw(o, n) ==
    /\ free[o] >= n
    /\ free' = [free EXCEPT ![o] = @ - n]
    /\ UNCHANGED <<lender, phase, evidence, paidOut>>

Lend(o, l, e) ==
    /\ phase[l] = "none"
    /\ free[o] >= Unit
    /\ e \notin Spent
    /\ free' = [free EXCEPT ![o] = @ - Unit]
    /\ lender' = [lender EXCEPT ![l] = o]
    /\ phase' = [phase EXCEPT ![l] = "open"]
    /\ evidence' = [evidence EXCEPT ![l] = {e}]
    /\ UNCHANGED paidOut

ClaimRepaid(l, e) ==
    /\ phase[l] = "open"
    /\ e \notin Spent
    /\ phase' = [phase EXCEPT ![l] = "claimed"]
    /\ evidence' = [evidence EXCEPT ![l] = @ \cup {e}]
    /\ UNCHANGED <<free, lender, paidOut>>

Settle(l) ==
    /\ phase[l] = "claimed"
    /\ phase' = [phase EXCEPT ![l] = "settled"]
    /\ free' = [free EXCEPT ![lender[l]] = @ + Unit]
    /\ UNCHANGED <<lender, evidence, paidOut>>

Breach(l) ==
    /\ phase[l] = "claimed"
    /\ phase' = [phase EXCEPT ![l] = "breached"]
    /\ paidOut' = paidOut + Unit
    /\ UNCHANGED <<free, lender, evidence>>

Next ==
    \/ \E o \in Lenders, n \in Amounts : Deposit(o, n) \/ Withdraw(o, n)
    \/ \E o \in Lenders, l \in LoanIds, e \in Evidence : Lend(o, l, e)
    \/ \E l \in LoanIds, e \in Evidence : ClaimRepaid(l, e)
    \/ \E l \in LoanIds : Settle(l) \/ Breach(l)

Spec == Init /\ [][Next]_vars
=============================================================================

-------------------------------- MODULE Seed --------------------------------
(***************************************************************************)
(* demo/seed.ts: the script that leaves a book ready for the live          *)
(* challenge.  It registers the originator and binds its treasury unless   *)
(* the treasury is bound, registers loans A and B unless their evidence is *)
(* spent, claims both repayments unless they are claimed, and asserts by   *)
(* simulation that B can be challenged and A cannot.  It may die at any    *)
(* await and is then run again; a transaction it has broadcast is included *)
(* whether or not it still waits, and the world goes on meanwhile.         *)
(***************************************************************************)
EXTENDS Predicate, RevertReasons

CONSTANTS
    Seeder,                 \* the deployer's account, none of Accounts
    Treasury,               \* the address whose key the script signs with
    Disbursement,           \* the facts selected, by loan: "A" or "B"
    Repayment,
    Funding,                \* B's funding leg
    PublishedWindow,        \* scenarios.covenant
    PublishedChallengeWindow,
    MaxPending              \* bound: a run starts with fewer than this pending

VARIABLES
    seed,                   \* the script's memory
    pending                 \* its transactions not in a block yet, by nonce

seedVars == <<vars, seed, pending>>

\* The process is not running; `error' and `ready' are what it ended with, and
\* `settled' is history: it was started with nothing of its own pending.
NoRun ==
    [ step |-> "ended", label |-> "A", waiting |-> FALSE, originator |-> 0,
      loan |-> [A |-> 0, B |-> 0], existingA |-> 0, failures |-> 0,
      error |-> "none", ready |-> FALSE, settled |-> FALSE ]

Deposit == 10 * BOND_PER_LOAN           \* 10 tCTC; a loan takes one

\* maturityBlock is 100,000 blocks ahead: beyond the blocks of an instance.
SeedTerms(label) ==
    LET disbursed == Ledger[Disbursement[label]]
    IN  [ token |-> disbursed.token, borrower |-> disbursed.to,
          principal |-> disbursed.amount, maturityBlock |-> MaxBlock + 1 ]

GoTo(step) == seed' = [seed EXCEPT !.step = step, !.waiting = FALSE]

\* A first, then B; and then the next part of the script.
ForBoth(step, then) ==
    IF seed.label = "A"
    THEN seed' = [seed EXCEPT !.label = "B", !.step = step, !.waiting = FALSE]
    ELSE seed' = [seed EXCEPT !.label = "A", !.step = then, !.waiting = FALSE]

Throw(error) == seed' = [NoRun EXCEPT !.error = error, !.settled = seed.settled]

SeedInit == seed = NoRun /\ pending = <<>>

-----------------------------------------------------------------------------
(* Its transactions.                                                       *)

\* What the contract answers to a call, at gas estimation or in a block.
Answered(tx) ==
    CASE tx.call = "registerOriginator" -> "none"
      [] tx.call = "bindTreasury" ->
            IF /\ originators[tx.id].owner = Seeder
               /\ treasuryOwner[Treasury] = 0 THEN "none" ELSE "Error"
      [] tx.call = "registerLoan" ->
            Refusal(Seeder, tx.id, SeedTerms(tx.label), Disbursement[tx.label])
      [] tx.call = "claimRepayment" ->
            IF /\ originators[loans[tx.id].originatorId].owner = Seeder
               /\ loans[tx.id].status \in ClaimableStatus
               /\ Repays(tx.id, Repayment[tx.label]) THEN "none" ELSE "Error"

Execute(tx) ==
    CASE tx.call = "registerOriginator" ->
            registerOriginator(Seeder, Deposit, PublishedWindow, PublishedChallengeWindow, 1)
      [] tx.call = "bindTreasury" -> bindTreasury(Seeder, tx.id, Treasury)
      [] tx.call = "registerLoan" ->
            registerLoan(Seeder, tx.id, SeedTerms(tx.label), Disbursement[tx.label])
      [] tx.call = "claimRepayment" -> claimRepayment(Seeder, tx.id, Repayment[tx.label])

\* A call that would revert throws before it is broadcast.
Call(call, id, label) ==
    LET tx == [ call |-> call, id |-> id, label |-> label ]
    IN  IF Answered(tx) = "none"
        THEN /\ pending' = Append(pending, tx)
             /\ seed' = [seed EXCEPT !.waiting = TRUE]
        ELSE Throw(Answered(tx)) /\ UNCHANGED pending

\* What follows each receipt.
Received ==
    \/ seed.step = "registerOriginator" /\ GoTo("originatorId")
    \/ seed.step = "bindTreasury" /\ GoTo("free")
    \/ seed.step = "registerLoan" /\ GoTo("loanId")
    \/ seed.step = "claimRepayment" /\ ForBoth("claimRepayment", "controls")

Included ==
    /\ pending # <<>>
    /\ LET tx == Head(pending)
       IN  /\ IF Answered(tx) = "none" THEN Execute(tx) ELSE UNCHANGED vars
           /\ IF seed.waiting /\ Len(pending) = 1
              THEN IF Answered(tx) = "none" THEN Received ELSE Throw("Error")
              ELSE UNCHANGED seed
    /\ pending' = Tail(pending)

-----------------------------------------------------------------------------
(* The script, from one await to the next.                                 *)

Run ==
    /\ seed.step = "ended"
    /\ Len(pending) < MaxPending
    /\ seed' = [NoRun EXCEPT !.step = "evidence", !.settled = pending = <<>>]
    /\ UNCHANGED pending

\* Killed, or a read that fails: main() ends.
Dies ==
    /\ seed.step # "ended"
    /\ seed' = NoRun
    /\ UNCHANGED pending

CheckEvidence ==
    /\ seed.step = "evidence"
    /\ LET selected == { Disbursement[label] : label \in {"A", "B"} }
                       \cup { Repayment[label] : label \in {"A", "B"} } \cup {Funding}
       IN  IF selected \subseteq stored THEN GoTo("owner") ELSE seed' = NoRun
    /\ UNCHANGED pending

ReadTreasuryOwner ==
    /\ seed.step = "owner"
    /\ LET o == treasuryOwner[Treasury]
       IN  seed' = [seed EXCEPT !.originator = o,
                                !.step = IF o = 0 THEN "registerOriginator" ELSE "free"]
    /\ UNCHANGED pending

Register ==
    /\ seed.step = "registerOriginator"
    /\ Call("registerOriginator", 0, "none")

\* The newest originator, which is taken to be the one just registered.
ReadOriginatorId ==
    /\ seed.step = "originatorId"
    /\ seed' = [seed EXCEPT !.originator = nextOriginatorId - 1, !.step = "bindTreasury"]
    /\ UNCHANGED pending

Bind ==
    /\ seed.step = "bindTreasury"
    /\ Call("bindTreasury", seed.originator, "none")

CheckFreeBond ==
    /\ seed.step = "free"
    /\ seed' = [seed EXCEPT !.step = "existingA",
           !.failures = @ + IF Unencumbered(seed.originator) >= 2 * BOND_PER_LOAN THEN 0 ELSE 1]
    /\ UNCHANGED pending

ReadExistingA ==
    /\ seed.step = "existingA"
    /\ seed' = [seed EXCEPT !.existingA = factConsumedBy[Disbursement["A"]],
                            !.step = "existingB"]
    /\ UNCHANGED pending

\* Both spent: the loans are adopted.  Otherwise both are registered.
ReadExistingB ==
    /\ seed.step = "existingB"
    /\ LET existingB == factConsumedBy[Disbursement["B"]]
       IN  IF seed.existingA # 0 /\ existingB # 0
           THEN seed' = [seed EXCEPT !.loan = [A |-> seed.existingA, B |-> existingB],
                                     !.step = "claimRepayment"]
           ELSE GoTo("registerLoan")
    /\ UNCHANGED pending

RegisterLoan ==
    /\ seed.step = "registerLoan"
    /\ Call("registerLoan", seed.originator, seed.label)

\* The newest loan, which is taken to be the one just registered.
ReadLoanId ==
    /\ seed.step = "loanId"
    /\ IF seed.label = "A"
       THEN seed' = [seed EXCEPT !.loan.A = nextLoanId - 1, !.label = "B",
                                 !.step = "registerLoan"]
       ELSE seed' = [seed EXCEPT !.loan.B = nextLoanId - 1, !.label = "A",
                                 !.step = "claimRepayment"]
    /\ UNCHANGED pending

ClaimRepayment ==
    /\ seed.step = "claimRepayment"
    /\ IF loans[seed.loan[seed.label]].status = "REPAYMENT_CLAIMED"
       THEN ForBoth("claimRepayment", "controls") /\ UNCHANGED pending
       ELSE Call("claimRepayment", seed.loan[seed.label], seed.label)

\* Three simulations; then DEMO READY, or FAIL.
Controls ==
    /\ seed.step = "controls"
    /\ LET A == seed.loan["A"]
           asExpected == /\ challengeRevert(seed.loan["B"], Funding) = "none"
                         /\ challengeRevert(A, Disbursement["A"]) = "DisbursementNotFunding"
                         /\ challengeRevert(A, Repayment["B"]) = "NotTheSamePayer"
       IN  seed' = [NoRun EXCEPT !.ready = asExpected /\ seed.failures = 0]
    /\ UNCHANGED pending

Script ==
    \/ Run \/ Dies \/ CheckEvidence \/ ReadTreasuryOwner \/ ReadOriginatorId
    \/ CheckFreeBond \/ ReadExistingA \/ ReadExistingB \/ ReadLoanId \/ Controls
    \/ ~seed.waiting /\ (Register \/ Bind \/ RegisterLoan \/ ClaimRepayment)

\* Everyone else; the treasury's key signs for the script alone.
Others ==
    /\ Next
    /\ treasuryOwner'[Treasury] = treasuryOwner[Treasury]

SeedNext ==
    \/ Others /\ UNCHANGED <<seed, pending>>
    \/ Script /\ UNCHANGED vars
    \/ Included

SeedSpec == Init /\ SeedInit /\ [][SeedNext]_seedVars

-----------------------------------------------------------------------------
(***************************************************************************)
(* demo/seed.ts:204-207: "a disbursement fact backs at most one loan       *)
(* (invariant I3), so if it is already consumed the loans exist and        *)
(* re-registering would revert with FactAlreadyUsed.  Adopting them        *)
(* instead makes the script safe to re-run".  Even once its earlier        *)
(* transactions are in blocks, a run must not fail on evidence it spent.   *)
(***************************************************************************)
SafeToRerun == seed.settled => seed.error # "FactAlreadyUsed"
=============================================================================

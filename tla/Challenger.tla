----------------------------- MODULE Challenger -----------------------------
(***************************************************************************)
(* worker/src/enforce.ts, the reference challenger, against the lending    *)
(* contract of module Clearbook.  At the end of a tick of the worker that  *)
(* got so far it sweeps the book: it reads the block number, then each     *)
(* loan, then the recent facts, then for each claim the owners of the      *)
(* treasuries that might have funded it, and simulates, broadcasts and     *)
(* awaits a challenge for each candidate.  Every read is a call to a node, *)
(* and the book moves between any two of them; every call can throw; the   *)
(* process can be killed and comes back with nothing but the chain to      *)
(* read.                                                                   *)
(*                                                                         *)
(* What a claim was made with (its two facts, its originator's windows)    *)
(* never changes once it is made, so a sweep keeps the loan's id only.     *)
(*                                                                         *)
(* An operator used nowhere, directly before another of the same           *)
(* parameters, is the other one with a plausible bug, kept to show that    *)
(* the properties notice it.                                               *)
(***************************************************************************)
EXTENDS Clearbook, Sequences

CONSTANTS
    Robot,                  \* the challenger's account
    FACT_LOOKBACK_BLOCKS,   \* how far back it reads the vault's events
    MaxFaults               \* bound: calls that throw and kills

ASSUME ChallengerAssumption ==
    /\ Robot \in Payable
    /\ FACT_LOOKBACK_BLOCKS \in Nat
    /\ MaxFaults \in Nat

VARIABLES
    storedAt,       \* the block of each fact's TransferFactStored event
    strict,         \* CHALLENGER_STRICT of this deployment
    step,           \* where the process is in its sweep
    sweep,          \* what the sweep has read
    refused,        \* <<loan, fact>> tried in this life and not to be tried again
    dropped,        \* history: those of them refused because a call threw
    mempool,        \* broadcast challenges that are not in a block yet
    receipt,        \* what became of the one the process waits for
    faults          \* faults so far

book == vars
process == <<step, sweep, refused, dropped>>
chain == <<book, storedAt, mempool, receipt>>
challengerVars == <<book, storedAt, strict, process, mempool, receipt, faults>>

Pairs == LoanIds \X FactIds

NoSweep == [ head |-> 0, next |-> 0, id |-> 1, claims |-> <<>>, facts |-> {},
             unowned |-> {}, eligible |-> {}, funding |-> Zero ]

ProcessInit ==
    /\ strict \in BOOLEAN
    /\ step = "asleep"
    /\ sweep = NoSweep
    /\ refused = {}
    /\ dropped = {}
    /\ mempool = {}
    /\ receipt = "none"
    /\ faults = 0

-----------------------------------------------------------------------------
(* The sweep's reads.                                                      *)

Asleep == /\ step' = "asleep"
          /\ sweep' = NoSweep

GetBlockNumber ==
    /\ step = "asleep"
    /\ step' = "count"
    /\ sweep' = [NoSweep EXCEPT !.head = number]
    /\ UNCHANGED <<chain, strict, refused, dropped, faults>>

ReadNextLoanId ==
    /\ step = "count"
    /\ step' = "loans"
    /\ sweep' = [sweep EXCEPT !.next = nextLoanId]
    /\ UNCHANGED <<chain, strict, refused, dropped, faults>>

\* A bug: the last block of the window counts as too late.
OpenBefore(l, head) ==
    /\ loans[l].status = "REPAYMENT_CLAIMED"
    /\ head < WindowEnd(l)

OpenAt(l, head) ==
    /\ loans[l].status = "REPAYMENT_CLAIMED"
    /\ head <= WindowEnd(l)

\* Loans are read one after the other.
OpenClaims ==
    /\ step = "loans"
    /\ sweep.id < sweep.next
    /\ sweep' = [sweep EXCEPT
           !.id = @ + 1,
           !.claims = IF OpenAt(sweep.id, sweep.head) THEN Append(@, sweep.id) ELSE @]
    /\ UNCHANGED <<chain, strict, step, refused, dropped, faults>>

NoClaims ==
    /\ step = "loans"
    /\ sweep.id = sweep.next
    /\ sweep.claims = <<>>
    /\ Asleep
    /\ UNCHANGED <<chain, strict, refused, dropped, faults>>

Recent(f, head) ==
    /\ f \in stored
    /\ storedAt[f] <= head
    /\ storedAt[f] + FACT_LOOKBACK_BLOCKS >= head

-----------------------------------------------------------------------------
(* Candidates: all conditions but 6 on what was read, then 6 from the chain. *)

matchesFundingLeg(f, l) ==
    LET repayment == Ledger[loans[l].repaymentFactId]
    IN  /\ f \notin {loans[l].repaymentFactId, loans[l].disbursementFactId}
        /\ SameChain(Ledger[f], repayment)
        /\ SameToken(Ledger[f], repayment)
        /\ SamePayer(Ledger[f], repayment)
        /\ CoversRepayment(Ledger[f], repayment)
        /\ FundingBefore(Ledger[f], repayment)
        /\ WithinWindow(Ledger[f], repayment,
                        originators[loans[l].originatorId].circularWindow)

\* Go on with the first of these claims; the sweep is over when there is none.
StartOn(claims, facts) ==
    IF claims = <<>> THEN Asleep
    ELSE /\ step' = "candidates"
         /\ sweep' = [NoSweep EXCEPT
                !.claims = claims,
                !.facts = facts,
                !.unowned = { f \in facts : matchesFundingLeg(f, Head(claims)) }]

RecentFacts ==
    /\ step = "loans"
    /\ sweep.id = sweep.next
    /\ sweep.claims # <<>>
    /\ StartOn(sweep.claims, { f \in FactIds : Recent(f, sweep.head) })
    /\ UNCHANGED <<chain, strict, refused, dropped, faults>>

\* A bug: whether the payer is bound is left to the simulation.
AnyTreasury(f, l) == f \in FactIds

OwnTreasury(f, l) == treasuryOwner[Ledger[f].from] = loans[l].originatorId

\* One call for each matching fact.
TreasuryOwner ==
    /\ step = "candidates"
    /\ \E f \in sweep.unowned :
          sweep' = [sweep EXCEPT
              !.unowned = @ \ {f},
              !.eligible = IF OwnTreasury(f, Head(sweep.claims)) THEN @ \cup {f} ELSE @]
    /\ UNCHANGED <<chain, strict, step, refused, dropped, faults>>

-----------------------------------------------------------------------------
(* Acting on a candidate.                                                  *)

Claimed == Head(sweep.claims)
Current == <<Claimed, sweep.funding>>

Acting == step = "candidates" /\ sweep.unowned = {}

ClaimDone == StartOn(Tail(sweep.claims), sweep.facts)

CandidateDone == /\ step' = "candidates"
                 /\ sweep' = [sweep EXCEPT !.eligible = @ \ {sweep.funding},
                                           !.funding = Zero]

NoCandidateLeft ==
    /\ Acting
    /\ sweep.eligible = {}
    /\ ClaimDone
    /\ UNCHANGED <<chain, strict, refused, dropped, faults>>

SameBorrower(l, f) == Ledger[f].to = loans[l].borrower

Declined(l, f) == strict /\ SameBorrower(l, f)

\* A pair refused before is skipped; a strict operator refuses the weaker shape.
Decline ==
    /\ Acting
    /\ \E f \in sweep.eligible :
          /\ \/ <<Claimed, f>> \in refused
             \/ Declined(Claimed, f)
          /\ refused' = refused \cup {<<Claimed, f>>}
          /\ sweep' = [sweep EXCEPT !.eligible = @ \ {f}]
    /\ UNCHANGED <<chain, strict, step, dropped, faults>>

Actionable(f) ==
    /\ Acting
    /\ f \in sweep.eligible
    /\ <<Claimed, f>> \notin refused
    /\ ~Declined(Claimed, f)

SimulationReverts ==
    /\ \E f \in FactIds :
          /\ Actionable(f)
          /\ ~Challengeable(Claimed, f)
          /\ refused' = refused \cup {<<Claimed, f>>}
          /\ sweep' = [sweep EXCEPT !.eligible = @ \ {f}]
    /\ UNCHANGED <<chain, strict, step, dropped, faults>>

SimulationPasses ==
    /\ \E f \in FactIds :
          /\ Actionable(f)
          /\ Challengeable(Claimed, f)
          /\ sweep' = [sweep EXCEPT !.funding = f]
    /\ step' = "broadcast"
    /\ UNCHANGED <<chain, strict, refused, dropped, faults>>

\* Sending estimates the gas first, which throws when the call would revert.
EstimateReverts ==
    /\ step = "broadcast"
    /\ ~Challengeable(Claimed, sweep.funding)
    /\ refused' = refused \cup {Current}
    /\ CandidateDone
    /\ UNCHANGED <<chain, strict, dropped, faults>>

Broadcast ==
    /\ step = "broadcast"
    /\ Challengeable(Claimed, sweep.funding)
    /\ mempool' = mempool \cup {[pair |-> Current, awaited |-> TRUE]}
    /\ step' = "wait"
    /\ UNCHANGED <<book, storedAt, strict, sweep, refused, dropped, receipt, faults>>

\* One successful challenge settles the claim; the other candidates are stale.
Confirmed ==
    /\ step = "wait"
    /\ receipt = "success"
    /\ receipt' = "none"
    /\ ClaimDone
    /\ UNCHANGED <<book, storedAt, mempool, strict, refused, dropped, faults>>

LostRace ==
    /\ step = "wait"
    /\ receipt = "reverted"
    /\ receipt' = "none"
    /\ refused' = refused \cup {Current}
    /\ CandidateDone
    /\ UNCHANGED <<book, storedAt, mempool, strict, dropped, faults>>

-----------------------------------------------------------------------------
(* Failures.  A call that throws before a candidate is acted on ends the   *)
(* sweep (main.ts catches it); one that throws while a candidate is acted  *)
(* on refuses the pair, even when the transaction did go out.              *)

Abandoned == { [tx EXCEPT !.awaited = FALSE] : tx \in mempool }

Fault == faults < MaxFaults /\ faults' = faults + 1

ReadThrows ==
    /\ Fault
    /\ \/ step \in {"count", "loans"}
       \/ step = "candidates" /\ (sweep.unowned # {} \/ sweep.eligible = {})
    /\ Asleep
    /\ UNCHANGED <<chain, strict, refused, dropped>>

SimulationThrows ==
    /\ Fault
    /\ \E f \in FactIds :
          /\ Actionable(f)
          /\ refused' = refused \cup {<<Claimed, f>>}
          /\ dropped' = dropped \cup {<<Claimed, f>>}
          /\ sweep' = [sweep EXCEPT !.eligible = @ \ {f}]
    /\ UNCHANGED <<chain, strict, step>>

BroadcastThrows ==
    /\ Fault
    /\ step = "broadcast"
    /\ \/ mempool' = mempool
       \/ mempool' = mempool \cup {[pair |-> Current, awaited |-> FALSE]}
    /\ refused' = refused \cup {Current}
    /\ dropped' = dropped \cup {Current}
    /\ CandidateDone
    /\ UNCHANGED <<book, storedAt, strict, receipt>>

WaitThrows ==
    /\ Fault
    /\ step = "wait"
    /\ mempool' = Abandoned
    /\ receipt' = "none"
    /\ refused' = refused \cup {Current}
    /\ dropped' = dropped \cup {Current}
    /\ CandidateDone
    /\ UNCHANGED <<book, storedAt, strict>>

\* The process is killed and started again: what it refused is forgotten,
\* what it broadcast is not.
Restart ==
    /\ Fault
    /\ Asleep
    /\ mempool' = Abandoned
    /\ receipt' = "none"
    /\ refused' = {}
    /\ dropped' = {}
    /\ UNCHANGED <<book, storedAt, strict>>

-----------------------------------------------------------------------------
(* The chain: a broadcast challenge is included, and everybody else acts.  *)

Included(tx) ==
    /\ mempool' = mempool \ {tx}
    /\ UNCHANGED <<storedAt, strict, process, faults>>

IncludedSuccess(tx) ==
    /\ challenge(Robot, tx.pair[1], tx.pair[2])
    /\ receipt' = IF tx.awaited THEN "success" ELSE receipt
    /\ Included(tx)

IncludedReverted(tx) ==
    /\ ~Challengeable(tx.pair[1], tx.pair[2])
    /\ receipt' = IF tx.awaited THEN "reverted" ELSE receipt
    /\ UNCHANGED book
    /\ Included(tx)

Mine == \E tx \in mempool : IncludedSuccess(tx) \/ IncludedReverted(tx)

Others ==
    /\ Next
    /\ storedAt' = [f \in FactIds |-> IF f \in stored' \ stored
                                      THEN number ELSE storedAt[f]]
    /\ UNCHANGED <<strict, process, mempool, receipt, faults>>

Sweep ==
    \/ GetBlockNumber \/ ReadNextLoanId \/ OpenClaims \/ NoClaims \/ RecentFacts
    \/ TreasuryOwner \/ NoCandidateLeft \/ Decline \/ SimulationReverts \/ SimulationPasses
    \/ EstimateReverts \/ Broadcast \/ Confirmed \/ LostRace

Failure ==
    ReadThrows \/ SimulationThrows \/ BroadcastThrows \/ WaitThrows \/ Restart

ChallengerNext == Sweep \/ Failure \/ Mine \/ Others

\* The worker's loop never ends, and reaches its sweep again and again: it skips one only
\* when the tick threw outside advance, or found no attestation.  A broadcast
\* transaction is mined.
ChallengerFairness == WF_challengerVars(Sweep) /\ WF_challengerVars(Mine)

ChallengerInit ==
    /\ Init
    /\ storedAt = [f \in FactIds |-> 0]
    /\ ProcessInit

ChallengerSpec ==
    ChallengerInit /\ [][ChallengerNext]_challengerVars /\ ChallengerFairness

-----------------------------------------------------------------------------
(***************************************************************************)
(* A pair is tried once in the life of the process, which costs nothing as *)
(* long as no call throws: what a simulation, an estimate or a receipt     *)
(* refused will never succeed again, whatever treasuries are bound, facts  *)
(* stored and loans claimed afterwards.  The candidates' read of the       *)
(* treasury's owner is what makes it so: condition 6 is the only one that  *)
(* a later transaction can make true.                                      *)
(***************************************************************************)
RefusalIsFinal ==
    \A pair \in refused \ dropped :
        Challengeable(pair[1], pair[2]) => Declined(pair[1], pair[2])

(***************************************************************************)
(* Every breach in reach is challenged: while a claim can be challenged    *)
(* with a recent fact, and the operator does not decline its shape, the    *)
(* sweeps get to it, however the reads interleave with the book and        *)
(* whatever throws, unless the claim ends, the window or the lookback runs *)
(* out, or a call that throws drops this very pair.                        *)
(***************************************************************************)
InReach(l, f) ==
    /\ Challengeable(l, f)
    /\ Recent(f, number)
    /\ ~Declined(l, f)

BreachIsChallenged ==
    \A l \in LoanIds, f \in FactIds :
        InReach(l, f) ~> (~InReach(l, f) \/ <<l, f>> \in dropped)
=============================================================================

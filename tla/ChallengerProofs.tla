--------------------------- MODULE ChallengerProofs ---------------------------
(***************************************************************************)
(* While no call throws, the challenger never gives up on a breach that    *)
(* could still be proved, for every value of the constants of the contract *)
(* and of the challenger.                                                  *)
(*                                                                         *)
(* A pair is acted on only when it is Ripe: the claim was made, the fact   *)
(* stored and its payer bound to the originator before.  From then on the  *)
(* contract's answer can only change from yes to no: SettledAnswers, which *)
(* rests on the permanence of the records.  The rest follows what the      *)
(* sweep holds in its hands.                                               *)
(***************************************************************************)
EXTENDS VerdictProofs, Challenger

\* The loan was claimed, whatever became of the claim.
Past(l) == loans[l].status \in {"REPAYMENT_CLAIMED", "SETTLED", "BREACHED"}

Ripe(l, f) ==
    /\ l \in LoanIds /\ f \in stored
    /\ Past(l)
    /\ treasuryOwner[Ledger[f].from] = loans[l].originatorId

-----------------------------------------------------------------------------
(* What the book does to a ripe pair.                                      *)

SettledAnswers ==
    /\ stored \subseteq stored'
    /\ \A l \in LoanIds : Past(l) => Past(l)'
    /\ \A l \in LoanIds, f \in FactIds : Ripe(l, f) =>
          /\ Ripe(l, f)'
          /\ ~Challengeable(l, f) => ~Challengeable(l, f)'
          /\ SameBorrower(l, f) => SameBorrower(l, f)'

LEMMA PastLoanKept ==
    ASSUME Core, Evidence, Standing, [Next]_vars, NEW l \in LoanIds, Past(l)
    PROVE  /\ Past(l)'
           /\ loans'[l].status = "REPAYMENT_CLAIMED" => loans[l].status = "REPAYMENT_CLAIMED"
           /\ loans'[l].originatorId = loans[l].originatorId
           /\ loans'[l].borrower = loans[l].borrower
           /\ loans'[l].disbursementFactId = loans[l].disbursementFactId
           /\ loans'[l].repaymentFactId = loans[l].repaymentFactId
           /\ loans'[l].claimBlock = loans[l].claimBlock
<1>1. Advances(l)
  BY StepsOf, LoanAdvances
<1>2. loans[l].status # "NONE" /\ loans[l].repaymentFactId # Zero
  BY DEF Past, Evidence, ClaimedNamesRepayment, ClaimableStatus
<1>3. Terms(loans'[l]) = Terms(loans[l]) /\ Claim(loans'[l]) = Claim(loans[l])
  BY <1>1, <1>2 DEF Advances
<1>4. /\ loans'[l].status \in {"REPAYMENT_CLAIMED", "SETTLED", "BREACHED"}
      /\ loans'[l].status = "REPAYMENT_CLAIMED" => loans[l].status = "REPAYMENT_CLAIMED"
  BY <1>1 DEF Advances, Forward, Past
<1>5. QED
  BY <1>3, <1>4 DEF Past, Terms, Claim

LEMMA BookStep ==
    ASSUME Core, Evidence, Standing, [Next]_vars
    PROVE  SettledAnswers
<1>1. Kept /\ \A o \in OriginatorIds : PublishedKept(o)
  BY StepsOf, PublishedStep
<1>2. ASSUME NEW l \in LoanIds, NEW f \in FactIds, Ripe(l, f)
      PROVE  /\ Ripe(l, f)'
             /\ ~Challengeable(l, f) => ~Challengeable(l, f)'
             /\ SameBorrower(l, f) => SameBorrower(l, f)'
  <2>1. Past(l) /\ loans[l].status # "NONE" /\ f \in stored
    BY <1>2 DEF Ripe, Past
  <2>2. /\ treasuryOwner[Ledger[f].from] = loans[l].originatorId
        /\ treasuryOwner'[Ledger[f].from] = loans[l].originatorId
    BY <1>1, <1>2, <2>1, PastLoanKept, JudgementKept DEF Ripe
  <2>3. Ripe(l, f)'
    BY <1>1, <2>1, <2>2, PastLoanKept DEF Ripe, Kept
  <2>4. SameBorrower(l, f) => SameBorrower(l, f)'
    BY <2>1, PastLoanKept DEF SameBorrower
  <2>5. ASSUME Challengeable(l, f)'
        PROVE  Challengeable(l, f)
    <3>1. loans[l].status = "REPAYMENT_CLAIMED"
      BY <2>1, <2>5, PastLoanKept DEF Challengeable
    <3>2. WindowEnd(l)' = WindowEnd(l)
      BY <1>1, <2>1, PastLoanKept, JudgementKept DEF WindowEnd
    <3>3. /\ WindowEnd(l) \in Nat /\ number \in Nat
          /\ number' \in Nat /\ number' >= number
      BY <1>1, <2>1, WindowTyped, OriginatorsTyped DEF Kept
    <3>4. number <= WindowEnd(l)
      BY <2>5, <3>2, <3>3 DEF Challengeable
    <3>5. f # loans[l].repaymentFactId /\ f # loans[l].disbursementFactId
      BY <2>1, <2>5, PastLoanKept DEF Challengeable
    <3>6. Covenant(l, f)
      <4>1. Covenant(l, f)'
        BY <2>5 DEF Challengeable
      <4>2. QED
        BY <1>1, <2>1, <2>2, <4>1, PastLoanKept, JudgementKept DEF Covenant
    <3>7. QED
      BY <2>1, <3>1, <3>4, <3>5, <3>6 DEF Challengeable
  <2>6. QED
    BY <2>3, <2>4, <2>5
<1>3. \A l \in LoanIds : Past(l) => Past(l)'
  BY PastLoanKept
<1>4. QED
  BY <1>1, <1>2, <1>3 DEF SettledAnswers, Kept

-----------------------------------------------------------------------------
(* What the process holds.                                                 *)

SweepRecord ==
    [ head : Nat, next : 0..(MaxLoans + 1), id : 1..(MaxLoans + 1),
      claims : Seq(LoanIds), facts : SUBSET FactIds, unowned : SUBSET FactIds,
      eligible : SUBSET FactIds, funding : FactIds \cup {Zero} ]

Busy == {"candidates", "broadcast", "wait"}

\* What a process at this step may hold: claims that were made, facts that
\* are stored, and ripe pairs.
Held(at, s) ==
    /\ s \in SweepRecord
    /\ \A i \in 1..Len(s.claims) : Past(s.claims[i])
    /\ s.facts \subseteq stored
    /\ s.unowned \subseteq s.facts
    /\ at \in Busy => s.claims # <<>>
    /\ at \notin Busy => s.eligible = {}
    /\ \A f \in s.eligible : Ripe(Head(s.claims), f)
    /\ at \in {"broadcast", "wait"} => Ripe(Head(s.claims), s.funding)

Reads == Held(step, sweep)

\* At most one challenge is waited for, and it is the current one; its receipt is true.
Waits ==
    /\ mempool \subseteq [ pair : Pairs, awaited : BOOLEAN ]
    /\ \A tx \in mempool :
          tx.awaited => step = "wait" /\ receipt = "none" /\ tx.pair = Current
    /\ receipt # "none" => step = "wait"
    /\ receipt = "reverted" => ~Challengeable(Claimed, sweep.funding)

\* A refusal was right: the pair was ripe, and no, or declined, was the answer.
Answered(l, f) ==
    /\ Ripe(l, f)
    /\ ~Challengeable(l, f) \/ Declined(l, f)

Right(pairs) == \A pair \in pairs : pair \in Pairs /\ Answered(pair[1], pair[2])

Refusals == Right(refused \ dropped)

Honest == Reads /\ Waits /\ Refusals

LEMMA ChallengerStepsAreBookSteps ==
    ASSUME Waits, [ChallengerNext]_challengerVars
    PROVE  [Next]_vars
<1>1. CASE Others
  BY <1>1 DEF Others
<1>2. CASE Mine
  <2>1. PICK tx \in mempool : IncludedSuccess(tx) \/ IncludedReverted(tx)
    BY <1>2 DEF Mine
  <2>2. CASE IncludedReverted(tx)
    BY <2>2 DEF IncludedReverted, book
  <2>3. CASE IncludedSuccess(tx)
    <3>1. tx.pair[1] \in LoanIds /\ tx.pair[2] \in FactIds
      BY <2>1 DEF Waits, Pairs
    <3>2. Robot \in Accounts
      BY ChallengerAssumption, AccountAssumption
    <3>3. QED
      BY <2>3, <3>1, <3>2 DEF IncludedSuccess, Next
  <2>4. QED
    BY <2>1, <2>2, <2>3
<1>3. CASE Sweep
  BY <1>3 DEF Sweep, GetBlockNumber, ReadNextLoanId, OpenClaims, NoClaims, RecentFacts,
              TreasuryOwner, NoCandidateLeft, Decline, SimulationReverts, SimulationPasses,
              EstimateReverts, Broadcast, Confirmed, LostRace, chain, book
<1>4. CASE Failure
  BY <1>4 DEF Failure, ReadThrows, SimulationThrows, BroadcastThrows, WaitThrows, Restart,
              chain, book
<1>5. CASE UNCHANGED challengerVars
  BY <1>5 DEF challengerVars, book
<1>6. QED
  BY <1>1, <1>2, <1>3, <1>4, <1>5 DEF ChallengerNext

-----------------------------------------------------------------------------
(* Steps of the book alone.                                                *)

LEMMA HeldPairs ==
    ASSUME Reads
    PROVE  /\ sweep.claims \in Seq(LoanIds)
           /\ sweep.claims # <<>> => Claimed \in LoanIds /\ Past(Claimed)
           /\ sweep.eligible \subseteq FactIds /\ sweep.unowned \subseteq FactIds
<1>1. sweep.claims \in Seq(LoanIds)
  BY DEF Reads, Held, SweepRecord
<1>2. sweep.claims # <<>> => /\ Claimed = sweep.claims[1]
                            /\ 1 \in 1..Len(sweep.claims)
                            /\ Claimed \in LoanIds
  BY <1>1 DEF Claimed
<1>3. QED
  BY <1>1, <1>2 DEF Reads, Held, SweepRecord

\* What is held stays so while the book moves.
LEMMA HeldKept ==
    ASSUME Core, SettledAnswers, Held(step', sweep')
    PROVE  Reads'
<1>1. sweep'.claims \in Seq(LoanIds) /\ sweep'.eligible \subseteq FactIds
  BY DEF Held, SweepRecord
<1>2. \A i \in 1..Len(sweep'.claims) : Past(sweep.claims[i])'
  BY <1>1 DEF Held, SettledAnswers, Past
<1>3. \A l, f : Ripe(l, f) => l \in LoanIds /\ f \in FactIds
  BY DEF Core, TypeOK, Ripe
<1>4. \A l \in LoanIds, f \in FactIds : Ripe(l, f) =>
          /\ l \in LoanIds /\ f \in stored'
          /\ loans'[l].status \in {"REPAYMENT_CLAIMED", "SETTLED", "BREACHED"}
          /\ treasuryOwner'[Ledger[f].from] = loans'[l].originatorId
  BY DEF SettledAnswers, Ripe, Past
<1>5. ASSUME NEW f \in sweep'.eligible
      PROVE  Ripe(Head(sweep.claims), f)'
  <2>1. Ripe(Head(sweep'.claims), f)
    BY DEF Held
  <2>2. QED
    BY <1>3, <1>4, <2>1 DEF Ripe, Past
<1>6. ASSUME step' \in {"broadcast", "wait"}
      PROVE  Ripe(Head(sweep.claims), sweep.funding)'
  <2>1. Ripe(Head(sweep'.claims), sweep'.funding)
    BY <1>6 DEF Held
  <2>2. QED
    BY <1>3, <1>4, <2>1 DEF Ripe, Past
<1>7. /\ sweep' \in SweepRecord
      /\ sweep'.facts \subseteq stored'
      /\ sweep'.unowned \subseteq sweep'.facts
      /\ step' \in Busy => sweep'.claims # <<>>
      /\ step' \notin Busy => sweep'.eligible = {}
  BY DEF Held, SettledAnswers
<1>8. QED
  BY <1>2, <1>5, <1>6, <1>7 DEF Reads, Held, SweepRecord, Busy

-----------------------------------------------------------------------------
(* What each step of the process leaves in its hands.                      *)

LEMMA NoSweepTyped == NoSweep \in SweepRecord
BY InputAssumption DEF NoSweep, SweepRecord

LEMMA HeldAsleep == ASSUME Asleep PROVE Held(step', sweep')
BY NoSweepTyped DEF Asleep, Held, NoSweep, Busy

LEMMA HeldStart ==
    ASSUME Core, NEW claims \in Seq(LoanIds), NEW facts \in SUBSET stored,
           \A i \in 1..Len(claims) : Past(claims[i]), StartOn(claims, facts)
    PROVE  Held(step', sweep')
<1>1. CASE claims = <<>>
  BY <1>1, HeldAsleep DEF StartOn
<1>2. CASE claims # <<>>
  <2> DEFINE unowned == { f \in facts : matchesFundingLeg(f, Head(claims)) }
  <2>1. /\ step' = "candidates"
        /\ sweep' = [NoSweep EXCEPT !.claims = claims, !.facts = facts, !.unowned = unowned]
    BY <1>2 DEF StartOn
  <2>2. unowned \subseteq facts /\ facts \subseteq FactIds
    BY DEF Core, TypeOK
  <2> HIDE DEF unowned
  <2>3. sweep' \in SweepRecord
    BY <2>1, <2>2, NoSweepTyped DEF SweepRecord
  <2>4. /\ sweep'.claims = claims /\ sweep'.facts = facts
        /\ sweep'.unowned = unowned /\ sweep'.eligible = {}
    BY <2>1 DEF NoSweep
  <2>5. QED
    BY <1>2, <2>1, <2>2, <2>3, <2>4 DEF Held, Busy
<1>3. QED
  BY <1>1, <1>2

\* On with the next claim.
LEMMA HeldClaimDone ==
    ASSUME Core, Reads, sweep.claims # <<>>, ClaimDone
    PROVE  Held(step', sweep')
<1>1. sweep.claims \in Seq(LoanIds)
  BY HeldPairs
<1>2. /\ Tail(sweep.claims) \in Seq(LoanIds)
      /\ \A i \in 1..Len(Tail(sweep.claims)) :
            /\ Tail(sweep.claims)[i] = sweep.claims[i + 1]
            /\ i + 1 \in 1..Len(sweep.claims)
  BY <1>1
<1>3. \A i \in 1..Len(Tail(sweep.claims)) : Past(Tail(sweep.claims)[i])
  BY <1>2 DEF Reads, Held
<1>4. sweep.facts \in SUBSET stored
  BY DEF Reads, Held
<1>5. QED
  BY <1>2, <1>3, <1>4, HeldStart DEF ClaimDone

\* A candidate less.
LEMMA HeldLess ==
    ASSUME Reads, NEW f, step' = step,
           sweep' = [sweep EXCEPT !.eligible = @ \ {f}]
    PROVE  Held(step', sweep')
<1>1. sweep' \in SweepRecord
  BY DEF Reads, Held, SweepRecord
<1>2. /\ sweep'.claims = sweep.claims /\ sweep'.facts = sweep.facts
      /\ sweep'.unowned = sweep.unowned /\ sweep'.funding = sweep.funding
      /\ sweep'.eligible = sweep.eligible \ {f}
  BY DEF Reads, Held, SweepRecord
<1>3. QED
  BY <1>1, <1>2 DEF Reads, Held

LEMMA HeldCandidateDone ==
    ASSUME Reads, step \in Busy, CandidateDone
    PROVE  Held(step', sweep')
<1>1. sweep' \in SweepRecord
  BY DEF Reads, Held, SweepRecord, CandidateDone
<1>2. /\ sweep'.claims = sweep.claims /\ sweep'.facts = sweep.facts
      /\ sweep'.unowned = sweep.unowned
      /\ sweep'.eligible = sweep.eligible \ {sweep.funding}
      /\ step' = "candidates"
  BY DEF Reads, Held, SweepRecord, CandidateDone
<1>3. QED
  BY <1>1, <1>2 DEF Reads, Held, Busy

LEMMA HeldOpenClaims ==
    ASSUME Core, Reads, OpenClaims
    PROVE  Held(step', sweep')
<1> DEFINE l == sweep.id
           claims == IF OpenAt(l, sweep.head) THEN Append(sweep.claims, l) ELSE sweep.claims
<1>1. /\ step = "loans" /\ step' = "loans" /\ l < sweep.next
      /\ sweep' = [sweep EXCEPT !.id = l + 1, !.claims = claims]
  BY DEF OpenClaims
<1>2. sweep \in SweepRecord /\ sweep.claims \in Seq(LoanIds)
  BY DEF Reads, Held, SweepRecord
<1>3. l \in LoanIds /\ l + 1 \in 1..(MaxLoans + 1)
  BY <1>1, <1>2, InputAssumption DEF SweepRecord, LoanIds
<1>4. claims \in Seq(LoanIds)
  BY <1>2, <1>3
<1>5. \A i \in 1..Len(claims) : Past(claims[i])
  <2>1. CASE OpenAt(l, sweep.head)
    <3>1. Past(l)
      BY <2>1 DEF OpenAt, Past
    <3>2. \A i \in 1..Len(claims) :
             claims[i] = l \/ (i \in 1..Len(sweep.claims) /\ claims[i] = sweep.claims[i])
      BY <1>2, <1>3, <2>1
    <3>3. QED
      BY <3>1, <3>2 DEF Reads, Held
  <2>2. CASE ~OpenAt(l, sweep.head)
    BY <2>2 DEF Reads, Held
  <2>3. QED
    BY <2>1, <2>2
<1> HIDE DEF claims, l
<1>6. /\ sweep' \in SweepRecord
      /\ sweep'.claims = claims /\ sweep'.facts = sweep.facts
      /\ sweep'.unowned = sweep.unowned /\ sweep'.eligible = sweep.eligible
  BY <1>1, <1>2, <1>3, <1>4 DEF SweepRecord
<1>7. QED
  BY <1>1, <1>5, <1>6 DEF Reads, Held, Busy

LEMMA HeldTreasuryOwner ==
    ASSUME Reads, TreasuryOwner
    PROVE  Held(step', sweep')
<1>1. step = "candidates" /\ step' = step
  BY DEF TreasuryOwner
<1>2. PICK f \in sweep.unowned :
        sweep' = [sweep EXCEPT
              !.unowned = @ \ {f},
              !.eligible = IF OwnTreasury(f, Claimed) THEN @ \cup {f} ELSE @]
  BY DEF TreasuryOwner, Claimed
<1>3. Claimed \in LoanIds /\ Past(Claimed) /\ f \in stored
  BY <1>1, HeldPairs DEF Reads, Held, Busy
<1>4. /\ sweep' \in SweepRecord
      /\ sweep'.claims = sweep.claims /\ sweep'.facts = sweep.facts
      /\ sweep'.unowned \subseteq sweep.unowned
      /\ \A g \in sweep'.eligible :
            g \in sweep.eligible \/ (g = f /\ OwnTreasury(f, Claimed))
  BY <1>2, HeldPairs DEF Reads, Held, SweepRecord
<1>5. OwnTreasury(f, Claimed) => Ripe(Claimed, f)
  BY <1>3 DEF OwnTreasury, Ripe
<1>6. \A g \in sweep'.eligible : Ripe(Claimed, g)
  BY <1>4, <1>5 DEF Reads, Held, Claimed
<1>7. QED
  BY <1>1, <1>4, <1>6 DEF Reads, Held, Busy, Claimed

LEMMA HeldSimulationPasses ==
    ASSUME Reads, SimulationPasses
    PROVE  Held(step', sweep')
<1>1. PICK f \in FactIds : Actionable(f) /\ sweep' = [sweep EXCEPT !.funding = f]
  BY DEF SimulationPasses
<1>2. step = "candidates" /\ step' = "broadcast" /\ f \in sweep.eligible
  BY <1>1 DEF SimulationPasses, Actionable, Acting
<1>3. /\ sweep' \in SweepRecord
      /\ sweep'.claims = sweep.claims /\ sweep'.facts = sweep.facts
      /\ sweep'.unowned = sweep.unowned /\ sweep'.eligible = sweep.eligible
      /\ sweep'.funding = f
  BY <1>1 DEF Reads, Held, SweepRecord
<1>4. QED
  BY <1>2, <1>3 DEF Reads, Held, Busy

LEMMA HeldSweep ==
    ASSUME Core, Reads, Sweep
    PROVE  Held(step', sweep')
<1>1. CASE GetBlockNumber
  <2>1. sweep' = [NoSweep EXCEPT !.head = number] /\ step' = "count" /\ number \in Nat
    BY <1>1 DEF GetBlockNumber, Core, TypeOK
  <2>2. sweep' \in SweepRecord
    BY <2>1, NoSweepTyped DEF SweepRecord
  <2>3. QED
    BY <2>1, <2>2 DEF Held, NoSweep, Busy
<1>2. CASE ReadNextLoanId
  <2>1. /\ sweep' = [sweep EXCEPT !.next = nextLoanId]
        /\ step = "count" /\ step' = "loans"
        /\ nextLoanId \in 0..(MaxLoans + 1)
    BY <1>2, InputAssumption DEF ReadNextLoanId, Core, TypeOK
  <2>2. /\ sweep' \in SweepRecord
        /\ sweep'.claims = sweep.claims /\ sweep'.facts = sweep.facts
        /\ sweep'.unowned = sweep.unowned /\ sweep'.eligible = sweep.eligible
    BY <2>1 DEF Reads, Held, SweepRecord
  <2>3. QED
    BY <2>1, <2>2 DEF Reads, Held, Busy
<1>3. CASE OpenClaims
  BY <1>3, HeldOpenClaims
<1>4. CASE NoClaims
  BY <1>4, HeldAsleep DEF NoClaims
<1>5. CASE RecentFacts
  <2>1. { f \in FactIds : Recent(f, sweep.head) } \in SUBSET stored
    BY DEF Recent
  <2>2. sweep.claims \in Seq(LoanIds) /\ \A i \in 1..Len(sweep.claims) : Past(sweep.claims[i])
    BY DEF Reads, Held, SweepRecord
  <2>3. QED
    BY <1>5, <2>1, <2>2, HeldStart DEF RecentFacts
<1>6. CASE TreasuryOwner
  BY <1>6, HeldTreasuryOwner
<1>7. CASE NoCandidateLeft
  BY <1>7, HeldClaimDone DEF NoCandidateLeft, Acting, Reads, Held, Busy
<1>8. CASE Decline \/ SimulationReverts
  BY <1>8, HeldLess DEF Decline, SimulationReverts
<1>9. CASE SimulationPasses
  BY <1>9, HeldSimulationPasses
<1>10. CASE EstimateReverts \/ LostRace
  BY <1>10, HeldCandidateDone DEF EstimateReverts, LostRace, Busy
<1>11. CASE Broadcast
  BY <1>11 DEF Broadcast, Reads, Held, Busy
<1>12. CASE Confirmed
  BY <1>12, HeldClaimDone DEF Confirmed, Reads, Held, Busy
<1>13. QED
  BY <1>1, <1>2, <1>3, <1>4, <1>5, <1>6, <1>7, <1>8, <1>9, <1>10, <1>11, <1>12 DEF Sweep

LEMMA HeldFailure ==
    ASSUME Reads, Failure
    PROVE  Held(step', sweep')
<1>1. CASE ReadThrows \/ Restart
  BY <1>1, HeldAsleep DEF ReadThrows, Restart
<1>2. CASE SimulationThrows
  BY <1>2, HeldLess DEF SimulationThrows
<1>3. CASE BroadcastThrows \/ WaitThrows
  BY <1>3, HeldCandidateDone DEF BroadcastThrows, WaitThrows, Busy
<1>4. QED
  BY <1>1, <1>2, <1>3 DEF Failure

-----------------------------------------------------------------------------
(* The transactions sent and the receipts that come back.                  *)

\* The pair in hand, once its simulation has passed.
LEMMA CurrentIsRipe ==
    ASSUME Core, Reads, step \in {"broadcast", "wait"}
    PROVE  Ripe(Claimed, sweep.funding) /\ Current \in Pairs
<1>1. Ripe(Claimed, sweep.funding)
  BY DEF Reads, Held, Claimed
<1>2. QED
  BY <1>1 DEF Ripe, Core, TypeOK, Current, Pairs

LEMMA AbandonedAwaitsNone ==
    ASSUME Waits
    PROVE  /\ Abandoned \subseteq [ pair : Pairs, awaited : BOOLEAN ]
           /\ \A tx \in Abandoned : ~tx.awaited
BY DEF Waits, Abandoned

LEMMA WaitsSweep ==
    ASSUME Core, Reads, Waits, Sweep
    PROVE  Waits'
<1>1. CASE Broadcast
  <2> DEFINE sent == [ pair |-> Current, awaited |-> TRUE ]
  <2>1. /\ step = "broadcast" /\ step' = "wait" /\ sweep' = sweep
        /\ mempool' = mempool \cup {sent} /\ receipt' = receipt
    BY <1>1 DEF Broadcast
  <2>2. sent \in [ pair : Pairs, awaited : BOOLEAN ]
    BY <2>1, CurrentIsRipe
  <2>3. receipt = "none" /\ \A tx \in mempool : ~tx.awaited
    BY <2>1 DEF Waits
  <2>4. Current' = Current /\ sent.pair = Current
    BY <2>1 DEF Current, Claimed
  <2> HIDE DEF sent
  <2>5. QED
    BY <2>1, <2>2, <2>3, <2>4 DEF Waits
<1>2. CASE Confirmed \/ LostRace
  BY <1>2 DEF Confirmed, LostRace, Waits
<1>3. CASE \/ GetBlockNumber \/ ReadNextLoanId \/ OpenClaims \/ NoClaims \/ RecentFacts
           \/ TreasuryOwner \/ NoCandidateLeft \/ Decline \/ SimulationReverts
           \/ SimulationPasses \/ EstimateReverts
  <2>1. step # "wait" /\ mempool' = mempool /\ receipt' = receipt
    BY <1>3 DEF GetBlockNumber, ReadNextLoanId, OpenClaims, NoClaims, RecentFacts,
                TreasuryOwner, NoCandidateLeft, Decline, SimulationReverts, SimulationPasses,
                EstimateReverts, Acting, Actionable, chain
  <2>2. QED
    BY <2>1 DEF Waits
<1>4. QED
  BY <1>1, <1>2, <1>3 DEF Sweep

LEMMA WaitsFailure ==
    ASSUME Core, Reads, Waits, Failure
    PROVE  Waits'
<1>1. CASE ReadThrows \/ SimulationThrows
  BY <1>1 DEF ReadThrows, SimulationThrows, Actionable, Acting, chain, Waits
<1>2. CASE BroadcastThrows
  <2> DEFINE sent == [ pair |-> Current, awaited |-> FALSE ]
  <2>1. /\ step = "broadcast" /\ receipt' = receipt
        /\ mempool' \subseteq mempool \cup {sent}
    BY <1>2 DEF BroadcastThrows
  <2>2. sent \in [ pair : Pairs, awaited : BOOLEAN ] /\ ~sent.awaited
    BY <2>1, CurrentIsRipe
  <2> HIDE DEF sent
  <2>3. QED
    BY <2>1, <2>2 DEF Waits
<1>3. CASE WaitThrows \/ Restart
  BY <1>3, AbandonedAwaitsNone DEF WaitThrows, Restart, Waits
<1>4. QED
  BY <1>1, <1>2, <1>3 DEF Failure

\* The book's own moves cannot make a reverted receipt a lie.
LEMMA NoStaysNo ==
    ASSUME Core, Reads, SettledAnswers, UNCHANGED sweep, step = "wait",
           ~Challengeable(Claimed, sweep.funding)
    PROVE  ~Challengeable(Claimed, sweep.funding)'
<1>1. Ripe(Claimed, sweep.funding) /\ Claimed \in LoanIds /\ sweep.funding \in FactIds
  BY CurrentIsRipe DEF Ripe, Core, TypeOK
<1>2. PICK l \in LoanIds, f \in FactIds : l = Claimed /\ f = sweep.funding
  BY <1>1
<1>3. ~Challengeable(l, f)'
  BY <1>1, <1>2 DEF SettledAnswers
<1>4. QED
  BY <1>2, <1>3 DEF Claimed, Challengeable, Covenant, WindowEnd

LEMMA WaitsOthers ==
    ASSUME Core, Reads, Waits, SettledAnswers, Others
    PROVE  Waits'
<1>1. UNCHANGED <<step, sweep, mempool, receipt>>
  BY DEF Others, process
<1>2. receipt = "reverted" => ~Challengeable(Claimed, sweep.funding)'
  BY <1>1, NoStaysNo DEF Waits
<1>3. QED
  BY <1>1, <1>2 DEF Waits, Current, Claimed

LEMMA WaitsMine ==
    ASSUME Core, Reads, Waits, SettledAnswers, Mine
    PROVE  Waits'
<1>1. PICK tx \in mempool : IncludedSuccess(tx) \/ IncludedReverted(tx)
  BY DEF Mine
<1>2. UNCHANGED <<step, sweep>> /\ mempool' = mempool \ {tx}
  BY <1>1 DEF IncludedSuccess, IncludedReverted, Included, process
<1>3. tx.awaited => step = "wait" /\ \A other \in mempool' : ~other.awaited
  BY <1>2 DEF Waits
<1>4. ~tx.awaited => receipt' = receipt
  BY <1>1 DEF IncludedSuccess, IncludedReverted
<1>5. receipt' # "none" => step = "wait"
  BY <1>3, <1>4 DEF Waits
<1>6. receipt' = "reverted" => ~Challengeable(Claimed, sweep.funding)
  <2>1. CASE tx.awaited
    <3>1. receipt' = "reverted" => IncludedReverted(tx)
      BY <1>1, <2>1 DEF IncludedSuccess
    <3>2. tx.pair[1] = Claimed /\ tx.pair[2] = sweep.funding
      BY <2>1 DEF Waits, Current
    <3>3. QED
      BY <3>1, <3>2 DEF IncludedReverted
  <2>2. CASE ~tx.awaited
    BY <1>4, <2>2 DEF Waits
  <2>3. QED
    BY <2>1, <2>2
<1>7. receipt' = "reverted" => ~Challengeable(Claimed, sweep.funding)'
  BY <1>2, <1>5, <1>6, NoStaysNo
<1>8. \A other \in mempool' :
         other.awaited => step' = "wait" /\ receipt' = "none" /\ other.pair = Current'
  <2>1. CASE tx.awaited
    BY <1>3, <2>1
  <2>2. CASE ~tx.awaited
    BY <1>2, <1>4, <2>2 DEF Waits, Current, Claimed
  <2>3. QED
    BY <2>1, <2>2
<1>9. mempool' \subseteq [ pair : Pairs, awaited : BOOLEAN ]
  BY <1>2 DEF Waits
<1>10. QED
  BY <1>2, <1>5, <1>7, <1>8, <1>9 DEF Waits

-----------------------------------------------------------------------------
(* The refusals.                                                           *)

\* A right refusal stays right.
LEMMA AnswerKept ==
    ASSUME Core, SettledAnswers, strict' = strict,
           NEW l \in LoanIds, NEW f \in FactIds, Answered(l, f)
    PROVE  Answered(l, f)'
BY DEF SettledAnswers, Answered, Declined

LEMMA RightKept ==
    ASSUME Core, SettledAnswers, strict' = strict, Right(refused' \ dropped')
    PROVE  Refusals'
<1>1. ASSUME NEW pair \in refused' \ dropped'
      PROVE  pair \in Pairs /\ Answered(pair[1], pair[2])'
  <2>1. PICK l \in LoanIds, f \in FactIds : pair = <<l, f>>
    BY DEF Right, Pairs
  <2>2. Answered(l, f)
    BY <2>1 DEF Right
  <2>3. QED
    BY <2>1, <2>2, AnswerKept DEF Right
<1>2. QED
  BY <1>1 DEF Refusals, Right

LEMMA OneMore ==
    ASSUME Refusals, NEW pair \in Pairs, Answered(pair[1], pair[2]),
           refused' = refused \cup {pair}, dropped' = dropped
    PROVE  Right(refused' \ dropped')
BY DEF Refusals, Right

LEMMA RefusalsSweep ==
    ASSUME Core, Reads, Waits, Refusals, Sweep
    PROVE  Right(refused' \ dropped')
<1>1. CASE Decline
  <2>1. PICK f \in sweep.eligible :
          /\ <<Claimed, f>> \in refused \/ Declined(Claimed, f)
          /\ refused' = refused \cup {<<Claimed, f>>}
    BY <1>1 DEF Decline
  <2>2. dropped' = dropped
    BY <1>1 DEF Decline
  <2>3. CASE <<Claimed, f>> \in refused
    BY <2>1, <2>2, <2>3 DEF Refusals, Right
  <2>4. CASE Declined(Claimed, f)
    <3>1. Answered(Claimed, f)
      BY <2>4 DEF Answered, Reads, Held, Claimed
    <3>2. <<Claimed, f>> \in Pairs
      BY <3>1 DEF Answered, Ripe, Core, TypeOK, Pairs
    <3>3. QED
      BY <2>1, <2>2, <3>1, <3>2, OneMore
  <2>5. QED
    BY <2>1, <2>3, <2>4
<1>2. CASE SimulationReverts
  <2>1. PICK f \in FactIds :
          /\ f \in sweep.eligible /\ ~Challengeable(Claimed, f)
          /\ refused' = refused \cup {<<Claimed, f>>}
    BY <1>2 DEF SimulationReverts, Actionable
  <2>2. dropped' = dropped
    BY <1>2 DEF SimulationReverts
  <2>3. Answered(Claimed, f)
    BY <2>1 DEF Answered, Reads, Held, Claimed
  <2>4. <<Claimed, f>> \in Pairs
    BY <2>3 DEF Answered, Ripe, Core, TypeOK, Pairs
  <2>5. QED
    BY <2>1, <2>2, <2>3, <2>4, OneMore
<1>3. CASE EstimateReverts \/ LostRace
  <2>1. /\ step \in {"broadcast", "wait"}
        /\ ~Challengeable(Claimed, sweep.funding)
        /\ refused' = refused \cup {Current} /\ dropped' = dropped
    BY <1>3 DEF EstimateReverts, LostRace, Waits
  <2>2. Answered(Claimed, sweep.funding) /\ Current \in Pairs
    BY <2>1, CurrentIsRipe DEF Answered
  <2>3. QED
    BY <2>1, <2>2, OneMore DEF Current
<1>4. CASE \/ GetBlockNumber \/ ReadNextLoanId \/ OpenClaims \/ NoClaims \/ RecentFacts
           \/ TreasuryOwner \/ NoCandidateLeft \/ SimulationPasses \/ Broadcast \/ Confirmed
  <2>1. refused' = refused /\ dropped' = dropped
    BY <1>4 DEF GetBlockNumber, ReadNextLoanId, OpenClaims, NoClaims, RecentFacts,
                TreasuryOwner, NoCandidateLeft, SimulationPasses, Broadcast, Confirmed
  <2>2. QED
    BY <2>1 DEF Refusals
<1>5. QED
  BY <1>1, <1>2, <1>3, <1>4 DEF Sweep

LEMMA RefusalsFailure ==
    ASSUME Refusals, Failure
    PROVE  Right(refused' \ dropped')
<1>1. CASE ReadThrows
  BY <1>1 DEF ReadThrows, Refusals
<1>2. CASE SimulationThrows
  BY <1>2 DEF SimulationThrows, Refusals, Right
<1>3. CASE BroadcastThrows \/ WaitThrows
  BY <1>3 DEF BroadcastThrows, WaitThrows, Refusals, Right
<1>4. CASE Restart
  BY <1>4 DEF Restart, Right
<1>5. QED
  BY <1>1, <1>2, <1>3, <1>4 DEF Failure

-----------------------------------------------------------------------------
(* Honest is inductive, beside the invariants of the contract.             *)

LEMMA HonestInit == ProcessInit => Honest
BY NoSweepTyped DEF ProcessInit, Honest, Reads, Held, NoSweep, Busy, Waits, Refusals, Right

LEMMA StrictFixed ==
    ASSUME ChallengerNext PROVE strict' = strict
<1>1. CASE Sweep
  BY <1>1 DEF Sweep, GetBlockNumber, ReadNextLoanId, OpenClaims, NoClaims, RecentFacts,
              TreasuryOwner, NoCandidateLeft, Decline, SimulationReverts, SimulationPasses,
              EstimateReverts, Broadcast, Confirmed, LostRace
<1>2. CASE Failure
  BY <1>2 DEF Failure, ReadThrows, SimulationThrows, BroadcastThrows, WaitThrows, Restart
<1>3. CASE Mine \/ Others
  BY <1>3 DEF Mine, IncludedSuccess, IncludedReverted, Included, Others
<1>4. QED
  BY <1>1, <1>2, <1>3 DEF ChallengerNext

LEMMA HonestNext ==
    ASSUME Core, Evidence, Standing, Honest, [ChallengerNext]_challengerVars
    PROVE  Honest'
<1>1. Reads /\ Waits /\ Refusals
  BY DEF Honest
<1>2. SettledAnswers
  BY <1>1, ChallengerStepsAreBookSteps, BookStep
<1>3. CASE Sweep
  BY <1>1, <1>2, <1>3, HeldSweep, HeldKept, WaitsSweep, RefusalsSweep, RightKept, StrictFixed
     DEF Honest, ChallengerNext
<1>4. CASE Failure
  BY <1>1, <1>2, <1>4, HeldFailure, HeldKept, WaitsFailure, RefusalsFailure, RightKept,
     StrictFixed DEF Honest, ChallengerNext
<1>5. CASE Mine \/ Others
  <2>1. UNCHANGED <<step, sweep, refused, dropped>>
    BY <1>5 DEF Mine, IncludedSuccess, IncludedReverted, Included, Others, process
  <2>2. Held(step', sweep') /\ Right(refused' \ dropped')
    BY <1>1, <2>1 DEF Reads, Refusals
  <2>3. QED
    BY <1>1, <1>2, <1>5, <2>2, HeldKept, WaitsOthers, WaitsMine, RightKept, StrictFixed
       DEF Honest, ChallengerNext
<1>6. CASE UNCHANGED challengerVars
  <2>1. UNCHANGED <<step, sweep, refused, dropped, strict, mempool, receipt>>
    BY <1>6 DEF challengerVars, process
  <2>2. Held(step', sweep') /\ Right(refused' \ dropped')
    BY <1>1, <2>1 DEF Reads, Refusals
  <2>3. receipt = "reverted" => ~Challengeable(Claimed, sweep.funding)'
    BY <1>1, <1>2, <2>1, NoStaysNo DEF Waits
  <2>4. Waits'
    BY <1>1, <2>1, <2>3 DEF Waits, Current, Claimed
  <2>5. QED
    BY <1>2, <2>1, <2>2, <2>4, HeldKept, RightKept DEF Honest
<1>7. QED
  BY <1>3, <1>4, <1>5, <1>6 DEF ChallengerNext

(***************************************************************************)
(* RefusalIsFinal, for every number of loans, facts and faults and every   *)
(* value of the parameters: what enforce.ts puts on its list of refusals   *)
(* without a call having thrown is never challengeable again, unless the   *)
(* operator declines its shape.                                            *)
(***************************************************************************)
THEOREM RefusalsAreFinal == ChallengerSpec => []RefusalIsFinal
<1>1. ChallengerInit => Core /\ Evidence /\ Standing /\ Honest
  BY CoreInit, EvidenceInit, StandingInit, HonestInit DEF ChallengerInit
<1>2. /\ Core /\ Evidence /\ Standing /\ Honest
      /\ [ChallengerNext]_challengerVars
      => (Core /\ Evidence /\ Standing /\ Honest)'
  <2> SUFFICES ASSUME Core, Evidence, Standing, Honest, [ChallengerNext]_challengerVars
               PROVE  (Core /\ Evidence /\ Standing /\ Honest)'
    OBVIOUS
  <2>1. [Next]_vars
    BY ChallengerStepsAreBookSteps DEF Honest
  <2>2. Core' /\ Evidence' /\ Standing'
    BY <2>1, CoreNext, EvidenceNext, StandingNext
  <2>3. QED
    BY <2>2, HonestNext
<1>3. Honest => RefusalIsFinal
  BY DEF Honest, Refusals, Right, Answered, RefusalIsFinal
<1>4. QED
  BY <1>1, <1>2, <1>3, PTL DEF ChallengerSpec
=============================================================================

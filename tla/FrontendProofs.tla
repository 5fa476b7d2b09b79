---------------------------- MODULE FrontendProofs ----------------------------
(***************************************************************************)
(* What the frontend says of a book that moves between its reads, for      *)
(* every value of the constants.                                           *)
(*                                                                         *)
(* Whatever a part of the frontend does to the contract is a step of the   *)
(* contract or none (BookMoves): the only transaction of the frontend that *)
(* is not one of Clearbook's by its form is the demonstration's, which is  *)
(* always refused.  So Core, Evidence and Standing hold here too, and each *)
(* part needs one invariant of its own that says what its reads are still  *)
(* worth: a read of something permanent never ages, a read of anything     *)
(* else was true at one known moment.                                      *)
(***************************************************************************)
EXTENDS VerdictProofs, Frontend, SequenceTheorems

-----------------------------------------------------------------------------
(* The refusals of registerLoan.                                           *)

Check == [name : STRING, fails : BOOLEAN]

LEMMA Joined ==
    ASSUME NEW S, NEW a \in S, NEW b \in S, NEW c \in S, NEW d \in S, NEW e \in S,
           NEW f \in S, NEW g \in S, NEW h \in S,
           NEW s, s = <<a, b, c>> \o <<d, e>> \o <<f, g, h>>
    PROVE  /\ DOMAIN s = 1..8
           /\ s[1] = a /\ s[2] = b /\ s[3] = c /\ s[4] = d
           /\ s[5] = e /\ s[6] = f /\ s[7] = g /\ s[8] = h
<1> DEFINE x == <<a, b, c>>  y == <<d, e>>  z == <<f, g, h>>
<1>1. x \in Seq(S) /\ y \in Seq(S) /\ z \in Seq(S)
  OBVIOUS
<1>2. Len(x) = 3 /\ Len(y) = 2 /\ Len(z) = 3
  OBVIOUS
<1>3. /\ x[1] = a /\ x[2] = b /\ x[3] = c
      /\ y[1] = d /\ y[2] = e
      /\ z[1] = f /\ z[2] = g /\ z[3] = h
  OBVIOUS
<1>4. s = (x \o y) \o z
  OBVIOUS
<1> HIDE DEF x, y, z
<1>5. /\ x \o y \in Seq(S) /\ Len(x \o y) = 5
      /\ \A i \in 1..5 : (x \o y)[i] = IF i <= 3 THEN x[i] ELSE y[i - 3]
  <2>1. /\ x \o y \in Seq(S) /\ Len(x \o y) = Len(x) + Len(y)
        /\ \A i \in 1..Len(x) + Len(y) :
              (x \o y)[i] = IF i <= Len(x) THEN x[i] ELSE y[i - Len(x)]
    BY <1>1, ConcatProperties
  <2>2. QED
    BY <1>2, <2>1
<1>6. /\ s \in Seq(S) /\ Len(s) = 8
      /\ \A i \in 1..8 : s[i] = IF i <= 5 THEN (x \o y)[i] ELSE z[i - 5]
  BY SMTT(30), <1>1, <1>2, <1>4, <1>5, ConcatProperties
<1>7. s[1] = x[1] /\ s[2] = x[2] /\ s[3] = x[3] /\ s[4] = y[1] /\ s[5] = y[2]
  BY SMTT(30), <1>5, <1>6
<1>8. s[6] = z[1] /\ s[7] = z[2] /\ s[8] = z[3]
  BY <1>6
<1>9. DOMAIN s = 1..8
  BY <1>6
<1>10. QED
  BY <1>3, <1>7, <1>8, <1>9

\* The refusals in the order in which registerLoan looks for them.
LEMMA TheChecks ==
    ASSUME NEW sender, NEW o, NEW terms, NEW f,
           NEW checks, checks = registerLoanChecks(sender, o, terms, f)
    PROVE  /\ DOMAIN checks = 1..8
           /\ checks[1].name = "NotOwner"
           /\ checks[1].fails <=> originators[o].owner # sender
           /\ checks[2].name = "InactiveOriginator"
           /\ checks[2].fails <=> ~originators[o].active
           /\ checks[3].name = "BadWindow"
           /\ checks[3].fails <=> terms.maturityBlock <= number
           /\ checks[4].name = "FactAlreadyUsed"
           /\ checks[4].fails <=> factConsumedBy[f] # 0
           /\ \A k \in 5..8 : checks[k].name \notin {"FactAlreadyUsed", "misreported"}
<1> DEFINE c5 == [ name |-> "InsufficientBond", fails |-> Unencumbered(o) < BOND_PER_LOAN ]
           c6 == [ name |-> "UnknownFact", fails |-> f \notin stored ]
           c7 == [ name |-> "FactMismatch", fails |-> \/ Ledger[f].token # terms.token
                                                      \/ Ledger[f].to # terms.borrower
                                                      \/ Ledger[f].amount # terms.principal ]
           c8 == [ name |-> "TreasuryNotBound", fails |-> treasuryOwner[Ledger[f].from] # o ]
           c1 == [ name |-> "NotOwner", fails |-> originators[o].owner # sender ]
           c2 == [ name |-> "InactiveOriginator", fails |-> ~originators[o].active ]
           c3 == [ name |-> "BadWindow", fails |-> terms.maturityBlock <= number ]
           c4 == [ name |-> "FactAlreadyUsed", fails |-> factConsumedBy[f] # 0 ]
           All == {c1, c2, c3, c4, c5, c6, c7, c8}
<1>1. checks = <<c1, c2, c3>> \o <<c4, c5>> \o <<c6, c7, c8>>
  BY DEF registerLoanChecks, EvidenceFirst
<1>2. /\ c1 \in All /\ c2 \in All /\ c3 \in All /\ c4 \in All
      /\ c5 \in All /\ c6 \in All /\ c7 \in All /\ c8 \in All
  OBVIOUS
<1>3. /\ c5.name = "InsufficientBond" /\ c6.name = "UnknownFact"
      /\ c7.name = "FactMismatch" /\ c8.name = "TreasuryNotBound"
  OBVIOUS
<1> HIDE DEF c5, c6, c7, c8, All
<1>4. /\ DOMAIN checks = 1..8
      /\ checks[1] = c1 /\ checks[2] = c2 /\ checks[3] = c3 /\ checks[4] = c4
      /\ checks[5] = c5 /\ checks[6] = c6 /\ checks[7] = c7 /\ checks[8] = c8
  <2> HIDE DEF c1, c2, c3, c4
  <2>1. QED
    BY <1>1, <1>2, Joined
<1>5. \A k \in 5..8 : checks[k].name \notin {"FactAlreadyUsed", "misreported"}
  <2> HIDE DEF c1, c2, c3, c4
  <2>1. SUFFICES ASSUME NEW k \in 5..8
                 PROVE  checks[k].name \notin {"FactAlreadyUsed", "misreported"}
    OBVIOUS
  <2>2. k = 5 \/ k = 6 \/ k = 7 \/ k = 8
    OBVIOUS
  <2>3. QED
    BY <1>3, <1>4, <2>2
<1>6. /\ c1.name = "NotOwner" /\ c2.name = "InactiveOriginator"
      /\ c3.name = "BadWindow" /\ c4.name = "FactAlreadyUsed"
  OBVIOUS
<1>7. /\ c1.fails = (originators[o].owner # sender)
      /\ c2.fails = ~originators[o].active
      /\ c3.fails = (terms.maturityBlock <= number)
      /\ c4.fails = (factConsumedBy[f] # 0)
  BY Zenon
<1> HIDE DEF c1, c2, c3, c4
<1>8. QED
  BY <1>4, <1>5, <1>6, <1>7

\* The first of them that applies is the answer.
LEMMA FirstRefusal ==
    ASSUME NEW sender, NEW o, NEW terms, NEW f,
           NEW checks, checks = registerLoanChecks(sender, o, terms, f),
           NEW k \in 1..8, checks[k].fails, \A j \in 1..8 : j < k => ~checks[j].fails
    PROVE  Refusal(sender, o, terms, f) = checks[k].name
<1>1. DOMAIN checks = 1..8
  BY TheChecks
<1> DEFINE failing == Failing(checks)
           first == CHOOSE i \in failing : \A j \in failing : i <= j
<1>2. k \in failing /\ failing \subseteq 1..8 /\ \A j \in failing : k <= j
  BY <1>1 DEF Failing
<1>3. first \in failing /\ \A j \in failing : first <= j
  BY <1>2
<1>4. first = k
  BY <1>2, <1>3
<1>5. QED
  BY <1>2, <1>4 DEF Refusal

\* A registration is refused with FactAlreadyUsed exactly when nothing that is checked
\* before it fails.
Spent(sender, o, terms, f) ==
    /\ originators[o].owner = sender
    /\ originators[o].active
    /\ ~(terms.maturityBlock <= number)
    /\ factConsumedBy[f] # 0

LEMMA UsedWhenSpent ==
    ASSUME NEW sender, NEW o, NEW terms, NEW f
    PROVE  /\ Refusal(sender, o, terms, f) = "FactAlreadyUsed" <=> Spent(sender, o, terms, f)
           /\ Refusal(sender, o, terms, f) # "misreported"
<1>1. PICK checks : checks = registerLoanChecks(sender, o, terms, f)
  OBVIOUS
<1>2. /\ DOMAIN checks = 1..8
      /\ checks[1].name = "NotOwner" /\ checks[2].name = "InactiveOriginator"
      /\ checks[3].name = "BadWindow" /\ checks[4].name = "FactAlreadyUsed"
      /\ \A k \in 5..8 : checks[k].name \notin {"FactAlreadyUsed", "misreported"}
      /\ checks[1].fails <=> originators[o].owner # sender
      /\ checks[2].fails <=> ~originators[o].active
      /\ checks[3].fails <=> terms.maturityBlock <= number
      /\ checks[4].fails <=> factConsumedBy[f] # 0
  BY <1>1, TheChecks
<1>3. ASSUME NEW k \in 1..8, checks[k].fails, \A j \in 1..8 : j < k => ~checks[j].fails
      PROVE  /\ checks[k].name = "FactAlreadyUsed" <=> Spent(sender, o, terms, f)
             /\ checks[k].name # "misreported"
             /\ Refusal(sender, o, terms, f) = checks[k].name
  <2>1. Refusal(sender, o, terms, f) = checks[k].name
    BY <1>1, <1>3, FirstRefusal
  <2>2. CASE k = 1
    BY <1>2, <1>3, <2>1, <2>2 DEF Spent
  <2>3. CASE k = 2
    BY <1>2, <1>3, <2>1, <2>3 DEF Spent
  <2>4. CASE k = 3
    BY <1>2, <1>3, <2>1, <2>4 DEF Spent
  <2>5. CASE k = 4
    BY <1>2, <1>3, <2>1, <2>5 DEF Spent
  <2>6. CASE k \in 5..8
    BY <1>2, <1>3, <2>1, <2>6 DEF Spent
  <2>7. QED
    BY <2>1, <2>2, <2>3, <2>4, <2>5, <2>6
<1>4. CASE \A k \in 1..8 : ~checks[k].fails
  <2>1. Failing(checks) = {}
    BY <1>2, <1>4 DEF Failing
  <2>2. Refusal(sender, o, terms, f) = "none"
    BY <1>1, <2>1 DEF Refusal
  <2>3. QED
    BY <1>2, <1>4, <2>2 DEF Spent
<1>5. ASSUME NEW k \in 1..8, checks[k].fails
      PROVE  \E i \in 1..8 : checks[i].fails /\ \A j \in 1..8 : j < i => ~checks[j].fails
  <2> DEFINE F(i) == checks[i].fails
  <2>1. \/ F(1) \/ F(2) \/ F(3) \/ F(4) \/ F(5) \/ F(6) \/ F(7) \/ F(8)
    <3>1. k = 1 \/ k = 2 \/ k = 3 \/ k = 4 \/ k = 5 \/ k = 6 \/ k = 7 \/ k = 8
      OBVIOUS
    <3>2. QED
      BY <1>5, <3>1
  <2> HIDE DEF F
  <2>2. \E i \in 1..8 : F(i) /\ \A j \in 1..8 : j < i => ~F(j)
    BY <2>1
  <2>3. QED
    BY <2>2 DEF F
<1>6. QED
  BY <1>3, <1>4, <1>5

-----------------------------------------------------------------------------
(* The frontend and the book.                                              *)

\* The call the demonstration broadcasts is refused because its fact is spent.
Pinned == Spent(Relayer, SecondOriginator, PinnedTerms, PinnedFact)

Flight == [ step : {"none", "simulate", "send", "wait"},
            refusal : {"none", "FactAlreadyUsed"} ]

Transaction == [ waited : BOOLEAN, refused : {"FactAlreadyUsed"} ]

\* A send is doomed from its simulation on, and all the route says of it is true.
Broadcast ==
    /\ inFlight \in Flight
    /\ mempool \subseteq Transaction
    /\ inFlight.step = "send" => Pinned /\ inFlight.refusal = "FactAlreadyUsed"
    /\ mempool # {} => Pinned
    /\ outcome.state # "mined_unexpectedly"
    /\ outcome.error # "misreported"

Receipts == {"none", "asked", "failed", "sent", "mined", "reverted"}

Page == [ selected : {0} \cup LoanIds, cited : {Zero} \cup FactIds, block : Nat,
          rows : [LoanIds -> Loan], facts : SUBSET FactIds,
          owners : [Addresses -> 0..MaxOriginators], tx : Receipts ]

\* A transaction of the console is about a claim and a fact.
Chosen ==
    /\ console \in Page
    /\ console.tx # "none" => console.selected # 0 /\ console.cited # Zero

LEMMA BlocksAreBounded ==
    ASSUME Core, [Next]_vars
    PROVE  number' = number \/ number' <= MaxBlock
<1>1. CASE Tick
  BY <1>1, InputAssumption DEF Tick, Core, TypeOK
<1>2. CASE ~Tick
  BY <1>2 DEF Next, vars, vault, StoreFact, registerOriginator, bindTreasury, topUpBond,
              withdrawBond, registerLoan, claimRepayment, markDelinquent, finalize, challenge
<1>3. QED
  BY <1>1, <1>2

LEMMA PinnedStays ==
    ASSUME Core, [Next]_vars, Pinned
    PROVE  Pinned'
<1>1. SecondOriginator \in OriginatorIds /\ PinnedFact \in FactIds
  BY CollisionAssumption
<1>2. factConsumedBy'[PinnedFact] # 0
  BY <1>1, StepsOf, SpentStaysSpent DEF Pinned, Spent
<1>3. PublishedKept(SecondOriginator)
  BY <1>1, PublishedStep
<1>4. ~(PinnedTerms.maturityBlock <= number')
  BY SMTT(30), BlocksAreBounded, StepsOf, CollisionAssumption, InputAssumption
  DEF Pinned, Spent, Kept, Core, TypeOK
<1>5. QED
  BY <1>2, <1>3, <1>4 DEF Pinned, Spent, PublishedKept, Published

LEMMA PinnedIsRefused ==
    ASSUME Broadcast, NEW tx \in mempool
    PROVE  Attempt = "FactAlreadyUsed" /\ tx.refused = "FactAlreadyUsed"
BY UsedWhenSpent DEF Broadcast, Pinned, Attempt, Transaction

\* Nothing the frontend does to the contract is anything but a step of it.
LEMMA BookMoves ==
    ASSUME Broadcast, Chosen, [FrontendNext]_frontendVars
    PROVE  [Next]_vars
<1>1. CASE World
  BY <1>1 DEF World
<1>2. CASE CheckClearance \/ Collide \/ MeasureCoverage \/ UNCHANGED frontendVars
  BY <1>2 DEF CheckClearance, Collide, MeasureCoverage, frontendVars
<1>3. CASE Include
  <2>1. PICK tx \in mempool : Mined(tx)
    BY <1>3 DEF Include
  <2>2. Attempt # "none"
    BY PinnedIsRefused
  <2>3. QED
    BY <2>1, <2>2 DEF Mined
<1>4. CASE UseConsole
  <2>1. CASE MinedChallenge
    <3>1. /\ challenge(Visitor, console.selected, console.cited)
          /\ Visitor \in Accounts
      BY <2>1, VisitorAssumption DEF MinedChallenge
    <3>2. console.selected \in LoanIds /\ console.cited \in FactIds
      BY <2>1 DEF MinedChallenge, Chosen, Page
    <3>3. QED
      BY <3>1, <3>2 DEF Next
  <2>2. CASE ~MinedChallenge
    BY <1>4, <2>2
    DEF UseConsole, ConsoleNext, Select, ReadLoanRow, Cite, ReadFact, Submit, Wallet,
        MinedAndReverted, ReadBlock, ReadOwner
  <2>3. QED
    BY <2>1, <2>2
<1>5. QED
  BY <1>1, <1>2, <1>3, <1>4 DEF FrontendNext

LEMMA BroadcastStep ==
    ASSUME Core, [Next]_vars, Broadcast, Collide
    PROVE  Broadcast'
<1>0. Pinned => Pinned'
  BY PinnedStays
<1>1. CASE \E c \in Callers : PostWaits(c) \/ PostStarts(c)
  BY <1>0, <1>1 DEF Broadcast, Flight, PostWaits, PostStarts, NoOutcome
<1>2. CASE Simulate
  <2>1. PICK simulated \in {Attempt, "Error"} :
          \/ /\ Doomed(simulated)
             /\ inFlight' = [ step |-> "send", refusal |-> simulated ]
             /\ UNCHANGED outcome
          \/ /\ ~Doomed(simulated)
             /\ Resolve("precondition_changed", simulated)
    BY <1>2 DEF Simulate
  <2>2. UNCHANGED mempool
    BY <1>2 DEF Simulate
  <2>3. CASE Doomed(simulated) /\ inFlight' = [ step |-> "send", refusal |-> simulated ]
             /\ UNCHANGED outcome
    <3>1. simulated = "FactAlreadyUsed" /\ Pinned
      BY <2>1, <2>3, UsedWhenSpent DEF Doomed, Attempt, Pinned
    <3>2. QED
      BY <1>0, <2>2, <2>3, <3>1 DEF Broadcast, Flight
  <2>4. CASE Resolve("precondition_changed", simulated)
    <3>1. simulated # "misreported"
      BY <2>1, UsedWhenSpent DEF Attempt
    <3>2. QED
      BY <1>0, <2>2, <2>4, <3>1 DEF Broadcast, Flight, Resolve, NoFlight
  <2>5. QED
    BY <2>1, <2>3, <2>4
<1>3. CASE Send
  <2>1. CASE Resolve("relayer_error", "none") /\ UNCHANGED mempool
    BY <1>0, <2>1 DEF Broadcast, Flight, Resolve, NoFlight
  <2>2. CASE /\ mempool' = mempool \cup {[ waited |-> TRUE, refused |-> inFlight.refusal ]}
             /\ inFlight' = [inFlight EXCEPT !.step = "wait"]
             /\ UNCHANGED outcome
    <3>1. Pinned /\ inFlight.refusal = "FactAlreadyUsed"
      <4>1. inFlight.step = "send"
        BY <1>3 DEF Send
      <4>2. QED
        BY <4>1 DEF Broadcast
    <3>2. mempool' \subseteq Transaction
      <4>1. [ waited |-> TRUE, refused |-> "FactAlreadyUsed" ] \in Transaction
        BY DEF Transaction
      <4>2. mempool' = mempool \cup {[ waited |-> TRUE, refused |-> "FactAlreadyUsed" ]}
        BY <2>2, <3>1
      <4>3. QED
        BY <4>1, <4>2 DEF Broadcast
    <3>3. inFlight' \in Flight /\ inFlight'.step = "wait"
      BY <2>2 DEF Broadcast, Flight
    <3>4. QED
      BY <1>0, <2>2, <3>1, <3>2, <3>3 DEF Broadcast
  <2>3. QED
    BY <1>3, <2>1, <2>2 DEF Send
<1>4. CASE Timeout
  BY <1>0, <1>4 DEF Broadcast, Flight, Transaction, Timeout, Resolve, NoFlight
<1>5. CASE PassTime
  BY <1>0, <1>5 DEF Broadcast, PassTime
<1>6. QED
  BY <1>1, <1>2, <1>3, <1>4, <1>5 DEF Collide, Serve

LEMMA BroadcastNext ==
    ASSUME Core, Broadcast, Chosen, [FrontendNext]_frontendVars
    PROVE  Broadcast'
<1>0. [Next]_vars
  BY BookMoves
<1>1. CASE Collide
  BY <1>0, <1>1, BroadcastStep
<1>2. CASE Include
  <2>1. PICK tx \in mempool : Mined(tx)
    BY <1>2 DEF Include
  <2>2. Attempt = "FactAlreadyUsed" /\ tx.refused = "FactAlreadyUsed"
    BY PinnedIsRefused
  <2>3. /\ Reported(tx).state = "reverted"
        /\ Reported(tx).error = "FactAlreadyUsed"
    BY <2>2 DEF Reported
  <2>4. Pinned'
    BY <1>0, <2>1, PinnedStays DEF Broadcast
  <2>5. CASE tx.waited
    BY <2>1, <2>3, <2>4, <2>5 DEF Mined, Resolve, NoFlight, Broadcast, Flight
  <2>6. CASE ~tx.waited
    BY <2>1, <2>4, <2>6 DEF Mined, Broadcast
  <2>7. QED
    BY <2>5, <2>6
<1>3. CASE World \/ CheckClearance \/ MeasureCoverage \/ UseConsole \/ UNCHANGED frontendVars
  <2>1. UNCHANGED <<inFlight, outcome, mempool>>
    BY <1>3 DEF World, CheckClearance, MeasureCoverage, UseConsole, frontendVars, surfaces,
                collisionVars
  <2>2. QED
    BY <1>0, <2>1, PinnedStays DEF Broadcast
<1>4. QED
  BY <1>1, <1>2, <1>3 DEF FrontendNext

\* What writing one field of the page leaves alone.
LEMMA WriteBlock ==
    ASSUME NEW p \in Page, NEW v \in Nat, NEW q, q = [p EXCEPT !.block = v]
    PROVE  /\ q \in Page
           /\ q.block = v
           /\ q.selected = p.selected /\ q.cited = p.cited
           /\ q.rows = p.rows /\ q.facts = p.facts
           /\ q.owners = p.owners /\ q.tx = p.tx
BY DEF Page

LEMMA WriteRows ==
    ASSUME NEW p \in Page, NEW v \in [LoanIds -> Loan], NEW q, q = [p EXCEPT !.rows = v]
    PROVE  /\ q \in Page
           /\ q.rows = v
           /\ q.selected = p.selected /\ q.cited = p.cited
           /\ q.block = p.block /\ q.facts = p.facts
           /\ q.owners = p.owners /\ q.tx = p.tx
BY DEF Page

LEMMA WriteFacts ==
    ASSUME NEW p \in Page, NEW v \in SUBSET FactIds, NEW q, q = [p EXCEPT !.facts = v]
    PROVE  /\ q \in Page
           /\ q.facts = v
           /\ q.selected = p.selected /\ q.cited = p.cited
           /\ q.block = p.block /\ q.rows = p.rows
           /\ q.owners = p.owners /\ q.tx = p.tx
BY DEF Page

LEMMA WriteOwners ==
    ASSUME NEW p \in Page, NEW v \in [Addresses -> 0..MaxOriginators], NEW q, q = [p EXCEPT !.owners = v]
    PROVE  /\ q \in Page
           /\ q.owners = v
           /\ q.selected = p.selected /\ q.cited = p.cited
           /\ q.block = p.block /\ q.rows = p.rows
           /\ q.facts = p.facts /\ q.tx = p.tx
BY DEF Page

LEMMA WriteTx ==
    ASSUME NEW p \in Page, NEW v \in Receipts, NEW q, q = [p EXCEPT !.tx = v]
    PROVE  /\ q \in Page
           /\ q.tx = v
           /\ q.selected = p.selected /\ q.cited = p.cited
           /\ q.block = p.block /\ q.rows = p.rows
           /\ q.facts = p.facts /\ q.owners = p.owners
BY DEF Page

LEMMA WriteSelected ==
    ASSUME NEW p \in Page, NEW v \in {0} \cup LoanIds, NEW q, q = [p EXCEPT !.selected = v]
    PROVE  /\ q \in Page
           /\ q.selected = v
           /\ q.cited = p.cited /\ q.block = p.block
           /\ q.rows = p.rows /\ q.facts = p.facts
           /\ q.owners = p.owners /\ q.tx = p.tx
BY DEF Page

LEMMA WriteCited ==
    ASSUME NEW p \in Page, NEW v \in {Zero} \cup FactIds, NEW q, q = [p EXCEPT !.cited = v]
    PROVE  /\ q \in Page
           /\ q.cited = v
           /\ q.selected = p.selected /\ q.block = p.block
           /\ q.rows = p.rows /\ q.facts = p.facts
           /\ q.owners = p.owners /\ q.tx = p.tx
BY DEF Page

LEMMA ChosenNext ==
    ASSUME Core, Chosen, [FrontendNext]_frontendVars
    PROVE  Chosen'
<1>1. CASE UseConsole
  <2>a. console \in Page
    BY DEF Chosen
  <2>b. number \in Nat /\ stored \subseteq FactIds
        /\ loans \in [LoanIds -> Loan] /\ treasuryOwner \in [Addresses -> 0..MaxOriginators]
    BY DEF Core, TypeOK
  <2>c. /\ console.rows \in [LoanIds -> Loan] /\ console.facts \in SUBSET FactIds
        /\ console.owners \in [Addresses -> 0..MaxOriginators]
        /\ console.selected \in {0} \cup LoanIds /\ console.cited \in {Zero} \cup FactIds
    BY <2>a DEF Page
  <2>1. CASE \E l \in LoanIds : Select(l)
    <3>1. PICK l \in LoanIds :
             console' = [console EXCEPT !.selected = l, !.cited = Zero, !.tx = "none"]
      BY <2>1 DEF Select, Selected
    <3>2. PICK p, q : /\ p = [console EXCEPT !.selected = l]
                      /\ q = [p EXCEPT !.cited = Zero]
      OBVIOUS
    <3>3. console' = [q EXCEPT !.tx = "none"]
      BY <3>1, <3>2
    <3>4. p \in Page /\ q \in Page
      BY <2>a, <3>2, WriteSelected, WriteCited
    <3>5. console' \in Page /\ console'.tx = "none"
      BY <3>3, <3>4, WriteTx DEF Receipts
    <3>6. QED
      BY <3>5 DEF Chosen, Page
  <2>2. CASE \E l \in LoanIds : ReadLoanRow(l)
    <3>1. PICK l \in LoanIds : console' = [console EXCEPT !.rows[l] = loans[l]]
      BY <2>2 DEF ReadLoanRow
    <3>2. PICK rows : rows = [console.rows EXCEPT ![l] = loans[l]]
      OBVIOUS
    <3>3. rows \in [LoanIds -> Loan] /\ console' = [console EXCEPT !.rows = rows]
      BY <2>b, <2>c, <3>1, <3>2
    <3>4. QED
      BY <2>a, <3>3, WriteRows DEF Chosen
  <2>3. CASE \E f \in FactIds : Cite(f)
    <3>1. PICK f \in FactIds : console' = [console EXCEPT !.cited = f, !.tx = "none"]
      BY <2>3 DEF Cite
    <3>2. PICK p : p = [console EXCEPT !.cited = f]
      OBVIOUS
    <3>3. console' = [p EXCEPT !.tx = "none"]
      BY <3>1, <3>2
    <3>4. p \in Page
      BY <2>a, <3>2, WriteCited
    <3>5. console' \in Page /\ console'.tx = "none"
      BY <3>3, <3>4, WriteTx DEF Receipts
    <3>6. QED
      BY <3>5 DEF Chosen, Page
  <2>4. CASE \E f \in FactIds : ReadFact(f)
    <3>1. PICK f \in FactIds : console' = [console EXCEPT !.facts = @ \cup {f}]
      BY <2>4 DEF ReadFact
    <3>2. QED
      BY <2>a, <2>c, <3>1, WriteFacts DEF Chosen
  <2>5. CASE \E t \in Receipts : /\ console' = [console EXCEPT !.tx = t]
                               /\ console.selected # 0 /\ console.cited # Zero
    <3>1. PICK t \in Receipts : console' = [console EXCEPT !.tx = t]
      BY <2>5
    <3>2. /\ console' \in Page
          /\ console'.selected = console.selected /\ console'.cited = console.cited
      BY <2>a, <3>1, WriteTx
    <3>3. QED
      BY <2>5, <3>2 DEF Chosen, Page
  <2>6. CASE Submit \/ Wallet \/ MinedChallenge \/ MinedAndReverted
    <3>1. console.selected # 0 /\ console.cited # Zero
      BY <2>6 DEF Submit, Preview, Wallet, MinedChallenge, MinedAndReverted, Chosen
    <3>2. \E t \in Receipts : console' = [console EXCEPT !.tx = t]
      BY <2>6 DEF Submit, Wallet, MinedChallenge, MinedAndReverted, Receipts
    <3>3. QED
      BY <2>5, <3>1, <3>2
  <2>9. CASE ReadBlock
    BY <2>a, <2>b, <2>9, WriteBlock DEF Chosen, ReadBlock
  <2>10. CASE ReadOwner
    <3>1. console.cited \in FactIds
      BY <2>c, <2>10 DEF ReadOwner
    <3>2. Ledger[console.cited].from \in Addresses
      BY <3>1, LedgerAssumption DEF Transfer
    <3>3. PICK a \in Addresses : console' = [console EXCEPT !.owners[a] = treasuryOwner[a]]
      BY <2>10, <3>2 DEF ReadOwner
    <3>4. PICK owners : owners = [console.owners EXCEPT ![a] = treasuryOwner[a]]
      OBVIOUS
    <3>5. /\ owners \in [Addresses -> 0..MaxOriginators]
          /\ console' = [console EXCEPT !.owners = owners]
      BY <2>b, <2>c, <3>3, <3>4
    <3>6. QED
      BY <2>a, <3>5, WriteOwners DEF Chosen
  <2>11. QED
    BY <1>1, <2>1, <2>2, <2>3, <2>4, <2>6, <2>9, <2>10
    DEF UseConsole, ConsoleNext
<1>2. CASE ~UseConsole
  <2>1. UNCHANGED console
    BY <1>2 DEF FrontendNext, frontendVars, surfaces, World, CheckClearance, Collide,
                Include, MeasureCoverage
  <2>2. QED
    BY <2>1 DEF Chosen
<1>3. QED
  BY <1>1, <1>2

\* The contract is as sound with the frontend as without.
Sound ==
    /\ Core
    /\ Evidence
    /\ Standing
    /\ Broadcast
    /\ Chosen

LEMMA SoundInit == FrontendInit => Sound
<1> SUFFICES ASSUME FrontendInit PROVE Sound
  OBVIOUS
<1>1. Core /\ Evidence /\ Standing
  BY CoreInit, EvidenceInit, StandingInit DEF FrontendInit
<1>2. Broadcast
  BY DEF FrontendInit, SurfacesInit, CollisionInit, Broadcast, Flight, NoFlight, NoOutcome
<1>3. Chosen
  <2>1. NoLoan \in Loan
    BY InputAssumption DEF Loan, NoLoan, LoanStatus
  <2>2. 0 \in 0..MaxOriginators
    BY InputAssumption
  <2>3. console = NoConsole
    BY DEF FrontendInit, SurfacesInit, ConsoleInit
  <2>4. /\ [l \in LoanIds |-> NoLoan] \in [LoanIds -> Loan]
        /\ [a \in Addresses |-> 0] \in [Addresses -> 0..MaxOriginators]
    BY <2>1, <2>2
  <2>5. console \in Page
    <3>1. /\ 0 \in {0} \cup LoanIds /\ Zero \in {Zero} \cup FactIds
          /\ 0 \in Nat /\ {} \in SUBSET FactIds /\ "none" \in Receipts
      BY DEF Receipts
    <3>2. QED
      BY <2>3, <2>4, <3>1 DEF Page, NoConsole
  <2>6. console.tx = "none"
    BY <2>3 DEF NoConsole
  <2>7. QED
    BY <2>5, <2>6 DEF Chosen
<1>4. QED
  BY <1>1, <1>2, <1>3 DEF Sound

LEMMA SoundNext == Sound /\ [FrontendNext]_frontendVars => Sound'
<1> SUFFICES ASSUME Sound, [FrontendNext]_frontendVars PROVE Sound'
  OBVIOUS
<1>1. [Next]_vars
  BY BookMoves DEF Sound
<1>2. Core' /\ Evidence' /\ Standing'
  BY <1>1, CoreNext, EvidenceNext, StandingNext DEF Sound
<1>3. QED
  BY <1>2, BroadcastNext, ChosenNext DEF Sound

LEMMA SoundHolds == FrontendSpec => []Sound
<1>1. QED
  BY SoundInit, SoundNext, PTL DEF FrontendSpec

-----------------------------------------------------------------------------
(* The collision demonstration.                                            *)

\* Whatever happens between the simulation of collide/route.ts and the block that takes the
\* transaction, the demonstration commits nothing: its fact is spent for good before it is
\* sent, and no check before FactAlreadyUsed can come to fail.
THEOREM DemonstrationNeverCommits == FrontendSpec => []NeverCommits
<1>1. Sound => NeverCommits
  BY PinnedIsRefused DEF Sound, Broadcast, NeverCommits
<1>2. QED
  BY <1>1, SoundHolds, PTL

\* The refusal the route names is the one of the receipt, though it read it in the
\* simulation.
THEOREM ReportedRefusalIsTrue == FrontendSpec => []RefusalIsTheReported
<1>1. Sound => RefusalIsTheReported
  BY DEF Sound, Broadcast, RefusalIsTheReported
<1>2. QED
  BY <1>1, SoundHolds, PTL

-----------------------------------------------------------------------------
(* The clearance check.                                                    *)

Reasons == {"none", "malformed-hash", "not-found", "source-unreachable", "reverted",
            "no-transfer-log", "not-attested", "proof-unavailable", "proof-rejected"}

Sheet == [ step : Steps, tx : Hashes \cup {Zero}, present : SUBSET FactIds,
           asked : SUBSET FactIds, consumedBy : Seq(0..MaxLoans), free : SUBSET FactIds,
           outcome : Outcomes, reason : Reasons ]

\* While the consumers are asked: a leg that is still free was free when the questions went
\* out, a leg answered with a loan is consumed for good, and the legs answered with none
\* were free.
Asking(legs) ==
    /\ check.asked \subseteq legs
    /\ check.free \subseteq legs
    /\ \A f \in legs : factConsumedBy[f] = 0 => f \in check.free
    /\ AnyEncumbered(check.consumedBy) => \E f \in legs : factConsumedBy[f] # 0
    /\ ~AnyEncumbered(check.consumedBy) => legs \ check.asked \subseteq check.free

Checking ==
    /\ check \in Sheet
    /\ check.step # "idle" => check.tx \in Transactions /\ check.outcome = "none"
    /\ check.step \notin {"idle", "consumed"} => ~AnyEncumbered(check.consumedBy)
    /\ check.step = "consumed" => Asking(transferLegs[check.tx])
    /\ check.outcome \in {"clear", "encumbered"} => check.tx \in Transactions
    /\ AnswerHolds

LEMMA LegsTyped ==
    ASSUME NEW t \in Transactions
    PROVE  t \in Hashes /\ transferLegs[t] \subseteq FactIds
BY ClearanceAssumption

\* One more answer encumbers unless it is none.
LEMMA OneMoreAnswer ==
    ASSUME NEW answers \in Seq(0..MaxLoans), NEW v \in 0..MaxLoans
    PROVE  /\ Append(answers, v) \in Seq(0..MaxLoans)
           /\ AnyEncumbered(Append(answers, v)) <=> AnyEncumbered(answers) \/ v # 0
<1> DEFINE longer == Append(answers, v)
<1>1. /\ longer \in Seq(0..MaxLoans) /\ Len(longer) = Len(answers) + 1
      /\ \A i \in 1..Len(answers) : longer[i] = answers[i]
      /\ longer[Len(answers) + 1] = v
  BY AppendProperties
<1>2. Len(answers) \in Nat /\ DOMAIN answers = 1..Len(answers)
  OBVIOUS
<1> HIDE DEF longer
<1>3. DOMAIN longer = 1..(Len(answers) + 1)
  BY <1>1
<1>4. AnyEncumbered(longer) <=> \E i \in 1..(Len(answers) + 1) : longer[i] # 0
  BY <1>3 DEF AnyEncumbered, Encumbering
<1>5. AnyEncumbered(answers) <=> \E i \in 1..Len(answers) : answers[i] # 0
  BY <1>2 DEF AnyEncumbered, Encumbering
<1>6. QED
  BY <1>1, <1>2, <1>4, <1>5 DEF longer

LEMMA UnverifiableIsHarmless ==
    ASSUME Checking, NEW reason \in Reasons, Unverifiable(reason)
    PROVE  Checking'
<1>1. check' = [ step |-> "idle", tx |-> check.tx, present |-> {}, asked |-> {},
                 consumedBy |-> <<>>, free |-> {}, outcome |-> "unverifiable",
                 reason |-> reason ]
  BY DEF Unverifiable, NoCheck
<1>2. <<>> \in Seq(0..MaxLoans)
  OBVIOUS
<1>3. check.tx \in Hashes \cup {Zero}
  BY DEF Checking, Sheet
<1>4. check' \in Sheet
  BY <1>1, <1>2, <1>3 DEF Sheet, Steps, Outcomes
<1>5. QED
  BY <1>1, <1>4 DEF Checking, AnswerHolds

\* Before the consumers are asked there is nothing to be right about.
LEMMA EarlySteps ==
    ASSUME Checking, check.step \notin {"idle", "consumed"},
           check' \in Sheet, check'.tx = check.tx, check'.outcome = check.outcome,
           check'.consumedBy = check.consumedBy, check'.step # "consumed"
    PROVE  Checking'
BY DEF Checking, AnswerHolds

LEMMA CheckingStep ==
    ASSUME Core, Checking, ClearanceNext, UNCHANGED vars
    PROVE  Checking'
<1>0. check \in Sheet
  BY DEF Checking
<1>1. CASE \E hash \in Hashes : Run(hash)
  <2>1. PICK hash \in Hashes : Run(hash)
    BY <1>1
  <2>2. <<>> \in Seq(0..MaxLoans)
    OBVIOUS
  <2>3. CASE hash \in Transactions
    <3>1. check' = [ step |-> "locate", tx |-> hash, present |-> {}, asked |-> {},
                     consumedBy |-> <<>>, free |-> {}, outcome |-> "none",
                     reason |-> "none" ]
      BY <2>1, <2>3 DEF Run, NoCheck
    <3>2. check' \in Sheet
      BY <2>2, <3>1 DEF Sheet, Steps, Outcomes, Reasons
    <3>3. ~AnyEncumbered(<<>>)
      BY DEF AnyEncumbered, Encumbering
    <3>4. QED
      BY <2>3, <3>1, <3>2, <3>3 DEF Checking, AnswerHolds
  <2>4. CASE hash \notin Transactions
    <3>1. check' = [ step |-> "idle", tx |-> hash, present |-> {}, asked |-> {},
                     consumedBy |-> <<>>, free |-> {}, outcome |-> "unverifiable",
                     reason |-> "malformed-hash" ]
      BY <2>1, <2>4 DEF Run, NoCheck
    <3>2. check' \in Sheet
      BY <2>2, <3>1 DEF Sheet, Steps, Outcomes, Reasons
    <3>3. QED
      BY <3>1, <3>2 DEF Checking, AnswerHolds
  <2>5. QED
    BY <2>3, <2>4
<1>2. CASE \E reason \in Reasons : Unverifiable(reason)
  BY <1>2, UnverifiableIsHarmless
<1>3. CASE /\ check.step \notin {"idle", "consumed"}
           /\ \E step \in Steps \ {"consumed"} : GoTo(step)
  BY <1>0, <1>3, EarlySteps DEF GoTo, Sheet
<1>4. CASE VerifyOnChain
  <2>1. CASE check' = [check EXCEPT !.step = "registry", !.asked = transferLegs[check.tx]]
    <3>1. check.step = "verify"
      BY <1>4 DEF VerifyOnChain
    <3>2. transferLegs[check.tx] \subseteq FactIds
      BY <3>1, LegsTyped DEF Checking
    <3>3. QED
      BY <1>0, <2>1, <3>1, <3>2, EarlySteps DEF Sheet, Steps
  <2>2. QED
    BY <1>2, <1>4, <2>1 DEF VerifyOnChain, Reasons
<1>5. CASE Exists
  <2>1. PICK f \in check.asked :
          check' = [check EXCEPT !.asked = @ \ {f},
                                 !.present = IF f \in stored THEN @ \cup {f} ELSE @]
    BY <1>5 DEF Exists
  <2>2. check.step = "registry" /\ f \in FactIds
    BY <1>0, <1>5 DEF Exists, Sheet
  <2>3. QED
    BY <1>0, <2>1, <2>2, EarlySteps DEF Sheet
<1>6. CASE AskConsumers
  <2> DEFINE legs == transferLegs[check.tx]
             open == {f \in legs : factConsumedBy[f] = 0}
  <2>1. check.step = "registry" /\ check.tx \in Transactions /\ check.outcome = "none"
    BY <1>6 DEF AskConsumers, Checking
  <2>2. legs \in SUBSET FactIds /\ open \in SUBSET FactIds
    BY <2>1, LegsTyped
  <2>3. check' = [check EXCEPT !.step = "consumed", !.asked = legs, !.free = open]
    BY <1>6 DEF AskConsumers
  <2>4. /\ check' \in Sheet /\ check'.step = "consumed" /\ check'.tx = check.tx
        /\ check'.asked = legs /\ check'.free = open /\ check'.outcome = "none"
        /\ check'.consumedBy = check.consumedBy
    <3> HIDE DEF legs, open
    <3>1. QED
      BY <1>0, <2>1, <2>2, <2>3 DEF Sheet, Steps
  <2>5. ~AnyEncumbered(check.consumedBy)
    BY <2>1 DEF Checking
  <2>6. Asking(legs)'
    BY <1>6, <2>4, <2>5 DEF Asking, vars, loanBook
  <2>7. QED
    BY <2>1, <2>4, <2>6 DEF Checking, AnswerHolds
<1>7. CASE FactConsumedBy
  <2> DEFINE legs == transferLegs[check.tx]
  <2>1. PICK f \in check.asked :
          check' = [check EXCEPT !.asked = @ \ {f},
                                 !.consumedBy = Append(@, factConsumedBy[f])]
    BY <1>7 DEF FactConsumedBy
  <2>2. check.step = "consumed" /\ Asking(legs) /\ check.tx \in Transactions
        /\ check.outcome = "none"
    BY <1>7 DEF FactConsumedBy, Checking
  <2>3. f \in FactIds /\ f \in legs /\ factConsumedBy[f] \in 0..MaxLoans
    BY <1>0, <2>2, LoansTyped DEF Sheet, Asking
  <2>4. PICK answers : answers = Append(check.consumedBy, factConsumedBy[f])
    OBVIOUS
  <2>5. /\ answers \in Seq(0..MaxLoans)
        /\ AnyEncumbered(answers) <=> AnyEncumbered(check.consumedBy) \/ factConsumedBy[f] # 0
    BY <1>0, <2>3, <2>4, OneMoreAnswer DEF Sheet
  <2>6. check' = [check EXCEPT !.asked = check.asked \ {f}, !.consumedBy = answers]
    BY <1>0, <2>1, <2>4
  <2>7. /\ check' \in Sheet /\ check'.step = "consumed" /\ check'.tx = check.tx
        /\ check'.asked = check.asked \ {f} /\ check'.free = check.free
        /\ check'.outcome = "none" /\ check'.consumedBy = answers
    BY <1>0, <2>2, <2>5, <2>6 DEF Sheet
  <2>8. UNCHANGED factConsumedBy
    BY DEF vars, loanBook
  <2>9. Asking(legs)'
    BY <2>2, <2>3, <2>5, <2>7, <2>8 DEF Asking
  <2>10. QED
    BY <2>2, <2>7, <2>9 DEF Checking, AnswerHolds
<1>8. CASE Answer
  <2> DEFINE legs == transferLegs[check.tx]
             verdict == IF AnyEncumbered(check.consumedBy) THEN "encumbered" ELSE "clear"
  <2>1. /\ check.step = "consumed" /\ Asking(legs) /\ check.tx \in Transactions
        /\ check.asked = {}
    BY <1>8 DEF Answer, Checking
  <2>2. /\ check' \in Sheet /\ check'.step = "idle" /\ check'.tx = check.tx
        /\ check'.free = check.free /\ check'.outcome = verdict
    BY <1>0, <1>8 DEF Answer, Sheet, Steps, Outcomes
  <2>3. UNCHANGED factConsumedBy
    BY DEF vars, loanBook
  <2>4. CASE AnyEncumbered(check.consumedBy)
    <3>1. verdict = "encumbered" /\ \E f \in legs : factConsumedBy[f] # 0
      BY <2>1, <2>4 DEF Asking
    <3>2. QED
      BY <2>1, <2>2, <2>3, <3>1 DEF Checking, AnswerHolds
  <2>5. CASE ~AnyEncumbered(check.consumedBy)
    <3>1. verdict = "clear" /\ check.free = legs
      BY <2>1, <2>5 DEF Asking
    <3>2. QED
      BY <2>1, <2>2, <2>3, <3>1 DEF Checking, AnswerHolds
  <2>6. QED
    BY <2>4, <2>5
<1>9. CASE Locate \/ ChainKey \/ Attested \/ FetchProof \/ ReadThrows
  <2>1. \/ \E reason \in Reasons : Unverifiable(reason)
        \/ /\ check.step \notin {"idle", "consumed"}
           /\ \E step \in Steps \ {"consumed"} : GoTo(step)
    BY <1>9 DEF Locate, ChainKey, Attested, FetchProof, ReadThrows, Reasons, Steps
  <2>2. QED
    BY <1>2, <1>3, <2>1
<1>10. QED
  BY <1>1, <1>4, <1>5, <1>6, <1>7, <1>8, <1>9 DEF ClearanceNext

\* The book may move on: no consumed leg becomes free.
LEMMA CheckingMeanwhile ==
    ASSUME Core, Checking, [Next]_vars, UNCHANGED check
    PROVE  Checking'
<1>1. \A f \in FactIds : factConsumedBy[f] # 0 => factConsumedBy'[f] # 0
  BY StepsOf, SpentStaysSpent
<1>2. ASSUME check.tx \in Transactions
      PROVE  \A f \in transferLegs[check.tx] :
                factConsumedBy[f] # 0 => factConsumedBy'[f] # 0
  BY <1>1, <1>2, LegsTyped
<1>3. ASSUME check.step = "consumed" PROVE Asking(transferLegs[check.tx])'
  <2>1. Asking(transferLegs[check.tx]) /\ check.tx \in Transactions
    BY <1>3 DEF Checking
  <2>2. QED
    BY <1>2, <2>1 DEF Asking
<1>4. AnswerHolds'
  BY <1>2 DEF Checking, AnswerHolds
<1>5. QED
  BY <1>3, <1>4 DEF Checking

\* clearance.ts is right about a book that moves while its legs are read: CLEAR means that
\* no leg was consumed at one moment of this check, ENCUMBERED that one is for ever.
THEOREM ClearanceAnswersHold == FrontendSpec => []AnswerHolds
<1>1. FrontendInit => Checking
  <2> SUFFICES ASSUME FrontendInit PROVE Checking
    OBVIOUS
  <2>1. check = NoCheck
    BY DEF FrontendInit, SurfacesInit, ClearanceInit
  <2>2. <<>> \in Seq(0..MaxLoans)
    OBVIOUS
  <2>3. QED
    BY <2>1, <2>2 DEF NoCheck, Checking, AnswerHolds, Sheet, Steps, Outcomes, Reasons
<1>2. Sound /\ Checking /\ [FrontendNext]_frontendVars => Checking'
  <2> SUFFICES ASSUME Sound, Checking, [FrontendNext]_frontendVars PROVE Checking'
    OBVIOUS
  <2>1. [Next]_vars
    BY BookMoves DEF Sound
  <2>2. CASE CheckClearance
    BY <2>2, CheckingStep DEF CheckClearance, Sound
  <2>3. CASE ~CheckClearance
    <3>1. UNCHANGED check
      BY <2>3 DEF FrontendNext, frontendVars, surfaces, World, Collide, Include,
                  MeasureCoverage, UseConsole
    <3>2. QED
      BY <2>1, <3>1, CheckingMeanwhile DEF Sound
  <2>4. QED
    BY <2>2, <2>3
<1>3. Checking => AnswerHolds
  BY DEF Checking
<1>4. QED
  BY <1>1, <1>2, <1>3, SoundHolds, PTL DEF FrontendSpec

-----------------------------------------------------------------------------
(* The limits of the demonstration.                                        *)

Sends == Callers \X (0..MaxTime)

SentIn(sent, a, b) == {i \in DOMAIN sent : sent[i][2] \in a..b}

\* With n sends counted since h: the window has not seen more, the hour before it no more
\* than the cap, and no send is later than the window's end.
Counted(sent, h, n) ==
    /\ h \in 0..MaxTime
    /\ n \in Nat /\ n <= GLOBAL_HOURLY_CAP
    /\ \A i \in DOMAIN sent : sent[i][2] <= h + HOUR
    /\ Cardinality(SentIn(sent, h, MaxTime)) <= n
    /\ Cardinality(SentIn(sent, h - HOUR, h - 1)) <= GLOBAL_HOURLY_CAP

Capped(sent) ==
    \A t \in 0..MaxTime :
        Cardinality(SentIn(sent, t, t + HOUR)) <= 2 * GLOBAL_HOURLY_CAP

LEMMA ClockAssumption ==
    /\ PER_IP_COOLDOWN_MS \in Nat /\ GLOBAL_HOURLY_CAP \in Nat
    /\ HOUR \in Nat /\ MaxTime \in Nat
BY CollisionAssumption

LEMMA SentTyped ==
    ASSUME NEW sent \in Seq(Sends)
    PROVE  /\ Len(sent) \in Nat /\ DOMAIN sent = 1..Len(sent)
           /\ \A i \in DOMAIN sent : sent[i][1] \in Callers /\ sent[i][2] \in 0..MaxTime
           /\ \A a, b : IsFiniteSet(SentIn(sent, a, b))
           /\ \A a, b : Cardinality(SentIn(sent, a, b)) \in Nat
<1>1. Len(sent) \in Nat /\ DOMAIN sent = 1..Len(sent)
  OBVIOUS
<1>2. \A i \in DOMAIN sent : sent[i] \in Sends
  OBVIOUS
<1>3. \A i \in DOMAIN sent : sent[i][1] \in Callers /\ sent[i][2] \in 0..MaxTime
  BY <1>2 DEF Sends
<1>4. IsFiniteSet(1..Len(sent))
  BY <1>1, FS_Interval
<1>5. \A a, b : SentIn(sent, a, b) \in SUBSET (1..Len(sent))
  BY <1>1 DEF SentIn
<1>6. \A a, b : IsFiniteSet(SentIn(sent, a, b))
  BY <1>4, <1>5, FS_Subset
<1>7. \A a, b : Cardinality(SentIn(sent, a, b)) \in Nat
  BY <1>6, FS_CardinalityType
<1>8. QED
  BY <1>1, <1>3, <1>6, <1>7

LEMMA FewerSent ==
    ASSUME NEW sent \in Seq(Sends), NEW a, NEW b, NEW c, NEW d,
           SentIn(sent, a, b) \subseteq SentIn(sent, c, d)
    PROVE  Cardinality(SentIn(sent, a, b)) <= Cardinality(SentIn(sent, c, d))
BY SentTyped, FS_Subset

\* Asking for the limit moves the window when it is over, and forgets nothing that counts.
LEMMA WindowMoves ==
    ASSUME NEW sent \in Seq(Sends), NEW h, NEW n, Counted(sent, h, n),
           NEW t \in 0..MaxTime, t - h > HOUR, \A i \in DOMAIN sent : sent[i][2] <= t
    PROVE  Counted(sent, t, 0)
<1>1. h \in Nat /\ n \in Nat /\ t \in Nat
  BY ClockAssumption DEF Counted
<1>2. SentIn(sent, t, MaxTime) = {}
  BY <1>1, ClockAssumption, SentTyped DEF SentIn, Counted
<1>3. Cardinality(SentIn(sent, t, MaxTime)) = 0
  BY <1>2, FS_EmptySet
<1>4. SentIn(sent, t - HOUR, t - 1) \subseteq SentIn(sent, h, MaxTime)
  BY <1>1, ClockAssumption, SentTyped DEF SentIn
<1>5. Cardinality(SentIn(sent, t - HOUR, t - 1)) <= GLOBAL_HOURLY_CAP
  <2>1. Cardinality(SentIn(sent, t - HOUR, t - 1)) <= Cardinality(SentIn(sent, h, MaxTime))
    BY <1>4, FewerSent
  <2>2. /\ Cardinality(SentIn(sent, t - HOUR, t - 1)) \in Nat
        /\ Cardinality(SentIn(sent, h, MaxTime)) \in Nat
    BY SentTyped
  <2>3. QED
    BY <1>1, <2>1, <2>2, ClockAssumption DEF Counted
<1>6. QED
  BY SMTT(30), <1>1, <1>3, <1>5, ClockAssumption, SentTyped DEF Counted

\* One more send at time t.
LEMMA OneMoreSend ==
    ASSUME NEW sent \in Seq(Sends), NEW c \in Callers, NEW t \in 0..MaxTime,
           NEW more, more = Append(sent, <<c, t>>)
    PROVE  /\ more \in Seq(Sends)
           /\ DOMAIN more = 1..(Len(sent) + 1) /\ Len(sent) + 1 \notin DOMAIN sent
           /\ \A i \in DOMAIN sent : i \in DOMAIN more /\ more[i] = sent[i]
           /\ more[Len(sent) + 1] = <<c, t>>
           /\ \A i \in DOMAIN more : i \in DOMAIN sent \/ i = Len(sent) + 1
<1>1. <<c, t>> \in Sends
  BY DEF Sends
<1>2. /\ more \in Seq(Sends) /\ Len(more) = Len(sent) + 1
      /\ \A i \in 1..Len(sent) : more[i] = sent[i]
      /\ more[Len(sent) + 1] = <<c, t>>
  BY <1>1, AppendProperties
<1>3. Len(sent) \in Nat /\ DOMAIN sent = 1..Len(sent)
  BY SentTyped
<1>4. /\ DOMAIN more = 1..(Len(sent) + 1) /\ Len(sent) + 1 \notin DOMAIN sent
      /\ \A i \in DOMAIN sent : i \in DOMAIN more /\ more[i] = sent[i]
      /\ \A i \in DOMAIN more : i \in DOMAIN sent \/ i = Len(sent) + 1
      /\ Len(sent) + 1 \in DOMAIN more
  BY <1>2, <1>3
<1>5. QED
  BY <1>2, <1>4

LEMMA SendCounts ==
    ASSUME NEW sent \in Seq(Sends), NEW h, NEW n, Counted(sent, h, n), Capped(sent),
           n < GLOBAL_HOURLY_CAP, NEW c \in Callers, NEW t \in 0..MaxTime,
           h <= t, t - h <= HOUR,
           NEW more, more = Append(sent, <<c, t>>)
    PROVE  Counted(more, h, n + 1) /\ Capped(more)
<1>1. /\ h \in Nat /\ n \in Nat /\ t \in Nat
      /\ Cardinality(SentIn(sent, h, MaxTime)) \in Nat
  BY ClockAssumption, SentTyped DEF Counted
<1>2. more \in Seq(Sends)
  BY OneMoreSend
<1>m. /\ \A i \in DOMAIN sent : i \in DOMAIN more /\ more[i] = sent[i]
      /\ \A i \in DOMAIN more : i \in DOMAIN sent \/ i = Len(sent) + 1
  BY OneMoreSend
<1>n. more[Len(sent) + 1][2] = t /\ Len(sent) + 1 \in DOMAIN more
  <2>1. Len(sent) \in Nat
    BY SentTyped
  <2>2. QED
    BY <2>1, OneMoreSend
<1>3. Cardinality(SentIn(more, h, MaxTime)) <= n + 1
  <2>1. t \in h..MaxTime
    BY <1>1, ClockAssumption
  <2>2. SentIn(more, h, MaxTime) = SentIn(sent, h, MaxTime) \cup {Len(sent) + 1}
    BY <2>1, <1>m, <1>n DEF SentIn
  <2>f. IsFiniteSet(SentIn(sent, h, MaxTime))
    BY SentTyped
  <2>3. Cardinality(SentIn(more, h, MaxTime)) <= Cardinality(SentIn(sent, h, MaxTime)) + 1
    <3> DEFINE before == SentIn(sent, h, MaxTime)
               last == Len(sent) + 1
    <3>1. IsFiniteSet(before) /\ Cardinality(before) \in Nat
      BY <1>1, <2>f
    <3> HIDE DEF before, last
    <3>2. /\ Cardinality(before \cup {last}) = Cardinality(before)
             \/ Cardinality(before \cup {last}) = Cardinality(before) + 1
      BY <3>1, FS_AddElement
    <3>3. Cardinality(before \cup {last}) <= Cardinality(before) + 1
      BY <3>1, <3>2
    <3>4. QED
      BY <2>2, <3>3 DEF before, last
  <2>4. Cardinality(SentIn(more, h, MaxTime)) \in Nat
    BY <1>2, SentTyped
  <2>5. QED
    BY <1>1, <2>3, <2>4 DEF Counted
<1>4. SentIn(more, h - HOUR, h - 1) = SentIn(sent, h - HOUR, h - 1)
  <2>1. t \notin (h - HOUR)..(h - 1)
    BY <1>1, ClockAssumption
  <2>2. QED
    BY <2>1, <1>m, <1>n DEF SentIn
<1>5. \A i \in DOMAIN more : more[i][2] <= h + HOUR
  <2>1. t <= h + HOUR
    BY <1>1, ClockAssumption
  <2>2. QED
    BY <2>1, OneMoreSend DEF Counted
<1>6. Counted(more, h, n + 1)
  BY <1>1, <1>3, <1>4, <1>5, ClockAssumption DEF Counted
<1>7. ASSUME NEW u \in 0..MaxTime
      PROVE  Cardinality(SentIn(more, u, u + HOUR)) <= 2 * GLOBAL_HOURLY_CAP
  <2>1. CASE t \notin u..(u + HOUR)
    <3>1. SentIn(more, u, u + HOUR) = SentIn(sent, u, u + HOUR)
      BY <2>1, <1>m, <1>n DEF SentIn
    <3>2. QED
      BY <3>1 DEF Capped
  <2>2. CASE t \in u..(u + HOUR)
    <3> DEFINE late == SentIn(more, h, MaxTime)
               early == SentIn(more, h - HOUR, h - 1)
               span == SentIn(more, u, u + HOUR)
    <3>1. span \subseteq late \cup early
      BY <1>1, <1>2, <2>2, ClockAssumption, SentTyped DEF SentIn
    <3>2. IsFiniteSet(late) /\ IsFiniteSet(early)
      BY <1>2, SentTyped
    <3>3. /\ Cardinality(late) \in Nat /\ Cardinality(early) \in Nat
          /\ Cardinality(span) \in Nat
      BY <1>2, SentTyped
    <3>4. Cardinality(late) <= n + 1 /\ Cardinality(early) <= GLOBAL_HOURLY_CAP
      BY <1>3, <1>4 DEF Counted
    <3> HIDE DEF late, early, span
    <3>5. IsFiniteSet(late \cap early) /\ Cardinality(late \cap early) \in Nat
      BY <3>2, FS_Subset, FS_CardinalityType
    <3>6. /\ IsFiniteSet(late \cup early)
          /\ Cardinality(late \cup early)
               = Cardinality(late) + Cardinality(early) - Cardinality(late \cap early)
      BY <3>2, FS_Union
    <3>7. Cardinality(span) <= Cardinality(late \cup early)
      BY <3>1, <3>6, FS_Subset
    <3>8. Cardinality(span) <= 2 * GLOBAL_HOURLY_CAP
      BY <1>1, <3>3, <3>4, <3>5, <3>6, <3>7, ClockAssumption
    <3>9. QED
      BY <3>8 DEF span
  <2>3. QED
    BY <2>1, <2>2
<1>8. QED
  BY <1>6, <1>7 DEF Capped

\* What is remembered of the sends is true of all of them.
Paced ==
    /\ now \in 0..MaxTime /\ hourWindowStart <= now
    /\ lastSeen \in [Callers -> 0..(MaxTime + 1)]
    /\ started \in Seq(Sends)
    /\ Counted(started, hourWindowStart, hourCount)
    /\ Capped(started)
    /\ \A i \in DOMAIN started :
          /\ started[i][2] <= now
          /\ lastSeen[started[i][1]] # Never
          /\ started[i][2] <= lastSeen[started[i][1]]
    /\ \A i, j \in DOMAIN started :
          i < j /\ started[i][1] = started[j][1] =>
            started[j][2] - started[i][2] >= PER_IP_COOLDOWN_MS

LEMMA PacedInit == CollisionInit => Paced
<1> SUFFICES ASSUME CollisionInit PROVE Paced
  OBVIOUS
<1>1. /\ now = 0 /\ hourWindowStart = 0 /\ hourCount = 0 /\ started = <<>>
      /\ lastSeen = [c \in Callers |-> Never]
  BY DEF CollisionInit
<1>2. started \in Seq(Sends) /\ DOMAIN started = {}
  BY <1>1
<1>3. \A a, b : SentIn(started, a, b) = {}
  BY <1>2 DEF SentIn
<1>4. \A a, b : Cardinality(SentIn(started, a, b)) = 0
  BY <1>3, FS_EmptySet
<1>5. Counted(started, 0, 0) /\ Capped(started)
  BY <1>2, <1>4, ClockAssumption DEF Counted, Capped
<1>6. lastSeen \in [Callers -> 0..(MaxTime + 1)]
  BY <1>1, ClockAssumption DEF Never
<1>7. QED
  BY <1>1, <1>2, <1>5, <1>6, ClockAssumption DEF Paced

LEMMA WindowIsRead ==
    ASSUME Paced, WindowRead
    PROVE  /\ Counted(started, hourWindowStart', CountInWindow)
           /\ hourWindowStart' <= now /\ now - hourWindowStart' <= HOUR
<1>1. /\ now \in Nat /\ hourWindowStart \in Nat /\ hourWindowStart <= now
  BY ClockAssumption DEF Paced, Counted
<1>2. CASE WindowExpired
  <2>1. hourWindowStart' = now /\ CountInWindow = 0
    BY <1>2 DEF WindowRead, CountInWindow
  <2>2. Counted(started, now, 0)
    BY <1>2, WindowMoves DEF Paced, WindowExpired
  <2>3. QED
    BY <1>1, <2>1, <2>2, ClockAssumption
<1>3. CASE ~WindowExpired
  <2>1. hourWindowStart' = hourWindowStart /\ CountInWindow = hourCount
    BY <1>3 DEF WindowRead, CountInWindow
  <2>2. QED
    BY <1>1, <1>3, <2>1, ClockAssumption DEF Paced, WindowExpired
<1>4. QED
  BY <1>2, <1>3

LEMMA PostWaitsPaced ==
    ASSUME Paced, NEW c \in Callers, PostWaits(c)
    PROVE  Paced'
<1>1. /\ WindowRead /\ hourCount' = CountInWindow
      /\ UNCHANGED <<now, lastSeen, started>>
  BY DEF PostWaits
<1>2. Counted(started, hourWindowStart', hourCount') /\ hourWindowStart' <= now
  BY <1>1, WindowIsRead
<1>3. QED
  BY <1>1, <1>2 DEF Paced, Never

LEMMA PostStartsPaced ==
    ASSUME Paced, NEW c \in Callers, PostStarts(c)
    PROVE  Paced'
<1>1. /\ WindowRead /\ hourCount' = CountInWindow + 1
      /\ lastSeen' = [lastSeen EXCEPT ![c] = now]
      /\ started' = Append(started, <<c, now>>) /\ now' = now
      /\ ~(CountInWindow >= GLOBAL_HOURLY_CAP) /\ ~Cooling(c)
  BY DEF PostStarts, rateLimited
<1>2. /\ Counted(started, hourWindowStart', CountInWindow)
      /\ hourWindowStart' <= now /\ now - hourWindowStart' <= HOUR
  BY <1>1, WindowIsRead
<1>3. CountInWindow < GLOBAL_HOURLY_CAP
  BY <1>1, <1>2, ClockAssumption DEF Counted
<1>4. /\ now \in 0..MaxTime /\ started \in Seq(Sends) /\ Capped(started)
      /\ lastSeen \in [Callers -> 0..(MaxTime + 1)]
  BY DEF Paced
<1>5. Counted(started', hourWindowStart', hourCount') /\ Capped(started')
  BY <1>1, <1>2, <1>3, <1>4, SendCounts
<1>6. /\ \A i \in DOMAIN started : i \in DOMAIN started' /\ started'[i] = started[i]
      /\ \A i \in DOMAIN started' : i \in DOMAIN started \/ i = Len(started) + 1
      /\ started'[Len(started) + 1] = <<c, now>>
      /\ started' \in Seq(Sends)
  <2>1. started' = Append(started, <<c, now>>)
    BY <1>1
  <2>2. started \in Seq(Sends) /\ now \in 0..MaxTime
    BY <1>4
  <2>3. started' \in Seq(Sends)
    BY <2>1, <2>2, OneMoreSend
  <2>4. /\ \A i \in DOMAIN started : i \in DOMAIN started' /\ started'[i] = started[i]
        /\ \A i \in DOMAIN started' : i \in DOMAIN started \/ i = Len(started) + 1
    BY <2>1, <2>2, OneMoreSend
  <2>5. started'[Len(started) + 1] = <<c, now>>
    BY <2>1, <2>2, OneMoreSend
  <2>6. QED
    BY <2>3, <2>4, <2>5
<1>7. \A i \in DOMAIN started :
        /\ started[i][1] \in Callers /\ started[i][2] \in Nat
        /\ i \in 1..Len(started)
  BY <1>4, SentTyped, ClockAssumption
<1>8. Len(started) \in Nat
  BY <1>4, SentTyped
<1>9. lastSeen' \in [Callers -> 0..(MaxTime + 1)] /\ lastSeen'[c] = now
  BY <1>1, <1>4, ClockAssumption
<1>10. \A d \in Callers : lastSeen'[d] = IF d = c THEN now ELSE lastSeen[d]
  BY <1>1, <1>4
<1>11. ASSUME NEW i \in DOMAIN started'
       PROVE  /\ started'[i][2] <= now' /\ lastSeen'[started'[i][1]] # Never'
              /\ started'[i][2] <= lastSeen'[started'[i][1]]
  <2>1. Never' = Never /\ now # Never /\ now \in Nat
    BY <1>4, ClockAssumption DEF Never
  <2>2. CASE i = Len(started) + 1
    BY <1>1, <1>6, <1>9, <2>1, <2>2
  <2>3. CASE i \in DOMAIN started
    <3>1. started'[i] = started[i] /\ started[i][1] \in Callers
      BY <1>6, <1>7, <2>3
    <3>2. /\ started[i][2] <= now /\ lastSeen[started[i][1]] # Never
          /\ started[i][2] <= lastSeen[started[i][1]]
      BY <2>3 DEF Paced
    <3>3. QED
      BY <1>1, <1>10, <2>1, <3>1, <3>2
  <2>4. QED
    BY <1>6, <2>2, <2>3
<1>12. ASSUME NEW i \in DOMAIN started', NEW j \in DOMAIN started',
              i < j, started'[i][1] = started'[j][1]
       PROVE  started'[j][2] - started'[i][2] >= PER_IP_COOLDOWN_MS
  <2>1. i \in DOMAIN started
    BY <1>6, <1>7, <1>8, <1>12
  <2>2. started'[i] = started[i]
    BY <1>6, <2>1
  <2>3. CASE j \in DOMAIN started
    BY <1>6, <1>12, <2>1, <2>2, <2>3 DEF Paced
  <2>4. CASE j = Len(started) + 1
    <3>1. started'[j] = <<c, now>> /\ started[i][1] = c
      BY <1>6, <1>12, <2>2, <2>4
    <3>2. lastSeen[c] # Never /\ started[i][2] <= lastSeen[c]
      BY <2>1, <3>1 DEF Paced
    <3>3. ~(now - lastSeen[c] < PER_IP_COOLDOWN_MS)
      BY <1>1, <3>2 DEF Cooling
    <3>4. lastSeen[c] \in Nat /\ now \in Nat /\ started[i][2] \in Nat
      BY <1>4, <1>7, <2>1, ClockAssumption
    <3>5. now - started[i][2] >= PER_IP_COOLDOWN_MS
      BY <3>2, <3>3, <3>4, ClockAssumption
    <3>6. QED
      BY <2>2, <3>1, <3>5
  <2>5. QED
    BY <1>6, <2>3, <2>4
<1>13. QED
  <2>1. now' \in 0..MaxTime /\ hourWindowStart' <= now'
    BY <1>1, <1>2, <1>4
  <2>2. QED
    BY <2>1, <1>5, <1>6, <1>9, <1>11, <1>12 DEF Paced

LEMMA PassTimePaced ==
    ASSUME Paced, PassTime
    PROVE  Paced'
<1>1. now < MaxTime /\ now' = now + 1 /\ UNCHANGED limits
  BY DEF PassTime
<1>2. /\ now \in Nat /\ hourWindowStart \in Nat
      /\ \A i \in DOMAIN started : started[i][2] \in Nat
  BY SentTyped, ClockAssumption DEF Paced, Counted
<1>3. now' \in 0..MaxTime /\ hourWindowStart <= now'
  BY <1>1, <1>2, ClockAssumption DEF Paced
<1>4. \A i \in DOMAIN started : started[i][2] <= now'
  BY <1>1, <1>2 DEF Paced
<1>5. QED
  BY <1>1, <1>3, <1>4 DEF Paced, limits, Never

\* One send per caller per minute; twice the cap in no span of an hour.
THEOREM SendsHaveLimits == FrontendSpec => []SendsAreSpaced
<1>1. FrontendInit => Paced
  BY PacedInit DEF FrontendInit, SurfacesInit
<1>2. Paced /\ [FrontendNext]_frontendVars => Paced'
  <2> SUFFICES ASSUME Paced, [FrontendNext]_frontendVars PROVE Paced'
    OBVIOUS
  <2>1. CASE UNCHANGED <<now, limits>>
    BY <2>1 DEF Paced, limits, Never
  <2>2. CASE Serve /\ ~UNCHANGED <<now, limits>>
    <3>1. (\E c \in Callers : PostWaits(c) \/ PostStarts(c)) \/ PassTime
      BY <2>2 DEF Serve, Simulate, Send, Timeout
    <3>2. QED
      BY <3>1, PostWaitsPaced, PostStartsPaced, PassTimePaced
  <2>3. Serve \/ UNCHANGED <<now, limits>>
    BY DEF FrontendNext, frontendVars, surfaces, collisionVars, World, CheckClearance,
           Collide, Include, Mined, MeasureCoverage, UseConsole
  <2>4. QED
    BY <2>1, <2>2, <2>3
<1>3. Paced => SendsAreSpaced
  BY DEF Paced, Capped, SentIn, SendsAreSpaced
<1>4. QED
  BY <1>1, <1>2, <1>3, PTL DEF FrontendSpec

-----------------------------------------------------------------------------
(* The challenge console.                                                  *)

\* What one step of the page does to what it remembers.
LEMMA PageSteps ==
    ASSUME Core, Chosen, [FrontendNext]_frontendVars
    PROVE  /\ \A l \in LoanIds : console'.rows[l] \in {console.rows[l], loans[l]}
           /\ console'.facts \subseteq console.facts \cup stored
           /\ \A a \in Addresses :
                console'.owners[a] \in {console.owners[a], treasuryOwner[a]}
           /\ console'.tx = "mined" =>
                /\ console'.selected = console.selected
                /\ \/ console.tx = "mined"
                   \/ challenge(Visitor, console.selected, console.cited)
<1>a. console \in Page
  BY DEF Chosen
<1>b. /\ loans \in [LoanIds -> Loan] /\ treasuryOwner \in [Addresses -> 0..MaxOriginators]
      /\ number \in Nat
  BY DEF Core, TypeOK
<1>c. /\ console.rows \in [LoanIds -> Loan] /\ console.facts \in SUBSET FactIds
      /\ console.owners \in [Addresses -> 0..MaxOriginators]
      /\ console.selected \in {0} \cup LoanIds /\ console.cited \in {Zero} \cup FactIds
  BY <1>a DEF Page
<1> DEFINE CacheKept == /\ console'.rows = console.rows /\ console'.facts = console.facts
                        /\ console'.owners = console.owners
           ChoiceKept == console'.selected = console.selected /\ console'.tx = console.tx
<1>1. CASE UNCHANGED console
  BY <1>1
<1>2. CASE \E l \in LoanIds : Select(l)
  <2>1. PICK l \in LoanIds :
           console' = [console EXCEPT !.selected = l, !.cited = Zero, !.tx = "none"]
    BY <1>2 DEF Select, Selected
  <2>2. CacheKept /\ console'.tx = "none"
    BY <1>a, <2>1 DEF Page
  <2>3. QED
    BY <2>2
<1>3. CASE \E l \in LoanIds : ReadLoanRow(l)
  <2>1. PICK l \in LoanIds : console' = [console EXCEPT !.rows[l] = loans[l]]
    BY <1>3 DEF ReadLoanRow
  <2>2. /\ console'.rows = [console.rows EXCEPT ![l] = loans[l]]
        /\ console'.facts = console.facts /\ console'.owners = console.owners
        /\ ChoiceKept
    BY <1>a, <2>1 DEF Page
  <2>3. \A m \in LoanIds : console'.rows[m] \in {console.rows[m], loans[m]}
    BY <1>c, <2>2
  <2>4. QED
    BY <2>2, <2>3
<1>4. CASE \E f \in FactIds : Cite(f)
  <2>1. PICK f \in FactIds : console' = [console EXCEPT !.cited = f, !.tx = "none"]
    BY <1>4 DEF Cite
  <2>2. CacheKept /\ console'.tx = "none"
    BY <1>a, <2>1 DEF Page
  <2>3. QED
    BY <2>2
<1>5. CASE \E f \in FactIds : ReadFact(f)
  <2>1. PICK f \in stored : console' = [console EXCEPT !.facts = @ \cup {f}]
    BY <1>5 DEF ReadFact
  <2>2. /\ console'.facts = console.facts \cup {f}
        /\ console'.rows = console.rows /\ console'.owners = console.owners
        /\ ChoiceKept
    BY <1>a, <2>1 DEF Page
  <2>3. QED
    BY <2>2
<1>6. CASE Submit \/ Wallet \/ MinedChallenge \/ MinedAndReverted
  <2>1. PICK t \in Receipts :
           /\ console' = [console EXCEPT !.tx = t]
           /\ t = "mined" => challenge(Visitor, console.selected, console.cited)
    BY <1>6 DEF Submit, Wallet, MinedChallenge, MinedAndReverted, Receipts
  <2>2. CacheKept /\ console'.selected = console.selected /\ console'.tx = t
    BY <1>a, <2>1, WriteTx
  <2>3. QED
    BY <2>1, <2>2
<1>7. CASE ReadBlock
  <2>1. CacheKept /\ ChoiceKept
    BY <1>a, <1>b, <1>7, WriteBlock DEF ReadBlock
  <2>2. QED
    BY <2>1
<1>8. CASE ReadOwner
  <2>1. PICK a : console' = [console EXCEPT !.owners[a] = treasuryOwner[a]]
    BY <1>8 DEF ReadOwner
  <2>2. /\ console'.owners = [console.owners EXCEPT ![a] = treasuryOwner[a]]
        /\ console'.rows = console.rows /\ console'.facts = console.facts
        /\ ChoiceKept
    BY <1>a, <2>1 DEF Page
  <2>3. \A d \in Addresses : console'.owners[d] \in {console.owners[d], treasuryOwner[d]}
    BY <1>c, <2>2
  <2>4. QED
    BY <2>2, <2>3
<1>9. QED
  <2>1. UseConsole \/ UNCHANGED console
    BY DEF FrontendNext, frontendVars, surfaces, World, CheckClearance, Collide, Include,
           MeasureCoverage
  <2>2. QED
    BY <1>1, <1>2, <1>3, <1>4, <1>5, <1>6, <1>7, <1>8, <2>1 DEF UseConsole, ConsoleNext

\* A loan that was breached stays so.
LEMMA BreachedStays ==
    ASSUME Core, Evidence, [Next]_vars, NEW l \in LoanIds, loans[l].status = "BREACHED"
    PROVE  loans'[l].status = "BREACHED"
BY StepsOf, LoanAdvances DEF Advances, Forward

\* What the page confirms is what happened: the challenge it followed breached the claim that
\* is still selected, and nothing undoes a breach.
THEOREM ConfirmationIsTrue == FrontendSpec => []ConfirmedIsBreached
<1> DEFINE Confirmed == console.tx = "mined" => loans[console.selected].status = "BREACHED"
<1>1. FrontendInit => Confirmed
  BY DEF FrontendInit, SurfacesInit, ConsoleInit, NoConsole
<1>2. Sound /\ Confirmed /\ [FrontendNext]_frontendVars => Confirmed'
  <2> SUFFICES ASSUME Sound, Confirmed, [FrontendNext]_frontendVars, console'.tx = "mined"
               PROVE  loans'[console'.selected].status = "BREACHED"
    OBVIOUS
  <2>1. [Next]_vars
    BY BookMoves DEF Sound
  <2>2. /\ console'.selected = console.selected
        /\ \/ console.tx = "mined"
           \/ challenge(Visitor, console.selected, console.cited)
    BY PageSteps DEF Sound
  <2>3. console'.selected \in LoanIds
    BY ChosenNext DEF Sound, Chosen, Page
  <2>4. CASE console.tx = "mined"
    BY <2>1, <2>2, <2>3, <2>4, BreachedStays DEF Sound
  <2>5. CASE challenge(Visitor, console.selected, console.cited)
    BY <2>2, <2>3, <2>5, LoansTyped DEF challenge, Sound, Loan
  <2>6. QED
    BY <2>2, <2>4, <2>5
<1>3. Confirmed => ConfirmedIsBreached
  BY DEF ConfirmedIsBreached, phase
<1> HIDE DEF Confirmed
<1>4. QED
  BY <1>1, <1>2, <1>3, SoundHolds, PTL DEF FrontendSpec

\* A row read in the past: its terms and its claim are those of the loan, which went on from
\* where it was.
Agrees(row, loan) ==
    /\ row.status # "NONE" => loan.status # "NONE" /\ Terms(loan) = Terms(row)
    /\ row.repaymentFactId # Zero =>
         loan.repaymentFactId # Zero /\ Claim(loan) = Claim(row)
    /\ row.status = "REPAYMENT_CLAIMED" =>
         /\ row.repaymentFactId # Zero
         /\ loan.status \in {"REPAYMENT_CLAIMED", "SETTLED", "BREACHED"}

\* No read ages but the block and the status of a claim.
Remembered ==
    /\ \A l \in LoanIds : Agrees(console.rows[l], loans[l])
    /\ console.facts \subseteq stored
    /\ \A a \in Addresses :
         console.owners[a] # 0 => treasuryOwner[a] = console.owners[a]

LEMMA RememberedNext ==
    Sound /\ Remembered /\ [FrontendNext]_frontendVars => Remembered'
<1> SUFFICES ASSUME Sound, Remembered, [FrontendNext]_frontendVars PROVE Remembered'
  OBVIOUS
<1>1. LoanBookStep /\ Kept
  BY BookMoves, StepsOf DEF Sound
<1>2. /\ \A l \in LoanIds : console'.rows[l] \in {console.rows[l], loans[l]}
      /\ console'.facts \subseteq console.facts \cup stored
      /\ \A a \in Addresses : console'.owners[a] \in {console.owners[a], treasuryOwner[a]}
  BY PageSteps DEF Sound
<1>3. ASSUME NEW l \in LoanIds PROVE Agrees(console'.rows[l], loans'[l])
  <2>1. Agrees(console'.rows[l], loans[l])
    <3>1. Agrees(loans[l], loans[l])
      BY DEF Agrees, Sound, Evidence, ClaimedNamesRepayment, ClaimableStatus
    <3>2. QED
      BY <1>2, <3>1 DEF Remembered
  <2>2. Advances(l)
    BY <1>1, LoanAdvances DEF Sound
  <2>3. loans[l].status # "NONE" => loans'[l].status # "NONE"
    <3>1. loans[l].status \in LoanStatus
      BY LoansTyped DEF Sound, Loan
    <3>2. QED
      BY <2>2, <3>1 DEF Advances, Forward, LoanStatus
  <2>4. loans[l].status \in {"REPAYMENT_CLAIMED", "SETTLED", "BREACHED"} =>
          loans'[l].status \in {"REPAYMENT_CLAIMED", "SETTLED", "BREACHED"}
    BY <2>2 DEF Advances, Forward
  <2>5. loans[l].repaymentFactId # Zero => loans'[l].repaymentFactId # Zero
    BY <2>2 DEF Advances, Claim
  <2>6. QED
    BY <2>1, <2>2, <2>3, <2>4, <2>5 DEF Agrees, Advances
<1>4. console'.facts \subseteq stored'
  BY <1>1, <1>2 DEF Kept, Remembered
<1>5. \A a \in Addresses : console'.owners[a] # 0 => treasuryOwner'[a] = console'.owners[a]
  BY <1>1, <1>2 DEF Kept, Remembered
<1>6. QED
  BY <1>3, <1>4, <1>5 DEF Remembered

\* What the eleven conditions say of the cached reads when all of them pass.
LEMMA CachedPasses ==
    ASSUME NEW l, NEW f, Cached!wouldSucceed(l, f)
    PROVE  /\ console.rows[l].status = "REPAYMENT_CLAIMED"
           /\ {f, console.rows[l].repaymentFactId} \subseteq console.facts
           /\ Cached!Covenant(l, f)
           /\ console.rows[l].originatorId # 0
           /\ f # console.rows[l].repaymentFactId
           /\ f # console.rows[l].disbursementFactId
<1> DEFINE funding == Ledger[f]
           repayment == Ledger[console.rows[l].repaymentFactId]
           both == {f, console.rows[l].repaymentFactId} \subseteq console.facts
           window == originators[console.rows[l].originatorId].circularWindow
           c == Cached!dryRun(l, f)
<1>1. /\ c[1] = Verdict(TRUE, console.rows[l].status = "REPAYMENT_CLAIMED")
      /\ c[3] = Verdict(both, SameChain(funding, repayment))
      /\ c[4] = Verdict(both, SameToken(funding, repayment))
      /\ c[5] = Verdict(both, SamePayer(funding, repayment))
      /\ c[6] = Cached!BindingVerdict(l, f)
      /\ c[7] = Verdict(both, CoversRepayment(funding, repayment))
      /\ c[8] = Verdict(both, FundingBefore(funding, repayment))
      /\ c[9] = Verdict(both /\ FundingBefore(funding, repayment),
                        WithinWindow(funding, repayment, window))
      /\ c[10] = Verdict(TRUE, f # console.rows[l].repaymentFactId)
      /\ c[11] = Verdict(TRUE, f # console.rows[l].disbursementFactId)
  BY DEF Cached!dryRun, Cached!Verdict, Verdict, Cached!SameChain, SameChain,
         Cached!SameToken, SameToken, Cached!SamePayer, SamePayer,
         Cached!CoversRepayment, CoversRepayment, Cached!FundingBefore, FundingBefore,
         Cached!WithinWindow, WithinWindow
<1>2. \A n \in 1..11 : c[n] = "pass"
  BY DEF Cached!wouldSucceed, Cached!Conditions
<1> HIDE DEF funding, repayment, both, window, c
<1>3. /\ console.rows[l].status = "REPAYMENT_CLAIMED"
      /\ f # console.rows[l].repaymentFactId
      /\ f # console.rows[l].disbursementFactId
  <2>1. c[1] = "pass" /\ c[10] = "pass" /\ c[11] = "pass"
    BY <1>2
  <2>2. QED
    BY <1>1, <2>1 DEF Verdict
<1>4. /\ both /\ SameChain(funding, repayment) /\ SameToken(funding, repayment)
      /\ SamePayer(funding, repayment)
  <2>1. c[3] = "pass" /\ c[4] = "pass" /\ c[5] = "pass"
    BY <1>2
  <2>2. QED
    BY <1>1, <2>1 DEF Verdict
<1>5. /\ CoversRepayment(funding, repayment) /\ FundingBefore(funding, repayment)
      /\ WithinWindow(funding, repayment, window)
  <2>1. c[7] = "pass" /\ c[8] = "pass" /\ c[9] = "pass"
    BY <1>2
  <2>2. QED
    BY <1>1, <2>1 DEF Verdict
<1>6. /\ console.owners[Ledger[f].from] = console.rows[l].originatorId
      /\ console.rows[l].originatorId # 0
  <2>1. c[6] = "pass"
    BY <1>2
  <2>2. QED
    BY <1>1, <2>1 DEF Cached!BindingVerdict, Cached!Verdict
<1>7. Cached!Covenant(l, f)
  BY <1>4, <1>5, <1>6
  DEF Cached!Covenant, Cached!requireCircularRepaymentBreach, Cached!FromBoundTreasury,
      Cached!SameChain, SameChain, Cached!SameToken, SameToken, Cached!SamePayer, SamePayer,
      Cached!CoversRepayment, CoversRepayment, Cached!FundingBefore, FundingBefore,
      Cached!WithinWindow, WithinWindow, funding, repayment, window
<1>8. QED
  BY <1>3, <1>4, <1>6, <1>7 DEF both

\* A preview that passes on reads of any age is spoilt by time alone: by the end of the claim
\* or of its window.
THEOREM PreviewAgesByTimeOnly == FrontendSpec => []OnlyTimeSpoilsThePreview
<1>1. FrontendInit => Remembered
  <2> SUFFICES ASSUME FrontendInit PROVE Remembered
    OBVIOUS
  <2>1. console = NoConsole
    BY DEF FrontendInit, SurfacesInit, ConsoleInit
  <2>2. QED
    BY <2>1 DEF NoConsole, NoLoan, Remembered, Agrees
<1>2. Sound /\ Remembered => OnlyTimeSpoilsThePreview
  <2> SUFFICES ASSUME Sound, Remembered, Preview,
                      loans[console.selected].status \notin {"SETTLED", "BREACHED"},
                      ~(number > WindowEnd(console.selected))
               PROVE  Challengeable(console.selected, console.cited)
    BY DEF OnlyTimeSpoilsThePreview
  <2>1. PICK l \in LoanIds, f \in FactIds : l = console.selected /\ f = console.cited
    BY DEF Preview, Sound, Chosen, Page
  <2>2. Cached!wouldSucceed(l, f)
    BY <2>1 DEF Preview
  <2>3. /\ console.rows[l].status = "REPAYMENT_CLAIMED"
        /\ {f, console.rows[l].repaymentFactId} \subseteq console.facts
        /\ Cached!Covenant(l, f)
        /\ console.rows[l].originatorId # 0
        /\ f # console.rows[l].repaymentFactId
        /\ f # console.rows[l].disbursementFactId
    BY <2>2, CachedPasses
  <2>4. Agrees(console.rows[l], loans[l])
    BY DEF Remembered
  <2>5. /\ Terms(loans[l]) = Terms(console.rows[l])
        /\ Claim(loans[l]) = Claim(console.rows[l])
        /\ loans[l].status = "REPAYMENT_CLAIMED"
    BY <2>1, <2>3, <2>4 DEF Agrees
  <2>6. /\ loans[l].originatorId = console.rows[l].originatorId
        /\ loans[l].disbursementFactId = console.rows[l].disbursementFactId
        /\ loans[l].repaymentFactId = console.rows[l].repaymentFactId
    BY <2>5 DEF Terms, Claim
  <2>7. console.owners[Ledger[f].from] = console.rows[l].originatorId
    BY <2>3 DEF Cached!Covenant, Cached!requireCircularRepaymentBreach,
                Cached!FromBoundTreasury
  <2>8. Ledger[f].from \in Addresses
    BY LedgerAssumption DEF Transfer
  <2>9. treasuryOwner[Ledger[f].from] = console.owners[Ledger[f].from]
    BY <2>3, <2>7, <2>8 DEF Remembered
  <2>10. Covenant(l, f)
    BY <2>3, <2>6, <2>9
    DEF Cached!Covenant, Cached!requireCircularRepaymentBreach, Cached!FromBoundTreasury,
        Cached!SameChain, Cached!SameToken, Cached!SamePayer, Cached!CoversRepayment,
        Cached!FundingBefore, Cached!WithinWindow, Covenant, requireCircularRepaymentBreach,
        FromBoundTreasury, SameChain, SameToken, SamePayer, CoversRepayment, FundingBefore,
        WithinWindow
  <2>11. f \in stored
    BY <2>3 DEF Remembered
  <2>12. number <= WindowEnd(l)
    <3>1. number \in Nat /\ WindowEnd(l) \in Nat
      BY <2>5, WindowTyped, OriginatorsTyped DEF Sound
    <3>2. QED
      BY <2>1, <3>1
  <2>13. QED
    BY <2>1, <2>3, <2>5, <2>6, <2>10, <2>11, <2>12 DEF Challengeable
<1>3. QED
  BY <1>1, <1>2, RememberedNext, SoundHolds, PTL DEF FrontendSpec

-----------------------------------------------------------------------------
(* The coverage measurement.                                               *)

Row(l) == [ originator |-> loans[l].originatorId, token |-> loans[l].token,
            fact |-> loans[l].disbursementFactId ]

Rows == [ originator : 0..MaxOriginators, token : Tokens \cup {Zero},
          fact : FactIds \cup {Zero} ]

Survey ==
    [ step : {"idle", "next", "loans", "transfers", "classify", "done"},
      originator : 0..MaxOriginators, ccHead : Nat, srcHead : Nat,
      next : 1..(MaxLoans + 1), id : 1..(MaxLoans + 1), book : SUBSET Rows,
      treasuries : SUBSET Addresses, asked : SUBSET FactIds, committed : SUBSET FactIds,
      verified : SUBSET FactIds, unverified : SUBSET FactIds ]

Lookback(m) == Since(m.ccHead, BINDING_LOOKBACK_BLOCKS)..m.ccHead

Lent(m, l) == l < m.next /\ loans[l].originatorId = m.originator

Source(l) == Ledger[loans[l].disbursementFactId].from

\* The rows read are the loans up to the one that is read next, and there are as many loans.
BookIsRead(m) ==
    /\ \A l \in LoanIds : l < m.next => loans[l].status # "NONE"
    /\ m.id <= m.next
    /\ m.book = {Row(l) : l \in {k \in LoanIds : k < m.id}}

\* The bindings read are the originator's, and all that its loans rest on.
BindingsAreRead(m) ==
    /\ \A a \in m.treasuries :
          treasuryOwner[a] = m.originator /\ boundAt[a] \in Lookback(m)
    /\ \A l \in LoanIds :
          Lent(m, l) /\ boundAt[Source(l)] \in Lookback(m) => Source(l) \in m.treasuries

InScope(m) ==
    { f \in FactIds :
        /\ \E l \in LoanIds : Lent(m, l) /\ loans[l].disbursementFactId = f
        /\ Ledger[f].chainKey = SOURCE_CHAIN
        /\ Ledger[f].blockHeight \in Scope(m.srcHead)
        /\ boundAt[Ledger[f].from] \in Lookback(m) }

Surveying ==
    /\ boundAt \in [Addresses -> Nat]
    /\ measure \in Survey
    /\ measure.step # "idle" => measure.originator # 0
    /\ BookIsRead(measure)
    /\ measure.step = "next" => measure.id = 1
    /\ measure.step = "transfers" =>
         measure.id = measure.next /\ BindingsAreRead(measure)
    /\ measure.step \notin {"classify", "done"} => measure.committed = {}
    /\ measure.step = "classify" =>
         measure.committed \cup (measure.asked \cap Disbursements(measure.book))
            = InScope(measure)
    /\ measure.step = "done" => measure.committed = InScope(measure)

\* What a registered loan says of the transfer it rests on.
LEMMA LentFrom ==
    ASSUME Core, Evidence, NEW l \in LoanIds, loans[l].status # "NONE"
    PROVE  /\ loans[l].disbursementFactId \in FactIds
           /\ Source(l) \in Addresses
           /\ treasuryOwner[Source(l)] = loans[l].originatorId
           /\ Ledger[loans[l].disbursementFactId].token = loans[l].token
           /\ loans[l].originatorId # 0
<1>1. /\ loans[l].disbursementFactId \in stored
      /\ treasuryOwner[Source(l)] = loans[l].originatorId
      /\ Ledger[loans[l].disbursementFactId].token = loans[l].token
  BY DEF Evidence, EvidenceBacked, Registered, Source
<1>2. loans[l].disbursementFactId \in FactIds
  BY <1>1 DEF Core, TypeOK
<1>3. Source(l) \in Addresses
  BY <1>2, LedgerAssumption DEF Source, Transfer
<1>4. QED
  BY <1>1, <1>2, <1>3, LoanOriginator, OriginatorsTyped

\* What is read of the chain does not change after it was read.
LEMMA ReadsAreFinal ==
    ASSUME Core, Evidence, [Next]_vars, boundAt \in [Addresses -> Nat],
           Recorded \/ UNCHANGED <<vars, boundAt>>
    PROVE  /\ \A l \in LoanIds : loans[l].status # "NONE" =>
                loans'[l].status # "NONE" /\ Terms(loans'[l]) = Terms(loans[l])
           /\ \A a \in Addresses : treasuryOwner[a] # 0 =>
                treasuryOwner'[a] = treasuryOwner[a] /\ boundAt'[a] = boundAt[a]
           /\ boundAt' \in [Addresses -> Nat]
<1>1. LoanBookStep /\ Kept
  BY StepsOf
<1>2. ASSUME NEW l \in LoanIds, loans[l].status # "NONE"
      PROVE  loans'[l].status # "NONE" /\ Terms(loans'[l]) = Terms(loans[l])
  <2>1. Advances(l) /\ loans[l].status \in LoanStatus
    BY <1>1, LoanAdvances, LoansTyped DEF Loan
  <2>2. QED
    BY <1>2, <2>1 DEF Advances, Forward, LoanStatus
<1>3. \A a \in Addresses : treasuryOwner[a] # 0 => treasuryOwner'[a] = treasuryOwner[a]
  BY <1>1 DEF Kept
<1>4. /\ boundAt' \in [Addresses -> Nat]
      /\ \A a \in Addresses : treasuryOwner'[a] = treasuryOwner[a] => boundAt'[a] = boundAt[a]
  <2>1. CASE Recorded
    BY <2>1, OriginatorsTyped DEF Recorded
  <2>2. CASE UNCHANGED <<vars, boundAt>>
    BY <2>2
  <2>3. QED
    BY <2>1, <2>2
<1>5. QED
  BY <1>2, <1>3, <1>4

LEMMA SurveyingMeanwhile ==
    ASSUME Core, Evidence, [Next]_vars, Surveying,
           Recorded \/ UNCHANGED <<vars, boundAt>>, UNCHANGED measure
    PROVE  Surveying'
<1> DEFINE m == measure
<1>1. /\ \A l \in LoanIds : loans[l].status # "NONE" =>
           loans'[l].status # "NONE" /\ Terms(loans'[l]) = Terms(loans[l])
      /\ \A a \in Addresses : treasuryOwner[a] # 0 =>
           treasuryOwner'[a] = treasuryOwner[a] /\ boundAt'[a] = boundAt[a]
      /\ boundAt' \in [Addresses -> Nat]
  BY ReadsAreFinal DEF Surveying
<1>2. m \in Survey /\ BookIsRead(m)
  BY DEF Surveying
<1>3. ASSUME NEW l \in LoanIds, l < m.next
      PROVE  /\ loans[l].status # "NONE" /\ loans'[l].status # "NONE"
             /\ loans'[l].originatorId = loans[l].originatorId
             /\ loans'[l].token = loans[l].token
             /\ loans'[l].disbursementFactId = loans[l].disbursementFactId
             /\ boundAt'[Source(l)] = boundAt[Source(l)]
             /\ Source(l)' = Source(l) /\ Row(l)' = Row(l)
  <2>1. loans[l].status # "NONE"
    BY <1>2, <1>3 DEF BookIsRead
  <2>2. loans'[l].status # "NONE" /\ Terms(loans'[l]) = Terms(loans[l])
    BY <1>1, <2>1
  <2>3. /\ loans'[l].originatorId = loans[l].originatorId
        /\ loans'[l].token = loans[l].token
        /\ loans'[l].disbursementFactId = loans[l].disbursementFactId
    BY <2>2 DEF Terms
  <2>4. Source(l) \in Addresses /\ treasuryOwner[Source(l)] # 0
    BY <2>1, LentFrom
  <2>5. boundAt'[Source(l)] = boundAt[Source(l)]
    BY <1>1, <2>4
  <2>6. Source(l)' = Source(l) /\ Row(l)' = Row(l)
    BY <2>3 DEF Source, Row
  <2>7. QED
    BY <2>1, <2>2, <2>3, <2>5, <2>6
<1>4. /\ m.next \in Nat /\ m.id \in Nat /\ m.id <= m.next
      /\ LoanIds \subseteq Nat
  BY <1>2, InputAssumption DEF Survey, BookIsRead, LoanIds
<1>5. BookIsRead(m)'
  <2>1. \A l \in {k \in LoanIds : k < m.id} : Row(l)' = Row(l)
    BY <1>3, <1>4
  <2>2. {Row(l)' : l \in {k \in LoanIds : k < m.id}} = {Row(l) : l \in {k \in LoanIds : k < m.id}}
    BY <2>1
  <2>3. QED
    BY <1>2, <1>3, <2>2 DEF BookIsRead
<1>6. InScope(m)' = InScope(m)
  <2>1. ASSUME NEW f \in FactIds PROVE f \in InScope(m) <=> f \in InScope(m)'
    <3>1. ASSUME NEW l \in LoanIds
          PROVE  /\ Lent(m, l) <=> Lent(m, l)'
                 /\ Lent(m, l) => loans'[l].disbursementFactId = loans[l].disbursementFactId
                 /\ Lent(m, l) /\ loans[l].disbursementFactId = f =>
                      boundAt'[Ledger[f].from] = boundAt[Ledger[f].from]
      BY <1>3 DEF Lent, Source
    <3>2. QED
      BY <3>1 DEF InScope, Lookback
  <2>2. QED
    BY <2>1 DEF InScope
<1>7. BindingsAreRead(m) /\ m.originator # 0 => BindingsAreRead(m)'
  <2> SUFFICES ASSUME BindingsAreRead(m), m.originator # 0 PROVE BindingsAreRead(m)'
    OBVIOUS
  <2>1. \A a \in m.treasuries :
           treasuryOwner'[a] = m.originator /\ boundAt'[a] \in Lookback(m)
    BY <1>1, <1>2 DEF BindingsAreRead, Survey
  <2>2. ASSUME NEW l \in LoanIds, Lent(m, l)', boundAt'[Source(l)'] \in Lookback(m)
        PROVE  Source(l)' \in m.treasuries
    BY <1>3, <2>2 DEF BindingsAreRead, Lent
  <2>3. QED
    BY <2>1, <2>2 DEF BindingsAreRead, Lookback
<1>8. QED
  BY <1>1, <1>5, <1>6, <1>7 DEF Surveying

\* Joining the three reads: a transfer of the scope is cited by some loan exactly when it is
\* cited by one of the originator's own.
LEMMA JoinIsExact ==
    ASSUME Core, Evidence, NEW m \in Survey, m.originator # 0, BookIsRead(m),
           m.id = m.next, BindingsAreRead(m)
    PROVE  Outbound(m.treasuries, ClaimTokens(m.originator, m.book), Scope(m.srcHead))
             \cap Disbursements(m.book) = InScope(m)
<1> DEFINE o == m.originator
           tokens == ClaimTokens(o, m.book)
           Transfers == Outbound(m.treasuries, tokens, Scope(m.srcHead))
<1>1. m.book = {Row(l) : l \in {k \in LoanIds : k < m.next}}
  BY DEF BookIsRead
<1>2. \A l \in LoanIds : /\ Row(l).originator = loans[l].originatorId
                         /\ Row(l).token = loans[l].token
                         /\ Row(l).fact = loans[l].disbursementFactId
  BY DEF Row
<1>3. \A f : f \in Disbursements(m.book) <=>
               \E l \in LoanIds : l < m.next /\ loans[l].disbursementFactId = f
  BY <1>1, <1>2 DEF Disbursements
<1>4. \A l \in LoanIds : Lent(m, l) => loans[l].token \in tokens
  BY <1>1, <1>2 DEF Lent, ClaimTokens
<1>5. \A l \in LoanIds : l < m.next =>
         /\ loans[l].disbursementFactId \in FactIds
         /\ treasuryOwner[Source(l)] = loans[l].originatorId
         /\ Ledger[loans[l].disbursementFactId].token = loans[l].token
  BY LentFrom DEF BookIsRead
<1>6. ASSUME NEW f \in Transfers, f \in Disbursements(m.book) PROVE f \in InScope(m)
  <2>1. PICK l \in LoanIds : l < m.next /\ loans[l].disbursementFactId = f
    BY <1>3, <1>6
  <2>2. /\ f \in FactIds /\ Ledger[f].from \in m.treasuries
        /\ Ledger[f].chainKey = SOURCE_CHAIN /\ Ledger[f].blockHeight \in Scope(m.srcHead)
    BY DEF Outbound
  <2>3. treasuryOwner[Ledger[f].from] = o /\ boundAt[Ledger[f].from] \in Lookback(m)
    BY <2>2 DEF BindingsAreRead
  <2>4. Lent(m, l)
    BY <1>5, <2>1, <2>3 DEF Lent, Source
  <2>5. QED
    BY <2>1, <2>2, <2>3, <2>4 DEF InScope
<1>7. ASSUME NEW f \in InScope(m) PROVE f \in Transfers /\ f \in Disbursements(m.book)
  <2>1. PICK l \in LoanIds : Lent(m, l) /\ loans[l].disbursementFactId = f
    BY DEF InScope
  <2>2. /\ f \in FactIds /\ Ledger[f].chainKey = SOURCE_CHAIN
        /\ Ledger[f].blockHeight \in Scope(m.srcHead)
        /\ boundAt[Ledger[f].from] \in Lookback(m)
    BY DEF InScope
  <2>3. Ledger[f].from \in m.treasuries
    BY <2>1, <2>2 DEF BindingsAreRead, Source
  <2>4. Ledger[f].token \in tokens
    BY <1>4, <1>5, <2>1 DEF Lent
  <2>5. f \in Disbursements(m.book)
    BY <1>3, <2>1 DEF Lent
  <2>6. QED
    BY <2>2, <2>3, <2>4, <2>5 DEF Outbound
<1>8. QED
  BY <1>6, <1>7

\* A measurement not begun, or given up, has read nothing.
LEMMA NothingRead ==
    /\ NoMeasure \in Survey /\ NoMeasure.step = "idle" /\ NoMeasure.committed = {}
    /\ BookIsRead(NoMeasure) /\ [a \in Addresses |-> 0] \in [Addresses -> Nat]
<1>1. /\ 1 \in 1..(MaxLoans + 1) /\ 0 \in 0..MaxOriginators /\ {} \in SUBSET Rows
      /\ {} \in SUBSET Addresses /\ {} \in SUBSET FactIds
  BY InputAssumption
<1>2. NoMeasure \in Survey
  BY <1>1 DEF NoMeasure, Survey
<1>3. BookIsRead(NoMeasure)
  BY DEF NoMeasure, BookIsRead, LoanIds
<1>4. QED
  BY <1>2, <1>3 DEF NoMeasure

LEMMA SurveyingStep ==
    ASSUME Core, Evidence, Surveying, CoverageNext, UNCHANGED <<vars, boundAt>>
    PROVE  Surveying'
<1> DEFINE m == measure
<1>1. /\ boundAt' = boundAt /\ boundAt \in [Addresses -> Nat]
      /\ m \in Survey /\ BookIsRead(m)
  BY DEF Surveying
<1>2. /\ UNCHANGED <<loans, treasuryOwner, boundAt>>
  BY DEF vars, books, loanBook
<1>3. /\ m.next \in 1..(MaxLoans + 1) /\ m.id \in 1..(MaxLoans + 1) /\ m.id <= m.next
      /\ MaxLoans \in Nat
  BY <1>1, InputAssumption DEF Survey, BookIsRead
<1>4. /\ number \in Nat /\ nextLoanId \in 1..(MaxLoans + 1)
      /\ loans \in [LoanIds -> Loan]
  BY DEF Core, TypeOK
<1>b. ASSUME BookIsRead(measure') PROVE BookIsRead(measure)'
  BY <1>2, <1>b DEF BookIsRead, Row
<1>5. CASE \E o \in OriginatorIds : ReadHeads(o)
  <2>1. PICK o \in OriginatorIds, head \in Nat :
           measure' = [NoMeasure EXCEPT !.step = "next", !.originator = o,
                                        !.ccHead = number, !.srcHead = head]
    BY <1>5, CoverageAssumption DEF ReadHeads
  <2>2. o \in 0..MaxOriginators /\ o # 0
    BY OriginatorsTyped
  <2>3. measure' = [ step |-> "next", originator |-> o, ccHead |-> number,
                     srcHead |-> head, next |-> 1, id |-> 1, book |-> {},
                     treasuries |-> {}, asked |-> {}, committed |-> {}, verified |-> {},
                     unverified |-> {} ]
    BY <2>1 DEF NoMeasure
  <2>4. measure' \in Survey
    <3>1. /\ 1 \in 1..(MaxLoans + 1) /\ {} \in SUBSET Rows
          /\ {} \in SUBSET Addresses /\ {} \in SUBSET FactIds
      BY <1>3
    <3>2. QED
      BY <1>4, <2>2, <2>3, <3>1 DEF Survey
  <2>5. BookIsRead(measure')
    BY <2>3 DEF BookIsRead, LoanIds
  <2>6. QED
    BY <1>1, <1>b, <2>2, <2>3, <2>4, <2>5 DEF Surveying
<1>6. CASE ReadNextLoanId
  <2>1. measure' = [m EXCEPT !.step = "loans", !.next = nextLoanId] /\ m.step = "next"
    BY <1>6 DEF ReadNextLoanId
  <2>2. /\ measure' \in Survey /\ measure'.step = "loans" /\ measure'.next = nextLoanId
        /\ measure'.originator = m.originator /\ measure'.id = m.id
        /\ measure'.book = m.book /\ measure'.committed = m.committed
    BY <1>1, <1>4, <2>1 DEF Survey
  <2>3. m.originator # 0 /\ m.id = 1 /\ m.committed = {}
    BY <2>1 DEF Surveying
  <2>4. BookIsRead(measure')
    <3>1. \A l \in LoanIds : l < nextLoanId => loans[l].status # "NONE"
      BY DEF Core, Slots
    <3>2. QED
      BY <1>1, <1>4, <2>2, <2>3, <3>1 DEF BookIsRead
  <2>5. QED
    BY <1>1, <1>b, <2>2, <2>3, <2>4 DEF Surveying
<1>7. CASE ReadLoan
  <2>1. /\ m.step = "loans" /\ m.id < m.next
        /\ measure' = [m EXCEPT !.id = m.id + 1, !.book = m.book \cup {Row(m.id)}]
    BY <1>7 DEF ReadLoan, Row
  <2>2. m.id \in LoanIds
    BY <1>3, <2>1 DEF LoanIds
  <2>3. Row(m.id) \in Rows
    BY <1>4, <2>2 DEF Row, Rows, Loan
  <2>4. /\ measure' \in Survey /\ measure'.step = "loans" /\ measure'.next = m.next
        /\ measure'.originator = m.originator /\ measure'.id = m.id + 1
        /\ measure'.book = m.book \cup {Row(m.id)} /\ measure'.committed = m.committed
    <3>1. PICK id \in 1..(MaxLoans + 1), book \in SUBSET Rows :
             id = m.id + 1 /\ book = m.book \cup {Row(m.id)}
      <4>1. m.id + 1 \in 1..(MaxLoans + 1)
        BY <1>3, <2>1
      <4>2. m.book \cup {Row(m.id)} \in SUBSET Rows
        BY <1>1, <2>3 DEF Survey
      <4>3. QED
        BY <4>1, <4>2
    <3>2. measure' = [m EXCEPT !.id = id, !.book = book]
      BY <2>1, <3>1
    <3>3. /\ measure' \in Survey /\ measure'.step = m.step /\ measure'.next = m.next
          /\ measure'.originator = m.originator /\ measure'.id = id
          /\ measure'.book = book /\ measure'.committed = m.committed
      BY <1>1, <3>2 DEF Survey
    <3>4. QED
      BY <2>1, <3>1, <3>3
  <2>5. m.originator # 0 /\ m.committed = {}
    BY <2>1 DEF Surveying
  <2>6. BookIsRead(measure')
    <3>1. {k \in LoanIds : k < m.id + 1} = {k \in LoanIds : k < m.id} \cup {m.id}
      BY <1>3, <2>2 DEF LoanIds
    <3>2. {Row(l) : l \in {k \in LoanIds : k < m.id + 1}}
             = {Row(l) : l \in {k \in LoanIds : k < m.id}} \cup {Row(m.id)}
      BY <3>1
    <3>3. m.id + 1 <= m.next
      BY <1>3, <2>1
    <3>4. QED
      BY <1>1, <2>4, <3>2, <3>3 DEF BookIsRead
  <2>7. QED
    BY <1>1, <1>b, <2>4, <2>5, <2>6 DEF Surveying
<1>8. CASE ReadBindings
  <2>1. /\ m.step = "loans" /\ m.id = m.next
        /\ measure' = [m EXCEPT !.step = "transfers",
                                !.treasuries = boundTreasuries(m.originator, m.ccHead)]
    BY <1>8 DEF ReadBindings
  <2>2. boundTreasuries(m.originator, m.ccHead) \in SUBSET Addresses
    BY DEF boundTreasuries
  <2>3. /\ measure' \in Survey /\ measure'.step = "transfers" /\ measure'.next = m.next
        /\ measure'.originator = m.originator /\ measure'.id = m.id
        /\ measure'.book = m.book /\ measure'.committed = m.committed
        /\ measure'.ccHead = m.ccHead
        /\ measure'.treasuries = boundTreasuries(m.originator, m.ccHead)
    BY <1>1, <2>1, <2>2 DEF Survey
  <2>4. m.originator # 0 /\ m.committed = {}
    BY <2>1 DEF Surveying
  <2>5. BookIsRead(measure')
    BY <1>1, <2>3 DEF BookIsRead
  <2>6. BindingsAreRead(measure)'
    <3>1. ASSUME NEW l \in LoanIds, Lent(m, l), boundAt[Source(l)] \in Lookback(m)
          PROVE  Source(l) \in boundTreasuries(m.originator, m.ccHead)
      <4>1. loans[l].status # "NONE"
        BY <1>1, <3>1 DEF BookIsRead, Lent
      <4>2. Source(l) \in Addresses /\ treasuryOwner[Source(l)] = m.originator
        BY <3>1, <4>1, LentFrom DEF Lent
      <4>3. QED
        BY <3>1, <4>2 DEF boundTreasuries, Lookback
    <3>2. \A a \in boundTreasuries(m.originator, m.ccHead) :
             treasuryOwner[a] = m.originator /\ boundAt[a] \in Lookback(m)
      BY DEF boundTreasuries, Lookback
    <3>3. QED
      BY <1>2, <2>3, <3>1, <3>2 DEF BindingsAreRead, Lookback, Lent, Source
  <2>7. QED
    BY <1>1, <1>b, <2>1, <2>3, <2>4, <2>5, <2>6 DEF Surveying
<1>9. CASE ReadTransfers
  <2>0. m.step = "transfers"
    BY <1>9 DEF ReadTransfers
  <2>1. PICK asked : /\ asked = Outbound(m.treasuries, ClaimTokens(m.originator, m.book),
                                         Scope(m.srcHead))
                     /\ measure' = [m EXCEPT !.step = "classify", !.asked = asked]
    BY <1>9 DEF ReadTransfers
  <2>2. asked \in SUBSET FactIds
    BY <2>1 DEF Outbound
  <2>3. /\ measure' \in Survey /\ measure'.step = "classify" /\ measure'.next = m.next
        /\ measure'.originator = m.originator /\ measure'.id = m.id
        /\ measure'.book = m.book /\ measure'.committed = m.committed
        /\ measure'.ccHead = m.ccHead /\ measure'.srcHead = m.srcHead
        /\ measure'.asked = asked
    BY <1>1, <2>1, <2>2 DEF Survey
  <2>4. m.originator # 0 /\ m.committed = {} /\ m.id = m.next /\ BindingsAreRead(m)
    BY <2>0 DEF Surveying
  <2>5. BookIsRead(measure')
    BY <1>1, <2>3 DEF BookIsRead
  <2>6. asked \cap Disbursements(m.book) = InScope(m)
    BY <1>1, <2>1, <2>4, JoinIsExact
  <2>7. InScope(measure)' = InScope(m)
    BY <1>2, <2>3 DEF InScope, Lent, Lookback
  <2>8. measure'.committed \cup (measure'.asked \cap Disbursements(measure'.book))
           = InScope(measure)'
    BY <2>3, <2>4, <2>6, <2>7
  <2>9. QED
    BY <1>1, <1>b, <2>3, <2>4, <2>5, <2>8 DEF Surveying, Disbursements
<1>10. CASE Classify
  <2>0. m.step = "classify"
    BY <1>10 DEF Classify
  <2>1. PICK f \in m.asked :
          measure' = CASE f \in Disbursements(m.book) ->
                            [m EXCEPT !.asked = @ \ {f}, !.committed = @ \cup {f}]
                       [] f \notin Disbursements(m.book) /\ f \in stored ->
                            [m EXCEPT !.asked = @ \ {f}, !.verified = @ \cup {f}]
                       [] OTHER ->
                            [m EXCEPT !.asked = @ \ {f}, !.unverified = @ \cup {f}]
    BY <1>10 DEF Classify
  <2>2. f \in FactIds /\ m.asked \in SUBSET FactIds
    BY <1>1 DEF Survey
  <2> DEFINE more == IF f \in Disbursements(m.book) THEN m.committed \cup {f}
                                                    ELSE m.committed
  <2>3. /\ measure' \in Survey /\ measure'.step = "classify" /\ measure'.next = m.next
        /\ measure'.originator = m.originator /\ measure'.id = m.id
        /\ measure'.book = m.book /\ measure'.committed = more
        /\ measure'.ccHead = m.ccHead /\ measure'.srcHead = m.srcHead
        /\ measure'.asked = m.asked \ {f}
    <3>1. CASE f \in Disbursements(m.book)
      <4>1. measure' = [m EXCEPT !.asked = m.asked \ {f},
                                 !.committed = m.committed \cup {f}]
        BY <2>1, <3>1
      <4>2. QED
        BY <1>1, <2>0, <2>2, <3>1, <4>1 DEF Survey
    <3>2. CASE f \notin Disbursements(m.book) /\ f \in stored
      <4>1. measure' = [m EXCEPT !.asked = m.asked \ {f},
                                 !.verified = m.verified \cup {f}]
        BY <2>1, <3>2
      <4>2. QED
        BY <1>1, <2>0, <2>2, <3>2, <4>1 DEF Survey
    <3>3. CASE f \notin Disbursements(m.book) /\ f \notin stored
      <4>1. measure' = [m EXCEPT !.asked = m.asked \ {f},
                                 !.unverified = m.unverified \cup {f}]
        BY <2>1, <3>3
      <4>2. QED
        BY <1>1, <2>0, <2>2, <3>3, <4>1 DEF Survey
    <3>4. QED
      BY <3>1, <3>2, <3>3
  <2>4. /\ m.originator # 0
        /\ m.committed \cup (m.asked \cap Disbursements(m.book)) = InScope(m)
    BY <2>0 DEF Surveying
  <2>5. BookIsRead(measure')
    BY <1>1, <2>3 DEF BookIsRead
  <2>6. more \cup ((m.asked \ {f}) \cap Disbursements(m.book)) = InScope(m)
    BY <2>4
  <2>7. InScope(measure)' = InScope(m)
    BY <1>2, <2>3 DEF InScope, Lent, Lookback
  <2>8. measure'.committed \cup (measure'.asked \cap Disbursements(measure'.book))
           = InScope(measure)'
    BY <2>3, <2>6, <2>7
  <2>9. QED
    BY <1>1, <1>b, <2>3, <2>4, <2>5, <2>8 DEF Surveying, Disbursements
<1>11. CASE Measured
  <2>1. m.step = "classify" /\ m.asked = {} /\ measure' = [m EXCEPT !.step = "done"]
    BY <1>11 DEF Measured
  <2>2. /\ measure' \in Survey /\ measure'.step = "done" /\ measure'.next = m.next
        /\ measure'.originator = m.originator /\ measure'.id = m.id
        /\ measure'.book = m.book /\ measure'.committed = m.committed
        /\ measure'.ccHead = m.ccHead /\ measure'.srcHead = m.srcHead
    BY <1>1, <2>1 DEF Survey
  <2>3. m.originator # 0 /\ m.committed = InScope(m)
    BY <2>1 DEF Surveying
  <2>4. BookIsRead(measure')
    BY <1>1, <2>2 DEF BookIsRead
  <2>5. InScope(measure)' = InScope(m)
    BY <1>2, <2>2 DEF InScope, Lent, Lookback
  <2>6. QED
    BY <1>1, <1>b, <2>2, <2>3, <2>4, <2>5 DEF Surveying
<1>12. CASE ReadFails
  <2>1. measure' = NoMeasure
    BY <1>12 DEF ReadFails
  <2>2. /\ measure' \in Survey /\ measure'.step = "idle" /\ measure'.committed = {}
        /\ BookIsRead(measure')
    BY <2>1, NothingRead
  <2>3. QED
    BY <1>1, <1>b, <2>2 DEF Surveying
<1>13. QED
  BY <1>5, <1>6, <1>7, <1>8, <1>9, <1>10, <1>11, <1>12 DEF CoverageNext

\* The numerator of the coverage is exact: reads made at different times of a book that moves
\* join to all disbursements of the originator's own loans in the scope, and to nothing else.
THEOREM CoverageHolds == FrontendSpec => []CoverageIsExact
<1>1. FrontendInit => Surveying
  BY NothingRead DEF FrontendInit, SurfacesInit, CoverageInit, Surveying
<1>2. Sound /\ Surveying /\ [FrontendNext]_frontendVars => Surveying'
  <2> SUFFICES ASSUME Sound, Surveying, [FrontendNext]_frontendVars PROVE Surveying'
    OBVIOUS
  <2>1. [Next]_vars
    BY BookMoves DEF Sound
  <2>2. CASE MeasureCoverage
    BY <2>2, SurveyingStep DEF MeasureCoverage, Sound
  <2>3. CASE ~MeasureCoverage
    <3>1. UNCHANGED measure /\ (Recorded \/ UNCHANGED <<vars, boundAt>>)
      BY <2>3 DEF FrontendNext, frontendVars, surfaces, World, CheckClearance, Collide,
                  Include, UseConsole
    <3>2. QED
      BY <2>1, <3>1, SurveyingMeanwhile DEF Sound
  <2>4. QED
    BY <2>2, <2>3
<1>3. Surveying => CoverageIsExact
  <2>1. InScope(measure) = CommittedInScope
    BY DEF InScope, CommittedInScope, Lent, Lookback
  <2>2. QED
    BY <2>1 DEF Surveying, CoverageIsExact
<1>4. QED
  BY <1>1, <1>2, <1>3, SoundHolds, PTL DEF FrontendSpec
=============================================================================

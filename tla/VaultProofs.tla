----------------------------- MODULE VaultProofs ------------------------------
(***************************************************************************)
(* What the vault holds, for every source chain, every set of bundles       *)
(* forged or genuine, and batches of any length: genuine transfers, each    *)
(* written once, none locked out; and that it implements FactRegistry.      *)
(*                                                                         *)
(* Whichever entry point is called, an accepted call publishes new facts    *)
(* that a source chain made (Publishes), so every theorem has two cases:    *)
(* the attestors advance, or facts are published.                           *)
(***************************************************************************)
EXTENDS EvidenceVault, WellFoundedInduction, TLAPS

\* What is known of a stored fact.
Genuine(id, fact) ==
    /\ id \in TransferIds
    /\ fact.transfer = Transfer(id)
    /\ id[2] <= attested[id[1]]
    /\ fact.submitter \in Submitters

\* The vault grows by `new': facts it did not hold, each genuine.
Publishes(new) ==
    /\ DOMAIN new \cap DOMAIN facts = {}
    /\ \A id \in DOMAIN new : Genuine(id, new[id])
    /\ facts' = Adding(facts, new)
    /\ UNCHANGED attested

-----------------------------------------------------------------------------
(* One bundle that the precompile accepts and that decodes.                *)

LEMMA PositionOfAttested ==
    ASSUME NEW s \in Submissions
    PROVE  /\ s.at = <<s.at[1], s.at[2], s.at[3]>>
           /\ s.at[1] \in ChainKeys
BY PositionAssumption DEF Positions

LEMMA DecodedIsGenuine ==
    ASSUME NEW s \in Submissions, NEW who \in Submitters,
           verifyAndEmit(s), Decodable(s)
    PROVE  Genuine(computeFactId(s), DecodedFact(s, who))
<1> DEFINE id == computeFactId(s)
<1>1. /\ id = <<s.at[1], s.at[2], s.at[3], s.logIndex>>
      /\ <<id[1], id[2], id[3]>> = s.at
      /\ id[4] = s.logIndex
  BY PositionOfAttested DEF computeFactId, chainKey, blockHeight, calculateTxIndex
<1>2. Chain[s.at] = s.encodedTransaction /\ s.at \in DOMAIN Chain
  BY DEF verifyAndEmit
<1>3. id \in TransferIds
  <2>1. s.logIndex \in LogIndexes
    BY DEF LogIndexes
  <2>2. id \in {<<p[1], p[2], p[3], n>> : p \in DOMAIN Chain, n \in LogIndexes}
    BY <1>1, <1>2, <2>1
  <2> DEFINE tx == Chain[<<id[1], id[2], id[3]>>]
             lg == tx.logs[id[4] + 1]
  <2>3. tx = s.encodedTransaction /\ id[4] = s.logIndex
    BY <1>1, <1>2
  <2>4. /\ tx.txType \in 0..4 /\ tx.receiptStatus = 1 /\ id[4] < Len(tx.logs)
        /\ lg.topics = 3 /\ lg.transferTopic /\ lg.dataWords = 1
    <3> HIDE DEF id, tx
    <3> QED
      BY <2>3 DEF Decodable, DecodableLog
  <2> HIDE DEF id
  <2>5. QED
    BY <2>2, <2>4 DEF TransferIds
<1>4. Transfer(id) = LogFields(s)
  BY <1>1, <1>2 DEF Transfer, LogFields, chainKey, blockHeight, calculateTxIndex
<1>5. id[2] <= attested[id[1]]
  BY <1>1 DEF verifyAndEmit, blockHeight, chainKey
<1>6. QED
  BY <1>3, <1>4, <1>5 DEF Genuine, DecodedFact

\* The first of some items of a batch is one of them.
LEMMA MinIsMember ==
    ASSUME NEW S \in SUBSET Nat, S # {}
    PROVE  Min(S) \in S /\ \A y \in S : Min(S) <= y
<1>0. S \subseteq Nat
  OBVIOUS
<1>1. PICK x \in S : \A y \in S : ~ (<<y, x>> \in OpToRel(<, Nat))
  BY <1>0, WFMin, NatLessThanWellFounded
<1>2. \A y \in S : ~ (y < x)
  BY <1>0, <1>1, Zenon DEF OpToRel
<1>3. \A y \in S : x =< y
  BY <1>0, <1>2
<1>4. QED
  BY <1>3 DEF Min

LEMMA ItemsAreSubmissions ==
    ASSUME NEW items \in Batches
    PROVE  DOMAIN items \in SUBSET Nat /\ \A i \in DOMAIN items : items[i] \in Submissions
BY DEF Batches, BoundedSeq, SeqOf

-----------------------------------------------------------------------------
(* The two entry points.                                                   *)

LEMMA SinglePublishes ==
    ASSUME NEW who \in Submitters, NEW s \in Submissions, submitTransferFact(who, s)
    PROVE  UNCHANGED vars \/ \E new : Publishes(new)
<1>1. CASE computeFactId(s) \in DOMAIN facts
  BY <1>1 DEF submitTransferFact, Stored, vars
<1>2. CASE computeFactId(s) \notin DOMAIN facts
  <2> DEFINE new == [id \in {computeFactId(s)} |-> DecodedFact(s, who)]
  <2>1. verifyAndEmit(s) /\ Decodable(s) /\ facts' = Adding(facts, new) /\ UNCHANGED attested
    BY <1>2 DEF submitTransferFact, Stored
  <2>2. DOMAIN new = {computeFactId(s)} /\ new[computeFactId(s)] = DecodedFact(s, who)
    OBVIOUS
  <2>3. Publishes(new)
    BY <1>2, <2>1, <2>2, DecodedIsGenuine DEF Publishes
  <2>4. QED
    BY <2>3
<1>3. QED
  BY <1>1, <1>2

LEMMA BatchPublishes ==
    ASSUME NEW who \in Submitters, NEW items \in Batches, submitTransferFactsBatch(who, items)
    PROVE  \E new : Publishes(new)
<1> DEFINE fresh == {i \in DOMAIN items : computeFactId(items[i]) \notin DOMAIN facts}
           ids == {computeFactId(items[i]) : i \in fresh}
           of(id) == {i \in fresh : computeFactId(items[i]) = id}
           new == [id \in ids |-> DecodedFact(items[Min(of(id))], who)]
<1>1. /\ \A i \in DOMAIN items : verifyAndEmit(items[i])
      /\ \A i \in fresh : Decodable(items[i])
      /\ facts' = Adding(facts, new)
      /\ UNCHANGED attested
  BY DEF submitTransferFactsBatch, StoredAll, BatchStored
<1>2. DOMAIN new \cap DOMAIN facts = {}
  OBVIOUS
<1>3. ASSUME NEW id \in ids
      PROVE  Genuine(id, new[id])
  <2>1. of(id) # {} /\ of(id) \in SUBSET Nat
    BY ItemsAreSubmissions
  <2>2. Min(of(id)) \in of(id)
    BY <2>1, MinIsMember
  <2> DEFINE i == Min(of(id))
  <2>3. i \in fresh /\ computeFactId(items[i]) = id /\ items[i] \in Submissions
    BY <2>2, ItemsAreSubmissions
  <2>4. Genuine(computeFactId(items[i]), DecodedFact(items[i], who))
    BY <1>1, <2>3, DecodedIsGenuine
  <2>5. QED
    BY <2>3, <2>4
<1>4. Publishes(new)
  BY <1>1, <1>2, <1>3 DEF Publishes
<1>5. QED
  BY <1>4

LEMMA Steps ==
    ASSUME [Next]_vars
    PROVE  UNCHANGED vars \/ (\E c \in ChainKeys : Attest(c)) \/ \E new : Publishes(new)
BY SinglePublishes, BatchPublishes DEF Next

-----------------------------------------------------------------------------
(* The invariant.                                                          *)

AllGenuine == TypeOK /\ \A id \in DOMAIN facts : Genuine(id, facts[id])

LEMMA ChainKeyOfTransfer ==
    ASSUME NEW id \in TransferIds
    PROVE  id[1] \in ChainKeys /\ id[2] \in Nat
BY PositionAssumption DEF TransferIds, Positions

LEMMA AllGenuineNext ==
    ASSUME AllGenuine, [Next]_vars
    PROVE  AllGenuine'
<1>1. CASE UNCHANGED vars
  BY <1>1 DEF AllGenuine, TypeOK, Genuine, vars
<1>2. ASSUME NEW c \in ChainKeys, Attest(c)
      PROVE  AllGenuine'
  <2>1. \A k \in ChainKeys : attested'[k] \in 0..MaxHeight /\ attested[k] <= attested'[k]
    BY <1>2, MaxHeightAssumption DEF Attest, AllGenuine, TypeOK
  <2>2. TypeOK'
    BY <1>2, <2>1, MaxHeightAssumption DEF Attest, AllGenuine, TypeOK
  <2>3. ASSUME NEW id \in DOMAIN facts
        PROVE  Genuine(id, facts[id])'
    <3>1. id \in TransferIds /\ id[2] <= attested[id[1]] /\ facts' = facts
      BY <1>2 DEF AllGenuine, Genuine, Attest
    <3>2. attested[id[1]] \in 0..MaxHeight
      BY <3>1, ChainKeyOfTransfer DEF AllGenuine, TypeOK
    <3>3. id[2] <= attested'[id[1]]
      BY <3>1, <3>2, <2>1, ChainKeyOfTransfer, MaxHeightAssumption
    <3>4. QED
      BY <3>1, <3>3 DEF AllGenuine, Genuine
  <2>4. facts' = facts
    BY <1>2 DEF Attest
  <2>5. QED
    BY <2>2, <2>3, <2>4 DEF AllGenuine
<1>3. ASSUME NEW new, Publishes(new)
      PROVE  AllGenuine'
  <2>1. /\ DOMAIN facts' = DOMAIN facts \cup DOMAIN new
        /\ \A id \in DOMAIN facts : facts'[id] = facts[id]
        /\ \A id \in DOMAIN new : facts'[id] = new[id]
    BY <1>3 DEF Publishes, Adding
  <2>2. \A id \in DOMAIN facts' : Genuine(id, facts[id])'
    BY <1>3, <2>1 DEF Publishes, Genuine, AllGenuine
  <2>3. TypeOK'
    BY <1>3, <2>1, <2>2 DEF Publishes, Genuine, AllGenuine, TypeOK
  <2>4. QED
    BY <2>2, <2>3 DEF AllGenuine
<1>4. QED
  BY <1>1, <1>2, <1>3, Steps

LEMMA AllGenuineInit == Init => AllGenuine
BY MaxHeightAssumption DEF Init, AllGenuine, TypeOK

LEMMA AllGenuineHolds == Spec => []AllGenuine
<1>1. QED
  BY AllGenuineInit, AllGenuineNext, PTL DEF Spec

-----------------------------------------------------------------------------
\* Every fact of the vault keeps its submitter's type, and attested heights theirs.
THEOREM VaultTypeCorrect == Spec => []TypeOK
<1>1. AllGenuine => TypeOK
  BY DEF AllGenuine
<1>2. QED
  BY <1>1, AllGenuineHolds, PTL

\* I5 of SECURITY.md: verifyAndEmit, then _decodeAndStore, alone or in a batch of any
\* length, let nothing in that an attested block of its source chain does not hold.
THEOREM FactsStayGenuine == Spec => []FactsAreGenuine
<1>1. AllGenuine => FactsAreGenuine
  BY DEF AllGenuine, FactsAreGenuine, Genuine
<1>2. QED
  BY <1>1, AllGenuineHolds, PTL

\* EvidenceVault.sol:70-73: no earlier submission of anyone keeps the holder of a genuine
\* bundle from storing its transfer or finding exactly that transfer stored.
THEOREM NobodyIsLockedOut == Spec => []NothingLockedOut
<1>1. ASSUME AllGenuine, NEW s \in Submissions, NEW who \in Submitters,
             computeFactId(s) \in TransferIds,
             s.encodedTransaction = Chain[s.at],
             blockHeight(s) <= attested[chainKey(s)]
      PROVE  \E vault \in Stored(facts, who, s) :
               /\ computeFactId(s) \in DOMAIN vault
               /\ vault[computeFactId(s)].transfer = Transfer(computeFactId(s))
  <2> DEFINE id == computeFactId(s)
  <2>1. CASE id \in DOMAIN facts
    BY <1>1, <2>1 DEF Stored, AllGenuine, Genuine
  <2>2. CASE id \notin DOMAIN facts
    <3>1. /\ id = <<s.at[1], s.at[2], s.at[3], s.logIndex>>
          /\ <<id[1], id[2], id[3]>> = s.at
          /\ id[4] = s.logIndex
      BY PositionOfAttested DEF computeFactId, chainKey, blockHeight, calculateTxIndex
    <3>2. s.at \in DOMAIN Chain
      <4>1. PICK p \in DOMAIN Chain, n \in LogIndexes : id = <<p[1], p[2], p[3], n>>
        BY <1>1 DEF TransferIds
      <4>2. p = <<p[1], p[2], p[3]>>
        BY PositionAssumption DEF Positions
      <4>3. QED
        BY <3>1, <4>1, <4>2
    <3>3. verifyAndEmit(s)
      BY <1>1, <3>2 DEF verifyAndEmit
    <3>4. Decodable(s)
      <4> DEFINE tx == Chain[<<id[1], id[2], id[3]>>]
                 lg == tx.logs[id[4] + 1]
      <4>1. /\ tx.txType \in 0..4 /\ tx.receiptStatus = 1 /\ id[4] < Len(tx.logs)
            /\ lg.topics = 3 /\ lg.transferTopic /\ lg.dataWords = 1
        <5>1. id \in TransferIds
          BY <1>1
        <5> HIDE DEF id
        <5>2. QED
          BY <5>1 DEF TransferIds
      <4>2. tx = s.encodedTransaction /\ id[4] = s.logIndex
        BY <1>1, <3>1
      <4> HIDE DEF id, tx
      <4>3. QED
        BY <4>1, <4>2 DEF Decodable, DecodableLog
    <3>5. DecodedFact(s, who).transfer = Transfer(id)
      BY <3>3, <3>4, DecodedIsGenuine DEF Genuine
    <3> DEFINE vault == Adding(facts, [i \in {id} |-> DecodedFact(s, who)])
    <3>6. vault \in Stored(facts, who, s)
      BY <2>2, <3>3, <3>4 DEF Stored
    <3>7. id \in DOMAIN vault /\ vault[id] = DecodedFact(s, who)
      BY <2>2 DEF Adding
    <3>8. QED
      BY <3>5, <3>6, <3>7
  <2>3. QED
    BY <2>1, <2>2
<1>2. AllGenuine => NothingLockedOut
  BY <1>1 DEF NothingLockedOut, computeFactId
<1>3. QED
  BY <1>2, AllGenuineHolds, PTL

\* A replayed or batched bundle of a known transfer rewrites nothing, and not who
\* submitted it first.
THEOREM FactsStayWritten == Spec => FactsAreWriteOnce
<1>1. [Next]_vars =>
        [\A id \in DOMAIN facts : id \in DOMAIN facts' /\ facts'[id] = facts[id]]_vars
  <2>1. CASE facts' = facts
    BY <2>1
  <2>2. ASSUME NEW new, Publishes(new)
        PROVE  \A id \in DOMAIN facts : id \in DOMAIN facts' /\ facts'[id] = facts[id]
    BY <2>2 DEF Publishes, Adding
  <2>3. QED
    BY <2>1, <2>2, Steps DEF vars, Attest
<1>2. QED
  BY <1>1, PTL DEF Spec, FactsAreWriteOnce

-----------------------------------------------------------------------------
(* The registry of the lending contract.                                   *)

held == [id \in DOMAIN facts |-> facts[id].transfer]

LEMMA PublishesInRegistry ==
    ASSUME NEW new, Publishes(new)
    PROVE  Registry!Publish(DOMAIN new)
<1> DEFINE Ledger == [id \in TransferIds |-> Transfer(id)]
<1>1. /\ DOMAIN facts' = DOMAIN facts \cup DOMAIN new
      /\ \A id \in DOMAIN facts : facts'[id] = facts[id]
      /\ \A id \in DOMAIN new : facts'[id] = new[id]
  BY DEF Publishes, Adding
<1>2. \A id \in DOMAIN new : id \in TransferIds /\ new[id].transfer = Ledger[id]
  BY DEF Publishes, Genuine
<1>3. DOMAIN new \subseteq DOMAIN Ledger \ DOMAIN held
  BY <1>2 DEF Publishes, held
<1>4. held' = [id \in DOMAIN held \cup DOMAIN new |->
                IF id \in DOMAIN new THEN Ledger[id] ELSE held[id]]
  BY <1>1, <1>2, <1>3 DEF held
<1>5. QED
  BY <1>3, <1>4 DEF Registry!Publish, Registry!FactIds, held

\* The lending contract is specified against FactRegistry: whatever holds of it over
\* that registry holds over this vault, with any bundles and batches submitted.
THEOREM VaultIsARegistry == Spec => ImplementsRegistry
<1>1. Init => Registry!Init
  BY DEF Init, Registry!Init
<1>2. ASSUME [Next]_vars
      PROVE  [Registry!Next]_held
  <2>1. CASE facts' = facts
    BY <2>1 DEF held
  <2>2. ASSUME NEW new, Publishes(new)
        PROVE  Registry!Next
    <3>1. DOMAIN new \in SUBSET Registry!FactIds
      BY <2>2 DEF Publishes, Genuine, Registry!FactIds
    <3>2. QED
      BY <2>2, <3>1, PublishesInRegistry DEF Registry!Next
  <2>3. QED
    BY <1>2, <2>1, <2>2, Steps DEF vars, Attest
<1>3. QED
  BY <1>1, <1>2, PTL DEF Spec, ImplementsRegistry, Registry!Spec, held

-----------------------------------------------------------------------------
(* A batch and its items one at a time.  The library's fold over a sequence *)
(* is a CHOOSE of a function that equals its own unfolding; that there is  *)
(* such a function, and what it is for an accepted batch, is shown by      *)
(* induction on the number of items taken.                                 *)

\* Induction over the naturals, as a fact about sets.
LEMMA Induct ==
    ASSUME NEW Q, 0 \in Q, \A n \in Nat : n \in Q => n + 1 \in Q
    PROVE  Nat \subseteq Q
<1> DEFINE T == Nat \ Q
<1> SUFFICES ASSUME T # {} PROVE FALSE
  OBVIOUS
<1>1. PICK x \in T : \A y \in T : ~ (<<y, x>> \in OpToRel(<, Nat))
  <2>1. T \subseteq Nat
    OBVIOUS
  <2> HIDE DEF T
  <2>2. QED
    BY <2>1, WFMin, NatLessThanWellFounded
<1>2. \A y \in T : ~ (y < x)
  BY <1>1, Zenon DEF OpToRel
<1>3. x # 0 /\ x - 1 \in Nat /\ x - 1 < x
  OBVIOUS
<1>4. x - 1 \notin T
  BY <1>2, <1>3
<1>5. (x - 1) + 1 \in Q /\ (x - 1) + 1 = x
  BY <1>3, <1>4
<1>6. QED
  BY <1>1, <1>5

LEMMA LeastIs ==
    ASSUME NEW S \in SUBSET Nat, NEW x \in S, \A y \in S : x <= y
    PROVE  Min(S) = x
<1>1. PICK m \in S : m = Min(S) /\ \A y \in S : m <= y
  BY DEF Min
<1>2. m \in Nat /\ x \in Nat /\ m <= x /\ x <= m
  BY <1>1
<1>3. QED
  BY <1>1, <1>2

LEMMA GreatestIs ==
    ASSUME NEW S \in SUBSET Nat, NEW x \in S, \A y \in S : y <= x
    PROVE  Max(S) = x
<1>1. PICK m \in S : m = Max(S) /\ \A y \in S : m >= y
  BY DEF Max
<1>2. m \in Nat /\ x \in Nat /\ m <= x /\ x <= m
  BY <1>1
<1>3. QED
  BY <1>1, <1>2

\* The vaults that the items of S, taken in their order, may leave: one unfolding.
After(vault, who, items, g, S) ==
    IF S = {} THEN {vault}
    ELSE UNION {Stored(v, who, items[Max(S)]) : v \in g[S \ {Max(S)}]}

OneByOne(vault, who, items) ==
    CHOOSE g : g = [S \in SUBSET (DOMAIN items) |-> After(vault, who, items, g, S)]

LEMMA FoldIsOneByOne ==
    ASSUME NEW vault, NEW who, NEW items
    PROVE  FoldLeft(LAMBDA vaults, s : UNION {Stored(v, who, s) : v \in vaults},
                    {vault}, items)
             = OneByOne(vault, who, items)[DOMAIN items]
BY DEF FoldLeft, MapThenFoldSet, OneByOne, After

LEMMA OneByOneExists ==
    ASSUME NEW vault, NEW who, NEW items, NEW N \in Nat, DOMAIN items = 1..N
    PROVE  \A S \in SUBSET (DOMAIN items) :
             OneByOne(vault, who, items)[S]
               = After(vault, who, items, OneByOne(vault, who, items), S)
<1> DEFINE D == SUBSET (DOMAIN items)
           Upto(g, n) == \A S \in D : S \subseteq 1..n => g[S] = After(vault, who, items, g, S)
           Q == {n \in Nat : \E g : g = [S \in D |-> g[S]] /\ Upto(g, n)}
<1>1. 0 \in Q
  <2> DEFINE g == [S \in D |-> {vault}]
  <2>1. \A S : S \subseteq 1..0 => S = {}
    OBVIOUS
  <2>2. Upto(g, 0)
    BY <2>1 DEF After
  <2>3. g = [S \in D |-> g[S]]
    OBVIOUS
  <2> HIDE DEF g
  <2>4. QED
    BY <2>2, <2>3
<1>2. ASSUME NEW n \in Nat, n \in Q PROVE n + 1 \in Q
  <2>1. PICK g : Upto(g, n)
    BY <1>2
  <2> DEFINE h == [S \in D |-> After(vault, who, items, g, S)]
  <2>2. ASSUME NEW S \in D, S \subseteq 1..(n + 1)
        PROVE  h[S] = After(vault, who, items, h, S)
    <3> DEFINE t == S \ {Max(S)}
    <3>1. t \in D /\ t \subseteq 1..n
      <4>1. CASE n + 1 \in S
        <5>1. Max(S) = n + 1
          BY <2>2, <4>1, GreatestIs
        <5>2. QED
          BY <2>2, <5>1
      <4>2. CASE n + 1 \notin S
        BY <2>2, <4>2
      <4>3. QED
        BY <4>1, <4>2
    <3>2. h[t] = g[t]
      BY <2>1, <3>1
    <3>3. QED
      BY <3>2 DEF After
  <2>3. h = [S \in D |-> h[S]]
    OBVIOUS
  <2> HIDE DEF h
  <2>4. Upto(h, n + 1)
    BY <2>2
  <2>5. n + 1 \in Nat
    OBVIOUS
  <2>6. QED
    BY <2>3, <2>4, <2>5
<1>3. Nat \subseteq Q
  <2> HIDE DEF Q
  <2> QED
    BY <1>1, <1>2, Induct
<1>4. PICK g : g = [S \in D |-> g[S]] /\ Upto(g, N)
  BY <1>3
<1>5. g = [S \in D |-> After(vault, who, items, g, S)]
  BY <1>4
<1>6. OneByOne(vault, who, items)
        = [S \in D |-> After(vault, who, items, OneByOne(vault, who, items), S)]
  BY <1>5 DEF OneByOne
<1> DEFINE f == OneByOne(vault, who, items)
<1>7. f = [S \in D |-> After(vault, who, items, f, S)]
  BY <1>6
<1> HIDE DEF f
<1>8. \A S \in D : f[S] = After(vault, who, items, f, S)
  BY <1>7
<1>9. QED
  BY <1>8 DEF f

\* No item of a batch, and the first k and one more.
LEMMA NoItem ==
    ASSUME NEW vault, NEW who, NEW items, NEW N \in Nat, DOMAIN items = 1..N
    PROVE  OneByOne(vault, who, items)[1..0] = {vault}
<1> DEFINE g == OneByOne(vault, who, items)
<1>1. \A S \in SUBSET (DOMAIN items) : g[S] = After(vault, who, items, g, S)
  BY OneByOneExists
<1> HIDE DEF g
<1>2. 1..0 = {} /\ 1..0 \in SUBSET (DOMAIN items)
  OBVIOUS
<1>3. g[1..0] = After(vault, who, items, g, 1..0)
  BY <1>1, <1>2
<1>4. QED
  BY <1>2, <1>3 DEF After, g

LEMMA OneMoreItem ==
    ASSUME NEW vault, NEW who, NEW items, NEW N \in Nat, DOMAIN items = 1..N,
           NEW k \in 0..(N - 1)
    PROVE  OneByOne(vault, who, items)[1..(k + 1)]
             = UNION {Stored(v, who, items[k + 1]) :
                        v \in OneByOne(vault, who, items)[1..k]}
<1> DEFINE g == OneByOne(vault, who, items)
<1>1. \A S \in SUBSET (DOMAIN items) : g[S] = After(vault, who, items, g, S)
  BY OneByOneExists
<1> HIDE DEF g
<1>3. Max(1..(k + 1)) = k + 1
  <2>1. k + 1 \in 1..(k + 1) /\ 1..(k + 1) \in SUBSET Nat
    OBVIOUS
  <2>2. QED
    BY <2>1, GreatestIs
<1>4. 1..(k + 1) \in SUBSET (DOMAIN items) /\ 1..(k + 1) # {}
  <2>1. k + 1 \in 1..(k + 1)
    OBVIOUS
  <2>2. QED
    BY <2>1
<1>5. (1..(k + 1)) \ {k + 1} = 1..k
  OBVIOUS
<1>7. g[1..(k + 1)] = After(vault, who, items, g, 1..(k + 1))
  BY <1>1, <1>4
<1>8. g[1..(k + 1)] = UNION {Stored(v, who, items[k + 1]) : v \in g[1..k]}
  BY <1>3, <1>4, <1>5, <1>7 DEF After
<1>9. QED
  BY <1>8 DEF g

\* The items of the first k that the vault does not hold.
FreshUpto(vault, items, k) ==
    {i \in DOMAIN items : i <= k /\ computeFactId(items[i]) \notin DOMAIN vault}

BatchUpto(vault, who, items, k) ==
    BatchStored(vault, who, items, FreshUpto(vault, items, k))

\* Storing the first k items of a batch together, then the next one alone, is storing
\* the first k + 1 together: an identity met before keeps its first item.
LEMMA NextItem ==
    ASSUME NEW vault, NEW who, NEW items, NEW N \in Nat, DOMAIN items = 1..N,
           NEW k \in 0..(N - 1), NEW j \in 1..N, j = k + 1,
           \A i \in 1..N : verifyAndEmit(items[i]),
           \A i \in 1..N : computeFactId(items[i]) \in DOMAIN vault \/ Decodable(items[i])
    PROVE  /\ BatchUpto(vault, who, items, j)
                \in Stored(BatchUpto(vault, who, items, k), who, items[j])
           /\ \A v \in Stored(BatchUpto(vault, who, items, k), who, items[j]) :
                v = BatchUpto(vault, who, items, j)
<1> DEFINE id(i) == computeFactId(items[i])
           F == FreshUpto(vault, items, k)
           G == FreshUpto(vault, items, j)
           least(S, d) == Min({i \in S : id(i) = d})
           V == BatchUpto(vault, who, items, k)
           W == BatchUpto(vault, who, items, j)
           fact(i) == DecodedFact(items[i], who)
<1>1. /\ F \in SUBSET Nat /\ G \in SUBSET Nat /\ F \subseteq G
      /\ \A i \in F : i <= k
      /\ \A i \in G : i \notin F => i = j
      /\ \A i \in G : id(i) \notin DOMAIN vault
      /\ id(j) \notin DOMAIN vault => j \in G
  BY DEF FreshUpto
<1>2. V = [d \in DOMAIN vault \cup {id(i) : i \in F} |->
             IF d \in DOMAIN vault THEN vault[d] ELSE fact(least(F, d))]
  BY DEF BatchUpto, BatchStored, Adding
<1>3. W = [d \in DOMAIN vault \cup {id(i) : i \in G} |->
             IF d \in DOMAIN vault THEN vault[d] ELSE fact(least(G, d))]
  BY DEF BatchUpto, BatchStored, Adding
<1> HIDE DEF F, G, V, W
<1>4. ASSUME NEW d \in {id(i) : i \in F}
      PROVE  least(G, d) = least(F, d)
  <2> DEFINE S == {i \in F : id(i) = d}
             T == {i \in G : id(i) = d}
             m == Min(S)
  <2>1. S \in SUBSET Nat /\ S # {} /\ T \in SUBSET Nat /\ S \subseteq T
    BY <1>1, <1>4
  <2>2. m \in S /\ \A y \in S : m <= y
    <3> HIDE DEF S
    <3> QED
      BY <2>1, MinIsMember
  <2>3. m \in T /\ \A y \in T : m <= y
    <3>1. m \in F /\ m \in Nat /\ m <= k
      BY <1>1, <2>2
    <3>2. ASSUME NEW y \in T
          PROVE  y \in S \/ y = j
      BY <1>1, <3>2
    <3>3. m \in T
      BY <2>1, <2>2
    <3> HIDE DEF S, T, m
    <3>4. ASSUME NEW y \in T
          PROVE  m <= y
      <4>1. CASE y \in S
        BY <2>2, <4>1
      <4>2. CASE y = j
        BY <3>1, <4>2
      <4>3. QED
        BY <3>2, <4>1, <4>2
    <3>5. QED
      BY <3>3, <3>4
  <2>4. Min(T) = m
    <3> HIDE DEF S, T, m
    <3> QED
      BY <2>1, <2>3, LeastIs
  <2>5. QED
    BY <2>4
<1>5. CASE id(j) \in DOMAIN V
  <2>1. {id(i) : i \in G} = {id(i) : i \in F}
    <3>1. ASSUME NEW i \in G, i \notin F
          PROVE  id(i) \in {id(n) : n \in F}
      BY <1>1, <1>2, <1>5, <3>1
    <3>2. QED
      BY <1>1, <3>1
  <2>2. W = V
    BY <1>1, <1>2, <1>3, <1>4, <2>1
  <2>3. QED
    BY <1>5, <2>2 DEF Stored, V, W
<1>6. CASE id(j) \notin DOMAIN V
  <2> DEFINE new == [d \in {id(j)} |-> fact(j)]
  <2>1. /\ id(j) \notin DOMAIN vault
        /\ id(j) \notin {id(i) : i \in F}
        /\ j \in G
    BY <1>1, <1>2, <1>6
  <2>2. {id(i) : i \in G} = {id(i) : i \in F} \cup {id(j)}
    BY <1>1, <2>1
  <2>3. least(G, id(j)) = j
    <3>1. {i \in G : id(i) = id(j)} = {j}
      BY <1>1, <2>1
    <3>2. {j} \in SUBSET Nat /\ j \in {j} /\ \A y \in {j} : j <= y
      OBVIOUS
    <3>3. Min({j}) = j
      BY <3>2, LeastIs
    <3>4. QED
      BY <3>1, <3>3
  <2>4. Adding(V, new) = W
    <3>1. Adding(V, new) = [d \in DOMAIN V \cup {id(j)} |->
                              IF d \in DOMAIN V THEN V[d] ELSE fact(j)]
      BY DEF Adding
    <3>2. DOMAIN V \cup {id(j)} = DOMAIN vault \cup {id(i) : i \in G}
      BY <1>2, <2>2
    <3>3. ASSUME NEW d \in DOMAIN vault \cup {id(i) : i \in G}
          PROVE  (IF d \in DOMAIN V THEN V[d] ELSE fact(j))
                   = IF d \in DOMAIN vault THEN vault[d] ELSE fact(least(G, d))
      <4>1. CASE d \in DOMAIN vault
        BY <1>2, <4>1
      <4>2. CASE d \notin DOMAIN vault /\ d \in {id(i) : i \in F}
        BY <1>2, <1>4, <4>2
      <4>3. CASE d = id(j)
        BY <1>6, <2>1, <2>3, <4>3
      <4>4. QED
        BY <2>2, <4>1, <4>2, <4>3
    <3>4. QED
      BY <1>3, <3>1, <3>2, <3>3
  <2>5. verifyAndEmit(items[j]) /\ Decodable(items[j])
    BY <2>1
  <2>6. Stored(V, who, items[j]) = {Adding(V, new)}
    BY <1>6, <2>5 DEF Stored
  <2>7. QED
    BY <2>4, <2>6 DEF V, W
<1>7. QED
  BY <1>5, <1>6

\* An accepted batch, item by item, leaves the one vault the batch leaves.
LEMMA BatchItemByItem ==
    ASSUME NEW vault, NEW who, NEW items, NEW N \in Nat, DOMAIN items = 1..N,
           {vault} = {BatchUpto(vault, who, items, 0)},
           \A i \in 1..N : verifyAndEmit(items[i]),
           \A i \in 1..N : computeFactId(items[i]) \in DOMAIN vault \/ Decodable(items[i])
    PROVE  OneByOne(vault, who, items)[1..N]
             = {BatchUpto(vault, who, items, N)}
<1> DEFINE g == OneByOne(vault, who, items)
           V(k) == BatchUpto(vault, who, items, k)
           Q == {k \in Nat : k <= N => g[1..k] = {V(k)}}
<1>1. 0 \in Q
  <2>1. g[1..0] = {vault}
    BY NoItem
  <2> HIDE DEF g
  <2>2. QED
    BY <2>1
<1>2. ASSUME NEW k \in Nat, k \in Q
      PROVE  k + 1 \in Q
  <2>1. SUFFICES ASSUME k + 1 <= N
                 PROVE  g[1..(k + 1)] = {V(k + 1)}
    <3> HIDE DEF g, V
    <3> QED
      OBVIOUS
  <2>2. g[1..k] = {V(k)}
    <3> HIDE DEF g, V
    <3> QED
      BY <1>2, <2>1
  <2>3. k \in 0..(N - 1) /\ k + 1 \in 1..N
    BY <2>1
  <2>4. g[1..(k + 1)] = UNION {Stored(v, who, items[k + 1]) : v \in g[1..k]}
    BY <2>3, OneMoreItem
  <2>5. /\ V(k + 1) \in Stored(V(k), who, items[k + 1])
        /\ \A v \in Stored(V(k), who, items[k + 1]) : v = V(k + 1)
    <3>1. PICK j \in 1..N : j = k + 1
      BY <2>3
    <3>2. /\ V(j) \in Stored(V(k), who, items[j])
          /\ \A v \in Stored(V(k), who, items[j]) : v = V(j)
      BY <2>3, <3>1, NextItem
    <3> HIDE DEF V
    <3>3. QED
      BY <3>1, <3>2
  <2> HIDE DEF g, V
  <2>6. QED
    BY <2>2, <2>4, <2>5
<1>3. Nat \subseteq Q
  <2> HIDE DEF Q
  <2> QED
    BY <1>1, <1>2, Induct
<1>4. QED
  <2> HIDE DEF g, V
  <2>1. g[1..N] = {V(N)}
    BY <1>3
  <2>2. QED
    BY <2>1 DEF g, V

\* The vault is a function: Adding makes one.
FactsAreKept == facts = [id \in DOMAIN facts |-> facts[id]]

LEMMA FactsAreKeptHolds == Spec => []FactsAreKept
<1>1. Init => FactsAreKept
  BY DEF Init, FactsAreKept
<1>2. FactsAreKept /\ [Next]_vars => FactsAreKept'
  <2>1. ASSUME FactsAreKept, facts' = facts
        PROVE  FactsAreKept'
    BY <2>1 DEF FactsAreKept
  <2>2. ASSUME NEW new, Publishes(new)
        PROVE  FactsAreKept'
    BY <2>2 DEF FactsAreKept, Publishes, Adding
  <2>3. QED
    BY <2>1, <2>2, Steps DEF vars, Attest
<1>3. QED
  BY <1>1, <1>2, PTL DEF Spec

\* submitTransferFactsBatch: whatever the vault holds, an accepted batch of any length
\* leaves exactly the vault that submitTransferFact leaves called on its items in order.
THEOREM BatchesAreSequential == Spec => []BatchIsSequential
<1>1. ASSUME FactsAreKept, NEW who \in Submitters, NEW items \in Batches,
             NEW vault \in StoredAll(facts, who, items)
      PROVE  vault \in FoldLeft(LAMBDA vaults, s : UNION {Stored(v, who, s) : v \in vaults},
                                {facts}, items)
  <2>1. PICK N \in Nat : DOMAIN items = 1..N
    BY DEF Batches, BoundedSeq, SeqOf
  <2> DEFINE fresh == {i \in DOMAIN items : computeFactId(items[i]) \notin DOMAIN facts}
  <2>2. /\ \A i \in DOMAIN items : verifyAndEmit(items[i])
        /\ \A i \in fresh : Decodable(items[i])
        /\ vault = BatchStored(facts, who, items, fresh)
    BY <1>1 DEF StoredAll
  <2>3. FreshUpto(facts, items, N) = fresh
    BY <2>1 DEF FreshUpto
  <2>4. \A i \in 1..N : computeFactId(items[i]) \in DOMAIN facts \/ Decodable(items[i])
    BY <2>1, <2>2
  <2>5. OneByOne(facts, who, items)[1..N] = {BatchStored(facts, who, items, fresh)}
    <3>1. FreshUpto(facts, items, 0) = {}
      BY <2>1 DEF FreshUpto
    <3>2. BatchUpto(facts, who, items, 0) = facts
      BY <1>1, <3>1 DEF FactsAreKept, BatchUpto, BatchStored, Adding
    <3> HIDE DEF fresh
    <3>3. QED
      BY <2>1, <2>2, <2>3, <2>4, <3>2, BatchItemByItem DEF BatchUpto
  <2>6. vault \in OneByOne(facts, who, items)[DOMAIN items]
    BY <2>1, <2>2, <2>5
  <2>7. QED
    BY <2>6, FoldIsOneByOne
<1>2. FactsAreKept => BatchIsSequential
  BY <1>1 DEF BatchIsSequential
<1>3. QED
  BY <1>2, FactsAreKeptHolds, PTL
=============================================================================

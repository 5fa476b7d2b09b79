---------------------------- MODULE EvidenceVault ----------------------------
(***************************************************************************)
(* contracts/src/EvidenceVault.sol: anyone may submit a proof bundle for a *)
(* transfer log of a source chain; the block-prover precompile says        *)
(* whether the bundle is genuine, and the vault decodes and stores what it *)
(* says.  The precompile and the source chain are external: the vault sees *)
(* of them the verdict of verifyAndEmit and the index calculateTxIndex     *)
(* derives from the Merkle path.  A call that reverts changes nothing, so  *)
(* it is a step of no action.                                              *)
(***************************************************************************)
EXTENDS Naturals, Sequences, FiniteSets, FiniteSetsExt, SequencesExt

CONSTANTS
    ChainKeys,          \* the attested source chains
    Chain,              \* <<chainKey, height, txIndex>> -> the encoded transaction there
    Submissions,        \* the proof bundles callers try, forged ones included
    Submitters,         \* the callers
    MaxHeight,          \* bound: heights attested in a run
    MAX_BATCH_SIZE,     \* EvidenceVault.MAX_BATCH_SIZE, scaled
    MAX_BATCH_RANGE,    \* EvidenceVault.MAX_BATCH_RANGE, scaled
    MaxBatchTried       \* bound: the longest batch callers try

Positions == ChainKeys \X Nat \X Nat

ASSUME PositionAssumption ==
    /\ DOMAIN Chain \subseteq Positions
    /\ \A s \in Submissions : s.at \in Positions

ASSUME MaxHeightAssumption == MaxHeight \in Nat

VARIABLES
    attested,   \* per chain, the height the attestors have reached
    facts       \* _facts and exists: the stored facts, by fact id

vars == <<attested, facts>>

(***************************************************************************)
(* A submission names its coordinates (the height by argument, the         *)
(* transaction index through the siblings of its Merkle path), the bytes   *)
(* it claims are there, and a log of them: a record                        *)
(*     [at, encodedTransaction, logIndex].                                 *)
(* The bytes are a record [txType, receiptStatus, logs], a log a record    *)
(*     [topics, transferTopic, dataWords, token, from, to, amount].        *)
(***************************************************************************)
chainKey(s) == s.at[1]
blockHeight(s) == s.at[2]
calculateTxIndex(s) == s.at[3]

-----------------------------------------------------------------------------
(* An operator that directly precedes another of the same parameters and   *)
(* is used nowhere (TransactionLevelId and the like) is the other one with *)
(* a plausible bug, kept to show that the properties notice it.            *)
(*                                                                         *)
(* The identity of a fact: log-level, not transaction-level.               *)

TransactionLevelId(s) == <<chainKey(s), blockHeight(s), calculateTxIndex(s), 0>>

computeFactId(s) ==
    <<chainKey(s), blockHeight(s), calculateTxIndex(s), s.logIndex>>

\* The precompile accepts exactly the bytes an attested block holds there.
verifyAndEmit(s) ==
    /\ s.at \in DOMAIN Chain
    /\ Chain[s.at] = s.encodedTransaction
    /\ blockHeight(s) <= attested[chainKey(s)]

(***************************************************************************)
(* _decodeAndStore: the transaction type is known, the source transaction  *)
(* succeeded (the precompile does not check that), the log is there and is *)
(* an ERC-20 Transfer: three topics under the Transfer signature and one   *)
(* data word.                                                              *)
(***************************************************************************)
TransferTopicOnly(lg) == lg.transferTopic

DecodableLog(lg) ==
    /\ lg.topics = 3
    /\ lg.transferTopic
    /\ lg.dataWords = 1

DecodableIgnoringStatus(s) ==
    LET tx == s.encodedTransaction
    IN  /\ tx.txType \in 0..4
        /\ s.logIndex < Len(tx.logs)
        /\ DecodableLog(tx.logs[s.logIndex + 1])

Decodable(s) ==
    LET tx == s.encodedTransaction
    IN  /\ tx.txType \in 0..4
        /\ tx.receiptStatus = 1
        /\ s.logIndex < Len(tx.logs)
        /\ DecodableLog(tx.logs[s.logIndex + 1])

LogFields(s) ==
    LET lg == s.encodedTransaction.logs[s.logIndex + 1]
    IN  [ chainKey |-> chainKey(s), blockHeight |-> blockHeight(s),
          txIndex |-> calculateTxIndex(s), logIndex |-> s.logIndex,
          token |-> lg.token, from |-> lg.from, to |-> lg.to, amount |-> lg.amount ]

FactSubmittedBySender(s, who) ==
    [transfer |-> LogFields(s), submitter |-> LogFields(s).from]

DecodedFact(s, who) == [transfer |-> LogFields(s), submitter |-> who]

\* A vault with more facts: what it holds already it keeps as it is.
Adding(vault, new) ==
    [id \in DOMAIN vault \cup DOMAIN new |->
        IF id \in DOMAIN vault THEN vault[id] ELSE new[id]]

-----------------------------------------------------------------------------
Init ==
    /\ attested = [c \in ChainKeys |-> 0]
    /\ facts = <<>>

\* External: the attestors of the source chain advance; they never go back.
Attest(c) ==
    /\ attested[c] < MaxHeight
    /\ attested' = [attested EXCEPT ![c] = @ + 1]
    /\ UNCHANGED facts

(***************************************************************************)
(* submitTransferFact: dedupe, then verify, and only then decode.  Given   *)
(* the vault a call finds, the set of vaults it may leave: none when the   *)
(* call reverts, the same one when the fact is already there.              *)
(***************************************************************************)
StoredWithoutDedupe(vault, who, s) ==
    IF verifyAndEmit(s) /\ Decodable(s)
      THEN {Adding([id \in {computeFactId(s)} |-> DecodedFact(s, who)], vault)}
      ELSE {}

Stored(vault, who, s) ==
    IF computeFactId(s) \in DOMAIN vault THEN {vault}
    ELSE IF verifyAndEmit(s) /\ Decodable(s)
      THEN {Adding(vault, [id \in {computeFactId(s)} |-> DecodedFact(s, who)])}
      ELSE {}

submitTransferFact(who, s) ==
    /\ facts' \in Stored(facts, who, s)
    /\ UNCHANGED attested

(***************************************************************************)
(* submitTransferFactsBatch: the guards of _validateBatch, the precompile  *)
(* on the whole batch (items already known are verified again), then       *)
(* _ingestOne item by item: the first item of an identity is stored, later *)
(* ones are skipped, and one item that does not decode reverts all.        *)
(***************************************************************************)
_validateBatch(items) ==
    LET heights == {blockHeight(items[i]) : i \in DOMAIN items}
    IN  /\ items # <<>>
        /\ Len(items) <= MAX_BATCH_SIZE
        /\ Max(heights) - Min(heights) <= MAX_BATCH_RANGE

BatchStored(vault, who, items, fresh) ==
    LET first(id) == items[Min({i \in fresh : computeFactId(items[i]) = id})]
    IN  Adding(vault, [id \in {computeFactId(items[i]) : i \in fresh} |->
                         DecodedFact(first(id), who)])

StoredSkippingBadItems(vault, who, items) ==
    LET fresh == {i \in DOMAIN items :
                    /\ computeFactId(items[i]) \notin DOMAIN vault
                    /\ Decodable(items[i])}
    IN  IF _validateBatch(items) /\ \A i \in DOMAIN items : verifyAndEmit(items[i])
          THEN {BatchStored(vault, who, items, fresh)}
          ELSE {}

StoredAll(vault, who, items) ==
    LET fresh == {i \in DOMAIN items : computeFactId(items[i]) \notin DOMAIN vault}
    IN  IF /\ _validateBatch(items)
           /\ \A i \in DOMAIN items : verifyAndEmit(items[i])
           /\ \A i \in fresh : Decodable(items[i])
          THEN {BatchStored(vault, who, items, fresh)}
          ELSE {}

submitTransferFactsBatch(who, items) ==
    /\ facts' \in StoredAll(facts, who, items)
    /\ UNCHANGED attested

\* A batch shares one continuity proof, so its items share a chain.
Batches ==
    {items \in BoundedSeq(Submissions, MaxBatchTried) :
        \A i, j \in DOMAIN items : chainKey(items[i]) = chainKey(items[j])}

Next ==
    \/ \E c \in ChainKeys : Attest(c)
    \/ \E who \in Submitters, s \in Submissions : submitTransferFact(who, s)
    \/ \E who \in Submitters, items \in Batches : submitTransferFactsBatch(who, items)

Spec == Init /\ [][Next]_vars

-----------------------------------------------------------------------------
(* Properties.                                                             *)

LogIndexes == {s.logIndex : s \in Submissions}

\* What the vault is meant to hold, read off the chains: the ERC-20 Transfer
\* logs of the transactions that succeeded.
TransferIds ==
    {id \in {<<p[1], p[2], p[3], n>> : p \in DOMAIN Chain, n \in LogIndexes} :
        LET tx == Chain[<<id[1], id[2], id[3]>>]
        IN  /\ tx.txType \in 0..4
            /\ tx.receiptStatus = 1
            /\ id[4] < Len(tx.logs)
            /\ LET lg == tx.logs[id[4] + 1]
               IN  lg.topics = 3 /\ lg.transferTopic /\ lg.dataWords = 1}

Transfer(id) ==
    LET lg == Chain[<<id[1], id[2], id[3]>>].logs[id[4] + 1]
    IN  [ chainKey |-> id[1], blockHeight |-> id[2], txIndex |-> id[3],
          logIndex |-> id[4], token |-> lg.token, from |-> lg.from,
          to |-> lg.to, amount |-> lg.amount ]

(* Every variable has its type. *)
TypeOK ==
    /\ attested \in [ChainKeys -> 0..MaxHeight]
    /\ \A id \in DOMAIN facts : facts[id].submitter \in Submitters

(***************************************************************************)
(* SECURITY.md I5 and the proof boundary: whatever anyone submitted,       *)
(* alone or in a batch, forged or genuine, each stored fact is a transfer  *)
(* its source chain made in an attested block by a transaction that        *)
(* succeeded, under the identity of that very log, with every value the    *)
(* log's own.                                                              *)
(***************************************************************************)
FactsAreGenuine ==
    \A id \in DOMAIN facts :
        /\ id \in TransferIds
        /\ facts[id].transfer = Transfer(id)
        /\ id[2] <= attested[id[1]]

(***************************************************************************)
(* EvidenceVault.sol:70-73: no submission locks a transfer out.  At any    *)
(* moment the holder of a genuine bundle of an attested transfer either    *)
(* stores exactly that transfer or finds exactly that transfer stored.     *)
(***************************************************************************)
NothingLockedOut ==
    \A s \in Submissions, who \in Submitters :
        LET id == <<chainKey(s), blockHeight(s), calculateTxIndex(s), s.logIndex>>
        IN  /\ id \in TransferIds
            /\ s.encodedTransaction = Chain[s.at]
            /\ blockHeight(s) <= attested[chainKey(s)]
            => \E vault \in Stored(facts, who, s) :
                 /\ computeFactId(s) \in DOMAIN vault
                 /\ vault[computeFactId(s)].transfer = Transfer(id)

(***************************************************************************)
(* A batch that is accepted leaves the vault its items would leave when    *)
(* submitted one at a time in the same order, so a batch can neither       *)
(* smuggle in an item the single path rejects nor store an item twice.     *)
(***************************************************************************)
BatchIsSequential ==
    \A who \in Submitters, items \in Batches :
        StoredAll(facts, who, items) \subseteq
            FoldLeft(LAMBDA vaults, s : UNION {Stored(v, who, s) : v \in vaults},
                     {facts}, items)

(***************************************************************************)
(* A stored fact never changes again, its submitter included: a replayed   *)
(* or batched bundle of a known transfer cannot rewrite it.                *)
(***************************************************************************)
FactsAreWriteOnce ==
    [][\A id \in DOMAIN facts : id \in DOMAIN facts' /\ facts'[id] = facts[id]]_vars

(***************************************************************************)
(* The vault implements the registry the lending contract is specified     *)
(* against.                                                                *)
(***************************************************************************)
Registry == INSTANCE FactRegistry WITH
    Ledger <- [id \in TransferIds |-> Transfer(id)],
    registry <- [id \in DOMAIN facts |-> facts[id].transfer]

ImplementsRegistry == Registry!Spec
=============================================================================

# Clearbook, specified and checked

TLA+ modules for this repository: what its contracts, its worker, its challenger,
the deciding parts of its frontend and its seeding script do, checked by TLC on
small instances, and proved for every size where the prover reaches. Source paths below are relative to the
repository's root.

## The system

Clearbook is a public book of loans on Creditcoin whose every claim rests on a
transfer of another chain. An **originator** posts a bond and publishes two
windows; it registers a loan against the transfer that disbursed it, and claims a
repayment against the transfer that repaid it. Anyone may show, within the
challenge window, that the repayment was funded by the originator itself, and
takes half of the slashed bond.

| Component | State it keeps | Operations | Talks to |
|---|---|---|---|
| Evidence vault, `contracts/src/EvidenceVault.sol` | `_facts`, `exists`: the stored transfers by log-level identity | `submitTransferFact`, `submitTransferFactsBatch`, reads | block-prover precompile (verdict, transaction index); read by the lending contract |
| Lending contract, `contracts/src/Clearbook.sol` | originators, loans, treasury bindings and nonces, spent facts, its balance | `registerOriginator`, `bindTreasury`, `topUpBond`, `withdrawBond`, `registerLoan`, `claimRepayment`, `markDelinquent`, `finalize`, `challenge` | vault; pays withdrawals, bounties and the sink by external calls |
| Covenant, `contracts/src/libraries/CovenantLib.sol` | none | conditions 3 to 9 of a challenge | called by `challenge` |
| Challenge preview, `frontend/lib/predicate.ts` | none | `dryRun`, `applyTreasuryBinding` | reads the contracts |
| Ingestion worker, `worker/src` | PostgreSQL: `facts.state`, `scan_cursor` | scan, requeue, claim, advance one row at a time, submit | source chain, proof builder, precompile, vault |
| Reference challenger, `worker/src/enforce.ts` | the set of refused pairs, in memory | `sweep`, `act` | vault events, `challenge` |
| Clearance check, `frontend/lib/clearance.ts` | none | one sequence of reads | source chain, builder, vault, book |
| Collision demonstration, `frontend/app/api/collide/route.ts` | rate limits, the call in flight | `POST` | book |
| Coverage, `frontend/lib/coverage.ts`, `useCoverage` | none | one sequence of reads | both chains, vault, book |
| Challenge console, `frontend/app/challenge/page.tsx`, `frontend/lib/hooks.ts`, `data.ts` | selection, citation, one cache per query, the transaction sent | select, cite, submit | book, vault, the visitor's wallet |
| Seeding script, `demo/seed.ts` | its variables | one run, repeatable | book, vault |
| Browser verifier, prover proxy, event projection, other hooks and pages | caches | reads | all of the above |
| Deployment, other demo, integration and end-to-end scripts | none | one-off sequences | all of the above |

What is hard here, and what makes each part correct:

* **Vault.** Anyone submits anything, in any order, alone or in batches. Correct
  when it holds transfers that happened and nothing else, never rewrites one, and
  never lets one submission lock another transfer out.
* **Lending contract.** Transactions of several accounts interleave block by
  block over deadlines. Correct when the bond always covers the open loans, a
  transfer backs one claim only, a provable breach cannot be defused, and each
  claim has at every block exactly one of its two ends available.
* **Preview.** A second implementation of the contract's conditions. Correct when
  it never disagrees with the first.
* **Worker.** It dies between any two steps, any call fails, with or without having
  taken effect, strangers submit the same evidence, pending transactions outlive the
  process. Correct when good
  evidence reaches the vault in the end and no row claims what is not so.
* **Payouts.** `withdrawBond` and `challenge` hand control to the payee, which may
  call back. Correct when a callback can do nothing it could not do afterwards.
* **Challenger.** It sweeps a moving book and gives up on a pair for good after
  one refusal. Correct when what it gives up on can never succeed and every
  breach in reach is challenged.
* **Clearance, collision, coverage, console.** They read a moving chain in several
  calls, some of them cached, and answer, send or show something on that ground.
  Correct when the answer is true of the book at a moment of the reading, or stays
  true.
* **Seeding.** A script of up to six transactions that may die between any two.
  Correct when it can simply be run again.

`PROJECT.json` lists these hazards at their lines with the properties that watch
them.

## Modules

| Module | Models | Role |
|---|---|---|
| `FactRegistry` | `IEvidenceVault.sol` | abstract: a registry that grows by genuine transfers, each once |
| `EvidenceVault` | `EvidenceVault.sol` | detailed; its property `ImplementsRegistry` is the refinement |
| `VaultProofs` | | theorems about `EvidenceVault`, the refinement among them |
| `CovenantLib` | `CovenantLib.sol` | pure operators, one per condition |
| `Clearbook` | `Clearbook.sol` | detailed; extends `CovenantLib` |
| `CovenantBook` | what the book promises | abstract: a free bond per lender, one unit set aside per loan, evidence spent once |
| `ClearbookSafety` | SECURITY.md section 6 and more | the properties of `Clearbook`, and the refinement `ImplementsCovenantBook` |
| `ClearbookProofs` | | theorems about `Clearbook`: types, bond, exposure and solvency |
| `EvidenceProofs` | | theorems about evidence, loans and permanent records, and that `Clearbook` implements `CovenantBook`; extends `ClearbookProofs` |
| `VerdictProofs` | | theorems about challenges, breaches, cooldown, slashes and the preview; extends `EvidenceProofs` and `Predicate` |
| `Payouts` | `Clearbook.sol` again | the outgoing calls as steps of their own, with callbacks; its property `ImplementsClearbook` is the refinement |
| `PayoutsProofs` | | theorems that `Payouts` implements `Clearbook` and `CovenantBook` and holds what it owes |
| `RevertReasons` | `registerLoan`'s checks in order | the error a refused registration names |
| `Predicate` | `predicate.ts` | composes the preview with `Clearbook` |
| `Worker` | `worker/src` | the worker, its database, the vault and the mempool it submits through |
| `WorkerProofs` | | theorems about `Worker`: its safety, for any log, batch size and number of failures |
| `Challenger` | `worker/src/enforce.ts` | the challenger, its rivals and the mempool over `Clearbook` |
| `ChallengerProofs` | | theorem: what `Challenger` refuses stays refused; extends `VerdictProofs` |
| `Clearance` | `clearance.ts`, its page | the check over `Clearbook` |
| `Collision` | `app/api/collide/route.ts` | the route and its relayer over `RevertReasons` |
| `Coverage` | `coverage.ts`, `useCoverage` | the measurement over `Clearbook` |
| `Console` | `app/challenge/page.tsx`, four hooks | the page's caches and its transaction; `Predicate` instantiated with the cached reads |
| `Frontend` | | composes the last four with `Clearbook`, one at a time |
| `FrontendProofs` | | theorems about the four of them; extends `VerdictProofs` |
| `Seed` | `demo/seed.ts` | the script, its pending transactions and everyone else |
| `MCEvidenceVault`, `MCClearbook`, `MCPayouts`, `MCPredicate`, `MCWorker`, `MCChallenger`, `MCFrontend`, `MCSeed` | | instances |

**How state and actions correspond.** A contract call is one step, and each
revert of the code a conjunct of its guard. The vault of `Clearbook` is
`FactRegistry` seen by identity: `stored` is the set of ids it holds and `Ledger`
what the source chains did. `StoreFact` lets any transfer arrive at any moment,
which is what `EvidenceVault` is shown to implement. A signature is a triple
(originator, address, nonce) that its owner has signed. `name`, `covenants` and
event payloads are left out of the state; `balance`, `paidBounties` and
`paidSink` are added to it, the last two as history. `block.number` is advanced
by `Tick`.

In `Worker` a step is what runs up to the next `await`; `pc` names the next one.
A crash (`Crash`) keeps the database and the chain and loses the rest. Every call
may throw without effect (`RowThrows` inside `advance`, `TickThrows` outside it and
in the catch block, `PrecheckThrows` inside `verify`), and a receipt may be null
(`SkipLog`). An update of the database may also commit and throw, because its
acknowledgement is lost (`RowAckLost`, `InsertAckLost`, `CursorAckLost`,
`CatchAckLost`): the catch block of `advance` then runs on a row that already moved,
perhaps to `CONFIRMED` or `PRECHECK_FAILED`, and writes `DISCOVERED` over it
(`main.ts:133, 143, 159`). The verdict of `verify` and the update that parks the row
are therefore two steps (`PrecheckFailed` or `PrecheckThrows`, then `Park`). A
transaction that was sent though its broadcast threw is `Broadcast` followed by
`RowThrows`; an `UPDATE` of `requeueStranded` that committed and threw is `Start`
followed by `Crash`. What the model assumes is that an update which throws has taken
effect by then or never will: none arrives late, behind the next one. `losses` is
history: which transfer met which of the three failures that the code does not
recover from by itself. `confirmed` is history too: whose row ever said `CONFIRMED`. The proof builder is a classification of the
transfers: `Missing` (404), `Unavailable` (fails for ever, retriable), `Corrupt`
(a bundle that does not verify), all others good. The five attempts of `getProof`
are one step, as is the polling of `waitUntilAttested`.

In `Payouts` the variable `frame` is the outgoing call in progress: whose code runs
and what the same transaction still owes the sink. While it is not `Idle` every
unguarded function may run, of any sender (the payee can act through others),
`withdrawBond` and `challenge` may not, and no block passes. A payee that refuses
its money undoes the whole transaction, which is no step.

In `Challenger` a step is one call: the block number, `nextLoanId`, each loan, the
recent facts, one `treasuryOwner` per matching fact, then simulation, broadcast
and receipt for each candidate. `refused` is `Challenger.refused`, lost at a
restart; `dropped` is history, the pairs refused because a call threw rather than
because the contract said so. Rivals are the other accounts of `Clearbook`'s
`Next`.

The four parts of `Frontend` never talk to each other, so a behaviour follows one
of them (`visitor`) beside the whole of `Clearbook`. `Clearance` keeps the answers
as they come in; `free` is history, the legs that were free when the first
question about consumption went out. In `Collision` a send is `inFlight` and what
it has broadcast stays in `mempool` after the route gives up waiting. `Coverage`
follows one originator (the hook's others are time that passes). `Console` holds one cached
value for each query and refreshes any of them at any time, in place of the
polling intervals; a transaction already sent when the visitor selects something
else is anyone's transaction, and `Clearbook`'s.

In `Seed` a call of ethers is an estimate, which throws when the call would
revert, then a broadcast, then the wait for the receipt. `Dies` is a kill or a
read that throws, after which only the chain and `pending` remain.

Assumed of what is external: a bundle the precompile accepts is of the transaction
asked for; a broadcast transaction is mined; the query of a receipt fails for a
transaction that reverted (wagmi's default) and the page goes on calling it
pending; the deployer's key and the treasury's key are used by one seeding script
at a time.

An operator that is used nowhere and stands directly before another of the same
parameters is that other one with a plausible bug. Replacing the one by the other
breaks the property `PROJECT.json` names with it, so each property is known to
notice a bug of the code.

## Runs

`tlc -config <cfg> <module>`.

| Run | Configuration | Asks | Instance |
|---|---|---|---|
| `vault` | `MCEvidenceVault.cfg` | Does the vault hold genuine transfers only, whatever is submitted? | two chains, six transactions (two transfers in one, reverted, NFT, unknown type), honest, forged and misplaced bundles, batches of up to three, where two are allowed |
| `one_lender` | `ClearbookOne.cfg` | Do bond and verdicts stay right under every interleaving? | one originator, two loans that can fund each other's repayment, six transfers, six blocks, bond up to two units |
| `two_lenders` | `Payouts.cfg` | Is evidence spent once, are records permanent, does no money leak, and are callbacks harmless: are atomic transactions and the abstract book still implemented? | two originators, treasuries that sign for both and twice, four transfers, four blocks, every callback into an unguarded function |
| `stale_repayment` | `ClearbookStale.cfg` | *violated*: may an older transfer settle a loan? | as `one_lender` |
| `preview` | `Predicate.cfg` | Does the preview agree with the contract? | one loan, six transfers cited in every state |
| `preview_order` | `PredicateOrder.cfg` | *violated*: is the failure it names the one the contract reverts with? | as `preview` |
| `worker` | `Worker.cfg` | Is nothing lost, falsely confirmed or sent again once confirmed, under crashes, failures and lost acknowledgements? | five transfers, one of each kind, three blocks, one crash, one failed call |
| `challenger` | `Challenger.cfg` | Is every breach in reach challenged, and is only given up what can never succeed? | an open book: one claim with two funding transfers or one, a treasury still to be bound, a rival, strict or not, three blocks, one failed call or restart anywhere |
| `frontend` | `Frontend.cfg` | Are the answers, sends and previews of the four deciding parts true of the book they read piecemeal? | two lenders, four transfers, three blocks, two loans; four pasted hashes; two callers, a clock of four; two source heads |
| `seed_rerun` | `Seed.cfg` | *violated*: can the seeding script be run again? | scenarios A and B of `demo/scenarios.json`, another account, deaths at any await |
| `worker_skips` | `WorkerSkips.cfg` | *violated*: is every watched log discovered at least once? | as `worker` |
| `worker_strands` | `WorkerStrands.cfg` | *violated*: do retriable failures stay in the queue? | as `worker` |

**Why the bounds are enough to be interesting.**
`one_lender`: a window is 1 or 2 blocks, a cooldown 1, so six blocks hold two
claims, both sides of each boundary and a withdrawal after it. `BOND_PER_LOAN` is
3, so the bounty (1) and the sink's share (2) differ; in the code they are halves of 1
ether, and no division leaves a rest;
`d`, `x`, `q` and `r` make each loan's disbursement the funding leg of the other
one's repayment, `late` comes after the repayment and `far` is on another chain.
`MaxBond` allows two open loans and one more unit is never affordable, which is
where over-encumbering would show.
`two_lenders`: both treasuries sign for both originators with nonces 0 and 1, so
binding races and replays happen; `Rival` does not accept payments, so refused
payouts happen; `v` is too small a repayment by one unit. The watcher is also the
sink, so one challenge runs its code twice.
`challenger`: `x` and `y` make two candidates for one claim, of which one needs a
treasury that is bound during the sweep or after it; a window of one block closes,
and a lookback of one block runs out, inside three blocks; one fault reaches each
`catch` and the restart. The initial state is a book `Clearbook` can reach, so the
blocks are not spent on opening it.
`frontend`: one transaction carries one leg and one two, so an answer can mix legs
read in different blocks; the cap of the route is one and its window two units of a
clock that runs to three, so cap, cooldown and window boundary all bite, and
transactions outlive their wait; the two lenders race for one treasury; the
console's book has a claim whose funding fact is stored and bound only later. Both
initial books are ones `Clearbook` can reach.
`worker`: `BatchSize` 2 over three blocks makes two ranges in some scans,
`ClaimLimit` 2 over five rows more than one tick, `Lookback` 1 a first scan that
may begin after the first transfer. One crash and one failure, together and in
either order, reach every line of the recovery code. The safety and the action
properties hold with two failures as well (1,427,811 states), where a row parked
because `verify` threw is reopened by a lost acknowledgement; that run is not kept.

Deadlock is not checked where the instance ends: the blocks of a `Clearbook`
instance are bounded and every loan may have ended. The vault's and the worker's
instances never stop.

**Fairness.** `Worker` and `Challenger` have it. In `Worker`, `WF(Process)`: the loop of `main` runs for
ever, a supervisor starts the process again when it dies (`main.ts:8`
promises that a killed process can simply be started again; if nobody does, there
is no liveness to speak of), and every `await` ends with an
answer or an exception. `WF(Mine)`: a broadcast transaction is included.
`WF(Attest)`: attestors go on, up to the bound. Nothing is assumed of strangers,
of failures (they are bounded, not unfair) or of `OthersSubmit`. The second
assumption is a real one: `tx.wait()` in `worker/src/submit.ts:80` has no
timeout, so a transaction that is dropped holds the worker until it is killed.
In `Challenger`, `WF(Sweep)`: the same loop (`worker/src/main.ts:232-241`) sweeps at
the end of a tick (`main.ts:193-199`). It skips the sweep when the tick returned
early, because there is no attestation yet, or threw outside `advance`; so the
assumption is that this happens finitely often in a row, that what a tick does
before its sweep ends, and that every call of the sweep does; `WF(Mine)` as above. Neither
makes anybody else act, and `BreachIsChallenged` promises nothing for a pair that
leaves reach first: the window, the lookback and the rivals win when they are
faster.

## Findings

1. `stale_repayment`: `claimRepayment` compares no height or chain, so a transfer
   that preceded the loan settles it. `docs/THREAT_MODEL.md:23` (T18) lists this
   as mitigated.
2. `preview_order`: `predicate.ts` sorts conditions by number and names the wrong
   error when 10 or 11 fails beside one of 3 to 9.
3. `seed_rerun`: a run of `demo/seed.ts` that dies after it registered loan A and
   before it registered loan B can never be completed by another, which registers
   A again and throws `FactAlreadyUsed`; the script's own words are that it is
   safe to re-run.
4. `worker_skips`: a null receipt makes the scan pass a transfer by for good.
5. `worker_strands`: an exception in `verify` parks good evidence for good; so
   does a database failure in the catch block, until the next restart.

Met while modelling, without a run of their own (most contradict nothing the
repository says in so many words):

* The ends of a row are not final. When the update to `CONFIRMED` (`main.ts:143`) or
  `PRECHECK_FAILED` (`main.ts:133`) commits and its acknowledgement is lost, the catch
  block (`main.ts:157-159`) writes `DISCOVERED` over it, though `main.ts:6` calls
  `PRECHECK_FAILED` terminal. It does no harm: the evidence is checked once more, or
  found in the vault and not sent again (`EndedIsNotRedone`).
* `claimNext` takes the oldest rows, so `LIMIT` rows whose proofs fail for ever
  would starve all others. `NoEvidenceIsLost` holds in the instance with one such
  row and a limit of two.
* A pair the challenger was about to challenge when a call threw is refused for
  the rest of the process's life, though `enforce.ts:380-381` speaks of the next
  sweep: this is the exception `dropped` of `BreachIsChallenged`, and the property
  fails without it.
* A seeding run that dies between `registerOriginator` and `bindTreasury` makes the
  next one register a second originator with a second bond of 10 tCTC, which
  `demo/seed.ts:15-16` set out to avoid; ids read as "the newest" may be somebody
  else's, and the run then fails.
* `coverage.ts:102` counts as "proved, never claimed" each stored transfer that is no
  loan's disbursement, so repayments between treasuries and loans registered after
  the book was read are among them. The committed share is exact (`CoverageIsExact`).
* A row of the clearance page may show a leg as not in the registry and as consumed
  at once, when it was stored and used between the two reads. The answer itself
  holds (`AnswerHolds`).
* After a reverted receipt the challenge page stays "pending", and its button stays
  enabled while the wallet asks.
* `demo/run.ts:98` announces `FundingNotFromBoundTreasury` for scenario C,
  `demo/scenarios.json` and the contract say `NotTheSamePayer`.

## Proofs

Eight modules, checked by `tlapm`. Their theorems hold for every value of the
constants that the named assumptions of the modelled modules allow; TLC evaluates
these assumptions in the runs.

**The book** (`ClearbookProofs`, `EvidenceProofs`, `VerdictProofs`, `PayoutsProofs`):
any number of originators, loans, accounts and facts, every ledger, every set of
signatures; the contract's parameters are naturals, `BOND_PER_LOAN` and the block
of deployment are positive, zero is no account, address, token or fact id, and a
ledger is a function to transfers. The argument is a tower of three inductive
invariants.

* `Core` is the conjunction of `TypeOK`, `Slots` (unused slots are empty, loans
  refer to registered originators), `ExposureCountsOpenLoans` and
  `BondCoversExposure`. None of its parts is inductive alone: that `finalize`
  leaves `exposure` a natural needs it to be at least `BOND_PER_LOAN` before, which
  holds because it counts the open loans and the loan at hand is one of them; the
  count survives `registerLoan` only if the slot it fills was not already counted,
  and `registerOriginator` only if no loan yet refers to the new id; `challenge`
  takes a bond that is there because bond covers exposure. It gives `TypeCorrect`
  (no checked subtraction underflows), `ExposureAlwaysCountsOpenLoans` (I6) and
  `BondAlwaysCoversExposure` (I2). There is one lemma per action; `FullSlash` shows
  that the cap of the slash never binds.
* `Evidence` adds what a loan cites. `EvidenceSpentOnce` (I3) is not inductive
  without `ClaimedNamesRepayment`: a claim overwrites `repaymentFactId`, so the
  fact it held before would stay marked as consumed by a loan that no longer cites
  it, had it held one. `EvidenceBacked` needs that facts stay in the vault and
  treasuries stay bound. The lemma `StepsOf` sorts all transactions by what they do
  to the loan book (move a loan, open one, claim one, nothing), so the rest has
  four cases and not eleven: `EvidenceIsSpentOnce`, `LoansStayBacked`,
  `LoansAlwaysAdvance` (I4), `RecordsStayPermanent`.
* `Standing` adds time: the originator of a loan is active, and no claim of its is
  newer than the block its cooldown counts from, which is why a contract that
  remembers only the latest claim keeps the bond still after each. It gives
  `VerdictsExclude`, `BreachesStayRecomputable`, `BreachesCannotBeDefused`,
  `CooldownAlwaysHolds`; `SlashesArePaidOnce` follows a step at a time from
  `FullSlash`.
* `ClearbookIsACovenantBook`: with the bond that exposure leaves as the free bond,
  each transaction is one of `CovenantBook`'s or a stutter. `Core` turns the count
  of open loans into the difference of two storage fields, `Evidence` shows that
  new evidence is unspent; there is one lemma per transaction.
* `ContractIsSolvent` (I1): the balance is the sum of all bonds. The sum is the
  library's fold over a set, a CHOOSE of a function that equals its own unfolding.
  That there is one (`SumsExist`) and that changing one bond changes the sum by as
  much (`SumsDiffer`) are both inductions on the cardinality of the set, with the
  predicate as a set of naturals (`Induct`), because the library's induction theorem
  has an operator for a parameter.
* `PreviewMirrorsTheContract`: the eleven conditions of `dryRun` pass exactly when
  `challenge` does not revert. A condition of which the preview says "unknown" does
  not count as passed, so the theorem needs that a claimed loan always has a block,
  a registered originator and a stored repayment: `Evidence`, and `Dated`, which is
  why `DeployBlock` is positive (0 is the preview's mark of an unset block). `ProjectedBountyIsPaid` rests on
  `FullSlash`; `FailedEvidenceStaysFailed` on `RecordsStayPermanent`.
* `CallbacksAreHarmless` (`PayoutsProofs`): `PayoutsSpec => ImplementsClearbook`.
  With the share that the current transaction still owes the sink counted as paid,
  every step of `Payouts` is a step of `Clearbook` or a stutter: the guarded calls
  are the transactions themselves, `PaySink` and `Return` are stutters, and each
  unguarded call is itself, because none of them reads or writes what is owed. The
  mapping regroups sums, so the invariant `Typed` comes first. Through this theorem
  all that is proved or checked of `Clearbook` holds of the contract with callbacks:
  `CallbacksKeepCovenantBook` composes it with the refinement of `CovenantBook`, and
  `BondsAndDuesAreHeld` carries `ContractIsSolvent` over to the middle of a payout.

**The vault** (`VaultProofs`): every set of source chains, transactions and bundles,
forged ones included, and batches of any length, assuming that positions are
triples and heights naturals. Both entry points do the same thing to the vault
(`Publishes`: add genuine facts it did not hold); for a batch this rests on the
first item of each identity being a member of the batch, by well-founded
induction on indexes (`MinIsMember`). From it the invariant `AllGenuine`, and with
it `FactsStayGenuine` (I5), `NobodyIsLockedOut`, `FactsStayWritten` and
`VaultIsARegistry`, the refinement that lets `Clearbook` be specified over
`FactRegistry`. `BatchesAreSequential` is an induction on the number of items taken
(`Induct`, from the least element of the complement): storing the first k together
and the next one alone is storing the first k + 1 together (`NextItem`), because
an identity met before keeps its first item.

**The worker** (`WorkerProofs`): any log in block order, any batch size, look back
and claim limit, any number of crashes and failed calls, any classification of the
builder's answers. The invariant `Safe` has a part for each property and what the
process holds in its memory while it is about to make the property true or false:
the row in hand was claimed, though the catch block may find that it has ended
(`RowsInHand`); a row about to be confirmed has its fact in the vault, or on the way
there behind earlier transactions (`Delivered`); what was ever confirmed is in the
vault, so no row about to be broadcast is among it (`Settled`);
what is thrown with `retriable` false concerns a transfer the builder does not know
(`Parked`); a row in flight is in hand, or nobody runs, or the loss is recorded
(`Stranded`); the range being scanned begins where the cursor ends, and what is
unread of it is all that is missing (`Scanned`). It gives `ConfirmedAlwaysStored`,
`CursorAlwaysCovers`, `OnlyBadEvidenceEverParked`, `NothingEverStranded`,
`WorkerTypeCorrect`, and of the steps `EndedNeverRedone`.

**The challenger** (`ChallengerProofs`): any number of loans, facts, sweeps, rivals,
failed calls and restarts. A pair is `Ripe` once its loan was claimed, its fact is
stored and the payer is bound to the loan's originator. The lemma `BookStep` shows,
from the book's invariants, that no step of the book lets a ripe pair go, nor turns
the contract's no into a yes: the records are permanent and time only closes the
window. The invariant `Honest` then says what the process holds: claims that were
made, stored facts, candidates that are ripe because `treasuryOwner` was read first
(`Reads`); one transaction at most is waited for, and it is the current one, so a
reverted receipt is about the pair that gets refused (`Waits`); and each refusal was
ripe when it was made (`Refusals`). `RefusalsAreFinal` follows. Every step of
`Challenger` is a step of `Clearbook` or a stutter, so the book's invariants carry
over.

**The frontend** (`FrontendProofs`): any number of loans, facts, callers, visits and
steps of the book between two reads. `BookMoves` shows that whatever a part of the
frontend does to the contract is a step of the contract or none, so `Core`,
`Evidence` and `Standing` hold here too. What each part adds says what its
reads are still worth: a read of something permanent never ages, a read of anything
else was true at one known moment.

* `Sound` joins the book's three with the relayer's and the console's typing.
  A demonstration is sent only when the pinned fact is spent and that is the refusal
  simulated; spent it stays, and the checks that come before it in `registerLoan`
  cannot begin to fail (`Broadcast`). It gives `DemonstrationNeverCommits` and
  `ReportedRefusalIsTrue`. It needs `PinnedTerms.maturityBlock` to be a natural, an
  assumption that `Collision` states.
* `Checking`: the legs still free are those seen unconsumed since verification, and
  a consumed leg is consumed for ever: `ClearanceAnswersHold`.
* `Paced`: each started send lies in the past of its caller's cooldown, and those of
  the present window number at most the cap. That no hour sees more than twice
  the cap holds because an hour meets two windows at most (`Capped`):
  `SendsHaveLimits`.
* `Remembered`: each cached row differs from the loan only by what a loan may become,
  cached facts are stored, cached owners bound. With what the conditions say of the
  cache when all pass (`CachedPasses`) it gives `PreviewAgesByTimeOnly`.
  `ConfirmationIsTrue` needs `Sound` only: a receipt is about the claim still
  selected, and a breached loan stays breached.
* `Surveying`: the part of the book read so far is the book as of the block measured,
  as far as terms and disbursements go (`BookIsRead`), and the bindings read are those
  its loans rest on (`BindingsAreRead`); joined with the transfers they give exactly
  the scope (`JoinIsExact`): `CoverageHolds`.

## What is only model-checked

The liveness properties `NoEvidenceIsLost` and `BreachIsChallenged`: the installed
provers do not reason about fairness. Every other property of the runs that pass
is also a theorem. The five runs that expect a violation refute a statement of the
repository and are described under Findings.

## What is not modelled

* Widths of integers: amounts are checked `uint256` arithmetic that reverts on
  overflow, and block numbers fit 64 bits.
* EIP-712 hashing, ECDSA, Merkle and continuity proofs: external.
* Two workers at once (`KNOWN_ISSUES.md` K-021), dropped transactions, and
  reorganizations of the source chain (the worker stays behind the attested
  height).
* Attempt counters, metrics, logging and health.
* The greater part of the repository by lines: page rendering and styling
  (`frontend/app`, `frontend/components`), the text of the documentation site
  (`frontend/lib/docs`), the ABI and the recorded fixtures (`frontend/lib/abi.ts`,
  `fixtures.ts`). They hold no state that outlives a rendering and decide nothing;
  what they show comes through the hooks, one read each. The map therefore covers
  the contracts, the worker and the deciding files of the frontend, and a small
  share of all lines.
* `frontend/lib/verifier.ts` and the verify page: one proof and one precompile
  call, the first half of `Clearance` without the book. The prover proxy is a
  stateless forwarder. `CommitGuard` and `CollideButton` show the result of one call.
* `worker/src/index.ts`: a read model of events that nothing constructs.
* The other scripts of `demo/` and `integration/`: sequences run once by hand that
  drive the parts above and assert on the outcome.
* In `Coverage`, retries inside a call and chunked log queries; in `Console`, the
  list of citable facts and the connection of the wallet.

## Plan

Done: (1) `FactRegistry`, `EvidenceVault`; (2) `CovenantLib`, `Clearbook`,
`ClearbookSafety`, `CovenantBook`; (3) `ClearbookProofs`, first part;
(4) `Predicate`; (5) `Worker`; (6) `Payouts`, `PayoutsProofs`; (7) `Challenger`;
(8) `Clearance`, `Collision`, `Coverage`, `Console`, `Frontend`; (9) `Seed`;
(10) `EvidenceProofs`, `VerdictProofs`; (11) `WorkerProofs`; (12) `VaultProofs`;
(13) `ChallengerProofs`; (14) `FrontendProofs`.

Left: a theorem about `Seed` for runs that do not die between the two registrations,
which needs an invariant over the script's program counter; the liveness arguments of
the worker and the challenger as safety lemmas (what each step brings closer to its
end), as far as they can be stated without fairness.

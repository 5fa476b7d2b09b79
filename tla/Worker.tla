------------------------------- MODULE Worker -------------------------------
(***************************************************************************)
(* worker/src: the process that carries transfers from the source chain to *)
(* the vault.  Each tick scans the newly attested blocks, records the      *)
(* watched transfers in the database, claims a few and drives each through *)
(*     DISCOVERED, WAITING_ATTESTATION, PROVED, SUBMITTED, CONFIRMED.      *)
(* Database and chain survive a crash; everything else is lost.  A step is *)
(* what happens up to the next await, where the process may also be killed *)
(* and a call may fail.  An update that throws has taken effect by then or *)
(* never will.  One process runs (KNOWN_ISSUES.md K-021).                  *)
(*                                                                         *)
(* An operator used nowhere, directly before another of the same           *)
(* parameters, is the other one with a plausible bug.                      *)
(***************************************************************************)
EXTENDS Integers, Sequences, FiniteSetsExt

CONSTANTS
    Height,         \* the watched transfers in log order: the block of each
    Missing,        \* those the proof builder does not know
    Unavailable,    \* those it fails to prove every time, though it knows them
    Corrupt,        \* those for which it serves a bundle that does not verify
    BatchSize,      \* watch.ts batchSize: blocks per eth_getLogs
    Lookback,       \* watch.ts lookback, scaled
    ClaimLimit,     \* main.ts:188, scaled
    MaxHeight,      \* bound: blocks attested
    MaxCrashes,     \* bound: kills of the process
    MaxFaults       \* bound: failed calls

Transfers == DOMAIN Height

ASSUME HeightAssumption ==
    /\ Height \in Seq(Nat)
    /\ \A t, u \in Transfers : t <= u => Height[t] <= Height[u]

ASSUME WorkerAssumption ==
    /\ Missing \subseteq Transfers
    /\ Unavailable \subseteq Transfers \ Missing
    /\ Corrupt \subseteq Transfers
    /\ BatchSize \in Nat \ {0}
    /\ Lookback \in Nat
    /\ ClaimLimit \in Nat \ {0}
    /\ MaxHeight \in Nat
    /\ MaxCrashes \in Nat
    /\ MaxFaults \in Nat

VARIABLES
    attested,   \* the attested height of the source chain
    vault,      \* the transfers the vault holds
    mempool,    \* the worker's broadcast transactions, in nonce order
    state,      \* facts.state, "ABSENT" where there is no row
    cursor,     \* scan_cursor.last_block, NoCursor before the first
    pc,         \* what the process does next; "down" when there is none
    first,      \* history: the block the first recorded scan began at
    next,       \* scan: `from'
    upTo,       \* scan: `attestedHeight'
    unread,     \* scanRange: the logs not yet handled
    pending,    \* tick: the claimed rows not yet advanced
    job,        \* advance: the row, 0 when there is none
    retriable,  \* advance: what was thrown
    crashes,
    faults,
    losses,     \* history: <<how, transfer>> for each loss to a failed call
    confirmed   \* history: the transfers whose row ever said CONFIRMED

chain == <<attested, vault, mempool>>
db == <<state, cursor, first>>
scanning == <<next, upTo, unread>>
history == <<losses, confirmed>>
bounds == <<crashes, faults, history>>
vars == <<chain, db, pc, scanning, pending, job, retriable, bounds>>

NoCursor == -1

FactState == {"DISCOVERED", "WAITING_ATTESTATION", "PROVED", "PRECHECK_FAILED",
              "SUBMITTED", "CONFIRMED", "FAILED"}

InFlight == {"WAITING_ATTESTATION", "PROVED", "SUBMITTED"}

Init ==
    /\ attested = 0 /\ vault = {} /\ mempool = <<>>
    /\ state = [t \in Transfers |-> "ABSENT"]
    /\ cursor = NoCursor /\ first = 0
    /\ pc = "down"
    /\ next = 0 /\ upTo = 0 /\ unread = {}
    /\ pending = {} /\ job = 0 /\ retriable = TRUE
    /\ crashes = 0 /\ faults = 0 /\ losses = {} /\ confirmed = {}

-----------------------------------------------------------------------------
(* The chains: external.                                                   *)

Attest ==
    /\ attested < MaxHeight
    /\ attested' = attested + 1
    /\ UNCHANGED <<vault, mempool, db, pc, scanning, pending, job, retriable, bounds>>

\* The oldest transaction of the worker is mined; the vault dedupes.
Mine ==
    /\ mempool # <<>>
    /\ vault' = vault \cup {Head(mempool)}
    /\ mempool' = Tail(mempool)
    /\ UNCHANGED <<attested, db, pc, scanning, pending, job, retriable, bounds>>

\* Anyone may submit a genuine bundle.
OthersSubmit(t) ==
    /\ Height[t] <= attested
    /\ t \notin vault
    /\ vault' = vault \cup {t}
    /\ UNCHANGED <<attested, mempool, db, pc, scanning, pending, job, retriable, bounds>>

-----------------------------------------------------------------------------
(* The process.                                                            *)

Goto(from, to) == pc = from /\ pc' = to

RequeueProvedOnly(s) == IF s \in InFlight \ {"SUBMITTED"} THEN "DISCOVERED" ELSE s

Requeued(s) == IF s \in InFlight THEN "DISCOVERED" ELSE s

\* buildRuntime and requeueStranded.  A start that fails is no step, or one and a Crash.
Start ==
    /\ Goto("down", "idle")
    /\ state' = [t \in Transfers |-> Requeued(state[t])]
    /\ losses' = {loss \in losses : loss[1] # "database"}
    /\ UNCHANGED <<chain, cursor, first, scanning, pending, job, retriable, crashes, faults,
                   confirmed>>

ScanFrom ==
    IF cursor # NoCursor THEN cursor + 1
    ELSE IF attested > Lookback THEN attested - Lookback ELSE 0

\* tick reads the attested height; scan begins unless the cursor is there already.
BeginTick ==
    /\ pc = "idle"
    /\ attested > 0
    /\ pc' = IF ScanFrom > attested THEN "claim" ELSE "scan"
    /\ next' = ScanFrom
    /\ upTo' = attested
    /\ first' = IF cursor = NoCursor THEN ScanFrom ELSE first
    /\ UNCHANGED <<chain, state, cursor, unread, pending, job, retriable, bounds>>

RangeEndUncapped == next + BatchSize - 1

RangeEnd == IF next + BatchSize - 1 < upTo THEN next + BatchSize - 1 ELSE upTo

getLogs ==
    /\ Goto("scan", "insert")
    /\ next <= upTo
    /\ unread' = {t \in Transfers : Height[t] \in next..RangeEnd}
    /\ UNCHANGED <<chain, db, next, upTo, pending, job, retriable, bounds>>

ScanComplete ==
    /\ Goto("scan", "claim")
    /\ next > upTo
    /\ UNCHANGED <<chain, db, scanning, pending, job, retriable, bounds>>

\* ON CONFLICT DO NOTHING.
Inserted(t) == IF state[t] = "ABSENT" THEN "DISCOVERED" ELSE state[t]

insertDiscovered ==
    /\ Goto("insert", "insert")
    /\ unread # {}
    /\ LET t == Min(unread)
       IN  /\ unread' = unread \ {t}
           /\ state' = [state EXCEPT ![t] = Inserted(t)]
    /\ UNCHANGED <<chain, cursor, first, next, upTo, pending, job, retriable, bounds>>

\* getTransactionReceipt answers null: the log is skipped (watch.ts:110).
SkipLog ==
    /\ Goto("insert", "insert")
    /\ unread # {}
    /\ faults < MaxFaults
    /\ unread' = unread \ {Min(unread)}
    /\ faults' = faults + 1
    /\ losses' = losses \cup {<<"receipt", Min(unread)>>}
    /\ UNCHANGED <<chain, db, next, upTo, pending, job, retriable, crashes, confirmed>>

RangeReadEarly == pc = "insert"

RangeRead == pc = "insert" /\ unread = {}

\* The cursor is saved after each range.
setCursor ==
    /\ RangeRead
    /\ pc' = "scan"
    /\ cursor' = RangeEnd
    /\ next' = RangeEnd + 1
    /\ UNCHANGED <<chain, state, first, upTo, unread, pending, job, retriable, bounds>>

Oldest(rows, n) == {t \in rows : Cardinality({u \in rows : u <= t}) <= n}

\* The oldest rows that are DISCOVERED; they are taken in log order.
claimNext ==
    /\ Goto("claim", "row")
    /\ pending' = Oldest({t \in Transfers : state[t] = "DISCOVERED"}, ClaimLimit)
    /\ UNCHANGED <<chain, db, scanning, job, retriable, bounds>>

NextRow ==
    /\ Goto("row", "begin")
    /\ pending # {}
    /\ job' = Min(pending)
    /\ pending' = pending \ {Min(pending)}
    /\ UNCHANGED <<chain, db, scanning, retriable, bounds>>

EndTick ==
    /\ Goto("row", "idle")
    /\ pending = {}
    /\ job' = 0
    /\ UNCHANGED <<chain, db, scanning, pending, retriable, bounds>>

-----------------------------------------------------------------------------
(* advance: one row.                                                       *)

\* setState on the row.  Good evidence is lost as long as its row is parked.
Written(s) ==
    /\ state' = [state EXCEPT ![job] = s]
    /\ losses' = IF s = "PRECHECK_FAILED" /\ job \notin Corrupt
                   THEN losses \cup {<<"precheck", job>>}
                   ELSE losses \ {<<"precheck", job>>}
    /\ confirmed' = IF s = "CONFIRMED" THEN confirmed \cup {job} ELSE confirmed
    /\ UNCHANGED <<chain, cursor, first, next, upTo, crashes>>

\* The call returns, and advance goes on with the next step.
SetState(from, to, s) ==
    /\ Goto(from, to)
    /\ Written(s)
    /\ UNCHANGED <<unread, pending, job, retriable, faults>>

Begin == SetState("begin", "wait", "WAITING_ATTESTATION")

\* Scanning stays behind the attested height, so the wait ends.
waitUntilAttested ==
    /\ Goto("wait", "prove")
    /\ Height[job] <= attested
    /\ UNCHANGED <<chain, db, scanning, pending, job, retriable, bounds>>

getProof ==
    /\ Goto("prove", "index")
    /\ job \notin Missing \cup Unavailable
    /\ UNCHANGED <<chain, db, scanning, pending, job, retriable, bounds>>

\* NOT_FOUND, the one failure of the builder that is not retriable.
NotFound ==
    /\ Goto("prove", "catch")
    /\ job \in Missing
    /\ retriable' = FALSE
    /\ UNCHANGED <<chain, db, scanning, pending, job, bounds>>

\* NOT_ATTESTED or SERVICE_ERROR to the last of the attempts: retriable.
ServiceError ==
    /\ Goto("prove", "catch")
    /\ job \in Unavailable
    /\ retriable' = TRUE
    /\ UNCHANGED <<chain, db, scanning, pending, job, bounds>>

Proved == SetState("index", "precheck", "PROVED")

Precheck ==
    /\ Goto("precheck", "mark")
    /\ job \notin Corrupt
    /\ UNCHANGED <<chain, db, scanning, pending, job, retriable, bounds>>

PrecheckFailed ==
    /\ Goto("precheck", "park")
    /\ job \in Corrupt
    /\ UNCHANGED <<chain, db, scanning, pending, job, retriable, bounds>>

\* verify() throws whatever the reason: the row is parked all the same.
PrecheckThrows ==
    /\ faults < MaxFaults
    /\ Goto("precheck", "park")
    /\ faults' = faults + 1
    /\ UNCHANGED <<chain, db, scanning, pending, job, retriable, crashes, history>>

Park == SetState("park", "row", "PRECHECK_FAILED")

ConfirmedAtOnce == "CONFIRMED"

StateBeforeSubmit == "SUBMITTED"

Mark == SetState("mark", "submit", StateBeforeSubmit)

\* submit asks the vault first; its answer may be stale when the bundle is broadcast.
AlreadyExisted ==
    /\ Goto("submit", "confirm")
    /\ job \in vault
    /\ UNCHANGED <<chain, db, scanning, pending, job, retriable, bounds>>

SubmitAnyway ==
    /\ Goto("submit", "broadcast")
    /\ UNCHANGED <<chain, db, scanning, pending, job, retriable, bounds>>

NotThereYet ==
    /\ Goto("submit", "broadcast")
    /\ job \notin vault
    /\ UNCHANGED <<chain, db, scanning, pending, job, retriable, bounds>>

Broadcast ==
    /\ Goto("broadcast", "receipt")
    /\ mempool' = Append(mempool, job)
    /\ UNCHANGED <<attested, vault, db, scanning, pending, job, retriable, bounds>>

\* The process broadcasts nothing while it waits, so its transaction is the last.
Receipt ==
    /\ Goto("receipt", "confirm")
    /\ mempool = <<>>
    /\ UNCHANGED <<chain, db, scanning, pending, job, retriable, bounds>>

Confirm == SetState("confirm", "row", "CONFIRMED")

ParkAll == "FAILED"

Afterwards == IF retriable THEN "DISCOVERED" ELSE "FAILED"

Catch ==
    /\ Goto("catch", "row")
    /\ Written(Afterwards)
    /\ retriable' = TRUE
    /\ UNCHANGED <<unread, pending, job, faults>>

-----------------------------------------------------------------------------
(* Failures.                                                               *)

\* A call of the source chain, the builder, Creditcoin or the database throws inside
\* advance and has had no effect: a retriable failure.
RowThrows ==
    /\ faults < MaxFaults
    /\ pc \in {"begin", "wait", "prove", "index", "park", "mark", "submit", "broadcast",
               "receipt", "confirm"}
    /\ pc' = "catch"
    /\ retriable' = TRUE
    /\ faults' = faults + 1
    /\ UNCHANGED <<chain, db, scanning, pending, job, crashes, history>>

\* The update has taken effect and its acknowledgement is lost: the catch block runs
\* all the same, on a row that may have reached its end.  (A broadcast that throws
\* after it was sent is Broadcast, and RowThrows at the receipt.)
RowAckLost ==
    /\ faults < MaxFaults
    /\ \/ pc = "begin" /\ Written("WAITING_ATTESTATION")
       \/ pc = "index" /\ Written("PROVED")
       \/ pc = "park" /\ Written("PRECHECK_FAILED")
       \/ pc = "mark" /\ Written(StateBeforeSubmit)
       \/ pc = "confirm" /\ Written("CONFIRMED")
    /\ pc' = "catch"
    /\ retriable' = TRUE
    /\ faults' = faults + 1
    /\ UNCHANGED <<unread, pending, job>>

\* What throws outside advance's try ends the tick; the loop goes on with the next one.
TickEnds ==
    /\ faults < MaxFaults
    /\ pc' = "idle"
    /\ faults' = faults + 1
    /\ unread' = {} /\ pending' = {} /\ job' = 0 /\ retriable' = TRUE
    /\ UNCHANGED <<chain, first, next, upTo, crashes, confirmed>>

\* In the catch block this leaves the row in whatever state it had.
TickThrows ==
    /\ TickEnds
    /\ pc \in {"scan", "insert", "claim", "catch"}
    /\ losses' = IF pc = "catch" /\ state[job] \in InFlight
                   THEN losses \cup {<<"database", job>>}
                   ELSE losses
    /\ UNCHANGED <<state, cursor>>

\* The insert, the cursor or the catch block's update has taken effect nevertheless.
InsertAckLost ==
    /\ TickEnds
    /\ pc = "insert"
    /\ unread # {}
    /\ state' = [state EXCEPT ![Min(unread)] = Inserted(Min(unread))]
    /\ UNCHANGED <<cursor, losses>>

CursorAckLost ==
    /\ TickEnds
    /\ RangeRead
    /\ cursor' = RangeEnd
    /\ UNCHANGED <<state, losses>>

CatchAckLost ==
    /\ TickEnds
    /\ pc = "catch"
    /\ Written(Afterwards)

\* The process is killed, or shut down in the middle of a tick.
Crash ==
    /\ crashes < MaxCrashes
    /\ pc # "down"
    /\ pc' = "down"
    /\ crashes' = crashes + 1
    /\ next' = 0 /\ upTo' = 0 /\ unread' = {}
    /\ pending' = {} /\ job' = 0 /\ retriable' = TRUE
    /\ UNCHANGED <<chain, db, faults, history>>

-----------------------------------------------------------------------------
Process ==
    \/ Start \/ BeginTick \/ getLogs \/ ScanComplete \/ insertDiscovered \/ setCursor
    \/ claimNext \/ NextRow \/ EndTick
    \/ Begin \/ waitUntilAttested \/ getProof \/ NotFound \/ ServiceError \/ Proved
    \/ Precheck \/ PrecheckFailed \/ Park \/ Mark
    \/ AlreadyExisted \/ NotThereYet \/ Broadcast \/ Receipt \/ Confirm \/ Catch

Environment ==
    \/ Attest \/ Mine \/ \E t \in Transfers : OthersSubmit(t)

Failure ==
    \/ SkipLog \/ PrecheckThrows \/ RowThrows \/ RowAckLost
    \/ TickThrows \/ InsertAckLost \/ CursorAckLost \/ CatchAckLost \/ Crash

Next == Process \/ Environment \/ Failure

\* The loop runs for ever and is started again when it dies; every call returns or
\* throws; a broadcast transaction is mined; blocks are attested up to the bound.
Fairness == WF_vars(Process) /\ WF_vars(Mine) /\ WF_vars(Attest)

Spec == Init /\ [][Next]_vars /\ Fairness

-----------------------------------------------------------------------------
Steps == {"down", "idle", "scan", "insert", "claim", "row", "begin", "wait", "prove",
          "index", "precheck", "park", "mark", "submit", "broadcast", "receipt", "confirm",
          "catch"}

(* Every variable has its type. *)
TypeOK ==
    /\ attested \in 0..MaxHeight
    /\ vault \subseteq Transfers
    /\ mempool \in Seq(Transfers)
    /\ state \in [Transfers -> FactState \cup {"ABSENT"}]
    /\ cursor \in {NoCursor} \cup 0..MaxHeight
    /\ pc \in Steps
    /\ first \in 0..MaxHeight
    /\ next \in 0..(MaxHeight + 1)
    /\ upTo \in 0..MaxHeight
    /\ unread \subseteq Transfers
    /\ pending \subseteq Transfers
    /\ job \in {0} \cup Transfers
    /\ retriable \in BOOLEAN
    /\ crashes \in 0..MaxCrashes
    /\ faults \in 0..MaxFaults
    /\ losses \subseteq {"receipt", "precheck", "database"} \X Transfers
    /\ confirmed \subseteq Transfers

(***************************************************************************)
(* A row says CONFIRMED only of a fact the vault holds, whether this       *)
(* process stored it, an earlier life of it did, or a stranger.            *)
(***************************************************************************)
ConfirmedIsStored ==
    \A t \in Transfers : state[t] = "CONFIRMED" => t \in vault

(***************************************************************************)
(* watch.ts:5: the cursor never passes a watched transfer that has no row, *)
(* wherever in a range the process was killed or a call failed; except one *)
(* whose receipt the node answered null to.                                *)
(***************************************************************************)
BehindCursor(t) == cursor # NoCursor /\ Height[t] \in first..cursor

CursorCovers ==
    \A t \in Transfers :
        BehindCursor(t) => state[t] # "ABSENT" \/ <<"receipt", t>> \in losses

(***************************************************************************)
(* A row is parked for good only for what is wrong with its evidence, and  *)
(* not for what went wrong around it; except when verify() itself failed.  *)
(***************************************************************************)
OnlyBadEvidenceIsParked ==
    \A t \in Transfers :
        /\ state[t] = "FAILED" => t \in Missing
        /\ state[t] = "PRECHECK_FAILED" => t \in Corrupt \/ <<"precheck", t>> \in losses

(***************************************************************************)
(* db.ts:137: between two ticks of a running process no row is in a state  *)
(* that nothing moves it out of, after any number of crashes; except one   *)
(* whose failure the database did not take either.                         *)
(***************************************************************************)
NothingStranded ==
    pc = "idle" =>
        \A t \in Transfers : state[t] \in InFlight => <<"database", t>> \in losses

(***************************************************************************)
(* What is ended is not done again.  Requeueing, rediscovering and         *)
(* claiming leave a row that reached an end alone; only the catch block    *)
(* takes it up again, when the update that ended the row in hand threw     *)
(* though it had taken effect (main.ts:133, 143, 159), and never from      *)
(* FAILED.  And main.ts:9, the replay is a no-op: a transfer that was once *)
(* confirmed is not broadcast again, though its row may be reopened, go    *)
(* round the whole pipeline and be interrupted there, because submit asks  *)
(* the vault first.                                                        *)
(***************************************************************************)
EndedIsNotRedone ==
    [][/\ \A t \in Transfers :
             state[t] \in {"CONFIRMED", "PRECHECK_FAILED", "FAILED"} /\ state'[t] # state[t] =>
                 /\ pc = "catch" /\ t = job
                 /\ state[t] # "FAILED"
                 /\ state'[t] = "DISCOVERED"
       /\ \A t \in confirmed : mempool' # Append(mempool, t)]_vars

(***************************************************************************)
(* main.ts:8: no evidence is lost.  Every transfer with good evidence in a *)
(* block attested since the first scan is confirmed in the end, however    *)
(* often the process dies or a call fails, unless it met one of the three  *)
(* failures named above.  This needs fewer rows that fail for ever than    *)
(* claimNext takes: it takes the oldest, and ClaimLimit such rows would be *)
(* taken in every tick, before any other.                                  *)
(***************************************************************************)
Ingested(t) ==
    \/ state[t] = "CONFIRMED"
    \/ Height[t] < first
    \/ \E how \in {"receipt", "precheck", "database"} : <<how, t>> \in losses

NoEvidenceIsLost ==
    \A t \in Transfers \ (Missing \cup Unavailable \cup Corrupt) :
        []( Height[t] <= attested => <>[]Ingested(t) )

-----------------------------------------------------------------------------
(***************************************************************************)
(* watch.ts:5: "At-least-once by design: re-discovering the same log is    *)
(* harmless".  The scan never passes a watched transfer by.                *)
(***************************************************************************)
AtLeastOnce ==
    \A t \in Transfers : BehindCursor(t) => state[t] # "ABSENT"

(***************************************************************************)
(* main.ts:156: "Retriable failures stay in the queue; permanent ones are  *)
(* parked."  Between ticks, good evidence that was discovered is confirmed *)
(* or in the queue.                                                        *)
(***************************************************************************)
RetriableStaysQueued ==
    pc = "idle" =>
        \A t \in Transfers \ (Missing \cup Corrupt) :
            state[t] \in {"ABSENT", "DISCOVERED", "CONFIRMED"}
=============================================================================

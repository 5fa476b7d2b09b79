----------------------------- MODULE WorkerProofs -----------------------------
(***************************************************************************)
(* The safety of the worker, for any source chain, any batch size, look     *)
(* back and claim limit, and any number of crashes and failed calls.        *)
(* Liveness (NoEvidenceIsLost) stays with TLC.                              *)
(***************************************************************************)
EXTENDS Worker, WellFoundedInduction, TLAPS

\* Where advance is at work on the row `job'.
RowSteps == {"begin", "wait", "prove", "index", "precheck", "park", "mark", "submit",
             "broadcast", "receipt", "confirm", "catch"}

\* The row in hand is one that was claimed, and the rows still to take are queued.  The
\* catch block may find the row ended, when the update that ended it seemed to fail.
RowsInHand ==
    /\ \A t \in pending : state[t] = "DISCOVERED"
    /\ pc \in RowSteps => job \in Transfers \ pending
    /\ pc = "begin" => state[job] = "DISCOVERED"
    /\ pc = "catch" => state[job] \in
          InFlight \cup {"DISCOVERED", "CONFIRMED", "PRECHECK_FAILED"}
    /\ pc = "catch" /\ ~ retriable => state[job] \in InFlight
    /\ pc \in RowSteps \ {"begin", "catch"} => state[job] \in InFlight

\* A row about to be confirmed has its fact in the vault, or on the way there.
Delivered ==
    /\ ConfirmedIsStored
    /\ pc = "confirm" => job \in vault
    /\ pc = "receipt" => job \in vault \/ \E i \in 1..Len(mempool) : mempool[i] = job

\* What was confirmed is in the vault, so submit's question cannot be answered no again.
Settled ==
    /\ confirmed \subseteq vault
    /\ pc = "broadcast" => job \notin confirmed

\* A failure is permanent only when the builder does not know the transfer.
Parked ==
    /\ OnlyBadEvidenceIsParked
    /\ pc = "catch" /\ ~ retriable => job \in Missing

\* A row in flight is in hand, or waits for the next start, or is a recorded loss.
Stranded ==
    \A t \in Transfers : state[t] \in InFlight =>
        \/ pc = "down"
        \/ pc \in RowSteps /\ t = job
        \/ <<"database", t>> \in losses

Seen(t) == state[t] # "ABSENT" \/ <<"receipt", t>> \in losses

\* A scan continues where the cursor ends, and a range is seen but for what is unread.
Scanned ==
    /\ CursorCovers
    /\ pc \in {"scan", "insert"} => next = IF cursor = NoCursor THEN first ELSE cursor + 1
    /\ pc = "insert" =>
          \A t \in Transfers : Height[t] \in next..RangeEnd => t \in unread \/ Seen(t)

-----------------------------------------------------------------------------
LEMMA TransfersAreNumbers == Transfers \subseteq Nat \ {0}
BY HeightAssumption DEF Transfers

LEMMA HeightsAreNumbers == \A t \in Transfers : Height[t] \in Nat
BY HeightAssumption DEF Transfers

\* The least of some transfers is one of them.
LEMMA MinIsMember ==
    ASSUME NEW S \in SUBSET Transfers, S # {}
    PROVE  Min(S) \in S
<1>1. S \subseteq Nat
  BY TransfersAreNumbers
<1>2. PICK x \in S : \A y \in S : ~ (<<y, x>> \in OpToRel(<, Nat))
  BY <1>1, WFMin, NatLessThanWellFounded
<1>3. \A y \in S : ~ (y < x)
  BY <1>1, <1>2, Zenon DEF OpToRel
<1>4. \A y \in S : x =< y
  BY <1>1, <1>3
<1>5. QED
  BY <1>4 DEF Min

-----------------------------------------------------------------------------
(* Types.                                                                  *)

LEMMA TypedInit == Init => TypeOK
BY HeightAssumption, WorkerAssumption
DEF Init, TypeOK, NoCursor, Steps, FactState

\* Where a range ends, and where the next one would begin.
LEMMA RangeEndTyped ==
    ASSUME TypeOK
    PROVE  RangeEnd \in 0..MaxHeight /\ RangeEnd + 1 \in 0..(MaxHeight + 1) /\ RangeEnd <= upTo
<1>1. next \in Nat /\ upTo \in 0..MaxHeight /\ BatchSize \in Nat \ {0} /\ MaxHeight \in Nat
  BY WorkerAssumption DEF TypeOK
<1>2. QED
  BY <1>1 DEF RangeEnd

LEMMA ScanFromTyped ==
    ASSUME TypeOK
    PROVE  /\ ScanFrom \in 0..(MaxHeight + 1)
           /\ cursor = NoCursor => ScanFrom \in 0..MaxHeight
<1>1. /\ attested \in 0..MaxHeight /\ cursor \in {-1} \cup 0..MaxHeight
      /\ Lookback \in Nat /\ MaxHeight \in Nat
  BY WorkerAssumption DEF TypeOK, NoCursor
<1>2. QED
  BY <1>1 DEF ScanFrom, NoCursor

\* What writing the row in hand leaves of the types.
LEMMA WrittenTyped ==
    ASSUME TypeOK, RowsInHand, pc \in RowSteps, NEW s \in FactState, Written(s)
    PROVE  /\ attested' \in 0..MaxHeight /\ vault' \subseteq Transfers
           /\ mempool' \in Seq(Transfers)
           /\ state' \in [Transfers -> FactState \cup {"ABSENT"}]
           /\ cursor' \in {NoCursor} \cup 0..MaxHeight /\ first' \in 0..MaxHeight
           /\ next' \in 0..(MaxHeight + 1) /\ upTo' \in 0..MaxHeight
           /\ crashes' \in 0..MaxCrashes
           /\ losses' \subseteq {"receipt", "precheck", "database"} \X Transfers
           /\ confirmed' \subseteq Transfers
<1>1. job \in Transfers
  BY DEF RowsInHand
<1>2. UNCHANGED <<attested, vault, mempool, cursor, first, next, upTo, crashes>>
  BY DEF Written, chain
<1>3. state' \in [Transfers -> FactState \cup {"ABSENT"}]
  BY DEF Written, TypeOK
<1>4. losses' \subseteq {"receipt", "precheck", "database"} \X Transfers
  BY <1>1 DEF Written, TypeOK
<1>5. confirmed' \subseteq Transfers
  BY <1>1 DEF Written, TypeOK
<1>6. QED
  BY <1>2, <1>3, <1>4, <1>5 DEF TypeOK

LEMMA TypedNext ==
    ASSUME TypeOK, RowsInHand, [Next]_vars
    PROVE  TypeOK'
<1> USE WorkerAssumption DEF TypeOK, Goto, Steps, FactState, chain, db, scanning, bounds, history
<1>0. CASE UNCHANGED vars
  BY <1>0 DEF vars
<1>1. CASE Environment
  <2>1. CASE Attest
    BY <2>1 DEF Attest
  <2>2. CASE Mine
    BY <2>2 DEF Mine
  <2>3. CASE \E t \in Transfers : OthersSubmit(t)
    BY <2>3 DEF OthersSubmit
  <2>4. QED
    BY <1>1, <2>1, <2>2, <2>3 DEF Environment
<1>2. CASE Failure
  <2>1. CASE SkipLog
    BY <2>1, MinIsMember DEF SkipLog
  <2>2. CASE PrecheckThrows
    BY <2>2 DEF PrecheckThrows, RowsInHand, RowSteps
  <2>3. CASE RowThrows
    BY <2>3 DEF RowThrows
  <2>4. CASE TickThrows
    BY <2>4 DEF TickThrows, TickEnds, RowsInHand, RowSteps
  <2>5. CASE Crash
    BY <2>5 DEF Crash
  <2>6. CASE RowAckLost
    <3>1. PICK s \in FactState : Written(s)
      BY <2>6 DEF RowAckLost, StateBeforeSubmit
    <3>2. QED
      BY <2>6, <3>1, WrittenTyped DEF RowAckLost, RowSteps
  <2>7. CASE InsertAckLost
    BY <2>7, MinIsMember DEF InsertAckLost, TickEnds, Inserted
  <2>8. CASE CursorAckLost
    BY <2>8, RangeEndTyped DEF CursorAckLost, TickEnds, RangeRead
  <2>9. CASE CatchAckLost
    <3>1. Afterwards \in FactState
      BY DEF Afterwards
    <3>2. QED
      BY <2>9, <3>1, WrittenTyped DEF CatchAckLost, TickEnds, RowSteps
  <2>10. QED
    BY <1>2, <2>1, <2>2, <2>3, <2>4, <2>5, <2>6, <2>7, <2>8, <2>9 DEF Failure
<1>3. CASE Start
  BY <1>3 DEF Start, Requeued, InFlight
<1>4. CASE BeginTick
  BY <1>4, ScanFromTyped DEF BeginTick
<1>5. CASE getLogs \/ ScanComplete
  BY <1>5 DEF getLogs, ScanComplete
<1>6. CASE insertDiscovered
  BY <1>6, MinIsMember DEF insertDiscovered, Inserted
<1>7. CASE setCursor
  BY <1>7, RangeEndTyped DEF setCursor, RangeRead
<1>8. CASE claimNext \/ EndTick
  BY <1>8 DEF claimNext, Oldest, EndTick
<1>9. CASE NextRow
  BY <1>9, MinIsMember DEF NextRow
<1>10. CASE Begin \/ Proved \/ Park \/ Mark \/ Confirm
  <2>1. PICK s \in FactState : Written(s)
    BY <1>10 DEF Begin, Proved, Park, Mark, Confirm, StateBeforeSubmit, SetState
  <2>2. QED
    BY <1>10, <2>1, WrittenTyped DEF Begin, Proved, Park, Mark, Confirm, SetState, RowSteps
<1>11. CASE waitUntilAttested \/ getProof \/ NotFound \/ ServiceError \/ Precheck
            \/ PrecheckFailed
  BY <1>11 DEF waitUntilAttested, getProof, NotFound, ServiceError, Precheck, PrecheckFailed
<1>12. CASE AlreadyExisted \/ NotThereYet \/ Receipt
  BY <1>12 DEF AlreadyExisted, NotThereYet, Receipt
<1>13. CASE Broadcast
  BY <1>13 DEF Broadcast, RowsInHand, RowSteps
<1>14. CASE Catch
  <2>1. Afterwards \in FactState
    BY DEF Afterwards
  <2>2. QED
    BY <1>14, <2>1, WrittenTyped DEF Catch, RowSteps
<1>15. QED
  BY <1>0, <1>1, <1>2, <1>3, <1>4, <1>5, <1>6, <1>7, <1>8, <1>9, <1>10, <1>11, <1>12,
     <1>13, <1>14 DEF Next, Process

-----------------------------------------------------------------------------
(* The row in hand.                                                        *)

LEMMA RowsInHandNext ==
    ASSUME TypeOK, RowsInHand, [Next]_vars
    PROVE  RowsInHand'
<1> USE DEF TypeOK, RowsInHand, RowSteps, Goto, SetState, Written, InFlight,
            chain, db, scanning, bounds, history
<1>0. CASE UNCHANGED vars
  BY <1>0 DEF vars
<1>1. CASE Environment
  BY <1>1 DEF Environment, Attest, Mine, OthersSubmit
<1>2. CASE Failure
  <2>1. CASE SkipLog
    BY <2>1 DEF SkipLog
  <2>2. CASE PrecheckThrows
    BY <2>2 DEF PrecheckThrows
  <2>3. CASE RowThrows
    BY <2>3 DEF RowThrows
  <2>4. CASE TickThrows
    BY <2>4 DEF TickThrows, TickEnds
  <2>5. CASE Crash
    BY <2>5 DEF Crash
  <2>6. CASE RowAckLost
    BY <2>6 DEF RowAckLost, StateBeforeSubmit
  <2>7. CASE InsertAckLost
    BY <2>7, MinIsMember DEF InsertAckLost, TickEnds, Inserted
  <2>8. CASE CursorAckLost
    BY <2>8 DEF CursorAckLost, TickEnds, RangeRead
  <2>9. CASE CatchAckLost
    BY <2>9 DEF CatchAckLost, TickEnds, Afterwards
  <2>10. QED
    BY <1>2, <2>1, <2>2, <2>3, <2>4, <2>5, <2>6, <2>7, <2>8, <2>9 DEF Failure
<1>3. CASE Start
  BY <1>3 DEF Start, Requeued
<1>4. CASE BeginTick \/ getLogs \/ ScanComplete \/ setCursor
  BY <1>4 DEF BeginTick, getLogs, ScanComplete, setCursor, RangeRead
<1>5. CASE insertDiscovered
  BY <1>5 DEF insertDiscovered, Inserted
<1>6. CASE claimNext \/ EndTick
  BY <1>6 DEF claimNext, Oldest, EndTick
<1>7. CASE NextRow
  BY <1>7, MinIsMember DEF NextRow
<1>8. CASE Begin \/ Proved \/ Park \/ Mark \/ Confirm
  BY <1>8 DEF Begin, Proved, Park, Mark, Confirm, StateBeforeSubmit
<1>9. CASE waitUntilAttested \/ getProof \/ NotFound \/ ServiceError \/ Precheck
            \/ PrecheckFailed
  BY <1>9 DEF waitUntilAttested, getProof, NotFound, ServiceError, Precheck, PrecheckFailed
<1>10. CASE AlreadyExisted \/ NotThereYet \/ Broadcast \/ Receipt
  BY <1>10 DEF AlreadyExisted, NotThereYet, Broadcast, Receipt
<1>11. CASE Catch
  BY <1>11 DEF Catch, Afterwards
<1>12. QED
  BY <1>0, <1>1, <1>2, <1>3, <1>4, <1>5, <1>6, <1>7, <1>8, <1>9, <1>10, <1>11
  DEF Next, Process

-----------------------------------------------------------------------------
(* What is confirmed is in the vault.                                      *)

LEMMA DeliveredNext ==
    ASSUME TypeOK, RowsInHand, Delivered, [Next]_vars
    PROVE  Delivered'
<1> USE DEF TypeOK, Delivered, ConfirmedIsStored, Goto, SetState, Written,
            chain, db, scanning, bounds, history
<1>0. CASE UNCHANGED vars
  BY <1>0 DEF vars
<1>1. CASE Attest \/ \E t \in Transfers : OthersSubmit(t)
  BY <1>1 DEF Attest, OthersSubmit
<1>2. CASE Mine
  <2>1. \A i \in 1..Len(mempool) :
           mempool[i] \in vault' \/ \E j \in 1..Len(mempool') : mempool'[j] = mempool[i]
    <3>1. TAKE i \in 1..Len(mempool)
    <3>2. CASE i = 1
      BY <1>2, <3>2 DEF Mine
    <3>3. CASE i # 1
      <4>1. i - 1 \in 1..Len(mempool') /\ mempool'[i - 1] = mempool[i]
        BY <1>2, <3>3 DEF Mine
      <4>2. QED
        BY <4>1
    <3>4. QED
      BY <3>2, <3>3
  <2>2. vault \subseteq vault' /\ UNCHANGED <<state, pc, job>>
    BY <1>2 DEF Mine
  <2>3. QED
    BY <2>1, <2>2
<1>3. CASE Failure
  <2>1. CASE SkipLog \/ PrecheckThrows \/ RowThrows \/ Crash
    BY <2>1 DEF SkipLog, PrecheckThrows, RowThrows, Crash
  <2>2. CASE RowAckLost
    BY <2>2 DEF RowAckLost, StateBeforeSubmit
  <2>3. CASE TickThrows
    BY <2>3 DEF TickThrows, TickEnds
  <2>4. CASE InsertAckLost
    BY <2>4 DEF InsertAckLost, TickEnds, Inserted
  <2>5. CASE CursorAckLost
    BY <2>5 DEF CursorAckLost, TickEnds
  <2>6. CASE CatchAckLost
    BY <2>6 DEF CatchAckLost, TickEnds, Afterwards
  <2>7. QED
    BY <1>3, <2>1, <2>2, <2>3, <2>4, <2>5, <2>6 DEF Failure
<1>4. CASE Start
  BY <1>4 DEF Start, Requeued
<1>5. CASE BeginTick \/ getLogs \/ ScanComplete \/ setCursor
  BY <1>5 DEF BeginTick, getLogs, ScanComplete, setCursor, RangeRead
<1>6. CASE insertDiscovered
  BY <1>6 DEF insertDiscovered, Inserted
<1>7. CASE claimNext \/ EndTick \/ NextRow
  BY <1>7 DEF claimNext, EndTick, NextRow
<1>8. CASE Begin \/ Proved \/ Park \/ Mark \/ Confirm
  BY <1>8 DEF Begin, Proved, Park, Mark, Confirm, StateBeforeSubmit
<1>9. CASE waitUntilAttested \/ getProof \/ NotFound \/ ServiceError \/ Precheck
            \/ PrecheckFailed
  BY <1>9 DEF waitUntilAttested, getProof, NotFound, ServiceError, Precheck, PrecheckFailed
<1>10. CASE AlreadyExisted \/ NotThereYet \/ Receipt
  BY <1>10 DEF AlreadyExisted, NotThereYet, Receipt
<1>11. CASE Broadcast
  <2>1. job \in Transfers
    BY <1>11 DEF Broadcast, RowsInHand, RowSteps
  <2>2. Len(mempool') \in 1..Len(mempool') /\ mempool'[Len(mempool')] = job
    BY <1>11, <2>1 DEF Broadcast
  <2>3. QED
    BY <1>11, <2>2 DEF Broadcast
<1>12. CASE Catch
  BY <1>12 DEF Catch, Afterwards
<1>13. QED
  BY <1>0, <1>1, <1>2, <1>3, <1>4, <1>5, <1>6, <1>7, <1>8, <1>9, <1>10, <1>11, <1>12
  DEF Next, Process, Environment

LEMMA SettledNext ==
    ASSUME TypeOK, Delivered, Settled, [Next]_vars
    PROVE  Settled'
<1> USE DEF TypeOK, Settled, Goto, SetState, Written, chain, db, scanning, bounds, history
<1>0. CASE UNCHANGED vars
  BY <1>0 DEF vars
<1>1. CASE Environment
  BY <1>1 DEF Environment, Attest, Mine, OthersSubmit
<1>2. CASE Failure
  <2>1. CASE SkipLog \/ PrecheckThrows \/ RowThrows \/ Crash
    BY <2>1 DEF SkipLog, PrecheckThrows, RowThrows, Crash
  <2>2. CASE RowAckLost
    BY <2>2 DEF RowAckLost, StateBeforeSubmit, Delivered
  <2>3. CASE TickThrows \/ InsertAckLost \/ CursorAckLost
    BY <2>3 DEF TickThrows, InsertAckLost, CursorAckLost, TickEnds
  <2>4. CASE CatchAckLost
    BY <2>4 DEF CatchAckLost, TickEnds, Afterwards
  <2>5. QED
    BY <1>2, <2>1, <2>2, <2>3, <2>4 DEF Failure
<1>3. CASE Start \/ BeginTick \/ getLogs \/ ScanComplete \/ insertDiscovered \/ setCursor
  BY <1>3 DEF Start, BeginTick, getLogs, ScanComplete, insertDiscovered, setCursor
<1>4. CASE claimNext \/ EndTick \/ NextRow
  BY <1>4 DEF claimNext, EndTick, NextRow
<1>5. CASE Begin \/ Proved \/ Park \/ Mark \/ Confirm
  BY <1>5 DEF Begin, Proved, Park, Mark, Confirm, StateBeforeSubmit, Delivered
<1>6. CASE waitUntilAttested \/ getProof \/ NotFound \/ ServiceError \/ Precheck
            \/ PrecheckFailed
  BY <1>6 DEF waitUntilAttested, getProof, NotFound, ServiceError, Precheck, PrecheckFailed
<1>7. CASE AlreadyExisted \/ NotThereYet \/ Broadcast \/ Receipt
  BY <1>7 DEF AlreadyExisted, NotThereYet, Broadcast, Receipt
<1>8. CASE Catch
  BY <1>8 DEF Catch, Afterwards
<1>9. QED
  BY <1>0, <1>1, <1>2, <1>3, <1>4, <1>5, <1>6, <1>7, <1>8 DEF Next, Process

-----------------------------------------------------------------------------
(* Rows that are parked, and rows that are stranded.                       *)

LEMMA ParkedNext ==
    ASSUME TypeOK, RowsInHand, Parked, [Next]_vars
    PROVE  Parked'
<1> USE DEF TypeOK, Parked, OnlyBadEvidenceIsParked, Goto, SetState, Written,
            chain, db, scanning, bounds, history
<1>0. CASE UNCHANGED vars
  BY <1>0 DEF vars
<1>1. CASE Environment
  BY <1>1 DEF Environment, Attest, Mine, OthersSubmit
<1>2. CASE Failure
  <2>1. CASE SkipLog \/ PrecheckThrows \/ RowThrows \/ Crash
    BY <2>1 DEF SkipLog, PrecheckThrows, RowThrows, Crash
  <2>2. CASE RowAckLost
    BY <2>2 DEF RowAckLost, StateBeforeSubmit
  <2>3. CASE TickThrows
    BY <2>3 DEF TickThrows, TickEnds
  <2>4. CASE InsertAckLost
    BY <2>4 DEF InsertAckLost, TickEnds, Inserted
  <2>5. CASE CursorAckLost
    BY <2>5 DEF CursorAckLost, TickEnds
  <2>6. CASE CatchAckLost
    BY <2>6 DEF CatchAckLost, TickEnds, Afterwards
  <2>7. QED
    BY <1>2, <2>1, <2>2, <2>3, <2>4, <2>5, <2>6 DEF Failure
<1>3. CASE Start
  BY <1>3 DEF Start, Requeued, InFlight
<1>4. CASE BeginTick \/ getLogs \/ ScanComplete \/ setCursor
  BY <1>4 DEF BeginTick, getLogs, ScanComplete, setCursor, RangeRead
<1>5. CASE insertDiscovered
  BY <1>5 DEF insertDiscovered, Inserted
<1>6. CASE claimNext \/ EndTick \/ NextRow
  BY <1>6 DEF claimNext, EndTick, NextRow
<1>7. CASE Begin \/ Proved \/ Park \/ Mark \/ Confirm
  BY <1>7 DEF Begin, Proved, Park, Mark, Confirm, StateBeforeSubmit
<1>8. CASE waitUntilAttested \/ getProof \/ NotFound \/ ServiceError \/ Precheck
            \/ PrecheckFailed
  BY <1>8 DEF waitUntilAttested, getProof, NotFound, ServiceError, Precheck, PrecheckFailed
<1>9. CASE AlreadyExisted \/ NotThereYet \/ Broadcast \/ Receipt
  BY <1>9 DEF AlreadyExisted, NotThereYet, Broadcast, Receipt
<1>10. CASE Catch
  BY <1>10 DEF Catch, Afterwards
<1>11. QED
  BY <1>0, <1>1, <1>2, <1>3, <1>4, <1>5, <1>6, <1>7, <1>8, <1>9, <1>10 DEF Next, Process

LEMMA StrandedNext ==
    ASSUME TypeOK, RowsInHand, Stranded, [Next]_vars
    PROVE  Stranded'
<1> USE DEF TypeOK, Stranded, RowSteps, Goto, SetState, Written, InFlight,
            chain, db, scanning, bounds, history
<1>0. CASE UNCHANGED vars
  BY <1>0 DEF vars
<1>1. CASE Environment
  BY <1>1 DEF Environment, Attest, Mine, OthersSubmit
<1>2. CASE Failure
  <2>1. CASE SkipLog
    BY <2>1 DEF SkipLog
  <2>2. CASE PrecheckThrows
    BY <2>2 DEF PrecheckThrows
  <2>3. CASE RowThrows
    BY <2>3 DEF RowThrows
  <2>4. CASE TickThrows
    BY <2>4 DEF TickThrows, TickEnds
  <2>5. CASE Crash
    BY <2>5 DEF Crash
  <2>6. CASE RowAckLost
    BY <2>6 DEF RowAckLost, StateBeforeSubmit
  <2>7. CASE InsertAckLost
    BY <2>7, MinIsMember DEF InsertAckLost, TickEnds, Inserted
  <2>8. CASE CursorAckLost
    BY <2>8 DEF CursorAckLost, TickEnds, RangeRead
  <2>9. CASE CatchAckLost
    BY <2>9 DEF CatchAckLost, TickEnds, Afterwards
  <2>10. QED
    BY <1>2, <2>1, <2>2, <2>3, <2>4, <2>5, <2>6, <2>7, <2>8, <2>9 DEF Failure
<1>3. CASE Start
  BY <1>3 DEF Start, Requeued
<1>4. CASE BeginTick \/ getLogs \/ ScanComplete \/ setCursor
  BY <1>4 DEF BeginTick, getLogs, ScanComplete, setCursor, RangeRead
<1>5. CASE insertDiscovered
  BY <1>5 DEF insertDiscovered, Inserted
<1>6. CASE claimNext \/ EndTick \/ NextRow
  BY <1>6 DEF claimNext, EndTick, NextRow
<1>7. CASE Begin \/ Proved \/ Park \/ Mark \/ Confirm
  BY <1>7 DEF Begin, Proved, Park, Mark, Confirm, StateBeforeSubmit
<1>8. CASE waitUntilAttested \/ getProof \/ NotFound \/ ServiceError \/ Precheck
            \/ PrecheckFailed
  BY <1>8 DEF waitUntilAttested, getProof, NotFound, ServiceError, Precheck, PrecheckFailed
<1>9. CASE AlreadyExisted \/ NotThereYet \/ Broadcast \/ Receipt
  BY <1>9 DEF AlreadyExisted, NotThereYet, Broadcast, Receipt
<1>10. CASE Catch
  BY <1>10 DEF Catch, Afterwards
<1>11. QED
  BY <1>0, <1>1, <1>2, <1>3, <1>4, <1>5, <1>6, <1>7, <1>8, <1>9, <1>10 DEF Next, Process

-----------------------------------------------------------------------------
(* The cursor.                                                             *)

\* What has been seen stays seen: no step forgets a row or a receipt answered null.
LEMMA SeenStays ==
    ASSUME TypeOK, RowsInHand, [Next]_vars, NEW t \in Transfers, Seen(t)
    PROVE  Seen(t)'
<1> USE DEF TypeOK, Seen, Goto, SetState, Written, chain, db, scanning, bounds, history
<1>0. CASE UNCHANGED vars
  BY <1>0 DEF vars
<1>1. CASE Environment
  BY <1>1 DEF Environment, Attest, Mine, OthersSubmit
<1>2. CASE Failure
  <2>1. CASE SkipLog \/ PrecheckThrows \/ RowThrows \/ Crash
    BY <2>1 DEF SkipLog, PrecheckThrows, RowThrows, Crash
  <2>2. CASE RowAckLost
    BY <2>2 DEF RowAckLost, StateBeforeSubmit
  <2>3. CASE TickThrows
    BY <2>3 DEF TickThrows, TickEnds
  <2>4. CASE InsertAckLost
    BY <2>4 DEF InsertAckLost, TickEnds, Inserted
  <2>5. CASE CursorAckLost
    BY <2>5 DEF CursorAckLost, TickEnds
  <2>6. CASE CatchAckLost
    BY <2>6 DEF CatchAckLost, TickEnds, Afterwards
  <2>7. QED
    BY <1>2, <2>1, <2>2, <2>3, <2>4, <2>5, <2>6 DEF Failure
<1>3. CASE Start
  BY <1>3 DEF Start, Requeued
<1>4. CASE BeginTick \/ getLogs \/ ScanComplete \/ setCursor
  BY <1>4 DEF BeginTick, getLogs, ScanComplete, setCursor, RangeRead
<1>5. CASE insertDiscovered
  BY <1>5 DEF insertDiscovered, Inserted
<1>6. CASE claimNext \/ EndTick \/ NextRow
  BY <1>6 DEF claimNext, EndTick, NextRow
<1>7. CASE Begin \/ Proved \/ Park \/ Mark \/ Confirm
  BY <1>7 DEF Begin, Proved, Park, Mark, Confirm, StateBeforeSubmit
<1>8. CASE waitUntilAttested \/ getProof \/ NotFound \/ ServiceError \/ Precheck
            \/ PrecheckFailed
  BY <1>8 DEF waitUntilAttested, getProof, NotFound, ServiceError, Precheck, PrecheckFailed
<1>9. CASE AlreadyExisted \/ NotThereYet \/ Broadcast \/ Receipt
  BY <1>9 DEF AlreadyExisted, NotThereYet, Broadcast, Receipt
<1>10. CASE Catch
  BY <1>10 DEF Catch, Afterwards
<1>11. QED
  BY <1>0, <1>1, <1>2, <1>3, <1>4, <1>5, <1>6, <1>7, <1>8, <1>9, <1>10 DEF Next, Process

LEMMA CoversStays ==
    ASSUME TypeOK, RowsInHand, CursorCovers, [Next]_vars, UNCHANGED <<cursor, first>>
    PROVE  CursorCovers'
<1>1. \A t \in Transfers : BehindCursor(t)' = BehindCursor(t)
  BY DEF BehindCursor
<1>2. \A t \in Transfers : BehindCursor(t) => Seen(t)
  BY DEF CursorCovers, Seen
<1>3. \A t \in Transfers : Seen(t) => Seen(t)'
  BY SeenStays
<1>4. QED
  BY <1>1, <1>2, <1>3 DEF CursorCovers, Seen

LEMMA ScannedNext ==
    ASSUME TypeOK, RowsInHand, Scanned, [Next]_vars
    PROVE  Scanned'
<1> USE DEF Goto, SetState, Written, chain, db, scanning, bounds, history
<1>1. \A t \in Transfers : Seen(t) => Seen(t)'
  BY SeenStays
<1>2. ASSUME UNCHANGED <<cursor, first>> PROVE CursorCovers'
  BY <1>2, CoversStays DEF Scanned
<1>3. ASSUME UNCHANGED <<cursor, first>>, pc' \notin {"scan", "insert"} PROVE Scanned'
  BY <1>2, <1>3 DEF Scanned
<1>4. ASSUME UNCHANGED <<cursor, first, pc, scanning>> PROVE Scanned'
  <2>1. RangeEnd' = RangeEnd
    BY <1>4 DEF RangeEnd
  <2>2. QED
    BY <1>1, <1>2, <1>4, <2>1 DEF Scanned
<1>5. CASE UNCHANGED vars \/ Environment
  BY <1>4, <1>5 DEF vars, Environment, Attest, Mine, OthersSubmit
<1>6. CASE BeginTick
  <2>1. /\ next' = ScanFrom /\ UNCHANGED cursor
        /\ first' = IF cursor = NoCursor THEN ScanFrom ELSE first
        /\ pc' \in {"claim", "scan"}
    BY <1>6 DEF BeginTick
  <2>2. CursorCovers'
    <3>1. CASE cursor = NoCursor
      BY <2>1, <3>1 DEF CursorCovers, BehindCursor
    <3>2. CASE cursor # NoCursor
      BY <1>2, <2>1, <3>2
    <3>3. QED
      BY <3>1, <3>2
  <2>3. QED
    BY <2>1, <2>2 DEF Scanned, ScanFrom
<1>7. CASE getLogs
  <2>1. /\ pc = "scan" /\ pc' = "insert" /\ UNCHANGED <<cursor, first, next, upTo>>
        /\ unread' = {t \in Transfers : Height[t] \in next..RangeEnd}
    BY <1>7 DEF getLogs
  <2>2. RangeEnd' = RangeEnd
    BY <2>1 DEF RangeEnd
  <2>3. QED
    BY <1>2, <2>1, <2>2 DEF Scanned
<1>8. CASE insertDiscovered \/ SkipLog
  <2>1. PICK m : m = Min(unread)
    OBVIOUS
  <2>2. /\ pc = "insert" /\ pc' = "insert" /\ UNCHANGED <<cursor, first, next, upTo>>
        /\ unread # {} /\ unread' = unread \ {m}
    BY <1>8, <2>1 DEF insertDiscovered, SkipLog
  <2>3. m \in Transfers
    BY <2>1, <2>2, MinIsMember DEF TypeOK
  <2>4. Seen(m)'
    <3>1. CASE insertDiscovered
      BY <2>1, <2>3, <3>1 DEF insertDiscovered, Inserted, Seen, TypeOK
    <3>2. CASE SkipLog
      BY <2>1, <3>2 DEF SkipLog, Seen
    <3>3. QED
      BY <1>8, <3>1, <3>2
  <2>5. RangeEnd' = RangeEnd
    BY <2>2 DEF RangeEnd
  <2>6. QED
    BY <1>1, <1>2, <2>2, <2>4, <2>5 DEF Scanned
<1>9. ASSUME RangeRead, cursor' = RangeEnd, UNCHANGED first
      PROVE  CursorCovers' /\ cursor' # NoCursor
  <2>1. pc = "insert" /\ unread = {}
    BY <1>9 DEF RangeRead
  <2>2. /\ next = IF cursor = NoCursor THEN first ELSE cursor + 1
        /\ \A t \in Transfers : Height[t] \in next..RangeEnd => Seen(t)
    BY <2>1 DEF Scanned
  <2>3. RangeEnd \in Nat /\ first \in Nat /\ cursor \in Int
    BY RangeEndTyped, WorkerAssumption DEF TypeOK, NoCursor
  <2>4. \A t \in Transfers : Height[t] \in first..RangeEnd => Seen(t)
    <3>1. SUFFICES ASSUME NEW t \in Transfers, Height[t] \in first..RangeEnd PROVE Seen(t)
      OBVIOUS
    <3>2. Height[t] \in Nat
      BY HeightsAreNumbers
    <3>3. CASE Height[t] \in next..RangeEnd
      BY <2>2, <3>3
    <3>4. CASE Height[t] \notin next..RangeEnd
      <4>1. cursor # NoCursor /\ Height[t] \in first..cursor
        BY <2>2, <2>3, <3>1, <3>2, <3>4
      <4>2. QED
        BY <4>1 DEF Scanned, CursorCovers, BehindCursor, Seen
    <3>5. QED
      BY <3>3, <3>4
  <2>5. CursorCovers'
    BY <1>1, <1>9, <2>4 DEF CursorCovers, BehindCursor, Seen
  <2>6. QED
    BY <1>9, <2>3, <2>5 DEF NoCursor
<1>10. CASE setCursor
  <2>1. RangeRead /\ pc' = "scan" /\ cursor' = RangeEnd /\ next' = RangeEnd + 1 /\ UNCHANGED first
    BY <1>10 DEF setCursor
  <2>2. QED
    BY <1>9, <2>1 DEF Scanned
<1>11. CASE CursorAckLost
  <2>1. RangeRead /\ pc' = "idle" /\ cursor' = RangeEnd /\ UNCHANGED first
    BY <1>11 DEF CursorAckLost, TickEnds
  <2>2. QED
    BY <1>9, <2>1 DEF Scanned
<1>12. CASE RowThrows \/ RowAckLost \/ PrecheckThrows \/ Crash
  BY <1>3, <1>12 DEF RowThrows, RowAckLost, PrecheckThrows, Crash
<1>13. CASE TickThrows \/ InsertAckLost \/ CatchAckLost
  BY <1>3, <1>13 DEF TickThrows, InsertAckLost, CatchAckLost, TickEnds
<1>14. CASE Start \/ ScanComplete \/ claimNext \/ NextRow \/ EndTick \/ Catch
  BY <1>3, <1>14 DEF Start, ScanComplete, claimNext, NextRow, EndTick, Catch
<1>15. CASE Begin \/ Proved \/ Park \/ Mark \/ Confirm
  BY <1>3, <1>15 DEF Begin, Proved, Park, Mark, Confirm
<1>16. CASE waitUntilAttested \/ getProof \/ NotFound \/ ServiceError \/ Precheck
            \/ PrecheckFailed
  BY <1>3, <1>16 DEF waitUntilAttested, getProof, NotFound, ServiceError, Precheck, PrecheckFailed
<1>17. CASE AlreadyExisted \/ NotThereYet \/ Broadcast \/ Receipt
  BY <1>3, <1>17 DEF AlreadyExisted, NotThereYet, Broadcast, Receipt
<1>18. QED
  BY <1>5, <1>6, <1>7, <1>8, <1>10, <1>11, <1>12, <1>13, <1>14, <1>15, <1>16, <1>17
  DEF Next, Process, Failure

-----------------------------------------------------------------------------
Safe ==
    /\ TypeOK
    /\ RowsInHand
    /\ Delivered
    /\ Settled
    /\ Parked
    /\ Stranded
    /\ Scanned

LEMMA SafeInit == Init => Safe
<1> SUFFICES ASSUME Init PROVE Safe
  OBVIOUS
<1>1. TypeOK
  BY TypedInit
<1>2. /\ pc = "down" /\ pending = {} /\ cursor = NoCursor
      /\ \A t \in Transfers : state[t] = "ABSENT"
      /\ confirmed = {}
  BY DEF Init
<1>3. RowsInHand /\ Delivered /\ Settled /\ Parked /\ Stranded /\ Scanned
  BY <1>2 DEF RowsInHand, RowSteps, Delivered, ConfirmedIsStored, Settled, Parked,
              OnlyBadEvidenceIsParked, Stranded, Scanned, CursorCovers, BehindCursor
<1>4. QED
  BY <1>1, <1>3 DEF Safe

LEMMA SafeHolds == Spec => []Safe
<1>1. Safe /\ [Next]_vars => Safe'
  BY TypedNext, RowsInHandNext, DeliveredNext, SettledNext, ParkedNext, StrandedNext,
     ScannedNext DEF Safe
<1>2. QED
  BY <1>1, SafeInit, PTL DEF Spec

\* Every variable of the worker keeps its type, for any number of faults.
THEOREM WorkerTypeCorrect == Spec => []TypeOK
<1>1. Safe => TypeOK
  BY DEF Safe
<1>2. QED
  BY <1>1, SafeHolds, PTL

\* submit's early answer, the receipt of its own broadcast, a stranger's submission in
\* between and a crash at any await: a row says CONFIRMED only of what the vault holds.
THEOREM ConfirmedAlwaysStored == Spec => []ConfirmedIsStored
<1>1. Safe => ConfirmedIsStored
  BY DEF Safe, Delivered
<1>2. QED
  BY <1>1, SafeHolds, PTL

\* watch.ts:5: wherever in a range the process dies or a call fails, the saved cursor
\* has passed no watched transfer without a row, but for a receipt answered null.
THEOREM CursorAlwaysCovers == Spec => []CursorCovers
<1>1. Safe => CursorCovers
  BY DEF Safe, Scanned
<1>2. QED
  BY <1>1, SafeHolds, PTL

\* main.ts:156: a failure parks a row only when the evidence itself is bad, whatever
\* else failed on the way; except when verify() threw.
THEOREM OnlyBadEvidenceEverParked == Spec => []OnlyBadEvidenceIsParked
<1>1. Safe => OnlyBadEvidenceIsParked
  BY DEF Safe, Parked
<1>2. QED
  BY <1>1, SafeHolds, PTL

\* db.ts:137: requeueStranded at startup is enough: between ticks no row is left in
\* flight, after any number of crashes, but for a failure the database refused.
THEOREM NothingEverStranded == Spec => []NothingStranded
<1>1. Safe => NothingStranded
  BY DEF Safe, Stranded, NothingStranded, RowSteps
<1>2. QED
  BY <1>1, SafeHolds, PTL

-----------------------------------------------------------------------------
(* The ends of a row.                                                      *)

LEMMA EndKept ==
    ASSUME TypeOK, RowsInHand, [Next]_vars, NEW t \in Transfers,
           state[t] \in {"CONFIRMED", "PRECHECK_FAILED", "FAILED"}, state'[t] # state[t]
    PROVE  /\ pc = "catch" /\ t = job
           /\ state[t] # "FAILED"
           /\ state'[t] = "DISCOVERED"
<1> USE DEF TypeOK, RowsInHand, RowSteps, InFlight, Goto, SetState, Written, chain, db, scanning,
            bounds, history
<1>0. CASE UNCHANGED vars \/ Environment
  BY <1>0 DEF vars, Environment, Attest, Mine, OthersSubmit
<1>1. CASE Failure
  <2>1. CASE SkipLog \/ PrecheckThrows \/ RowThrows \/ Crash
    BY <2>1 DEF SkipLog, PrecheckThrows, RowThrows, Crash
  <2>2. CASE RowAckLost
    BY <2>2 DEF RowAckLost
  <2>3. CASE TickThrows \/ CursorAckLost
    BY <2>3 DEF TickThrows, CursorAckLost, TickEnds
  <2>4. CASE InsertAckLost
    BY <2>4 DEF InsertAckLost, TickEnds, Inserted
  <2>5. CASE CatchAckLost
    BY <2>5 DEF CatchAckLost, TickEnds, Afterwards
  <2>6. QED
    BY <1>1, <2>1, <2>2, <2>3, <2>4, <2>5 DEF Failure
<1>2. CASE Start
  BY <1>2 DEF Start, Requeued
<1>3. CASE insertDiscovered
  BY <1>3 DEF insertDiscovered, Inserted
<1>4. CASE BeginTick \/ getLogs \/ ScanComplete \/ setCursor \/ claimNext \/ EndTick \/ NextRow
  BY <1>4 DEF BeginTick, getLogs, ScanComplete, setCursor, RangeRead, claimNext, EndTick, NextRow
<1>5. CASE Begin \/ Proved \/ Park \/ Mark \/ Confirm
  BY <1>5 DEF Begin, Proved, Park, Mark, Confirm
<1>6. CASE waitUntilAttested \/ getProof \/ NotFound \/ ServiceError \/ Precheck
            \/ PrecheckFailed
  BY <1>6 DEF waitUntilAttested, getProof, NotFound, ServiceError, Precheck, PrecheckFailed
<1>7. CASE AlreadyExisted \/ NotThereYet \/ Broadcast \/ Receipt
  BY <1>7 DEF AlreadyExisted, NotThereYet, Broadcast, Receipt
<1>8. CASE Catch
  BY <1>8 DEF Catch, Afterwards
<1>9. QED
  BY <1>0, <1>1, <1>2, <1>3, <1>4, <1>5, <1>6, <1>7, <1>8 DEF Next, Process

\* Only Broadcast lengthens the mempool, and with the row in hand.
LEMMA NotResent ==
    ASSUME Safe, [Next]_vars, NEW t \in confirmed
    PROVE  mempool' # Append(mempool, t)
<1> USE DEF Goto, SetState, Written, chain, db, scanning, bounds, history
<1>1. mempool \in Seq(Transfers) /\ t \in Transfers
  BY DEF Safe, TypeOK
<1>2. CASE Broadcast
  <2>1. mempool' = Append(mempool, job) /\ job \in Transfers /\ job # t
    BY <1>2 DEF Broadcast, Safe, Settled, RowsInHand, RowSteps
  <2>2. QED
    BY <1>1, <2>1
<1>3. CASE Mine
  <2>1. Len(mempool') = Len(mempool) - 1
    BY <1>1, <1>3 DEF Mine
  <2>2. QED
    BY <1>1, <2>1
<1>4. CASE UNCHANGED mempool
  BY <1>1, <1>4
<1>5. CASE UNCHANGED vars
  BY <1>4, <1>5 DEF vars
<1>6. CASE Attest \/ \E u \in Transfers : OthersSubmit(u)
  BY <1>4, <1>6 DEF Attest, OthersSubmit
<1>7. CASE Failure
  BY <1>4, <1>7 DEF Failure, SkipLog, PrecheckThrows, RowThrows, RowAckLost, TickThrows,
                    InsertAckLost, CursorAckLost, CatchAckLost, TickEnds, Crash
<1>8. CASE Start \/ BeginTick \/ getLogs \/ ScanComplete \/ insertDiscovered \/ setCursor
  BY <1>4, <1>8 DEF Start, BeginTick, getLogs, ScanComplete, insertDiscovered, setCursor
<1>9. CASE claimNext \/ EndTick \/ NextRow \/ Catch
  BY <1>4, <1>9 DEF claimNext, EndTick, NextRow, Catch
<1>10. CASE Begin \/ Proved \/ Park \/ Mark \/ Confirm
  BY <1>4, <1>10 DEF Begin, Proved, Park, Mark, Confirm
<1>11. CASE waitUntilAttested \/ getProof \/ NotFound \/ ServiceError \/ Precheck
            \/ PrecheckFailed
  BY <1>4, <1>11 DEF waitUntilAttested, getProof, NotFound, ServiceError, Precheck, PrecheckFailed
<1>12. CASE AlreadyExisted \/ NotThereYet \/ Receipt
  BY <1>4, <1>12 DEF AlreadyExisted, NotThereYet, Receipt
<1>13. QED
  BY <1>2, <1>3, <1>5, <1>6, <1>7, <1>8, <1>9, <1>10, <1>11, <1>12
  DEF Next, Process, Environment

\* Neither the requeueing of a start nor a rediscovered log nor a claimed batch takes an
\* ended row up again: only the catch block does, on the row whose own last update threw.
\* main.ts:9: and what was confirmed once is not broadcast again, by any replay, however
\* its row came to be taken up again and wherever that replay is interrupted.
THEOREM EndedNeverRedone == Spec => EndedIsNotRedone
<1>1. Safe /\ [Next]_vars =>
        [/\ \A t \in Transfers :
              state[t] \in {"CONFIRMED", "PRECHECK_FAILED", "FAILED"} /\ state'[t] # state[t] =>
                  /\ pc = "catch" /\ t = job
                  /\ state[t] # "FAILED"
                  /\ state'[t] = "DISCOVERED"
         /\ \A t \in confirmed : mempool' # Append(mempool, t)]_vars
  BY EndKept, NotResent DEF Safe
<1>2. QED
  BY <1>1, SafeHolds, PTL DEF Spec, EndedIsNotRedone
=============================================================================

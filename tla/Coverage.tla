------------------------------ MODULE Coverage ------------------------------
(***************************************************************************)
(* frontend/lib/coverage.ts and useCoverage of lib/hooks.ts: which share   *)
(* of the transfers out of an originator's bound treasuries it committed   *)
(* to a claim.  The measurement reads the heads of both chains, then the   *)
(* book loan by loan, then the binding events up to the head it read, the  *)
(* transfers of the source chain, and for each transfer no loan cites,     *)
(* whether the vault holds it.  The book moves between any two reads.      *)
(*                                                                         *)
(* The hook measures several originators against one reading of the book;  *)
(* the model follows one of them, and the others are time that passes.     *)
(*                                                                         *)
(* An operator used nowhere, directly before another of the same           *)
(* parameters, is the other one with a plausible bug, kept to show that    *)
(* the properties notice it.                                               *)
(***************************************************************************)
EXTENDS Clearbook

CONSTANTS
    SOURCE_CHAIN,               \* the chain key measured
    COVERAGE_WINDOW_BLOCKS,
    BINDING_LOOKBACK_BLOCKS,
    SourceHeads,                \* heads of the source chain when asked
    ConfiguredToken             \* the token of the deployment's settings

ASSUME CoverageAssumption ==
    /\ COVERAGE_WINDOW_BLOCKS \in Nat
    /\ BINDING_LOOKBACK_BLOCKS \in Nat
    /\ SourceHeads \subseteq Nat
    /\ ConfiguredToken \in Tokens

VARIABLES
    measure,        \* one measurement: what has been read and counted so far
    boundAt         \* the TreasuryBound events: address -> block of its binding

NoMeasure == [ step |-> "idle", originator |-> 0, ccHead |-> 0, srcHead |-> 0,
               next |-> 1, id |-> 1, book |-> {}, treasuries |-> {},
               asked |-> {}, committed |-> {}, verified |-> {},
               unverified |-> {} ]

CoverageInit == measure = NoMeasure

\* Every binding is an event of the block it is in.
Recorded ==
    boundAt' = [a \in Addresses |->
                   IF treasuryOwner'[a] # treasuryOwner[a] THEN number ELSE boundAt[a]]

-----------------------------------------------------------------------------
Since(head, span) == IF head > span THEN head - span ELSE 0

Scope(srcHead) == Since(srcHead, COVERAGE_WINDOW_BLOCKS)..srcHead

Disbursements(book) == { row.fact : row \in book }

\* A bug: the token of the settings is measured, not those of the claims.
SettingsToken(o, book) == {ConfiguredToken}

ClaimTokens(o, book) == { row.token : row \in { r \in book : r.originator = o } }

boundTreasuries(o, ccHead) ==
    { a \in Addresses : /\ treasuryOwner[a] = o
                        /\ boundAt[a] \in Since(ccHead, BINDING_LOOKBACK_BLOCKS)..ccHead }

Outbound(treasuries, tokens, scope) ==
    { f \in FactIds : /\ Ledger[f].from \in treasuries
                      /\ Ledger[f].chainKey = SOURCE_CHAIN
                      /\ Ledger[f].token \in tokens
                      /\ Ledger[f].blockHeight \in scope }

-----------------------------------------------------------------------------
ReadHeads(o) ==
    /\ measure.step \in {"idle", "done"}
    /\ \E head \in SourceHeads :
          measure' = [NoMeasure EXCEPT !.step = "next", !.originator = o,
                                       !.ccHead = number, !.srcHead = head]

ReadNextLoanId ==
    /\ measure.step = "next"
    /\ measure' = [measure EXCEPT !.step = "loans", !.next = nextLoanId]

ReadLoan ==
    /\ measure.step = "loans"
    /\ measure.id < measure.next
    /\ LET loan == loans[measure.id]
       IN  measure' = [measure EXCEPT
               !.id = @ + 1,
               !.book = @ \cup {[ originator |-> loan.originatorId,
                                  token |-> loan.token,
                                  fact |-> loan.disbursementFactId ]}]

ReadBindings ==
    /\ measure.step = "loans"
    /\ measure.id = measure.next
    /\ measure' = [measure EXCEPT
           !.step = "transfers",
           !.treasuries = boundTreasuries(measure.originator, measure.ccHead)]

ReadTransfers ==
    /\ measure.step = "transfers"
    /\ measure' = [measure EXCEPT
           !.step = "classify",
           !.asked = Outbound(measure.treasuries,
                              ClaimTokens(measure.originator, measure.book),
                              Scope(measure.srcHead))]

\* One transfer after the other; only one that no loan cites costs a call.
Classify ==
    /\ measure.step = "classify"
    /\ \E f \in measure.asked :
          measure' =
              CASE f \in Disbursements(measure.book) ->
                      [measure EXCEPT !.asked = @ \ {f}, !.committed = @ \cup {f}]
                [] f \notin Disbursements(measure.book) /\ f \in stored ->
                      [measure EXCEPT !.asked = @ \ {f}, !.verified = @ \cup {f}]
                [] OTHER ->
                      [measure EXCEPT !.asked = @ \ {f}, !.unverified = @ \cup {f}]

Measured ==
    /\ measure.step = "classify"
    /\ measure.asked = {}
    /\ measure' = [measure EXCEPT !.step = "done"]

\* Any call that fails ends the measurement: it is not retried.
ReadFails ==
    /\ measure.step \notin {"idle", "done"}
    /\ measure' = NoMeasure

CoverageNext ==
    \/ \E o \in OriginatorIds : ReadHeads(o)
    \/ ReadNextLoanId \/ ReadLoan \/ ReadBindings \/ ReadTransfers
    \/ Classify \/ Measured \/ ReadFails

-----------------------------------------------------------------------------
\* Disbursements of the originator's loans on the book as it was read, inside
\* the source window, from treasuries bound inside the lookback.
CommittedInScope ==
    { f \in FactIds :
        /\ \E l \in LoanIds : /\ l < measure.next
                              /\ loans[l].originatorId = measure.originator
                              /\ loans[l].disbursementFactId = f
        /\ Ledger[f].chainKey = SOURCE_CHAIN
        /\ Ledger[f].blockHeight \in Scope(measure.srcHead)
        /\ boundAt[Ledger[f].from] \in
              Since(measure.ccHead, BINDING_LOOKBACK_BLOCKS)..measure.ccHead }

(***************************************************************************)
(* The numerator is exact although book, bindings and transfers are read   *)
(* at different times and the committed facts are those of all lenders:    *)
(* counted as committed are all disbursements of the originator's own      *)
(* loans in the scope the page states, and nothing else.                   *)
(***************************************************************************)
CoverageIsExact ==
    measure.step = "done" => measure.committed = CommittedInScope
=============================================================================

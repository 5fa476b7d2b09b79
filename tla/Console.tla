------------------------------- MODULE Console -------------------------------
(***************************************************************************)
(* frontend/app/challenge/page.tsx, the challenge console, over the reads  *)
(* of lib/hooks.ts and lib/data.ts.  The visitor selects a claim and cites *)
(* a fact; the page evaluates the eleven conditions of lib/predicate.ts on *)
(* what it has read, and offers to submit when all of them pass.  Each     *)
(* read is a query of its own with a cache of its own, so the conditions   *)
(* are judged on answers of different blocks, of any age.                  *)
(*                                                                         *)
(* An originator's windows never change, and are not cached here.          *)
(*                                                                         *)
(* An operator used nowhere, directly before another of the same           *)
(* parameters, is the other one with a plausible bug, kept to show that    *)
(* the properties notice it.                                               *)
(***************************************************************************)
EXTENDS Clearbook

CONSTANT Visitor        \* the account of the connected wallet

ASSUME VisitorAssumption == Visitor \in Accounts

VARIABLE console        \* choice, cached reads, and the wallet's transaction

NoConsole == [ selected |-> 0, cited |-> Zero, block |-> 0,
               rows |-> [l \in LoanIds |-> NoLoan], facts |-> {},
               owners |-> [a \in Addresses |-> 0], tx |-> "none" ]

ConsoleInit == console = NoConsole

\* The preview, on the cached reads.  A fact not read is not there, and a
\* treasury not read is nobody's: neither lets a condition pass.
Cached == INSTANCE Predicate WITH
    number <- console.block,
    stored <- console.facts,
    loans <- console.rows,
    treasuryOwner <- console.owners

Preview ==
    /\ console.selected # 0
    /\ console.cited # Zero
    /\ Cached!wouldSucceed(console.selected, console.cited)

\* The query of a receipt fails for a transaction that reverted, and the
\* page goes on calling it pending.
phase == CASE console.tx = "failed"                -> "failed"
           [] console.tx = "mined"                 -> "confirmed"
           [] console.tx \in {"sent", "reverted"}  -> "pending"
           [] OTHER                                -> "idle"

-----------------------------------------------------------------------------
(* The visitor.  What changes the pair also forgets the transaction; one   *)
(* that was sent is then any account's, and Clearbook's own.               *)

\* A bug: the transaction is kept.
SelectOnly(l) == [console EXCEPT !.selected = l, !.cited = Zero]

Selected(l) == [console EXCEPT !.selected = l, !.cited = Zero, !.tx = "none"]

Select(l) ==
    /\ console.rows[l].status # "NONE"
    /\ console' = Selected(l)
    /\ UNCHANGED vars

Cite(f) ==
    /\ console' = [console EXCEPT !.cited = f, !.tx = "none"]
    /\ UNCHANGED vars

\* The button stays enabled while the wallet asks; pressing it again opens
\* another prompt, and the page follows that one.
Submit ==
    /\ Preview
    /\ phase = "idle"
    /\ console' = [console EXCEPT !.tx = "asked"]
    /\ UNCHANGED vars

Wallet ==
    /\ console.tx = "asked"
    /\ \E answer \in {"failed", "sent"} : console' = [console EXCEPT !.tx = answer]
    /\ UNCHANGED vars

MinedChallenge ==
    /\ console.tx = "sent"
    /\ challenge(Visitor, console.selected, console.cited)
    /\ console' = [console EXCEPT !.tx = "mined"]

MinedAndReverted ==
    /\ console.tx = "sent"
    /\ \/ ~Challengeable(console.selected, console.cited)
       \/ ~({Visitor, PROTOCOL_SINK} \subseteq Payable)
    /\ console' = [console EXCEPT !.tx = "reverted"]
    /\ UNCHANGED vars

-----------------------------------------------------------------------------
(* The reads, answered or refreshed at any time.                           *)

\* useCurrentBlock
ReadBlock ==
    /\ console' = [console EXCEPT !.block = number]
    /\ UNCHANGED vars

\* useLoans
ReadLoanRow(l) ==
    /\ l < nextLoanId
    /\ console' = [console EXCEPT !.rows[l] = loans[l]]
    /\ UNCHANGED vars

\* useFact: getFact is asked once exists was answered with true.
ReadFact(f) ==
    /\ \/ f = console.cited
       \/ console.selected # 0 /\ f = console.rows[console.selected].repaymentFactId
    /\ f \in stored
    /\ console' = [console EXCEPT !.facts = @ \cup {f}]
    /\ UNCHANGED vars

\* useTreasuryOwner, of the sender of the cited fact.
ReadOwner ==
    /\ console.cited \in console.facts
    /\ LET a == Ledger[console.cited].from
       IN  console' = [console EXCEPT !.owners[a] = treasuryOwner[a]]
    /\ UNCHANGED vars

ConsoleNext ==
    \/ \E l \in LoanIds : Select(l) \/ ReadLoanRow(l)
    \/ \E f \in FactIds : Cite(f) \/ ReadFact(f)
    \/ Submit \/ Wallet \/ MinedChallenge \/ MinedAndReverted
    \/ ReadBlock \/ ReadOwner

-----------------------------------------------------------------------------
(***************************************************************************)
(* A preview read piecemeal over many blocks is right about the evidence:  *)
(* when all eleven conditions pass on the cached reads, however old each   *)
(* of them is, the challenge succeeds unless the claim has ended or its    *)
(* window has closed.  Nothing else that happened since can spoil it.      *)
(***************************************************************************)
OnlyTimeSpoilsThePreview ==
    Preview =>
        \/ Challengeable(console.selected, console.cited)
        \/ loans[console.selected].status \in {"SETTLED", "BREACHED"}
        \/ number > WindowEnd(console.selected)

(***************************************************************************)
(* "Covenant breach verified" is only ever shown for the claim that was    *)
(* slashed: whatever the visitor selects or cites after submitting.        *)
(***************************************************************************)
ConfirmedIsBreached ==
    phase = "confirmed" => loans[console.selected].status = "BREACHED"
=============================================================================

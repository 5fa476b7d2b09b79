------------------------------ MODULE Clearance ------------------------------
(***************************************************************************)
(* frontend/lib/clearance.ts and its page: is the evidence in a pasted     *)
(* source-chain transaction already spoken for?  The check locates the     *)
(* transaction, derives the identity of each transfer it carries, has the  *)
(* precompile verify its proof, and only then asks the vault about each    *)
(* leg, and then the lending contract.  Each question is a call of its     *)
(* own, the book moves in between, and any of them can fail.               *)
(*                                                                         *)
(* The chains and the prover answer as they please; a bundle the precompile *)
(* accepts is taken to be of the transaction that was asked for.           *)
(*                                                                         *)
(* An operator used nowhere, directly before another of the same           *)
(* parameters, is the other one with a plausible bug, kept to show that    *)
(* the properties notice it.                                               *)
(***************************************************************************)
EXTENDS Clearbook, Sequences

CONSTANTS
    Hashes,         \* what visitors paste, well-formed or not
    Transactions,   \* those that are hashes of source-chain transactions
    transferLegs    \* transaction -> the facts of its qualifying logs

ASSUME ClearanceAssumption ==
    /\ Transactions \subseteq Hashes
    /\ transferLegs \in [Transactions -> SUBSET FactIds]

VARIABLE check      \* the page: step, input, answers so far and result

Steps == {"idle", "locate", "chainkey", "attest", "proof", "verify",
          "registry", "consumed"}

Outcomes == {"none", "clear", "encumbered", "unverifiable"}

NoCheck == [ step |-> "idle", tx |-> Zero, present |-> {}, asked |-> {},
             consumedBy |-> <<>>, free |-> {}, outcome |-> "none",
             reason |-> "none" ]

ClearanceInit == check = NoCheck

-----------------------------------------------------------------------------
Unverifiable(reason) ==
    check' = [NoCheck EXCEPT !.tx = check.tx, !.outcome = "unverifiable",
                             !.reason = reason]

GoTo(step) == check' = [check EXCEPT !.step = step]

\* The button starts a check and clears the last result.
Run(hash) ==
    /\ check.step = "idle"
    /\ check' = IF hash \in Transactions
                THEN [NoCheck EXCEPT !.step = "locate", !.tx = hash]
                ELSE [NoCheck EXCEPT !.tx = hash, !.outcome = "unverifiable",
                                     !.reason = "malformed-hash"]

Locate ==
    /\ check.step = "locate"
    /\ \/ \E reason \in {"not-found", "source-unreachable", "reverted"} :
             Unverifiable(reason)
       \/ GoTo("chainkey")

\* Resolving the chain key may throw, which the page reports.
ChainKey ==
    /\ check.step = "chainkey"
    /\ \/ Unverifiable("source-unreachable")
       \/ /\ transferLegs[check.tx] = {}
          /\ Unverifiable("no-transfer-log")
       \/ /\ transferLegs[check.tx] # {}
          /\ GoTo("attest")

Attested ==
    /\ check.step = "attest"
    /\ \/ \E reason \in {"source-unreachable", "not-attested"} : Unverifiable(reason)
       \/ GoTo("proof")

FetchProof ==
    /\ check.step = "proof"
    /\ \/ Unverifiable("proof-unavailable")
       \/ GoTo("verify")

VerifyOnChain ==
    /\ check.step = "verify"
    /\ \/ \E reason \in {"source-unreachable", "proof-rejected"} : Unverifiable(reason)
       \/ check' = [check EXCEPT !.step = "registry", !.asked = transferLegs[check.tx]]

\* The calls of one batch go out together and are answered in any order.
Exists ==
    /\ check.step = "registry"
    /\ \E f \in check.asked :
          check' = [check EXCEPT !.asked = @ \ {f},
                                 !.present = IF f \in stored THEN @ \cup {f} ELSE @]

AskConsumers ==
    /\ check.step = "registry"
    /\ check.asked = {}
    /\ check' = [check EXCEPT
           !.step = "consumed",
           !.asked = transferLegs[check.tx],
           !.free = { f \in transferLegs[check.tx] : factConsumedBy[f] = 0 }]

FactConsumedBy ==
    /\ check.step = "consumed"
    /\ \E f \in check.asked :
          check' = [check EXCEPT !.asked = @ \ {f},
                                 !.consumedBy = Append(@, factConsumedBy[f])]

ReadThrows ==
    /\ check.step \in {"registry", "consumed"}
    /\ check.asked # {}
    /\ Unverifiable("source-unreachable")

Encumbering(answers) == { i \in DOMAIN answers : answers[i] # 0 }

\* A bug: a transaction is encumbered when all its legs are.
AllEncumbered(answers) == Encumbering(answers) = DOMAIN answers

AnyEncumbered(answers) == Encumbering(answers) # {}

Answer ==
    /\ check.step = "consumed"
    /\ check.asked = {}
    /\ check' = [check EXCEPT
           !.step = "idle",
           !.outcome = IF AnyEncumbered(check.consumedBy) THEN "encumbered" ELSE "clear"]

ClearanceNext ==
    \/ \E hash \in Hashes : Run(hash)
    \/ Locate \/ ChainKey \/ Attested \/ FetchProof \/ VerifyOnChain
    \/ Exists \/ AskConsumers \/ FactConsumedBy \/ ReadThrows \/ Answer

-----------------------------------------------------------------------------
(***************************************************************************)
(* The answer was true of the book, although its legs were read in         *)
(* different blocks: CLEAR means that there was one moment of this very    *)
(* check, after verification, when no leg of the transaction was consumed; *)
(* ENCUMBERED that one is consumed and will stay so.                       *)
(***************************************************************************)
AnswerHolds ==
    /\ check.outcome = "clear" => check.free = transferLegs[check.tx]
    /\ check.outcome = "encumbered" =>
          \E f \in transferLegs[check.tx] : factConsumedBy[f] # 0
=============================================================================

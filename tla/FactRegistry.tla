---------------------------- MODULE FactRegistry ----------------------------
(***************************************************************************)
(* What EvidenceVault promises the contracts that read it                  *)
(* (contracts/src/interfaces/IEvidenceVault.sol): a registry that only     *)
(* ever grows, and that grows only by transfers the source chain really    *)
(* made.  Clearbook is specified against this registry; EvidenceVault is   *)
(* checked to implement it.                                                *)
(***************************************************************************)
CONSTANT
    Ledger      \* the transfers of the source chains: fact id -> transfer

VARIABLE
    registry    \* the facts stored so far: fact id -> transfer

FactIds == DOMAIN Ledger

Init == registry = <<>>

\* One accepted submission publishes one fact, or several at once (a batch).
Publish(new) ==
    /\ new \subseteq FactIds \ DOMAIN registry
    /\ registry' = [id \in DOMAIN registry \cup new |->
                       IF id \in new THEN Ledger[id] ELSE registry[id]]

Next == \E new \in SUBSET FactIds : Publish(new)

Spec == Init /\ [][Next]_registry
=============================================================================

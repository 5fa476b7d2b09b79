---------------------------- MODULE RevertReasons ----------------------------
(***************************************************************************)
(* What contracts/src/Clearbook.sol answers to a registerLoan it refuses:  *)
(* the first check that fails, in the order the code makes them.  Callers  *)
(* that branch on the name of the error are modelled with it.              *)
(*                                                                         *)
(* An operator used nowhere, directly before another of the same           *)
(* parameters, is the other one with a plausible bug, kept to show that    *)
(* the properties notice it.                                               *)
(***************************************************************************)
EXTENDS Clearbook, Sequences

\* A bug: the bond is checked before the evidence.
BondFirst(o, f) ==
    <<[ name |-> "InsufficientBond", fails |-> Unencumbered(o) < BOND_PER_LOAN ],
      [ name |-> "FactAlreadyUsed", fails |-> factConsumedBy[f] # 0 ]>>

EvidenceFirst(o, f) ==
    <<[ name |-> "FactAlreadyUsed", fails |-> factConsumedBy[f] # 0 ],
      [ name |-> "InsufficientBond", fails |-> Unencumbered(o) < BOND_PER_LOAN ]>>

registerLoanChecks(sender, o, terms, f) ==
    <<[ name |-> "NotOwner", fails |-> originators[o].owner # sender ],
      [ name |-> "InactiveOriginator", fails |-> ~originators[o].active ],
      [ name |-> "BadWindow", fails |-> terms.maturityBlock <= number ]>>
    \o EvidenceFirst(o, f) \o
    <<[ name |-> "UnknownFact", fails |-> f \notin stored ],
      [ name |-> "FactMismatch", fails |-> \/ Ledger[f].token # terms.token
                                           \/ Ledger[f].to # terms.borrower
                                           \/ Ledger[f].amount # terms.principal ],
      [ name |-> "TreasuryNotBound", fails |-> treasuryOwner[Ledger[f].from] # o ]>>

Failing(checks) == { i \in DOMAIN checks : checks[i].fails }

Refusal(sender, o, terms, f) ==
    LET checks == registerLoanChecks(sender, o, terms, f)
        failing == Failing(checks)
    IN  IF failing = {} THEN "none"
        ELSE checks[CHOOSE i \in failing : \A j \in failing : i <= j].name
=============================================================================

------------------------------- MODULE MCSeed -------------------------------
(***************************************************************************)
(* Scenarios A and B of demo/scenarios.json: A lends to B, who repays; the *)
(* second loan goes to P, who is funded once more and repays from that.    *)
(***************************************************************************)
EXTENDS Seed, TLC

CONSTANTS Watcher, Deployer, T, B, P, Usd, a, ra, b, fb, rb

Of(height, from, to) ==
    [ chainKey |-> 1, blockHeight |-> height, token |-> Usd,
      from |-> from, to |-> to, amount |-> 2 ]

Staged ==
    a :> Of(1, T, B) @@ ra :> Of(2, B, T) @@
    b :> Of(3, T, P) @@ fb :> Of(4, T, P) @@ rb :> Of(5, P, T)

Disbursements == [A |-> a, B |-> b]
Repayments == [A |-> ra, B |-> rb]

\* The script signs for whichever originator it takes for its own.
SeedSignatures == OriginatorIds \X {T} \X {0}
=============================================================================

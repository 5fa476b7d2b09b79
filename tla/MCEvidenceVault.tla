--------------------------- MODULE MCEvidenceVault ---------------------------
(***************************************************************************)
(* A small instance of EvidenceVault: two chains; a transaction with two   *)
(* transfers and an approval, one that was reverted, an NFT transfer, a    *)
(* transaction of an unknown type and a later transfer; honest bundles for *)
(* all of them, a bundle of forged bytes, and one for a missing position.  *)
(***************************************************************************)
EXTENDS EvidenceVault

CONSTANTS Usd, Alice, Bob, Worker, Stranger

Log(topics, transferTopic, words, from, to, amount) ==
    [ topics |-> topics, transferTopic |-> transferTopic, dataWords |-> words,
      token |-> Usd, from |-> from, to |-> to, amount |-> amount ]

Tx(type, status, logs) == [txType |-> type, receiptStatus |-> status, logs |-> logs]

TwoTransfers == Tx(2, 1, << Log(3, TRUE, 1, Alice, Bob, 1),
                            Log(3, TRUE, 1, Bob, Alice, 2),
                            Log(3, FALSE, 1, Alice, Bob, 2) >>)
Reverted == Tx(2, 0, << Log(3, TRUE, 1, Alice, Bob, 2) >>)
Nft == Tx(2, 1, << Log(4, TRUE, 0, Alice, Bob, 0) >>)
Unknown == Tx(5, 1, << Log(3, TRUE, 1, Alice, Bob, 2) >>)
Later == Tx(0, 1, << Log(3, TRUE, 1, Bob, Alice, 1) >>)
Forged == Tx(2, 1, << Log(3, TRUE, 1, Alice, Bob, 9) >>)

MCChain ==
    ( <<1, 1, 0>> :> TwoTransfers @@ <<1, 1, 1>> :> Reverted @@
      <<1, 2, 0>> :> Nft @@ <<1, 2, 1>> :> Unknown @@
      <<1, 3, 0>> :> Later @@ <<2, 1, 0>> :> Later )

Honest(p, n) == [at |-> p, encodedTransaction |-> MCChain[p], logIndex |-> n]

MCSubmissions ==
    { Honest(<<1, 1, 0>>, n) : n \in 0..3 }
    \cup { Honest(p, 0) : p \in DOMAIN MCChain }
    \cup { [at |-> <<1, 1, 0>>, encodedTransaction |-> Forged, logIndex |-> 0],
           [at |-> <<1, 1, 1>>, encodedTransaction |-> Later, logIndex |-> 0],
           [at |-> <<1, 2, 2>>, encodedTransaction |-> Later, logIndex |-> 0] }
=============================================================================

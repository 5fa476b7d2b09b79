------------------------------ MODULE Collision ------------------------------
(***************************************************************************)
(* frontend/app/api/collide/route.ts: on a visitor's request the server    *)
(* broadcasts the same registration the book already holds, under the      *)
(* second originator, so that its refusal has a receipt.  It simulates     *)
(* first and sends nothing unless the call is already doomed; requests     *)
(* that arrive meanwhile join the one in flight, and a cooldown for each   *)
(* caller and an hourly cap bound what is sent.  A transaction whose       *)
(* receipt is not waited for any longer is still mined.                    *)
(*                                                                         *)
(* An operator used nowhere, directly before another of the same           *)
(* parameters, is the other one with a plausible bug, kept to show that    *)
(* the properties notice it.                                               *)
(***************************************************************************)
EXTENDS RevertReasons

CONSTANTS
    Callers,                \* IP addresses
    Relayer,                \* the account that owns the second originator
    SecondOriginator,
    PinnedFact,             \* DEMO_ARTIFACTS.pinnedFact and the terms made of it
    PinnedTerms,
    PER_IP_COOLDOWN_MS,
    GLOBAL_HOURLY_CAP,
    HOUR,                   \* 3,600,000 ms
    MaxTime                 \* bound: the last reading of the clock

ASSUME CollisionAssumption ==
    /\ SecondOriginator \in OriginatorIds
    /\ PinnedFact \in FactIds
    /\ PinnedTerms.maturityBlock \in Nat
    /\ PinnedTerms.maturityBlock > MaxBlock
    /\ {PER_IP_COOLDOWN_MS, GLOBAL_HOURLY_CAP, HOUR, MaxTime} \subseteq Nat

VARIABLES
    now,                    \* Date.now()
    lastSeen,               \* caller -> when it last started a send
    hourWindowStart,
    hourCount,
    inFlight,               \* the send in progress
    outcome,                \* what it resolved to
    mempool,                \* the relayer's transactions not in a block yet
    started                 \* history: <<caller, time>> of each send started

limits == <<lastSeen, hourWindowStart, hourCount, started>>
collisionVars == <<now, limits, inFlight, outcome, mempool>>

Never == MaxTime + 1        \* no entry in lastSeen

NoFlight == [ step |-> "none", refusal |-> "none" ]

NoOutcome == [ state |-> "none", error |-> "none" ]

CollisionInit ==
    /\ now = 0
    /\ lastSeen = [c \in Callers |-> Never]
    /\ hourWindowStart = 0
    /\ hourCount = 0
    /\ inFlight = NoFlight
    /\ outcome = NoOutcome
    /\ mempool = {}
    /\ started = <<>>

-----------------------------------------------------------------------------
Attempt == Refusal(Relayer, SecondOriginator, PinnedTerms, PinnedFact)

-----------------------------------------------------------------------------
(* Requests.                                                               *)

WindowExpired == now - hourWindowStart > HOUR

CountInWindow == IF WindowExpired THEN 0 ELSE hourCount

\* A bug: a caller waits for as long as it has waited already.
CooldownReversed(c) ==
    lastSeen[c] # Never /\ now - lastSeen[c] > PER_IP_COOLDOWN_MS

Cooling(c) ==
    lastSeen[c] # Never /\ now - lastSeen[c] < PER_IP_COOLDOWN_MS

rateLimited(c) == CountInWindow >= GLOBAL_HOURLY_CAP \/ Cooling(c)

\* Asking for the limit starts a new window when the old one is over.
WindowRead ==
    hourWindowStart' = IF WindowExpired THEN now ELSE hourWindowStart

\* Answered 429, or with the outcome of the send in flight.
PostWaits(c) ==
    /\ rateLimited(c) \/ inFlight # NoFlight
    /\ WindowRead
    /\ hourCount' = CountInWindow
    /\ UNCHANGED <<now, lastSeen, started, inFlight, outcome, mempool>>

PostStarts(c) ==
    /\ ~rateLimited(c)
    /\ inFlight = NoFlight
    /\ WindowRead
    /\ hourCount' = CountInWindow + 1
    /\ lastSeen' = [lastSeen EXCEPT ![c] = now]
    /\ started' = Append(started, <<c, now>>)
    /\ inFlight' = [ step |-> "simulate", refusal |-> "none" ]
    /\ outcome' = NoOutcome
    /\ UNCHANGED <<now, mempool>>

-----------------------------------------------------------------------------
(* One send.                                                               *)

Resolve(state, error) ==
    /\ inFlight' = NoFlight
    /\ outcome' = [ state |-> state, error |-> error ]

\* A bug: any refusal will do.
AnyRefusal(simulated) == simulated # "none"

Doomed(simulated) == simulated = "FactAlreadyUsed"

\* The node may fail too, which decodes to some other name.
Simulate ==
    /\ inFlight.step = "simulate"
    /\ \E simulated \in {Attempt, "Error"} :
          \/ /\ Doomed(simulated)
             /\ inFlight' = [ step |-> "send", refusal |-> simulated ]
             /\ UNCHANGED outcome
          \/ /\ ~Doomed(simulated)
             /\ Resolve("precondition_changed", simulated)
    /\ UNCHANGED <<now, limits, mempool>>

Send ==
    /\ inFlight.step = "send"
    /\ \/ /\ mempool' = mempool \cup {[ waited |-> TRUE, refused |-> inFlight.refusal ]}
          /\ inFlight' = [inFlight EXCEPT !.step = "wait"]
          /\ UNCHANGED outcome
       \/ Resolve("relayer_error", "none") /\ UNCHANGED mempool
    /\ UNCHANGED <<now, limits>>

\* What the route says of the receipt: the refusal it names is the one it
\* simulated, which may be another than the contract's.
Reported(tx) ==
    CASE Attempt = "none"      -> [ state |-> "mined_unexpectedly", error |-> "none" ]
      [] Attempt = tx.refused  -> [ state |-> "reverted", error |-> tx.refused ]
      [] OTHER                 -> [ state |-> "reverted", error |-> "misreported" ]

\* Included, whether or not anyone waits for the receipt.
Mined(tx) ==
    /\ mempool' = mempool \ {tx}
    /\ IF Attempt = "none"
       THEN registerLoan(Relayer, SecondOriginator, PinnedTerms, PinnedFact)
       ELSE UNCHANGED vars
    /\ IF tx.waited THEN Resolve(Reported(tx).state, Reported(tx).error)
                    ELSE UNCHANGED <<inFlight, outcome>>
    /\ UNCHANGED <<now, limits>>

\* No receipt within RECEIPT_TIMEOUT_MS.
Timeout ==
    /\ inFlight.step = "wait"
    /\ mempool' = { [tx EXCEPT !.waited = FALSE] : tx \in mempool }
    /\ Resolve("pending", "none")
    /\ UNCHANGED <<now, limits>>

PassTime ==
    /\ now < MaxTime
    /\ now' = now + 1
    /\ UNCHANGED <<limits, inFlight, outcome, mempool>>

Serve ==
    \/ \E c \in Callers : PostWaits(c) \/ PostStarts(c)
    \/ Simulate \/ Send \/ Timeout \/ PassTime

-----------------------------------------------------------------------------
(***************************************************************************)
(* The demonstration never commits the fact: whatever happened between the *)
(* simulation and the block that includes it, however long after the wait  *)
(* was given up, each transaction the route has broadcast is still doomed. *)
(***************************************************************************)
NeverCommits ==
    /\ outcome.state # "mined_unexpectedly"
    /\ \A tx \in mempool : Attempt # "none"

(***************************************************************************)
(* The refusal shown with the receipt, which was read from the simulation, *)
(* is the one the transaction was refused with when it was mined.          *)
(***************************************************************************)
RefusalIsTheReported == outcome.error # "misreported"

(***************************************************************************)
(* One send per caller per minute: joining a send in flight, reaching the  *)
(* cap and the reset of the window never let a caller start two sends      *)
(* within its cooldown; and whatever the window's phase no span of an hour *)
(* sees more than twice the cap.                                           *)
(***************************************************************************)
SendsAreSpaced ==
    /\ \A i, j \in DOMAIN started :
          i < j /\ started[i][1] = started[j][1] =>
            started[j][2] - started[i][2] >= PER_IP_COOLDOWN_MS
    /\ \A t \in 0..MaxTime :
          Cardinality({ i \in DOMAIN started : started[i][2] \in t..(t + HOUR) })
            <= 2 * GLOBAL_HOURLY_CAP
=============================================================================

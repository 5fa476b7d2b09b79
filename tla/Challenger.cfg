SPECIFICATION OpenBookSpec
CONSTANTS
    Lender = Lender
    Watcher = Watcher
    T = T
    U = U
    B = B
    P = P
    Usd = Usd
    d = d
    x = x
    r = r
    q = q
    y = y
    Zero = Zero
    Robot = Watcher
    FACT_LOOKBACK_BLOCKS = 1
    MaxFaults = 1
    Accounts = {Lender, Watcher}
    Payable = {Lender, Watcher}
    PROTOCOL_SINK = Watcher
    Addresses = {T, U, B, P}
    Tokens = {Usd}
    FactIds = {d, x, r, q, y}
    Ledger <- BookLedger
    Signatures <- BookSignatures
    MIN_BOND = 3
    BOND_PER_LOAN = 3
    WITHDRAW_COOLDOWN = 1
    MIN_CIRCULAR_WINDOW = 1
    MAX_CIRCULAR_WINDOW = 2
    MIN_CHALLENGE_WINDOW = 1
    DeployBlock = 1
    LoanTerms <- NoTerms
    CircularWindows = {}
    ChallengeWindows = {}
    Values = {}
    MaxOriginators = 1
    MaxLoans = 2
    MaxBlock = 3
    MaxBond = 6
INVARIANTS
    RefusalIsFinal
PROPERTIES
    BreachIsChallenged
CHECK_DEADLOCK FALSE

SPECIFICATION Spec
CONSTANTS
    Lender = Lender
    Rival = Rival
    Watcher = Watcher
    T = T
    U = U
    B = B
    P = P
    Usd = Usd
    Eur = Eur
    d = d
    x = x
    r = r
    q = q
    late = late
    far = far
    u = u
    v = v
    Zero = Zero
    Accounts = {Lender, Watcher}
    Payable = {Lender, Watcher}
    PROTOCOL_SINK = Watcher
    Addresses = {T, B, P}
    Tokens = {Usd}
    FactIds = {d, x, r, q, late, far}
    Ledger <- OneLedger
    Signatures <- OneSignatures
    MIN_BOND = 3
    BOND_PER_LOAN = 3
    WITHDRAW_COOLDOWN = 1
    MIN_CIRCULAR_WINDOW = 1
    MAX_CIRCULAR_WINDOW = 2
    MIN_CHALLENGE_WINDOW = 1
    DeployBlock = 1
    LoanTerms <- OneTerms
    CircularWindows = {1}
    ChallengeWindows = {0, 1, 2}
    Values = {1, 3}
    MaxOriginators = 1
    MaxLoans = 2
    MaxBlock = 6
    MaxBond = 6
INVARIANT RepaymentIsFresh
CHECK_DEADLOCK FALSE

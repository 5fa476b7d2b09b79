SPECIFICATION SeedSpec
CONSTANTS
    Watcher = Watcher
    Deployer = Deployer
    T = T
    B = B
    P = P
    Usd = Usd
    a = a
    ra = ra
    b = b
    fb = fb
    rb = rb
    Zero = Zero
    Seeder = Deployer
    Treasury = T
    Disbursement <- Disbursements
    Repayment <- Repayments
    Funding = fb
    PublishedWindow = 1
    PublishedChallengeWindow = 1
    Accounts = {Watcher}
    Payable = {Watcher}
    PROTOCOL_SINK = Watcher
    Addresses = {T, B, P}
    Tokens = {Usd}
    FactIds = {a, ra, b, fb, rb}
    Ledger <- Staged
    Signatures <- SeedSignatures
    MIN_BOND = 3
    BOND_PER_LOAN = 3
    WITHDRAW_COOLDOWN = 1
    MIN_CIRCULAR_WINDOW = 1
    MAX_CIRCULAR_WINDOW = 2
    MIN_CHALLENGE_WINDOW = 1
    DeployBlock = 1
    LoanTerms = {}
    CircularWindows = {1}
    ChallengeWindows = {1}
    Values = {3}
    MaxOriginators = 3
    MaxLoans = 3
    MaxBlock = 3
    MaxBond = 30
    MaxPending = 2
INVARIANTS
    SafeToRerun
CHECK_DEADLOCK FALSE

SPECIFICATION OpenedSpec
CONSTANTS
    Lender = Lender
    Rival = Rival
    T = T
    U = U
    B = B
    P = P
    Usd = Usd
    Eur = Eur
    d = d
    x = x
    r = r
    u = u
    One = One
    Both = Both
    Empty = Empty
    Junk = Junk
    Here = Here
    There = There
    Zero = Zero
    Hashes = {One, Both, Empty, Junk}
    Transactions = {One, Both, Empty}
    transferLegs <- Legs
    Callers = {Here, There}
    Relayer = Rival
    SecondOriginator = 2
    PinnedFact = d
    PinnedTerms <- Pinned
    PER_IP_COOLDOWN_MS = 2
    GLOBAL_HOURLY_CAP = 1
    HOUR = 2
    MaxTime = 3
    SOURCE_CHAIN = 1
    Visitor = Lender
    COVERAGE_WINDOW_BLOCKS = 1
    BINDING_LOOKBACK_BLOCKS = 1
    SourceHeads = {1, 3}
    ConfiguredToken = Eur
    Accounts = {Lender, Rival}
    Payable = {Lender, Rival}
    PROTOCOL_SINK = Rival
    Addresses = {T, U, B, P}
    Tokens = {Usd, Eur}
    FactIds = {d, x, r, u}
    Ledger <- BookLedger
    Signatures <- BookSignatures
    MIN_BOND = 3
    BOND_PER_LOAN = 3
    WITHDRAW_COOLDOWN = 1
    MIN_CIRCULAR_WINDOW = 1
    MAX_CIRCULAR_WINDOW = 2
    MIN_CHALLENGE_WINDOW = 1
    DeployBlock = 1
    LoanTerms <- BookTerms
    CircularWindows = {}
    ChallengeWindows = {}
    Values = {}
    MaxOriginators = 2
    MaxLoans = 2
    MaxBlock = 3
    MaxBond = 6
SYMMETRY SymmetricCallers
INVARIANTS
    AnswerHolds
    NeverCommits
    RefusalIsTheReported
    SendsAreSpaced
    CoverageIsExact
    OnlyTimeSpoilsThePreview
    ConfirmedIsBreached
CHECK_DEADLOCK FALSE

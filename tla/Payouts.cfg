SPECIFICATION PayoutsSpec
CONSTANTS
    Lender = Lender
    Rival = Rival
    Watcher = Watcher
    T = T
    U = U
    B = B
    P = P
    Usd = Usd
    Eur = Eur
    d = d
    x = x
    r = r
    q = q
    late = late
    far = far
    u = u
    v = v
    Zero = Zero
    Accounts = {Lender, Rival, Watcher}
    Payable = {Lender, Watcher}
    PROTOCOL_SINK = Watcher
    Addresses = {T, U, P}
    Tokens = {Usd, Eur}
    FactIds = {d, r, u, v}
    Ledger <- TwoLedger
    Signatures <- TwoSignatures
    MIN_BOND = 3
    BOND_PER_LOAN = 3
    WITHDRAW_COOLDOWN = 1
    MIN_CIRCULAR_WINDOW = 1
    MAX_CIRCULAR_WINDOW = 2
    MIN_CHALLENGE_WINDOW = 1
    DeployBlock = 1
    LoanTerms <- TwoTerms
    CircularWindows = {1}
    ChallengeWindows = {1}
    Values = {3}
    MaxOriginators = 2
    MaxLoans = 2
    MaxBlock = 4
    MaxBond = 6
INVARIANTS
    HoldsBondsAndDues
    EvidenceSpentOnce
    EvidenceBacked
PROPERTIES
    RecordsArePermanent
    KeepsCovenantBook
    ImplementsClearbook
CHECK_DEADLOCK FALSE


SPECIFICATION Spec
CONSTANTS
    Usd = Usd
    Alice = Alice
    Bob = Bob
    Worker = Worker
    Stranger = Stranger
    ChainKeys = {1, 2}
    Chain <- MCChain
    Submissions <- MCSubmissions
    Submitters = {Worker, Stranger}
    MaxHeight = 3
    MAX_BATCH_SIZE = 2
    MAX_BATCH_RANGE = 1
    MaxBatchTried = 3
INVARIANTS
    TypeOK
    FactsAreGenuine
    NothingLockedOut
    BatchIsSequential
PROPERTIES
    FactsAreWriteOnce
    ImplementsRegistry

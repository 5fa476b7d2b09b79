SPECIFICATION Spec
CONSTANTS
    Height <- MCHeight
    Missing = {2}
    Unavailable = {3}
    Corrupt = {4}
    BatchSize = 2
    Lookback = 1
    ClaimLimit = 2
    MaxHeight = 3
    MaxCrashes = 1
    MaxFaults = 1
INVARIANTS
    RetriableStaysQueued

CONSTANTS
    Nodes = {1, 2}
    Artifacts <- MCArtifacts
    Hashes <- MCHashes
    HashOf <- MCHashOf
    None = None
    Specs <- TwoSpecs
    GateObs <- T2Bad
    Unschedulable = {}
    Timeout = 1
    MaxGen = 3
    MaxFaults = 1
    MaxCrashes = 1
SPECIFICATION SettleSpec
INVARIANTS RollbackTarget LastGoodEarned StampsAreTrue
PROPERTIES FailedStaysGated StatusKeepsPromise Settles

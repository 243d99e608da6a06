CONSTANTS
    Nodes = {1, 2, 3}
    Artifacts <- MCArtifacts
    Hashes <- MCHashes
    HashOf <- MCHashOf
    None = None
    Specs <- T2Only
    GateObs <- AnyAnswer
    Unschedulable = {}
    Timeout = 1
    MaxGen = 2
    MaxFaults = 2
    MaxCrashes = 0
SPECIFICATION HSpecUpgrade
INVARIANTS EveryGateBelowMarkPassed

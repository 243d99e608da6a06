CONSTANTS
    Nodes = {1, 2, 3}
    Artifacts <- MCArtifacts
    Hashes <- MCHashes
    HashOf <- MCHashOf
    None = None
    Specs <- T2OrWide
    GateObs <- AnyAnswer
    Unschedulable = {}
    Timeout = 1
    MaxGen = 3
    MaxFaults = 1
    MaxCrashes = 0
SPECIFICATION HSpecUpgrade
INVARIANTS TypeOK WaveBounded
PROPERTIES PlanFrozen

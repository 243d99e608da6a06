CONSTANTS
    Nodes = {1, 2}
    Artifacts <- MCArtifacts
    Hashes <- MCHashes
    HashOf <- MCHashOf
    None = None
    Specs <- T2Only
    GateObs <- T2Outage
    Unschedulable = {}
    Timeout = 2
    MaxGen = 2
    MaxFaults = 0
    MaxCrashes = 0
SPECIFICATION GSpec
INVARIANTS SignalPersists

CONSTANTS
    Nodes = {1, 2, 3}
    Artifacts <- MCArtifacts
    Hashes <- MCHashes
    HashOf <- MCHashOf
    None = None
    Specs <- T2Only
    GateObs <- AlwaysHealthy
    Unschedulable = {}
    Timeout = 1
    MaxGen = 2
    MaxFaults = 0
    MaxCrashes = 1
SPECIFICATION UpgradeSpec
INVARIANTS OneWaveDisrupted

CONSTANTS
    Nodes = {1, 2, 3}
    Artifacts <- MCArtifacts
    Hashes <- MCHashes
    HashOf <- MCHashOf
    None = None
    Specs <- AllWaves
    GateObs <- NoData
    Unschedulable = {}
    Timeout = 1
    MaxGen = 2
    MaxFaults = 0
    MaxCrashes = 0
SPECIFICATION LagSpec
INVARIANTS OneWaveDisrupted NoDataNeverEscalates
PROPERTIES Converges

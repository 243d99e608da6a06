CONSTANTS
    Nodes = {1}
    Artifacts <- MCArtifacts
    Hashes <- MCHashes
    HashOf <- MCHashOf
    None = None
    Specs <- PolicySpecs
    GateObs <- T2Bad
    Unschedulable = {}
    Timeout = 1
    MaxGen = 3
    MaxFaults = 1
    MaxCrashes = 1
SPECIFICATION StaleSpec
INVARIANTS DaemonSetFollows
PROPERTIES StatusKeepsPromise Recovers

CONSTANTS
    Nodes = {1, 2}
    Artifacts <- MCArtifacts
    Hashes <- MCHashes
    HashOf <- MCHashOf
    None = None
    Specs <- TwoSpecs
    GateObs <- AlwaysHealthy
    Unschedulable = {"h1"}
    Timeout = 1
    MaxGen = 2
    MaxFaults = 0
    MaxCrashes = 0
SPECIFICATION FairDeploy
PROPERTIES OldTemplatesDeleted

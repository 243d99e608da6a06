CONSTANTS
    Gates <- MCGates
    Samples = {0, 1}
    NaN = NaN
    Malformed = Malformed
    Unset = Unset
    MaxSamples = 2
SPECIFICATION Spec
INVARIANTS HealthyIsProven UnhealthyIsProven NothingSentUnconfigured
CHECK_DEADLOCK FALSE

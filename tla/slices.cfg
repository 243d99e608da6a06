CONSTANTS
    Names = {1, 2, 3, 4, 5, 6, 7}
    WaveSizes <- MCWaveSizes
SPECIFICATION SliceSpec
INVARIANTS SlicesAreWaves GateJudgesItsWave WaveCountBounded
CHECK_DEADLOCK FALSE

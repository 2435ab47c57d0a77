SPECIFICATION Spec
CONSTANTS
    PatternLen = 3
    Configs <- SerialRandom
INVARIANT StoredIsSource

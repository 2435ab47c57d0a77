SPECIFICATION Spec
CONSTANTS
    PatternLen = 3
    Configs <- SerialFixed
INVARIANT FailedUploadsAborted

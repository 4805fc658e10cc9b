SPECIFICATION Spec
CONSTANTS
    FailureThreshold = 1
    ResetTimeout = 1
    HalfOpenMaxCalls = 1
    Calls = {c1, c2}
PROPERTY OnlyAProbeCloses

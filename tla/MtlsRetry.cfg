CONSTANTS
    Hour = 4
    EnvRotatePeriod = 2
    CallMax = 1
    FailMax = 1
SPECIFICATION Spec
INVARIANT FailedSigningIsRetried

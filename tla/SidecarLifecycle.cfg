CONSTANT Enabled = {"dns", "mtls"}
SPECIFICATION Spec
INVARIANTS
    TypeOK
    NeverStuck
    GracefulExitDrains
PROPERTIES
    ShutdownEnds
    FailureEndsProcess
    GracefulPathCompletes

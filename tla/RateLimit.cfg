CONSTANTS
    Enabled = {"dns", "rls"}
    Requests = {"r1", "r2"}
SPECIFICATION RateSpec
INVARIANTS
    StoppedStaysStopped
    SdkOutlivesService
    NoRequestCutOff

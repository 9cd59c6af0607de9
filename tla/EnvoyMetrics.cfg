\* The code cleans every 10 ticks and waits for 10 periods; 2 and 2 keep the
\* order of both and the strict comparison.
CONSTANTS
    Hosts = {"h1"}
    CleanThreshold = 2
    Inactive = 2
    MaxServed = 2
    MaxRestarts = 1
SPECIFICATION Spec
INVARIANTS
    TypeOK
    NeverOverReported
    ReportedIsLastReading
    MapForgets
PROPERTY AllReported

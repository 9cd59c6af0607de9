\* Five minutes are the unit of time; period and lifetime are the hour that is
\* the default of both.
CONSTANTS
    Hour = 12
    EnvRotatePeriod = 0
    CallMax = 3
    FailMax = 3
SPECIFICATION Spec
INVARIANTS
    TypeOK
    UseIsBounded
    OnlyRejectionWaits
    AtMostOneLateCall
PROPERTIES
    RotatorStops
    RecoversFromRejection

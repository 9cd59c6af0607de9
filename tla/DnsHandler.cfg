CONSTANTS
    Queries = {"q1", "q2"}
    Localhost = "127.0.0.1"
    Configs <- MCConfigs
SPECIFICATION Spec
INVARIANTS
    TypeOK
    OneReply
    AloneReachesGood
    RecursionIsAnswered
    NoSelfQuery
PROPERTIES
    ImplementsRotation
    EveryQueryEnds

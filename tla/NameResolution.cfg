CONSTANTS
    Queries = {"q1"}
    Localhost = "127.0.0.1"
    Configs <- MCConfigs
    Lower <- MCLower
    Questions <- MCQuestions
    Polaris <- MCPolaris
    V4 = {"v4a", "v4b"}
    V6 = {"v6a"}
    Hex <- MCHex
    Hex4 <- MCHex4
    HexWords = {"beef"}
    Zone <- MCZone
SPECIFICATION NameSpec
INVARIANTS
    ServiceNameResolves
    NoForeignAnswer
    SrvTargetResolves
    LossesAreNamed

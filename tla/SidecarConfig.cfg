CONSTANTS
    Addresses <- MCAddresses
    Levels <- MCLevels
    Files <- MCFiles
    Envs <- MCEnvs
    Flags <- MCFlags
SPECIFICATION Spec
INVARIANTS
    TypeOK
    PriorityHolds
    ServicesFollowSources
    BrokenStartsAreNamed

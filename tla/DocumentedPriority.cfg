CONSTANTS
    Addresses <- MCAddresses
    Levels <- MCLevels
    Files <- MCFiles
    Envs <- MCEnvs
    Flags <- MCFlags
SPECIFICATION Spec
INVARIANT DocumentedPriority

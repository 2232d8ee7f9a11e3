SPECIFICATION StartupSpec
CONSTANTS
    Ranks = {1, 2}
    NRuns = 1
PROPERTIES
    EveryLocalRankServed
CHECK_DEADLOCK FALSE

\* What the contract publishes: scalars.
CONSTANTS
    ChainVaults = {v1, v2}
    EventValues = {"scalar"}
SPECIFICATION ParserSpec
INVARIANT SlashIsShown
CHECK_DEADLOCK FALSE

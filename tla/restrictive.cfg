CONSTANTS
    Rules <- EveryRule
    Contexts <- EveryContext
    MaxRules = 2
SPECIFICATION OutcomeSpec
INVARIANTS MostRestrictiveMerge

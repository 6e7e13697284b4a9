SPECIFICATION Spec
CONSTANTS
    config = config  access = access  x = x  hash = hash  plus = plus
    Names = {config, access, x}
    ConfigName = config
    RuleFileName = access
    Patterns <- MCPatterns
    Reread <- MCReread
    Length <- MCLength
    MaxLines = 2
    MaxEntries = 2
    MaxHops = 2
INVARIANT ListingIsJson
CHECK_DEADLOCK FALSE

SPECIFICATION Spec
CONSTANTS
    config = config  access = access  x = x  hash = hash  plus = plus
    Names = {config, access, x, hash, plus}
    ConfigName = config
    RuleFileName = access
    Patterns <- MCPatternsOfX
    Reread <- MCReread
    Length <- MCLength
    MaxLines = 1
    MaxEntries = 2
    MaxHops = 3
INVARIANT RedirectionAddsSlash
CHECK_DEADLOCK FALSE

SPECIFICATION Spec
CONSTANTS
    config = config  access = access  x = x  hash = hash  plus = plus
    Names = {config, access, x}
    ConfigName = config
    RuleFileName = access
    Patterns <- MCPatternsAsWritten
    Reread <- MCReread
    Length <- MCLength
    MaxLines = 2
    MaxEntries = 2
    MaxHops = 2
INVARIANT DeniedByDefault
CHECK_DEADLOCK FALSE

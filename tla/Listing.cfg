SPECIFICATION Spec
CONSTANTS
    config = config  access = access  x = x  hash = hash  plus = plus
    Names = {config, x, hash}
    ConfigName = config
    RuleFileName = hash
    Patterns <- MCPatterns
    Reread <- MCReread
    Length <- MCLength
    MaxLines = 2
    MaxEntries = 2
    MaxHops = 3
INVARIANTS LastRuleDecides ListingMatchesAnswers JsonIfLastShown
           RedirectionsEnd RedirectedIsDirectory
CHECK_DEADLOCK FALSE

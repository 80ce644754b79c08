SPECIFICATION ReplaySpec
CONSTANTS
    Amounts = {1}
    Targets = {0, 1}
    Openings = {0, 1}
    MaxLen = 2
    TrimSlack = 1
    MaxLosses = 1
    MaxBalance = 1
PROPERTIES
    VerdictIsRight
    RebuildIsExact

CONSTANTS
    Size = 16
    Oversizing = 2
    Samples <- MCSamples
    Zero = 0
    Junk = Junk
    Period = 16
    Numbers = 36
    MaxRun = 7
    MinLen = 16
    MaxLen = 17
SPECIFICATION Spec
INVARIANTS TypeOK WindowIsRecent OneBitPerLevel

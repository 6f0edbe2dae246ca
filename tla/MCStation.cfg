CONSTANTS
    SampleSize = 2
    UpCap = 4
    DownCap = 3
    DataBufSize = 4
    MaxFrames = 1
    ClientBufSize = 2
    MaxEntries = 3
    StrKeys = {"HOST"}
    NumKeys = {"RATE"}
    Hash = "#"
    Atoi <- MCAtoi
    ConfigFiles <- MCConfigFiles
    BitBytes = 2
    MaxBits = 3
SPECIFICATION Spec
INVARIANTS TypeOK PopOutsideSession SamplesAligned ConfigFaithful
PROPERTIES ConnectedTncStays ImplementsLink   
CHECK_DEADLOCK FALSE

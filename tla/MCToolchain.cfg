SPECIFICATION Spec
CONSTANTS
    MaxRegs = 16
    ZeroHash <- MCZeroHash
    Programs <- MCPrograms
    MaxNames = 8
    MaxItems = 256
    MaxBlock = 64
    MaxProgram = 1024
INVARIANTS
    TypeOK
    ParsedAsWritten
    NoRegisterLost
    CodeIsSound
    FreshReads
    MeansWhatItSays
    RejectsIllFormed
PROPERTIES
    Halts
    ObjectsKept
CHECK_DEADLOCK FALSE

SPECIFICATION Spec
CONSTANTS
    MaxRegs = 16
    ZeroHash <- MCZeroHash
    Programs <- ForPrograms
    MaxNames = 8
    MaxItems = 256
    MaxBlock = 64
    MaxProgram = 1024
PROPERTY
    Halts
CHECK_DEADLOCK FALSE

CONSTANTS
    g1 = g1
    rg = rg
    f1 = f1
    rf = rf
    NoTmp = NoTmp
    NumArgs <- MCNumArgs
    W <- MCW
    Slots <- MCSlots
    Specials <- MCSpecials
    GPTmps <- MCGPTmps
    FPTmps <- MCFPTmps
    Regs <- MCRegs
    Shapes <- MCShapes
    Clobbers <- MCClobbers
    OffsetSteps <- MCOffsetSteps
    GPRCount = 3
    FPRCount = 2
    VolatileGPRs <- MCVolatileGPRs
    VolatileFPRs <- MCVolatileFPRs
    LocationCount = 2
SPECIFICATION MCSpec
INVARIANT TypeOK
INVARIANT ArgEqualityStructural
INVARIANT DefsReportedExactly
PROPERTY RefinesAirOperand
INVARIANT OSRExitRegistersRestored

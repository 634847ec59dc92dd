CONSTANTS
    Null = Null
    NoLabel = NoLabel
    Unlinked = Unlinked
    None = None
    NumSlots <- MCNumSlots
    MaxBody <- MCMaxBody
SPECIFICATION Spec
INVARIANT TypeOK
INVARIANT JumpsResolved
INVARIANT ControlFlowPreserved
CHECK_DEADLOCK FALSE

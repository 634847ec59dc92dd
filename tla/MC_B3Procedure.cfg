CONSTANTS
    v1 = v1
    v2 = v2
    v3 = v3
    Null = Null
    ValueIds <- MCValueIds
    MaxBlocks <- MCMaxBlocks
SPECIFICATION Spec
INVARIANT TypeOK
INVARIANT ArenaConsistent
INVARIANT ValuesOwnedByPresentBlocks

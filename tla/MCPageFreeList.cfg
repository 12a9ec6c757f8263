CONSTANTS
    Cores = {c1, c2}
    MaxPage = 6
    Slots = 2
    Batch = 3
    LargeSizes = {2}
SPECIFICATION Spec
INVARIANTS
    FreeListInv
PROPERTY
    ImplementsPageStacks

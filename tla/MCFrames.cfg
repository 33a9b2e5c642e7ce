SPECIFICATION Spec
CONSTANTS
    Trees <- MCTrees
    Slabs <- MCSlabs
    Stamps <- MCStamps
    ForeignMetas <- MCForeignMetas
    Ops <- MCOps
    UpperOf <- MCUpperOf
    AsciiUpperOf <- MCAsciiUpperOf
    MaxReplaced = 1
    NULL = NULL
INVARIANTS
    SlabIsChunk
    LayoutsAgree
    IntensiveNeverSummed
    VerdictsAgree
    RustImpliesPython

\* Two documents, odd sizes that need padding, and slabs of the default size, of a
\* power of two above it, and of a size above the largest slab size.
CONSTANTS
    d1 = d1
    d2 = d2
    Docs <- MCDocs
    Limit = 10
    Align = 2
    DefaultSlabSize = 4
    MinSlabSize = 2
    MaxSlabSize = 8
    Sizes = {1, 5, 9}
    MaxSlabs = 4
SYMMETRY Symmetry
VIEW Unwritten
SPECIFICATION Spec
CHECK_DEADLOCK FALSE
INVARIANTS
    SlabInOnePlace
    SlicesDisjoint
    AccountingExact

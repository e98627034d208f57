\* The text of a document after another one has used the pool.
CONSTANTS
    Ids <- MCIds
    Files <- MCTrees
    Fonts = {"a", "b"}
    Names = {"F1", "F2"}
    OutlineBudget = 1
SPECIFICATION Spec
CHECK_DEADLOCK FALSE
INVARIANTS
    ReturnedTextStable

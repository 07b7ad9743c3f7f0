\* SPARSE/PACKED nested one level deeper than the initial frame stack.
CONSTANTS
    Modes <- RewritingModes
    FixMax = 1
    StackInit = 2
    StackLimit = 128
    MaxCount = 0
    MaxCells = 12
    AllocMayFail = FALSE
SPECIFICATION Spec
INVARIANT EncodesIntent

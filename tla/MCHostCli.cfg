CONSTANTS
    Terminals = {t1, t2}
    Directories = {d1, d2}
    Paths = {f1}
    MaxTyped = 8
    MaxSteps = 2
    UndoDepth = 2
    None = None
SPECIFICATION Spec
SYMMETRY Symmetric
CHECK_DEADLOCK FALSE
INVARIANTS
    ContextsTellTheMode
    DirectoriesKeepApart
    UndoGoesBack

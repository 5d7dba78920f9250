CONSTANTS
    ACTIVE_LIST_ENTRY_NUM = 4
    RENAME_WIDTH = 2
    COMMIT_WIDTH = 2
    LREG_NUM = 2
    FREE_LIST_ENTRY_NUM = 5
    Ops <- MCOps
SPECIFICATION Spec
VIEW MCView
INVARIANTS MapMatchesWindow RegistersConserved
PROPERTIES ImplementsPreciseState

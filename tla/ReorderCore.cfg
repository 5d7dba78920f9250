CONSTANTS
    ACTIVE_LIST_ENTRY_NUM = 2
    RENAME_WIDTH = 1
    COMMIT_WIDTH = 2
    ISSUE_WIDTH = 1
    Outcomes = {"Success", "RefetchNext", "Trap", "Fault"}
    LREG_NUM = 2
    FREE_LIST_ENTRY_NUM = 2
    Ops <- MCOps
SPECIFICATION CoreSpec
INVARIANTS TrapSeesCommittedState
PROPERTIES DrivesRenameLogic DumpIsCommittedState

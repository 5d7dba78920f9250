CONSTANTS
    ACTIVE_LIST_ENTRY_NUM = 4
    RENAME_WIDTH = 2
    COMMIT_WIDTH = 2
    ISSUE_WIDTH = 1
    Outcomes = {"Success", "RefetchNext", "Fault"}
SPECIFICATION Spec
INVARIANTS FlushAllOnlyWhenAllYounger

CONSTANTS
    ACTIVE_LIST_ENTRY_NUM = 4
    RENAME_WIDTH = 2
    COMMIT_WIDTH = 2
    ISSUE_WIDTH = 2
    Outcomes = {"Success", "RefetchNext", "RefetchThis", "Fault"}
SPECIFICATION Spec
INVARIANTS TypeOK HandoverOK OneDetection ExecStateMatchesRef FlushIsExact
PROPERTIES CommitIsPrecise

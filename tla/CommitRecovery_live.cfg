CONSTANTS
    ACTIVE_LIST_ENTRY_NUM = 4
    RENAME_WIDTH = 2
    COMMIT_WIDTH = 2
    ISSUE_WIDTH = 1
    Outcomes = {"RefetchNext", "Fault"}
SPECIFICATION FairSpec
PROPERTIES RecoveryEnds HeadLeaves

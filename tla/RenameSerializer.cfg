CONSTANTS
    RENAME_WIDTH = 2
    COMMIT_WIDTH = 2
    ACTIVE_LIST_ENTRY_NUM = 4
    STORE_QUEUE_ENTRY_NUM = 4
SPECIFICATION FairSpec
INVARIANTS
    SerializedStartsAlone
    SerializedCommitsAlone
PROPERTIES SerializeEnds

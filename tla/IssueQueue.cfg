CONSTANTS
    ISSUE_QUEUE_ENTRY_NUM = 2
    ACTIVE_LIST_ENTRY_NUM = 4
    RENAME_WIDTH = 1
    ISSUE_QUEUE_RETURN_INDEX_WIDTH = 1
    Lanes <- MCLanes
    LATENCY <- MCLatency
SPECIFICATION LiveSpec
INVARIANTS EntriesConserved FlushedNeverWakes LiveWakes PayloadStays
PROPERTIES RecoveryPossibleAgain

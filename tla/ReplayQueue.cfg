CONSTANTS
    REPLAY_QUEUE_ENTRY_NUM = 4
    ISSUE_QUEUE_MEM_LATENCY = 2
    REPLAY_QUEUE_MAX_INTERVAL = 1
    RECORD_DEPTH = 2
    ISSUE_WIDTH = 2
    ACTIVE_LIST_ENTRY_NUM = 4
    RENAME_WIDTH = 1
SPECIFICATION LiveSpec
INVARIANTS NoOverflow OpsConserved FlushedNotReplayed FlushedCovered
PROPERTIES FlushedLeave

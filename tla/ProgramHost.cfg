CONSTANTS
    WIDTH = 8
    NREGS = 2
    WORDS_PER_ENTRY = 2
    ROM = 4
    RAM = 4
    STORE_QUEUE_SIZE = 2
    QUEUE_SIZE = 2
    LOOP_NUM = 3
    Shifts <- MCShifts
    RSD_INITIALIZATION_CYCLE = 2
    CYCLE_OF_RESET_SEQUENCE = 1
    MaxTestCycles = {0, 3, 20}
    REPORT_PERIOD = 1
    REPORTS = 2
    Programs <- MCPrograms
    BoardPrograms <- MCBoardPrograms
    Excess = {0, 1, 2}
    MAX_RUNS = 2
SPECIFICATION Spec
INVARIANTS BoardShowsText SerialOutIsText CommitsCounted
PROPERTIES HostsEnd OutputIsPrinted
CHECK_DEADLOCK FALSE

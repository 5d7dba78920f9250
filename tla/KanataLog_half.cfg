CONSTANTS
    FETCH_WIDTH = 1
    OP_SERIAL_NUM = 16
    MAX_MICRO_OPS_PER_INSN = 4
    ACTIVE_LIST_ENTRY_NUM = 2
    COMMIT_WIDTH = 2
    UnitOf <- MCUnitOf
    Starts = {11}
    MAX_OP = 6
SPECIFICATION Spec
INVARIANTS IdsExactWithinHalf
CHECK_DEADLOCK FALSE

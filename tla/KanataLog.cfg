CONSTANTS
    FETCH_WIDTH = 2
    OP_SERIAL_NUM = 32
    MAX_MICRO_OPS_PER_INSN = 4
    ACTIVE_LIST_ENTRY_NUM = 2
    COMMIT_WIDTH = 2
    UnitOf <- MCUnitOf
    Starts = {30}
    MAX_OP = 4
SPECIFICATION Spec
INVARIANTS GIDsExact LogShowsPipeline NoLogErrors CountsAgree
CHECK_DEADLOCK FALSE

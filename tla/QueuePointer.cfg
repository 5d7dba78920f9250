CONSTANTS
    N = 13
    PUSH_WIDTH = 3
    POP_WIDTH = 3
SPECIFICATION Spec
INVARIANTS TypeOK ReadsWhatWasWritten AgesFollowOrder FlushRangeIsSuffix

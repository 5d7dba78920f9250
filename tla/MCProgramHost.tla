---- MODULE MCProgramHost ----
EXTENDS ProgramHost
MCPrograms ==
    {<<PRINT, v, w, 0>> : v \in {-127, -10, -9, 0, 9, 10, 99, 100, 127}, w \in {-128, -1, 90}}
        \cup {<<TRAP, 7, -1, 0>>, <<ASSERT, 7, 6, 0>>, <<ASSERT, 5, 5, 0>>,
              <<PRINT, 0, -1, 0, 0, 0, 0, 0, 0, 0>>}
        \cup {<<RANDOM, 69, 0, 0>>, <<HELLO, 0, 0, 0>>}
MCBoardPrograms == {<<PRINT, 7, 90, 0>>, <<RANDOM, 69, 0, 0>>}
MCShifts == <<3, 5, 1>>
=============================================================================

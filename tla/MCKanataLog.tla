---- MODULE MCKanataLog ----
EXTENDS KanataLog
MCUnitOf(s) == <<"mem", "complex", "int", "mem">>[(s % 4) + 1]
=============================================================================

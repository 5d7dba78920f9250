---- MODULE MCIssueQueue ----
EXTENDS IssueQueue
MCLanes == {"int", "mem"}
MCLatency == [l \in MCLanes |-> IF l = "int" THEN 1 ELSE 3]
=============================================================================

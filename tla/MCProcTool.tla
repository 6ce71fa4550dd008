----------------------------- MODULE MCProcTool ------------------------------
EXTENDS ProcTool

\* a kernel thread, and two processes with the most of each
MCRss == [p \in 1 .. NPid |-> IF p = 4 THEN -1 ELSE IF p = 2 THEN 1 ELSE 2]
MCCpu == [p \in 1 .. NPid |-> IF p \in {3, 4} THEN 7 ELSE p]
=============================================================================

--------------------------- MODULE MCCpuExecutor ---------------------------
(* CpuExecutor for TLC: more jobs than slots, enough speculative ones to    *)
(* fill every worker, and two mandatory ones, of which one panics.          *)
EXTENDS CpuExecutor

CONSTANTS t1, t2, t3, t4

MCTasks == {t1, t2, t3, t4}
MCSpeculative == {t1, t2}
MCPanics == {t3}
=============================================================================

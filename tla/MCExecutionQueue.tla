-------------------------- MODULE MCExecutionQueue --------------------------
(* Small instances of ExecutionQueue for TLC. *)
EXTENDS ExecutionQueue, TLC

CONSTANTS t1, t2, t3, nb, vm

MCTasks2 == {t1, t2}
MCTasks3 == {t1, t2, t3}
MCCodes == {nb, vm}
MCNotebook == {nb}
MCNoNotebook == {}
MCSymmetry == Permutations(MCTasks3)
=============================================================================

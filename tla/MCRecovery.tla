----------------------------- MODULE MCRecovery -----------------------------
(* Small instances of Recovery for TLC. *)
EXTENDS Recovery, TLC

CONSTANTS p1, p2, t1, t2

TwoProcesses == {p1, p2}
TwoRecords == {t1, t2}
None == "nobody"
Symmetric == Permutations(TwoProcesses) \cup Permutations(TwoRecords)
=============================================================================

--------------------------- MODULE MCXrayService ---------------------------
(* Small instances of XrayService for TLC.  The identities of processes and *)
(* the members of one kind of goroutine are interchangeable.                *)
EXTENDS XrayService, TLC

CONSTANTS a1, k1, k2, q1, q2, q3, q4, good1, good2, bad

Symm == Permutations(Procs) \cup Permutations(Crons)
        \cup Permutations(ValidCfgs)
=============================================================================

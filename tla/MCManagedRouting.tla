-------------------------- MODULE MCManagedRouting --------------------------
(* Small instances of ManagedRouting for TLC.                               *)
EXTENDS ManagedRouting, TLC

CONSTANTS x, y, direct, t1, t2, o1, o2, r1, r2, r3, m1, m2

Symm == Permutations(Requests) \cup Permutations(Rids)
        \cup Permutations(Oids \ SystemTags) \cup Permutations(UserTags)

\* Nothing but ErrorMeansRolledBack, which no run checks, ever looks at the answer.
ButAnswer == <<out, rules, managed, baseOk, pc, arg, orphaned>>
=============================================================================

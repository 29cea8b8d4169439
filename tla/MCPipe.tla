------------------------------- MODULE MCPipe -------------------------------
(* Two writers and two readers, with and without a limit, and with one the    *)
(* overflow of which is discarded.                                            *)
EXTENDS Pipe, TLC

MCOptions == [limit : {0, 1}, discard : BOOLEAN]
               \cup {[limit |-> -1, discard |-> FALSE]}

Symm == Permutations(Writers) \cup Permutations(Readers)
=============================================================================

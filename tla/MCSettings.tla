----------------------------- MODULE MCSettings -----------------------------
(* A few interchangeable clients. *)
EXTENDS Settings, TLC

Symm == Permutations(Clients) \cup Permutations(Ports)
=============================================================================

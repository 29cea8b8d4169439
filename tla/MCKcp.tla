------------------------------- MODULE MCKcp -------------------------------
(* Small instances of Kcp: two segments of a connection whose numbers stay    *)
(* before the wrap, and three of one whose numbers wrap between them.         *)
EXTENDS Kcp

CONSTANTS Far       \* a base from which the numbers do not wrap

\* Bound: two segments far from the wrap.
TwoFromFar == base = Far /\ pushing => written < 2
=============================================================================

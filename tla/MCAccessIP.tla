----------------------------- MODULE MCAccessIP -----------------------------
(* AccessIP with the job and the requests of a small panel. *)
EXTENDS AccessIP

CONSTANTS job, request, none, key1

MCWorkers == {job, request}
MCTimes   == {1, 2}
=============================================================================

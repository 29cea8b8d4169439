-------------------------- MODULE MCInboundTraffic --------------------------
(* One page or two, two ports and two ids. *)
EXTENDS InboundTraffic

CONSTANTS x, y, p1, p2
=============================================================================

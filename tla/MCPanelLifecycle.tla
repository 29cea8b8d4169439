--------------------------- MODULE MCPanelLifecycle ---------------------------
(* PanelLifecycle with the main goroutine, one request and one cron goroutine. *)
EXTENDS PanelLifecycle

CONSTANTS main, a1, k1, q1, q2, q3, good1, bad
===============================================================================

------------------------------ MODULE Reconciler ------------------------------
(***************************************************************************)
(* What the supervision of xray promises its callers, without goroutines,  *)
(* files and processes: one configuration is wanted, one is running, and   *)
(* attempts, one at a time, bring the second to the first.  XrayService    *)
(* implements this specification.                                          *)
(***************************************************************************)
CONSTANTS
    Cfgs,      \* configurations
    Accepted,  \* those xray accepts
    NoCfg

VARIABLES
    wanted,    \* what the database says
    due,       \* an attempt has been asked for and has not looked yet
    seen,      \* what the attempt under way saw when it looked
    prev,      \* what it took down
    runs,      \* the configuration of the process the panel controls
    ok         \* the last attempt reported success

vars == <<wanted, due, seen, prev, runs, ok>>

Init ==
    /\ wanted \in Cfgs /\ due = TRUE
    /\ seen = NoCfg /\ prev = NoCfg /\ runs = NoCfg
    /\ ok = FALSE

\* The wanted configuration changes; the change may ask for an attempt, or not.
Change ==
    /\ wanted' \in Cfgs
    /\ due' \in {due, TRUE}
    /\ UNCHANGED <<seen, prev, runs, ok>>

Ask ==
    /\ due' = TRUE
    /\ UNCHANGED <<wanted, seen, prev, runs, ok>>

\* An attempt looks at what is wanted at that moment: whatever asked for an attempt
\* before is served by it.  Somebody else may already be asking for the next.
Look ==
    /\ due /\ seen = NoCfg
    /\ seen' = wanted
    /\ due' \in BOOLEAN
    /\ UNCHANGED <<wanted, prev, runs, ok>>

\* ... or cannot look.
Refuse ==
    /\ due /\ seen = NoCfg
    /\ due' \in BOOLEAN
    /\ ok' = FALSE
    /\ UNCHANGED <<wanted, seen, prev, runs>>

\* What runs is taken down for an accepted configuration only, and remembered.
TakeDown ==
    /\ seen \in Accepted /\ runs # NoCfg
    /\ prev' = runs /\ runs' = NoCfg
    /\ UNCHANGED <<wanted, due, seen, ok>>

Finish(result) ==
    /\ seen # NoCfg
    /\ seen' = NoCfg /\ prev' = NoCfg
    /\ ok' = result
    /\ UNCHANGED <<wanted, due>>

\* Success is reported when what was seen runs, and then only.
Install ==
    /\ seen \in Accepted /\ runs \in {NoCfg, seen}
    /\ runs' = seen
    /\ Finish(TRUE)

\* What was taken down runs again, and the attempt reports its failure.
Restore ==
    /\ prev # NoCfg /\ runs = NoCfg
    /\ runs' = prev
    /\ Finish(FALSE)

GiveUp == Finish(FALSE) /\ UNCHANGED runs

\* The process ends by itself, or is stopped.
Die ==
    /\ runs # NoCfg
    /\ runs' = NoCfg
    /\ UNCHANGED <<wanted, due, seen, prev, ok>>

Next ==
    \/ Change \/ Ask \/ Look \/ Refuse \/ TakeDown
    \/ Install \/ Restore \/ GiveUp \/ Die

Spec == Init /\ [][Next]_vars
===============================================================================

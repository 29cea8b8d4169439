--------------------------- MODULE InboundTraffic ---------------------------
(***************************************************************************)
(* Inbounds, the counting of their traffic and their limits:               *)
(* web/service/inbound.go with its callers, web/controller/inbound.go,     *)
(* web/job/xray_traffic_job.go, web/job/check_inbound_job.go and           *)
(* GetTraffic of xray/process.go.                                          *)
(*                                                                         *)
(* A tag is "inbound-" and the port, so that a port stands for both.  xray *)
(* counts by tag and forgets its counts when they are read or when it is   *)
(* restarted.  up and down are one number here.  A restart is the reading  *)
(* of the rows and the replacement of the process; XrayService has the     *)
(* steps between, and the one between a change and its restart flag.       *)
(***************************************************************************)
EXTENDS Naturals, FiniteSets, FiniteSetsExt

CONSTANTS
    Requests,    \* browser pages, with the request goroutines they start
    Ports,       \* ports, and so tags
    MaxId,       \* bound: ids of inbounds
    Totals,      \* limits an inbound may have; 0 is none
    MaxTraffic,  \* bound: units of traffic
    MaxRequests, \* bound: additions and pages
    MaxEvents,   \* bound: deletions, errors, crashes and expiries
    None         \* no row, no page, no owner

ASSUME BoundAssumption == {MaxId, MaxTraffic, MaxRequests, MaxEvents} \subseteq Nat /\ MaxId > 0
ASSUME PortsAssumption == Ports # {}
ASSUME TotalsAssumption == Totals \subseteq Nat

VARIABLES
    rows,        \* the table: [Ids -> Row or None]
    running,     \* xray runs
    owner,       \* what xray runs: [Ports -> Ids or None]
    bytes,       \* its counters: [Ports -> 0..MaxTraffic]
    need,        \* isNeedXrayRestart
    restart,     \* RestartXray: "idle" or "swap"
    snapshot,    \* the configuration it is going to run
    failed,      \* the last RestartXray returned an error
    job,         \* XrayTrafficJob: "idle" or "add"
    gotOwner, got,  \* the traffics it has read, with the inbound that carried them
    pc, page,    \* per request: place, and the id and row it shows or saves
    begun, events, passed,  \* bounded: requests, events, traffic
    carried,     \* history: traffic of the inbound that has the id
    inherited,   \* history: ids taken over while a page showed the inbound that had it, or
                 \* with a port while the traffic of another was in it
    disturbed,   \* history: ids some of whose traffic could not be charged
    raced        \* history: ids deleted when a request was about to save them

xrayVars  == <<running, owner, bytes>>
flagVars  == <<need, restart, snapshot, failed>>
jobVars   == <<job, gotOwner, got>>
reqVars   == <<pc, page, begun>>
ghostVars == <<carried, inherited, disturbed, raced>>
vars == <<rows, xrayVars, flagVars, jobVars, reqVars, events, passed, ghostVars>>

Ids     == 1..MaxId
Amounts == 0..MaxTraffic
Row     == [port : Ports, used : Amounts, total : Totals, enable : BOOLEAN, due : BOOLEAN]
Shown   == [id : Ids \cup {None}, row : Row]
Served  == [Ports -> Ids \cup {None}]
Empty   == [p \in Ports |-> None]
Zero    == [p \in Ports |-> 0]
Present == {i \in Ids : rows[i] # None}

ASSUME NullAssumption == None \notin Ids /\ None \notin Row /\ None \notin Shown

TypeOK ==
    /\ rows \in [Ids -> Row \cup {None}]
    /\ \A i, j \in Present : rows[i].port = rows[j].port => i = j  \* the unique indexes
    /\ running \in BOOLEAN /\ owner \in Served /\ bytes \in [Ports -> Amounts]
    /\ need \in BOOLEAN /\ restart \in {"idle", "swap"} /\ snapshot \in Served
    /\ failed \in BOOLEAN
    /\ job \in {"idle", "add"} /\ gotOwner \in Served /\ got \in [Ports -> Amounts]
    /\ pc \in [Requests -> {"idle", "page", "read", "save", "insert"}]
    /\ page \in [Requests -> Shown \cup {None}]
    /\ begun \in 0..MaxRequests /\ events \in 0..MaxEvents /\ passed \in Amounts
    /\ carried \in [Ids -> Amounts]
    /\ inherited \subseteq Ids /\ disturbed \subseteq Ids /\ raced \subseteq Ids

-----------------------------------------------------------------------------
(* Helpers.                                                                 *)

\* The inbounds GetXrayConfig puts in the configuration.
Config == [p \in Ports |->
    LET at == {i \in Present : rows[i].port = p /\ rows[i].enable}
    IN IF at = {} THEN None ELSE CHOOSE i \in at : TRUE]

checkPortExist(p, ignore) == \E i \in Present \ {ignore} : rows[i].port = p

Over(r) == (r.total > 0 /\ r.used >= r.total) \/ r.due

\* What xray, a restart or the job still holds of inbound i or of port p.
Holds(i, p) == \E f \in {owner, snapshot, gotOwner} : i \in {f[q] : q \in Ports} \/ f[p] # None

\* A page shows inbound i, or is about to save it.
OnPage(i) == \E t \in Requests : page[t] # None /\ page[t].id = i

Event == events < MaxEvents /\ events' = events + 1

Goto(t, l, pg) == pc' = [pc EXCEPT ![t] = l] /\ page' = [page EXCEPT ![t] = pg]
Finish(t) == Goto(t, "idle", None)

-----------------------------------------------------------------------------
(* Requests.                                                                *)

Begins(t) == pc[t] = "idle" /\ begun < MaxRequests /\ begun' = begun + 1

\* AddInbound has checked the port.
AddInbound(t) ==
    /\ Begins(t)
    /\ \E p \in Ports, n \in Totals :
         /\ ~checkPortExist(p, None)
         /\ Goto(t, "insert", [id |-> None, row |-> [port |-> p, used |-> 0, total |-> n,
                                                     enable |-> TRUE, due |-> FALSE]])
    /\ UNCHANGED <<passed, rows, xrayVars, flagVars, jobVars, events, ghostVars>>

\* Bug: there is no unique index.
InsertUnindexed(t) ==
    /\ pc[t] = "insert"
    /\ \E i \in Ids :
         /\ i = 1 + Max(Present \cup {0})
         /\ rows' = [rows EXCEPT ![i] = page[t].row]
    /\ need' = TRUE
    /\ Finish(t)
    /\ UNCHANGED <<passed, xrayVars, restart, snapshot, failed, jobVars, begun, events, ghostVars>>

\* The insert, which the unique index may refuse.  SQLite takes the id above those in use,
\* which a deleted inbound may have had: xray or a page may still know that one.
Insert(t) ==
    /\ pc[t] = "insert"
    /\ LET r == page[t].row IN
       IF checkPortExist(r.port, None)
       THEN UNCHANGED <<rows, need, ghostVars>>
       ELSE \E i \in Ids :
              /\ i = 1 + Max(Present \cup {0})
              /\ rows' = [rows EXCEPT ![i] = r]
              /\ need' = TRUE
              /\ carried' = [carried EXCEPT ![i] = 0]
              /\ inherited' = IF Holds(i, r.port) \/ OnPage(i)
                              THEN inherited \cup {i} ELSE inherited \ {i}
              /\ disturbed' = IF Holds(i, r.port) THEN disturbed \cup {i} ELSE disturbed \ {i}
              /\ raced' = raced \ {i}
    /\ Finish(t)
    /\ UNCHANGED <<passed, xrayVars, restart, snapshot, failed, jobVars, begun, events>>

\* The list is shown; what it says may be old when something is done with it.
ShowPage(t) ==
    /\ Begins(t)
    /\ \E i \in Present : Goto(t, "page", [id |-> i, row |-> rows[i]])
    /\ UNCHANGED <<passed, rows, xrayVars, flagVars, jobVars, events, ghostVars>>

\* The edit, reset and switch of the page send the whole row; one field is changed at a time.
Edits(r) ==
    {r} \cup {[r EXCEPT !.port = p] : p \in Ports} \cup {[r EXCEPT !.total = n] : n \in Totals}
        \cup {[r EXCEPT !.used = 0], [r EXCEPT !.enable = ~@], [r EXCEPT !.due = FALSE]}

\* UpdateInbound up to checkPortExist.
Submit(t) ==
    /\ pc[t] = "page"
    /\ \E r \in Edits(page[t].row) :
         IF checkPortExist(r.port, page[t].id) THEN Finish(t)
         ELSE Goto(t, "read", [page[t] EXCEPT !.row = r])
    /\ UNCHANGED <<passed, rows, xrayVars, flagVars, jobVars, begun, events, ghostVars>>

\* Bug: the row is not looked for.
GetInboundAnyway(t) ==
    /\ pc[t] = "read"
    /\ Goto(t, "save", page[t])
    /\ UNCHANGED <<passed, rows, xrayVars, flagVars, jobVars, begun, events, ghostVars>>

GetInbound(t) ==
    /\ pc[t] = "read"
    /\ IF page[t].id \in Present THEN Goto(t, "save", page[t]) ELSE Finish(t)
    /\ UNCHANGED <<passed, rows, xrayVars, flagVars, jobVars, begun, events, ghostVars>>

\* db.Save: all columns of the form are written, and a row that has been deleted since
\* is inserted again; the unique index may refuse.
Save(t) ==
    /\ pc[t] = "save"
    /\ LET r == page[t].row
           i == page[t].id
           others == \E f \in {owner, snapshot, gotOwner} : f[r.port] \notin {None, i}
       IN IF checkPortExist(r.port, i)
          THEN UNCHANGED <<rows, need, ghostVars>>
          ELSE /\ rows' = [rows EXCEPT ![i] = r]
               /\ need' = TRUE
               /\ inherited' = IF others THEN inherited \cup {i} ELSE inherited
               /\ disturbed' = IF i \notin Present \/ r.used # rows[i].used
                               THEN disturbed \cup {i} ELSE disturbed
               /\ UNCHANGED <<carried, raced>>
    /\ Finish(t)
    /\ UNCHANGED <<passed, xrayVars, restart, snapshot, failed, jobVars, begun, events>>

DelInbound(i) ==
    /\ Event
    /\ i \in Present
    /\ rows' = [rows EXCEPT ![i] = None]
    /\ need' = TRUE
    /\ raced' = IF \E t \in Requests : pc[t] = "save" /\ page[t].id = i
                THEN raced \cup {i} ELSE raced \ {i}
    /\ UNCHANGED <<passed, xrayVars, restart, snapshot, failed, jobVars, reqVars,
                   carried, inherited, disturbed>>

-----------------------------------------------------------------------------
(* The jobs.                                                                *)

\* Bug: the counters are not reset.
GetTrafficKeeping ==
    /\ job = "idle" /\ running
    /\ job' = "add" /\ gotOwner' = owner /\ got' = bytes
    /\ UNCHANGED <<rows, xrayVars, flagVars, reqVars, events, passed, ghostVars>>

\* XrayTrafficJob: GetTraffic(true).
GetTraffic ==
    /\ job = "idle" /\ running
    /\ job' = "add" /\ gotOwner' = owner /\ got' = bytes
    /\ bytes' = Zero
    /\ UNCHANGED <<rows, running, owner, flagVars, reqVars, events, passed, ghostVars>>

JobEnds == job' = "idle" /\ gotOwner' = Empty /\ got' = Zero

\* Bug: the traffic of the last seconds replaces the sum.
AddTrafficReplacing ==
    /\ job = "add"
    /\ rows' = [i \in Ids |-> IF i \in Present /\ got[rows[i].port] > 0
                              THEN [rows[i] EXCEPT !.used = got[rows[i].port]] ELSE rows[i]]
    /\ disturbed' = disturbed \cup {i \in Ids : \E p \in Ports :
            gotOwner[p] = i /\ got[p] > 0 /\ (i \notin Present \/ rows[i].port # p)}
    /\ JobEnds
    /\ UNCHANGED <<passed, xrayVars, flagVars, reqVars, events, carried, inherited, raced>>

\* AddTraffic: one transaction, by tag.  Whoever has the tag by now is charged.
AddTraffic ==
    /\ job = "add"
    /\ rows' = [i \in Ids |-> IF i \in Present
                              THEN [rows[i] EXCEPT !.used = @ + got[rows[i].port]] ELSE None]
    /\ disturbed' = disturbed \cup {i \in Ids : \E p \in Ports :
            gotOwner[p] = i /\ got[p] > 0 /\ (i \notin Present \/ rows[i].port # p)}
    /\ JobEnds
    /\ UNCHANGED <<passed, xrayVars, flagVars, reqVars, events, carried, inherited, raced>>

\* Bug: an inbound may use all of its limit.
DisableAboveTotal ==
    LET over == {i \in Present : rows[i].enable /\ (\/ rows[i].total > 0 /\ rows[i].used > rows[i].total
                                                    \/ rows[i].due)}
    IN /\ over # {}
       /\ rows' = [i \in Ids |-> IF i \in over THEN [rows[i] EXCEPT !.enable = FALSE] ELSE rows[i]]
       /\ need' = TRUE
       /\ UNCHANGED <<xrayVars, restart, snapshot, failed, jobVars, reqVars, events, passed, ghostVars>>

\* CheckInboundJob; it does nothing when there is nothing to disable.
DisableInvalidInbounds ==
    LET over == {i \in Present : rows[i].enable /\ Over(rows[i])}
    IN /\ over # {}
       /\ rows' = [i \in Ids |-> IF i \in over THEN [rows[i] EXCEPT !.enable = FALSE] ELSE rows[i]]
       /\ need' = TRUE
       /\ UNCHANGED <<xrayVars, restart, snapshot, failed, jobVars, reqVars, events, passed, ghostVars>>

\* The restart job takes the flag, or the watchdog finds no xray; the rows are read.
RestartXray ==
    /\ restart = "idle" /\ (need \/ ~running)
    /\ need' = (need /\ ~running)
    /\ restart' = "swap" /\ snapshot' = Config
    /\ UNCHANGED <<rows, xrayVars, failed, jobVars, reqVars, events, passed, ghostVars>>

LosesCounts == {i \in Ids : \E p \in Ports : owner[p] = i /\ bytes[p] > 0}

RestartEnds(error) ==
    /\ restart' = "idle" /\ snapshot' = Empty /\ failed' = error
    /\ UNCHANGED <<passed, rows, need, jobVars, reqVars, carried, inherited, raced>>

\* The process is replaced unless it runs that configuration (Config.Equals), of which only
\* who has which port is looked at here.
Swap ==
    /\ restart = "swap"
    /\ IF running /\ owner = snapshot
       THEN UNCHANGED <<xrayVars, disturbed>>
       ELSE /\ running' = TRUE /\ owner' = snapshot /\ bytes' = Zero
            /\ disturbed' = disturbed \cup LosesCounts
    /\ RestartEnds(FALSE)
    /\ UNCHANGED events

-----------------------------------------------------------------------------
(* The rest of the world.                                                   *)

\* Traffic passes through an inbound.
Carry(p) ==
    /\ running /\ owner[p] # None /\ passed < MaxTraffic
    /\ passed' = passed + 1
    /\ bytes' = [bytes EXCEPT ![p] = @ + 1]
    /\ carried' = [carried EXCEPT ![owner[p]] = @ + 1]
    /\ UNCHANGED <<rows, running, owner, flagVars, jobVars, reqVars, events, inherited,
                   disturbed, raced>>

\* The expiry time of a row passes.
Expire(i) ==
    /\ Event
    /\ i \in Present /\ ~rows[i].due
    /\ rows' = [rows EXCEPT ![i].due = TRUE]
    /\ UNCHANGED <<passed, xrayVars, flagVars, jobVars, reqVars, ghostVars>>

\* The transaction of AddTraffic is rolled back; the counters have been reset.
AddTrafficFails ==
    /\ Event
    /\ job = "add"
    /\ disturbed' = disturbed \cup {i \in Ids : \E p \in Ports : gotOwner[p] = i /\ got[p] > 0}
    /\ JobEnds
    /\ UNCHANGED <<passed, rows, xrayVars, flagVars, reqVars, carried, inherited, raced>>

\* The configuration is refused: xray stays as it is, and the flag is gone.
RestartFails ==
    /\ Event
    /\ restart = "swap"
    /\ RestartEnds(TRUE)
    /\ UNCHANGED <<xrayVars, disturbed>>

Crash ==
    /\ Event
    /\ running
    /\ running' = FALSE /\ owner' = Empty /\ bytes' = Zero
    /\ disturbed' = disturbed \cup LosesCounts
    /\ UNCHANGED <<passed, rows, flagVars, jobVars, reqVars, carried, inherited, raced>>

-----------------------------------------------------------------------------
\* A panel that has been started with one inbound.
Init ==
    /\ \E n \in Totals : LET p == CHOOSE p \in Ports : TRUE IN
         /\ rows = [i \in Ids |-> IF i = 1 THEN [port |-> p, used |-> 0, total |-> n,
                                                 enable |-> TRUE, due |-> FALSE] ELSE None]
         /\ owner = [Empty EXCEPT ![p] = 1]
    /\ running = TRUE /\ bytes = Zero
    /\ need = FALSE /\ restart = "idle" /\ snapshot = Empty /\ failed = FALSE
    /\ job = "idle" /\ gotOwner = Empty /\ got = Zero
    /\ pc = [t \in Requests |-> "idle"] /\ page = [t \in Requests |-> None]
    /\ begun = 0 /\ events = 0 /\ passed = 0
    /\ carried = [i \in Ids |-> 0] /\ inherited = {} /\ disturbed = {} /\ raced = {}

Request(t) == AddInbound(t) \/ Insert(t) \/ ShowPage(t) \/ Submit(t) \/ GetInbound(t) \/ Save(t)

Next ==
    \/ \E t \in Requests : Request(t)
    \/ \E i \in Ids : DelInbound(i) \/ Expire(i)
    \/ \E p \in Ports : Carry(p)
    \/ GetTraffic \/ AddTraffic \/ AddTrafficFails
    \/ DisableInvalidInbounds \/ RestartXray \/ Swap \/ RestartFails \/ Crash

Spec == Init /\ [][Next]_vars

\* cron runs the jobs.
FairSpec == Spec /\ WF_vars(DisableInvalidInbounds) /\ WF_vars(RestartXray) /\ WF_vars(Swap)

-----------------------------------------------------------------------------
(* Properties.                                                              *)

\* No inbound is charged more than it carried, unless it took a port over while the
\* traffic of another that had it was still to be charged, or an id while a page still
\* showed the inbound that had it, whose count that page may save.
NeverOvercharged ==
    \A i \in Present : i \notin inherited => rows[i].used <= carried[i]

\* What f and n, a tag's inbound and its count, hold for inbound i, which has one port.
Of(f, n, i) == IF \E p \in Ports : f[p] = i THEN n[CHOOSE p \in Ports : f[p] = i] ELSE 0

\* Traffic is on the row, with the job or in xray, unless xray ended, the transaction
\* failed, the row was elsewhere or a form wrote its own number over it.
NothingLost ==
    \A i \in Present \ (inherited \cup disturbed) :
        rows[i].used + Of(gotOwner, got, i) + Of(owner, bytes, i) = carried[i]

\* An inbound deleted does not come back, unless a request was about to save it.
NoResurrection ==
    [][\A i \in Ids : i \notin Present /\ i \in Present' /\ i \notin raced =>
           \E t \in Requests : pc[t] = "insert"]_vars

\* An inbound over its limit or past its time is not served for ever, unless it is given
\* more or the restart failed, which nobody tries again.
LimitsEnforced ==
    \A i \in Ids :
        (running /\ i \in Present /\ Over(rows[i]) /\ \E p \in Ports : owner[p] = i)
        ~> \/ ~running \/ i \notin Present \/ ~Over(rows[i]) \/ failed
           \/ \A p \in Ports : owner[p] # i
=============================================================================

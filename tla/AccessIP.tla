------------------------------ MODULE AccessIP ------------------------------
(***************************************************************************)
(* Access IP aggregation: web/service/access_ip.go.  A job every 15 s and  *)
(* every request for the list read the lines xray has appended to its      *)
(* access log since the saved offset, count them per source and port, save *)
(* the offset and write a summary; requests clear the records and switch   *)
(* the aggregation.                                                        *)
(*                                                                         *)
(* A line that parses is a record; offsets count lines.  Lines that do not *)
(* parse change nothing and are left out.  The log is written by xray and  *)
(* truncated by logrotate (copytruncate, installed by install.sh).  The    *)
(* offset and the summary are written to a temporary file and renamed, so  *)
(* a crash leaves the old one or the new one.                              *)
(***************************************************************************)
EXTENDS Naturals, Sequences, FiniteSets, FiniteSetsExt

CONSTANTS
    Workers,       \* goroutines: the job and the requests
    Job,           \* the one that runs AccessIPJob; the others serve requests
    Keys,          \* pairs of source address and inbound port
    Times,         \* time stamps
    MaxLines,      \* bound: lines xray writes
    MaxRotations,  \* bound: truncations of the log
    MaxFaults,     \* bound: errors and crashes
    NoWorker

ASSUME WorkerAssumption == Job \in Workers /\ NoWorker \notin Workers
ASSUME TimesAssumption  == Times \subseteq Nat \ {0}
ASSUME BoundAssumption  == {MaxLines, MaxRotations, MaxFaults} \subseteq Nat

VARIABLES
    log,       \* lines in the access log
    offset,    \* the state file
    records,   \* table access_ip_records: hits, first and last time per key
    summary,   \* access-ip-summary.log
    aggOn,     \* setting accessIPAggregationEnabled
    mu,        \* holder of accessIPMu
    pc,        \* where each goroutine stands
    pos, buf,  \* of the goroutine scanning: its place in the log, what it has buffered
    wasOn,     \* UpdateConfig: the setting it has read
    lines,     \* history: all lines xray ever wrote
    counted,   \* history: how often each was counted since the last clear
    excluded,  \* history: lines a clear has forgotten or a switch-off passed over
    unsaved,   \* history: lines counted since the offset was last saved
    replays,   \* history: how many runs counted the line and failed before saving the offset
    broken,    \* history: the last run or clear stopped half-way
    truncated, \* history: "unseen" while the offset is one of the log before a truncation,
               \* "seen" in the run that noticed, until it saves a new one
    rotations, faults

logVars   == <<log, lines, rotations>>
fileVars  == <<logVars, truncated>>
storeVars == <<offset, records, summary, aggOn>>
scanVars  == <<pos, buf>>
ghostVars == <<counted, excluded, unsaved, replays, broken>>
vars == <<fileVars, storeVars, mu, pc, scanVars, wasOn, ghostVars, faults>>

LineIds == 1..MaxLines
Line    == [id : LineIds, key : Keys, time : Times]
Record  == [hits : Nat, first : Times \cup {0}, last : Times \cup {0}]
NoHits  == [hits |-> 0, first |-> 0, last |-> 0]   \* no row for the key
Holding == {"scan", "saved", "deleted", "cleared"}
Waiting == {"want", "turnoff", "turnon", "wantclear", "wantskip"}

TypeOK ==
    /\ log \in Seq(Line) /\ buf \in Seq(Line) /\ pos \in Nat /\ offset \in Nat
    /\ records \in [Keys -> Record] /\ summary \in [Keys -> Record]
    /\ aggOn \in BOOLEAN /\ wasOn \in [Workers -> BOOLEAN]
    /\ mu \in Workers \cup {NoWorker}
    /\ pc \in [Workers -> {"idle"} \cup Waiting \cup Holding]
    /\ lines \subseteq Line
    /\ counted \in [LineIds -> Nat]
    /\ excluded \subseteq LineIds /\ unsaved \subseteq LineIds
    /\ replays \in [LineIds -> Nat] /\ broken \in BOOLEAN 
    /\ truncated \in {"no", "unseen", "seen"}
    /\ rotations \in 0..MaxRotations /\ faults \in 0..MaxFaults

Goto(w, l) == pc' = [pc EXCEPT ![w] = l]
Ids(s)     == {s[i].id : i \in 1..Len(s)}

Lock(w, from, to) ==
    /\ pc[w] = from /\ mu = NoWorker
    /\ mu' = w
    /\ Goto(w, to)

Unlock(w) == mu' = NoWorker /\ Goto(w, "idle") /\ pos' = 0 /\ buf' = <<>>

\* A run that looks at the log sees a truncation unless the log has grown past the
\* offset again.
LookAtSize ==
    truncated' = IF truncated = "unseen" /\ (offset = 0 \/ Len(log) < offset)
                 THEN "seen" ELSE truncated

-----------------------------------------------------------------------------
(* ProcessAccessLog.                                                        *)

\* The switch is looked at before the mutex is taken.
Begin(w) ==
    /\ pc[w] = "idle" /\ aggOn
    /\ Goto(w, "want")
    /\ UNCHANGED <<fileVars, storeVars, mu, scanVars, wasOn, ghostVars, faults>>

\* Bug: the saved offset is not used.
OpenAtStart(w) ==
    /\ Lock(w, "want", "scan")
    /\ pos' = 0
    /\ LookAtSize
    /\ UNCHANGED <<logVars, storeVars, buf, wasOn, ghostVars, faults>>

\* Bug: without a state file the scan starts at the end of the log.
OpenAtEnd(w) ==
    /\ Lock(w, "want", "scan")
    /\ pos' = IF offset = 0 THEN Len(log) ELSE IF Len(log) < offset THEN 0 ELSE offset
    /\ LookAtSize
    /\ UNCHANGED <<logVars, storeVars, buf, wasOn, ghostVars, faults>>

\* Load the offset, and start over when the log is shorter than that.  A log that is not
\* there yet is an empty one: nothing is read, and the summary is dumped in either case.
Open(w) ==
    /\ Lock(w, "want", "scan")
    /\ pos' = IF Len(log) < offset THEN 0 ELSE offset
    /\ LookAtSize
    /\ UNCHANGED <<logVars, storeVars, buf, wasOn, ghostVars, faults>>

\* The scanner fills its buffer with some of what the log holds by now.
Fill(w) ==
    /\ pc[w] = "scan" /\ buf = <<>> /\ pos < Len(log)
    /\ \E n \in (pos + 1)..Len(log) :
         /\ buf' = SubSeq(log, pos + 1, n)
         /\ pos' = n
    /\ UNCHANGED <<fileVars, storeVars, mu, pc, wasOn, ghostVars, faults>>

Counted(l) ==
    /\ buf' = Tail(buf)
    /\ counted' = [counted EXCEPT ![l.id] = @ + 1]
    /\ unsaved' = unsaved \cup {l.id}

\* Bug: the first time is only set when the row is created.
UpsertKeepingFirst(w) ==
    /\ pc[w] = "scan" /\ buf # <<>>
    /\ LET l == Head(buf)  r == records[l.key] IN
       /\ records' = [records EXCEPT ![l.key] =
            [hits  |-> r.hits + 1,
             first |-> IF r.hits = 0 THEN l.time ELSE r.first,
             last  |-> IF l.time >= r.last THEN l.time ELSE r.last]]
       /\ Counted(l)
    /\ UNCHANGED <<fileVars, offset, summary, aggOn, mu, pc, pos, wasOn, excluded,
                   replays, broken, faults>>

\* upsertRecord: create the row of this source and port, or add to it.
Upsert(w) ==
    /\ pc[w] = "scan" /\ buf # <<>>
    /\ LET l == Head(buf)  r == records[l.key] IN
       /\ records' = [records EXCEPT ![l.key] =
            [hits  |-> r.hits + 1,
             first |-> IF r.first = 0 \/ l.time < r.first THEN l.time ELSE r.first,
             last  |-> IF l.time >= r.last THEN l.time ELSE r.last]]
       /\ Counted(l)
    /\ UNCHANGED <<fileVars, offset, summary, aggOn, mu, pc, pos, wasOn, excluded,
                   replays, broken, faults>>

KnownAfter == truncated' = IF truncated = "seen" THEN "no" ELSE truncated

\* Bug: the offset saved is the size of the log, not the place the scanner got to.
SaveSize(w) ==
    /\ pc[w] = "scan" /\ buf = <<>>
    /\ offset' = Len(log)
    /\ KnownAfter
    /\ unsaved' = {}
    /\ Goto(w, "saved")
    /\ UNCHANGED <<logVars, records, summary, aggOn, mu, scanVars, wasOn, counted, excluded,
                   replays, broken, faults>>

\* At the end of the log: save how far the scanner got.
SaveOffset(w) ==
    /\ pc[w] = "scan" /\ buf = <<>> /\ pos >= Len(log)
    /\ offset' = pos
    /\ KnownAfter
    /\ unsaved' = {}
    /\ Goto(w, "saved")
    /\ UNCHANGED <<logVars, records, summary, aggOn, mu, scanVars, wasOn, counted, excluded,
                   replays, broken, faults>>

\* dumpSummary, the end of a run and of a clear.
DumpSummary(w) ==
    /\ pc[w] \in {"saved", "cleared"}
    /\ summary' = records
    /\ broken' = FALSE
    /\ Unlock(w)
    /\ UNCHANGED <<fileVars, offset, records, aggOn, wasOn, counted, excluded, unsaved, replays,
                   faults>>

-----------------------------------------------------------------------------
(* ClearAccessIPRecords and UpdateConfig.                                   *)

BeginClear(w) ==
    /\ w # Job /\ pc[w] = "idle"
    /\ Goto(w, "wantclear")
    /\ UNCHANGED <<fileVars, storeVars, mu, scanVars, wasOn, ghostVars, faults>>

DeleteAll ==
    /\ records' = [k \in Keys |-> NoHits]
    /\ counted' = [i \in LineIds |-> 0]
    /\ excluded' = excluded \cup {i \in LineIds : counted[i] > 0}

\* Bug: the clear does not wait for the run under way.
DeleteRecordsAtOnce(w) ==
    /\ pc[w] = "wantclear"
    /\ mu' = w
    /\ Goto(w, "deleted")
    /\ DeleteAll
    /\ UNCHANGED <<fileVars, offset, summary, aggOn, scanVars, wasOn, unsaved, replays, broken,
                   faults>>

DeleteRecords(w) ==
    /\ Lock(w, "wantclear", "deleted")
    /\ DeleteAll
    /\ UNCHANGED <<fileVars, offset, summary, aggOn, scanVars, wasOn, unsaved, replays, broken,
                   faults>>

\* Everything in the log by now is passed over.
PassOver ==
    /\ offset' = Len(log)
    /\ truncated' = "no"
    /\ excluded' = excluded \cup {i \in Ids(log) : counted[i] = 0}
    /\ unsaved' = {}

ClearOffset(w) ==
    /\ pc[w] = "deleted"
    /\ PassOver
    /\ Goto(w, "cleared")
    /\ UNCHANGED <<logVars, records, summary, aggOn, mu, scanVars, wasOn, counted, replays,
                   broken, faults>>

\* GetConfig, then the setting is saved.
ReadConfig(w) ==
    /\ w # Job /\ pc[w] = "idle"
    /\ wasOn' = [wasOn EXCEPT ![w] = aggOn]
    /\ pc' \in {[pc EXCEPT ![w] = l] : l \in {"turnoff", "turnon"}}
    /\ UNCHANGED <<fileVars, storeVars, mu, scanVars, ghostVars, faults>>

SaveConfig(w) ==
    /\ pc[w] \in {"turnoff", "turnon"}
    /\ aggOn' = (pc[w] = "turnon")
    /\ Goto(w, IF wasOn[w] /\ pc[w] = "turnoff" THEN "wantskip" ELSE "idle")
    /\ wasOn' = [wasOn EXCEPT ![w] = FALSE]
    /\ UNCHANGED <<fileVars, offset, records, summary, mu, scanVars, ghostVars, faults>>

\* skipCurrentAccessLog, when the aggregation was switched off.
SkipLog(w) ==
    /\ pc[w] = "wantskip" /\ mu = NoWorker
    /\ PassOver
    /\ Goto(w, "idle")
    /\ UNCHANGED <<logVars, records, summary, aggOn, mu, scanVars, wasOn, counted, replays,
                   broken, faults>>

-----------------------------------------------------------------------------
(* Failures, and the outside.                                               *)

\* What the run or clear that stops here leaves behind.
LeaveHalfDone ==
    /\ replays' = [i \in LineIds |-> replays[i] + IF i \in unsaved THEN 1 ELSE 0]
    /\ unsaved' = {}
    /\ broken' = TRUE
    /\ truncated' = IF truncated = "seen" THEN "unseen" ELSE truncated

\* The database or a file refuses: the function returns its error, and unlocks.
Fail(w) ==
    /\ pc[w] # "idle" /\ faults < MaxFaults
    /\ faults' = faults + 1
    /\ IF pc[w] \in Holding
       THEN Unlock(w) /\ LeaveHalfDone
       ELSE Goto(w, "idle") /\ UNCHANGED <<mu, scanVars, unsaved, replays, broken, truncated>>
    /\ wasOn' = [wasOn EXCEPT ![w] = FALSE]
    /\ UNCHANGED <<logVars, storeVars, counted, excluded>>

\* The panel dies and starts again.
Crash ==
    /\ faults < MaxFaults
    /\ faults' = faults + 1
    /\ IF mu = NoWorker THEN UNCHANGED <<unsaved, replays, broken, truncated>>
       ELSE LeaveHalfDone
    /\ mu' = NoWorker
    /\ pc' = [w \in Workers |-> "idle"]
    /\ wasOn' = [w \in Workers |-> FALSE]
    /\ pos' = 0 /\ buf' = <<>>
    /\ UNCHANGED <<logVars, storeVars, counted, excluded>>

\* xray accepts a connection.
Accepted ==
    /\ Cardinality(lines) < MaxLines
    /\ \E k \in Keys, t \in Times :
         LET l == [id |-> Cardinality(lines) + 1, key |-> k, time |-> t] IN
         /\ log' = Append(log, l)
         /\ lines' = lines \cup {l}
    /\ UNCHANGED <<storeVars, mu, pc, scanVars, wasOn, ghostVars, rotations, truncated, faults>>

\* logrotate copies the log away and truncates it.
Rotate ==
    /\ rotations < MaxRotations
    /\ rotations' = rotations + 1
    /\ log' = <<>>
    /\ truncated' = "unseen"
    /\ UNCHANGED <<lines, storeVars, mu, pc, scanVars, wasOn, ghostVars, faults>>

-----------------------------------------------------------------------------
Init ==
    /\ log = <<>> /\ offset = 0 /\ lines = {}
    /\ records = [k \in Keys |-> NoHits] /\ summary = [k \in Keys |-> NoHits]
    /\ aggOn \in BOOLEAN
    /\ mu = NoWorker
    /\ pc = [w \in Workers |-> "idle"]
    /\ wasOn = [w \in Workers |-> FALSE]
    /\ pos = 0 /\ buf = <<>>
    /\ counted = [i \in LineIds |-> 0] /\ excluded = {} /\ unsaved = {}
    /\ replays = [i \in LineIds |-> 0] /\ broken = FALSE
    /\ truncated = "no" /\ rotations = 0 /\ faults = 0

Run(w)    == Open(w) \/ Fill(w) \/ Upsert(w) \/ SaveOffset(w) \/ DumpSummary(w)
Clear(w)  == DeleteRecords(w) \/ ClearOffset(w)
Update(w) == SaveConfig(w) \/ SkipLog(w)

Next ==
    \/ \E w \in Workers : \/ Begin(w) \/ BeginClear(w) \/ ReadConfig(w)
                          \/ Run(w) \/ Clear(w) \/ Update(w) \/ Fail(w)
    \/ Crash \/ Accepted \/ Rotate

Spec == Init /\ [][Next]_vars

(***************************************************************************)
(* The cron library starts the job every 15 s; started goroutines go on,   *)
(* and sync.Mutex hands over to a goroutine that has waited for long.      *)
(* Nothing forces requests, connections, rotations or failures.            *)
(***************************************************************************)
Fairness ==
    /\ WF_vars(Begin(Job))
    /\ \A w \in Workers :
         /\ SF_vars(Open(w)) /\ SF_vars(DeleteRecords(w)) /\ SF_vars(SkipLog(w))
         /\ WF_vars(Fill(w) \/ Upsert(w) \/ SaveOffset(w) \/ DumpSummary(w))
         /\ WF_vars(ClearOffset(w) \/ SaveConfig(w))

FairSpec == Spec /\ Fairness

-----------------------------------------------------------------------------
(* Properties.                                                              *)

\* A line is counted once, and once more for every run that counted it and failed
\* before it saved the offset: runs that overlap, clears, rotations and switching
\* never make ProcessAccessLog read a line again.
CountedOncePerRun ==
    \A i \in LineIds : counted[i] <= 1 + replays[i]

\* The saved offset never passes over a line: each line before it was counted, or
\* forgotten by a clear, or passed over when the aggregation was switched off.  Except
\* after a truncation, until a run has seen that the log has become shorter.
NothingSkipped ==
    truncated = "no" =>
        \A n \in 1..Len(log) :
            n <= offset => counted[log[n].id] > 0 \/ log[n].id \in excluded

\* The lines of key k that were counted since the last clear, and each time one was.
Mine(k) == {l \in lines : l.key = k /\ counted[l.id] > 0}
Hits(k) == UNION {{<<l.id, n>> : n \in 1..counted[l.id]} : l \in Mine(k)}

\* A row holds the number of times lines were counted for it since the last clear, the
\* earliest and the latest of their times, in whatever order they came.
RecordsExact ==
    \A k \in Keys :
        /\ records[k].hits = Cardinality(Hits(k))
        /\ Mine(k) # {} => /\ records[k].first = Min({l.time : l \in Mine(k)})
                           /\ records[k].last  = Max({l.time : l \in Mine(k)})

\* Whenever no run or clear is under way and the last one ended well, the summary
\* file lists what the table holds.
SummaryMatches == mu = NoWorker /\ ~broken => summary = records

\* What the page and the summary report is what was counted.
ReportExact == RecordsExact /\ SummaryMatches

\* A line that a clear has forgotten or a switch-off passed over is not counted
\* afterwards, unless a run that counted it had failed to save the offset: a run
\* under way cannot bring cleared connections back.
ClearedStayCleared ==
    \A i \in excluded : counted[i] > 0 => replays[i] > 0

\* Lines the scan will never reach: after a rotation the log grew past the old
\* offset before a run saw that it had become shorter.
Overgrown(i) ==
    /\ truncated # "no" /\ offset <= Len(log)
    /\ \E n \in 1..offset : log[n].id = i

\* While the aggregation stays on, every line of the log is counted, whatever
\* failed before, unless it was passed over, rotated away, or overgrown.
Delivered ==
    <>[]aggOn =>
        \A i \in LineIds :
            i \in Ids(log) ~> \/ counted[i] > 0 \/ i \in excluded
                              \/ i \notin Ids(log) \/ Overgrown(i)
=============================================================================

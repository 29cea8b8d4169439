---------------------------- MODULE AccessIPProofs ----------------------------
(***************************************************************************)
(* Proofs about AccessIP, for any goroutines, keys, times and bounds: the   *)
(* offset passes over no line, a line is counted once per run, a clear      *)
(* stays one, and the table and the summary report what was counted.        *)
(*                                                                          *)
(* A place in the log means nothing once the log has been truncated, so the *)
(* invariant says what a place promises in both cases: while the log is     *)
(* longer than that, the lines behind it are fresh; when it is shorter, all *)
(* of its lines are.                                                        *)
(***************************************************************************)
EXTENDS AccessIP, SequenceTheorems, FiniteSetTheorems, TLAPS

Scanning == mu # NoWorker /\ pc[mu] = "scan"

Locking ==
    /\ \A w \in Workers : pc[w] \in Holding <=> mu = w
    /\ ~Scanning => buf = <<>> /\ unsaved = {} /\ truncated # "seen"

\* Lines are numbered as xray writes them.
Numbers ==
    /\ IsFiniteSet(lines)
    /\ \A l \in lines : l.id <= Cardinality(lines)
    /\ \A n \in 1..Len(log) : log[n] \in lines
    /\ \A m, n \in 1..Len(log) : m < n => log[m].id < log[n].id
    /\ \A i \in LineIds :
         counted[i] > 0 \/ i \in excluded \/ i \in unsaved => i <= Cardinality(lines)

\* What is buffered is the stretch of the log before pos, or of the log before it was
\* truncated.
InStep  == pos <= Len(log) /\ \A k \in 1..Len(buf) : buf[k] = log[pos - Len(buf) + k]
Foreign == \A k \in 1..Len(buf), n \in 1..Len(log) : buf[k].id # log[n].id

Buffer ==
    /\ Len(buf) <= pos
    /\ InStep \/ Foreign
    /\ Scanning /\ truncated # "unseen" => InStep
    /\ \A k \in 1..Len(buf) : buf[k].id <= Cardinality(lines)
    /\ \A j, k \in 1..Len(buf) : j < k => buf[j].id < buf[k].id

\* Never counted but by runs that failed.
Fresh(i)   == counted[i] <= replays[i] /\ (i \in excluded => replays[i] > 0)
Reached(n) == IF n > Len(log) THEN 0 ELSE n

FreshAhead ==
    /\ \A n \in 1..Len(log) :
         n > Reached(offset) /\ log[n].id \notin unsaved => Fresh(log[n].id)
    /\ Scanning =>
         /\ \A n \in 1..Len(log) :
              n > Reached(pos) => log[n].id \notin unsaved /\ Fresh(log[n].id)
         /\ \A k \in 1..Len(buf) : buf[k].id \notin unsaved /\ Fresh(buf[k].id)

Dealt(i) == counted[i] > 0 \/ i \in excluded

NoneBehind ==
    /\ truncated = "no" =>
         offset <= Len(log) /\ \A n \in 1..Len(log) : n <= offset => Dealt(log[n].id)
    /\ Scanning /\ truncated # "unseen" =>
         \A n \in 1..Len(log) : n <= pos - Len(buf) => Dealt(log[n].id)

Rest ==
    /\ Locking /\ Numbers /\ Buffer /\ FreshAhead /\ NoneBehind
    /\ CountedOncePerRun /\ ClearedStayCleared

IInv == TypeOK /\ Rest

-----------------------------------------------------------------------------
(* Sequences.                                                               *)

LEMMA FirstOut ==
    ASSUME NEW S, NEW s \in Seq(S), s # <<>>
    PROVE  /\ Len(s) \in Nat \ {0} /\ Head(s) = s[1] /\ Head(s) \in S
           /\ Tail(s) \in Seq(S) /\ Len(Tail(s)) = Len(s) - 1
           /\ \A k \in 1..Len(Tail(s)) : Tail(s)[k] = s[k + 1]
BY HeadTailProperties, LenProperties, ElementOfSeq

LEMMA Stretch ==
    ASSUME NEW S, NEW s \in Seq(S), NEW p \in Nat, NEW n \in (p + 1)..Len(s)
    PROVE  /\ SubSeq(s, p + 1, n) \in Seq(S) /\ Len(SubSeq(s, p + 1, n)) = n - p
           /\ \A k \in 1..(n - p) : SubSeq(s, p + 1, n)[k] = s[p + k]
<1>1. Len(s) \in Nat
  BY LenProperties
<1>2. p + 1 \in 1..(Len(s) + 1) /\ n \in p..Len(s) /\ n \in Nat
  BY <1>1
<1>3. \A k \in (p + 1)..n : s[k] \in S
  BY <1>1, <1>2, ElementOfSeq
<1> QED
  BY <1>1, <1>2, <1>3, SubSeqProperties

LEMMA OneMore ==
    ASSUME NEW S, NEW s \in Seq(S), NEW e \in S
    PROVE  /\ Append(s, e) \in Seq(S) /\ Len(Append(s, e)) = Len(s) + 1
           /\ \A k \in 1..Len(s) : Append(s, e)[k] = s[k]
           /\ Append(s, e)[Len(s) + 1] = e
BY AppendProperties, LenProperties

\* What Accepted adds.
LEMMA NextLine ==
    ASSUME TypeOK, IsFiniteSet(lines), Accepted
    PROVE  \E l \in Line : /\ l.id = Cardinality(lines) + 1
                           /\ log' = Append(log, l) /\ log' \in Seq(Line)
                           /\ lines' = lines \cup {l}
<1>1. PICK k \in Keys, t \in Times :
        LET l == [id |-> Cardinality(lines) + 1, key |-> k, time |-> t] IN
        log' = Append(log, l) /\ lines' = lines \cup {l}
  BY DEF Accepted
<1> DEFINE l == [id |-> Cardinality(lines) + 1, key |-> k, time |-> t]
<1>2. Cardinality(lines) \in Nat /\ Cardinality(lines) < MaxLines
  BY FS_CardinalityType DEF Accepted
<1>3. l \in Line /\ l.id = Cardinality(lines) + 1
  BY <1>2, BoundAssumption DEF Line, LineIds
<1>4. log' = Append(log, l) /\ lines' = lines \cup {l} /\ log' \in Seq(Line)
  BY <1>1, <1>3, OneMore DEF TypeOK
<1> QED
  BY <1>3, <1>4

-----------------------------------------------------------------------------
(* Types.                                                                   *)

LEMMA TypeStep == ASSUME TypeOK, IsFiniteSet(lines), [Next]_vars PROVE TypeOK'
<1> USE DEF Holding, Waiting
<1>a. LineIds \subseteq Nat
  BY BoundAssumption DEF LineIds
<1>1. ASSUME NEW w \in Workers, Begin(w) PROVE TypeOK'
  BY <1>1 DEF Begin, Goto, fileVars, logVars, storeVars, scanVars, ghostVars, TypeOK
<1>2. ASSUME NEW w \in Workers, BeginClear(w) PROVE TypeOK'
  BY <1>2 DEF BeginClear, Goto, fileVars, logVars, storeVars, scanVars, ghostVars, TypeOK
<1>3. ASSUME NEW w \in Workers, ReadConfig(w) PROVE TypeOK'
  BY <1>3 DEF ReadConfig, Goto, fileVars, logVars, storeVars, scanVars, ghostVars, TypeOK
<1>4. ASSUME NEW w \in Workers, Open(w) PROVE TypeOK'
  BY <1>4 DEF Open, Lock, LookAtSize, Goto, logVars, storeVars, scanVars, ghostVars, TypeOK
<1>5. ASSUME NEW w \in Workers, Fill(w) PROVE TypeOK'
  <2>1. PICK n \in (pos + 1)..Len(log) : buf' = SubSeq(log, pos + 1, n) /\ pos' = n
    BY <1>5 DEF Fill
  <2>2. buf' \in Seq(Line) /\ pos' \in Nat
    BY <2>1, Stretch, LenProperties DEF TypeOK
  <2> QED
    BY <1>5, <2>2 DEF Fill, fileVars, logVars, storeVars, ghostVars, TypeOK
<1>6. ASSUME NEW w \in Workers, Upsert(w) PROVE TypeOK'
  <2> DEFINE l == Head(buf)  r == records[l.key]
  <2>1. buf' \in Seq(Line) /\ l \in Line
    BY <1>6, FirstOut DEF Upsert, Counted, TypeOK
  <2>2. l.id \in LineIds /\ l.key \in Keys /\ l.time \in Times /\ r \in Record
    BY <2>1 DEF Line, TypeOK
  <2>3. records' \in [Keys -> Record]
    BY <1>6, <2>2 DEF Upsert, Record, TypeOK
  <2>4. counted' \in [LineIds -> Nat] /\ unsaved' \subseteq LineIds
    BY <1>6, <2>2 DEF Upsert, Counted, TypeOK
  <2> QED
    BY <1>6, <2>1, <2>3, <2>4 DEF Upsert, fileVars, logVars, TypeOK
<1>7. ASSUME NEW w \in Workers, SaveOffset(w) PROVE TypeOK'
  BY <1>7 DEF SaveOffset, KnownAfter, Goto, logVars, scanVars, TypeOK
<1>8. ASSUME NEW w \in Workers, DumpSummary(w) PROVE TypeOK'
  BY <1>8, EmptySeq DEF DumpSummary, Unlock, Goto, fileVars, logVars, TypeOK
<1>9. ASSUME NEW w \in Workers, DeleteRecords(w) PROVE TypeOK'
  BY <1>9 DEF DeleteRecords, DeleteAll, NoHits, Record, Lock, Goto, fileVars, logVars,
              scanVars, TypeOK
<1>b. ASSUME PassOver PROVE offset' \in Nat /\ excluded' \subseteq LineIds
  <2>1. Ids(log) \subseteq LineIds
    <3>1. \A n \in 1..Len(log) : log[n] \in Line
      BY ElementOfSeq DEF TypeOK
    <3>2. \A l \in Line : l.id \in LineIds
      BY DEF Line
    <3> QED
      BY <3>1, <3>2 DEF Ids
  <2> QED
    BY <1>b, <2>1, LenProperties DEF PassOver, TypeOK
<1>10. ASSUME NEW w \in Workers, ClearOffset(w) PROVE TypeOK'
  BY <1>10, <1>b DEF ClearOffset, PassOver, Goto, logVars, scanVars, TypeOK
<1>11. ASSUME NEW w \in Workers, SaveConfig(w) PROVE TypeOK'
  BY <1>11 DEF SaveConfig, Goto, fileVars, logVars, scanVars, ghostVars, TypeOK
<1>12. ASSUME NEW w \in Workers, SkipLog(w) PROVE TypeOK'
  BY <1>12, <1>b DEF SkipLog, PassOver, Goto, logVars, scanVars, TypeOK
<1>c. ASSUME LeaveHalfDone
      PROVE  /\ replays' \in [LineIds -> Nat] /\ unsaved' = {} /\ broken' = TRUE
             /\ truncated' \in {"no", "unseen", "seen"}
  BY <1>c DEF LeaveHalfDone, TypeOK
<1>13. ASSUME NEW w \in Workers, Fail(w) PROVE TypeOK'
  <2>1. faults' \in 0..MaxFaults
    BY <1>13, BoundAssumption DEF Fail, TypeOK
  <2>2. CASE pc[w] \in Holding
    <3>1. LeaveHalfDone /\ Unlock(w)
      BY <1>13, <2>2 DEF Fail
    <3>2. /\ buf' = <<>> /\ buf' \in Seq(Line) /\ pos' \in Nat /\ mu' = NoWorker
          /\ pc' = [pc EXCEPT ![w] = "idle"]
      BY <3>1, EmptySeq DEF Unlock, Goto
    <3>3. /\ wasOn' = [wasOn EXCEPT ![w] = FALSE]
          /\ UNCHANGED <<logVars, storeVars, counted, excluded>>
      BY <1>13 DEF Fail
    <3> QED
      BY <1>c, <2>1, <3>1, <3>2, <3>3 DEF logVars, storeVars, TypeOK
  <2>3. CASE pc[w] \notin Holding
    BY <1>13, <2>1, <2>3 DEF Fail, Goto, logVars, storeVars, scanVars, TypeOK
  <2> QED
    BY <2>2, <2>3
<1>14. ASSUME Crash PROVE TypeOK'
  <2>1. faults' \in 0..MaxFaults
    BY <1>14, BoundAssumption DEF Crash, TypeOK
  <2> QED
    BY <1>14, <1>c, <2>1, EmptySeq DEF Crash, logVars, storeVars, TypeOK
<1>15. ASSUME Accepted PROVE TypeOK'
  BY <1>15, NextLine DEF Accepted, storeVars, scanVars, ghostVars, TypeOK
<1>16. ASSUME Rotate PROVE TypeOK'
  BY <1>16, EmptySeq, BoundAssumption DEF Rotate, storeVars, scanVars, ghostVars, TypeOK
<1>17. CASE UNCHANGED vars
  BY <1>17 DEF vars, fileVars, logVars, storeVars, scanVars, ghostVars, TypeOK
<1> QED
  BY <1>1, <1>2, <1>3, <1>4, <1>5, <1>6, <1>7, <1>8, <1>9, <1>10, <1>11, <1>12, <1>13,
     <1>14, <1>15, <1>16, <1>17 DEF Next, Run, Clear, Update

-----------------------------------------------------------------------------
(* The lines and the places in them.                                        *)

LEMMA Lines ==
    ASSUME TypeOK
    PROVE  /\ Len(log) \in Nat /\ Len(buf) \in Nat /\ pos \in Nat /\ offset \in Nat
           /\ \A n \in 1..Len(log) : log[n] \in Line /\ log[n].id \in LineIds
           /\ \A k \in 1..Len(buf) : buf[k] \in Line /\ buf[k].id \in LineIds
           /\ LineIds \subseteq Nat
           /\ \A i \in LineIds : counted[i] \in Nat /\ replays[i] \in Nat
<1>1. \A l \in Line : l.id \in LineIds
  BY DEF Line
<1>2. LineIds \subseteq Nat
  BY BoundAssumption DEF LineIds
<1> QED
  BY <1>1, <1>2, ElementOfSeq, LenProperties DEF TypeOK

\* The steps that touch neither the log nor what was counted, nor the goroutine that
\* holds the mutex.
LEMMA Quiet ==
    ASSUME TypeOK, Rest,
           UNCHANGED <<log, lines, offset, mu, pos, buf, counted, excluded, unsaved, replays,
                       truncated>>,
           \A w \in Workers : pc[w] \in Holding \/ pc'[w] \in Holding => pc'[w] = pc[w]
    PROVE  Rest'
<1>1. mu \in Workers \cup {NoWorker}
  BY DEF TypeOK
<1>2. Scanning' <=> Scanning
  <2>1. CASE mu = NoWorker
    BY <2>1 DEF Scanning
  <2>2. CASE mu \in Workers
    BY <2>2 DEF Scanning, Holding
  <2> QED
    BY <1>1, <2>1, <2>2
<1>3. Locking'
  BY <1>2 DEF Rest, Locking
<1>4. Numbers' /\ CountedOncePerRun' /\ ClearedStayCleared'
  BY DEF Rest, Numbers, CountedOncePerRun, ClearedStayCleared
<1>5. Buffer'
  BY <1>2 DEF Rest, Buffer, InStep, Foreign
<1>6. FreshAhead'
  BY <1>2 DEF Rest, FreshAhead, Fresh, Reached
<1>7. NoneBehind'
  BY <1>2 DEF Rest, NoneBehind, Dealt
<1> QED
  BY <1>3, <1>4, <1>5, <1>6, <1>7 DEF Rest

\* Who takes the mutex, and who has it.
LEMMA Taken ==
    ASSUME TypeOK, Locking, NEW w \in Workers, NEW from, NEW to \in Holding, Lock(w, from, to)
    PROVE  /\ ~Scanning /\ mu' = w /\ pc'[w] = to
           /\ \A v \in Workers : pc'[v] \in Holding <=> mu' = v
<1>1. mu = NoWorker /\ mu' = w /\ pc' = [pc EXCEPT ![w] = to]
  BY DEF Lock, Goto
<1>2. \A v \in Workers : pc[v] \notin Holding
  BY <1>1, WorkerAssumption DEF Locking
<1> QED
  BY <1>1, <1>2 DEF Scanning, TypeOK

LEMMA Held ==
    ASSUME TypeOK, Locking, NEW w \in Workers, pc[w] \in Holding
    PROVE  mu = w /\ mu # NoWorker /\ (Scanning <=> pc[w] = "scan")
BY WorkerAssumption DEF Locking, Scanning

LEMMA GoesOn ==
    ASSUME TypeOK, Locking, NEW w \in Workers, pc[w] \in Holding, NEW to \in Holding,
           Goto(w, to), mu' = mu
    PROVE  /\ Scanning' <=> to = "scan"
           /\ \A v \in Workers : pc'[v] \in Holding <=> mu' = v
BY Held DEF Locking, Scanning, Goto, TypeOK

LEMMA Free ==
    ASSUME mu' = NoWorker, \A v \in Workers : pc'[v] \notin Holding
    PROVE  ~Scanning' /\ \A v \in Workers : pc'[v] \in Holding <=> mu' = v
BY WorkerAssumption DEF Scanning

LEMMA LetGo ==
    ASSUME TypeOK, Locking, NEW w \in Workers, pc[w] \in Holding, Unlock(w)
    PROVE  /\ ~Scanning' /\ buf' = <<>>
           /\ \A v \in Workers : pc'[v] \in Holding <=> mu' = v
<1>1. \A v \in Workers : pc'[v] \notin Holding
  BY Held DEF Locking, Unlock, Goto, Holding, TypeOK
<1> QED
  BY <1>1, Free DEF Unlock

\* Nothing is buffered outside a scan.
LEMMA NoBuffer ==
    ASSUME TypeOK', buf' = <<>>, ~Scanning'
    PROVE  Buffer'
BY DEF Buffer, Foreign, TypeOK

-----------------------------------------------------------------------------
(* A run.                                                                   *)

LEMMA OpenKeeps == ASSUME IInv, TypeOK', NEW w \in Workers, Open(w) PROVE Rest'
<1> USE DEF IInv, Rest
<1>0. /\ ~Scanning /\ Scanning' /\ buf = <<>> /\ buf' = <<>> /\ unsaved = {}
      /\ UNCHANGED <<log, lines, offset, counted, excluded, unsaved, replays>>
      /\ pos' = IF Len(log) < offset THEN 0 ELSE offset
  <2>1. Lock(w, "want", "scan")
    BY DEF Open
  <2>2. ~Scanning /\ mu' = w /\ pc'[w] = "scan"
    BY <2>1, Taken DEF Holding
  <2> QED
    BY <2>2, WorkerAssumption DEF Open, Locking, Scanning, logVars, storeVars, ghostVars
<1>1. Locking'
  <2>1. \A v \in Workers : pc'[v] \in Holding <=> mu' = v
    BY Taken DEF Open, Holding
  <2> QED
    BY <1>0, <2>1 DEF Locking
<1>2. Numbers' /\ CountedOncePerRun' /\ ClearedStayCleared'
  BY <1>0 DEF Numbers, CountedOncePerRun, ClearedStayCleared
<1>3. truncated # "seen" /\ truncated' = IF truncated = "unseen" /\ (offset = 0 \/ Len(log) < offset)
                                          THEN "seen" ELSE truncated
  BY <1>0 DEF Open, LookAtSize, Locking
<1>4. Buffer'
  <2>1. truncated' # "unseen" => pos' <= Len(log)
    BY <1>0, <1>3, Lines DEF NoneBehind, TypeOK
  <2> QED
    BY <1>0, <2>1, Lines DEF Buffer, InStep, Foreign, TypeOK
<1>5. FreshAhead'
  <2>1. Reached(pos') = Reached(offset)
    BY <1>0, Lines DEF Reached
  <2> QED
    BY <1>0, <2>1 DEF FreshAhead, Fresh, Reached
<1>6. NoneBehind'
  <2>1. truncated = "no" => offset <= Len(log) /\ pos' = offset
    BY <1>0, Lines DEF NoneBehind
  <2>2. truncated' = "seen" => pos' = 0
    BY <1>0, <1>3
  <2> QED
    BY <1>0, <1>3, <2>1, <2>2, Lines DEF NoneBehind, Dealt, TypeOK
<1> QED
  BY <1>1, <1>2, <1>4, <1>5, <1>6

LEMMA FillKeeps == ASSUME IInv, TypeOK', NEW w \in Workers, Fill(w) PROVE Rest'
<1> USE DEF IInv, Rest
<1>0. PICK n \in (pos + 1)..Len(log) : buf' = SubSeq(log, pos + 1, n) /\ pos' = n
  BY DEF Fill
<1>1. /\ UNCHANGED <<log, lines, offset, mu, pc, counted, excluded, unsaved, replays, truncated>>
      /\ buf = <<>> /\ pos < Len(log) /\ Scanning /\ Scanning'
  <2>1. UNCHANGED <<log, lines, offset, mu, pc, counted, excluded, unsaved, replays, truncated>>
    BY DEF Fill, fileVars, logVars, storeVars, ghostVars
  <2>2. Scanning
    BY Held DEF Fill, Holding
  <2> QED
    BY <2>1, <2>2 DEF Fill, Scanning
<1>2. Locking' /\ Numbers' /\ CountedOncePerRun' /\ ClearedStayCleared'
  BY <1>1 DEF Locking, Numbers, CountedOncePerRun, ClearedStayCleared
<1>3. /\ Len(buf') = n - pos /\ \A k \in 1..Len(buf') : buf'[k] = log[pos + k]
      /\ pos' - Len(buf') = pos /\ n \in Nat /\ n <= Len(log)
  BY <1>0, Stretch, Lines DEF TypeOK
<1>4. Buffer'
  <2>1. InStep'
    BY <1>0, <1>1, <1>3, Lines DEF InStep
  <2>2. \A k \in 1..Len(buf') : buf'[k].id <= Cardinality(lines)
    BY <1>1, <1>3, Lines DEF Numbers
  <2>3. \A j, k \in 1..Len(buf') : j < k => buf'[j].id < buf'[k].id
    <3>1. pos \in Nat /\ Len(log) \in Nat
      BY Lines
    <3>2. \A j, k \in 1..Len(buf') :
            /\ pos + j \in 1..Len(log) /\ pos + k \in 1..Len(log)
            /\ j < k => pos + j < pos + k
      BY <1>3, <3>1
    <3> QED
      BY <1>3, <3>2 DEF Numbers
  <2>4. Len(buf') <= pos'
    BY <1>0, <1>3, Lines
  <2>5. lines' = lines
    BY <1>1
  <2> QED
    BY <2>1, <2>2, <2>3, <2>4, <2>5 DEF Buffer
<1>5. FreshAhead'
  <2>1. \A m \in 1..Len(log) : m > pos => log[m].id \notin unsaved /\ Fresh(log[m].id)
    BY <1>1, Lines DEF FreshAhead, Reached
  <2>2. \A i : Fresh(i)' <=> Fresh(i)
    BY <1>1 DEF Fresh
  <2>3. ASSUME NEW k \in 1..Len(buf')
        PROVE  buf'[k].id \notin unsaved /\ Fresh(buf'[k].id)
    <3>1. pos + k \in 1..Len(log) /\ pos + k > pos /\ buf'[k] = log[pos + k]
      <4>1. pos \in Nat /\ Len(log) \in Nat
        BY Lines
      <4>2. k \in 1..(n - pos) /\ n \in Nat /\ n <= Len(log)
        BY <1>3
      <4> QED
        BY <1>3, <4>1, <4>2
    <3> QED
      BY <2>1, <3>1
  <2>4. Reached(pos)' = pos' /\ pos' > pos /\ Reached(offset)' = Reached(offset)
    BY <1>0, <1>1, <1>3, Lines DEF Reached
  <2>5. /\ \A m \in 1..Len(log) :
             m > Reached(offset) /\ log[m].id \notin unsaved => Fresh(log[m].id)
        /\ \A m \in 1..Len(log) : m > pos' => m > pos
    <3>1. pos \in Nat /\ pos' \in Nat /\ Len(log) \in Nat
      BY <1>0, <1>3, Lines
    <3> QED
      BY <2>4, <3>1 DEF FreshAhead
  <2> QED
    BY <1>1, <2>1, <2>2, <2>3, <2>4, <2>5 DEF FreshAhead
<1>6. NoneBehind'
  <2>1. \A i : Dealt(i)' <=> Dealt(i)
    BY <1>1 DEF Dealt
  <2>2. Len(buf) = 0 /\ pos - Len(buf) = pos
    BY <1>1, Lines
  <2> QED
    BY <1>1, <1>3, <2>1, <2>2 DEF NoneBehind
<1> QED
  BY <1>2, <1>4, <1>5, <1>6

LEMMA UpsertKeeps == ASSUME IInv, TypeOK', NEW w \in Workers, Upsert(w) PROVE Rest'
<1> USE DEF IInv, Rest
<1> DEFINE i == buf[1].id
<1>0. /\ UNCHANGED <<log, lines, offset, mu, pc, pos, excluded, replays, truncated>>
      /\ buf' = Tail(buf) /\ Scanning /\ Scanning' /\ unsaved' = unsaved \cup {i}
      /\ counted' = [counted EXCEPT ![i] = @ + 1]
      /\ Len(buf) \in Nat \ {0} /\ Len(buf') = Len(buf) - 1
      /\ \A k \in 1..Len(buf') : buf'[k] = buf[k + 1]
  <2>1. /\ UNCHANGED <<log, lines, offset, mu, pc, pos, excluded, replays, truncated>>
        /\ buf # <<>> /\ Counted(Head(buf))
    BY DEF Upsert, fileVars, logVars
  <2>2. Head(buf) = buf[1] /\ Len(buf) \in Nat \ {0} /\ Len(Tail(buf)) = Len(buf) - 1
        /\ \A k \in 1..Len(Tail(buf)) : Tail(buf)[k] = buf[k + 1]
    BY <2>1, FirstOut DEF TypeOK
  <2>3. Scanning
    BY Held DEF Upsert, Holding
  <2> QED
    BY <2>1, <2>2, <2>3 DEF Counted, Scanning
<1>1. /\ i \in LineIds /\ i \notin unsaved /\ Fresh(i) /\ i <= Cardinality(lines)
      /\ \A k \in 1..Len(buf') : buf[k + 1].id # i /\ k + 1 \in 1..Len(buf)
  <2>1. 1 \in 1..Len(buf) /\ \A k \in 1..Len(buf') : k + 1 \in 1..Len(buf) /\ 1 < k + 1
    BY <1>0
  <2>2. i \in LineIds /\ i \in Nat
    BY <2>1, Lines
  <2> QED
    BY <1>0, <2>1, <2>2, Lines DEF FreshAhead, Buffer
<1>2. \A n \in 1..Len(log) : n > Reached(pos) => log[n].id # i
  <2>1. CASE Foreign
    BY <1>0, <2>1 DEF Foreign
  <2>2. CASE InStep
    <3>1. pos - Len(buf) + 1 \in 1..Len(log) /\ buf[1] = log[pos - Len(buf) + 1]
      BY <1>0, <2>2, Lines DEF InStep, Buffer
    <3>2. \A n \in 1..Len(log) : n > Reached(pos) => n > pos - Len(buf) + 1
      BY <1>0, <2>2, Lines DEF InStep, Reached
    <3>3. \A n \in 1..Len(log) : n > pos - Len(buf) + 1 => log[n].id # log[pos - Len(buf) + 1].id
      BY <3>1, Lines DEF Numbers
    <3> QED
      BY <3>1, <3>2, <3>3
  <2> QED
    BY <2>1, <2>2 DEF Buffer
<1>3. \A j \in LineIds :
        /\ j # i => counted'[j] = counted[j] /\ (Fresh(j)' <=> Fresh(j))
        /\ counted'[j] >= counted[j] /\ counted'[i] = counted[i] + 1
  <2>1. \A j \in LineIds : counted'[j] = IF j = i THEN counted[j] + 1 ELSE counted[j]
    BY <1>0, <1>1 DEF TypeOK
  <2>2. \A j \in LineIds : counted[j] \in Nat
    BY Lines
  <2>3. replays' = replays /\ excluded' = excluded
    BY <1>0
  <2> QED
    BY <1>1, <2>1, <2>2, <2>3 DEF Fresh
<1>4. Locking'
  BY <1>0 DEF Locking, Scanning
<1>5. Numbers'
  <2>1. \A j \in LineIds :
          counted'[j] > 0 \/ j \in excluded \/ j \in unsaved' => j <= Cardinality(lines)
    <3> TAKE j \in LineIds
    <3> QED
      BY <1>0, <1>1, <1>3 DEF Numbers
  <2> QED
    BY <1>0, <2>1 DEF Numbers
<1>6. CountedOncePerRun' /\ ClearedStayCleared'
  <2>1. \A j \in LineIds : counted'[j] <= 1 + replays[j]
    <3>1. CountedOncePerRun /\ counted \in [LineIds -> Nat] /\ replays \in [LineIds -> Nat]
      BY Lines DEF TypeOK
    <3>2. counted'[i] <= 1 + replays[i]
      BY <1>1, <1>3, <3>1 DEF Fresh
    <3> QED
      BY <1>3, <3>1, <3>2 DEF CountedOncePerRun
  <2>2. \A j \in excluded : counted'[j] > 0 => replays[j] > 0
    BY <1>1, <1>3, Lines DEF ClearedStayCleared, Fresh, TypeOK
  <2> QED
    BY <1>0, <2>1, <2>2 DEF CountedOncePerRun, ClearedStayCleared
<1>7. Buffer'
  <2>1. \A k \in 1..Len(buf') : k + 1 \in 1..Len(buf) /\ buf'[k] = buf[k + 1]
    BY <1>0, <1>1
  <2>2. InStep => InStep'
    <3>1. \A k \in 1..Len(buf') : pos - Len(buf') + k = pos - Len(buf) + (k + 1)
      BY <1>0, Lines
    <3> QED
      BY <1>0, <2>1, <3>1 DEF InStep
  <2>3. Foreign => Foreign'
    BY <1>0, <2>1 DEF Foreign
  <2>4. Len(buf') <= pos'
    BY <1>0, Lines DEF Buffer
  <2>5. \A k \in 1..Len(buf') : buf'[k].id <= Cardinality(lines)
    BY <2>1 DEF Buffer
  <2>6. \A j, k \in 1..Len(buf') : j < k => buf'[j].id < buf'[k].id
    <3> TAKE j, k \in 1..Len(buf')
    <3>1. j < k => j + 1 < k + 1
      BY <1>0
    <3> QED
      BY <2>1, <3>1 DEF Buffer
  <2> QED
    BY <1>0, <2>2, <2>3, <2>4, <2>5, <2>6 DEF Buffer
<1>8. FreshAhead'
  <2>1. \A n \in 1..Len(log) : log[n].id \in LineIds
    BY Lines
  <2>2. \A n \in 1..Len(log) :
          n > Reached(offset) /\ log[n].id \notin unsaved' => Fresh(log[n].id)'
    BY <1>0, <1>3, <2>1 DEF FreshAhead
  <2>3. \A n \in 1..Len(log) :
          n > Reached(pos) => log[n].id \notin unsaved' /\ Fresh(log[n].id)'
    BY <1>0, <1>2, <1>3, <2>1 DEF FreshAhead
  <2>4. ASSUME NEW k \in 1..Len(buf')
        PROVE  buf'[k].id \notin unsaved' /\ Fresh(buf[k].id)'
    <3>1. k + 1 \in 1..Len(buf) /\ buf'[k] = buf[k + 1] /\ buf[k + 1].id # i
      BY <1>0, <1>1
    <3>2. buf[k + 1].id \in LineIds /\ buf[k + 1].id \notin unsaved /\ Fresh(buf[k + 1].id)
      BY <1>0, <3>1, Lines DEF FreshAhead
    <3>3. Fresh(buf[k].id)' <=> /\ counted'[buf'[k].id] <= replays'[buf'[k].id]
                                /\ buf'[k].id \in excluded' => replays'[buf'[k].id] > 0
      BY DEF Fresh
    <3> QED
      BY <1>0, <1>3, <3>1, <3>2, <3>3 DEF Fresh
  <2> QED
    BY <1>0, <2>2, <2>3, <2>4 DEF FreshAhead, Reached, Fresh
<1>9. NoneBehind'
  <2>1. \A j \in LineIds : Dealt(j) => counted'[j] > 0 \/ j \in excluded
    BY <1>3, Lines DEF Dealt
  <2>2. counted'[i] > 0
    BY <1>1, <1>3, Lines
  <2>3. ASSUME truncated # "unseen", NEW n \in 1..Len(log), n <= pos - Len(buf')
        PROVE  counted'[log[n].id] > 0 \/ log[n].id \in excluded
    <3>1. InStep
      BY <1>0, <2>3 DEF Buffer
    <3>2. n <= pos - Len(buf) \/ n = pos - Len(buf) + 1
      BY <1>0, <2>3, Lines
    <3>3. n = pos - Len(buf) + 1 => log[n] = buf[1]
      BY <1>0, <3>1 DEF InStep
    <3> QED
      BY <1>0, <2>1, <2>2, <2>3, <3>2, <3>3, Lines DEF NoneBehind
  <2> QED
    BY <1>0, <2>1, <2>3, Lines DEF NoneBehind, Dealt
<1> QED
  BY <1>4, <1>5, <1>6, <1>7, <1>8, <1>9

LEMMA SaveOffsetKeeps == ASSUME IInv, TypeOK', NEW w \in Workers, SaveOffset(w) PROVE Rest'
<1> USE DEF IInv, Rest
<1>0. /\ UNCHANGED <<log, lines, mu, pos, buf, counted, excluded, replays>>
      /\ buf = <<>> /\ pos >= Len(log) /\ offset' = pos /\ unsaved' = {}
      /\ Goto(w, "saved") /\ pc[w] \in Holding /\ Scanning
      /\ truncated' = IF truncated = "seen" THEN "no" ELSE truncated
  <2>1. pc[w] = "scan" /\ pc[w] \in Holding
    BY DEF SaveOffset, Holding
  <2> QED
    BY <2>1, Held DEF SaveOffset, KnownAfter, logVars, scanVars
<1>1. ~Scanning' /\ \A v \in Workers : pc'[v] \in Holding <=> mu' = v
  BY <1>0, GoesOn DEF Holding
<1>2. Locking'
  BY <1>0, <1>1 DEF Locking, TypeOK
<1>3. Numbers' /\ CountedOncePerRun' /\ ClearedStayCleared'
  BY <1>0 DEF Numbers, CountedOncePerRun, ClearedStayCleared
<1>4. Buffer'
  BY <1>0, <1>1, NoBuffer
<1>5. FreshAhead'
  <2>1. \A n \in 1..Len(log) : n > Reached(pos) => Fresh(log[n].id)
    BY <1>0 DEF FreshAhead
  <2> QED
    BY <1>0, <1>1, <2>1 DEF FreshAhead, Fresh, Reached
<1>6. NoneBehind'
  <2>1. truncated # "unseen" => /\ pos <= Len(log)
                                /\ \A n \in 1..Len(log) : n <= pos => Dealt(log[n].id)
    BY <1>0, Lines DEF NoneBehind, Buffer, InStep
  <2> QED
    BY <1>0, <1>1, <2>1 DEF NoneBehind, Dealt, TypeOK
<1> QED
  BY <1>2, <1>3, <1>4, <1>5, <1>6

LEMMA DumpSummaryKeeps ==
    ASSUME IInv, TypeOK', NEW w \in Workers, DumpSummary(w) PROVE Rest'
<1> USE DEF IInv, Rest
<1>0. /\ UNCHANGED <<log, lines, offset, counted, excluded, unsaved, replays, truncated>>
      /\ ~Scanning /\ ~Scanning' /\ buf' = <<>>
      /\ \A v \in Workers : pc'[v] \in Holding <=> mu' = v
  <2>1. pc[w] \in Holding /\ pc[w] # "scan" /\ Unlock(w)
    BY DEF DumpSummary, Holding
  <2>2. ~Scanning
    BY <2>1, Held
  <2> QED
    BY <2>1, <2>2, LetGo DEF DumpSummary, fileVars, logVars
<1>1. Locking'
  BY <1>0 DEF Locking
<1>2. Numbers' /\ CountedOncePerRun' /\ ClearedStayCleared'
  BY <1>0 DEF Numbers, CountedOncePerRun, ClearedStayCleared
<1>3. Buffer'
  BY <1>0, NoBuffer
<1>4. FreshAhead' /\ NoneBehind'
  BY <1>0 DEF FreshAhead, NoneBehind, Fresh, Reached, Dealt
<1> QED
  BY <1>1, <1>2, <1>3, <1>4

-----------------------------------------------------------------------------
(* Clears and switches.                                                     *)

LEMMA DeleteRecordsKeeps ==
    ASSUME IInv, TypeOK', NEW w \in Workers, DeleteRecords(w) PROVE Rest'
<1> USE DEF IInv, Rest
<1>0. /\ UNCHANGED <<log, lines, offset, pos, buf, unsaved, replays, truncated>>
      /\ ~Scanning /\ ~Scanning' /\ buf = <<>> /\ unsaved = {}
      /\ \A v \in Workers : pc'[v] \in Holding <=> mu' = v
  <2>1. Lock(w, "wantclear", "deleted")
    BY DEF DeleteRecords
  <2>2. /\ ~Scanning /\ mu' = w /\ pc'[w] = "deleted"
        /\ \A v \in Workers : pc'[v] \in Holding <=> mu' = v
    BY <2>1, Taken DEF Holding
  <2> QED
    BY <2>2 DEF DeleteRecords, fileVars, logVars, scanVars, Locking, Scanning
<1>1. \A i \in LineIds : counted'[i] = 0 /\ (i \in excluded' <=> i \in excluded \/ counted[i] > 0)
  BY DEF DeleteRecords, DeleteAll
<1>2. Locking'
  BY <1>0 DEF Locking
<1>3. Numbers'
  BY <1>0, <1>1 DEF Numbers
<1>4. CountedOncePerRun' /\ ClearedStayCleared'
  BY <1>0, <1>1, Lines DEF CountedOncePerRun, ClearedStayCleared, TypeOK
<1>5. Buffer'
  BY <1>0, NoBuffer
<1>6. FreshAhead'
  <2>1. \A i \in LineIds : Fresh(i) => Fresh(i)'
    BY <1>0, <1>1, Lines DEF Fresh
  <2>2. \A n \in 1..Len(log) :
          n > Reached(offset) /\ log[n].id \notin unsaved => Fresh(log[n].id)
    BY DEF FreshAhead
  <2>3. \A n \in 1..Len(log) :
          n > Reached(offset) /\ log[n].id \notin unsaved => Fresh(log[n].id)'
    BY <1>0, <2>1, <2>2, Lines
  <2> QED
    BY <1>0, <2>3 DEF FreshAhead, Reached
<1>7. NoneBehind'
  <2>1. \A i \in LineIds : Dealt(i) => Dealt(i)'
    BY <1>1 DEF Dealt
  <2>2. truncated = "no" =>
          offset <= Len(log) /\ \A n \in 1..Len(log) : n <= offset => Dealt(log[n].id)'
    BY <1>0, <2>1, Lines DEF NoneBehind
  <2> QED
    BY <1>0, <2>2 DEF NoneBehind
<1> QED
  BY <1>2, <1>3, <1>4, <1>5, <1>6, <1>7

\* What ClearOffset and SkipLog have in common.
LEMMA PassOverKeeps ==
    ASSUME IInv, TypeOK', PassOver, UNCHANGED <<log, lines, pos, buf, counted, replays>>,
           ~Scanning, Locking', ~Scanning'
    PROVE  Rest'
<1> USE DEF IInv, Rest
<1>0. /\ offset' = Len(log) /\ buf' = <<>> /\ truncated' = "no"
      /\ excluded \subseteq excluded'
      /\ \A i \in excluded' : i \in excluded \/ (i \in Ids(log) /\ i \in LineIds /\ counted[i] = 0)
      /\ \A i \in Ids(log) : counted[i] = 0 => i \in excluded'
  <2>1. Ids(log) \subseteq LineIds
    BY Lines DEF Ids
  <2>2. excluded' = excluded \cup {i \in Ids(log) : counted[i] = 0}
    BY DEF PassOver
  <2>3. offset' = Len(log) /\ truncated' = "no" /\ buf' = <<>>
    BY DEF PassOver, Locking
  <2> QED
    BY <2>1, <2>2, <2>3
<1>1. Numbers'
  <2>1. \A i \in Ids(log) : i <= Cardinality(lines)
    BY DEF Numbers, Ids
  <2>2. unsaved' = {}
    BY DEF PassOver
  <2> QED
    BY <1>0, <2>1, <2>2 DEF Numbers
<1>2. CountedOncePerRun' /\ ClearedStayCleared'
  BY <1>0, Lines DEF CountedOncePerRun, ClearedStayCleared
<1>3. Buffer'
  BY <1>0, NoBuffer
<1>4. FreshAhead'
  BY <1>0, Lines DEF FreshAhead, Reached
<1>5. NoneBehind'
  <2>1. \A n \in 1..Len(log) : log[n].id \in Ids(log)
    BY DEF Ids
  <2> QED
    BY <1>0, <2>1, Lines DEF NoneBehind, Dealt
<1> QED
  BY <1>1, <1>2, <1>3, <1>4, <1>5

LEMMA ClearOffsetKeeps ==
    ASSUME IInv, TypeOK', NEW w \in Workers, ClearOffset(w) PROVE Rest'
<1>1. TypeOK /\ Locking
  BY DEF IInv, Rest
<1>2. /\ pc[w] \in Holding /\ pc[w] # "scan" /\ Goto(w, "cleared") /\ mu' = mu /\ PassOver
      /\ UNCHANGED <<log, lines, pos, buf, counted, replays>>
  BY DEF ClearOffset, Holding, logVars, scanVars
<1>3. ~Scanning
  BY <1>1, <1>2, Held
<1>4. ~Scanning' /\ \A v \in Workers : pc'[v] \in Holding <=> mu' = v
  BY <1>1, <1>2, GoesOn DEF Holding
<1>5. Locking'
  BY <1>1, <1>2, <1>3, <1>4 DEF Locking, PassOver
<1> QED
  BY <1>2, <1>3, <1>4, <1>5, PassOverKeeps

LEMMA SkipLogKeeps == ASSUME IInv, TypeOK', NEW w \in Workers, SkipLog(w) PROVE Rest'
<1>1. TypeOK /\ Locking
  BY DEF IInv, Rest
<1>2. /\ mu = NoWorker /\ mu' = NoWorker /\ Goto(w, "idle") /\ PassOver
      /\ UNCHANGED <<log, lines, pos, buf, counted, replays>>
  BY DEF SkipLog, logVars, scanVars
<1>3. ~Scanning /\ ~Scanning'
  BY <1>2 DEF Scanning
<1>4. \A v \in Workers : pc'[v] \in Holding <=> mu' = v
  BY <1>1, <1>2, WorkerAssumption DEF Goto, Holding, Locking, TypeOK
<1>5. Locking'
  BY <1>1, <1>2, <1>3, <1>4 DEF Locking, PassOver
<1> QED
  BY <1>2, <1>3, <1>5, PassOverKeeps

-----------------------------------------------------------------------------
(* Failures, and the outside.                                               *)

\* A run or clear stops half-way.
LEMMA HalfDoneKeeps ==
    ASSUME IInv, TypeOK', LeaveHalfDone, UNCHANGED <<log, lines, offset, counted, excluded>>,
           buf' = <<>>, ~Scanning', \A v \in Workers : pc'[v] \in Holding <=> mu' = v
    PROVE  Rest'
<1> USE DEF IInv, Rest
<1>0. /\ unsaved' = {} /\ truncated' = IF truncated = "seen" THEN "unseen" ELSE truncated
      /\ \A i \in LineIds : /\ replays'[i] >= replays[i]
                            /\ i \in unsaved => replays'[i] = replays[i] + 1
  BY Lines DEF LeaveHalfDone
<1>1. Locking'
  BY <1>0 DEF Locking, TypeOK
<1>2. Numbers'
  BY <1>0 DEF Numbers
<1>3. CountedOncePerRun' /\ ClearedStayCleared'
  <2>1. \A i \in LineIds : replays'[i] \in Nat
    BY DEF TypeOK
  <2>2. \A i \in LineIds : counted'[i] <= 1 + replays'[i]
    BY <1>0, <2>1, Lines DEF CountedOncePerRun
  <2>3. \A i \in excluded : counted'[i] > 0 => replays'[i] > 0
    BY <1>0, <2>1, Lines DEF ClearedStayCleared, TypeOK
  <2> QED
    BY <2>2, <2>3 DEF CountedOncePerRun, ClearedStayCleared
<1>4. Buffer'
  BY NoBuffer
<1>5. FreshAhead'
  <2>1. \A i \in LineIds : replays'[i] \in Nat
    BY DEF TypeOK
  <2>2. \A i \in LineIds : i \in unsaved \/ Fresh(i) => Fresh(i)'
    BY <1>0, <2>1, Lines DEF Fresh, CountedOncePerRun
  <2>3. \A n \in 1..Len(log) : n > Reached(offset) => Fresh(log[n].id)'
    BY <2>2, Lines DEF FreshAhead
  <2> QED
    BY <1>0, <2>3 DEF FreshAhead, Reached
<1>6. NoneBehind'
  BY <1>0 DEF NoneBehind, Dealt, TypeOK
<1> QED
  BY <1>1, <1>2, <1>3, <1>4, <1>5, <1>6

LEMMA FailKeeps == ASSUME IInv, TypeOK', NEW w \in Workers, Fail(w) PROVE Rest'
<1>1. TypeOK /\ Rest /\ Locking
  BY DEF IInv, Rest
<1>2. UNCHANGED <<log, lines, offset, counted, excluded>>
  BY DEF Fail, logVars, storeVars
<1>3. CASE pc[w] \in Holding
  <2>1. LeaveHalfDone /\ Unlock(w)
    BY <1>3 DEF Fail
  <2> QED
    BY <1>1, <1>2, <1>3, <2>1, LetGo, HalfDoneKeeps
<1>4. CASE pc[w] \notin Holding
  <2>1. /\ UNCHANGED <<mu, pos, buf, unsaved, replays, truncated>>
        /\ pc' = [pc EXCEPT ![w] = "idle"]
    BY <1>4 DEF Fail, Goto, scanVars
  <2>2. \A v \in Workers : pc[v] \in Holding \/ pc'[v] \in Holding => pc'[v] = pc[v]
    BY <1>1, <1>4, <2>1 DEF TypeOK, Holding
  <2> QED
    BY <1>1, <1>2, <2>1, <2>2, Quiet
<1> QED
  BY <1>3, <1>4

LEMMA CrashKeeps == ASSUME IInv, TypeOK', Crash PROVE Rest'
<1>1. TypeOK /\ Rest /\ Locking
  BY DEF IInv, Rest
<1>2. /\ UNCHANGED <<log, lines, offset, counted, excluded>> /\ mu' = NoWorker
      /\ pos' = 0 /\ buf' = <<>> /\ \A v \in Workers : pc'[v] = "idle"
  BY DEF Crash, logVars, storeVars
<1>3. ~Scanning' /\ \A v \in Workers : pc'[v] \in Holding <=> mu' = v
  BY <1>2, Free DEF Holding
<1>4. CASE mu # NoWorker
  BY <1>2, <1>3, <1>4, HalfDoneKeeps DEF Crash
<1>5. CASE mu = NoWorker
  <2>1. /\ UNCHANGED <<unsaved, replays, truncated>> /\ ~Scanning /\ buf = <<>>
    BY <1>1, <1>5 DEF Crash, Scanning, Locking
  <2>2. Locking'
    BY <1>1, <1>2, <1>3, <2>1 DEF Locking
  <2>3. Numbers' /\ CountedOncePerRun' /\ ClearedStayCleared'
    BY <1>1, <1>2, <2>1 DEF Rest, Numbers, CountedOncePerRun, ClearedStayCleared
  <2>4. Buffer'
    BY <1>2, <1>3, NoBuffer
  <2>5. FreshAhead' /\ NoneBehind'
    BY <1>1, <1>2, <1>3, <2>1 DEF Rest, FreshAhead, NoneBehind, Fresh, Reached, Dealt
  <2> QED
    BY <2>2, <2>3, <2>4, <2>5 DEF Rest
<1> QED
  BY <1>4, <1>5

LEMMA AcceptedKeeps == ASSUME IInv, TypeOK', Accepted PROVE Rest'
<1> USE DEF IInv, Rest
<1> DEFINE c == Cardinality(lines)
<1>0. PICK l \in Line : /\ l.id = c + 1 /\ log' = Append(log, l) /\ lines' = lines \cup {l}
  BY NextLine DEF Numbers
<1>1. /\ UNCHANGED <<offset, mu, pc, pos, buf, counted, excluded, unsaved, replays, truncated>>
      /\ Scanning' <=> Scanning
  BY DEF Accepted, storeVars, scanVars, ghostVars, Scanning
<1>2. /\ Len(log') = Len(log) + 1 /\ log'[Len(log) + 1] = l
      /\ \A n \in 1..Len(log) : log'[n] = log[n]
  BY <1>0, OneMore DEF TypeOK
<1>3. /\ IsFiniteSet(lines') /\ c \in Nat /\ Cardinality(lines') = c + 1
  <2>1. l \notin lines /\ c \in Nat
    BY <1>0, FS_CardinalityType DEF Numbers
  <2> QED
    BY <1>0, <2>1, FS_AddElement DEF Numbers
<1>4. \A n \in 1..Len(log') : n \in 1..Len(log) \/ (n = Len(log) + 1 /\ log'[n] = l)
  BY <1>2, Lines
<1>5. l.id \in LineIds /\ l.id \notin unsaved /\ Fresh(l.id)
  <2>1. l.id \in LineIds
    BY DEF Line
  <2> QED
    BY <1>0, <1>3, <2>1, Lines DEF Numbers, Fresh
<1>6. Locking'
  BY <1>1 DEF Locking
<1>7. Numbers'
  <2>1. \A k \in lines' : k.id <= c + 1
    <3>1. \A k \in lines : k.id <= c /\ k.id \in Nat
      BY Lines DEF Numbers, TypeOK, Line
    <3> QED
      BY <1>0, <1>3, <3>1
  <2>2. \A n \in 1..Len(log') : log'[n] \in lines'
    BY <1>0, <1>2, <1>4 DEF Numbers
  <2>3. ASSUME NEW m \in 1..Len(log'), NEW n \in 1..Len(log'), m < n
        PROVE  log'[m].id < log'[n].id
    <3>1. m \in 1..Len(log) /\ log'[m] = log[m] /\ log[m].id \in Nat /\ log[m].id <= c
      BY <1>2, <1>4, <2>3, Lines DEF Numbers
    <3> QED
      BY <1>0, <1>2, <1>3, <1>4, <2>3, <3>1 DEF Numbers
  <2>4. \A i \in LineIds :
          counted[i] > 0 \/ i \in excluded \/ i \in unsaved => i <= c + 1
    BY <1>3, Lines DEF Numbers
  <2> QED
    BY <1>1, <1>3, <2>1, <2>2, <2>3, <2>4 DEF Numbers
<1>8. CountedOncePerRun' /\ ClearedStayCleared'
  BY <1>1 DEF CountedOncePerRun, ClearedStayCleared
<1>9. Buffer'
  <2>1. \A k \in 1..Len(buf) : buf[k].id <= c /\ buf[k].id \in Nat
    BY Lines DEF Buffer
  <2>2. InStep => InStep'
    <3>1. InStep => \A k \in 1..Len(buf) : pos - Len(buf) + k \in 1..Len(log)
      BY Lines DEF InStep, Buffer
    <3>2. InStep => pos <= Len(log')
      BY <1>2, Lines DEF InStep
    <3> QED
      BY <1>1, <1>2, <3>1, <3>2 DEF InStep
  <2>3. Foreign => Foreign'
    <3> SUFFICES ASSUME Foreign, NEW k \in 1..Len(buf), NEW n \in 1..Len(log')
                 PROVE  buf[k].id # log'[n].id
      BY <1>1 DEF Foreign
    <3> QED
      BY <1>0, <1>2, <1>3, <1>4, <2>1 DEF Foreign
  <2>4. \A k \in 1..Len(buf) : buf[k].id <= Cardinality(lines')
    BY <1>3, <2>1
  <2> QED
    BY <1>1, <2>2, <2>3, <2>4 DEF Buffer
<1>10. FreshAhead'
  <2>1. \A n \in 1..Len(log) : /\ n > Reached(offset)' => n > Reached(offset)
                               /\ n > Reached(pos)' => n > Reached(pos)
    BY <1>1, <1>2, Lines DEF Reached
  <2>2. \A n \in 1..Len(log) :
          n > Reached(offset)' /\ log[n].id \notin unsaved => Fresh(log[n].id)
    BY <2>1 DEF FreshAhead
  <2>3. Scanning => \A n \in 1..Len(log) :
          n > Reached(pos)' => log[n].id \notin unsaved /\ Fresh(log[n].id)
    BY <2>1 DEF FreshAhead
  <2>4. ASSUME NEW i PROVE (counted'[i] <= replays'[i] /\ (i \in excluded' => replays'[i] > 0)) <=> Fresh(i)
    BY <1>1 DEF Fresh
  <2>5. \A n \in 1..Len(log') :
          n > Reached(offset)' /\ log'[n].id \notin unsaved => Fresh(log'[n].id)
    BY <1>2, <1>4, <1>5, <2>2
  <2>6. Scanning => \A n \in 1..Len(log') :
          n > Reached(pos)' => log'[n].id \notin unsaved /\ Fresh(log'[n].id)
    BY <1>2, <1>4, <1>5, <2>3
  <2> QED
    BY <1>1, <2>5, <2>6 DEF FreshAhead, Fresh
<1>11. NoneBehind'
  <2>1. truncated = "no" =>
          /\ offset <= Len(log')
          /\ \A n \in 1..Len(log') : n <= offset => Dealt(log'[n].id)
    BY <1>2, <1>4, Lines DEF NoneBehind
  <2>2. Scanning /\ truncated # "unseen" =>
          \A n \in 1..Len(log') : n <= pos - Len(buf) => Dealt(log'[n].id)
    <3>1. Scanning /\ truncated # "unseen" => pos - Len(buf) <= Len(log)
      BY Lines DEF Buffer, InStep
    <3> QED
      BY <1>2, <1>4, <3>1, Lines DEF NoneBehind
  <2> QED
    BY <1>1, <2>1, <2>2 DEF NoneBehind, Dealt
<1> QED
  BY <1>6, <1>7, <1>8, <1>9, <1>10, <1>11

LEMMA RotateKeeps == ASSUME IInv, TypeOK', Rotate PROVE Rest'
<1> USE DEF IInv, Rest
<1>1. /\ UNCHANGED <<lines, offset, mu, pc, pos, buf, counted, excluded, unsaved, replays>>
      /\ truncated' = "unseen" /\ log' = <<>> /\ Len(log') = 0 /\ (Scanning' <=> Scanning)
  BY EmptySeq DEF Rotate, storeVars, scanVars, ghostVars, Scanning
<1>2. Locking' /\ Numbers' /\ CountedOncePerRun' /\ ClearedStayCleared'
  BY <1>1 DEF Locking, Numbers, CountedOncePerRun, ClearedStayCleared
<1>3. Buffer'
  BY <1>1 DEF Buffer, Foreign
<1>4. FreshAhead' /\ NoneBehind'
  BY <1>1 DEF FreshAhead, NoneBehind, Fresh
<1> QED
  BY <1>2, <1>3, <1>4

-----------------------------------------------------------------------------
LEMMA InitInv == Init => IInv
<1> SUFFICES ASSUME Init PROVE IInv
  OBVIOUS
<1>1. TypeOK
  <2>1. log \in Seq(Line) /\ buf \in Seq(Line) /\ NoHits \in Record
    BY EmptySeq DEF Init, NoHits, Record
  <2>2. pc \in [Workers -> {"idle"} \cup Waiting \cup Holding]
    BY DEF Init
  <2>3. 0 \in 0..MaxRotations /\ 0 \in 0..MaxFaults
    BY BoundAssumption
  <2> QED
    BY <2>1, <2>2, <2>3 DEF Init, TypeOK
<1>2. ~Scanning /\ Len(log) = 0 /\ Len(buf) = 0 /\ IsFiniteSet(lines)
  BY FS_EmptySet, EmptySeq DEF Init, Scanning
<1>3. Locking
  BY <1>2, WorkerAssumption DEF Init, Locking, Holding
<1>4. Numbers /\ Buffer
  BY <1>2 DEF Init, Numbers, Buffer, InStep, Foreign
<1>5. FreshAhead /\ NoneBehind
  BY <1>2 DEF Init, FreshAhead, NoneBehind
<1>6. CountedOncePerRun /\ ClearedStayCleared
  BY DEF Init, CountedOncePerRun, ClearedStayCleared
<1> QED
  BY <1>1, <1>3, <1>4, <1>5, <1>6 DEF IInv, Rest

LEMMA StepInv == IInv /\ [Next]_vars => IInv'
<1> SUFFICES ASSUME IInv, [Next]_vars PROVE IInv'
  OBVIOUS
<1>1. TypeOK /\ Rest /\ TypeOK'
  BY TypeStep DEF IInv, Rest, Numbers
<1>2. ASSUME NEW w \in Workers, Begin(w) \/ BeginClear(w) \/ ReadConfig(w) \/ SaveConfig(w)
      PROVE  Rest'
  <2>1. UNCHANGED <<log, lines, offset, mu, pos, buf, counted, excluded, unsaved, replays,
                    truncated>>
    BY <1>2 DEF Begin, BeginClear, ReadConfig, SaveConfig, fileVars, logVars, storeVars,
                scanVars, ghostVars
  <2>2. /\ pc[w] \notin Holding
        /\ \E l \in Waiting \cup {"idle"} : pc' = [pc EXCEPT ![w] = l]
    BY <1>2 DEF Begin, BeginClear, ReadConfig, SaveConfig, Goto, Waiting, Holding
  <2>3. \A v \in Workers : pc[v] \in Holding \/ pc'[v] \in Holding => pc'[v] = pc[v]
    BY <1>1, <2>2 DEF TypeOK, Waiting, Holding
  <2> QED
    BY <1>1, <2>1, <2>3, Quiet
<1>3. ASSUME UNCHANGED vars PROVE Rest'
  <2>1. UNCHANGED <<log, lines, offset, mu, pos, buf, counted, excluded, unsaved, replays,
                    truncated, pc>>
    BY <1>3 DEF vars, fileVars, logVars, storeVars, scanVars, ghostVars
  <2> QED
    BY <1>1, <2>1, Quiet
<1>4. ASSUME NEW w \in Workers, Run(w) \/ Clear(w) \/ SkipLog(w) \/ Fail(w) PROVE Rest'
  BY <1>1, <1>4, OpenKeeps, FillKeeps, UpsertKeeps, SaveOffsetKeeps, DumpSummaryKeeps,
     DeleteRecordsKeeps, ClearOffsetKeeps, SkipLogKeeps, FailKeeps DEF Run, Clear
<1>5. Rest'
  BY <1>1, <1>2, <1>3, <1>4, CrashKeeps, AcceptedKeeps, RotateKeeps DEF Next, Update
<1> QED
  BY <1>1, <1>5 DEF IInv

\* Everything below holds however often the log is truncated and whatever fails.
THEOREM Inductive == Spec => []IInv
BY InitInv, StepInv, PTL DEF Spec

\* TypeOK: offsets, rows and program counters of access_ip.go stay what they are.
THEOREM TypeCorrect == Spec => []TypeOK
BY Inductive, PTL DEF IInv

\* CountedOncePerRun: ProcessAccessLog never reads a line a second time, but after a run
\* that counted it and failed before it saved the offset.
THEOREM NoLineTwice == Spec => []CountedOncePerRun
BY Inductive, PTL DEF IInv, Rest

\* ClearedStayCleared: a clear is not undone by a run beside it.
THEOREM ClearIsFinal == Spec => []ClearedStayCleared
BY Inductive, PTL DEF IInv, Rest

\* NothingSkipped: the offset the program saves has no uncounted line before it, unless
\* the log was truncated and no run has taken notice and succeeded.
THEOREM NoLineLeftBehind == Spec => []NothingSkipped
<1>1. IInv => NothingSkipped
  BY Lines DEF IInv, Rest, NoneBehind, NothingSkipped, Dealt
<1> QED
  BY <1>1, Inductive, PTL

-----------------------------------------------------------------------------
(* What the rows hold.  On top of IInv: a line is one thing wherever it      *)
(* stands, each row sums up the lines counted for it, and the summary is the *)
(* table whenever nobody is at work and nobody failed.                       *)

Filed ==
    /\ \A l, m \in lines : l.id = m.id => l = m
    /\ \A n \in 1..Len(buf) : buf[n] \in lines

\* The row of key k, with the ends of its span named instead of chosen.
SumsUp(k) ==
    /\ IsFiniteSet(Hits(k)) /\ records[k].hits = Cardinality(Hits(k))
    /\ Mine(k) = {} => records[k].first = 0 /\ records[k].last = 0
    /\ Mine(k) # {} => /\ \E l \in Mine(k) : records[k].first = l.time
                       /\ \E l \in Mine(k) : records[k].last = l.time
                       /\ \A l \in Mine(k) : records[k].first <= l.time /\ l.time <= records[k].last

Sums == \A k \in Keys : SumsUp(k)

Reported == Filed /\ Sums /\ SummaryMatches

LEMMA LinesTyped ==
    ASSUME TypeOK
    PROVE  \A l \in lines : /\ l \in Line /\ l.id \in LineIds /\ l.key \in Keys
                            /\ l.time \in Nat \ {0} /\ counted[l.id] \in Nat
BY TimesAssumption DEF TypeOK, Line

LEMMA HitOf ==
    ASSUME NEW k, NEW x
    PROVE  x \in Hits(k) <=> \E l \in Mine(k) : \E n \in 1..counted[l.id] : x = <<l.id, n>>
BY DEF Hits

\* A row stays right while its lines are counted as before.
LEMMA RowStays ==
    ASSUME NEW k \in Keys, SumsUp(k), Mine(k)' = Mine(k), records'[k] = records[k],
           \A l \in Mine(k) : counted'[l.id] = counted[l.id]
    PROVE  SumsUp(k)'
<1>1. Hits(k)' = Hits(k)
  BY DEF Hits
<1> QED
  BY <1>1 DEF SumsUp

LEMMA RowsStay == ASSUME Sums, UNCHANGED <<lines, counted, records>> PROVE Sums'
<1> SUFFICES ASSUME NEW k \in Keys PROVE SumsUp(k)'
  BY DEF Sums
<1>1. Mine(k)' = Mine(k)
  BY DEF Mine
<1> QED
  BY <1>1, RowStays DEF Sums

\* One line more is counted for its row: one hit more, and its time within the span.
LEMMA UpsertSums == ASSUME IInv, Reported, NEW w \in Workers, Upsert(w) PROVE Sums'
<1> DEFINE l == buf[1]
<1>1. /\ lines' = lines /\ counted' = [counted EXCEPT ![l.id] = @ + 1]
      /\ records' = [records EXCEPT ![l.key] =
           [hits  |-> records[l.key].hits + 1,
            first |-> IF records[l.key].first = 0 \/ l.time < records[l.key].first
                      THEN l.time ELSE records[l.key].first,
            last  |-> IF l.time >= records[l.key].last THEN l.time ELSE records[l.key].last]]
      /\ l \in lines
  <2>1. buf # <<>> /\ Head(buf) = l /\ 1 \in 1..Len(buf)
    BY FirstOut DEF Upsert, IInv, TypeOK
  <2> QED
    BY <2>1 DEF Upsert, Counted, fileVars, logVars, Reported, Filed
<1>2. /\ l.id \in LineIds /\ l.key \in Keys /\ l.time \in Nat \ {0} /\ counted[l.id] \in Nat
      /\ \A m \in lines : m.id \in LineIds /\ m.time \in Nat \ {0} /\ counted[m.id] \in Nat
      /\ \A m \in lines : m.id = l.id => m = l
  BY <1>1, LinesTyped DEF IInv, Reported, Filed
<1>3. /\ counted'[l.id] = counted[l.id] + 1
      /\ \A m \in lines : m # l => counted'[m.id] = counted[m.id]
  BY <1>1, <1>2 DEF IInv, TypeOK
<1>4. ASSUME NEW k \in Keys, k # l.key PROVE SumsUp(k)'
  <2>1. \A m \in lines : m.key = k => counted'[m.id] = counted[m.id]
    BY <1>3, <1>4
  <2>2. Mine(k)' = Mine(k) /\ \A m \in Mine(k) : counted'[m.id] = counted[m.id]
    BY <1>1, <2>1 DEF Mine
  <2>3. records'[k] = records[k]
    BY <1>1, <1>4 DEF IInv, TypeOK
  <2> QED
    BY <2>2, <2>3, RowStays DEF Reported, Sums
<1>5. ASSUME NEW k \in Keys, k = l.key PROVE SumsUp(k)'
  <2> DEFINE x == <<l.id, counted[l.id] + 1>>
  <2>1. SumsUp(k)
    BY DEF Reported, Sums
  <2>2. Mine(k)' = Mine(k) \cup {l}
    <3>1. ASSUME NEW m \in lines PROVE counted'[m.id] > 0 <=> counted[m.id] > 0 \/ m = l
      BY <1>2, <1>3
    <3> QED
      BY <1>1, <1>5, <3>1 DEF Mine
  <2>3. Hits(k)' = Hits(k) \cup {x}
    <3>1. ASSUME NEW y \in Hits(k)' PROVE y \in Hits(k) \cup {x}
      <4>0. PICK m \in Mine(k)' : \E n \in 1..counted'[m.id] : y = <<m.id, n>>
        BY <3>1 DEF Hits
      <4>1. PICK n \in 1..counted'[m.id] : y = <<m.id, n>>
        BY <4>0
      <4>2. CASE m = l
        <5>1. n \in 1..(counted[l.id] + 1)
          BY <1>3, <4>2
        <5>2. CASE n = counted[l.id] + 1
          BY <4>1, <4>2, <5>2
        <5>3. CASE n # counted[l.id] + 1
          <6>1. n \in 1..counted[l.id] /\ l \in Mine(k)
            BY <1>1, <1>2, <1>5, <5>1, <5>3 DEF Mine
          <6> QED
            BY <4>1, <4>2, <6>1, HitOf
        <5> QED
          BY <5>2, <5>3
      <4>3. CASE m # l
        <5>1. m \in Mine(k) /\ n \in 1..counted[m.id]
          BY <1>1, <1>3, <2>2, <4>3 DEF Mine
        <5> QED
          BY <4>1, <5>1, HitOf
      <4> QED
        BY <4>2, <4>3
    <3>2. ASSUME NEW y \in Hits(k) PROVE y \in Hits(k)'
      <4>0. PICK m \in Mine(k) : \E n \in 1..counted[m.id] : y = <<m.id, n>>
        BY <3>2, HitOf
      <4>1. PICK n \in 1..counted[m.id] : y = <<m.id, n>>
        BY <4>0
      <4>2. m \in Mine(k)' /\ n \in 1..counted'[m.id]
        BY <1>1, <1>2, <1>3, <2>2 DEF Mine
      <4> QED
        BY <4>1, <4>2 DEF Hits
    <3>3. x \in Hits(k)'
      <4>1. l \in Mine(k)' /\ counted[l.id] + 1 \in 1..counted'[l.id]
        BY <1>2, <1>3, <2>2
      <4> QED
        BY <4>1 DEF Hits
    <3> QED
      BY <3>1, <3>2, <3>3
  <2>4. x \notin Hits(k)
    <3> SUFFICES ASSUME x \in Hits(k) PROVE FALSE
      OBVIOUS
    <3>0. PICK m \in Mine(k) : \E n \in 1..counted[m.id] : x = <<m.id, n>>
      BY HitOf
    <3>1. PICK n \in 1..counted[m.id] : x = <<m.id, n>>
      BY <3>0
    <3>2. m.id = l.id /\ n = counted[l.id] + 1
      BY <3>1
    <3> QED
      BY <1>2, <3>1, <3>2
  <2>5. /\ IsFiniteSet(Hits(k)') /\ Cardinality(Hits(k)') = Cardinality(Hits(k)) + 1
    BY <2>1, <2>3, <2>4, FS_AddElement DEF SumsUp
  <2>6. records[k] \in Record /\ records'[k] =
           [hits  |-> records[k].hits + 1,
            first |-> IF records[k].first = 0 \/ l.time < records[k].first
                      THEN l.time ELSE records[k].first,
            last  |-> IF l.time >= records[k].last THEN l.time ELSE records[k].last]
    BY <1>1, <1>5, <2>1 DEF IInv, TypeOK
  <2>7. records'[k].hits = Cardinality(Hits(k)')
    BY <2>1, <2>5, <2>6 DEF SumsUp
  <2>8. records[k].first \in Nat /\ records[k].last \in Nat
    <3>1. records[k].first \in Times \cup {0} /\ records[k].last \in Times \cup {0}
      BY <2>6 DEF Record
    <3>2. \A t \in Times \cup {0} : t \in Nat
      BY TimesAssumption
    <3> QED
      BY <3>1, <3>2
  <2>9. \A m \in Mine(k) : m \in lines
    BY DEF Mine
  <2>10. CASE Mine(k) = {}
    <3>1. records'[k].first = l.time /\ records'[k].last = l.time
      BY <1>2, <2>1, <2>6, <2>10 DEF SumsUp
    <3> QED
      BY <1>2, <2>2, <2>5, <2>7, <2>10, <3>1 DEF SumsUp
  <2>11. CASE Mine(k) # {}
    <3>1. \A m \in Mine(k) : records[k].first <= m.time /\ m.time <= records[k].last
      BY <2>1, <2>11 DEF SumsUp
    <3>2. PICK a \in Mine(k) : records[k].first = a.time
      BY <2>1, <2>11 DEF SumsUp
    <3>3. PICK b \in Mine(k) : records[k].last = b.time
      BY <2>1, <2>11 DEF SumsUp
    <3>4. /\ records'[k].first = IF l.time < a.time THEN l.time ELSE a.time
          /\ records'[k].last = IF l.time >= b.time THEN l.time ELSE b.time
      BY <1>2, <2>6, <2>9, <3>2, <3>3
    <3>5. \A m \in Mine(k)' : records'[k].first <= m.time /\ m.time <= records'[k].last
      <4> TAKE m \in Mine(k)'
      <4>1. m = l \/ (m \in Mine(k) /\ a.time <= m.time /\ m.time <= b.time)
        BY <2>2, <3>1, <3>2, <3>3
      <4>2. m.time \in Nat /\ a.time \in Nat /\ b.time \in Nat /\ l.time \in Nat
        BY <1>2, <2>9, <4>1
      <4> QED
        BY <3>4, <4>1, <4>2
    <3>6. /\ \E m \in Mine(k)' : records'[k].first = m.time
          /\ \E m \in Mine(k)' : records'[k].last = m.time
      BY <2>2, <3>4
    <3> QED
      BY <2>2, <2>5, <2>7, <3>5, <3>6 DEF SumsUp
  <2> QED
    BY <2>10, <2>11
<1> QED
  BY <1>2, <1>4, <1>5 DEF Sums

\* A clear takes the counts with the rows.
LEMMA DeleteSums == ASSUME TypeOK, DeleteAll, lines' = lines PROVE Sums'
<1> SUFFICES ASSUME NEW k \in Keys PROVE SumsUp(k)'
  BY DEF Sums
<1>1. records'[k] = NoHits /\ \A i \in LineIds : counted'[i] = 0
  BY DEF DeleteAll
<1>2. Mine(k)' = {}
  BY <1>1, LinesTyped DEF Mine
<1>3. Hits(k)' = {}
  BY <1>2 DEF Hits
<1> QED
  BY <1>1, <1>2, <1>3, FS_EmptySet DEF SumsUp, NoHits

\* A line xray appends is a new one, and not counted yet.
LEMMA AcceptedReported == ASSUME IInv, Reported, Accepted PROVE Filed' /\ Sums'
<1>1. TypeOK /\ Numbers
  BY DEF IInv, Rest
<1>2. PICK l \in Line : l.id = Cardinality(lines) + 1 /\ lines' = lines \cup {l}
  BY <1>1, NextLine DEF Numbers
<1>3. UNCHANGED <<counted, records, buf>>
  BY DEF Accepted, storeVars, scanVars, ghostVars
<1>4. Cardinality(lines) \in Nat /\ l.id \in LineIds /\ counted[l.id] \in Nat
  BY <1>1, FS_CardinalityType DEF Numbers, Line, TypeOK
<1>5. counted[l.id] = 0 /\ \A m \in lines : m.id # l.id
  <2>1. \A m \in lines : m.id <= Cardinality(lines) /\ m.id \in Nat
    BY <1>1, LinesTyped, Lines DEF Numbers
  <2>2. ~(l.id <= Cardinality(lines))
    BY <1>2, <1>4
  <2> QED
    BY <1>1, <1>4, <2>1, <2>2 DEF Numbers
<1>6. Filed'
  BY <1>2, <1>3, <1>5 DEF Reported, Filed
<1>7. ASSUME NEW k \in Keys PROVE SumsUp(k)'
  <2>1. Mine(k)' = Mine(k)
    BY <1>2, <1>3, <1>5 DEF Mine
  <2> QED
    BY <1>3, <2>1, RowStays DEF Reported, Sums
<1> QED
  BY <1>6, <1>7 DEF Sums

\* What is buffered comes from the log.
LEMMA FillFiled == ASSUME IInv, Reported, NEW w \in Workers, Fill(w) PROVE Filed'
<1>1. PICK n \in (pos + 1)..Len(log) : buf' = SubSeq(log, pos + 1, n)
  BY DEF Fill
<1>2. lines' = lines /\ pos \in Nat /\ Len(log) \in Nat /\ n \in Nat /\ n <= Len(log)
  BY Lines DEF Fill, fileVars, logVars, IInv
<1>3. /\ Len(buf') = n - pos /\ \A j \in 1..(n - pos) : buf'[j] = log[pos + j]
  BY <1>1, Stretch DEF IInv, TypeOK
<1>4. \A j \in 1..(n - pos) : pos + j \in 1..Len(log)
  BY <1>2
<1> QED
  BY <1>2, <1>3, <1>4 DEF IInv, Rest, Numbers, Reported, Filed

LEMMA UpsertFiled == ASSUME IInv, Reported, NEW w \in Workers, Upsert(w) PROVE Filed'
<1>1. /\ lines' = lines /\ Len(buf) \in Nat \ {0} /\ Len(buf') = Len(buf) - 1
      /\ \A j \in 1..Len(buf') : buf'[j] = buf[j + 1]
  BY FirstOut DEF Upsert, Counted, fileVars, logVars, IInv, TypeOK
<1>2. \A j \in 1..Len(buf') : j + 1 \in 1..Len(buf)
  BY <1>1
<1> QED
  BY <1>1, <1>2 DEF Reported, Filed

LEMMA InitReported == Init => Reported
<1> SUFFICES ASSUME Init PROVE Reported
  OBVIOUS
<1>1. Filed /\ SummaryMatches
  BY EmptySeq DEF Init, Filed, SummaryMatches
<1>2. ASSUME NEW k \in Keys PROVE SumsUp(k)
  <2>1. Mine(k) = {} /\ records[k] = NoHits
    BY DEF Init, Mine
  <2>2. Hits(k) = {}
    BY <2>1 DEF Hits
  <2> QED
    BY <2>1, <2>2, FS_EmptySet DEF SumsUp, NoHits
<1> QED
  BY <1>1, <1>2 DEF Reported, Sums

LEMMA StepReported == IInv /\ Reported /\ [Next]_vars => Reported'
<1> SUFFICES ASSUME IInv, Reported, [Next]_vars PROVE Reported'
  OBVIOUS
<1>0. TypeOK /\ Locking /\ Filed /\ Sums /\ SummaryMatches
  BY DEF IInv, Rest, Reported
<1>1. ASSUME UNCHANGED <<lines, counted, records>>, buf' = buf \/ buf' = <<>>
      PROVE  Filed' /\ Sums'
  BY <1>0, <1>1, RowsStay, EmptySeq DEF Filed
<1>2. ASSUME UNCHANGED <<mu, broken, records, summary>> PROVE SummaryMatches'
  BY <1>0, <1>2 DEF SummaryMatches
<1>3. ASSUME NEW w \in Workers, Begin(w) \/ BeginClear(w) \/ ReadConfig(w) \/ SaveConfig(w)
                                 \/ ClearOffset(w) \/ SkipLog(w) \/ SaveOffset(w)
      PROVE  Reported'
  <2>1. UNCHANGED <<lines, counted, records, buf, mu, broken, summary>>
    BY <1>3 DEF Begin, BeginClear, ReadConfig, SaveConfig, ClearOffset, SkipLog, SaveOffset,
                fileVars, logVars, storeVars, scanVars, ghostVars
  <2> QED
    BY <1>1, <1>2, <2>1 DEF Reported
<1>4. ASSUME NEW w \in Workers, Open(w) PROVE Reported'
  <2>1. UNCHANGED <<lines, counted, records, buf>> /\ mu' = w
    BY <1>4 DEF Open, Lock, logVars, storeVars, ghostVars
  <2> QED
    BY <1>1, <2>1, WorkerAssumption DEF Reported, SummaryMatches
<1>5. ASSUME NEW w \in Workers, Fill(w) PROVE Reported'
  <2>1. UNCHANGED <<lines, counted, records, mu, broken, summary>>
    BY <1>5 DEF Fill, fileVars, logVars, storeVars, ghostVars
  <2> QED
    BY <1>0, <1>2, <1>5, <2>1, RowsStay, FillFiled DEF Reported
<1>6. ASSUME NEW w \in Workers, Upsert(w) PROVE Reported'
  <2>1. pc[w] \in Holding /\ mu' = mu
    BY <1>6 DEF Upsert, Holding
  <2>2. mu' # NoWorker
    BY <1>0, <2>1, Held
  <2> QED
    BY <1>6, <2>2, UpsertSums, UpsertFiled DEF Reported, SummaryMatches
<1>7. ASSUME NEW w \in Workers, DumpSummary(w) PROVE Reported'
  <2>1. /\ UNCHANGED <<lines, counted, records>> /\ buf' = <<>>
        /\ summary' = records
    BY <1>7 DEF DumpSummary, Unlock, fileVars, logVars
  <2> QED
    BY <1>1, <2>1 DEF Reported, SummaryMatches
<1>8. ASSUME NEW w \in Workers, DeleteRecords(w) PROVE Reported'
  <2>1. DeleteAll /\ lines' = lines /\ buf' = buf /\ mu' = w
    BY <1>8 DEF DeleteRecords, Lock, fileVars, logVars, scanVars
  <2>2. Filed'
    BY <1>0, <2>1 DEF Filed
  <2> QED
    BY <1>0, <2>1, <2>2, DeleteSums, WorkerAssumption DEF Reported, SummaryMatches
<1>9. ASSUME NEW w \in Workers, Fail(w) PROVE Reported'
  <2>1. UNCHANGED <<lines, counted, records, summary>>
    BY <1>9 DEF Fail, logVars, storeVars
  <2>2. \/ buf' = <<>> /\ broken' = TRUE
        \/ UNCHANGED <<buf, mu, broken>>
    BY <1>9 DEF Fail, Unlock, LeaveHalfDone, scanVars
  <2> QED
    BY <1>1, <1>2, <2>1, <2>2 DEF Reported, SummaryMatches
<1>10. ASSUME Crash PROVE Reported'
  <2>1. UNCHANGED <<lines, counted, records, summary>> /\ buf' = <<>> /\ mu' = NoWorker
    BY <1>10 DEF Crash, logVars, storeVars
  <2>2. broken' = TRUE \/ (mu = NoWorker /\ broken' = broken)
    BY <1>10 DEF Crash, LeaveHalfDone
  <2> QED
    BY <1>0, <1>1, <2>1, <2>2 DEF Reported, SummaryMatches
<1>11. ASSUME Accepted PROVE Reported'
  <2>1. UNCHANGED <<mu, broken, records, summary>>
    BY <1>11 DEF Accepted, storeVars, ghostVars
  <2> QED
    BY <1>2, <1>11, <2>1, AcceptedReported DEF Reported
<1>12. ASSUME Rotate \/ UNCHANGED vars PROVE Reported'
  <2>1. UNCHANGED <<lines, counted, records, buf, mu, broken, summary>>
    BY <1>12 DEF Rotate, vars, fileVars, logVars, storeVars, scanVars, ghostVars
  <2> QED
    BY <1>1, <1>2, <2>1 DEF Reported
<1> QED
  BY <1>3, <1>4, <1>5, <1>6, <1>7, <1>8, <1>9, <1>10, <1>11, <1>12
     DEF Next, Run, Clear, Update

\* The ends of a row's span are the earliest and the latest of the times counted.
LEMMA SpanExact ==
    ASSUME TypeOK, NEW k \in Keys, SumsUp(k), Mine(k) # {}
    PROVE  /\ records[k].first = Min({l.time : l \in Mine(k)})
           /\ records[k].last = Max({l.time : l \in Mine(k)})
<1> DEFINE S == {l.time : l \in Mine(k)}
           first == records[k].first
           last == records[k].last
<1>1. \A t \in S : t \in Nat
  BY LinesTyped DEF Mine
<1>2. first \in S /\ last \in S /\ \A t \in S : first <= t /\ t <= last
  BY DEF SumsUp
<1> HIDE DEF S, first, last
<1>3. \A x \in S : (\A y \in S : x <= y) => x = first
  BY <1>1, <1>2
<1>4. \A x \in S : (\A y \in S : x >= y) => x = last
  BY <1>1, <1>2
<1>5. Min(S) = first
  BY <1>2, <1>3 DEF Min
<1>6. Max(S) = last
  <2>1. \A y \in S : last >= y
    BY <1>1, <1>2
  <2> QED
    BY <1>2, <1>4, <2>1 DEF Max
<1> QED
  BY <1>5, <1>6 DEF S, first, last

\* ReportExact: each row of access_ip_records holds the number of times lines were counted
\* for it since the last clear and the earliest and latest of their times, and the summary
\* file is the table whenever nobody is at work and the last one did not fail.
THEOREM ReportIsExact == Spec => []ReportExact
<1>1. Spec => []Reported
  BY Inductive, InitReported, StepReported, PTL DEF Spec
<1>2. IInv /\ Reported => ReportExact
  BY SpanExact DEF IInv, Reported, Sums, SumsUp, ReportExact, RecordsExact
<1> QED
  BY <1>1, <1>2, Inductive, PTL
=============================================================================

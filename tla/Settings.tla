------------------------------ MODULE Settings ------------------------------
(* The table of settings (web/service/setting.go) and those that write it one *)
(* setting at a time: the settings page, a switch of HTTPS and its roll-back  *)
(* (cert.go), the commands `setting -port` and `setting -reset` of the        *)
(* program.  No two of them exclude each other, and no index keeps the rows of *)
(* one key to one: saveSetting looks for a row and then writes one.           *)
(*                                                                            *)
(* Three keys stand for all: the two that must fit together, and one that a   *)
(* page and a command write.                                                  *)
EXTENDS Integers, Sequences, FiniteSetsExt

CONSTANTS
    Clients,        \* browsers and shells, each with one request at a time
    Pairs,          \* the pairs of certificate and key files there are
    Ports,          \* what webPort may be set to
    DefaultPort,    \* its default
    None,           \* no row, no form
    MaxId,          \* bound on the ids of rows
    MaxRequests,    \* bound on the requests made
    MaxFaults       \* bound on the queries that fail

ASSUME ConstantsDiffer == "" \notin Pairs /\ DefaultPort \notin Ports

PairKeys == {"webCertFile", "webKeyFile"}
Keys     == PairKeys \cup {"webPort"}
Ids      == 1..MaxId
Values   == Pairs \cup Ports \cup {"", DefaultPort}
Contents == [Keys -> Values]
Rows     == [key : Keys, value : Values]

\* What captureSettings has so far.
Captures == UNION {[ks -> Values] : ks \in SUBSET PairKeys}

ASSUME BoundAssumption == {MaxId, MaxRequests, MaxFaults} \subseteq Nat
ASSUME NoneAssumption == None \notin Rows \cup Contents

\* defaultValueMap.
Default == [k \in Keys |-> IF k = "webPort" THEN DefaultPort ELSE ""]

VARIABLES
    rows,       \* id -> a row [key, value] or None
    pc,         \* client -> where it stands
    kind,       \* client -> what its request is: "page", "switch", "undo", "cli"
    todo,       \* client -> the settings still to save, [key, value, carried]
    found,      \* client -> the id getSetting found for the first of them, or 0
    form,       \* client -> the settings its page shows, or None
    snap,       \* client -> what captureSettings has read so far
    requests, faults,   \* how many there have been
    meant,      \* history: the value last saved on purpose, of each key
    alone,      \* history: nobody else has written since the client read what it writes
    whole,      \* history: no query of its request for certificate or key has failed
    disturbed,  \* history: a page or a roll-back has written over what it had not read
    torn,       \* history: certificate and key come from writers that overlapped or failed,
                \* or one of them has lost its row
    missed,     \* history: since the client looked for its row, a save of another has inserted
                \* one that it should have found instead, or one of another key in its place
    raced       \* history: a client has saved all the same, and no reset has come since

history == <<meant, alone, whole, disturbed, torn, missed, raced>>
vars    == <<rows, pc, kind, todo, found, form, snap, requests, faults, history>>

TypeOK ==
    /\ rows \in [Ids -> Rows \cup {None}]
    /\ pc \in [Clients -> {"idle", "capture", "get", "put", "wait"}]
    /\ kind \in [Clients -> {"page", "switch", "undo", "cli"}]
    /\ todo \in [Clients -> Seq([key : Keys, value : Values, carried : BOOLEAN])]
    /\ found \in [Clients -> Ids \cup {0}]
    /\ form \in [Clients -> Contents \cup {None}]
    /\ snap \in [Clients -> Captures]
    /\ requests \in 0..MaxRequests /\ faults \in 0..MaxFaults
    /\ meant \in Contents
    /\ alone \in [Clients -> BOOLEAN] /\ whole \in [Clients -> BOOLEAN]
    /\ missed \in [Clients -> BOOLEAN]
    /\ {disturbed, torn, raced} \subseteq BOOLEAN

-----------------------------------------------------------------------------
(* Reading.                                                                 *)

RowsOf(t, k) == {i \in Ids : t[i] # None /\ t[i].key = k}

\* getSetting: gorm's First is the row with the least id.
First(k) == IF RowsOf(rows, k) = {} THEN 0 ELSE Min(RowsOf(rows, k))

\* getString.
Get(k) == IF First(k) = 0 THEN Default[k] ELSE rows[First(k)].value

\* GetAllSetting goes through all rows, so of two rows of a key the later one is shown.
Shown(k) ==
    IF RowsOf(rows, k) = {} THEN Default[k] ELSE rows[Max(RowsOf(rows, k))].value

-----------------------------------------------------------------------------
(* Requests.                                                                *)

\* What is saved, in the order of the fields of entity.AllSetting.
Saves(values, edited) ==
    [n \in 1..3 |->
        LET k == <<"webPort", "webCertFile", "webKeyFile">>[n]
        IN  [key |-> k, value |-> values[k], carried |-> k \notin edited]]

Pair(cert, key) ==
    << [key |-> "webCertFile", value |-> cert, carried |-> FALSE],
       [key |-> "webKeyFile", value |-> key, carried |-> FALSE] >>

\* The forms a user can make of f: another port, another pair of files, or both.
Edits(f) ==
    {[f EXCEPT !["webPort"] = o] : o \in Ports}
      \cup {[f EXCEPT !["webCertFile"] = q, !["webKeyFile"] = q] : q \in Pairs \cup {""}}

Request(c, as, at) ==
    /\ pc[c] = "idle" /\ requests < MaxRequests
    /\ requests' = requests + 1
    /\ kind' = [kind EXCEPT ![c] = as]
    /\ pc' = [pc EXCEPT ![c] = at]
    /\ whole' = [whole EXCEPT ![c] = TRUE]

\* The settings page asks for all settings, when it is opened and after each save.
LoadPage(c) ==
    /\ pc[c] = "idle" /\ form[c] = None
    /\ form' = [form EXCEPT ![c] = [k \in Keys |-> Shown(k)]]
    /\ alone' = [alone EXCEPT ![c] = TRUE]
    /\ UNCHANGED <<rows, pc, kind, todo, found, snap, requests, faults,
                   meant, whole, disturbed, torn, missed, raced>>

\* UpdateAllSetting: CheckValid loads the pair of files, and every setting is saved,
\* those the user has not touched as well.
SavePage(c) ==
    /\ Request(c, "page", "get")
    /\ form[c] # None
    /\ \E f \in Edits(form[c]) :
         /\ f["webCertFile"] = f["webKeyFile"]
         /\ todo' = [todo EXCEPT ![c] = Saves(f, {k \in Keys : f[k] # form[c][k]})]
    /\ form' = [form EXCEPT ![c] = None]
    /\ UNCHANGED <<rows, found, snap, faults, meant, alone, disturbed, torn, missed, raced>>

\* EnableHTTPS with the uploaded pair, or DisableHTTPS with none.
Switch(c) ==
    /\ Request(c, "switch", "capture")
    /\ form[c] = None
    /\ \E q \in Pairs \cup {""} : todo' = [todo EXCEPT ![c] = Pair(q, q)]
    /\ snap' = [snap EXCEPT ![c] = <<>>]
    /\ alone' = [alone EXCEPT ![c] = TRUE]
    /\ UNCHANGED <<rows, found, form, faults, meant, disturbed, torn, missed, raced>>

\* captureSettings: a query for each setting.
Capture(c) ==
    /\ pc[c] = "capture"
    /\ LET k == IF "webCertFile" \in DOMAIN snap[c] THEN "webKeyFile" ELSE "webCertFile"
       IN  /\ snap' = [snap EXCEPT ![c] =
                [l \in DOMAIN @ \cup {k} |-> IF l = k THEN Get(k) ELSE @[l]]]
           /\ pc' = [pc EXCEPT ![c] = IF k = "webKeyFile" THEN "get" ELSE @]
    /\ UNCHANGED <<rows, kind, todo, found, form, requests, faults, history>>

\* `x-ui setting -port`.
CommandSet(c) ==
    /\ Request(c, "cli", "get")
    /\ form[c] = None
    /\ \E o \in Ports :
         todo' = [todo EXCEPT ![c] = <<[key |-> "webPort", value |-> o, carried |-> FALSE]>>]
    /\ alone' = [alone EXCEPT ![c] = TRUE]
    /\ UNCHANGED <<rows, found, form, snap, faults, meant, disturbed, torn, missed, raced>>

Writes(c) == alone' = [d \in Clients |-> d = c /\ alone[d]]

\* `x-ui setting -reset`: ResetSettings, one DELETE.
CommandReset(c) ==
    /\ Request(c, "cli", "idle")
    /\ form[c] = None
    /\ rows' = [i \in Ids |-> None]
    /\ meant' = Default
    /\ torn' = (torn /\ \E d \in Clients : pc[d] # "idle")
    /\ missed' = [d \in Clients |-> FALSE] /\ raced' = FALSE
    /\ Writes(c)
    /\ UNCHANGED <<todo, found, form, snap, faults, disturbed>>

-----------------------------------------------------------------------------
(* saveSetting.                                                             *)

\* Where a request goes when its last setting has been saved.
After(c) ==
    IF Len(todo[c]) > 1 THEN "get" ELSE IF kind[c] = "switch" THEN "wait" ELSE "idle"

\* A page that saved both, with nobody between, leaves a pair that fits.
Mends(c) == kind[c] = "page" /\ Len(todo[c]) = 1 /\ alone[c] /\ whole[c]

GetSetting(c) ==
    /\ pc[c] = "get"
    /\ found' = [found EXCEPT ![c] = First(Head(todo[c]).key)]
    /\ pc' = [pc EXCEPT ![c] = "put"]
    /\ UNCHANGED <<rows, kind, todo, form, snap, requests, faults, history>>

NextId == Max({i \in Ids : rows[i] # None} \cup {0}) + 1

\* The row a save writes.
Target(c) == IF found[c] = 0 THEN NextId ELSE found[c]

\* Bug: the row found is not used.
SavedAnew(c) ==
    LET s == Head(todo[c]) IN [rows EXCEPT ![NextId] = [key |-> s.key, value |-> s.value]]

\* Bug: an UPDATE only, which finds no row any more.
SavedByUpdate(c) ==
    LET s == Head(todo[c]) IN
    IF found[c] = 0 THEN [rows EXCEPT ![NextId] = [key |-> s.key, value |-> s.value]]
    ELSE IF rows[found[c]] = None THEN rows
    ELSE [rows EXCEPT ![found[c]] = [key |-> s.key, value |-> s.value]]

\* The rows after a Create, or after gorm's Save, which writes the key and the value to the
\* row it was given and inserts that row when it is gone.
Saved(c) ==
    LET s == Head(todo[c])
    IN  [rows EXCEPT ![Target(c)] = [key |-> s.key, value |-> s.value]]

\* The row found holds another setting now: a reset has emptied the table since, and the id
\* has been given again.
Takes(c) == found[c] # 0 /\ rows[found[c]] # None /\ rows[found[c]].key # Head(todo[c]).key

\* d has looked for its row, and c inserts one: of d's key, though not where d will write,
\* or of another key just there.
Misses(d, c) ==
    /\ d # c /\ pc[d] = "put"
    /\ rows[Target(c)] = None
    /\ (Target(c) = found[d]) # (Head(todo[c]).key = Head(todo[d]).key)

PutSetting(c) ==
    /\ pc[c] = "put"
    /\ found[c] = 0 => NextId \in Ids
    /\ rows' = Saved(c)
    /\ todo' = [todo EXCEPT ![c] = Tail(@)]
    /\ found' = [found EXCEPT ![c] = 0]
    /\ pc' = [pc EXCEPT ![c] = After(c)]
    /\ snap' = [snap EXCEPT ![c] = IF After(c) = "idle" THEN <<>> ELSE @]
    /\ LET s     == Head(todo[c])
           stale == s.carried \/ kind[c] = "undo"
       IN  /\ meant' = [meant EXCEPT ![s.key] = IF s.carried THEN @ ELSE s.value]
           /\ disturbed' = (disturbed \/ (stale /\ ~alone[c]))
           /\ torn' = IF Mends(c) THEN FALSE
                      ELSE \/ torn
                           \/ s.key \in PairKeys /\ ~(alone[c] /\ whole[c])
                           \/ Takes(c) /\ rows[found[c]].key \in PairKeys
    /\ missed' = [d \in Clients |-> d # c /\ (missed[d] \/ Misses(d, c))]
    /\ raced' = (raced \/ missed[c])
    /\ Writes(c)
    /\ UNCHANGED <<kind, form, requests, faults, whole>>

\* A query fails.  UpdateAllSetting and restoreSettings collect the error and go on with the
\* next setting, the others return it.
SaveFails(c) ==
    /\ pc[c] \in {"get", "put"} /\ faults < MaxFaults
    /\ faults' = faults + 1
    /\ LET s       == Head(todo[c])
           goes_on == kind[c] \in {"page", "undo"} /\ Len(todo[c]) > 1
       IN  /\ torn' = (torn \/ (s.key \in PairKeys))
           /\ todo' = [todo EXCEPT ![c] = IF goes_on THEN Tail(@) ELSE <<>>]
           /\ pc' = [pc EXCEPT ![c] = IF goes_on THEN "get" ELSE "idle"]
           /\ snap' = [snap EXCEPT ![c] = IF goes_on THEN @ ELSE <<>>]
    /\ found' = [found EXCEPT ![c] = 0]
    /\ whole' = [whole EXCEPT ![c] = @ /\ Head(todo[c]).key \notin PairKeys]
    /\ missed' = [missed EXCEPT ![c] = FALSE]
    /\ UNCHANGED <<rows, kind, form, requests, meant, alone, disturbed, raced>>

\* The listener came up.
SwitchDone(c) ==
    /\ pc[c] = "wait"
    /\ pc' = [pc EXCEPT ![c] = "idle"]
    /\ snap' = [snap EXCEPT ![c] = <<>>]
    /\ torn' = (torn /\ ~alone[c])
    /\ UNCHANGED <<rows, kind, todo, found, form, requests, faults,
                   meant, alone, whole, disturbed, missed, raced>>

\* Bug: the key is not restored.
RestoreCertOnly(c) == SubSeq(Pair(snap[c]["webCertFile"], snap[c]["webKeyFile"]), 1, 1)

\* restoreSettings.
Restore(c) == Pair(snap[c]["webCertFile"], snap[c]["webKeyFile"])

\* It did not: rollbackListenerState.
RollBack(c) ==
    /\ pc[c] = "wait"
    /\ kind' = [kind EXCEPT ![c] = "undo"]
    /\ todo' = [todo EXCEPT ![c] = Restore(c)]
    /\ pc' = [pc EXCEPT ![c] = "get"]
    /\ UNCHANGED <<rows, found, form, snap, requests, faults, history>>

-----------------------------------------------------------------------------
Init ==
    /\ rows = [i \in Ids |-> None]
    /\ pc = [c \in Clients |-> "idle"]
    /\ kind = [c \in Clients |-> "cli"]
    /\ todo = [c \in Clients |-> <<>>]
    /\ found = [c \in Clients |-> 0]
    /\ form = [c \in Clients |-> None]
    /\ snap = [c \in Clients |-> <<>>]
    /\ requests = 0 /\ faults = 0
    /\ meant = Default
    /\ alone = [c \in Clients |-> TRUE]
    /\ whole = [c \in Clients |-> TRUE]
    /\ missed = [c \in Clients |-> FALSE]
    /\ disturbed = FALSE /\ torn = FALSE /\ raced = FALSE

Next ==
    \E c \in Clients :
        \/ LoadPage(c) \/ SavePage(c)
        \/ Switch(c) \/ Capture(c) \/ SwitchDone(c) \/ RollBack(c)
        \/ CommandSet(c) \/ CommandReset(c)
        \/ GetSetting(c) \/ PutSetting(c) \/ SaveFails(c)

Spec == Init /\ [][Next]_vars

-----------------------------------------------------------------------------
(* Properties.                                                              *)

\* The page shows what the program uses, though GetAllSetting and getSetting read the table
\* in different ways: no sequence of saves, failures and resets gives a key a second row,
\* but for a save between whose query and whose write another client has inserted a row.
ShownIsUsed == raced \/ \A k \in Keys : Shown(k) = Get(k)

\* Between requests the certificate and the key the panel will be started with belong
\* together, whatever switches, roll-backs and pages there were, unless writers overlapped,
\* one of them failed in the middle, or a stale command took the row of one; and a request
\* that does none of this mends it.
PairFits ==
    \/ torn
    \/ \E c \in Clients : pc[c] # "idle"
    \/ Get("webCertFile") = Get("webKeyFile")

\* What a user has saved last is what the panel uses, although a page saves every setting:
\* only a page or a roll-back that has not seen a change can undo it, or a save whose row
\* another client has inserted in between.
NothingUndone == disturbed \/ raced \/ \A k \in Keys : Get(k) = meant[k]
=============================================================================

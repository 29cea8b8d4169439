--------------------------- MODULE SettingsProofs ---------------------------
(***************************************************************************)
(* Proofs about Settings, for any clients, values and bounds: a page shows *)
(* what is used, what was saved last stands, and certificate and key fit,  *)
(* each but for the races its history variable names.                      *)
(*                                                                         *)
(* A client that is alone, as nobody else has written since it read, knows *)
(* what the table holds of what it read; every save leaves all others not  *)
(* alone.  So a step has to be looked at from the client that takes it.    *)
(***************************************************************************)
EXTENDS Settings, SequenceTheorems, FiniteSetTheorems, TLAPS

-----------------------------------------------------------------------------
(* The inductive invariant.                                                 *)

Left(c) == Len(todo[c])
Busy(c) == pc[c] \in {"get", "put"}

\* The certificate is saved, or its save has failed, and the key is not yet.
Half(c) == Busy(c) /\ kind[c] # "cli" /\ Left(c) = 1

\* What is left to save is an end of what is always saved in one order.
Ordered(c) ==
    /\ Left(c) <= 3
    /\ kind[c] = "cli" =>
         /\ Left(c) <= 1
         /\ Left(c) = 1 => todo[c][1].key = "webPort"
    /\ kind[c] # "cli" =>
         /\ Left(c) = 1 => todo[c][1].key = "webKeyFile"
         /\ Left(c) = 2 => todo[c][1].key = "webCertFile" /\ todo[c][2].key = "webKeyFile"
         /\ Left(c) = 3 => /\ todo[c][1].key = "webPort"
                           /\ todo[c][2].key = "webCertFile" /\ todo[c][3].key = "webKeyFile"

\* Where a request of each kind can stand.
Placed(c) ==
    /\ pc[c] \in {"idle", "wait"} <=> todo[c] = <<>>
    /\ pc[c] \in {"capture", "wait"} => kind[c] = "switch"
    /\ pc[c] = "capture" => Left(c) = 2
    /\ kind[c] # "page" => Left(c) <= 2
    /\ form[c] # None => pc[c] = "idle"
    /\ kind[c] = "switch" /\ pc[c] # "idle" => whole[c]

\* A page and a switch save a pair that fits, a roll-back what was captured; only a page
\* saves what it has not changed.
Paired(c) ==
    /\ kind[c] \in {"page", "switch"} =>
         /\ Left(c) = 2 => todo[c][1].value = todo[c][2].value
         /\ Left(c) = 3 => todo[c][2].value = todo[c][3].value
    /\ kind[c] = "undo" =>
         /\ Left(c) = 1 => todo[c][1].value = snap[c]["webKeyFile"]
         /\ Left(c) = 2 => /\ todo[c][1].value = snap[c]["webCertFile"]
                           /\ todo[c][2].value = snap[c]["webKeyFile"]
    /\ kind[c] # "page" => \A m \in 1..Left(c) : ~todo[c][m].carried

\* captureSettings reads both before anything is written, and keeps them to the end.
Holds(c) ==
    DOMAIN snap[c] \in
        IF pc[c] = "capture" THEN {{}, {"webCertFile"}}
        ELSE IF pc[c] # "idle" /\ kind[c] \in {"switch", "undo"} THEN {PairKeys}
        ELSE {{}}

Work(c) == Ordered(c) /\ Placed(c) /\ Paired(c) /\ Holds(c)

\* What client c knows is so as long as nobody else has written.
Knows(c) == alone[c] =>
    /\ pc[c] = "put" => found[c] = First(Head(todo[c]).key)
    /\ ~raced /\ form[c] # None => \A k \in Keys : form[c][k] = Get(k)
    /\ ~raced => \A m \in 1..Left(c) :
                   todo[c][m].carried => todo[c][m].value = Get(todo[c][m].key)
    /\ Half(c) /\ whole[c] =>
         Get("webCertFile") = IF kind[c] = "undo" THEN snap[c]["webCertFile"]
                              ELSE todo[c][1].value
    /\ pc[c] = "wait" => Get("webCertFile") = Get("webKeyFile")
    /\ kind[c] = "switch" /\ pc[c] # "idle" /\ Left(c) = 2 =>
         \A k \in DOMAIN snap[c] : snap[c][k] = Get(k)

Fits == Get("webCertFile") = Get("webKeyFile")

\* A pair that does not fit is being written, or excused.
Fitting == torn \/ Fits \/ \E c \in Clients : Half(c)

\* c has saved its certificate since it made its request.
Wrote(c) ==
    pc[c] = "wait" \/ (Busy(c) /\ kind[c] = "undo") \/ (Half(c) /\ kind[c] = "switch")

\* Two writers are not both alone.
OneWrote == \A c, d \in Clients : alone[c] /\ alone[d] /\ Wrote(c) /\ Wrote(d) => c = d

\* What a roll-back would restore fits, if what it captured was not being written.
FitToRestore ==
    \A c \in Clients : alone[c] /\ DOMAIN snap[c] = PairKeys =>
        \/ torn
        \/ snap[c]["webCertFile"] = snap[c]["webKeyFile"]
        \/ \E d \in Clients \ {c} : Half(d)

\* Every key has at most one row.
Single(t) == \A k \in Keys : \A i, j \in RowsOf(t, k) : i = j

Unique == raced \/ Single(rows)

\* What c found when it looked for its row is still all there is.
Finds(c) ==
    /\ RowsOf(rows, Head(todo[c]).key) \subseteq {found[c]}
    /\ found[c] # 0 => rows[found[c]] = None \/ rows[found[c]].key = Head(todo[c]).key

\* A save that has not been missed writes the row it should.
Looked(c) == pc[c] = "put" => raced \/ missed[c] \/ Finds(c)

IInv ==
    /\ TypeOK
    /\ \A c \in Clients : Work(c) /\ Knows(c) /\ Looked(c)
    /\ Unique /\ NothingUndone
    /\ Fitting /\ OneWrote /\ FitToRestore


-----------------------------------------------------------------------------
(* Least and greatest numbers.                                              *)

\* The strict inclusion of the finite sets 0..i is well founded, so one of them is least.
LEMMA LeastExists ==
  ASSUME NEW S \in SUBSET Nat, S # {}
  PROVE  \E m \in S : \A y \in S : m <= y
<1> DEFINE T == {0..i : i \in S}
<1>1. T \subseteq FiniteSubsetsOf(Nat)
  <2>1. ASSUME NEW i \in S PROVE IsFiniteSet(0..i) /\ 0..i \subseteq Nat
    BY FS_Interval
  <2> QED  BY <2>1 DEF FiniteSubsetsOf
<1>2. T # {}
  OBVIOUS
<1>3. IsWellFoundedOn(StrictSubsetOrdering(Nat), FiniteSubsetsOf(Nat))
  BY FS_StrictSubsetOrderingWellFounded
<1>4. \E x \in T : \A y \in T : <<y, x>> \notin StrictSubsetOrdering(Nat)
  <2> HIDE DEF T
  <2> QED  BY <1>1, <1>2, <1>3, WFMin
<1>5. PICK m \in S : \A y \in T : <<y, 0..m>> \notin StrictSubsetOrdering(Nat)
  BY <1>4
<1>6. ASSUME NEW y \in S, y < m PROVE FALSE
  <2>1. 0..y \subseteq 0..m /\ m \in 0..m /\ m \notin 0..y
    BY <1>6
  <2>2. <<0..y, 0..m>> \in StrictSubsetOrdering(Nat)
    <3>1. 0..y \in SUBSET Nat /\ 0..m \in SUBSET Nat /\ 0..y # 0..m
      BY <2>1
    <3> QED  BY <2>1, <3>1 DEF StrictSubsetOrdering
  <2> QED  BY <1>5, <2>2
<1> QED  BY <1>6

LEMMA LeastOf ==
  ASSUME NEW S \in SUBSET Nat, S # {}
  PROVE  Min(S) \in S /\ \A y \in S : Min(S) <= y
BY LeastExists DEF Min

LEMMA GreatestOf ==
  ASSUME NEW n \in Nat, NEW S \in SUBSET (0..n), S # {}
  PROVE  Max(S) \in S /\ \A y \in S : y <= Max(S)
<1> DEFINE T == {n - i : i \in S}
<1>1. T \in SUBSET Nat /\ T # {}
  <2>1. \A i \in S : n - i \in Nat
    OBVIOUS
  <2> QED  BY <2>1
<1>2. PICK m \in T : \A y \in T : m <= y
  <2> HIDE DEF T
  <2> QED  BY <1>1, LeastExists
<1>3. PICK x \in S : m = n - x
  BY <1>2
<1>4. \A y \in S : x >= y
  BY <1>2, <1>3
<1> QED  BY <1>3, <1>4 DEF Max

-----------------------------------------------------------------------------
(* What a table says of a key, and what a write changes.                    *)

Table == [Ids -> Rows \cup {None}]

FirstOf(t, k) == IF RowsOf(t, k) = {} THEN 0 ELSE Min(RowsOf(t, k))
ValueOf(t, k) == IF FirstOf(t, k) = 0 THEN Default[k] ELSE t[FirstOf(t, k)].value

\* t with a row of key k and value v at i.
With(t, i, k, v) == [t EXCEPT ![i] = [key |-> k, value |-> v]]

LEMMA GetIs ==
  ASSUME NEW k
  PROVE  /\ First(k) = FirstOf(rows, k) /\ Get(k) = ValueOf(rows, k)
         /\ Get(k)' = ValueOf(rows', k)
BY DEF Get, First, ValueOf, FirstOf, RowsOf

LEMMA FirstIsRow ==
  ASSUME NEW t, NEW k, RowsOf(t, k) # {}
  PROVE  FirstOf(t, k) \in RowsOf(t, k) /\ FirstOf(t, k) # 0
<1>1. RowsOf(t, k) \in SUBSET Nat /\ 0 \notin RowsOf(t, k)
  BY BoundAssumption DEF RowsOf, Ids
<1>2. Min(RowsOf(t, k)) \in RowsOf(t, k)
  BY <1>1, LeastOf
<1> QED  BY <1>1, <1>2 DEF FirstOf

LEMMA ValueIsValue ==
  ASSUME NEW t \in Table, NEW k \in Keys
  PROVE  ValueOf(t, k) \in Values /\ FirstOf(t, k) \in Ids \cup {0}
<1>1. Default[k] \in Values
  BY DEF Default, Values, Keys, PairKeys
<1>2. CASE RowsOf(t, k) = {}
  BY <1>1, <1>2 DEF ValueOf, FirstOf
<1>3. CASE RowsOf(t, k) # {}
  <2>1. FirstOf(t, k) \in RowsOf(t, k) /\ FirstOf(t, k) # 0
    BY <1>3, FirstIsRow
  <2>2. FirstOf(t, k) \in Ids /\ t[FirstOf(t, k)] \in Rows
    BY <2>1 DEF RowsOf, Table
  <2> QED  BY <2>1, <2>2 DEF ValueOf, Rows
<1> QED  BY <1>2, <1>3

LEMMA RowsWith ==
  ASSUME NEW t \in Table, NEW i \in Ids, NEW k \in Keys, NEW v \in Values
  PROVE  /\ With(t, i, k, v) \in Table
         /\ RowsOf(With(t, i, k, v), k) = RowsOf(t, k) \cup {i}
         /\ \A l \in Keys \ {k} : RowsOf(With(t, i, k, v), l) = RowsOf(t, l) \ {i}
         /\ With(t, i, k, v)[i].value = v
         /\ \A j \in Ids \ {i} : With(t, i, k, v)[j] = t[j]
<1>1. [key |-> k, value |-> v] \in Rows /\ [key |-> k, value |-> v] # None
  BY NoneAssumption DEF Rows
<1>2. With(t, i, k, v)[i] = [key |-> k, value |-> v]
  BY DEF With, Table
<1>3. \A j \in Ids \ {i} : With(t, i, k, v)[j] = t[j]
  BY DEF With, Table
<1>4. With(t, i, k, v) \in Table
  BY <1>1 DEF With, Table
<1> QED  BY <1>1, <1>2, <1>3, <1>4 DEF RowsOf

\* A key whose row is not overwritten keeps its value.
LEMMA KeptValue ==
  ASSUME NEW t \in Table, NEW i \in Ids, NEW k \in Keys, NEW v \in Values,
         NEW l \in Keys \ {k}, i \notin RowsOf(t, l)
  PROVE  ValueOf(With(t, i, k, v), l) = ValueOf(t, l)
<1>1. RowsOf(With(t, i, k, v), l) = RowsOf(t, l)
  <2>1. RowsOf(With(t, i, k, v), l) = RowsOf(t, l) \ {i}
    BY RowsWith
  <2> QED  BY <2>1
<1>2. FirstOf(With(t, i, k, v), l) = FirstOf(t, l)
  BY <1>1 DEF FirstOf
<1>3. CASE RowsOf(t, l) = {}
  BY <1>2, <1>3 DEF ValueOf, FirstOf
<1>4. CASE RowsOf(t, l) # {}
  <2>1. FirstOf(t, l) \in Ids \ {i}
    BY <1>4, FirstIsRow DEF RowsOf
  <2>2. With(t, i, k, v)[FirstOf(t, l)] = t[FirstOf(t, l)]
    BY <2>1, RowsWith
  <2> QED  BY <1>2, <2>2 DEF ValueOf
<1> QED  BY <1>3, <1>4

\* A write to the first row of a key, or to a free one when there is none, gives it its value.
LEMMA NewValue ==
  ASSUME NEW t \in Table, NEW i \in Ids, NEW k \in Keys, NEW v \in Values,
         RowsOf(t, k) # {} => i = FirstOf(t, k)
  PROVE  ValueOf(With(t, i, k, v), k) = v
<1>1. RowsOf(With(t, i, k, v), k) = RowsOf(t, k) \cup {i}
  BY RowsWith
<1>2. FirstOf(With(t, i, k, v), k) = i
  <2>1. CASE RowsOf(t, k) = {}
    <3>1. RowsOf(With(t, i, k, v), k) = {i}
      BY <1>1, <2>1
    <3> QED  BY <3>1, FirstIsRow
  <2>2. CASE RowsOf(t, k) # {}
    <3>1. i \in RowsOf(t, k)
      BY <2>2, FirstIsRow
    <3>2. RowsOf(With(t, i, k, v), k) = RowsOf(t, k)
      BY <1>1, <3>1
    <3> QED  BY <2>2, <3>2 DEF FirstOf
  <2> QED  BY <2>1, <2>2
<1>3. i # 0
  BY BoundAssumption DEF Ids
<1> QED  BY <1>2, <1>3, RowsWith DEF ValueOf

\* So does any write after which the key has one row.
LEMMA SoleValue ==
  ASSUME NEW t \in Table, NEW i \in Ids, NEW k \in Keys, NEW v \in Values,
         \A j \in RowsOf(With(t, i, k, v), k) : j = i
  PROVE  ValueOf(With(t, i, k, v), k) = v
<1>1. i \in RowsOf(With(t, i, k, v), k)
  BY RowsWith
<1>2. FirstOf(With(t, i, k, v), k) = i
  BY <1>1, FirstIsRow
<1>3. i # 0
  BY BoundAssumption DEF Ids
<1> QED  BY <1>2, <1>3, RowsWith DEF ValueOf

-----------------------------------------------------------------------------
(* Types.                                                                   *)

Entry == [key : Keys, value : Values, carried : BOOLEAN]

LEMMA KeySet == Keys = {"webPort", "webCertFile", "webKeyFile"} /\ PairKeys \subseteq Keys
BY DEF Keys, PairKeys

LEMMA NextIdRange ==
  ASSUME TypeOK
  PROVE  NextId \in 1..(MaxId + 1) /\ (NextId \in Ids => rows[NextId] = None)
<1> DEFINE S == {i \in Ids : rows[i] # None} \cup {0}
<1>1. MaxId \in Nat /\ S \in SUBSET (0..MaxId) /\ 0 \in S
  BY BoundAssumption DEF Ids
<1>2. Max(S) \in S /\ \A y \in S : y <= Max(S)
  <2> HIDE DEF S
  <2> QED  BY <1>1, GreatestOf
<1>3. NextId = Max(S) + 1
  BY DEF NextId
<1>4. NextId \in 1..(MaxId + 1) /\ NextId \notin S
  <2> HIDE DEF S
  <2>1. Max(S) \in 0..MaxId
    BY <1>1, <1>2
  <2>2. Max(S) + 1 \notin S
    BY <1>2, <2>1
  <2> QED  BY <1>1, <1>3, <2>1, <2>2
<1> QED  BY <1>4

LEMMA EmptyCapture == <<>> \in Captures /\ DOMAIN <<>> = {}
<1>1. <<>> \in Seq(Values) /\ Len(<<>>) = 0
  BY EmptySeq
<1>2. <<>> \in [1..0 -> Values]
  BY <1>1, LenProperties
<1>3. <<>> \in [{} -> Values]
  BY <1>2
<1> QED  BY <1>3 DEF Captures

LEMMA Captured ==
  ASSUME TypeOK, NEW c \in Clients
  PROVE  DOMAIN snap[c] \subseteq PairKeys /\ snap[c] \in [DOMAIN snap[c] -> Values]
BY DEF TypeOK, Captures

\* The settings of a list with something left to save.
LEMMA HeadAndTail ==
  ASSUME TypeOK, NEW c \in Clients, todo[c] # <<>>
  PROVE  /\ Head(todo[c]) \in Entry /\ Head(todo[c]) = todo[c][1]
         /\ Tail(todo[c]) \in Seq(Entry) /\ Len(Tail(todo[c])) = Len(todo[c]) - 1
         /\ Len(todo[c]) > 1 => Tail(todo[c])[1] = todo[c][2]
         /\ Len(todo[c]) > 2 => Tail(todo[c])[2] = todo[c][3]
         /\ \A m \in 1..Len(Tail(todo[c])) : m + 1 \in 1..Len(todo[c]) /\ Tail(todo[c])[m] = todo[c][m + 1]
         /\ Len(todo[c]) \in Nat /\ Len(todo[c]) > 0
<1>1. todo[c] \in Seq(Entry)
  BY DEF TypeOK, Entry
<1>2. Len(todo[c]) \in Nat /\ Len(todo[c]) # 0
  BY <1>1, LenProperties, EmptySeq
<1>3. /\ Head(todo[c]) \in Entry /\ Tail(todo[c]) \in Seq(Entry)
      /\ Len(Tail(todo[c])) = Len(todo[c]) - 1
      /\ \A m \in 1..Len(Tail(todo[c])) : Tail(todo[c])[m] = todo[c][m + 1]
  BY <1>1, HeadTailProperties
<1>4. Head(todo[c]) = todo[c][1]
  BY <1>1
<1>5. Len(todo[c]) > 1 => 1 \in 1..Len(Tail(todo[c])) /\ 1 + 1 = 2
  BY <1>2, <1>3
<1>6. Len(todo[c]) > 2 => 2 \in 1..Len(Tail(todo[c])) /\ 2 + 1 = 3
  BY <1>2, <1>3
<1>7. \A m \in 1..Len(Tail(todo[c])) : m + 1 \in 1..Len(todo[c])
  BY <1>2, <1>3
<1> QED  BY <1>2, <1>3, <1>4, <1>5, <1>6, <1>7

LEMMA PairTyped ==
  ASSUME NEW u \in Values, NEW v \in Values
  PROVE  Pair(u, v) \in Seq(Entry) /\ Len(Pair(u, v)) = 2
BY DEF Pair, Entry, Keys, PairKeys

LEMMA SavesTyped ==
  ASSUME NEW f \in Contents, NEW edited
  PROVE  /\ Saves(f, edited) \in Seq(Entry) /\ Len(Saves(f, edited)) = 3
         /\ \A n \in 1..3 :
              LET k == <<"webPort", "webCertFile", "webKeyFile">>[n]
              IN  /\ Saves(f, edited)[n].key = k /\ Saves(f, edited)[n].value = f[k]
                  /\ Saves(f, edited)[n].carried = (k \notin edited)
<1> DEFINE K == <<"webPort", "webCertFile", "webKeyFile">>
<1>1. \A n \in 1..3 : K[n] \in Keys
  BY DEF Keys, PairKeys
<1>2. \A n \in 1..3 : Saves(f, edited)[n] = [key |-> K[n], value |-> f[K[n]], carried |-> K[n] \notin edited]
  BY DEF Saves
<1>3. \A n \in 1..3 : Saves(f, edited)[n] \in Entry
  <2>1. \A n \in 1..3 : f[K[n]] \in Values
    <3> HIDE DEF K
    <3> QED  BY <1>1 DEF Contents
  <2>2. \A n \in 1..3 : (K[n] \notin edited) \in BOOLEAN
    OBVIOUS
  <2>3. \A n \in 1..3 : [key |-> K[n], value |-> f[K[n]], carried |-> K[n] \notin edited] \in Entry
    <3> HIDE DEF K
    <3> QED  BY <1>1, <2>1, <2>2 DEF Entry
  <2> HIDE DEF K
  <2> QED  BY <1>2, <2>3
<1>4. Saves(f, edited) \in [1..3 -> Entry]
  BY <1>3 DEF Saves
<1>5. Saves(f, edited) \in Seq(Entry) /\ Len(Saves(f, edited)) = 3
  BY <1>4, IsASeq, LenProperties
<1> QED  BY <1>2, <1>5

LEMMA EditsTyped ==
  ASSUME NEW f \in Contents, NEW g \in Edits(f)
  PROVE  g \in Contents
BY DEF Edits, Contents, Values, Keys, PairKeys

LEMMA ShownIsValue ==
  ASSUME TypeOK, NEW k \in Keys
  PROVE  Shown(k) \in Values
<1>1. Default[k] \in Values
  BY DEF Default, Values, Keys, PairKeys
<1>2. CASE RowsOf(rows, k) = {}
  BY <1>1, <1>2 DEF Shown
<1>3. CASE RowsOf(rows, k) # {}
  <2>1. RowsOf(rows, k) \in SUBSET (0..MaxId) /\ MaxId \in Nat
    BY BoundAssumption DEF RowsOf, Ids
  <2>2. Max(RowsOf(rows, k)) \in RowsOf(rows, k)
    BY <1>3, <2>1, GreatestOf
  <2>3. rows[Max(RowsOf(rows, k))] \in Rows
    BY <2>2 DEF RowsOf, TypeOK
  <2> QED  BY <1>3, <2>3 DEF Shown, Rows
<1> QED  BY <1>2, <1>3

LEMMA Requested ==
  ASSUME TypeOK, NEW c \in Clients, NEW as \in {"page", "switch", "cli"},
         NEW at \in {"idle", "capture", "get"}, Request(c, as, at)
  PROVE  /\ requests' \in 0..MaxRequests
         /\ kind' \in [Clients -> {"page", "switch", "undo", "cli"}]
         /\ pc' \in [Clients -> {"idle", "capture", "get", "put", "wait"}]
         /\ whole' \in [Clients -> BOOLEAN]
<1>1. requests' \in 0..MaxRequests
  BY BoundAssumption DEF Request, TypeOK
<1> QED  BY <1>1 DEF Request, TypeOK

\* The type invariant needs that a busy request has something left to save.
LEMMA TypeStep ==
  ASSUME TypeOK, \A c \in Clients : Placed(c) /\ Holds(c), [Next]_vars
  PROVE  TypeOK'
<1>0. \A c \in Clients : Busy(c) => todo[c] # <<>>
  BY DEF Placed, Busy
<1>1. ASSUME NEW c \in Clients, LoadPage(c) PROVE TypeOK'
  <2>1. [k \in Keys |-> Shown(k)] \in Contents
    BY ShownIsValue DEF Contents
  <2> QED  BY <1>1, <2>1 DEF LoadPage, TypeOK
<1>2. ASSUME NEW c \in Clients, SavePage(c) PROVE TypeOK'
  <2>1. form[c] \in Contents
    BY <1>2 DEF SavePage, TypeOK
  <2>2. PICK f \in Edits(form[c]) :
          todo' = [todo EXCEPT ![c] = Saves(f, {k \in Keys : f[k] # form[c][k]})]
    BY <1>2 DEF SavePage
  <2>3. Saves(f, {k \in Keys : f[k] # form[c][k]}) \in Seq(Entry)
    BY <2>1, EditsTyped, SavesTyped
  <2>4. todo' \in [Clients -> Seq(Entry)]
    BY <2>2, <2>3 DEF TypeOK, Entry
  <2>5. Request(c, "page", "get")
    BY <1>2 DEF SavePage
  <2> QED  BY <1>2, <2>4, <2>5, Requested DEF SavePage, TypeOK, Entry
<1>3. ASSUME NEW c \in Clients, Switch(c) PROVE TypeOK'
  <2>1. PICK q \in Pairs \cup {""} : todo' = [todo EXCEPT ![c] = Pair(q, q)]
    BY <1>3 DEF Switch
  <2>2. Pair(q, q) \in Seq(Entry)
    <3>1. q \in Values
      BY DEF Values
    <3> QED  BY <3>1, PairTyped
  <2>3. todo' \in [Clients -> Seq(Entry)]
    BY <2>1, <2>2 DEF TypeOK, Entry
  <2>4. Request(c, "switch", "capture")
    BY <1>3 DEF Switch
  <2>5. snap' \in [Clients -> Captures] /\ alone' \in [Clients -> BOOLEAN]
    BY <1>3, EmptyCapture DEF Switch, TypeOK
  <2> QED  BY <1>3, <2>3, <2>4, <2>5, Requested DEF Switch, TypeOK, Entry
<1>4. ASSUME NEW c \in Clients, Capture(c) PROVE TypeOK'
  <2> DEFINE k == IF "webCertFile" \in DOMAIN snap[c] THEN "webKeyFile" ELSE "webCertFile"
             s == [l \in DOMAIN snap[c] \cup {k} |-> IF l = k THEN Get(k) ELSE snap[c][l]]
  <2>1. k \in PairKeys
    BY DEF PairKeys
  <2>2. Get(k) \in Values
    BY <2>1, GetIs, ValueIsValue, KeySet DEF TypeOK, Table
  <2>3. DOMAIN snap[c] \subseteq PairKeys /\ snap[c] \in [DOMAIN snap[c] -> Values]
    BY Captured
  <2>4. s \in Captures
    <3> HIDE DEF k
    <3>1. s \in [DOMAIN snap[c] \cup {k} -> Values]
      BY <2>2, <2>3
    <3> QED  BY <2>1, <2>3, <3>1 DEF Captures
  <2>5. snap' = [snap EXCEPT ![c] = s]
    BY <1>4 DEF Capture
  <2> QED
    <3> HIDE DEF s
    <3>1. snap' \in [Clients -> Captures]
      BY <2>4, <2>5 DEF TypeOK
    <3> QED  BY <1>4, <3>1 DEF Capture, TypeOK, history
<1>5. ASSUME NEW c \in Clients, CommandSet(c) PROVE TypeOK'
  <2>1. PICK o \in Ports :
          todo' = [todo EXCEPT ![c] = <<[key |-> "webPort", value |-> o, carried |-> FALSE]>>]
    BY <1>5 DEF CommandSet
  <2>2. <<[key |-> "webPort", value |-> o, carried |-> FALSE]>> \in Seq(Entry)
    <3>1. [key |-> "webPort", value |-> o, carried |-> FALSE] \in Entry
      BY KeySet DEF Entry, Values
    <3> QED  BY <3>1
  <2>3. todo' \in [Clients -> Seq(Entry)]
    BY <2>1, <2>2 DEF TypeOK, Entry
  <2>4. Request(c, "cli", "get")
    BY <1>5 DEF CommandSet
  <2> QED  BY <1>5, <2>3, <2>4, Requested DEF CommandSet, TypeOK, Entry
<1>6. ASSUME NEW c \in Clients, CommandReset(c) PROVE TypeOK'
  <2>1. Default \in Contents
    BY DEF Default, Contents, Values, Keys, PairKeys
  <2>2. Request(c, "cli", "idle")
    BY <1>6 DEF CommandReset
  <2>3. rows' \in [Ids -> Rows \cup {None}] /\ alone' \in [Clients -> BOOLEAN]
    BY <1>6 DEF CommandReset, Writes, TypeOK
  <2>4. torn' \in BOOLEAN
    BY <1>6 DEF CommandReset, TypeOK
  <2> QED  BY <1>6, <2>1, <2>2, <2>3, <2>4, Requested DEF CommandReset, TypeOK
<1>7. ASSUME NEW c \in Clients, GetSetting(c) PROVE TypeOK'
  <2>1. First(Head(todo[c]).key) \in Ids \cup {0}
    <3>1. Head(todo[c]) \in Entry
      BY <1>0, <1>7, HeadAndTail DEF GetSetting, Busy
    <3>2. Head(todo[c]).key \in Keys /\ rows \in Table
      BY <3>1 DEF TypeOK, Table, Entry
    <3> QED  BY <3>2, GetIs, ValueIsValue
  <2> QED  BY <1>7, <2>1 DEF GetSetting, TypeOK, history
<1>8. ASSUME NEW c \in Clients, PutSetting(c) PROVE TypeOK'
  <2> DEFINE s == Head(todo[c])
             i == Target(c)
  <2>1. s \in Entry /\ Tail(todo[c]) \in Seq(Entry)
    BY <1>0, <1>8, HeadAndTail DEF PutSetting, Busy
  <2>2. i \in Ids
    BY <1>8 DEF PutSetting, TypeOK, Target
  <2>3. rows' \in Table
    <3>1. rows' = With(rows, i, s.key, s.value)
      BY <1>8 DEF PutSetting, Saved, With
    <3>2. rows \in Table /\ s.key \in Keys /\ s.value \in Values
      BY <2>1 DEF TypeOK, Table, Entry
    <3> HIDE DEF s, i
    <3> QED  BY <2>2, <3>1, <3>2, RowsWith
  <2>4. todo' \in [Clients -> Seq(Entry)]
    BY <1>8, <2>1 DEF PutSetting, TypeOK, Entry
  <2>5. pc' \in [Clients -> {"idle", "capture", "get", "put", "wait"}]
    BY <1>8 DEF PutSetting, TypeOK, After
  <2>6. snap' \in [Clients -> Captures]
    BY <1>8, EmptyCapture DEF PutSetting, TypeOK
  <2>7. meant' \in Contents
    <3>1. meant' = [meant EXCEPT ![s.key] = IF s.carried THEN @ ELSE s.value]
      BY <1>8 DEF PutSetting
    <3> HIDE DEF s
    <3> QED  BY <2>1, <3>1 DEF TypeOK, Contents, Entry
  <2>8. {disturbed', torn', raced'} \subseteq BOOLEAN
    BY <1>8 DEF PutSetting, TypeOK
  <2>9. /\ found' \in [Clients -> Ids \cup {0}] /\ alone' \in [Clients -> BOOLEAN]
        /\ missed' \in [Clients -> BOOLEAN]
    BY <1>8 DEF PutSetting, Writes, TypeOK
  <2> QED
    BY <1>8, <2>3, <2>4, <2>5, <2>6, <2>7, <2>8, <2>9 DEF PutSetting, TypeOK, Table, Entry
<1>9. ASSUME NEW c \in Clients, SaveFails(c) PROVE TypeOK'
  <2>1. Tail(todo[c]) \in Seq(Entry) /\ <<>> \in Seq(Entry)
    BY <1>0, <1>9, HeadAndTail, EmptySeq DEF SaveFails, Busy
  <2>2. todo' \in [Clients -> Seq(Entry)]
    BY <1>9, <2>1 DEF SaveFails, TypeOK, Entry
  <2>3. snap' \in [Clients -> Captures]
    BY <1>9, EmptyCapture DEF SaveFails, TypeOK
  <2>4. pc' \in [Clients -> {"idle", "capture", "get", "put", "wait"}]
    BY <1>9 DEF SaveFails, TypeOK
  <2>5. torn' \in BOOLEAN /\ whole' \in [Clients -> BOOLEAN]
    BY <1>9 DEF SaveFails, TypeOK
  <2>6. faults' \in 0..MaxFaults /\ found' \in [Clients -> Ids \cup {0}]
    BY <1>9, BoundAssumption DEF SaveFails, TypeOK
  <2> QED  BY <1>9, <2>2, <2>3, <2>4, <2>5, <2>6 DEF SaveFails, TypeOK, Entry
<1>10. ASSUME NEW c \in Clients, SwitchDone(c) PROVE TypeOK'
  BY <1>10, EmptyCapture DEF SwitchDone, TypeOK
<1>11. ASSUME NEW c \in Clients, RollBack(c) PROVE TypeOK'
  <2>1. Restore(c) \in Seq(Entry)
    <3>1. DOMAIN snap[c] = PairKeys
      BY <1>11 DEF Holds, Placed, RollBack
    <3>2. snap[c]["webCertFile"] \in Values /\ snap[c]["webKeyFile"] \in Values
      BY <3>1, Captured DEF PairKeys
    <3> QED  BY <3>2, PairTyped DEF Restore
  <2> QED  BY <1>11, <2>1 DEF RollBack, TypeOK, history, Entry
<1>12. CASE UNCHANGED vars
  BY <1>12 DEF TypeOK, vars, history
<1> QED
  BY <1>1, <1>2, <1>3, <1>4, <1>5, <1>6, <1>7, <1>8, <1>9, <1>10, <1>11, <1>12 DEF Next

-----------------------------------------------------------------------------
(* One step of one client.                                                  *)

Step(c) ==
    \/ LoadPage(c) \/ SavePage(c)
    \/ Switch(c) \/ Capture(c) \/ SwitchDone(c) \/ RollBack(c)
    \/ CommandSet(c) \/ CommandReset(c)
    \/ GetSetting(c) \/ PutSetting(c) \/ SaveFails(c)

\* What a client has for itself.
Kept(c) ==
    /\ pc'[c] = pc[c] /\ kind'[c] = kind[c] /\ todo'[c] = todo[c] /\ found'[c] = found[c]
    /\ form'[c] = form[c] /\ snap'[c] = snap[c] /\ whole'[c] = whole[c]

LEMMA OthersKept ==
  ASSUME TypeOK, NEW c \in Clients, Step(c), NEW d \in Clients \ {c}
  PROVE  Kept(d)
<1>1. CASE LoadPage(c)
  BY <1>1 DEF LoadPage, TypeOK, Kept
<1>2. CASE SavePage(c)
  <2>1. PICK l : todo' = [todo EXCEPT ![c] = l]
    BY <1>2 DEF SavePage
  <2> QED  BY <1>2, <2>1 DEF SavePage, Request, TypeOK, Kept
<1>3. CASE Switch(c)
  <2>1. PICK l : todo' = [todo EXCEPT ![c] = l]
    BY <1>3 DEF Switch
  <2> QED  BY <1>3, <2>1 DEF Switch, Request, TypeOK, Kept
<1>4. CASE Capture(c)
  <2>1. PICK l : snap' = [snap EXCEPT ![c] = l]
    BY <1>4 DEF Capture
  <2> QED  BY <1>4, <2>1 DEF Capture, TypeOK, Kept, history
<1>5. CASE SwitchDone(c)
  BY <1>5 DEF SwitchDone, TypeOK, Kept
<1>6. CASE RollBack(c)
  BY <1>6 DEF RollBack, TypeOK, Kept, history
<1>7. CASE CommandSet(c)
  <2>1. PICK l : todo' = [todo EXCEPT ![c] = l]
    BY <1>7 DEF CommandSet
  <2> QED  BY <1>7, <2>1 DEF CommandSet, Request, TypeOK, Kept
<1>8. CASE CommandReset(c)
  BY <1>8 DEF CommandReset, Request, TypeOK, Kept
<1>9. CASE GetSetting(c)
  BY <1>9 DEF GetSetting, TypeOK, Kept, history
<1>10. CASE PutSetting(c)
  BY <1>10 DEF PutSetting, TypeOK, Kept
<1>11. CASE SaveFails(c)
  BY <1>11 DEF SaveFails, TypeOK, Kept
<1> QED
  BY <1>1, <1>2, <1>3, <1>4, <1>5, <1>6, <1>7, <1>8, <1>9, <1>10, <1>11 DEF Step

LEMMA KeptWork ==
  ASSUME NEW d \in Clients, Kept(d), Work(d)
  PROVE  Work(d)'
BY DEF Kept, Work, Ordered, Placed, Paired, Holds, Left

LEMMA KeptLooked ==
  ASSUME NEW d \in Clients, Looked(d), rows' = rows, raced' = raced, missed'[d] = missed[d],
         pc'[d] = pc[d], found'[d] = found[d], todo'[d] = todo[d]
  PROVE  Looked(d)'
<1>1. Head(todo[d])' = Head(todo[d])
  OBVIOUS
<1>2. RowsOf(rows, Head(todo[d]).key)' = RowsOf(rows, Head(todo[d]).key)
  BY <1>1 DEF RowsOf
<1> QED  BY <1>1, <1>2 DEF Looked, Finds

LEMMA SameTable ==
  ASSUME rows' = rows, NEW k
  PROVE  Get(k)' = Get(k) /\ First(k)' = First(k)
<1>1. Get(k)' = Get(k)
  BY GetIs
<1> QED  BY <1>1 DEF First, RowsOf

LEMMA KeptKnows ==
  ASSUME NEW d \in Clients, Kept(d), Knows(d), rows' = rows, raced' = raced, alone'[d] => alone[d]
  PROVE  Knows(d)'
<1>1. \A k : Get(k)' = Get(k)
  BY SameTable
<1>2. First(Head(todo[d]).key)' = First(Head(todo[d]).key)
  <2>1. Head(todo[d])' = Head(todo[d])
    BY DEF Kept
  <2> QED  BY <2>1 DEF First, RowsOf
<1> QED  BY <1>1, <1>2 DEF Kept, Knows, Half, Busy, Left

LEMMA NotAlone ==
  ASSUME NEW d \in Clients, ~alone'[d]
  PROVE  Knows(d)'
BY DEF Knows

\* A list whose first setting is done.
Popped(c) ==
    /\ Left(c)' = Left(c) - 1
    /\ Left(c) = 2 => todo'[c][1] = todo[c][2]
    /\ Left(c) = 3 => todo'[c][1] = todo[c][2] /\ todo'[c][2] = todo[c][3]
    /\ todo'[c] = <<>> <=> Left(c) = 1

LEMMA TailPops ==
  ASSUME TypeOK, NEW c \in Clients, todo[c] # <<>>, todo'[c] = Tail(todo[c])
  PROVE  Popped(c)
<1>1. Left(c)' = Left(c) - 1 /\ Left(c) \in Nat
  BY HeadAndTail DEF Left
<1>2. Left(c) = 2 => todo'[c][1] = todo[c][2]
  BY HeadAndTail DEF Left
<1>3. Left(c) = 3 => todo'[c][1] = todo[c][2] /\ todo'[c][2] = todo[c][3]
  BY HeadAndTail DEF Left
<1>4. todo'[c] = <<>> <=> Left(c)' = 0
  <2>1. todo'[c] \in Seq(Entry)
    BY HeadAndTail
  <2> QED  BY <2>1, EmptySeq DEF Left
<1>5. todo'[c] = <<>> <=> Left(c) = 1
  BY <1>1, <1>4
<1> QED  BY <1>1, <1>2, <1>3, <1>5 DEF Popped

LEMMA LeftRange ==
  ASSUME TypeOK, NEW c \in Clients, todo[c] # <<>>, Ordered(c)
  PROVE  Left(c) = 1 \/ Left(c) = 2 \/ Left(c) = 3
<1>1. Left(c) \in Nat /\ Left(c) > 0
  BY HeadAndTail DEF Left
<1>2. Left(c) <= 3
  BY DEF Ordered
<1> QED  BY <1>1, <1>2

LEMMA Shorter ==
  ASSUME NEW c \in Clients, Left(c) = 1 \/ Left(c) = 2 \/ Left(c) = 3,
         Ordered(c), Placed(c), Paired(c), Popped(c), kind'[c] = kind[c],
         Left(c) # 1 => snap'[c] = snap[c]
  PROVE  Ordered(c)' /\ Paired(c)'
<1>1. CASE Left(c) = 1
  <2>1. Left(c)' = 0
    BY <1>1 DEF Popped
  <2> QED  BY <2>1 DEF Ordered, Paired
<1>2. CASE Left(c) = 2
  <2>1. Left(c)' = 1 /\ todo'[c][1] = todo[c][2]
    BY <1>2 DEF Popped
  <2> QED  BY <1>2, <2>1 DEF Ordered, Paired
<1>3. CASE Left(c) = 3
  <2>1. Left(c)' = 2 /\ todo'[c][1] = todo[c][2] /\ todo'[c][2] = todo[c][3]
    BY <1>3 DEF Popped
  <2>2. kind[c] \notin {"cli", "undo", "switch"}
    BY <1>3 DEF Ordered, Placed
  <2> QED  BY <1>3, <2>1, <2>2 DEF Ordered, Paired
<1> QED  BY <1>1, <1>2, <1>3

\* The lists requests begin with.
LEMMA PairIs ==
  ASSUME NEW u, NEW v
  PROVE  /\ Len(Pair(u, v)) = 2 /\ Pair(u, v) # <<>>
         /\ Pair(u, v)[1].key = "webCertFile" /\ Pair(u, v)[2].key = "webKeyFile"
         /\ Pair(u, v)[1].value = u /\ Pair(u, v)[2].value = v
         /\ \A m \in 1..2 : ~Pair(u, v)[m].carried
BY DEF Pair

LEMMA RequestIs ==
  ASSUME TypeOK, NEW c \in Clients, NEW as, NEW at, Request(c, as, at)
  PROVE  pc[c] = "idle" /\ pc'[c] = at /\ kind'[c] = as /\ whole'[c] = TRUE
BY DEF Request, TypeOK

LEMMA OwnWork ==
  ASSUME TypeOK, NEW c \in Clients, Work(c), Step(c)
  PROVE  Work(c)'
<1> USE DEF Work
<1>1. CASE LoadPage(c)
  BY <1>1 DEF LoadPage, TypeOK, Ordered, Placed, Paired, Holds, Left
<1>2. CASE SavePage(c)
  <2>1. pc[c] = "idle" /\ pc'[c] = "get" /\ kind'[c] = "page" /\ snap'[c] = snap[c] /\ form'[c] = None
    BY <1>2, RequestIs DEF SavePage, TypeOK
  <2>2. PICK f \in Edits(form[c]) :
          /\ f["webCertFile"] = f["webKeyFile"]
          /\ todo' = [todo EXCEPT ![c] = Saves(f, {k \in Keys : f[k] # form[c][k]})]
    BY <1>2 DEF SavePage
  <2>3. f \in Contents
    BY <1>2, EditsTyped DEF SavePage, TypeOK
  <2> DEFINE E == {k \in Keys : f[k] # form[c][k]}
  <2>4. todo'[c] = Saves(f, E)
    BY <2>2 DEF TypeOK
  <2>5. /\ Left(c)' = 3 /\ todo'[c] # <<>>
        /\ todo'[c][1].key = "webPort" /\ todo'[c][2].key = "webCertFile"
        /\ todo'[c][3].key = "webKeyFile" /\ todo'[c][2].value = todo'[c][3].value
    <3> HIDE DEF E
    <3> QED  BY <2>2, <2>3, <2>4, SavesTyped DEF Left
  <2>6. Ordered(c)' /\ Paired(c)'
    BY <2>1, <2>5 DEF Ordered, Paired
  <2>7. Placed(c)' /\ Holds(c)'
    BY <2>1, <2>5 DEF Placed, Holds
  <2> QED  BY <2>6, <2>7
<1>3. CASE Switch(c)
  <2>1. /\ pc'[c] = "capture" /\ kind'[c] = "switch" /\ whole'[c] = TRUE /\ form'[c] = None
        /\ snap'[c] = <<>>
    BY <1>3, RequestIs DEF Switch, TypeOK
  <2>2. PICK q : todo' = [todo EXCEPT ![c] = Pair(q, q)]
    BY <1>3 DEF Switch
  <2>3. todo'[c] = Pair(q, q)
    BY <2>2 DEF TypeOK
  <2>4. Left(c)' = 2 /\ todo'[c] # <<>>
    BY <2>3, PairIs DEF Left
  <2>5. Ordered(c)' /\ Paired(c)'
    BY <2>1, <2>3, <2>4, PairIs DEF Ordered, Paired
  <2>6. Placed(c)' /\ Holds(c)'
    BY <2>1, <2>4, EmptyCapture DEF Placed, Holds
  <2> QED  BY <2>5, <2>6
<1>4. CASE Capture(c)
  <2>1. /\ pc[c] = "capture" /\ kind[c] = "switch" /\ kind'[c] = kind[c] /\ todo'[c] = todo[c]
        /\ form'[c] = form[c] /\ whole'[c] = whole[c]
    BY <1>4 DEF Capture, Placed, history
  <2>2. Ordered(c)' /\ Paired(c)'
    BY <2>1 DEF Ordered, Paired, Left
  <2>3. CASE "webCertFile" \in DOMAIN snap[c]
    <3>1. DOMAIN snap[c] = {"webCertFile"}
      BY <2>1, <2>3 DEF Holds
    <3>2. DOMAIN snap'[c] = PairKeys /\ pc'[c] = "get"
      BY <1>4, <2>3, <3>1 DEF Capture, TypeOK, PairKeys
    <3> QED  BY <2>1, <2>2, <3>2 DEF Placed, Holds, Left
  <2>4. CASE "webCertFile" \notin DOMAIN snap[c]
    <3>1. DOMAIN snap[c] = {}
      BY <2>1, <2>4 DEF Holds
    <3>2. DOMAIN snap'[c] = {"webCertFile"} /\ pc'[c] = "capture"
      BY <1>4, <2>4, <3>1 DEF Capture, TypeOK
    <3> QED  BY <2>1, <2>2, <3>2 DEF Placed, Holds, Left
  <2> QED  BY <2>3, <2>4
<1>5. CASE SwitchDone(c)
  <2>1. /\ pc[c] = "wait" /\ pc'[c] = "idle" /\ kind[c] = "switch" /\ kind'[c] = kind[c]
        /\ todo'[c] = todo[c] /\ todo[c] = <<>> /\ snap'[c] = <<>>
    BY <1>5 DEF SwitchDone, TypeOK, Placed
  <2>2. Left(c)' = 0
    BY <2>1, EmptySeq DEF Left
  <2>3. Ordered(c)' /\ Paired(c)'
    BY <2>2 DEF Ordered, Paired
  <2>4. Placed(c)' /\ Holds(c)'
    BY <2>1, <2>2, EmptyCapture DEF Placed, Holds
  <2> QED  BY <2>3, <2>4
<1>6. CASE RollBack(c)
  <2>1. /\ pc[c] = "wait" /\ pc'[c] = "get" /\ kind'[c] = "undo" /\ snap'[c] = snap[c]
        /\ form'[c] = form[c] /\ form[c] = None /\ DOMAIN snap[c] = PairKeys
    BY <1>6 DEF RollBack, TypeOK, Placed, Holds
  <2>2. todo'[c] = Pair(snap[c]["webCertFile"], snap[c]["webKeyFile"])
    BY <1>6 DEF RollBack, TypeOK, Restore
  <2>3. Left(c)' = 2 /\ todo'[c] # <<>>
    BY <2>2, PairIs DEF Left
  <2>4. Ordered(c)' /\ Paired(c)'
    BY <2>1, <2>2, <2>3, PairIs DEF Ordered, Paired
  <2>5. Placed(c)' /\ Holds(c)'
    BY <2>1, <2>3 DEF Placed, Holds
  <2> QED  BY <2>4, <2>5
<1>7. CASE CommandSet(c)
  <2>1. /\ pc[c] = "idle" /\ pc'[c] = "get" /\ kind'[c] = "cli" /\ snap'[c] = snap[c]
        /\ form'[c] = None
    BY <1>7, RequestIs DEF CommandSet, TypeOK
  <2>2. PICK o : todo' =
          [todo EXCEPT ![c] = <<[key |-> "webPort", value |-> o, carried |-> FALSE]>>]
    BY <1>7 DEF CommandSet
  <2>3. todo'[c] = <<[key |-> "webPort", value |-> o, carried |-> FALSE]>>
    BY <2>2 DEF TypeOK
  <2>4. /\ Left(c)' = 1 /\ todo'[c] # <<>>
        /\ todo'[c][1].key = "webPort" /\ todo'[c][1].carried = FALSE
    BY <2>3 DEF Left
  <2>5. Ordered(c)' /\ Paired(c)'
    BY <2>1, <2>4 DEF Ordered, Paired
  <2>6. Placed(c)' /\ Holds(c)'
    BY <2>1, <2>4 DEF Placed, Holds
  <2> QED  BY <2>5, <2>6
<1>8. CASE CommandReset(c)
  <2>1. /\ pc[c] = "idle" /\ pc'[c] = "idle" /\ kind'[c] = "cli" /\ snap'[c] = snap[c]
        /\ form'[c] = None /\ todo'[c] = todo[c] /\ todo[c] = <<>>
    BY <1>8, RequestIs DEF CommandReset, TypeOK, Placed
  <2>2. Left(c)' = 0
    BY <2>1, EmptySeq DEF Left
  <2>3. Ordered(c)' /\ Paired(c)'
    BY <2>2 DEF Ordered, Paired
  <2>4. Placed(c)' /\ Holds(c)'
    BY <2>1, <2>2 DEF Placed, Holds
  <2> QED  BY <2>3, <2>4
<1>9. CASE GetSetting(c)
  <2>1. /\ pc[c] = "get" /\ pc'[c] = "put" /\ kind'[c] = kind[c] /\ snap'[c] = snap[c]
        /\ form'[c] = form[c] /\ todo'[c] = todo[c] /\ whole'[c] = whole[c]
    BY <1>9 DEF GetSetting, TypeOK, history
  <2> QED  BY <2>1 DEF Ordered, Placed, Paired, Holds, Left
<1>10. CASE PutSetting(c)
  <2>1. /\ pc[c] = "put" /\ kind'[c] = kind[c] /\ form'[c] = form[c] /\ whole'[c] = whole[c]
        /\ todo'[c] = Tail(todo[c]) /\ todo[c] # <<>> /\ form[c] = None
        /\ pc'[c] = After(c) /\ snap'[c] = IF After(c) = "idle" THEN <<>> ELSE snap[c]
    BY <1>10 DEF PutSetting, TypeOK, Placed
  <2>2. Popped(c) /\ (Left(c) = 1 \/ Left(c) = 2 \/ Left(c) = 3)
    BY <2>1, TailPops, LeftRange
  <2>3. Left(c) # 1 => Len(todo[c]) > 1
    BY <2>2 DEF Left
  <2>4. Left(c) = 1 => ~(Len(todo[c]) > 1)
    BY DEF Left
  <2>5. CASE Left(c) # 1
    <3>1. pc'[c] = "get" /\ snap'[c] = snap[c] /\ todo'[c] # <<>>
      <4>1. After(c) = "get"
        BY <2>3, <2>5 DEF After
      <4>2. todo'[c] # <<>>
        BY <2>2, <2>5 DEF Popped
      <4> QED  BY <2>1, <4>1, <4>2
    <3>2. kind[c] # "page" => Left(c)' <= 2
      BY <2>2 DEF Placed, Popped
    <3>3. Placed(c)' /\ Holds(c)'
      BY <2>1, <3>1, <3>2 DEF Placed, Holds
    <3>4. Ordered(c)' /\ Paired(c)'
      BY <2>1, <2>2, <3>1, Shorter
    <3> QED  BY <3>3, <3>4
  <2>6. CASE Left(c) = 1
    <3>1. /\ todo'[c] = <<>> /\ Left(c)' = 0
          /\ pc'[c] = IF kind[c] = "switch" THEN "wait" ELSE "idle"
          /\ snap'[c] = IF kind[c] = "switch" THEN snap[c] ELSE <<>>
      BY <2>1, <2>2, <2>4, <2>6 DEF After, Popped
    <3>2. kind[c] = "switch" => whole[c]
      BY <2>1 DEF Placed
    <3>2a. Placed(c)'
      <4>1. pc'[c] \in {"idle", "wait"} /\ (pc'[c] = "wait" => kind'[c] = "switch")
        BY <2>1, <3>1
      <4>2. Left(c)' <= 2
        BY <3>1
      <4> QED  BY <2>1, <3>1, <3>2, <4>1, <4>2 DEF Placed
    <3>3. Holds(c)'
      BY <2>1, <3>1, EmptyCapture DEF Holds
    <3>4. Ordered(c)' /\ Paired(c)'
      BY <2>1, <2>2, <2>6, Shorter
    <3> QED  BY <3>2a, <3>3, <3>4
  <2> QED  BY <2>5, <2>6
<1>11. CASE SaveFails(c)
  <2> DEFINE on == kind[c] \in {"page", "undo"} /\ Len(todo[c]) > 1
  <2>1. /\ pc[c] \in {"get", "put"} /\ kind'[c] = kind[c] /\ form'[c] = form[c]
        /\ todo[c] # <<>> /\ form[c] = None
        /\ todo'[c] = IF on THEN Tail(todo[c]) ELSE <<>>
        /\ pc'[c] = IF on THEN "get" ELSE "idle"
        /\ snap'[c] = IF on THEN snap[c] ELSE <<>>
    BY <1>11 DEF SaveFails, TypeOK, Placed
  <2>2. on => kind[c] \in {"page", "undo"} /\ Left(c) > 1
    BY DEF Left
  <2> HIDE DEF on
  <2>3. CASE on
    <3>1. Popped(c) /\ (Left(c) = 1 \/ Left(c) = 2 \/ Left(c) = 3)
      BY <2>1, <2>3, TailPops, LeftRange
    <3>2. Left(c) # 1 /\ kind[c] \in {"page", "undo"}
      BY <2>2, <2>3, <3>1
    <3>3. Ordered(c)' /\ Paired(c)'
      BY <2>1, <2>3, <3>1, Shorter
    <3>4. todo'[c] # <<>> /\ (kind[c] # "page" => Left(c)' <= 2)
      BY <3>1, <3>2 DEF Placed, Popped
    <3>5. Placed(c)' /\ Holds(c)'
      BY <2>1, <2>3, <3>2, <3>4 DEF Placed, Holds
    <3> QED  BY <3>3, <3>5
  <2>4. CASE ~on
    <3>1. Left(c)' = 0
      BY <2>1, <2>4, EmptySeq DEF Left
    <3>2. Ordered(c)' /\ Paired(c)'
      BY <3>1 DEF Ordered, Paired
    <3>3. Placed(c)' /\ Holds(c)'
      BY <2>1, <2>4, <3>1, EmptyCapture DEF Placed, Holds
    <3> QED  BY <3>2, <3>3
  <2> QED  BY <2>3, <2>4
<1> QED
  BY <1>1, <1>2, <1>3, <1>4, <1>5, <1>6, <1>7, <1>8, <1>9, <1>10, <1>11 DEF Step

-----------------------------------------------------------------------------
(* What a save does to the table.                                           *)

Due(c) == todo[c][1]

LEMMA PutIs ==
  ASSUME TypeOK, NEW c \in Clients, Work(c), PutSetting(c)
  PROVE  /\ Due(c) \in Entry /\ Due(c) = Head(todo[c]) /\ Target(c) \in Ids /\ rows \in Table
         /\ rows' = With(rows, Target(c), Due(c).key, Due(c).value)
         /\ \A l \in Keys \ {Due(c).key} :
              Target(c) \in RowsOf(rows, l) => Takes(c) /\ rows[found[c]].key = l
<1>1. todo[c] # <<>> /\ pc[c] = "put"
  BY DEF PutSetting, Work, Placed
<1>2. Due(c) \in Entry /\ Due(c) = Head(todo[c])
  BY <1>1, HeadAndTail DEF Due
<1>3. Target(c) \in Ids
  BY DEF PutSetting, Target, TypeOK
<1>4. rows' = With(rows, Target(c), Due(c).key, Due(c).value)
  BY <1>2 DEF PutSetting, Saved, With, Target
<1>5. ASSUME NEW l \in Keys \ {Due(c).key}, Target(c) \in RowsOf(rows, l)
      PROVE  Takes(c) /\ rows[found[c]].key = l
  <2>1. rows[Target(c)] # None /\ rows[Target(c)].key = l
    BY <1>5 DEF RowsOf
  <2>2. found[c] # 0
    BY <1>3, <2>1, NextIdRange DEF Target
  <2>3. Target(c) = found[c]
    BY <2>2 DEF Target
  <2> QED  BY <1>2, <1>5, <2>1, <2>2, <2>3 DEF Takes
<1> QED  BY <1>2, <1>3, <1>4, <1>5 DEF TypeOK, Table

\* A key whose row is not taken keeps its value.
LEMMA PutKeeps ==
  ASSUME TypeOK, NEW c \in Clients, Work(c), PutSetting(c),
         NEW l \in Keys, l # Due(c).key, ~(Takes(c) /\ rows[found[c]].key = l)
  PROVE  Get(l)' = Get(l)
<1>1. Target(c) \notin RowsOf(rows, l)
  BY PutIs
<1>2. Due(c).key \in Keys /\ Due(c).value \in Values
  BY PutIs DEF Entry
<1>3. ValueOf(rows', l) = ValueOf(rows, l)
  BY <1>1, <1>2, PutIs, KeptValue
<1> QED  BY <1>3, GetIs

\* A client alone writes the row of the key, and nothing else changes.
LEMMA PutAlone ==
  ASSUME TypeOK, NEW c \in Clients, Work(c), Knows(c), alone[c], PutSetting(c)
  PROVE  /\ ~Takes(c)
         /\ \A l \in Keys : Get(l)' = IF l = Due(c).key THEN Due(c).value ELSE Get(l)
<1>1. found[c] = FirstOf(rows, Due(c).key)
  BY PutIs, GetIs DEF Knows, PutSetting
<1>2. Due(c).key \in Keys /\ Due(c).value \in Values
  BY PutIs DEF Entry
<1>3. RowsOf(rows, Due(c).key) # {} => found[c] \in RowsOf(rows, Due(c).key) /\ found[c] # 0
  BY <1>1, FirstIsRow
<1>4. RowsOf(rows, Due(c).key) = {} => found[c] = 0
  BY <1>1 DEF FirstOf
<1>5. ~Takes(c)
  BY <1>3, <1>4, PutIs DEF Takes, RowsOf
<1>6. RowsOf(rows, Due(c).key) # {} => Target(c) = FirstOf(rows, Due(c).key)
  BY <1>1, <1>3 DEF Target
<1>7. ValueOf(rows', Due(c).key) = Due(c).value
  BY <1>2, <1>6, PutIs, NewValue
<1>8. ASSUME NEW l \in Keys PROVE Get(l)' = IF l = Due(c).key THEN Due(c).value ELSE Get(l)
  <2>1. CASE l = Due(c).key
    <3>1. Get(l)' = ValueOf(rows', l)
      BY GetIs
    <3> QED  BY <1>7, <2>1, <3>1
  <2>2. CASE l # Due(c).key
    BY <1>5, <2>2, PutKeeps
  <2> QED  BY <2>1, <2>2
<1> QED  BY <1>5, <1>8

\* A save that has not been missed adds no row to the one its key may have, and takes none
\* from another key.
LEMMA PutFinds ==
  ASSUME TypeOK, NEW c \in Clients, Work(c), Looked(c), PutSetting(c), ~raced'
  PROVE  ~raced /\ ~Takes(c) /\ RowsOf(rows', Due(c).key) = {Target(c)}
<1>1. ~raced /\ ~missed[c] /\ pc[c] = "put"
  BY DEF PutSetting
<1>2. /\ RowsOf(rows, Due(c).key) \subseteq {found[c]}
      /\ found[c] # 0 => rows[found[c]] = None \/ rows[found[c]].key = Due(c).key
  BY <1>1, PutIs DEF Looked, Finds
<1>3. ~Takes(c)
  BY <1>2, PutIs DEF Takes
<1>4. RowsOf(rows, Due(c).key) \subseteq {Target(c)}
  <2>1. 0 \notin RowsOf(rows, Due(c).key)
    BY BoundAssumption DEF RowsOf, Ids
  <2> QED  BY <1>2, <2>1 DEF Target
<1>5. RowsOf(rows', Due(c).key) = RowsOf(rows, Due(c).key) \cup {Target(c)}
  BY PutIs, RowsWith DEF Entry
<1> QED  BY <1>1, <1>3, <1>4, <1>5

\* Without a race a save gives the key its value, and nothing else changes.
LEMMA PutUnraced ==
  ASSUME TypeOK, NEW c \in Clients, Work(c), Looked(c), PutSetting(c), ~raced'
  PROVE  \A l \in Keys : Get(l)' = IF l = Due(c).key THEN Due(c).value ELSE Get(l)
<1>1. ~Takes(c) /\ \A j \in RowsOf(rows', Due(c).key) : j = Target(c)
  BY PutFinds
<1>2. Due(c).key \in Keys /\ Due(c).value \in Values
  BY PutIs DEF Entry
<1>3. ValueOf(rows', Due(c).key) = Due(c).value
  BY <1>1, <1>2, PutIs, SoleValue
<1>4. ASSUME NEW l \in Keys PROVE Get(l)' = IF l = Due(c).key THEN Due(c).value ELSE Get(l)
  <2>1. CASE l = Due(c).key
    <3>1. Get(l)' = ValueOf(rows', l)
      BY GetIs
    <3> QED  BY <1>3, <2>1, <3>1
  <2>2. CASE l # Due(c).key
    BY <1>1, <2>2, PutKeeps
  <2> QED  BY <2>1, <2>2
<1> QED  BY <1>4

LEMMA PutSingle ==
  ASSUME TypeOK, NEW c \in Clients, Work(c), Looked(c), PutSetting(c), Unique
  PROVE  Unique'
<1> SUFFICES ASSUME ~raced' PROVE Single(rows)'
  BY DEF Unique
<1>1. Single(rows) /\ \A j \in RowsOf(rows', Due(c).key) : j = Target(c)
  BY PutFinds DEF Unique
<1>2. Due(c).key \in Keys /\ Due(c).value \in Values
  BY PutIs DEF Entry
<1>3. ASSUME NEW k \in Keys, NEW i \in RowsOf(rows', k), NEW j \in RowsOf(rows', k) PROVE i = j
  <2>1. CASE k = Due(c).key
    BY <1>1, <1>3, <2>1
  <2>2. CASE k # Due(c).key
    <3>1. RowsOf(rows', k) = RowsOf(rows, k) \ {Target(c)}
      BY <1>2, <2>2, PutIs, RowsWith
    <3>2. i \in RowsOf(rows, k) /\ j \in RowsOf(rows, k)
      BY <1>3, <3>1
    <3> QED  BY <1>1, <3>2 DEF Single
  <2> QED  BY <2>1, <2>2
<1> QED  BY <1>3 DEF Single

\* A save of c leaves what d has found as it was, or d has missed a row.
LEMMA PutLeaves ==
  ASSUME TypeOK, NEW c \in Clients, Work(c), Looked(c), PutSetting(c), ~raced',
         NEW d \in Clients \ {c}, Work(d), pc[d] = "put", Finds(d), ~missed'[d],
         todo'[d] = todo[d], found'[d] = found[d]
  PROVE  Finds(d)'
<1> DEFINE k == Due(c).key
           l == Head(todo[d]).key
<1>1. /\ k \in Keys /\ Due(c).value \in Values /\ Target(c) \in Ids /\ rows \in Table
      /\ rows' = With(rows, Target(c), k, Due(c).value) /\ k = Head(todo[c]).key
  BY PutIs DEF Entry
<1>2. l \in Keys /\ found[d] \in Ids \cup {0}
  <2>1. todo[d] # <<>>
    BY DEF Work, Placed
  <2> QED  BY <2>1, HeadAndTail DEF Entry, TypeOK
<1>3. l = Head(todo'[d]).key
  OBVIOUS
<1>4. RowsOf(rows, l) \subseteq {found[d]}
      /\ (found[d] # 0 => rows[found[d]] = None \/ rows[found[d]].key = l)
  BY DEF Finds
<1>5. /\ RowsOf(rows', k) = RowsOf(rows, k) \cup {Target(c)}
      /\ k # l => RowsOf(rows', l) = RowsOf(rows, l) \ {Target(c)}
      /\ \A j \in Ids \ {Target(c)} : rows'[j] = rows[j]
  <2> HIDE DEF k, l
  <2> QED  BY <1>1, <1>2, RowsWith
<1>6. rows'[Target(c)].key = k
  <2> HIDE DEF k
  <2> QED  BY <1>1 DEF With, Table
<1>7. k = l <=> Target(c) = found[d]
  <2>1. CASE rows[Target(c)] = None
    <3>1. ~Misses(d, c)
      BY DEF PutSetting
    <3> QED  BY <1>1, <2>1, <3>1 DEF Misses
  <2>2. CASE rows[Target(c)] # None
    <3>1. found[c] # 0 /\ Target(c) = found[c]
      BY <1>1, <2>2, NextIdRange DEF Target
    <3>2. rows[Target(c)].key = k
      BY <1>1, <2>2, <3>1, PutFinds DEF Takes
    <3>3. Target(c) \in RowsOf(rows, k)
      BY <1>1, <2>2, <3>2 DEF RowsOf
    <3>4. Target(c) # 0
      BY <1>1, BoundAssumption DEF Ids
    <3> HIDE DEF k, l
    <3> QED  BY <1>4, <2>2, <3>2, <3>3, <3>4
  <2> QED  BY <2>1, <2>2
<1>8. RowsOf(rows', l) \subseteq {found[d]}
  <2> HIDE DEF k, l
  <2> QED  BY <1>4, <1>5, <1>7
<1>9. found[d] # 0 => rows'[found[d]] = None \/ rows'[found[d]].key = l
  <2> HIDE DEF k, l
  <2> QED  BY <1>2, <1>4, <1>5, <1>6, <1>7
<1> QED  BY <1>3, <1>8, <1>9 DEF Finds, RowsOf

LEMMA ShownIsGet ==
  ASSUME TypeOK, Single(rows), NEW k \in Keys
  PROVE  Shown(k) = Get(k)
<1>1. CASE RowsOf(rows, k) = {}
  BY <1>1, GetIs DEF Shown, ValueOf, FirstOf
<1>2. CASE RowsOf(rows, k) # {}
  <2>1. RowsOf(rows, k) \in SUBSET (0..MaxId) /\ MaxId \in Nat
    BY BoundAssumption DEF RowsOf, Ids
  <2>2. Max(RowsOf(rows, k)) \in RowsOf(rows, k)
    BY <1>2, <2>1, GreatestOf
  <2>3. FirstOf(rows, k) \in RowsOf(rows, k) /\ FirstOf(rows, k) # 0
    BY <1>2, FirstIsRow
  <2>4. Max(RowsOf(rows, k)) = FirstOf(rows, k)
    BY <2>2, <2>3 DEF Single
  <2>5. Get(k) = rows[FirstOf(rows, k)].value
    BY <2>3, GetIs DEF ValueOf
  <2> QED  BY <1>2, <2>4, <2>5 DEF Shown
<1> QED  BY <1>1, <1>2

\* An empty table.
LEMMA NoRows ==
  ASSUME NEW t, \A i \in Ids : t[i] = None
  PROVE  Single(t) /\ \A k : ValueOf(t, k) = Default[k]
<1>1. \A k : RowsOf(t, k) = {}
  BY DEF RowsOf
<1>2. \A k : FirstOf(t, k) = 0
  BY <1>1 DEF FirstOf
<1> QED  BY <1>1, <1>2 DEF ValueOf, Single

-----------------------------------------------------------------------------
(* What the client that takes a step knows then.                            *)

LEMMA Entries ==
  ASSUME TypeOK, NEW c \in Clients
  PROVE  Left(c) \in Nat /\ \A m \in 1..Left(c) : todo[c][m] \in Entry
<1>1. todo[c] \in Seq(Entry)
  BY DEF TypeOK, Entry
<1> QED  BY <1>1, LenProperties, ElementOfSeq DEF Left

\* What remains has other keys than what was first.
LEMMA Remaining ==
  ASSUME TypeOK, NEW c \in Clients, Work(c), todo[c] # <<>>, Popped(c)
  PROVE  \A m \in 1..Left(c)' : \E q \in 1..Left(c) :
           todo'[c][m] = todo[c][q] /\ todo[c][q].key # Due(c).key
<1>1. Left(c) = 1 \/ Left(c) = 2 \/ Left(c) = 3
  BY LeftRange DEF Work
<1>2. CASE Left(c) = 1
  <2>1. Left(c)' = 0
    BY <1>2 DEF Popped
  <2> QED  BY <2>1
<1>3. CASE Left(c) = 2
  <2>1. Left(c)' = 1 /\ todo'[c][1] = todo[c][2]
    BY <1>3 DEF Popped
  <2>2. todo[c][2].key # Due(c).key
    BY <1>3 DEF Work, Ordered, Due
  <2>3. 2 \in 1..Left(c) /\ 1..Left(c)' = {1}
    BY <1>3, <2>1
  <2> QED  BY <2>1, <2>2, <2>3
<1>4. CASE Left(c) = 3
  <2>1. Left(c)' = 2 /\ todo'[c][1] = todo[c][2] /\ todo'[c][2] = todo[c][3]
    BY <1>4 DEF Popped
  <2>2. todo[c][2].key # Due(c).key /\ todo[c][3].key # Due(c).key
    BY <1>4 DEF Work, Ordered, Due
  <2>3. 2 \in 1..Left(c) /\ 3 \in 1..Left(c) /\ 1..Left(c)' = {1, 2}
    BY <1>4, <2>1
  <2> QED  BY <2>1, <2>2, <2>3
<1> QED  BY <1>1, <1>2, <1>3, <1>4

\* A client with nothing to do knows its page.
LEMMA IdleKnows ==
  ASSUME NEW c \in Clients, pc'[c] = "idle", todo'[c] = <<>>,
         alone'[c] /\ ~raced' /\ form'[c] # None => \A k \in Keys : form'[c][k] = Get(k)'
  PROVE  Knows(c)'
<1>1. Left(c)' = 0 /\ 1..Left(c)' = {}
  BY EmptySeq DEF Left
<1> QED  BY <1>1 DEF Knows, Half, Busy

\* One that has something to save, and has not begun.
LEMMA StartKnows ==
  ASSUME NEW c \in Clients, pc'[c] \in {"get", "capture"}, form'[c] = None,
         alone'[c] /\ ~raced' => \A m \in 1..Left(c)' :
             todo'[c][m].carried => todo'[c][m].value = ValueOf(rows', todo'[c][m].key),
         Left(c)' = 1 => kind'[c] = "cli",
         kind'[c] = "switch" => \A k \in DOMAIN snap'[c] : alone'[c] => snap'[c][k] = Get(k)'
  PROVE  Knows(c)'
<1>1. ~Half(c)'
  BY DEF Half
<1>2. \A m : Get(todo[c][m].key)' = ValueOf(rows', todo'[c][m].key)
  BY DEF Get, First, ValueOf, FirstOf
<1> QED  BY <1>1, <1>2 DEF Knows

\* One that has, and goes on with the next.
LEMMA NextKnows ==
  ASSUME NEW c \in Clients, pc'[c] \notin {"put", "wait"}, form'[c] = None,
         alone'[c] /\ ~raced' => \A m \in 1..Left(c)' :
             todo'[c][m].carried => todo'[c][m].value = ValueOf(rows', todo'[c][m].key),
         Half(c)' /\ whole'[c] =>
             Get("webCertFile")' = IF kind'[c] = "undo" THEN snap'[c]["webCertFile"]
                                   ELSE todo'[c][1].value,
         Left(c)' = 2 => kind'[c] # "switch"
  PROVE  Knows(c)'
<1>1. \A m : Get(todo[c][m].key)' = ValueOf(rows', todo'[c][m].key)
  BY DEF Get, First, ValueOf, FirstOf
<1> QED  BY <1>1 DEF Knows

LEMMA OwnKnowsRequest ==
  ASSUME TypeOK, NEW c \in Clients, Unique, Work(c), Knows(c),
         LoadPage(c) \/ SavePage(c) \/ Switch(c) \/ CommandSet(c) \/ CommandReset(c)
  PROVE  Knows(c)'
<1>1. CASE LoadPage(c)
  <2>1. /\ pc'[c] = "idle" /\ todo'[c] = <<>> /\ rows' = rows /\ raced' = raced
        /\ form'[c] = [k \in Keys |-> Shown(k)]
    BY <1>1 DEF LoadPage, TypeOK, Work, Placed
  <2>2. ~raced' => \A k \in Keys : Shown(k) = Get(k)
    BY <2>1, ShownIsGet DEF Unique
  <2>3. ~raced' => \A k \in Keys : form'[c][k] = Get(k)'
    BY <2>1, <2>2, SameTable
  <2> QED  BY <2>1, <2>3, IdleKnows
<1>2. CASE SavePage(c)
  <2>1. /\ pc'[c] = "get" /\ kind'[c] = "page" /\ form'[c] = None /\ form[c] # None
        /\ rows' = rows /\ raced' = raced /\ alone' = alone
    BY <1>2, RequestIs DEF SavePage, TypeOK
  <2>2. PICK f \in Edits(form[c]) :
          todo' = [todo EXCEPT ![c] = Saves(f, {k \in Keys : f[k] # form[c][k]})]
    BY <1>2 DEF SavePage
  <2>3. f \in Contents
    BY <1>2, EditsTyped DEF SavePage, TypeOK
  <2> DEFINE E == {k \in Keys : f[k] # form[c][k]}
  <2>4. todo'[c] = Saves(f, E)
    BY <2>2 DEF TypeOK
  <2>5. Left(c)' = 3
    <3> HIDE DEF E
    <3> QED  BY <2>3, <2>4, SavesTyped DEF Left
  <2>6. \A m \in 1..3 :
          /\ todo'[c][m].key \in Keys /\ todo'[c][m].value = f[todo'[c][m].key]
          /\ todo'[c][m].carried => todo'[c][m].key \notin E
    <3> DEFINE K == <<"webPort", "webCertFile", "webKeyFile">>
    <3>1. \A m \in 1..3 : K[m] \in Keys
      BY DEF Keys, PairKeys
    <3>2. \A m \in 1..3 :
            /\ todo'[c][m].key = K[m] /\ todo'[c][m].value = f[K[m]]
            /\ todo'[c][m].carried = (K[m] \notin E)
      <4> HIDE DEF E
      <4> QED  BY <2>3, <2>4, SavesTyped
    <3> HIDE DEF E, K
    <3> QED  BY <3>1, <3>2
  <2>7. alone'[c] /\ ~raced' => \A m \in 1..Left(c)' :
          todo'[c][m].carried => todo'[c][m].value = ValueOf(rows', todo'[c][m].key)
    <3>1. alone[c] /\ ~raced => \A k \in Keys : form[c][k] = ValueOf(rows, k)
      BY <2>1, GetIs DEF Knows
    <3>2. \A m \in 1..3 : todo'[c][m].carried => todo'[c][m].value = form[c][todo'[c][m].key]
      BY <2>6
    <3> QED  BY <2>1, <2>5, <2>6, <3>1, <3>2
  <2> QED  BY <2>1, <2>5, <2>7, StartKnows
<1>3. CASE Switch(c)
  <2>1. /\ pc'[c] = "capture" /\ form'[c] = None /\ snap'[c] = <<>>
    BY <1>3, RequestIs DEF Switch, TypeOK
  <2>2. PICK q : todo' = [todo EXCEPT ![c] = Pair(q, q)]
    BY <1>3 DEF Switch
  <2>3. todo'[c] = Pair(q, q)
    BY <2>2 DEF TypeOK
  <2>4. Left(c)' = 2 /\ \A m \in 1..2 : ~todo'[c][m].carried
    BY <2>3, PairIs DEF Left
  <2> QED  BY <2>1, <2>4, EmptyCapture, StartKnows
<1>4. CASE CommandSet(c)
  <2>1. pc'[c] = "get" /\ form'[c] = None /\ kind'[c] = "cli"
    BY <1>4, RequestIs DEF CommandSet, TypeOK
  <2>2. PICK o : todo' =
          [todo EXCEPT ![c] = <<[key |-> "webPort", value |-> o, carried |-> FALSE]>>]
    BY <1>4 DEF CommandSet
  <2>3. todo'[c] = <<[key |-> "webPort", value |-> o, carried |-> FALSE]>>
    BY <2>2 DEF TypeOK
  <2>4. Left(c)' = 1 /\ todo'[c][1].carried = FALSE
    BY <2>3 DEF Left
  <2>5. \A m \in 1..Left(c)' : ~todo'[c][m].carried
    BY <2>4
  <2> QED  BY <2>1, <2>5, StartKnows
<1>5. CASE CommandReset(c)
  <2>1. pc'[c] = "idle" /\ form'[c] = None /\ todo'[c] = <<>>
    BY <1>5, RequestIs DEF CommandReset, TypeOK, Work, Placed
  <2> QED  BY <2>1, IdleKnows
<1> QED  BY <1>1, <1>2, <1>3, <1>4, <1>5

LEMMA OwnKnowsSwitch ==
  ASSUME TypeOK, NEW c \in Clients, Work(c), Work(c)', Knows(c),
         Capture(c) \/ SwitchDone(c) \/ RollBack(c) \/ GetSetting(c) \/ SaveFails(c)
  PROVE  Knows(c)'
<1>0. rows' = rows /\ raced' = raced /\ alone' = alone
  BY DEF Capture, SwitchDone, RollBack, GetSetting, SaveFails, history
<1>00. \A k : Get(k)' = Get(k) /\ Get(k)' = ValueOf(rows', k) /\ Get(k) = ValueOf(rows, k)
  BY <1>0, GetIs, SameTable
<1>1. CASE Capture(c)
  <2>1. /\ pc[c] = "capture" /\ pc'[c] \in {"get", "capture"} /\ form'[c] = None
        /\ todo'[c] = todo[c] /\ Left(c) = 2
    BY <1>1 DEF Capture, Work, Placed, TypeOK, history, Left
  <2>2. Left(c)' = 2
    BY <2>1 DEF Left
  <2>3. alone'[c] /\ ~raced' => \A m \in 1..Left(c)' :
          todo'[c][m].carried => todo'[c][m].value = ValueOf(rows', todo'[c][m].key)
    BY <1>0, <1>00, <2>1, <2>2 DEF Knows
  <2>4. \A k \in DOMAIN snap'[c] : alone'[c] => snap'[c][k] = Get(k)'
    <3> DEFINE k0 == IF "webCertFile" \in DOMAIN snap[c] THEN "webKeyFile" ELSE "webCertFile"
    <3>1. snap' = [snap EXCEPT ![c] =
                     [l \in DOMAIN @ \cup {k0} |-> IF l = k0 THEN Get(k0) ELSE @[l]]]
      BY <1>1 DEF Capture
    <3>2. snap'[c] = [l \in DOMAIN snap[c] \cup {k0} |-> IF l = k0 THEN Get(k0) ELSE snap[c][l]]
      <4> HIDE DEF k0
      <4> QED  BY <3>1 DEF TypeOK
    <3>3. kind[c] = "switch"
      BY <2>1 DEF Work, Placed
    <3>4. alone[c] => \A k \in DOMAIN snap[c] : snap[c][k] = Get(k)
      BY <2>1, <3>3 DEF Knows
    <3> HIDE DEF k0
    <3> QED  BY <1>0, <1>00, <3>2, <3>4
  <2> QED  BY <2>1, <2>2, <2>3, <2>4, StartKnows
<1>2. CASE SwitchDone(c)
  <2>1. pc'[c] = "idle" /\ form'[c] = form[c]
    BY <1>2 DEF SwitchDone, TypeOK
  <2>2. todo'[c] = <<>>
    BY <2>1 DEF Work, Placed
  <2>3. alone'[c] /\ ~raced' /\ form'[c] # None => \A k \in Keys : form'[c][k] = Get(k)'
    BY <1>0, <1>00, <2>1 DEF Knows
  <2> QED  BY <2>1, <2>2, <2>3, IdleKnows
<1>3. CASE RollBack(c)
  <2>1. /\ pc'[c] = "get" /\ kind'[c] = "undo" /\ form'[c] = None
        /\ todo'[c] = Pair(snap[c]["webCertFile"], snap[c]["webKeyFile"])
    BY <1>3 DEF RollBack, TypeOK, Restore, Work, Placed
  <2>2. Left(c)' = 2 /\ \A m \in 1..Left(c)' : ~todo'[c][m].carried
    BY <2>1, PairIs DEF Left
  <2> QED  BY <2>1, <2>2, StartKnows
<1>4. CASE GetSetting(c)
  <2>1. /\ pc[c] = "get" /\ pc'[c] = "put" /\ kind'[c] = kind[c] /\ todo'[c] = todo[c]
        /\ form'[c] = form[c] /\ snap'[c] = snap[c] /\ whole'[c] = whole[c]
        /\ found'[c] = First(Head(todo[c]).key)
    BY <1>4 DEF GetSetting, TypeOK, history
  <2>2. Left(c)' = Left(c) /\ Half(c)' = Half(c) /\ Head(todo[c])' = Head(todo[c])
    BY <2>1 DEF Left, Half, Busy
  <2>3. First(Head(todo[c]).key)' = First(Head(todo[c]).key)
    BY <1>0, <2>2 DEF First, RowsOf
  <2>4. \A m : Get(todo[c][m].key)' = Get(todo[c][m].key)
    BY <1>0, <2>1 DEF Get, First, RowsOf
  <2> QED  BY <1>0, <1>00, <2>1, <2>2, <2>3, <2>4 DEF Knows
<1>5. CASE SaveFails(c)
  <2> DEFINE on == kind[c] \in {"page", "undo"} /\ Len(todo[c]) > 1
  <2>1. /\ pc[c] \in {"get", "put"} /\ kind'[c] = kind[c] /\ form'[c] = form[c]
        /\ todo[c] # <<>> /\ form[c] = None
        /\ todo'[c] = IF on THEN Tail(todo[c]) ELSE <<>>
        /\ pc'[c] = IF on THEN "get" ELSE "idle"
        /\ whole'[c] = (whole[c] /\ Head(todo[c]).key \notin PairKeys)
    BY <1>5 DEF SaveFails, TypeOK, Work, Placed
  <2>2. on => kind[c] \in {"page", "undo"}
    OBVIOUS
  <2> HIDE DEF on
  <2>3. CASE on
    <3>1. Popped(c)
      BY <2>1, <2>3, TailPops
    <3>2. ~(Half(c)' /\ whole'[c])
      <4>1. Left(c)' = 1 => Left(c) = 2
        <5>1. Left(c) = 1 \/ Left(c) = 2 \/ Left(c) = 3
          BY <2>1, LeftRange DEF Work
        <5> QED  BY <3>1, <5>1 DEF Popped
      <4>2. Left(c) = 2 => Head(todo[c]).key = "webCertFile"
        <5>1. Head(todo[c]) = todo[c][1]
          BY <2>1, HeadAndTail
        <5> QED  BY <2>2, <2>3, <5>1 DEF Work, Ordered
      <4> QED  BY <2>1, <4>1, <4>2 DEF Half, PairKeys
    <3>3. alone'[c] /\ ~raced' => \A m \in 1..Left(c)' :
            todo'[c][m].carried => todo'[c][m].value = ValueOf(rows', todo'[c][m].key)
      <4>1. ASSUME NEW m \in 1..Left(c)', todo'[c][m].carried, alone[c], ~raced
            PROVE  todo'[c][m].value = ValueOf(rows', todo'[c][m].key)
        <5>1. PICK q \in 1..Left(c) : todo'[c][m] = todo[c][q]
          BY <2>1, <3>1, Remaining
        <5>2. todo[c][q].value = Get(todo[c][q].key)
          BY <4>1, <5>1 DEF Knows
        <5> QED  BY <1>00, <5>1, <5>2
      <4> QED  BY <1>0, <4>1
    <3>5. pc'[c] = "get" /\ form'[c] = None /\ kind'[c] # "switch"
      BY <2>1, <2>2, <2>3
    <3> QED  BY <3>2, <3>3, <3>5, NextKnows
  <2>4. CASE ~on
    BY <2>1, <2>4, IdleKnows
  <2> QED  BY <2>3, <2>4
<1> QED  BY <1>1, <1>2, <1>3, <1>4, <1>5

LEMMA OwnKnowsPut ==
  ASSUME TypeOK, NEW c \in Clients, Work(c), Work(c)', Knows(c), PutSetting(c)
  PROVE  Knows(c)'
<1>1. CASE ~alone[c]
  <2>1. ~alone'[c]
    BY <1>1 DEF PutSetting, Writes
  <2> QED  BY <2>1, NotAlone
<1>2. CASE alone[c]
  <2>1. /\ pc[c] = "put" /\ kind'[c] = kind[c] /\ form'[c] = form[c] /\ whole'[c] = whole[c]
        /\ todo'[c] = Tail(todo[c]) /\ todo[c] # <<>> /\ form[c] = None
        /\ pc'[c] = After(c) /\ snap'[c] = IF After(c) = "idle" THEN <<>> ELSE snap[c]
        /\ ~raced' => ~raced
    BY DEF PutSetting, TypeOK, Work, Placed
  <2>2. Popped(c) /\ (Left(c) = 1 \/ Left(c) = 2 \/ Left(c) = 3)
    BY <2>1, TailPops, LeftRange DEF Work
  <2>3. \A l \in Keys : Get(l)' = IF l = Due(c).key THEN Due(c).value ELSE Get(l)
    BY <1>2, PutAlone
  <2>4. alone'[c] /\ ~raced' => \A m \in 1..Left(c)' :
          todo'[c][m].carried => todo'[c][m].value = ValueOf(rows', todo'[c][m].key)
    <3>1. ASSUME NEW m \in 1..Left(c)', todo'[c][m].carried, ~raced'
          PROVE  todo'[c][m].value = ValueOf(rows', todo'[c][m].key)
      <4>1. PICK q \in 1..Left(c) : todo'[c][m] = todo[c][q] /\ todo[c][q].key # Due(c).key
        BY <2>1, <2>2, Remaining
      <4>2. todo[c][q].key \in Keys
        BY Entries DEF Entry
      <4>3. todo[c][q].value = Get(todo[c][q].key)
        BY <1>2, <2>1, <3>1, <4>1 DEF Knows
      <4>4. \A l \in Keys : l # Due(c).key => ValueOf(rows', l) = Get(l)
        BY <2>3, GetIs
      <4> QED  BY <4>1, <4>2, <4>3, <4>4
    <3> QED  BY <3>1
  <2>5. \A m : Get(todo[c][m].key)' = ValueOf(rows', todo'[c][m].key)
    BY DEF Get, First, ValueOf, FirstOf
  <2>6. pc'[c] # "put"
    BY <2>1 DEF After
  <2>7. CASE Left(c) = 1
    <3>1. Left(c)' = 0
      BY <2>2, <2>7 DEF Popped
    <3>2. pc'[c] = "wait" => Get("webCertFile")' = Get("webKeyFile")'
      <4> SUFFICES ASSUME pc'[c] = "wait" PROVE Get("webCertFile")' = Get("webKeyFile")'
        OBVIOUS
      <4>1. kind[c] = "switch"
        BY <2>1 DEF Work, Placed
      <4>2. Half(c) /\ whole[c]
        BY <2>1, <2>7, <4>1 DEF Half, Busy, Work, Placed
      <4>3. Get("webCertFile") = Due(c).value
        BY <1>2, <4>1, <4>2 DEF Knows, Due
      <4>4. Due(c).key = "webKeyFile"
        BY <2>7, <4>1 DEF Work, Ordered, Due
      <4> QED  BY <2>3, <4>3, <4>4, KeySet
    <3> QED  BY <2>1, <2>4, <2>5, <2>6, <3>1, <3>2 DEF Knows, Half
  <2>8. CASE Left(c) = 2
    <3>1. Left(c)' = 1 /\ todo'[c][1] = todo[c][2]
      BY <2>2, <2>8 DEF Popped
    <3>3. pc'[c] # "wait"
      BY <2>2, <2>8, <3>1 DEF Popped, Work, Placed
    <3>2. Half(c)' => Get("webCertFile")' =
                        IF kind[c] = "undo" THEN snap'[c]["webCertFile"] ELSE todo'[c][1].value
      <4> SUFFICES ASSUME Half(c)'
                   PROVE  Get("webCertFile")' =
                            IF kind[c] = "undo" THEN snap'[c]["webCertFile"] ELSE todo'[c][1].value
        OBVIOUS
      <4>1. kind[c] # "cli" /\ pc'[c] # "idle"
        BY <2>1 DEF Half, Busy
      <4>2. Due(c).key = "webCertFile" /\ snap'[c] = snap[c]
        BY <2>1, <2>8, <4>1 DEF Work, Ordered, Due
      <4>3. Get("webCertFile")' = Due(c).value
        BY <2>3, <4>2, KeySet
      <4>4. kind[c] = "undo" => Due(c).value = snap[c]["webCertFile"]
        BY <2>8 DEF Work, Paired, Due
      <4>5. kind[c] # "undo" => Due(c).value = todo[c][2].value
        <5>1. kind[c] # "undo" => kind[c] \in {"page", "switch"}
          BY <4>1 DEF TypeOK
        <5> QED  BY <2>8, <5>1 DEF Work, Paired, Due
      <4> QED  BY <3>1, <4>2, <4>3, <4>4, <4>5
    <3>4. Left(c)' # 2
      BY <3>1
    <3>5. Half(c)' => Get("webCertFile")' =
                        IF kind'[c] = "undo" THEN snap'[c]["webCertFile"] ELSE todo'[c][1].value
      BY <2>1, <3>2
    <3>6. pc'[c] \notin {"put", "wait"} /\ form'[c] = None
      BY <2>1, <2>6, <3>3
    <3> QED  BY <2>4, <3>4, <3>5, <3>6, NextKnows
  <2>9. CASE Left(c) = 3
    <3>1. Left(c)' = 2 /\ pc'[c] # "wait" /\ kind[c] # "switch"
      BY <2>2, <2>9 DEF Popped, Work, Placed
    <3>2. ~Half(c)'
      BY <3>1 DEF Half
    <3> QED  BY <2>1, <2>4, <2>6, <3>1, <3>2, NextKnows
  <2> QED  BY <2>2, <2>7, <2>8, <2>9
<1> QED  BY <1>1, <1>2

-----------------------------------------------------------------------------
(* What a step leaves of the whole.                                         *)

\* Only a save and a reset write, and then nobody else is alone any more.
LEMMA StepWrites ==
  ASSUME TypeOK, NEW c \in Clients, Step(c)
  PROVE  \/ rows' = rows /\ raced' = raced /\ meant' = meant /\ disturbed' = disturbed
            /\ \A d \in Clients \ {c} : alone'[d] = alone[d]
         \/ /\ PutSetting(c) \/ CommandReset(c)
            /\ alone'[c] = alone[c] /\ \A d \in Clients \ {c} : ~alone'[d]
<1>1. CASE PutSetting(c) \/ CommandReset(c)
  BY <1>1 DEF PutSetting, CommandReset, Writes, TypeOK
<1>2. CASE LoadPage(c) \/ Switch(c) \/ CommandSet(c)
  BY <1>2 DEF LoadPage, Switch, CommandSet, TypeOK
<1>3. CASE SavePage(c) \/ Capture(c) \/ SwitchDone(c)
  BY <1>3 DEF SavePage, Capture, SwitchDone, history
<1>4. CASE RollBack(c) \/ GetSetting(c) \/ SaveFails(c)
  BY <1>4 DEF RollBack, GetSetting, SaveFails, history
<1> QED  BY <1>1, <1>2, <1>3, <1>4 DEF Step

LEMMA ClientsStep ==
  ASSUME TypeOK, Unique, \A d \in Clients : Work(d) /\ Knows(d), NEW c \in Clients, Step(c)
  PROVE  \A d \in Clients : Work(d)' /\ Knows(d)'
<1>1. Work(c)'
  BY OwnWork
<1>2. Knows(c)'
  <2>1. Work(c) /\ Knows(c)
    OBVIOUS
  <2> QED  BY <1>1, <2>1, OwnKnowsRequest, OwnKnowsSwitch, OwnKnowsPut DEF Step
<1>3. ASSUME NEW d \in Clients \ {c} PROVE Work(d)' /\ Knows(d)'
  <2>1. Kept(d)
    BY OthersKept
  <2>2. Work(d)'
    BY <2>1, KeptWork
  <2>3. Knows(d)'
    <3>1. Knows(d) /\ d \in Clients
      OBVIOUS
    <3> QED  BY <2>1, <3>1, StepWrites, KeptKnows, NotAlone
  <2> QED  BY <2>2, <2>3
<1> QED  BY <1>1, <1>2, <1>3

LEMMA UniqueStep ==
  ASSUME TypeOK, Unique, NEW c \in Clients, Work(c), Looked(c), Step(c)
  PROVE  Unique'
<1>1. CASE rows' = rows /\ raced' = raced
  BY <1>1 DEF Unique, Single
<1>2. CASE PutSetting(c)
  BY <1>2, PutSingle
<1>3. CASE CommandReset(c)
  <2>1. \A i \in Ids : rows'[i] = None
    BY <1>3 DEF CommandReset
  <2>2. Single(rows')
    BY <2>1, NoRows
  <2> QED  BY <2>2 DEF Unique
<1> QED  BY <1>1, <1>2, <1>3, StepWrites

\* Every client that has looked finds its row, unless it has missed one.
LEMMA LookedStep ==
  ASSUME TypeOK, Unique, \A d \in Clients : Work(d) /\ Looked(d), NEW c \in Clients, Step(c),
         NEW d \in Clients
  PROVE  Looked(d)'
<1>1. d # c => Kept(d)
  BY OthersKept
<1>2. CASE CommandReset(c)
  <2>1. \A i \in Ids : rows'[i] = None
    BY <1>2 DEF CommandReset
  <2>2. \A k : RowsOf(rows', k) = {}
    BY <2>1 DEF RowsOf
  <2>3. pc'[d] = "put" => found'[d] \in Ids \cup {0}
    BY <1>2 DEF CommandReset, TypeOK
  <2> QED  BY <2>1, <2>2, <2>3 DEF Looked, Finds, RowsOf
<1>3. CASE PutSetting(c)
  <2>1. CASE d = c
    BY <1>3, <2>1 DEF PutSetting, TypeOK, After, Looked
  <2>2. CASE d # c
    <3> SUFFICES ASSUME pc'[d] = "put", ~raced', ~missed'[d] PROVE Finds(d)'
      BY DEF Looked
    <3>1. /\ pc[d] = "put" /\ ~raced /\ ~missed[d]
          /\ todo'[d] = todo[d] /\ found'[d] = found[d]
      BY <1>1, <1>3, <2>2 DEF Kept, PutSetting
    <3>2. Finds(d) /\ Work(d)
      BY <3>1 DEF Looked
    <3> QED  BY <1>3, <2>2, <3>1, <3>2, PutLeaves
  <2> QED  BY <2>1, <2>2
<1>4. CASE GetSetting(c) /\ d = c
  <2> SUFFICES ASSUME ~raced PROVE Finds(c)'
    BY <1>4 DEF GetSetting, history, Looked
  <2> DEFINE k == Head(todo[c]).key
  <2>1. found'[c] = FirstOf(rows, k) /\ rows' = rows /\ todo' = todo
    BY <1>4, GetIs DEF GetSetting, TypeOK
  <2>2. k \in Keys
    <3>1. todo[c] # <<>>
      BY <1>4 DEF GetSetting, Work, Placed
    <3> QED  BY <3>1, HeadAndTail DEF Entry
  <2>3. RowsOf(rows, k) \subseteq {found'[c]}
    <3>1. RowsOf(rows, k) # {} => FirstOf(rows, k) \in RowsOf(rows, k)
      BY FirstIsRow
    <3> QED  BY <2>1, <2>2, <3>1 DEF Unique, Single
  <2>4. found'[c] # 0 => rows[found'[c]].key = k
    <3>1. RowsOf(rows, k) # {} => FirstOf(rows, k) \in RowsOf(rows, k)
      BY FirstIsRow
    <3>2. RowsOf(rows, k) = {} => found'[c] = 0
      BY <2>1 DEF FirstOf
    <3> QED  BY <2>1, <3>1, <3>2 DEF RowsOf
  <2>5. Head(todo[c])' = Head(todo[c])
    BY <2>1
  <2>6. RowsOf(rows, Head(todo[c]).key)' = RowsOf(rows, k)
    BY <2>1 DEF RowsOf
  <2> QED  BY <2>1, <2>3, <2>4, <2>5, <2>6 DEF Finds
<1>5. CASE d = c /\ ~PutSetting(c) /\ ~GetSetting(c) /\ ~CommandReset(c)
  <2>1. pc'[c] # "put"
    <3>1. CASE SavePage(c) \/ Switch(c) \/ CommandSet(c)
      BY <3>1 DEF SavePage, Switch, CommandSet, Request, TypeOK
    <3>2. CASE LoadPage(c) \/ Capture(c) \/ SwitchDone(c) \/ RollBack(c) \/ SaveFails(c)
      BY <3>2 DEF LoadPage, Capture, SwitchDone, RollBack, SaveFails, TypeOK
    <3> QED  BY <1>5, <3>1, <3>2 DEF Step
  <2> QED  BY <1>5, <2>1 DEF Looked
<1>6. CASE d # c /\ ~PutSetting(c) /\ ~CommandReset(c)
  <2>1. rows' = rows /\ raced' = raced
    BY <1>6, StepWrites
  <2>2. missed'[d] = missed[d]
    <3>1. CASE SaveFails(c)
      BY <1>6, <3>1 DEF SaveFails, TypeOK
    <3>2. CASE LoadPage(c) \/ SavePage(c) \/ Switch(c) \/ Capture(c) \/ SwitchDone(c)
      BY <3>2 DEF LoadPage, SavePage, Switch, Capture, SwitchDone, history
    <3>3. CASE RollBack(c) \/ CommandSet(c) \/ GetSetting(c)
      BY <3>3 DEF RollBack, CommandSet, GetSetting, history
    <3> QED  BY <1>6, <3>1, <3>2, <3>3 DEF Step
  <2>3. /\ pc'[d] = pc[d] /\ found'[d] = found[d] /\ todo'[d] = todo[d]
    BY <1>1, <1>6 DEF Kept
  <2> QED  BY <2>1, <2>2, <2>3, KeptLooked
<1> QED  BY <1>2, <1>3, <1>4, <1>5, <1>6

\* What is meant is what is used, after a save with no race that disturbs nothing.
LEMMA MeantStep ==
  ASSUME TypeOK, NothingUndone, NEW c \in Clients, Work(c), Knows(c), Looked(c), Step(c)
  PROVE  NothingUndone'
<1>1. CASE rows' = rows /\ raced' = raced /\ meant' = meant /\ disturbed' = disturbed
  <2>1. \A k : Get(k)' = Get(k)
    BY <1>1, SameTable
  <2> QED  BY <1>1, <2>1 DEF NothingUndone
<1>2. CASE CommandReset(c)
  <2>1. \A i \in Ids : rows'[i] = None
    BY <1>2 DEF CommandReset
  <2>2. \A k : Get(k)' = Default[k]
    BY <2>1, NoRows, GetIs
  <2>3. meant' = Default
    BY <1>2 DEF CommandReset
  <2> QED  BY <2>2, <2>3 DEF NothingUndone
<1>3. CASE PutSetting(c)
  <2> SUFFICES ASSUME ~raced', ~disturbed', NEW l \in Keys PROVE Get(l)' = meant'[l]
    BY DEF NothingUndone
  <2>1. ~raced /\ ~disturbed /\ Get(l) = meant[l]
    BY <1>3 DEF PutSetting, NothingUndone
  <2>2. Get(l)' = IF l = Due(c).key THEN Due(c).value ELSE Get(l)
    BY <1>3, PutUnraced
  <2>3. meant'[l] = IF l = Due(c).key /\ ~Due(c).carried THEN Due(c).value ELSE meant[l]
    <3>1. Due(c) = Head(todo[c])
      BY <1>3, PutIs
    <3>2. meant' = [meant EXCEPT ![Due(c).key] = IF Due(c).carried THEN @ ELSE Due(c).value]
      BY <1>3, <3>1 DEF PutSetting
    <3> QED  BY <3>2 DEF TypeOK, Contents
  <2>4. l = Due(c).key /\ Due(c).carried => Due(c).value = Get(l)
    <3> SUFFICES ASSUME l = Due(c).key, Due(c).carried PROVE Due(c).value = Get(l)
      OBVIOUS
    <3>1. Due(c) = Head(todo[c])
      BY <1>3, PutIs
    <3>2. alone[c]
      BY <1>3, <3>1 DEF PutSetting
    <3>3. 1 \in 1..Left(c)
      <4>1. todo[c] # <<>>
        BY <1>3 DEF PutSetting, Work, Placed
      <4> QED  BY <4>1, HeadAndTail DEF Left
    <3> QED  BY <2>1, <3>2, <3>3 DEF Knows, Due
  <2> QED  BY <2>1, <2>2, <2>3, <2>4
<1> QED  BY <1>1, <1>2, <1>3, StepWrites

-----------------------------------------------------------------------------
(* Certificate and key.                                                     *)

LEMMA SameFits ==
  ASSUME rows' = rows
  PROVE  Fits' = Fits
BY SameTable DEF Fits

LEMMA HalfKept ==
  ASSUME NEW d, Kept(d)
  PROVE  Half(d)' = Half(d) /\ Wrote(d)' = Wrote(d)
BY DEF Kept, Half, Wrote, Busy, Left

\* A client that has its key left to save is at it or has failed or saved it.
LEMMA HalfEnds ==
  ASSUME TypeOK, NEW c \in Clients, Work(c), Half(c), Step(c), ~PutSetting(c), ~torn'
  PROVE  Half(c)'
<1>1. pc[c] \in {"get", "put"} /\ kind[c] # "cli" /\ Left(c) = 1
  BY DEF Half, Busy
<1>2. ~(LoadPage(c) \/ SavePage(c) \/ Switch(c) \/ Capture(c) \/ SwitchDone(c) \/ RollBack(c)
        \/ CommandSet(c) \/ CommandReset(c))
  BY <1>1 DEF LoadPage, SavePage, Switch, Capture, SwitchDone, RollBack, CommandSet,
              CommandReset, Request
<1>3. ~SaveFails(c)
  <2>1. Head(todo[c]).key = "webKeyFile"
    <3>1. todo[c] # <<>>
      BY <1>1 DEF Work, Placed
    <3>2. Head(todo[c]) = todo[c][1]
      BY <3>1, HeadAndTail
    <3> QED  BY <1>1, <3>2 DEF Work, Ordered
  <2> QED  BY <2>1 DEF SaveFails, PairKeys
<1>4. GetSetting(c)
  BY <1>2, <1>3 DEF Step
<1> QED  BY <1>4 DEF GetSetting, TypeOK, Half, Busy, Left

\* What is torn stays so, unless a page, a switch or a reset mends it.
LEMMA TornMended ==
  ASSUME TypeOK, NEW c \in Clients, Knows(c), Step(c), torn, ~torn'
  PROVE  \/ PutSetting(c) /\ Mends(c)
         \/ CommandReset(c)
         \/ SwitchDone(c) /\ alone[c] /\ pc[c] = "wait" /\ Fits /\ rows' = rows
<1>1. CASE SwitchDone(c)
  BY <1>1 DEF SwitchDone, Knows, Fits
<1>2. CASE LoadPage(c) \/ SavePage(c) \/ Switch(c) \/ Capture(c) \/ RollBack(c)
  BY <1>2 DEF LoadPage, SavePage, Switch, Capture, RollBack, history
<1>3. CASE CommandSet(c) \/ GetSetting(c) \/ SaveFails(c)
  BY <1>3 DEF CommandSet, GetSetting, SaveFails, history
<1>4. CASE PutSetting(c)
  BY <1>4 DEF PutSetting
<1> QED  BY <1>1, <1>2, <1>3, <1>4 DEF Step

LEMMA FittingPut ==
  ASSUME TypeOK, \A d \in Clients : Work(d) /\ Knows(d), Fitting, FitToRestore,
         NEW c \in Clients, PutSetting(c)
  PROVE  Fitting'
<1> SUFFICES ASSUME ~torn' PROVE Fits' \/ \E d \in Clients : Half(d)'
  BY DEF Fitting, Fits
<1>1. Work(c) /\ Knows(c) /\ Step(c)
  BY DEF Step
<1>2. /\ Due(c) = Head(todo[c]) /\ Due(c).key \in Keys /\ todo[c] # <<>>
      /\ pc[c] = "put" /\ kind'[c] = kind[c] /\ pc'[c] = After(c)
  <2>1. Due(c) = Head(todo[c]) /\ Due(c).key \in Keys
    BY <1>1, PutIs DEF Entry
  <2>2. pc[c] = "put" /\ todo[c] # <<>>
    BY <1>1 DEF PutSetting, Work, Placed
  <2>3. kind'[c] = kind[c] /\ pc'[c] = After(c)
    BY DEF PutSetting, TypeOK
  <2> QED  BY <2>1, <2>2, <2>3
<1>3. Popped(c) /\ (Left(c) = 1 \/ Left(c) = 2 \/ Left(c) = 3)
  <2>1. todo'[c] = Tail(todo[c])
    BY DEF PutSetting, TypeOK
  <2> QED  BY <1>1, <1>2, <2>1, TailPops, LeftRange DEF Work
<1>4. Mends(c) \/ ~torn
  BY DEF PutSetting
<1>5. Mends(c) => alone[c] /\ whole[c] /\ Left(c) = 1 /\ kind[c] = "page"
  BY DEF Mends, Left
<1>6. \A d \in Clients \ {c} : Half(d)' = Half(d)
  BY <1>1, OthersKept, HalfKept
<1>7. ASSUME alone[c], whole[c], Left(c) = 1, kind[c] # "cli"
      PROVE  Fits' \/ \E d \in Clients : Half(d)'
  <2>1. Half(c) /\ Due(c).key = "webKeyFile"
    BY <1>1, <1>2, <1>7 DEF Half, Busy, Work, Ordered, Due
  <2>2. Get("webKeyFile")' = Due(c).value /\ Get("webCertFile")' = Get("webCertFile")
    BY <1>1, <1>7, <2>1, PutAlone, KeySet
  <2>3. CASE kind[c] # "undo"
    <3>1. Get("webCertFile") = Due(c).value
      BY <1>1, <1>7, <2>1, <2>3 DEF Knows, Due
    <3> QED  BY <2>2, <3>1 DEF Fits
  <2>4. CASE kind[c] = "undo"
    <3>1. Get("webCertFile") = snap[c]["webCertFile"]
      BY <1>1, <1>7, <2>1, <2>4 DEF Knows
    <3>2. Due(c).value = snap[c]["webKeyFile"]
      BY <1>1, <1>7, <2>4 DEF Work, Paired, Due
    <3>3. DOMAIN snap[c] = PairKeys
      BY <1>1, <1>2, <2>4 DEF Work, Holds
    <3>4. ~torn
      BY <1>4, <1>5, <2>4
    <3>5. snap[c]["webCertFile"] = snap[c]["webKeyFile"] \/ \E d \in Clients \ {c} : Half(d)
      BY <1>7, <3>3, <3>4 DEF FitToRestore
    <3> QED  BY <1>6, <2>2, <3>1, <3>2, <3>5 DEF Fits
  <2> QED  BY <2>3, <2>4
<1>8. CASE Mends(c)
  BY <1>5, <1>7, <1>8
<1>9. CASE ~Mends(c) /\ Due(c).key \in PairKeys
  <2>1. alone[c] /\ whole[c]
    BY <1>2, <1>9 DEF PutSetting
  <2>2. kind[c] # "cli"
    BY <1>1, <1>3, <1>9 DEF Work, Ordered, Due, PairKeys
  <2>3. CASE Left(c) = 1
    BY <1>7, <2>1, <2>2, <2>3
  <2>4. CASE Left(c) = 2
    <3>1. Left(c)' = 1
      BY <1>3, <2>4 DEF Popped
    <3>2. pc'[c] = "get"
      <4>1. Len(todo[c]) > 1
        BY <2>4 DEF Left
      <4> QED  BY <1>2, <4>1 DEF After
    <3>3. Half(c)'
      BY <1>2, <2>2, <3>1, <3>2 DEF Half, Busy
    <3> QED  BY <3>3
  <2>5. CASE Left(c) = 3
    BY <1>1, <1>9, <2>2, <2>5 DEF Work, Ordered, Due, PairKeys
  <2> QED  BY <1>3, <2>3, <2>4, <2>5
<1>10. CASE ~Mends(c) /\ Due(c).key \notin PairKeys
  <2>1. ~torn /\ ~(Takes(c) /\ rows[found[c]].key \in PairKeys)
    BY <1>10 DEF PutSetting
  <2>2. Get("webCertFile")' = Get("webCertFile") /\ Get("webKeyFile")' = Get("webKeyFile")
    BY <1>1, <1>10, <2>1, PutKeeps, KeySet DEF PairKeys
  <2>3. ~Half(c)
    BY <1>1, <1>10 DEF Half, Work, Ordered, Due, PairKeys
  <2>4. Fits \/ \E d \in Clients \ {c} : Half(d)
    BY <2>1, <2>3 DEF Fitting, Fits
  <2> QED  BY <1>6, <2>2, <2>4 DEF Fits
<1> QED  BY <1>8, <1>9, <1>10

LEMMA FittingStep ==
  ASSUME TypeOK, \A d \in Clients : Work(d) /\ Knows(d), Fitting, FitToRestore,
         NEW c \in Clients, Step(c)
  PROVE  Fitting'
<1>1. CASE PutSetting(c)
  BY <1>1, FittingPut
<1>2. CASE CommandReset(c)
  <2>1. \A i \in Ids : rows'[i] = None
    BY <1>2 DEF CommandReset
  <2>2. \A k : Get(k)' = Default[k]
    BY <2>1, NoRows, GetIs
  <2>3. Default["webCertFile"] = "" /\ Default["webKeyFile"] = ""
    BY DEF Default, Keys, PairKeys
  <2> QED  BY <2>2, <2>3 DEF Fitting, Fits
<1>3. CASE ~PutSetting(c) /\ ~CommandReset(c)
  <2> SUFFICES ASSUME ~torn' PROVE Fits' \/ \E d \in Clients : Half(d)'
    BY DEF Fitting, Fits
  <2>1. rows' = rows
    BY <1>3, StepWrites
  <2>2. CASE Fits
    BY <2>1, <2>2, SameFits
  <2>3. CASE torn
    <3>1. Fits
      BY <1>3, <2>3, TornMended
    <3> QED  BY <2>1, <3>1, SameFits
  <2>4. ASSUME NEW d \in Clients, Half(d) PROVE Half(d)'
    <3>1. CASE d = c
      BY <1>3, <2>4, <3>1, HalfEnds
    <3>2. CASE d # c
      BY <2>4, <3>2, OthersKept, HalfKept
    <3> QED  BY <3>1, <3>2
  <2> QED  BY <2>2, <2>3, <2>4 DEF Fitting, Fits
<1> QED  BY <1>1, <1>2, <1>3

\* To have written and be alone one must have written, or be the one that writes.
LEMMA OwnWrote ==
  ASSUME TypeOK, NEW c \in Clients, Work(c), Step(c), ~PutSetting(c), ~CommandReset(c),
         Wrote(c)', alone'[c]
  PROVE  Wrote(c) /\ alone[c]
<1>0. Wrote(c)' => pc'[c] # "idle" /\ pc'[c] # "capture"
                   /\ (pc'[c] # "wait" => kind'[c] \in {"undo", "switch"})
  BY DEF Wrote, Half, Busy
<1>1. CASE LoadPage(c)
  BY <1>0, <1>1 DEF LoadPage
<1>2. CASE SavePage(c) \/ Switch(c) \/ CommandSet(c)
  <2>1. pc'[c] # "wait" /\ (kind'[c] \in {"page", "cli"} \/ pc'[c] = "capture")
    <3>1. \/ Request(c, "page", "get") \/ Request(c, "switch", "capture")
          \/ Request(c, "cli", "get")
      BY <1>2 DEF SavePage, Switch, CommandSet
    <3>2. \A as, at : Request(c, as, at) => pc'[c] = at /\ kind'[c] = as
      BY RequestIs
    <3>3. Request(c, "page", "get") => pc'[c] = "get" /\ kind'[c] = "page"
      BY <3>2
    <3>4. Request(c, "switch", "capture") => pc'[c] = "capture"
      BY <3>2
    <3>5. Request(c, "cli", "get") => pc'[c] = "get" /\ kind'[c] = "cli"
      BY <3>2
    <3> QED  BY <3>1, <3>3, <3>4, <3>5
  <2> QED  BY <1>0, <2>1
<1>3. CASE Capture(c)
  <2>1. pc'[c] \in {"capture", "get"} /\ kind'[c] = "switch" /\ Left(c)' = 2
    BY <1>3 DEF Capture, TypeOK, Work, Placed, Left, history
  <2> QED  BY <2>1 DEF Wrote, Half
<1>4. CASE SwitchDone(c)
  BY <1>0, <1>4 DEF SwitchDone, TypeOK
<1>5. CASE RollBack(c)
  BY <1>5 DEF RollBack, Wrote, history
<1>6. CASE GetSetting(c)
  <2>1. pc[c] = "get" /\ pc'[c] = "put" /\ kind' = kind /\ todo' = todo /\ alone' = alone
    BY <1>6 DEF GetSetting, TypeOK, history
  <2> QED  BY <2>1 DEF Wrote, Half, Busy, Left
<1>7. CASE SaveFails(c)
  <2>1. /\ Busy(c) /\ kind' = kind /\ alone' = alone
        /\ pc'[c] = "idle" \/ (pc'[c] = "get" /\ kind[c] \in {"page", "undo"})
    BY <1>7 DEF SaveFails, TypeOK, Busy
  <2> QED  BY <2>1 DEF Wrote, Half, Busy
<1> QED  BY <1>1, <1>2, <1>3, <1>4, <1>5, <1>6, <1>7 DEF Step

LEMMA OneWroteStep ==
  ASSUME TypeOK, OneWrote, NEW c \in Clients, Work(c), Step(c)
  PROVE  OneWrote'
<1>1. CASE PutSetting(c) \/ CommandReset(c)
  <2>1. \A d \in Clients \ {c} : ~alone'[d]
    BY <1>1 DEF PutSetting, CommandReset, Writes
  <2> QED  BY <2>1 DEF OneWrote
<1>2. CASE ~PutSetting(c) /\ ~CommandReset(c)
  <2>1. ASSUME NEW d \in Clients, Wrote(d)', alone'[d] PROVE Wrote(d) /\ alone[d]
    <3>1. CASE d = c
      BY <1>2, <2>1, <3>1, OwnWrote
    <3>2. CASE d # c
      BY <1>2, <2>1, <3>2, OthersKept, HalfKept, StepWrites
    <3> QED  BY <3>1, <3>2
  <2> QED  BY <2>1 DEF OneWrote
<1> QED  BY <1>1, <1>2

\* A client that has captured all, and is alone, has written, or captured what is used.
LEMMA CapturedBefore ==
  ASSUME TypeOK, NEW d \in Clients, Work(d), Knows(d), alone[d], DOMAIN snap[d] = PairKeys
  PROVE  Wrote(d) \/ \A k \in PairKeys : snap[d][k] = Get(k)
<1>1. PairKeys # {} /\ PairKeys # {"webCertFile"}
  BY DEF PairKeys
<1>2. pc[d] \notin {"idle", "capture"} /\ kind[d] \in {"switch", "undo"}
  BY <1>1 DEF Work, Holds
<1>3. todo[d] # <<>> \/ pc[d] = "wait"
  BY <1>2 DEF Work, Placed, TypeOK
<1>4. CASE pc[d] = "wait" \/ kind[d] = "undo"
  BY <1>2, <1>4 DEF Wrote, Busy, TypeOK
<1>5. CASE pc[d] # "wait" /\ kind[d] = "switch"
  <2>1. Busy(d)
    BY <1>2, <1>5 DEF Busy, TypeOK
  <2>2. Left(d) = 1 \/ Left(d) = 2
    <3>1. Left(d) = 1 \/ Left(d) = 2 \/ Left(d) = 3
      BY <1>3, <1>5, LeftRange DEF Work
    <3> QED  BY <1>5, <3>1 DEF Work, Placed
  <2>3. CASE Left(d) = 1
    BY <1>5, <2>1, <2>3 DEF Wrote, Half
  <2>4. CASE Left(d) = 2
    BY <1>2, <1>5, <2>4 DEF Knows
  <2> QED  BY <2>2, <2>3, <2>4
<1> QED  BY <1>2, <1>4, <1>5

LEMMA FitToRestoreStep ==
  ASSUME TypeOK, \A d \in Clients : Work(d) /\ Knows(d) /\ Work(d)' /\ Knows(d)',
         Fitting, OneWrote, FitToRestore, NEW c \in Clients, Step(c)
  PROVE  FitToRestore'
<1> SUFFICES ASSUME NEW d \in Clients, alone'[d], DOMAIN snap'[d] = PairKeys, ~torn',
                    snap'[d]["webCertFile"] # snap'[d]["webKeyFile"]
             PROVE  \E e \in Clients \ {d} : Half(e)'
  BY DEF FitToRestore
<1>0. /\ Work(d) /\ Knows(d) /\ Work(c) /\ Knows(c)
      /\ "webCertFile" \in PairKeys /\ "webKeyFile" \in PairKeys
  BY DEF PairKeys
<1>1. CASE d # c
  <2>1. ~PutSetting(c) /\ ~CommandReset(c)
    BY <1>1 DEF PutSetting, CommandReset, Writes
  <2>2. alone[d] /\ snap'[d] = snap[d] /\ rows' = rows
    BY <1>1, <2>1, StepWrites, OthersKept DEF Kept
  <2>3. ~torn
    <3> SUFFICES ASSUME torn PROVE FALSE
      OBVIOUS
    <3>1. alone[c] /\ pc[c] = "wait" /\ Fits
      BY <1>0, <2>1, TornMended
    <3>2. Wrote(c)
      BY <3>1 DEF Wrote
    <3>3. ~Wrote(d)
      BY <1>1, <2>2, <3>1, <3>2 DEF OneWrote
    <3>4. \A k \in PairKeys : snap[d][k] = Get(k)
      BY <1>0, <2>2, <3>3, CapturedBefore
    <3> QED  BY <1>0, <2>2, <3>1, <3>4 DEF Fits
  <2>4. PICK e \in Clients \ {d} : Half(e)
    BY <2>2, <2>3 DEF FitToRestore
  <2>5. Half(e)'
    <3>1. CASE e = c
      BY <1>0, <2>1, <2>4, <3>1, HalfEnds
    <3>2. CASE e # c
      BY <2>4, <3>2, OthersKept, HalfKept
    <3> QED  BY <3>1, <3>2
  <2> QED  BY <2>5
<1>2. CASE d = c
  <2>1. ASSUME NEW e \in Clients \ {c}, Half(e) PROVE Half(e)'
    BY <2>1, OthersKept, HalfKept
  <2>2. CASE Capture(c)
    <3>1. pc[c] = "capture" /\ rows' = rows /\ torn' = torn /\ kind'[c] = "switch"
          /\ Left(c)' = 2 /\ pc'[c] # "idle"
      BY <1>0, <2>2 DEF Capture, TypeOK, Work, Placed, Left, history
    <3>2. \A k \in PairKeys : snap'[c][k] = Get(k)'
      BY <1>2, <3>1 DEF Knows
    <3>3. ~Fits
      BY <1>0, <1>2, <3>1, <3>2, SameTable DEF Fits
    <3>4. ~Half(c)
      BY <3>1 DEF Half, Busy
    <3>5. \E e \in Clients \ {c} : Half(e)
      BY <3>1, <3>3, <3>4 DEF Fitting
    <3> QED  BY <1>2, <2>1, <3>5
  <2>3. CASE ~Capture(c)
    <3>1. DOMAIN snap'[c] # {}
      BY <1>0, <1>2
    <3>2. snap'[c] = snap[c]
      BY <2>3, <3>1, EmptyCapture
         DEF Step, LoadPage, SavePage, Switch, SwitchDone, RollBack, CommandSet, CommandReset,
             GetSetting, PutSetting, SaveFails, TypeOK
    <3>3. pc[c] # "idle" /\ kind[c] \in {"switch", "undo"}
      <4>1. PairKeys # {} /\ PairKeys # {"webCertFile"}
        BY DEF PairKeys
      <4> QED  BY <1>0, <1>2, <3>2, <4>1 DEF Work, Holds
    <3>4. ~LoadPage(c) /\ ~Switch(c) /\ ~CommandSet(c) /\ ~CommandReset(c)
      BY <3>3 DEF LoadPage, Switch, CommandSet, CommandReset, Request
    <3>5. ~SwitchDone(c)
      BY <3>1, EmptyCapture DEF SwitchDone, TypeOK
    <3>6. ~torn
      BY <1>0, <3>3, <3>4, <3>5, TornMended DEF Mends
    <3>7. alone[c]
      <4>1. alone'[c] = alone[c]
        <5>1. CASE SavePage(c) \/ SwitchDone(c) \/ RollBack(c) \/ GetSetting(c) \/ SaveFails(c)
          BY <5>1 DEF SavePage, SwitchDone, RollBack, GetSetting, SaveFails, history
        <5>2. CASE PutSetting(c)
          <6>1. Writes(c)
            BY <5>2 DEF PutSetting
          <6> QED  BY <6>1 DEF Writes, TypeOK
        <5> QED  BY <2>3, <3>4, <5>1, <5>2 DEF Step
      <4> QED  BY <1>2, <4>1
    <3>8. \E e \in Clients \ {c} : Half(e)
      BY <1>2, <3>2, <3>6, <3>7 DEF FitToRestore
    <3> QED  BY <1>2, <2>1, <3>8
  <2> QED  BY <2>2, <2>3
<1> QED  BY <1>1, <1>2

-----------------------------------------------------------------------------
(* The theorems.                                                            *)

LEMMA InitInvariant == Init => IInv
<1> SUFFICES ASSUME Init PROVE IInv
  OBVIOUS
<1>1. Default \in Contents /\ Default["webCertFile"] = "" /\ Default["webKeyFile"] = ""
  BY DEF Default, Contents, Values, Keys, PairKeys
<1>2. <<>> \in Seq(Entry) /\ Len(<<>>) = 0 /\ <<>> \in Captures /\ DOMAIN <<>> = {}
  BY EmptySeq, EmptyCapture
<1>3. TypeOK
  <2>1. requests \in 0..MaxRequests /\ faults \in 0..MaxFaults
    BY BoundAssumption DEF Init
  <2>2. todo \in [Clients -> Seq(Entry)] /\ snap \in [Clients -> Captures]
    BY <1>2 DEF Init
  <2>3. rows \in [Ids -> Rows \cup {None}] /\ form \in [Clients -> Contents \cup {None}]
    BY DEF Init
  <2>4. /\ pc \in [Clients -> {"idle", "capture", "get", "put", "wait"}]
        /\ kind \in [Clients -> {"page", "switch", "undo", "cli"}]
        /\ found \in [Clients -> Ids \cup {0}]
    BY DEF Init
  <2>5. /\ alone \in [Clients -> BOOLEAN] /\ whole \in [Clients -> BOOLEAN]
        /\ missed \in [Clients -> BOOLEAN]
        /\ {disturbed, torn, raced} \subseteq BOOLEAN /\ meant \in Contents
    BY <1>1 DEF Init
  <2> QED  BY <2>1, <2>2, <2>3, <2>4, <2>5 DEF TypeOK, Entry
<1>4. \A i \in Ids : rows[i] = None
  BY DEF Init
<1>5. Single(rows) /\ \A k : Get(k) = Default[k]
  BY <1>4, NoRows, GetIs
<1>6. ASSUME NEW c \in Clients PROVE Work(c) /\ Knows(c) /\ Looked(c) /\ ~Wrote(c)
  <2>1. /\ pc[c] = "idle" /\ kind[c] = "cli" /\ todo[c] = <<>> /\ form[c] = None
        /\ snap[c] = <<>> /\ whole[c] = TRUE
    BY DEF Init
  <2>2. Left(c) = 0 /\ 1..Left(c) = {}
    BY <1>2, <2>1 DEF Left
  <2>3. Ordered(c) /\ Placed(c) /\ Paired(c)
    BY <2>1, <2>2 DEF Ordered, Placed, Paired
  <2>4. Holds(c) /\ ~Wrote(c)
    BY <1>2, <2>1 DEF Holds, Wrote, Half, Busy
  <2>5. Knows(c)
    BY <2>1, <2>2 DEF Knows, Half, Busy
  <2>6. Looked(c)
    BY <2>1 DEF Looked
  <2> QED  BY <2>3, <2>4, <2>5, <2>6 DEF Work
<1>7. Unique /\ Fitting /\ OneWrote
  BY <1>1, <1>5, <1>6 DEF Unique, Fitting, Fits, OneWrote
<1>8. NothingUndone
  BY <1>5 DEF Init, NothingUndone
<1>9. FitToRestore
  <2>1. PairKeys # {}
    BY DEF PairKeys
  <2> QED  BY <1>2, <2>1 DEF Init, FitToRestore
<1> QED  BY <1>3, <1>6, <1>7, <1>8, <1>9 DEF IInv

LEMMA InvariantStep == IInv /\ [Next]_vars => IInv'
<1> SUFFICES ASSUME IInv, [Next]_vars PROVE IInv'
  OBVIOUS
<1>1. TypeOK /\ Unique /\ \A d \in Clients : Work(d) /\ Knows(d) /\ Looked(d)
  BY DEF IInv
<1>2. TypeOK'
  BY <1>1, TypeStep DEF Work
<1>3. ASSUME NEW c \in Clients, Step(c) PROVE IInv'
  <2>1. \A d \in Clients : Work(d)' /\ Knows(d)'
    BY <1>1, <1>3, ClientsStep DEF IInv
  <2>2. Unique' /\ NothingUndone'
    BY <1>1, <1>3, UniqueStep, MeantStep DEF IInv
  <2>3. Fitting' /\ OneWrote'
    BY <1>1, <1>3, FittingStep, OneWroteStep DEF IInv
  <2>4. FitToRestore'
    BY <1>1, <1>3, <2>1, FitToRestoreStep DEF IInv
  <2>5. \A d \in Clients : Looked(d)'
    BY <1>1, <1>3, LookedStep
  <2> QED  BY <1>2, <2>1, <2>2, <2>3, <2>4, <2>5 DEF IInv
<1>4. CASE UNCHANGED vars
  <2>1. /\ rows' = rows /\ raced' = raced /\ alone' = alone /\ torn' = torn /\ snap' = snap
        /\ meant' = meant /\ disturbed' = disturbed /\ missed' = missed
    BY <1>4 DEF vars, history
  <2>2. ASSUME NEW d \in Clients
        PROVE  /\ Work(d)' /\ Knows(d)' /\ Looked(d)'
               /\ Half(d)' = Half(d) /\ Wrote(d)' = Wrote(d)
    <3>1. /\ pc' = pc /\ kind' = kind /\ todo' = todo /\ found' = found /\ form' = form
          /\ snap' = snap /\ whole' = whole
      BY <1>4 DEF vars, history
    <3>2. Kept(d)
      BY <3>1 DEF Kept
    <3> QED  BY <1>1, <2>1, <3>1, <3>2, KeptWork, KeptKnows, KeptLooked, HalfKept
  <2>3. Unique' /\ NothingUndone'
    <3>1. \A k : Get(k)' = Get(k)
      BY <2>1, SameTable
    <3> QED  BY <2>1, <3>1 DEF IInv, Unique, Single, NothingUndone
  <2>4. Fitting' /\ OneWrote'
    BY <2>1, <2>2, SameFits DEF IInv, Fitting, OneWrote
  <2>5. FitToRestore'
    BY <2>1, <2>2 DEF IInv, FitToRestore
  <2> QED  BY <1>2, <2>2, <2>3, <2>4, <2>5 DEF IInv
<1> QED  BY <1>3, <1>4 DEF Next, Step

\* Every variable keeps its type; a request writes only values the settings can have.
THEOREM TypeCorrect == Spec => []TypeOK
<1>1. IInv => TypeOK
  BY DEF IInv
<1> QED  BY InitInvariant, InvariantStep, <1>1, PTL DEF Spec

\* GetAllSetting and getSetting agree: no key ever has two rows, unless a client has saved
\* after another had inserted a row between its query and its write.
THEOREM PageShowsWhatIsUsed == Spec => []ShownIsUsed
<1>1. IInv => ShownIsUsed
  BY ShownIsGet DEF IInv, Unique, ShownIsUsed
<1> QED  BY InitInvariant, InvariantStep, <1>1, PTL DEF Spec

\* Between requests certificate and key fit, unless writers overlapped, one failed in the
\* middle, or a stale command took a row of theirs.
THEOREM PairAlwaysFits == Spec => []PairFits
<1>1. IInv => PairFits
  <2> SUFFICES ASSUME IInv, ~torn, \A c \in Clients : pc[c] = "idle"
               PROVE  Get("webCertFile") = Get("webKeyFile")
    BY DEF PairFits
  <2>1. \A c \in Clients : ~Half(c)
    BY DEF Half, Busy
  <2> QED  BY <2>1 DEF IInv, Fitting, Fits
<1> QED  BY InitInvariant, InvariantStep, <1>1, PTL DEF Spec

\* What was saved last on purpose is what is used, unless a page or a roll-back wrote over
\* what it had not read, or a save missed a row that another inserted in between.
THEOREM LastSaveStands == Spec => []NothingUndone
<1>1. IInv => NothingUndone
  BY DEF IInv
<1> QED  BY InitInvariant, InvariantStep, <1>1, PTL DEF Spec
=============================================================================

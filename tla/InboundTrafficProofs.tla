------------------------ MODULE InboundTrafficProofs ------------------------
(***************************************************************************)
(* Proofs about InboundTraffic, for any sets of pages, ports and limits    *)
(* and any bounds: no number is outside its type, no inbound is charged    *)
(* more than it carried, and a deleted one comes back only in the window   *)
(* of db.Save.                                                             *)
(*                                                                         *)
(* A count is in three places at different times: in the table or on a     *)
(* page that may save it, with the traffic job, and in xray.  The          *)
(* invariant bounds the three together, for any port the job and any port  *)
(* xray may hold it at, so that a step that moves it changes nothing.      *)
(***************************************************************************)
EXTENDS InboundTraffic, TLAPS

\* What goroutines hold between their steps.
Locals ==
    \A t \in Requests :
        /\ pc[t] = "idle" => page[t] = None
        /\ pc[t] # "idle" => page[t] # None
        /\ pc[t] = "insert" => page[t].id = None /\ page[t].row.used = 0
        /\ pc[t] \in {"page", "read", "save"} => page[t].id \in Ids
        /\ pc[t] = "save" => page[t].id \in Present \cup raced

\* No number, in the table or on a page, can outgrow the traffic there was.
Bounded ==
    /\ \A p, q \in Ports : got[p] + bytes[q] <= passed
    /\ \A i \in Present, p, q \in Ports : rows[i].used + got[p] + bytes[q] <= passed
    /\ \A t \in Requests, p, q \in Ports :
         page[t] # None => page[t].row.used + got[p] + bytes[q] <= passed
    /\ \A i \in Ids : carried[i] <= passed

\* Counts belong to an inbound, and the port of one that took over nothing is known as
\* its own.
Owned ==
    /\ \A p \in Ports : bytes[p] > 0 => owner[p] # None
    /\ \A p \in Ports : got[p] > 0 => gotOwner[p] # None
    /\ \A i \in Present \ inherited :
         /\ owner[rows[i].port] \in {None, i}
         /\ snapshot[rows[i].port] \in {None, i}
         /\ gotOwner[rows[i].port] \in {None, i}

\* What port p holds for inbound i.
Part(f, n, p, i) == IF f[p] = i THEN n[p] ELSE 0

\* A number an inbound has, or a page would give it, leaves room for what is on its way.
RoomFor(i, used) ==
    \A p, q \in Ports :
        used + Part(gotOwner, got, p, i) + Part(owner, bytes, q, i) <= carried[i]

Covered ==
    \A i \in Ids \ inherited :
        /\ i \in Present => RoomFor(i, rows[i].used)
        /\ \A t \in Requests :
             page[t] # None /\ page[t].id = i => RoomFor(i, page[t].row.used)

IInv == TypeOK /\ Locals /\ Bounded /\ Owned /\ Covered

USE BoundAssumption, TotalsAssumption, PortsAssumption, NullAssumption

-----------------------------------------------------------------------------
(* What a row or a page is made of.                                         *)

LEMMA Numbers == Ids \subseteq Nat /\ Amounts \subseteq Nat /\ 0 \in Amounts /\ 1 \in Ids
BY DEF Ids, Amounts

LEMMA Rows ==
  ASSUME TypeOK, NEW i \in Present
  PROVE  /\ i \in Ids /\ rows[i] \in Row /\ rows[i].port \in Ports
         /\ rows[i].used \in Amounts
BY DEF TypeOK, Present, Row

LEMMA Pages ==
  ASSUME TypeOK, NEW t \in Requests, page[t] # None
  PROVE  /\ page[t] \in Shown /\ page[t].row \in Row /\ page[t].row.port \in Ports
         /\ page[t].row.used \in Amounts
BY DEF TypeOK, Shown, Row

\* A port is in the configuration with the inbound that has it, or not.
LEMMA ConfigServes ==
  ASSUME TypeOK
  PROVE  /\ Config \in Served
         /\ \A i \in Present : Config[rows[i].port] \in {None, i}
<1> DEFINE at(p) == {i \in Present : rows[i].port = p /\ rows[i].enable}
<1>1. \A p \in Ports : at(p) # {} => (CHOOSE i \in at(p) : TRUE) \in at(p)
  OBVIOUS
<1>2. \A p \in Ports : Config[p] = IF at(p) = {} THEN None ELSE CHOOSE i \in at(p) : TRUE
  BY DEF Config
<1>3. \A p \in Ports : Config[p] = None \/ Config[p] \in at(p)
  BY <1>1, <1>2
<1>4. Config \in Served
  <2>1. \A p \in Ports : at(p) \subseteq Ids
    BY DEF Present
  <2>2. \A p \in Ports : Config[p] \in Ids \cup {None}
    BY <1>3, <2>1
  <2>3. Config = [p \in Ports |-> Config[p]]
    BY DEF Config
  <2> QED
    BY <2>2, <2>3 DEF Served
<1>5. ASSUME NEW i \in Present PROVE Config[rows[i].port] \in {None, i}
  <2>1. rows[i].port \in Ports
    BY Rows
  <2>2. \A j \in at(rows[i].port) : j = i
    BY DEF TypeOK
  <2> QED
    BY <1>3, <2>1, <2>2
<1> QED
  BY <1>4, <1>5

\* What the form sends is a row of the same kind, with the count of the page or none.
LEMMA EditsKeep ==
  ASSUME NEW r \in Row, NEW e \in Edits(r)
  PROVE  e \in Row /\ e.used \in {0, r.used}
BY Numbers DEF Edits, Row

LEMMA InitIInv == Init => IInv
<1> SUFFICES ASSUME Init PROVE IInv
  OBVIOUS
<1> DEFINE p0 == CHOOSE p \in Ports : TRUE
<1>1. p0 \in Ports
  OBVIOUS
<1>2. PICK n \in Totals :
        /\ rows = [i \in Ids |-> IF i = 1 THEN [port |-> p0, used |-> 0, total |-> n,
                                                enable |-> TRUE, due |-> FALSE] ELSE None]
        /\ owner = [Empty EXCEPT ![p0] = 1]
  BY DEF Init
<1>3. rows[1] \in Row /\ rows[1].port = p0 /\ rows[1].used = 0
  BY <1>1, <1>2, Numbers DEF Row
<1>4. Present = {1}
  BY <1>2, <1>3, Numbers DEF Present
<1>5. Empty \in Served /\ owner \in Served /\ Zero \in [Ports -> Amounts]
  BY <1>1, <1>2, Numbers DEF Served, Empty, Zero
<1>6. owner[p0] = 1
  BY <1>1, <1>2 DEF Empty
<1>7. TypeOK
  <2>1. rows \in [Ids -> Row \cup {None}]
    BY <1>2, <1>3
  <2>2. \A i, j \in Present : rows[i].port = rows[j].port => i = j
    BY <1>4
  <2>3. page \in [Requests -> Shown \cup {None}] /\ carried \in [Ids -> Amounts]
    BY Numbers DEF Init
  <2>4. begun \in 0..MaxRequests /\ events \in 0..MaxEvents /\ passed \in Amounts
    BY Numbers DEF Init
  <2> QED
    BY <2>1, <2>2, <2>3, <2>4, <1>5 DEF TypeOK, Init
<1>8. Locals
  BY DEF Init, Locals
<1>9. Bounded
  BY <1>3, <1>4, Numbers DEF Init, Bounded, Zero
<1>10. Owned
  BY <1>1, <1>3, <1>4, <1>6 DEF Init, Owned, Zero, Empty
<1>11. Covered
  BY <1>3, <1>4 DEF Init, Covered, RoomFor, Part, Zero
<1> QED
  BY <1>7, <1>8, <1>9, <1>10, <1>11 DEF IInv

-----------------------------------------------------------------------------
(* Steps that move one thing.                                               *)

LEMMA Nothing ==
  /\ Empty \in Served /\ \A p \in Ports : Empty[p] = None
  /\ Zero \in [Ports -> Amounts] /\ \A p \in Ports : Zero[p] = 0
BY Numbers DEF Empty, Served, Zero

LEMMA PartTyped ==
  ASSUME NEW f \in Served, NEW n \in [Ports -> Amounts], NEW p \in Ports, NEW i
  PROVE  Part(f, n, p, i) \in Nat
BY Numbers DEF Part

LEMMA Adding ==
  ASSUME NEW m \in Nat, NEW n \in Nat, NEW a \in Nat, NEW b \in Nat, NEW c \in Nat,
         NEW d \in Nat, NEW k \in Nat,
         m <= n, a + b <= c + d, n + c + d <= k
  PROVE  m + a + b <= k
OBVIOUS

LEMMA LessFits ==
  ASSUME TypeOK, NEW i \in Ids, NEW n \in Nat, NEW m \in Nat, m <= n, RoomFor(i, n)
  PROVE  RoomFor(i, m)
<1>1. carried[i] \in Nat
  BY Numbers DEF TypeOK
<1>2. ASSUME NEW p \in Ports, NEW q \in Ports
      PROVE  m + Part(gotOwner, got, p, i) + Part(owner, bytes, q, i) <= carried[i]
  <2>1. Part(gotOwner, got, p, i) \in Nat /\ Part(owner, bytes, q, i) \in Nat
    BY PartTyped DEF TypeOK
  <2>2. n + Part(gotOwner, got, p, i) + Part(owner, bytes, q, i) <= carried[i]
    BY DEF RoomFor
  <2> QED
    BY <1>1, <2>1, <2>2, Adding
<1> QED
  BY <1>2 DEF RoomFor

\* What a page is worth to the invariant, after the step of t that makes it pg.
LEMMA FormsMove ==
  ASSUME IInv, NEW t \in Requests, NEW l, NEW pg \in Shown \cup {None}, Goto(t, l, pg),
         UNCHANGED <<rows, xrayVars, flagVars, jobVars, events, passed, ghostVars>>,
         begun' \in 0..MaxRequests,
         l \in {"idle", "page", "read", "save", "insert"},
         l = "idle" <=> pg = None,
         l = "insert" => pg.id = None /\ pg.row.used = 0,
         l \in {"page", "read", "save"} => pg.id \in Ids,
         l = "save" => pg.id \in Present \cup raced,
         pg # None =>
            \/ pg.id = None /\ pg.row.used = 0
            \/ pg.id \in Present /\ pg.row.used = rows[pg.id].used
            \/ page[t] # None /\ pg.id = page[t].id /\ pg.row.used <= page[t].row.used
  PROVE  IInv'
<1> USE DEF xrayVars, flagVars, jobVars, ghostVars
<1>1. /\ pc' \in [Requests -> {"idle", "page", "read", "save", "insert"}]
      /\ page' \in [Requests -> Shown \cup {None}]
      /\ \A u \in Requests : /\ u # t => pc'[u] = pc[u] /\ page'[u] = page[u]
                             /\ u = t => pc'[u] = l /\ page'[u] = pg
  BY DEF IInv, TypeOK, Goto
<1>2. Present' = Present
  BY DEF Present
<1>3. pg # None => pg.row.used \in Amounts
  BY DEF Shown, Row
<1>4. \A u \in Requests : page[u] # None => page[u].row.used \in Amounts
  BY Pages DEF IInv
<1>5. TypeOK'
  BY <1>1, <1>2 DEF IInv, TypeOK
<1>6. Locals'
  <2>1. ASSUME NEW u \in Requests
        PROVE  /\ pc'[u] = "idle" => page'[u] = None
               /\ pc'[u] # "idle" => page'[u] # None
               /\ pc'[u] = "insert" => page'[u].id = None /\ page'[u].row.used = 0
               /\ pc'[u] \in {"page", "read", "save"} => page'[u].id \in Ids
               /\ pc'[u] = "save" => page'[u].id \in Present \cup raced
    <3>1. CASE u = t
      BY <3>1, <1>1
    <3>2. CASE u # t
      BY <3>2, <1>1 DEF IInv, Locals
    <3> QED
      BY <3>1, <3>2
  <2> QED
    BY <2>1, <1>2 DEF Locals
<1>7. Bounded'
  <2>1. ASSUME NEW u \in Requests, NEW p \in Ports, NEW q \in Ports, page'[u] # None
        PROVE  page'[u].row.used + got[p] + bytes[q] <= passed
    <3>1. got[p] \in Nat /\ bytes[q] \in Nat /\ passed \in Nat
      BY Numbers DEF IInv, TypeOK
    <3>2. CASE u # t
      BY <2>1, <3>2, <1>1 DEF IInv, Bounded
    <3>3. CASE u = t /\ pg.id = None /\ pg.row.used = 0
      <4>1. page'[u].row.used = 0
        BY <3>3, <1>1
      <4> QED
        BY <3>1, <4>1 DEF IInv, Bounded
    <3>4. CASE u = t /\ pg.id \in Present /\ pg.row.used = rows[pg.id].used
      BY <3>4, <1>1 DEF IInv, Bounded
    <3>5. CASE u = t /\ page[t] # None /\ pg.row.used <= page[t].row.used
      <4>1. page'[u].row.used \in Nat /\ page[t].row.used \in Nat
        BY <2>1, <3>5, <1>1, <1>3, <1>4, Numbers
      <4>2. page[t].row.used + got[p] + bytes[q] <= passed
        BY <3>5 DEF IInv, Bounded
      <4>3. page'[u].row.used <= page[t].row.used
        BY <3>5, <1>1
      <4> QED
        BY <3>1, <4>1, <4>2, <4>3
    <3> QED
      BY <2>1, <3>2, <3>3, <3>4, <3>5, <1>1
  <2> QED
    BY <2>1, <1>2 DEF IInv, Bounded
<1>8. Owned'
  BY <1>2 DEF IInv, Owned
<1>9. Covered'
  <2>1. ASSUME NEW i \in Ids, NEW u \in Requests, i \notin inherited, page'[u] # None,
               page'[u].id = i
        PROVE  RoomFor(i, page'[u].row.used)
    <3>1. CASE u # t
      BY <2>1, <3>1, <1>1 DEF IInv, Covered
    <3>2. CASE u = t /\ i \in Present /\ pg.row.used = rows[i].used
      BY <2>1, <3>2, <1>1 DEF IInv, Covered
    <3>3. CASE u = t /\ page[t] # None /\ page[t].id = i /\ pg.row.used <= page[t].row.used
      <4>1. RoomFor(i, page[t].row.used)
        BY <2>1, <3>3 DEF IInv, Covered
      <4>2. page'[u].row.used \in Nat /\ page[t].row.used \in Nat
            /\ page'[u].row.used <= page[t].row.used
        BY <2>1, <3>3, <1>1, <1>3, <1>4, Numbers
      <4> QED
        BY <4>1, <4>2, LessFits DEF IInv
    <3> QED
      BY <2>1, <3>1, <3>2, <3>3, <1>1, NullAssumption
  <2>2. \A i \in Ids : \A n : RoomFor(i, n) => RoomFor(i, n)'
    BY DEF RoomFor, Part
  <2> QED
    BY <2>1, <2>2, <1>2 DEF IInv, Covered
<1> QED
  BY <1>5, <1>6, <1>7, <1>8, <1>9 DEF IInv

\* Rows change, but neither their ports nor their counts.
LEMMA RowsKeep ==
  ASSUME IInv, rows' \in [Ids -> Row \cup {None}], Present' = Present,
         \A i \in Present : rows'[i].port = rows[i].port /\ rows'[i].used = rows[i].used,
         need' \in BOOLEAN, events' \in 0..MaxEvents,
         UNCHANGED <<xrayVars, restart, snapshot, failed, jobVars, reqVars, passed, ghostVars>>
  PROVE  IInv'
<1> USE DEF xrayVars, jobVars, reqVars, ghostVars
<1>1. TypeOK'
  BY DEF IInv, TypeOK
<1>2. Locals'
  BY DEF IInv, Locals
<1>3. Bounded'
  BY DEF IInv, Bounded
<1>4. Owned'
  BY DEF IInv, Owned
<1>5. Covered'
  BY DEF IInv, Covered, RoomFor, Part
<1> QED
  BY <1>1, <1>2, <1>3, <1>4, <1>5 DEF IInv

\* Counts and what a port stands for move between xray, a restart and the job, or go.
CountsTyped ==
    /\ running' \in BOOLEAN /\ owner' \in Served /\ bytes' \in [Ports -> Amounts]
    /\ need' \in BOOLEAN /\ restart' \in {"idle", "swap"} /\ snapshot' \in Served
    /\ failed' \in BOOLEAN /\ job' \in {"idle", "add"} /\ gotOwner' \in Served
    /\ got' \in [Ports -> Amounts] /\ events' \in 0..MaxEvents /\ disturbed' \subseteq Ids

OwnersMove ==
    \A p \in Ports :
        /\ {owner'[p], snapshot'[p], gotOwner'[p]}
              \subseteq {owner[p], snapshot[p], gotOwner[p], None}
        /\ bytes'[p] > 0 => owner'[p] # None
        /\ got'[p] > 0 => gotOwner'[p] # None

NothingAdded ==
    \A p, q \in Ports : \E r \in Ports :
        /\ got'[p] + bytes'[q] <= got[p] + bytes[r]
        /\ \A i \in Ids : Part(gotOwner, got, p, i)' + Part(owner, bytes, q, i)'
                             <= Part(gotOwner, got, p, i) + Part(owner, bytes, r, i)

LEMMA CountsMove ==
  ASSUME IInv, CountsTyped, OwnersMove, NothingAdded,
         UNCHANGED <<rows, reqVars, passed, carried, inherited, raced>>
  PROVE  IInv'
<1> USE DEF reqVars
<1>1. Present' = Present
  BY DEF Present
<1>2. TypeOK'
  BY <1>1 DEF IInv, TypeOK, CountsTyped
<1>3. Locals'
  BY <1>1 DEF IInv, Locals
<1>4. Bounded'
  <2>1. \A p \in Ports : {got[p], bytes[p], got'[p], bytes'[p]} \subseteq Nat
    BY Numbers DEF IInv, TypeOK, CountsTyped
  <2>2. passed \in Nat /\ \A t \in Requests : page[t] # None => page[t].row.used \in Nat
    BY Pages, Numbers DEF IInv, TypeOK
  <2>3. \A i \in Present : rows[i].used \in Nat
    BY Rows, Numbers DEF IInv
  <2>4. ASSUME NEW p \in Ports, NEW q \in Ports
        PROVE  /\ got'[p] + bytes'[q] <= passed
               /\ \A i \in Present : rows[i].used + got'[p] + bytes'[q] <= passed
               /\ \A t \in Requests :
                    page[t] # None => page[t].row.used + got'[p] + bytes'[q] <= passed
    <3>1. PICK r \in Ports : got'[p] + bytes'[q] <= got[p] + bytes[r]
      BY DEF NothingAdded
    <3>0. got[p] \in Nat /\ bytes[r] \in Nat /\ got'[p] \in Nat /\ bytes'[q] \in Nat
      BY <2>1
    <3>2. got[p] + bytes[r] <= passed
      BY DEF IInv, Bounded
    <3>3. \A i \in Present : rows[i].used + got'[p] + bytes'[q] <= passed
      <4> TAKE i \in Present
      <4>1. rows[i].used + got[p] + bytes[r] <= passed
        BY DEF IInv, Bounded
      <4> QED
        BY <3>1, <4>1, <3>0, <2>2, <2>3
    <3>4. ASSUME NEW t \in Requests, page[t] # None
          PROVE  page[t].row.used + got'[p] + bytes'[q] <= passed
      <4>1. page[t].row.used + got[p] + bytes[r] <= passed
        BY <3>4 DEF IInv, Bounded
      <4> QED
        BY <3>1, <3>4, <4>1, <3>0, <2>2
    <3>5. got'[p] + bytes'[q] <= passed
      BY <3>0, <3>1, <3>2, <2>2
    <3> QED
      BY <3>3, <3>4, <3>5
  <2> QED
    BY <2>4, <1>1 DEF IInv, Bounded
<1>5. Owned'
  <2>1. ASSUME NEW i \in Present \ inherited
        PROVE  {owner'[rows[i].port], snapshot'[rows[i].port], gotOwner'[rows[i].port]}
                  \subseteq {None, i}
    <3>1. rows[i].port \in Ports
      BY Rows DEF IInv
    <3>2. {owner[rows[i].port], snapshot[rows[i].port], gotOwner[rows[i].port]}
             \subseteq {None, i}
      BY DEF IInv, Owned
    <3> QED
      BY <3>1, <3>2 DEF OwnersMove
  <2> QED
    BY <2>1, <1>1 DEF Owned, OwnersMove
<1>6. Covered'
  <2>1. ASSUME NEW i \in Ids, NEW n \in Nat, RoomFor(i, n) PROVE RoomFor(i, n)'
    <3>1. carried[i] \in Nat /\ carried'[i] = carried[i]
      BY Numbers DEF IInv, TypeOK
    <3>2. ASSUME NEW p \in Ports
          PROVE  /\ Part(gotOwner, got, p, i) \in Nat /\ Part(owner, bytes, p, i) \in Nat
                 /\ Part(gotOwner, got, p, i)' \in Nat /\ Part(owner, bytes, p, i)' \in Nat
      BY Numbers DEF IInv, TypeOK, Part, Served, CountsTyped
    <3>3. ASSUME NEW p \in Ports, NEW q \in Ports
          PROVE  n + Part(gotOwner, got, p, i)' + Part(owner, bytes, q, i)' <= carried[i]
      <4>1. PICK r \in Ports : Part(gotOwner, got, p, i)' + Part(owner, bytes, q, i)'
                                 <= Part(gotOwner, got, p, i) + Part(owner, bytes, r, i)
        BY DEF NothingAdded
      <4>2. n + Part(gotOwner, got, p, i) + Part(owner, bytes, r, i) <= carried[i]
        BY <2>1 DEF RoomFor
      <4> DEFINE a == Part(gotOwner, got, p, i)'  b == Part(owner, bytes, q, i)'
                 c == Part(gotOwner, got, p, i)   d == Part(owner, bytes, r, i)
      <4>3. a \in Nat /\ b \in Nat /\ c \in Nat /\ d \in Nat
        BY <3>2
      <4>4. a + b <= c + d /\ n + c + d <= carried[i]
        BY <4>1, <4>2
      <4> HIDE DEF a, b, c, d
      <4>5. n + a + b <= carried[i]
        BY <4>3, <4>4, <3>1
      <4> QED
        BY <4>5 DEF a, b
    <3> QED
      BY <3>1, <3>3 DEF RoomFor
  <2>2. /\ \A i \in Present : rows[i].used \in Nat
        /\ \A t \in Requests : page[t] # None => page[t].row.used \in Nat
    BY Rows, Pages, Numbers DEF IInv
  <2> QED
    BY <2>1, <2>2, <1>1 DEF IInv, Covered
<1> QED
  BY <1>2, <1>3, <1>4, <1>5, <1>6 DEF IInv

-----------------------------------------------------------------------------
(* Requests.                                                                *)

LEMMA Finishes ==
  ASSUME IInv, NEW t \in Requests, Finish(t),
         UNCHANGED <<rows, xrayVars, flagVars, jobVars, begun, events, passed, ghostVars>>
  PROVE  IInv'
BY FormsMove DEF Finish, IInv, TypeOK

LEMMA AddInboundKeeps == ASSUME IInv, NEW t \in Requests, AddInbound(t) PROVE IInv'
<1>1. PICK p \in Ports, n \in Totals :
        Goto(t, "insert", [id |-> None, row |-> [port |-> p, used |-> 0, total |-> n,
                                                 enable |-> TRUE, due |-> FALSE]])
  BY DEF AddInbound
<1> DEFINE r  == [port |-> p, used |-> 0, total |-> n, enable |-> TRUE, due |-> FALSE]
           pg == [id |-> None, row |-> r]
<1>2. r \in Row /\ r.used = 0
  BY Numbers DEF Row
<1> HIDE DEF r
<1>3. pg \in Shown /\ pg.id = None /\ pg.row.used = 0
  BY <1>2 DEF Shown
<1>4. pg # None
  BY <1>3
<1>5. begun' \in 0..MaxRequests
  BY DEF AddInbound, Begins, IInv, TypeOK
<1>6. Goto(t, "insert", pg)
  BY <1>1 DEF r
<1> HIDE DEF pg
<1> QED
  BY <1>3, <1>4, <1>5, <1>6, FormsMove DEF AddInbound

LEMMA ShowPageKeeps == ASSUME IInv, NEW t \in Requests, ShowPage(t) PROVE IInv'
<1>1. PICK i \in Present : Goto(t, "page", [id |-> i, row |-> rows[i]])
  BY DEF ShowPage
<1> DEFINE pg == [id |-> i, row |-> rows[i]]
<1>2. pg \in Shown /\ pg # None /\ pg.id \in Ids /\ pg.id \in Present
      /\ pg.row.used = rows[pg.id].used
  BY Rows DEF Shown, IInv
<1>3. begun' \in 0..MaxRequests
  BY DEF ShowPage, Begins, IInv, TypeOK
<1>4. Goto(t, "page", pg)
  BY <1>1
<1> HIDE DEF pg
<1> QED
  BY <1>2, <1>3, <1>4, FormsMove DEF ShowPage

LEMMA SubmitKeeps == ASSUME IInv, NEW t \in Requests, Submit(t) PROVE IInv'
<1>1. page[t] # None /\ page[t].id \in Ids
  BY DEF Submit, IInv, Locals
<1>2. PICK r \in Edits(page[t].row) :
        IF checkPortExist(r.port, page[t].id) THEN Finish(t)
        ELSE Goto(t, "read", [page[t] EXCEPT !.row = r])
  BY DEF Submit
<1>3. CASE Finish(t)
  BY <1>3, Finishes DEF Submit, reqVars
<1>4. CASE Goto(t, "read", [page[t] EXCEPT !.row = r])
  <2> DEFINE pg == [page[t] EXCEPT !.row = r]
  <2>1. r \in Row /\ r.used \in {0, page[t].row.used} /\ page[t] \in Shown
        /\ page[t].row.used \in Nat
    BY <1>1, Pages, EditsKeep, Numbers DEF IInv
  <2>2. pg \in Shown /\ pg.id = page[t].id /\ pg.row = r
    BY <2>1 DEF Shown
  <2>3. pg # None /\ pg.row.used <= page[t].row.used
    BY <2>1, <2>2
  <2>4. begun' \in 0..MaxRequests
    BY DEF Submit, IInv, TypeOK
  <2>5. Goto(t, "read", pg)
    BY <1>4
  <2> HIDE DEF pg
  <2> QED
    BY <1>1, <2>2, <2>3, <2>4, <2>5, FormsMove DEF Submit
<1> QED
  BY <1>2, <1>3, <1>4

LEMMA GetInboundKeeps == ASSUME IInv, NEW t \in Requests, GetInbound(t) PROVE IInv'
<1>1. page[t] # None /\ page[t] \in Shown /\ page[t].id \in Ids /\ page[t].row.used \in Nat
  BY Pages, Numbers DEF GetInbound, IInv, Locals
<1>2. CASE page[t].id \in Present
  <2>1. Goto(t, "save", page[t]) /\ begun' \in 0..MaxRequests
    BY <1>2 DEF GetInbound, IInv, TypeOK
  <2>2. page[t].row.used <= page[t].row.used
    BY <1>1
  <2> QED
    BY <1>1, <1>2, <2>1, <2>2, FormsMove DEF GetInbound
<1>3. CASE page[t].id \notin Present
  BY <1>3, Finishes DEF GetInbound
<1> QED
  BY <1>2, <1>3

-----------------------------------------------------------------------------
(* Jobs and events that change no count of the table.                       *)

LEMMA GetTrafficKeeps == ASSUME IInv, GetTraffic PROVE IInv'
<1> USE DEF GetTraffic, flagVars, ghostVars
<1>1. CountsTyped
  BY Nothing DEF IInv, TypeOK, CountsTyped
<1>2. OwnersMove
  BY Nothing DEF IInv, Owned, OwnersMove
<1>3. NothingAdded
  <2> SUFFICES ASSUME NEW p \in Ports, NEW q \in Ports
               PROVE  /\ got'[p] + bytes'[q] <= got[p] + bytes[p]
                      /\ \A i \in Ids : Part(gotOwner, got, p, i)' + Part(owner, bytes, q, i)'
                             <= Part(gotOwner, got, p, i) + Part(owner, bytes, p, i)
    BY DEF NothingAdded
  <2>1. got'[p] = bytes[p] /\ bytes'[q] = 0
    BY Nothing
  <2>2. got[p] \in Nat /\ bytes[p] \in Nat
    BY Numbers DEF IInv, TypeOK
  <2>3. \A i \in Ids : /\ Part(gotOwner, got, p, i)' = Part(owner, bytes, p, i)
                       /\ Part(owner, bytes, q, i)' = 0
    BY <2>1 DEF Part
  <2>4. \A i \in Ids : Part(gotOwner, got, p, i) \in Nat /\ Part(owner, bytes, p, i) \in Nat
    BY <2>2 DEF Part
  <2> QED
    BY <2>1, <2>2, <2>3, <2>4
<1> QED
  BY <1>1, <1>2, <1>3, CountsMove

\* Counts of either side are dropped or stay.
LEMMA CountsDrop ==
  ASSUME IInv, CountsTyped,
         \/ gotOwner' = gotOwner /\ got' = got
         \/ gotOwner' = Empty /\ got' = Zero,
         \/ owner' = owner /\ bytes' = bytes
         \/ owner' \in {snapshot, Empty} /\ bytes' = Zero,
         snapshot' \in {snapshot, Empty},
         UNCHANGED <<rows, reqVars, passed, carried, inherited, raced>>
  PROVE  IInv'
<1>1. \A p \in Ports : /\ \/ gotOwner'[p] = gotOwner[p] /\ got'[p] = got[p]
                          \/ gotOwner'[p] = None /\ got'[p] = 0
                       /\ \/ owner'[p] = owner[p] /\ bytes'[p] = bytes[p]
                          \/ owner'[p] \in {snapshot[p], None} /\ bytes'[p] = 0
                       /\ snapshot'[p] \in {snapshot[p], None}
  BY Nothing
<1>2. OwnersMove
  BY <1>1 DEF IInv, Owned, OwnersMove
<1>3. ASSUME NEW p \in Ports, NEW q \in Ports
      PROVE  /\ got'[p] + bytes'[q] <= got[p] + bytes[q]
             /\ \A i \in Ids : Part(gotOwner, got, p, i)' + Part(owner, bytes, q, i)'
                                  <= Part(gotOwner, got, p, i) + Part(owner, bytes, q, i)
  <2>1. got[p] \in Nat /\ bytes[q] \in Nat
    BY Numbers DEF IInv, TypeOK
  <2>2. got'[p] \in {got[p], 0} /\ bytes'[q] \in {bytes[q], 0}
    BY <1>1
  <2>3. \A i \in Ids :
          /\ Part(gotOwner, got, p, i) \in Nat /\ Part(owner, bytes, q, i) \in Nat
          /\ Part(gotOwner, got, p, i)' \in {Part(gotOwner, got, p, i), 0}
          /\ Part(owner, bytes, q, i)' \in {Part(owner, bytes, q, i), 0}
    BY <2>1, <1>1 DEF Part
  <2> QED
    BY <2>1, <2>2, <2>3
<1>4. NothingAdded
  BY <1>3 DEF NothingAdded
<1> QED
  BY <1>2, <1>4, CountsMove

LEMMA AddTrafficFailsKeeps == ASSUME IInv, AddTrafficFails PROVE IInv'
<1> USE DEF AddTrafficFails, Event, JobEnds, xrayVars, flagVars
<1>1. CountsTyped
  BY Nothing DEF IInv, TypeOK, CountsTyped
<1> QED
  BY <1>1, CountsDrop

LEMMA CrashKeeps == ASSUME IInv, Crash PROVE IInv'
<1> USE DEF Crash, Event, flagVars, jobVars
<1>a. disturbed' \subseteq Ids
  BY DEF IInv, TypeOK, LosesCounts
<1>b. events' \in 0..MaxEvents /\ owner' \in Served /\ bytes' \in [Ports -> Amounts]
  BY Nothing DEF IInv, TypeOK
<1>1. CountsTyped
  BY <1>a, <1>b DEF IInv, TypeOK, CountsTyped
<1> QED
  BY <1>1, CountsDrop

LEMMA RestartFailsKeeps == ASSUME IInv, RestartFails PROVE IInv'
<1> USE DEF RestartFails, RestartEnds, Event, xrayVars, jobVars
<1>1. CountsTyped
  BY Nothing DEF IInv, TypeOK, CountsTyped
<1> QED
  BY <1>1, CountsDrop

LEMMA SwapKeeps == ASSUME IInv, Swap PROVE IInv'
<1> USE DEF Swap, RestartEnds, xrayVars, jobVars
<1>a. ASSUME running /\ owner = snapshot PROVE CountsTyped
  BY <1>a, Nothing DEF IInv, TypeOK, CountsTyped
<1>b. ASSUME ~(running /\ owner = snapshot) PROVE CountsTyped
  BY <1>b, Nothing DEF IInv, TypeOK, CountsTyped, LosesCounts
<1>1. CountsTyped
  BY <1>a, <1>b
<1>2. \/ owner' = owner /\ bytes' = bytes
      \/ owner' = snapshot /\ bytes' = Zero
  OBVIOUS
<1> QED
  BY <1>1, <1>2, CountsDrop

LEMMA DisableKeeps == ASSUME IInv, DisableInvalidInbounds PROVE IInv'
<1> DEFINE over == {i \in Present : rows[i].enable /\ Over(rows[i])}
<1>1. \A i \in Ids : rows'[i] = IF i \in over THEN [rows[i] EXCEPT !.enable = FALSE] ELSE rows[i]
  BY DEF DisableInvalidInbounds
<1>2. \A i \in over : /\ rows'[i] \in Row /\ rows'[i] # None
                      /\ rows'[i].port = rows[i].port /\ rows'[i].used = rows[i].used
  <2> TAKE i \in over
  <2>1. rows[i] \in Row /\ i \in Ids
    BY Rows DEF IInv
  <2>2. rows'[i] = [rows[i] EXCEPT !.enable = FALSE]
    BY <1>1, <2>1
  <2>3. rows'[i] \in Row /\ rows'[i].port = rows[i].port /\ rows'[i].used = rows[i].used
    BY <2>1, <2>2 DEF Row
  <2> QED
    BY <2>3
<1>3. \A i \in Ids \ over : rows'[i] = rows[i]
  BY <1>1
<1>4. rows' \in [Ids -> Row \cup {None}]
  <2>1. rows' = [i \in Ids |-> rows'[i]]
    BY DEF DisableInvalidInbounds
  <2>2. \A i \in Ids : rows'[i] \in Row \cup {None}
    BY <1>2, <1>3 DEF IInv, TypeOK
  <2> QED
    BY <2>1, <2>2
<1>5. Present' = Present
  BY <1>2, <1>3 DEF Present
<1>6. need' \in BOOLEAN /\ events' \in 0..MaxEvents
  BY DEF DisableInvalidInbounds, IInv, TypeOK
<1>7. \A i \in Present : rows'[i].port = rows[i].port /\ rows'[i].used = rows[i].used
  BY <1>2, <1>3 DEF Present
<1> QED
  BY <1>4, <1>5, <1>6, <1>7, RowsKeep DEF DisableInvalidInbounds

LEMMA ExpireKeeps == ASSUME IInv, NEW e \in Ids, Expire(e) PROVE IInv'
<1>1. e \in Present /\ rows[e] \in Row
  BY Rows DEF Expire, IInv
<1>2. /\ rows'[e] \in Row /\ rows'[e] # None
      /\ rows'[e].port = rows[e].port /\ rows'[e].used = rows[e].used
  BY <1>1 DEF Expire, Row, IInv, TypeOK
<1>3. \A i \in Ids : i # e => rows'[i] = rows[i]
  BY DEF Expire, IInv, TypeOK
<1>4. rows' \in [Ids -> Row \cup {None}]
  BY <1>2, <1>3 DEF Expire, IInv, TypeOK
<1>5. Present' = Present
  BY <1>1, <1>2, <1>3 DEF Present
<1>6. need' \in BOOLEAN /\ events' \in 0..MaxEvents
  BY DEF Expire, Event, flagVars, IInv, TypeOK
<1>7. \A i \in Present : rows'[i].port = rows[i].port /\ rows'[i].used = rows[i].used
  BY <1>2, <1>3 DEF Present
<1> QED
  BY <1>4, <1>5, <1>6, <1>7, RowsKeep DEF Expire, flagVars

-----------------------------------------------------------------------------
(* Steps that change rows, ports or counts.                                 *)

LEMMA RestartXrayKeeps == ASSUME IInv, RestartXray PROVE IInv'
<1> USE DEF RestartXray, xrayVars, jobVars, reqVars, ghostVars
<1>0. Config \in Served /\ \A i \in Present : Config[rows[i].port] \in {None, i}
  BY ConfigServes DEF IInv
<1>1. TypeOK'
  BY <1>0 DEF IInv, TypeOK, Present
<1>2. Locals'
  BY DEF IInv, Locals, Present
<1>3. Bounded'
  BY DEF IInv, Bounded, Present
<1>4. Owned'
  BY <1>0 DEF IInv, Owned, Present
<1>5. Covered'
  BY DEF IInv, Covered, RoomFor, Part, Present
<1> QED
  BY <1>1, <1>2, <1>3, <1>4, <1>5 DEF IInv

LEMMA DelInboundKeeps == ASSUME IInv, NEW d \in Ids, DelInbound(d) PROVE IInv'
<1> USE DEF DelInbound, Event, xrayVars, jobVars, reqVars
<1>1. Present' = Present \ {d} /\ \A i \in Present' : rows'[i] = rows[i]
  BY DEF Present, IInv, TypeOK
<1>2. TypeOK'
  <2>1. /\ rows' \in [Ids -> Row \cup {None}] /\ raced' \subseteq Ids
        /\ events' \in 0..MaxEvents
    BY DEF IInv, TypeOK
  <2> QED
    BY <1>1, <2>1 DEF IInv, TypeOK
<1>3. Locals'
  <2>1. \A t \in Requests : pc[t] = "save" => page[t].id \in Present' \cup raced'
    BY <1>1 DEF IInv, Locals
  <2> QED
    BY <2>1 DEF IInv, Locals
<1>4. Bounded'
  BY <1>1 DEF IInv, Bounded
<1>5. Owned'
  BY <1>1 DEF IInv, Owned
<1>6. Covered'
  BY <1>1 DEF IInv, Covered, RoomFor, Part
<1> QED
  BY <1>2, <1>3, <1>4, <1>5, <1>6 DEF IInv

\* Traffic that passes is in xray and has been carried.
LEMMA CarryKeeps == ASSUME IInv, NEW c \in Ports, Carry(c) PROVE IInv'
<1> USE DEF Carry, flagVars, jobVars, reqVars
<1>0. /\ owner[c] \in Ids /\ owner \in Served /\ gotOwner \in Served
      /\ passed \in Nat /\ carried \in [Ids -> Nat] /\ bytes \in [Ports -> Nat]
      /\ got \in [Ports -> Nat] /\ passed' = passed + 1 /\ passed' \in Amounts
  BY Numbers DEF IInv, TypeOK, Served, Amounts
<1>1. /\ Present' = Present
      /\ \A p \in Ports : bytes'[p] = IF p = c THEN bytes[p] + 1 ELSE bytes[p]
      /\ \A i \in Ids : carried'[i] = IF i = owner[c] THEN carried[i] + 1 ELSE carried[i]
  BY <1>0 DEF Present
<1>2. /\ \A p \in Ports : got[p] + bytes[p] <= passed
      /\ \A i \in Ids : carried[i] <= passed
  BY DEF IInv, Bounded
<1>3. /\ \A i \in Present : rows[i].used \in Nat
      /\ \A t \in Requests : page[t] # None => page[t].row.used \in Nat
  BY Rows, Pages, Numbers DEF IInv
<1>4. TypeOK'
  <2>1. ASSUME NEW p \in Ports PROVE bytes[p] <= passed
    BY <1>0, <1>2
  <2>2. bytes' \in [Ports -> Amounts] /\ carried' \in [Ids -> Amounts]
    <3>1. \A p \in Ports : bytes'[p] \in Amounts
      BY <1>0, <1>1, <2>1, BoundAssumption DEF Amounts
    <3>2. \A i \in Ids : carried'[i] \in Amounts
      BY <1>0, <1>1, <1>2, BoundAssumption DEF Amounts
    <3> QED
      BY <3>1, <3>2, <1>0 DEF IInv, TypeOK
  <2> QED
    BY <1>0, <2>2 DEF IInv, TypeOK, Present
<1>5. Locals'
  BY <1>1 DEF IInv, Locals
<1>6. Bounded'
  <2>1. ASSUME NEW p \in Ports, NEW q \in Ports, NEW n \in Nat, n + got[p] + bytes[q] <= passed
        PROVE  n + got'[p] + bytes'[q] <= passed'
    BY <2>1, <1>0, <1>1
  <2>2. ASSUME NEW p \in Ports, NEW q \in Ports PROVE got'[p] + bytes'[q] <= passed'
    <3>1. got[p] + bytes[q] <= passed
      BY DEF IInv, Bounded
    <3> QED
      BY <3>1, <1>0, <1>1
  <2>3. \A i \in Ids : carried'[i] <= passed'
    BY <1>0, <1>1, <1>2
  <2>4. \A i \in Present, p, q \in Ports : rows'[i].used + got'[p] + bytes'[q] <= passed'
    BY <2>1, <1>3 DEF IInv, Bounded
  <2>5. \A t \in Requests, p, q \in Ports :
          page'[t] # None => page'[t].row.used + got'[p] + bytes'[q] <= passed'
    BY <2>1, <1>3 DEF IInv, Bounded
  <2> QED
    BY <2>2, <2>3, <2>4, <2>5, <1>1 DEF Bounded
<1>7. Owned'
  BY <1>0, <1>1, NullAssumption DEF IInv, Owned
<1>8. Covered'
  <2>1. ASSUME NEW i \in Ids, NEW n \in Nat, RoomFor(i, n) PROVE RoomFor(i, n)'
    <3>1. ASSUME NEW p \in Ports, NEW q \in Ports
          PROVE  n + Part(gotOwner, got, p, i)' + Part(owner, bytes, q, i)' <= carried'[i]
      <4>1. n + Part(gotOwner, got, p, i) + Part(owner, bytes, q, i) <= carried[i]
        BY <2>1 DEF RoomFor
      <4>2. /\ Part(gotOwner, got, p, i)' = Part(gotOwner, got, p, i)
            /\ Part(owner, bytes, q, i)' = IF q = c /\ owner[c] = i
                                           THEN Part(owner, bytes, q, i) + 1
                                           ELSE Part(owner, bytes, q, i)
        BY <1>1 DEF Part
      <4>3. Part(gotOwner, got, p, i) \in Nat /\ Part(owner, bytes, q, i) \in Nat
        BY <1>0 DEF Part
      <4> QED
        BY <4>1, <4>2, <4>3, <1>0, <1>1
    <3> QED
      BY <3>1 DEF RoomFor
  <2> QED
    BY <2>1, <1>1, <1>3 DEF IInv, Covered
<1> QED
  BY <1>4, <1>5, <1>6, <1>7, <1>8 DEF IInv

\* What the job has read goes to the rows; nobody else's traffic goes to a row that took
\* nothing over.
LEMMA AddTrafficKeeps == ASSUME IInv, AddTraffic PROVE IInv'
<1>a. /\ job' = "idle" /\ gotOwner' = Empty /\ got' = Zero
      /\ UNCHANGED <<passed, xrayVars, flagVars, reqVars, events, carried, inherited, raced>>
  BY DEF AddTraffic, JobEnds
<1>b. /\ rows' = [i \in Ids |-> rows'[i]]
      /\ \A i \in Ids : rows'[i] = IF i \in Present
                                  THEN [rows[i] EXCEPT !.used = rows[i].used + got[rows[i].port]]
                                  ELSE None
  BY DEF AddTraffic
<1>c. disturbed' \subseteq Ids
  BY DEF AddTraffic, IInv, TypeOK
<1> USE DEF xrayVars, flagVars, reqVars
<1>0. /\ owner \in Served /\ gotOwner \in Served /\ passed \in Nat /\ passed <= MaxTraffic
      /\ carried \in [Ids -> Nat] /\ bytes \in [Ports -> Nat] /\ got \in [Ports -> Nat]
  BY Numbers DEF IInv, TypeOK, Amounts
<1>1. ASSUME NEW i \in Present
      PROVE  /\ rows[i] \in Row /\ rows[i].port \in Ports /\ rows[i].used \in Nat /\ i \in Ids
             /\ rows'[i] = [rows[i] EXCEPT !.used = rows[i].used + got[rows[i].port]]
  BY <1>b, Rows, Numbers DEF IInv
<1>2. ASSUME NEW i \in Present
      PROVE  /\ rows'[i].port = rows[i].port
             /\ rows'[i].used = rows[i].used + got[rows[i].port]
             /\ rows'[i].used \in Amounts
             /\ rows'[i] \in Row /\ rows'[i] # None
  <2>1. rows[i].used + got[rows[i].port] + bytes[rows[i].port] <= passed
    BY <1>1 DEF IInv, Bounded
  <2>2. got[rows[i].port] \in Nat /\ bytes[rows[i].port] \in Nat
    BY <1>0, <1>1
  <2>3. rows[i].used + got[rows[i].port] \in Amounts
    <3>1. MaxTraffic \in Nat /\ passed \in Nat /\ passed <= MaxTraffic /\ rows[i].used \in Nat
      BY <1>0, <1>1, BoundAssumption
    <3>2. rows[i].used + got[rows[i].port] <= MaxTraffic
      BY <3>1, <2>1, <2>2
    <3> QED
      BY <3>1, <3>2, <2>2 DEF Amounts
  <2> DEFINE n == rows[i].used + got[rows[i].port]
  <2>4. rows'[i] = [rows[i] EXCEPT !.used = n] /\ n \in Amounts
    BY <1>1, <2>3
  <2> HIDE DEF n
  <2>5. rows'[i] \in Row /\ rows'[i].port = rows[i].port /\ rows'[i].used = n
    BY <1>1, <2>4 DEF Row
  <2> QED
    BY <2>4, <2>5, NullAssumption DEF n
<1>3. \A i \in Ids : i \notin Present => rows'[i] = None
  BY <1>b
<1>4. Present' = Present
  BY <1>2, <1>3 DEF Present
<1>5. TypeOK'
  <2>1. rows' \in [Ids -> Row \cup {None}]
    <3>1. \A i \in Ids : rows'[i] \in Row \cup {None}
      BY <1>2, <1>3
    <3> QED
      BY <3>1, <1>b
  <2>2. \A i, j \in Present' : rows'[i].port = rows'[j].port => i = j
    <3>1. \A i, j \in Present : rows[i].port = rows[j].port => i = j
      BY DEF IInv, TypeOK
    <3>2. \A i \in Present : rows'[i].port = rows[i].port
      BY <1>2
    <3> QED
      BY <3>1, <3>2, <1>4
  <2> QED
    BY <2>1, <2>2, <1>a, <1>c, Nothing DEF IInv, TypeOK
<1>6. Locals'
  BY <1>4, <1>a DEF IInv, Locals
<1>7. Bounded'
  <2>1. ASSUME NEW p \in Ports PROVE got'[p] = 0 /\ bytes'[p] = bytes[p]
    BY <1>a, Nothing
  <2>2. ASSUME NEW p \in Ports, NEW q \in Ports PROVE got'[p] + bytes'[q] <= passed
    <3>1. got[p] + bytes[q] <= passed
      BY DEF IInv, Bounded
    <3> QED
      BY <3>1, <2>1, <1>0
  <2>3. ASSUME NEW i \in Present, NEW p \in Ports, NEW q \in Ports
        PROVE  rows'[i].used + got'[p] + bytes'[q] <= passed
    <3>1. rows[i].used + got[rows[i].port] + bytes[q] <= passed
      BY <1>1 DEF IInv, Bounded
    <3>2. rows'[i].used = rows[i].used + got[rows[i].port] /\ rows'[i].used \in Nat
      BY <1>2, Numbers
    <3>3. bytes[q] \in Nat /\ got'[p] = 0 /\ bytes'[q] = bytes[q]
      BY <2>1, <1>0
    <3> QED
      BY <3>1, <3>2, <3>3
  <2>4. ASSUME NEW t \in Requests, page[t] # None, NEW p \in Ports, NEW q \in Ports
        PROVE  page[t].row.used + got'[p] + bytes'[q] <= passed
    <3>1. page[t].row.used + got[p] + bytes[q] <= passed
      BY <2>4 DEF IInv, Bounded
    <3>2. page[t].row.used \in Nat
      BY <2>4, Pages, Numbers DEF IInv
    <3> QED
      BY <3>1, <3>2, <2>1, <1>0
  <2> QED
    BY <2>2, <2>3, <2>4, <1>4, <1>a DEF IInv, Bounded
<1>8. Owned'
  <2>1. ASSUME NEW i \in Present \ inherited
        PROVE  /\ owner[rows'[i].port] \in {None, i}
               /\ snapshot[rows'[i].port] \in {None, i}
               /\ gotOwner'[rows'[i].port] \in {None, i}
    <3>1. rows'[i].port = rows[i].port /\ rows[i].port \in Ports
      BY <1>1, <1>2
    <3>2. gotOwner'[rows[i].port] = None
      BY <3>1, <1>a, Nothing
    <3> QED
      BY <3>1, <3>2 DEF IInv, Owned
  <2>2. \A p \in Ports : /\ bytes[p] > 0 => owner[p] # None
                         /\ got'[p] = 0
    BY <1>a, Nothing DEF IInv, Owned
  <2> QED
    BY <2>1, <2>2, <1>4, <1>a DEF Owned
<1>9. Covered'
  <2>1. ASSUME NEW i \in Ids, NEW p \in Ports
        PROVE  /\ Part(gotOwner, got, p, i)' = 0
               /\ Part(owner, bytes, p, i)' = Part(owner, bytes, p, i)
               /\ Part(gotOwner, got, p, i) \in Nat /\ Part(owner, bytes, p, i) \in Nat
    BY <1>a, <1>0, Nothing, NullAssumption DEF Part
  <2>2. ASSUME NEW i \in Present, i \notin inherited PROVE RoomFor(i, rows[i].used)'
    <3> DEFINE o == rows[i].port
    <3>1. gotOwner[o] \in {None, i} /\ (got[o] > 0 => gotOwner[o] # None) /\ got[o] \in Nat
      BY <2>2, <1>0, <1>1 DEF IInv, Owned
    <3>2. Part(gotOwner, got, o, i) = got[o]
      BY <3>1 DEF Part
    <3>3. ASSUME NEW q \in Ports
          PROVE  rows[i].used + got[o] + Part(owner, bytes, q, i) <= carried[i]
      BY <2>2, <3>2, <1>1 DEF IInv, Covered, RoomFor
    <3>4. ASSUME NEW p \in Ports, NEW q \in Ports
          PROVE  rows'[i].used + Part(gotOwner, got, p, i)' + Part(owner, bytes, q, i)'
                    <= carried'[i]
      <4>1. rows'[i].used = rows[i].used + got[o] /\ rows'[i].used \in Nat
        BY <1>2, Numbers
      <4>2. /\ Part(gotOwner, got, p, i)' = 0 /\ carried'[i] = carried[i]
            /\ Part(owner, bytes, q, i)' = Part(owner, bytes, q, i)
            /\ Part(owner, bytes, q, i) \in Nat
        BY <2>1, <1>1, <1>a
      <4> QED
        BY <4>1, <4>2, <3>3
    <3> QED
      BY <3>4 DEF RoomFor
  <2>3. ASSUME NEW i \in Ids, NEW n \in Nat, RoomFor(i, n) PROVE RoomFor(i, n)'
    <3>1. ASSUME NEW p \in Ports, NEW q \in Ports
          PROVE  n + Part(gotOwner, got, p, i)' + Part(owner, bytes, q, i)' <= carried'[i]
      <4>1. n + Part(gotOwner, got, p, i) + Part(owner, bytes, q, i) <= carried[i]
        BY <2>3 DEF RoomFor
      <4> QED
        BY <4>1, <2>1, <1>0, <1>a
    <3> QED
      BY <3>1 DEF RoomFor
  <2>4. \A t \in Requests : page[t] # None => page[t].row.used \in Nat
    BY Pages, Numbers DEF IInv
  <2> QED
    BY <2>2, <2>3, <2>4, <1>4, <1>a DEF IInv, Covered
<1> QED
  BY <1>5, <1>6, <1>7, <1>8, <1>9 DEF IInv

\* A row is put under an id, new or not, and the request that did it is done.
PutsRow(t, i, r) ==
    /\ rows' = [rows EXCEPT ![i] = r] /\ need' = TRUE
    /\ Finish(t)
    /\ UNCHANGED <<passed, xrayVars, restart, snapshot, failed, jobVars, begun, events>>

RoomAfter(i, used) ==
    \A p, q \in Ports :
        used + Part(gotOwner', got', p, i) + Part(owner', bytes', q, i) <= carried'[i]

\* What must be true of it for that to keep the invariant.
TakesNothing(i, r) ==
    i \notin inherited' =>
        /\ owner[r.port] \in {None, i} /\ snapshot[r.port] \in {None, i}
        /\ gotOwner[r.port] \in {None, i}
        /\ RoomAfter(i, r.used)
        /\ \A t \in Requests :
             page'[t] # None /\ page'[t].id = i => RoomAfter(i, page'[t].row.used)

LEMMA PutsRowKeeps ==
  ASSUME IInv, NEW t \in Requests, NEW i \in Ids, NEW r \in Row, PutsRow(t, i, r),
         ~checkPortExist(r.port, i),
         \A p, q \in Ports : r.used + got[p] + bytes[q] <= passed,
         TakesNothing(i, r),
         carried' \in [Ids -> Amounts], carried'[i] <= passed,
         inherited' \subseteq Ids, disturbed' \subseteq Ids, raced' \subseteq Ids,
         \A j \in Ids \ {i} : /\ carried'[j] = carried[j]
                              /\ j \in inherited' <=> j \in inherited
                              /\ j \in raced' <=> j \in raced
  PROVE  IInv'
<1>1. /\ Present' = Present \cup {i} /\ rows'[i] = r /\ r # None
      /\ \A j \in Present' : j # i => j \in Present /\ rows'[j] = rows[j]
      /\ rows' \in [Ids -> Row \cup {None}]
  BY NullAssumption DEF PutsRow, Present, IInv, TypeOK
<1>2. /\ pc' \in [Requests -> {"idle", "page", "read", "save", "insert"}]
      /\ page' \in [Requests -> Shown \cup {None}]
      /\ pc'[t] = "idle" /\ page'[t] = None
      /\ \A u \in Requests : u # t => pc'[u] = pc[u] /\ page'[u] = page[u]
  BY DEF PutsRow, Finish, Goto, IInv, TypeOK
<1>3. UNCHANGED <<passed, running, owner, bytes, restart, snapshot, failed, job, gotOwner, got,
                  begun, events>> /\ need' = TRUE
  BY DEF PutsRow, xrayVars, jobVars
<1>4. TypeOK'
  <2>1. \A j, k \in Present' : rows'[j].port = rows'[k].port => j = k
    <3>1. \A j \in Present : j # i => rows[j].port # r.port
      BY DEF checkPortExist
    <3>2. \A j, k \in Present : rows[j].port = rows[k].port => j = k
      BY DEF IInv, TypeOK
    <3> QED
      BY <3>1, <3>2, <1>1
  <2> QED
    BY <2>1, <1>1, <1>2, <1>3 DEF IInv, TypeOK
<1>5. Locals'
  <2>1. ASSUME NEW u \in Requests
        PROVE  /\ pc'[u] = "idle" => page'[u] = None
               /\ pc'[u] # "idle" => page'[u] # None
               /\ pc'[u] = "insert" => page'[u].id = None /\ page'[u].row.used = 0
               /\ pc'[u] \in {"page", "read", "save"} => page'[u].id \in Ids
               /\ pc'[u] = "save" => page'[u].id \in Present' \cup raced'
    <3>1. CASE u = t
      BY <3>1, <1>2
    <3>2. CASE u # t
      BY <3>2, <1>1, <1>2 DEF IInv, Locals
    <3> QED
      BY <3>1, <3>2
  <2> QED
    BY <2>1 DEF Locals
<1>6. Bounded'
  <2>1. \A j \in Ids : carried'[j] <= passed
    BY DEF IInv, Bounded
  <2>2. \A j \in Present', p, q \in Ports : rows'[j].used + got[p] + bytes[q] <= passed
    BY <1>1 DEF IInv, Bounded
  <2>3. \A u \in Requests, p, q \in Ports :
          page'[u] # None => page'[u].row.used + got[p] + bytes[q] <= passed
    BY <1>2 DEF IInv, Bounded
  <2> QED
    BY <2>1, <2>2, <2>3, <1>3 DEF IInv, Bounded
<1>7. Owned'
  <2>1. \A j \in Present' \ inherited' : /\ owner[rows'[j].port] \in {None, j}
                                         /\ snapshot[rows'[j].port] \in {None, j}
                                         /\ gotOwner[rows'[j].port] \in {None, j}
    BY <1>1 DEF IInv, Owned, TakesNothing, Present
  <2> QED
    BY <2>1, <1>3 DEF IInv, Owned
<1>8. Covered'
  <2>1. ASSUME NEW j \in Ids, j # i, NEW n, RoomFor(j, n) PROVE RoomAfter(j, n)
    BY <2>1, <1>3 DEF RoomFor, RoomAfter
  <2>2. ASSUME NEW j \in Ids, j \notin inherited', j # i
        PROVE  /\ j \in Present' => RoomAfter(j, rows'[j].used)
               /\ \A u \in Requests :
                    page'[u] # None /\ page'[u].id = j => RoomAfter(j, page'[u].row.used)
    <3>1. j \in Present' => RoomFor(j, rows'[j].used)
      BY <2>2, <1>1 DEF IInv, Covered
    <3>2. \A u \in Requests :
            page'[u] # None /\ page'[u].id = j => RoomFor(j, page'[u].row.used)
      BY <2>2, <1>2 DEF IInv, Covered
    <3> QED
      BY <3>1, <3>2, <2>1, <2>2
  <2>3. i \notin inherited' =>
           /\ RoomAfter(i, rows'[i].used)
           /\ \A u \in Requests :
                page'[u] # None /\ page'[u].id = i => RoomAfter(i, page'[u].row.used)
    BY <1>1 DEF TakesNothing
  <2> QED
    BY <2>2, <2>3 DEF Covered, RoomFor, RoomAfter, Part
<1> QED
  BY <1>4, <1>5, <1>6, <1>7, <1>8 DEF IInv

LEMMA InsertKeeps == ASSUME IInv, NEW t \in Requests, Insert(t) PROVE IInv'
<1> DEFINE r == page[t].row
<1>1. r \in Row /\ r.port \in Ports /\ r.used = 0
  BY Pages DEF Insert, IInv, Locals
<1>2. CASE checkPortExist(r.port, None)
  BY <1>2, Finishes DEF Insert, flagVars
<1>3. CASE ~checkPortExist(r.port, None)
  <2>1. PICK i \in Ids :
          /\ rows' = [rows EXCEPT ![i] = r] /\ need' = TRUE
          /\ carried' = [carried EXCEPT ![i] = 0]
          /\ inherited' = IF Holds(i, r.port) \/ OnPage(i)
                          THEN inherited \cup {i} ELSE inherited \ {i}
          /\ disturbed' = IF Holds(i, r.port) THEN disturbed \cup {i} ELSE disturbed \ {i}
          /\ raced' = raced \ {i}
    BY <1>3 DEF Insert
  <2>2. PutsRow(t, i, r)
    BY <2>1 DEF Insert, PutsRow
  <2>3. ~checkPortExist(r.port, i)
    BY <1>3, NullAssumption DEF checkPortExist, Present
  <2>4. \A p, q \in Ports : r.used + got[p] + bytes[q] <= passed
    BY <1>1, Numbers DEF IInv, Bounded, TypeOK
  <2>5. /\ carried' \in [Ids -> Amounts] /\ carried'[i] = 0
        /\ \A j \in Ids \ {i} : carried'[j] = carried[j]
    BY <2>1, Numbers DEF IInv, TypeOK
  <2>6. 0 <= passed
    BY Numbers DEF IInv, TypeOK, Amounts
  <2>7. TakesNothing(i, r)
    <3> SUFFICES ASSUME i \notin inherited'
                 PROVE  /\ owner[r.port] \in {None, i} /\ snapshot[r.port] \in {None, i}
                        /\ gotOwner[r.port] \in {None, i}
                        /\ RoomAfter(i, r.used)
                        /\ \A u \in Requests : ~(page'[u] # None /\ page'[u].id = i)
      BY DEF TakesNothing
    <3>1. ~Holds(i, r.port) /\ ~OnPage(i)
      BY <2>1
    <3>2. /\ \A q \in Ports : owner[q] # i /\ gotOwner[q] # i
          /\ owner[r.port] = None /\ snapshot[r.port] = None /\ gotOwner[r.port] = None
      BY <3>1 DEF Holds
    <3>3. RoomAfter(i, 0)
      BY <2>2, <2>5, <3>2 DEF PutsRow, xrayVars, jobVars, RoomAfter, Part
    <3>4. \A u \in Requests : ~(page'[u] # None /\ page'[u].id = i)
      BY <3>1, <2>2 DEF OnPage, PutsRow, Finish, Goto, IInv, TypeOK
    <3> QED
      BY <3>2, <3>3, <3>4, <1>1
  <2>8. inherited' \subseteq Ids /\ disturbed' \subseteq Ids /\ raced' \subseteq Ids
        /\ \A j \in Ids \ {i} : (j \in inherited' <=> j \in inherited)
                                /\ (j \in raced' <=> j \in raced)
    BY <2>1 DEF IInv, TypeOK
  <2> HIDE DEF r
  <2> QED
    BY <1>1, <2>2, <2>3, <2>4, <2>5, <2>6, <2>7, <2>8, PutsRowKeeps
<1> QED
  BY <1>2, <1>3

LEMMA SaveKeeps == ASSUME IInv, NEW t \in Requests, Save(t) PROVE IInv'
<1> DEFINE r == page[t].row  i == page[t].id
           others == \E f \in {owner, snapshot, gotOwner} : f[r.port] \notin {None, i}
<1>1. page[t] # None /\ i \in Ids /\ r \in Row /\ r.port \in Ports /\ r.used \in Nat
  BY Pages, Numbers DEF Save, IInv, Locals
<1>2. CASE checkPortExist(r.port, i)
  BY <1>2, Finishes DEF Save, flagVars
<1>3. CASE ~checkPortExist(r.port, i)
  <2>1. /\ rows' = [rows EXCEPT ![i] = r] /\ need' = TRUE
        /\ inherited' = IF others THEN inherited \cup {i} ELSE inherited
        /\ disturbed' = IF i \notin Present \/ r.used # rows[i].used
                        THEN disturbed \cup {i} ELSE disturbed
        /\ UNCHANGED <<carried, raced>>
    BY <1>3 DEF Save
  <2>2. PutsRow(t, i, r)
    BY <2>1 DEF Save, PutsRow
  <2>3. \A p, q \in Ports : r.used + got[p] + bytes[q] <= passed
    BY <1>1 DEF IInv, Bounded
  <2>4. carried' \in [Ids -> Amounts] /\ carried'[i] <= passed
    BY <1>1, <2>1 DEF IInv, TypeOK, Bounded
  <2>5. /\ inherited' \subseteq Ids /\ disturbed' \subseteq Ids /\ raced' \subseteq Ids
        /\ \A j \in Ids \ {i} : /\ carried'[j] = carried[j]
                                /\ j \in inherited' <=> j \in inherited
                                /\ j \in raced' <=> j \in raced
    BY <1>1, <2>1 DEF IInv, TypeOK
  <2>6. ASSUME i \notin inherited'
        PROVE  /\ owner[r.port] \in {None, i} /\ snapshot[r.port] \in {None, i}
               /\ gotOwner[r.port] \in {None, i}
               /\ \A u \in Requests : page[u] # None /\ page[u].id = i => RoomFor(i, page[u].row.used)
    <3>1. ~others /\ i \notin inherited
      BY <2>1, <2>6
    <3> QED
      BY <3>1, <1>1 DEF IInv, Covered
  <2>7. \A n : RoomFor(i, n) <=> RoomAfter(i, n)
    BY <2>1, <2>2 DEF PutsRow, xrayVars, jobVars, RoomFor, RoomAfter
  <2>8. \A u \in Requests : page'[u] # None => page'[u] = page[u]
    BY <2>2 DEF PutsRow, Finish, Goto, IInv, TypeOK
  <2>9. TakesNothing(i, r)
    BY <1>1, <2>6, <2>7, <2>8 DEF TakesNothing
  <2> HIDE DEF r, i
  <2> QED
    BY <1>1, <1>3, <2>2, <2>3, <2>4, <2>5, <2>9, PutsRowKeeps
<1> QED
  BY <1>2, <1>3

-----------------------------------------------------------------------------
(* Nothing is lost: the sum of the three places is exact, as a configuration *)
(* has an inbound at one port and the job's hands are empty between two runs. *)

Single(f) == \A p, q \in Ports : f[p] # None /\ f[p] = f[q] => p = q

Exact ==
    /\ Single(owner) /\ Single(snapshot) /\ Single(gotOwner)
    /\ job = "idle" => gotOwner = Empty /\ got = Zero
    /\ NothingLost

LEMMA OfOne ==
  ASSUME NEW f, Single(f), NEW n, NEW p \in Ports, f[p] # None
  PROVE  Of(f, n, f[p]) = n[p]
<1>1. (CHOOSE q \in Ports : f[q] = f[p]) = p
  BY DEF Single
<1> QED
  BY <1>1 DEF Of

LEMMA OfNone ==
  ASSUME NEW f, NEW n, NEW i, \A p \in Ports : f[p] # i
  PROVE  Of(f, n, i) = 0
BY DEF Of

LEMMA OfZero ==
  ASSUME NEW f, NEW n, NEW i, \A p \in Ports : f[p] = i => n[p] = 0
  PROVE  Of(f, n, i) = 0
<1>1. CASE \E p \in Ports : f[p] = i
  <2>1. PICK p \in Ports : p = CHOOSE q \in Ports : f[q] = i
    BY <1>1
  <2>2. f[p] = i
    BY <1>1, <2>1
  <2> QED
    BY <1>1, <2>1, <2>2 DEF Of
<1> QED
  BY <1>1 DEF Of

LEMMA EmptySingle == Single(Empty)
BY Nothing DEF Single

LEMMA ConfigSingle == ASSUME TypeOK PROVE Single(Config)
<1> DEFINE at(p) == {i \in Present : rows[i].port = p /\ rows[i].enable}
<1>1. \A p \in Ports : at(p) # {} => (CHOOSE i \in at(p) : TRUE) \in at(p)
  OBVIOUS
<1>2. \A p \in Ports : Config[p] = None \/ Config[p] \in at(p)
  BY <1>1 DEF Config
<1>3. \A p \in Ports : Config[p] # None => rows[Config[p]].port = p
  BY <1>2
<1> QED
  BY <1>3 DEF Single

\* What xray, the job and the rows hold for an inbound that took nothing over is as before.
LEMMA ExactStays ==
  ASSUME Exact, UNCHANGED <<owner, bytes, job, gotOwner, got>>, Single(snapshot'),
         \A i \in Present' \ (inherited' \cup disturbed') :
            /\ i \in Present /\ i \notin inherited \cup disturbed
            /\ rows'[i].used = rows[i].used /\ carried'[i] = carried[i]
  PROVE  Exact'
<1>1. \A i \in Present' \ (inherited' \cup disturbed') :
        rows'[i].used + Of(gotOwner, got, i) + Of(owner, bytes, i) = carried'[i]
  BY DEF Exact, NothingLost
<1>2. NothingLost'
  BY <1>1 DEF NothingLost, Of
<1> QED
  BY <1>2 DEF Exact, Single

LEMMA InitExact == ASSUME Init PROVE Exact
<1>1. PICK p0 \in Ports, n \in Totals :
        /\ rows = [i \in Ids |-> IF i = 1 THEN [port |-> p0, used |-> 0, total |-> n,
                                                enable |-> TRUE, due |-> FALSE] ELSE None]
        /\ owner = [Empty EXCEPT ![p0] = 1]
  <2> DEFINE p == CHOOSE q \in Ports : TRUE
  <2>1. p \in Ports
    BY PortsAssumption
  <2>2. \E n \in Totals :
          /\ rows = [i \in Ids |-> IF i = 1 THEN [port |-> p, used |-> 0, total |-> n,
                                                  enable |-> TRUE, due |-> FALSE] ELSE None]
          /\ owner = [Empty EXCEPT ![p] = 1]
    BY DEF Init
  <2> HIDE DEF p
  <2> QED
    BY <2>1, <2>2, Zenon
<1>2. Single(owner)
  <2>1. \A p \in Ports : owner[p] = IF p = p0 THEN 1 ELSE None
    BY <1>1 DEF Empty
  <2> QED
    BY <2>1 DEF Single
<1>3. \A i \in Present : rows[i].used = 0 /\ carried[i] = 0
  BY <1>1 DEF Present, Init
<1>4. \A i : Of(gotOwner, got, i) = 0 /\ Of(owner, bytes, i) = 0
  BY OfZero, Nothing DEF Init
<1>5. NothingLost
  BY <1>3, <1>4 DEF NothingLost
<1> QED
  BY <1>2, <1>5, EmptySingle DEF Exact, Init

LEMMA RequestExact == ASSUME IInv, Exact, NEW t \in Requests, Request(t) PROVE Exact'
<1>1. Single(snapshot)
  BY DEF Exact
<1>2. CASE AddInbound(t) \/ ShowPage(t) \/ Submit(t) \/ GetInbound(t)
  <2>1. UNCHANGED <<rows, owner, bytes, job, gotOwner, got, snapshot, inherited, disturbed,
                    carried>>
    BY <1>2 DEF AddInbound, ShowPage, Submit, GetInbound, xrayVars, flagVars, jobVars, ghostVars
  <2> QED
    BY <2>1, <1>1, ExactStays DEF Present
<1>3. CASE Save(t)
  <2>1. /\ UNCHANGED <<owner, bytes, job, gotOwner, got, snapshot>>
        /\ page[t] # None /\ page[t].id \in Ids
    BY <1>3 DEF Save, xrayVars, jobVars, IInv, Locals
  <2>2. CASE UNCHANGED <<rows, need, ghostVars>>
    BY <2>1, <2>2, <1>1, ExactStays DEF Present, ghostVars
  <2>3. CASE ~UNCHANGED <<rows, need, ghostVars>>
    <3> DEFINE r == page[t].row  i == page[t].id
    <3>1. /\ rows' = [rows EXCEPT ![i] = r]
          /\ inherited \subseteq inherited'
          /\ disturbed' = IF i \notin Present \/ r.used # rows[i].used
                          THEN disturbed \cup {i} ELSE disturbed
          /\ carried' = carried
      BY <1>3, <2>3 DEF Save
    <3>2. \A j \in Ids : j # i => rows'[j] = rows[j]
      BY <3>1 DEF IInv, TypeOK
    <3>3. rows'[i] = r
      BY <2>1, <3>1 DEF IInv, TypeOK
    <3>4. \A j \in Present' \ (inherited' \cup disturbed') :
            j \in Present /\ j \notin inherited \cup disturbed /\ rows'[j].used = rows[j].used
      BY <3>1, <3>2, <3>3 DEF Present
    <3> QED
      BY <2>1, <3>1, <3>4, <1>1, ExactStays
  <2> QED
    BY <2>2, <2>3
<1>4. CASE Insert(t)
  <2>1. UNCHANGED <<owner, bytes, job, gotOwner, got, snapshot>>
    BY <1>4 DEF Insert, xrayVars, jobVars
  <2>2. CASE UNCHANGED <<rows, need, ghostVars>>
    BY <2>1, <2>2, <1>1, ExactStays DEF Present, ghostVars
  <2>3. CASE ~UNCHANGED <<rows, need, ghostVars>>
    <3> DEFINE r == page[t].row
    <3>1. r.used = 0
      BY <1>4 DEF Insert, IInv, Locals
    <3>2. PICK i \in Ids :
            /\ rows' = [rows EXCEPT ![i] = r] /\ carried' = [carried EXCEPT ![i] = 0]
            /\ inherited' = IF Holds(i, r.port) \/ OnPage(i)
                            THEN inherited \cup {i} ELSE inherited \ {i}
            /\ disturbed' = IF Holds(i, r.port) THEN disturbed \cup {i} ELSE disturbed \ {i}
      BY <1>4, <2>3 DEF Insert
    <3>3. /\ rows'[i] = r /\ carried'[i] = 0
          /\ \A j \in Ids : j # i => rows'[j] = rows[j] /\ carried'[j] = carried[j]
      BY <3>2 DEF IInv, TypeOK
    <3>4. i \notin inherited' =>
            /\ Of(gotOwner, got, i) = 0 /\ Of(owner, bytes, i) = 0
      <4>1. i \notin inherited' => ~Holds(i, r.port)
        BY <3>2
      <4>2. i \notin inherited' => \A p \in Ports : gotOwner[p] # i /\ owner[p] # i
        BY <4>1 DEF Holds
      <4> QED
        BY <4>2, OfNone
    <3>5. ASSUME NEW j \in Present', j \notin inherited' \cup disturbed'
          PROVE  rows'[j].used + Of(gotOwner, got, j) + Of(owner, bytes, j) = carried'[j]
      <4>1. CASE j = i
        BY <3>1, <3>3, <3>4, <3>5, <4>1
      <4>2. CASE j # i
        <5>1. j \in Present /\ j \notin inherited \cup disturbed
          BY <3>2, <3>3, <3>5, <4>2 DEF Present
        <5> QED
          BY <5>1, <3>3, <4>2 DEF Exact, NothingLost, Present
      <4> QED
        BY <4>1, <4>2
    <3>6. NothingLost'
      BY <3>5, <2>1 DEF NothingLost, Of
    <3> QED
      BY <3>6, <2>1 DEF Exact, Single
  <2> QED
    BY <2>2, <2>3
<1> QED
  BY <1>2, <1>3, <1>4 DEF Request

LEMMA RowsExact ==
  ASSUME IInv, Exact,
         RestartXray \/ DisableInvalidInbounds \/ \E i \in Ids : DelInbound(i) \/ Expire(i)
  PROVE  Exact'
<1>1. UNCHANGED <<owner, bytes, job, gotOwner, got, inherited, disturbed, carried>>
  BY DEF RestartXray, DisableInvalidInbounds, DelInbound, Expire, xrayVars, jobVars, ghostVars
<1>2. Single(snapshot')
  <2>1. snapshot' \in {snapshot, Config}
    BY DEF RestartXray, DisableInvalidInbounds, DelInbound, Expire, flagVars
  <2> QED
    BY <2>1, ConfigSingle DEF Exact, IInv
<1>3. ASSUME NEW i \in Present' PROVE i \in Present /\ rows'[i].used = rows[i].used
  <2>1. CASE RestartXray
    BY <2>1 DEF RestartXray, Present
  <2>2. CASE DisableInvalidInbounds
    <3>1. i \in Ids /\ (rows'[i] = rows[i] \/ rows'[i] = [rows[i] EXCEPT !.enable = FALSE])
          /\ (rows'[i] = rows[i] \/ i \in Present)
      BY <2>2 DEF DisableInvalidInbounds, Present
    <3> QED
      BY <3>1, Rows DEF Present, IInv, Row
  <2>3. ASSUME NEW d \in Ids, DelInbound(d) PROVE i \in Present /\ rows'[i] = rows[i]
    BY <2>3 DEF DelInbound, Present, IInv, TypeOK
  <2>4. ASSUME NEW e \in Ids, Expire(e)
        PROVE  i \in Present /\ rows'[i].used = rows[i].used
    <3>1. e \in Present /\ rows[e] \in Row
      BY <2>4, Rows DEF Expire, IInv
    <3>2. rows'[e].used = rows[e].used /\ \A j \in Ids : j # e => rows'[j] = rows[j]
      BY <2>4, <3>1 DEF Expire, Row, IInv, TypeOK
    <3> QED
      BY <3>1, <3>2 DEF Present
  <2> QED
    BY <2>1, <2>2, <2>3, <2>4
<1> QED
  BY <1>1, <1>2, <1>3, ExactStays

LEMMA NoCount ==
  ASSUME TypeOK, NEW p \in Ports
  PROVE  (~(got[p] > 0) => got[p] = 0) /\ (~(bytes[p] > 0) => bytes[p] = 0)
<1>1. got[p] \in 0..MaxTraffic /\ bytes[p] \in 0..MaxTraffic
  BY DEF TypeOK, Amounts
<1> QED
  BY <1>1

LEMMA OfTyped ==
  ASSUME NEW f, NEW n \in [Ports -> Amounts], NEW i
  PROVE  Of(f, n, i) \in Nat
<1>1. CASE \E p \in Ports : f[p] = i
  <2>1. (CHOOSE p \in Ports : f[p] = i) \in Ports
    BY <1>1
  <2> QED
    BY <1>1, <2>1, Numbers DEF Of
<1> QED
  BY <1>1 DEF Of

\* Counts move between xray and the job, and what goes is of an inbound that is disturbed.
LEMMA CountsExact ==
  ASSUME IInv, Exact, UNCHANGED <<rows, carried, inherited>>, disturbed \subseteq disturbed',
         got' \in [Ports -> Amounts], bytes' \in [Ports -> Amounts],
         Single(owner'), Single(snapshot'), Single(gotOwner'),
         job' = "idle" => gotOwner' = Empty /\ got' = Zero,
         \A i \in Present \ (inherited \cup disturbed') :
            Of(gotOwner', got', i) + Of(owner', bytes', i)
              = Of(gotOwner, got, i) + Of(owner, bytes, i)
  PROVE  Exact'
<1>1. Present' = Present
  BY DEF Present
<1>2. ASSUME NEW i \in Present \ (inherited \cup disturbed')
      PROVE  rows[i].used + Of(gotOwner', got', i) + Of(owner', bytes', i) = carried[i]
  <2>1. rows[i].used + Of(gotOwner, got, i) + Of(owner, bytes, i) = carried[i]
    BY <1>2 DEF Exact, NothingLost
  <2>2. /\ rows[i].used \in Nat
        /\ Of(gotOwner, got, i) \in Nat /\ Of(owner, bytes, i) \in Nat
        /\ Of(gotOwner', got', i) \in Nat /\ Of(owner', bytes', i) \in Nat
    BY OfTyped, Rows, Numbers DEF IInv, TypeOK
  <2> QED
    BY <1>2, <2>1, <2>2
<1>3. NothingLost'
  BY <1>1, <1>2 DEF NothingLost, Of
<1> QED
  BY <1>3 DEF Exact, Single

LEMMA GetTrafficExact == ASSUME IInv, Exact, GetTraffic PROVE Exact'
<1>1. /\ UNCHANGED <<rows, carried, inherited, disturbed, owner, snapshot>>
      /\ gotOwner' = owner /\ got' = bytes /\ bytes' = Zero /\ job' = "add"
      /\ gotOwner = Empty /\ got = Zero
  BY DEF GetTraffic, flagVars, ghostVars, Exact
<1>2. \A i : Of(owner, Zero, i) = 0 /\ Of(gotOwner, got, i) = 0
  BY <1>1, OfZero, Nothing
<1>3. \A i : Of(owner, bytes, i) \in Nat
  BY OfTyped DEF IInv, TypeOK
<1>4. got' \in [Ports -> Amounts] /\ bytes' \in [Ports -> Amounts]
  BY <1>1, Nothing DEF IInv, TypeOK
<1>5. Single(owner') /\ Single(snapshot') /\ Single(gotOwner')
  BY <1>1 DEF Exact
<1>6. \A i : Of(gotOwner', got', i) + Of(owner', bytes', i)
               = Of(gotOwner, got, i) + Of(owner, bytes, i)
  BY <1>1, <1>2, <1>3
<1> QED
  BY <1>1, <1>4, <1>5, <1>6, CountsExact

LEMMA AddTrafficExact == ASSUME IInv, Exact, AddTraffic PROVE Exact'
<1>1. /\ UNCHANGED <<owner, bytes, snapshot, carried, inherited>>
      /\ job' = "idle" /\ gotOwner' = Empty /\ got' = Zero
      /\ disturbed' = disturbed \cup {i \in Ids : \E p \in Ports :
            gotOwner[p] = i /\ got[p] > 0 /\ (i \notin Present \/ rows[i].port # p)}
  BY DEF AddTraffic, JobEnds, xrayVars, flagVars
<1>2. Present' = Present
      /\ \A i \in Present : rows'[i].used = rows[i].used + got[rows[i].port]
  <2>1. \A i \in Ids : rows'[i] = IF i \in Present
                                  THEN [rows[i] EXCEPT !.used = @ + got[rows[i].port]] ELSE None
    BY DEF AddTraffic
  <2>2. \A i \in Present : rows'[i].used = rows[i].used + got[rows[i].port]
    BY <2>1, Rows DEF IInv, Row
  <2>3. \A i \in Present : rows'[i] # None
    <3> TAKE i \in Present
    <3>1. rows[i].used + got[rows[i].port] \in Amounts
      <4>1. PICK q \in Ports : q = rows[i].port
        BY Rows DEF IInv
      <4>2. rows[i].used + got[q] + bytes[q] <= passed
        BY <4>1 DEF IInv, Bounded
      <4>3. rows[i].used \in 0..MaxTraffic /\ got[q] \in 0..MaxTraffic /\ bytes[q] \in 0..MaxTraffic
            /\ passed \in 0..MaxTraffic
        BY Rows DEF IInv, TypeOK, Amounts
      <4> QED
        BY <4>1, <4>2, <4>3 DEF Amounts
    <3>2. rows'[i] = [rows[i] EXCEPT !.used = rows[i].used + got[rows[i].port]]
      BY <2>1, Rows DEF IInv
    <3>3. rows'[i] \in Row
      BY <3>1, <3>2, Rows DEF IInv, Row
    <3> QED
      BY <3>3
  <2>4. Present' = Present
    BY <2>1, <2>3 DEF Present
  <2> QED
    BY <2>2, <2>4
<1>3. ASSUME NEW i \in Present, i \notin inherited \cup disturbed'
      PROVE  Of(gotOwner, got, i) = got[rows[i].port]
  <2>1. PICK p \in Ports : p = rows[i].port
    BY Rows DEF IInv
  <2>2. \A q \in Ports : gotOwner[q] = i /\ q # p => got[q] = 0
    BY <1>1, <1>3, <2>1, NoCount DEF Present, IInv
  <2>3. CASE gotOwner[p] = i
    <3>1. gotOwner[p] # None
      BY <2>3, NullAssumption DEF Present
    <3> QED
      BY <2>1, <2>3, <3>1, OfOne DEF Exact
  <2>4. CASE gotOwner[p] = None
    <3>1. got[p] = 0
      BY <2>4, NoCount DEF IInv, Owned
    <3>2. Of(gotOwner, got, i) = 0
      BY <2>2, <3>1, OfZero
    <3> QED
      BY <2>1, <3>1, <3>2
  <2>5. gotOwner[p] \in {None, i}
    BY <1>3, <2>1 DEF IInv, Owned
  <2> QED
    BY <2>3, <2>4, <2>5
<1>4. ASSUME NEW i \in Present \ (inherited \cup disturbed')
      PROVE  rows'[i].used + Of(Empty, Zero, i) + Of(owner, bytes, i) = carried[i]
  <2>1. rows[i].used + Of(gotOwner, got, i) + Of(owner, bytes, i) = carried[i]
    BY <1>1, <1>4 DEF Exact, NothingLost
  <2>2. Of(Empty, Zero, i) = 0
    BY OfZero, Nothing
  <2>3. rows[i].used \in Nat /\ Of(gotOwner, got, i) \in Nat /\ Of(owner, bytes, i) \in Nat
    BY OfTyped, Rows, Numbers DEF IInv, TypeOK
  <2>4. rows'[i].used = rows[i].used + Of(gotOwner, got, i)
    BY <1>2, <1>3, <1>4
  <2> QED
    BY <2>1, <2>2, <2>3, <2>4
<1>5. NothingLost'
  BY <1>1, <1>2, <1>4 DEF NothingLost, Of
<1> QED
  BY <1>1, <1>5, EmptySingle DEF Exact, Single

LEMMA AddTrafficFailsExact == ASSUME IInv, Exact, AddTrafficFails PROVE Exact'
<1>1. /\ UNCHANGED <<rows, owner, bytes, snapshot, carried, inherited>>
      /\ job' = "idle" /\ gotOwner' = Empty /\ got' = Zero
      /\ disturbed' = disturbed \cup {i \in Ids : \E p \in Ports : gotOwner[p] = i /\ got[p] > 0}
  BY DEF AddTrafficFails, JobEnds, xrayVars, flagVars
<1>2. ASSUME NEW i \in Present \ (inherited \cup disturbed')
      PROVE  Of(gotOwner, got, i) = 0 /\ Of(Empty, Zero, i) = 0
  <2>1. \A p \in Ports : gotOwner[p] = i => got[p] = 0
    BY <1>1, <1>2, NoCount DEF Present, IInv
  <2> QED
    BY <2>1, OfZero, Nothing
<1>3. got' \in [Ports -> Amounts] /\ bytes' \in [Ports -> Amounts]
  BY <1>1, Nothing DEF IInv, TypeOK
<1>4. Single(owner') /\ Single(snapshot') /\ Single(gotOwner')
  BY <1>1, EmptySingle DEF Exact
<1>5. \A i \in Present \ (inherited \cup disturbed') :
        Of(gotOwner', got', i) + Of(owner', bytes', i) = Of(gotOwner, got, i) + Of(owner, bytes, i)
  BY <1>1, <1>2
<1> QED
  BY <1>1, <1>3, <1>4, <1>5, CountsExact

\* xray is replaced or gone, and its counters with it.
LEMMA CountsGo ==
  ASSUME IInv, Exact, UNCHANGED <<rows, job, gotOwner, got, carried, inherited>>,
         bytes' = Zero, disturbed' = disturbed \cup LosesCounts,
         Single(owner'), Single(snapshot')
  PROVE  Exact'
<1>1. ASSUME NEW i \in Present \ (inherited \cup disturbed')
      PROVE  Of(owner, bytes, i) = 0 /\ Of(owner', Zero, i) = 0
  <2>1. \A p \in Ports : owner[p] = i => bytes[p] = 0
    BY <1>1, NoCount DEF LosesCounts, Present, IInv
  <2> QED
    BY <2>1, OfZero, Nothing
<1>2. got' \in [Ports -> Amounts] /\ bytes' \in [Ports -> Amounts]
  BY Nothing DEF IInv, TypeOK
<1>3. Single(gotOwner') /\ (job' = "idle" => gotOwner' = Empty /\ got' = Zero)
  BY DEF Exact
<1>4. \A i \in Present \ (inherited \cup disturbed') :
        Of(gotOwner', got', i) + Of(owner', bytes', i) = Of(gotOwner, got, i) + Of(owner, bytes, i)
  BY <1>1
<1> QED
  BY <1>2, <1>3, <1>4, CountsExact

LEMMA XrayExact == ASSUME IInv, Exact, Swap \/ RestartFails \/ Crash PROVE Exact'
<1>1. UNCHANGED <<rows, job, gotOwner, got, carried, inherited>>
  BY DEF Swap, RestartFails, Crash, RestartEnds, jobVars
<1>2. Single(snapshot')
  <2>1. snapshot' \in {Empty, snapshot}
    BY DEF Swap, RestartFails, Crash, RestartEnds, flagVars
  <2> QED
    BY <2>1, EmptySingle DEF Exact
<1>3. \/ UNCHANGED <<owner, bytes, disturbed>>
      \/ /\ owner' \in {snapshot, Empty} /\ bytes' = Zero
         /\ disturbed' = disturbed \cup LosesCounts
  BY DEF Swap, RestartFails, Crash, xrayVars
<1>4. CASE UNCHANGED <<owner, bytes, disturbed>>
  BY <1>1, <1>2, <1>4, ExactStays DEF Present
<1>5. CASE /\ owner' \in {snapshot, Empty} /\ bytes' = Zero
           /\ disturbed' = disturbed \cup LosesCounts
  <2>1. Single(owner')
    BY <1>5, EmptySingle DEF Exact
  <2> QED
    BY <1>1, <1>2, <1>5, <2>1, CountsGo
<1> QED
  BY <1>3, <1>4, <1>5

LEMMA CarryExact == ASSUME IInv, Exact, NEW p \in Ports, Carry(p) PROVE Exact'
<1>1. /\ UNCHANGED <<rows, owner, snapshot, job, gotOwner, got, inherited, disturbed>>
      /\ owner[p] # None /\ bytes'[p] = bytes[p] + 1 /\ bytes[p] \in Nat
      /\ \A q \in Ports : q # p => bytes'[q] = bytes[q]
      /\ \A i \in Ids : carried'[i] = IF i = owner[p] THEN carried[i] + 1 ELSE carried[i]
  BY Numbers DEF Carry, flagVars, jobVars, IInv, TypeOK
<1>2. ASSUME NEW i \in Ids
      PROVE  Of(owner, bytes', i) = IF i = owner[p] THEN Of(owner, bytes, i) + 1
                                    ELSE Of(owner, bytes, i)
  <2>1. CASE i = owner[p]
    BY <1>1, <2>1, OfOne DEF Exact
  <2>2. CASE i # owner[p] /\ \E q \in Ports : owner[q] = i
    <3>1. PICK q \in Ports : owner[q] = i
      BY <2>2
    <3>2. i # None /\ q # p
      BY <2>2, <3>1, NullAssumption
    <3> QED
      BY <1>1, <2>2, <3>1, <3>2, OfOne DEF Exact
  <2>3. CASE ~\E q \in Ports : owner[q] = i
    BY <2>3 DEF Of
  <2> QED
    BY <2>1, <2>2, <2>3
<1>3. ASSUME NEW i \in Present \ (inherited \cup disturbed)
      PROVE  rows'[i].used + Of(gotOwner', got', i) + Of(owner', bytes', i) = carried'[i]
  <2>1. rows[i].used + Of(gotOwner, got, i) + Of(owner, bytes, i) = carried[i]
    BY <1>3 DEF Exact, NothingLost
  <2>2. i \in Ids /\ rows[i].used \in Nat
        /\ Of(gotOwner, got, i) \in Nat /\ Of(owner, bytes, i) \in Nat
    BY OfTyped, Rows, Numbers DEF IInv, TypeOK
  <2> QED
    BY <1>1, <1>2, <2>1, <2>2
<1>4. NothingLost'
  <2>1. Present' = Present
    BY <1>1 DEF Present
  <2> QED
    BY <1>1, <1>3, <2>1 DEF NothingLost, Of
<1> QED
  BY <1>1, <1>4 DEF Exact, Single

LEMMA StepExact == IInv /\ Exact /\ [Next]_vars => Exact'
<1> SUFFICES ASSUME IInv, Exact, [Next]_vars PROVE Exact'
  OBVIOUS
<1>1. ASSUME NEW t \in Requests, Request(t) PROVE Exact'
  BY <1>1, RequestExact
<1>2. ASSUME NEW i \in Ids, DelInbound(i) \/ Expire(i) PROVE Exact'
  BY <1>2, RowsExact
<1>3. ASSUME NEW p \in Ports, Carry(p) PROVE Exact'
  BY <1>3, CarryExact
<1>4. CASE GetTraffic \/ AddTraffic \/ AddTrafficFails
  BY <1>4, GetTrafficExact, AddTrafficExact, AddTrafficFailsExact
<1>5. CASE DisableInvalidInbounds \/ RestartXray
  BY <1>5, RowsExact
<1>6. CASE Swap \/ RestartFails \/ Crash
  BY <1>6, XrayExact
<1>7. CASE UNCHANGED vars
  <2>1. Single(snapshot')
    BY <1>7 DEF Exact, vars, flagVars
  <2> QED
    BY <1>7, <2>1, ExactStays DEF vars, xrayVars, jobVars, ghostVars, Present
<1> QED
  BY <1>1, <1>2, <1>3, <1>4, <1>5, <1>6, <1>7 DEF Next

-----------------------------------------------------------------------------
(* The theorems.                                                            *)

LEMMA StepIInv == IInv /\ [Next]_vars => IInv'
<1> SUFFICES ASSUME IInv, [Next]_vars PROVE IInv'
  OBVIOUS
<1>1. ASSUME NEW t \in Requests, Request(t) PROVE IInv'
  BY <1>1, AddInboundKeeps, InsertKeeps, ShowPageKeeps, SubmitKeeps, GetInboundKeeps, SaveKeeps
     DEF Request
<1>2. ASSUME NEW i \in Ids, DelInbound(i) \/ Expire(i) PROVE IInv'
  BY <1>2, DelInboundKeeps, ExpireKeeps
<1>3. ASSUME NEW p \in Ports, Carry(p) PROVE IInv'
  BY <1>3, CarryKeeps
<1>4. CASE GetTraffic \/ AddTraffic \/ AddTrafficFails
  BY <1>4, GetTrafficKeeps, AddTrafficKeeps, AddTrafficFailsKeeps
<1>5. CASE DisableInvalidInbounds \/ RestartXray \/ Swap \/ RestartFails \/ Crash
  BY <1>5, DisableKeeps, RestartXrayKeeps, SwapKeeps, RestartFailsKeeps, CrashKeeps
<1>6. CASE UNCHANGED vars
  <2> USE <1>6 DEF vars, xrayVars, flagVars, jobVars, reqVars, ghostVars, Present
  <2>1. TypeOK'
    BY DEF IInv, TypeOK
  <2>2. Locals' /\ Bounded' /\ Owned'
    BY DEF IInv, Locals, Bounded, Owned
  <2>3. Covered'
    BY DEF IInv, Covered, RoomFor, Part
  <2> QED
    BY <2>1, <2>2, <2>3 DEF IInv
<1> QED
  BY <1>1, <1>2, <1>3, <1>4, <1>5, <1>6 DEF Next

THEOREM Inductive == Spec => []IInv
BY InitIInv, StepIInv, PTL DEF Spec

\* Every number stays in its type, in particular every count below the traffic there was,
\* and the ports of the table are unique, however requests interleave.
THEOREM TypeCorrect == Spec => []TypeOK
<1>1. IInv => TypeOK
  BY DEF IInv
<1> QED
  BY <1>1, Inductive, PTL

\* No inbound is charged more than it carried, whatever pages, jobs, restarts and events do,
\* unless it took over a port with traffic in it or an id that a page still shows.
THEOREM ChargedOnce == Spec => []NeverOvercharged
<1>1. IInv => NeverOvercharged
  <2> SUFFICES ASSUME IInv, NEW i \in Present, i \notin inherited
               PROVE  rows[i].used <= carried[i]
    BY DEF NeverOvercharged
  <2>1. PICK p \in Ports : TRUE
    OBVIOUS
  <2>2. i \in Ids /\ rows[i].used \in Nat /\ carried[i] \in Nat
    BY Rows, Numbers DEF IInv, TypeOK
  <2>3. rows[i].used + Part(gotOwner, got, p, i) + Part(owner, bytes, p, i) <= carried[i]
    BY <2>2 DEF IInv, Covered, RoomFor
  <2>4. Part(gotOwner, got, p, i) \in Nat /\ Part(owner, bytes, p, i) \in Nat
    BY PartTyped DEF IInv, TypeOK
  <2> QED
    BY <2>2, <2>3, <2>4
<1> QED
  BY <1>1, Inductive, PTL

\* Traffic counted is on the row, with the job or in xray, exactly, whatever pages, jobs,
\* restarts and events do, unless one of the four things happened to the inbound that make
\* the code lose or overwrite a count, or it took a port or an id over.
THEOREM NothingIsLost == Spec => []NothingLost
<1>1. Init => Exact
  BY InitExact
<1>2. Exact => NothingLost
  BY DEF Exact
<1> QED
  BY <1>1, <1>2, StepExact, Inductive, PTL DEF Spec

\* A step that brings an inbound back is an insert, or the save of a page that had found
\* the inbound before it was deleted.
THEOREM GoneIsGone == Spec => NoResurrection
<1> DEFINE A == \A i \in Ids : i \notin Present /\ i \in Present' /\ i \notin raced =>
                   \E t \in Requests : pc[t] = "insert"
<1>1. IInv /\ [Next]_vars => A
  <2> SUFFICES ASSUME IInv, [Next]_vars, NEW i \in Ids, i \notin Present, i \in Present',
                      i \notin raced
               PROVE  \E t \in Requests : pc[t] = "insert"
    OBVIOUS
  <2>1. ASSUME NEW t \in Requests, Save(t) PROVE FALSE
    <3>1. page[t].id \in Present
      <4>1. rows' # rows /\ page[t].id \in Present \cup raced
        BY <2>1 DEF Save, IInv, Locals, Present
      <4>2. rows' = [rows EXCEPT ![page[t].id] = page[t].row]
        BY <2>1, <4>1 DEF Save
      <4>3. page[t].id = i \/ page[t].id # i
        OBVIOUS
      <4> QED
        BY <4>1, <4>2 DEF Present, IInv, TypeOK
    <3> QED
      BY <2>1, <3>1 DEF Save, Present, IInv, TypeOK
  <2>2. ASSUME NEW t \in Requests, Insert(t) PROVE pc[t] = "insert"
    BY <2>2 DEF Insert
  <2>3. CASE Present' \subseteq Present
    BY <2>3
  <2>4. ASSUME NEW t \in Requests, AddInbound(t) \/ ShowPage(t) \/ Submit(t) \/ GetInbound(t)
        PROVE  Present' = Present
    BY <2>4 DEF AddInbound, ShowPage, Submit, GetInbound, Present
  <2>5. ASSUME NEW d \in Ids, DelInbound(d) \/ Expire(d) PROVE Present' \subseteq Present
    BY <2>5 DEF DelInbound, Expire, Present, IInv, TypeOK
  <2>6. ASSUME NEW p \in Ports, Carry(p) PROVE Present' = Present
    BY <2>6 DEF Carry, Present
  <2>7. CASE GetTraffic \/ AddTrafficFails \/ RestartXray \/ Swap \/ RestartFails \/ Crash
    BY <2>7 DEF GetTraffic, AddTrafficFails, RestartXray, Swap, RestartEnds, RestartFails,
       Crash, Present
  <2>8. CASE AddTraffic
    BY <2>8 DEF AddTraffic, Present
  <2>9. CASE DisableInvalidInbounds
    BY <2>9 DEF DisableInvalidInbounds, Present
  <2>10. CASE UNCHANGED vars
    BY <2>10 DEF vars, Present
  <2> QED
    BY <2>1, <2>2, <2>3, <2>4, <2>5, <2>6, <2>7, <2>8, <2>9, <2>10 DEF Next, Request
<1>2. Spec => [][A]_vars
  BY <1>1, Inductive, PTL DEF Spec
<1> QED
  BY <1>2 DEF NoResurrection
=============================================================================

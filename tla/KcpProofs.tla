------------------------------ MODULE KcpProofs ------------------------------
(* Proofs about Kcp, for every number of segments, window and Mod that         *)
(* NumbersLast allows.  Order: a number stands for one item at both ends.      *)
(* Truthful: what B says has arrived has arrived.  From these A gives up       *)
(* nothing too early (Keeps), and its Terminate comes after everything         *)
(* (Ending).                                                                   *)
EXTENDS Kcp, SequenceTheorems, TLAPS

Numbered(s) == s.item \in 1 .. written /\ s.number = Plus(base, s.item - 1)

Arrived(i) == i <= Len(read) \/ \E s \in cache : s.item = i

Acknowledged(n) == \E i \in 1 .. written : n = Plus(base, i - 1) /\ Arrived(i)

\* A number stands for the same item everywhere, and the reader is at the next one.
Order ==
    /\ written <= MaxWrites /\ (pushing => written < MaxWrites)
    /\ sendNext = Plus(base, written) /\ recvNext = Plus(base, Len(read))
    /\ InOrder
    /\ \A s \in window : Numbered(s)
    /\ \A s \in cache : Numbered(s) /\ s.item > Len(read)
    /\ \A m \in net : m.cmd = "data" => Numbered(m)

\* What B has acknowledged, or is about to, has arrived.
Truthful ==
    /\ \A n \in acklist : Acknowledged(n)
    /\ \A m \in net : m.to = A =>
         /\ \E j \in 0 .. Len(read) : m.una = Plus(base, j)
         /\ m.cmd = "ack" => \A n \in m.numbers : Acknowledged(n)

Keeps ==
    Sends(state[A]) /\ ~skipped =>
        \A i \in 1 .. written : Arrived(i) \/ \E s \in window : s.item = i

Leaving == state[A] \in {"Terminating", "Terminated"}

\* Unless something entitled it to, B does not close, and A leaves when all has arrived.
Ending ==
    ~excused =>
        /\ state[B] \in {"Active", "PeerClosed", "PeerTerminating"}
        /\ state[A] \in {"Active", "ReadyToClose"} \/ Leaving
        /\ Leaving /\ ~skipped => \A i \in 1 .. written : Arrived(i)
        /\ state[B] = "PeerTerminating" => Leaving
        /\ \A m \in net : /\ m.to = A => ~m.close /\ m.cmd # "terminate"
                          /\ m.to = B /\ m.cmd = "terminate" => Leaving
        /\ eof => state[B] = "PeerTerminating" /\ (~skipped => Len(read) = written)

IInv == TypeOK /\ Order /\ Truthful /\ Keeps /\ Ending

-----------------------------------------------------------------------------
(* Numbers.                                                                 *)

LEMMA PlusNumber ==
    ASSUME NEW n \in Number, NEW k \in 0 .. Mod PROVE Plus(n, k) \in Number
  BY NumbersLast DEF Plus, Number

LEMMA PlusPlus ==
    ASSUME NEW n \in Number, NEW j \in Nat, NEW k \in Nat, j + k < Mod
    PROVE  Plus(Plus(n, j), k) = Plus(n, j + k)
  BY NumbersLast DEF Plus, Number

LEMMA PlusInjective ==
    ASSUME NEW n \in Number, NEW j \in 0 .. Mod - 1, NEW k \in 0 .. Mod - 1,
           Plus(n, j) = Plus(n, k)
    PROVE  j = k
  BY NumbersLast DEF Plus, Number

LEMMA MinusPlus ==
    ASSUME NEW n \in Number, NEW j \in 0 .. Mod - 1, NEW k \in 0 .. Mod - 1
    PROVE  Minus(Plus(n, j), Plus(n, k)) = IF j >= k THEN j - k ELSE j - k + Mod
  BY NumbersLast DEF Plus, Minus, Number

-----------------------------------------------------------------------------
(* The messages.                                                            *)

LEMMA MessageFields ==
    ASSUME NEW m \in Message
    PROVE  /\ m.to \in Ends /\ m.una \in Number /\ m.close \in BOOLEAN
           /\ m.cmd \in {"data", "ack", "ping", "terminate"}
           /\ m.cmd = "data" => m.to = B /\ m.number \in Number /\ m.item \in Item
           /\ m.cmd = "ack" => m.to = A /\ m.numbers \subseteq Number /\ m.limit \in Number
  BY DEF Message, Ends, A, B

LEMMA CommandMessage ==
    ASSUME TypeOK, NEW e \in Ends, NEW cmd \in {"ping", "terminate"}, NEW s
    PROVE  /\ Command(e, cmd, s) \in Message
           /\ Command(e, cmd, s).cmd = cmd
           /\ Command(e, cmd, s).to = IF e = A THEN B ELSE A
           /\ Command(e, cmd, s).una = Una(e)
           /\ Command(e, cmd, s).close = (s = "ReadyToClose")
  BY DEF Command, Message, Una, Ends, A, B, TypeOK

\* What Flush puts on the way.
LEMMA TransmitNet ==
    ASSUME NEW out, Transmit(out) PROVE net \subseteq net' /\ net' \subseteq net \cup out
  BY DEF Transmit

-----------------------------------------------------------------------------
(* The states.                                                              *)

LEMMA StateTypes ==
    ASSUME NEW s \in States
    PROVE  /\ AfterClose(s) \in States /\ AfterPeerClosed(s) \in States
           /\ AfterTerminate(s) \in States /\ Overdue(s) \in States
           /\ Sends(AfterPeerClosed(s)) => Sends(s)
           /\ Sends(AfterTerminate(s)) => Sends(s)
           /\ Sends(AfterClose(s)) => Sends(s)
           /\ Sends(Overdue(s)) => Sends(s)
  BY DEF States, AfterClose, AfterPeerClosed, AfterTerminate, Overdue, Sends

LEMMA StateAfterType ==
    ASSUME TypeOK, NEW m \in net
    PROVE  StateAfter(m) \in States /\ (Sends(StateAfter(m)) => Sends(state[m.to]))
<1>1. m.to \in Ends /\ state[m.to] \in States
  BY MessageFields DEF TypeOK
<1>2. AfterPeerClosed(state[m.to]) \in States
  BY <1>1, StateTypes
<1> QED
  BY <1>1, <1>2, StateTypes DEF StateAfter

LEMMA SettledType ==
    ASSUME TypeOK, NEW e \in Ends, NEW silent
    PROVE  Settled(e, silent) \in States /\ (Sends(Settled(e, silent)) => Sends(state[e]))
  BY StateTypes DEF Settled, TypeOK, States, Sends

\* What a flush that does not end in Terminating does to the state.
LEMMA FlushedStateType ==
    ASSUME TypeOK, NEW e \in Ends, FlushedState(e)
    PROVE  /\ state' \in [Ends -> States] /\ excused' \in BOOLEAN
           /\ Sends(state'[e]) => Sends(state[e])
<1>1. PICK silent \in BOOLEAN, expired \in BOOLEAN :
        /\ state' = [state EXCEPT ![e] = IF expired THEN Overdue(Settled(e, silent))
                                                    ELSE Settled(e, silent)]
        /\ excused' = (excused \/ (e = B /\ silent)
                       \/ (expired /\ Overdue(Settled(e, silent)) # Settled(e, silent)))
  BY DEF FlushedState
<1>2. Settled(e, silent) \in States /\ (Sends(Settled(e, silent)) => Sends(state[e]))
  BY SettledType
<1> QED
  BY <1>1, <1>2, StateTypes DEF TypeOK

LEMMA Windows ==
    ASSUME NEW w \in SUBSET Segment, NEW una, NEW s, NEW t
    PROVE  ClearTo(w, una) \subseteq w /\ Kept(w, s, t) \subseteq w
  BY DEF ClearTo, Kept

LEMMA WindowShrinks ==
    ASSUME TypeOK, NEW m, ReceiveAck(m) \/ ReceiveCommandA(m)
    PROVE  window' \subseteq window
<1> DEFINE k == Kept(window, state[A], state'[A])
<1>1. window \in SUBSET Segment /\ k \in SUBSET Segment
  BY Windows DEF TypeOK
<1>2. window' \subseteq ClearTo(k, m.una)
  BY DEF ReceiveAck, ReceiveCommandA, Removed
<1>3. k \subseteq window /\ ClearTo(k, m.una) \subseteq k
  BY <1>1, Windows
<1> QED
  BY <1>2, <1>3

AckOf(s) == [to |-> A, cmd |-> "ack", numbers |-> acklist, una |-> recvNext,
             limit |-> Plus(recvNext, RecvWindow), close |-> s = "ReadyToClose"]

DataOf(s, t) == [to |-> B, cmd |-> "data", number |-> s.number, item |-> s.item,
                 una |-> firstUnacknowledged, close |-> t = "ReadyToClose"]

LEMMA AckMessage == ASSUME TypeOK, NEW s PROVE AckOf(s) \in Message
  BY PlusNumber, NumbersLast DEF AckOf, TypeOK, Message, A

LEMMA DataMessage == ASSUME TypeOK, NEW s \in Segment, NEW t PROVE DataOf(s, t) \in Message
  BY DEF DataOf, TypeOK, Message, Segment

\* What the flushes add to the network.
LEMMA FlushANet ==
    ASSUME FlushA, NEW m \in net', m \notin net
    PROVE  m = Command(A, "ping", state'[A]) \/ \E s \in window' : m = DataOf(s, state'[A])
<1>1. PICK due \in SUBSET window' :
        Transmit({Command(A, "ping", state'[A])} \cup {DataOf(s, state'[A]) : s \in due})
  BY DEF FlushA, DataOf
<1> QED
  BY <1>1, TransmitNet

LEMMA FlushBNet ==
    ASSUME FlushB, NEW m \in net', m \notin net
    PROVE  m = Command(B, "ping", state'[B]) \/ m = AckOf(state'[B])
<1>1. Transmit({Command(B, "ping", state'[B])}
               \cup {n \in {AckOf(state'[B])} : acklist # {} \/ dirty})
  BY DEF FlushB, AckOf
<1> QED
  BY <1>1, TransmitNet

LEMMA FlushTerminatingNet ==
    ASSUME NEW e, FlushTerminating(e), NEW m \in net', m \notin net
    PROVE  m = Command(e, "terminate", "Terminating")
  BY TransmitNet DEF FlushTerminating

-----------------------------------------------------------------------------
(* Types.                                                                   *)

LEMMA TypeStep == ASSUME TypeOK, [Next]_vars PROVE TypeOK'
<1> USE DEF TypeOK
<1>1. CASE WriteCheck \/ ReadClosed \/ ReadCheck \/ UNCHANGED vars \/ \E m \in net : Lose(m)
  BY <1>1 DEF WriteCheck, ReadClosed, ReadCheck, Lose, vars, sending, receiving, history
<1>2. CASE Push
  <2>1. Plus(sendNext, 1) \in Number /\ [number |-> sendNext, item |-> written + 1] \in Segment
    BY PlusNumber, NumbersLast DEF Segment, Item
  <2>2. window' \subseteq Segment /\ sendNext' \in Number /\ written' \in Nat
    BY <1>2, <2>1 DEF Push
  <2>3. excused' \in BOOLEAN /\ pushing' \in BOOLEAN /\ skipped' = skipped
    BY <1>2 DEF Push
  <2>4. UNCHANGED <<base, state, net, firstUnacknowledged, remoteNext, receiving, looked, read, eof>>
    BY <1>2 DEF Push
  <2> QED
    BY <2>2, <2>3, <2>4 DEF receiving
<1>3. CASE Read
  <2>1. PICK k \in 0 .. RecvWindow :
          /\ \A j \in 0 .. k - 1 : Held(Plus(recvNext, j))
          /\ read' = read \o [j \in 1 .. k |-> ItemAt(Plus(recvNext, j - 1))]
          /\ cache' = {s \in cache : Minus(s.number, recvNext) >= k}
          /\ recvNext' = Plus(recvNext, k)
          /\ looked' = (k = 0)
    BY <1>3 DEF Read
  <2>2. k \in Nat /\ recvNext' \in Number
    BY <2>1, PlusNumber, NumbersLast
  <2>3. ASSUME NEW n, Held(n) PROVE ItemAt(n) \in Item
    <3>1. (CHOOSE s \in cache : s.number = n) \in cache
      BY <2>3 DEF Held
    <3> QED
      BY <3>1 DEF ItemAt, Segment
  <2>4. \A j \in 1 .. k : ItemAt(Plus(recvNext, j - 1)) \in Item
    BY <2>1, <2>2, <2>3
  <2>5. [j \in 1 .. k |-> ItemAt(Plus(recvNext, j - 1))] \in Seq(Item)
    BY <2>2, <2>4
  <2>6. read' \in Seq(Item)
    BY <2>1, <2>5
  <2> QED
    BY <1>3, <2>1, <2>2, <2>6 DEF Read, sending
<1>4. ASSUME NEW m \in net, ReceiveAck(m) \/ ReceiveCommandA(m) PROVE TypeOK'
  <2>1. m \in Message /\ net' \subseteq net
    BY <1>4 DEF ReceiveAck, ReceiveCommandA, Take
  <2>2. state' \in [Ends -> States] /\ window' \subseteq window
    BY <1>4, StateAfterType, WindowShrinks DEF ReceiveAck, ReceiveCommandA
  <2>3. remoteNext' \in Number /\ firstUnacknowledged' \in Number /\ skipped' \in BOOLEAN
    BY <1>4, <2>1, MessageFields DEF ReceiveAck, ReceiveCommandA
  <2> QED
    BY <1>4, <2>1, <2>2, <2>3 DEF ReceiveAck, ReceiveCommandA, receiving, history
<1>5. ASSUME NEW m \in net, ReceiveData(m) PROVE TypeOK'
  <2>1. net' \subseteq net /\ m.number \in Number /\ m.item \in Item
    BY <1>5, MessageFields DEF ReceiveData, Take
  <2>2. state' \in [Ends -> States]
    BY <1>5, StateAfterType DEF ReceiveData
  <2>3. [number |-> m.number, item |-> m.item] \in Segment
    BY <2>1 DEF Segment
  <2>4. cache' \subseteq Segment /\ acklist' \subseteq Number /\ dirty' \in BOOLEAN
        /\ recvNext' \in Number
    BY <1>5, <2>1, <2>3 DEF ReceiveData, ClearAcks, receiving
  <2> QED
    BY <1>5, <2>1, <2>2, <2>4 DEF ReceiveData, sending, history
<1>6. ASSUME NEW m \in net, ReceiveCommandB(m) PROVE TypeOK'
  <2>1. net' \subseteq net /\ state' \in [Ends -> States]
    BY <1>6, StateAfterType DEF ReceiveCommandB, Take
  <2>2. acklist' \subseteq Number /\ dirty' \in BOOLEAN
    BY <1>6 DEF ReceiveCommandB, ClearAcks
  <2> QED
    BY <1>6, <2>1, <2>2 DEF ReceiveCommandB, sending, history
<1>7. ASSUME NEW e \in Ends, Close(e) PROVE TypeOK'
  <2>1. state' \in [Ends -> States] /\ window' \subseteq Segment
    BY <1>7, StateTypes, Windows DEF Close
  <2>2. excused' \in BOOLEAN
    BY <1>7 DEF Close
  <2> QED
    BY <1>7, <2>1, <2>2 DEF Close, receiving
<1>8. CASE FlushA
  <2>1. state' \in [Ends -> States] /\ excused' \in BOOLEAN /\ window' \subseteq window
    BY <1>8, FlushedStateType, Windows DEF FlushA, Ends
  <2>2. Command(A, "ping", state'[A]) \in Message /\ \A t \in window' : DataOf(t, state'[A]) \in Message
    BY <2>1, CommandMessage, DataMessage DEF Ends
  <2>4. net' \subseteq Message
    BY <1>8, <2>2, FlushANet
  <2> QED
    BY <1>8, <2>1, <2>4 DEF FlushA, receiving
<1>9. CASE FlushB
  <2>1. state' \in [Ends -> States] /\ excused' \in BOOLEAN
    BY <1>9, FlushedStateType DEF FlushB, Ends
  <2>2. net' \subseteq Message
    <3>1. Command(B, "ping", state'[B]) \in Message /\ AckOf(state'[B]) \in Message
      BY CommandMessage, AckMessage DEF Ends
    <3> QED
      BY <1>9, <3>1, FlushBNet
  <2>3. dirty' \in BOOLEAN
        /\ UNCHANGED <<base, sending, pushing, cache, recvNext, acklist, looked, written, read, eof,
                    skipped>>
    BY <1>9 DEF FlushB
  <2> QED
    BY <2>1, <2>2, <2>3 DEF sending
<1>10. ASSUME NEW e \in Ends, FlushTerminating(e) PROVE TypeOK'
  <2>1. state' \in [Ends -> States] /\ excused' \in BOOLEAN
    BY <1>10 DEF FlushTerminating, States
  <2>2. net' \subseteq Message
    <3>1. Command(e, "terminate", "Terminating") \in Message
      BY CommandMessage
    <3> QED
      BY <1>10, <3>1, FlushTerminatingNet
  <2>4. window' \subseteq Segment
    BY <1>10, Windows DEF FlushTerminating
  <2>3. UNCHANGED <<base, firstUnacknowledged, sendNext, remoteNext, pushing, receiving,
                    looked, written, read, eof, skipped>>
    BY <1>10 DEF FlushTerminating
  <2> QED
    BY <2>1, <2>2, <2>3, <2>4 DEF receiving
<1> QED
  BY <1>1, <1>2, <1>3, <1>4, <1>5, <1>6, <1>7, <1>8, <1>9, <1>10 DEF Next, Receive, Flush

-----------------------------------------------------------------------------
(* Order.                                                                   *)

\* The steps that neither write nor read, and put nothing new in a window.
LEMMA OrderFrame ==
    ASSUME TypeOK, Order, UNCHANGED <<base, written, sendNext, recvNext, read>>,
           pushing' => written < MaxWrites, window' \subseteq window, cache' \subseteq cache,
           \A m \in net' : m \in net \/ m.cmd # "data" \/ Numbered(m)
    PROVE  Order'
  BY DEF Order, InOrder, Numbered

\* The item of a segment held under a number.
LEMMA HeldItem ==
    ASSUME TypeOK, Order, NEW j \in 0 .. RecvWindow, Held(Plus(recvNext, j))
    PROVE  /\ ItemAt(Plus(recvNext, j)) = Len(read) + j + 1
           /\ Len(read) + j + 1 <= written
<1>1. PICK s \in cache : s = CHOOSE t \in cache : t.number = Plus(recvNext, j)
  BY DEF Held
<1>2. s.number = Plus(recvNext, j)
  BY <1>1 DEF Held
<1>3. /\ s.item \in 1 .. written /\ s.number = Plus(base, s.item - 1)
      /\ base \in Number /\ written \in Nat /\ Len(read) \in Nat /\ Len(read) <= written
      /\ recvNext = Plus(base, Len(read)) /\ written <= MaxWrites
  BY NumbersLast DEF Order, Numbered, TypeOK, InOrder
<1>4. s.number = Plus(base, Len(read) + j)
  <2>1. Len(read) + j < Mod /\ j \in Nat
    BY <1>3, NumbersLast
  <2> QED
    BY <1>2, <1>3, <2>1, PlusPlus
<1>5. s.item - 1 = Len(read) + j
  BY <1>3, <1>4, PlusInjective, NumbersLast
<1>6. ItemAt(Plus(recvNext, j)) = s.item
  BY <1>1 DEF ItemAt
<1> QED
  BY <1>3, <1>5, <1>6

\* What Read does, in terms of items.
LEMMA ReadItems ==
    ASSUME TypeOK, Order, Read
    PROVE  \E k \in 0 .. RecvWindow :
             /\ Len(read') = Len(read) + k /\ Len(read') <= written
             /\ read' = [i \in 1 .. Len(read) + k |-> i]
             /\ recvNext' = Plus(base, Len(read'))
             /\ cache' = {s \in cache : s.item > Len(read')}
<1>1. PICK k \in 0 .. RecvWindow :
        /\ \A j \in 0 .. k - 1 : Held(Plus(recvNext, j))
        /\ read' = read \o [j \in 1 .. k |-> ItemAt(Plus(recvNext, j - 1))]
        /\ cache' = {s \in cache : Minus(s.number, recvNext) >= k}
        /\ recvNext' = Plus(recvNext, k)
  BY DEF Read
<1>2. /\ base \in Number /\ written \in Nat /\ Len(read) \in Nat /\ Len(read) <= written
      /\ recvNext = Plus(base, Len(read)) /\ written <= MaxWrites
      /\ read = [i \in 1 .. Len(read) |-> i] /\ k \in Nat /\ k <= RecvWindow
  BY NumbersLast DEF Order, TypeOK, InOrder
<1>3. \A j \in 1 .. k : ItemAt(Plus(recvNext, j - 1)) = Len(read) + j
  <2> SUFFICES ASSUME NEW j \in 1 .. k PROVE ItemAt(Plus(recvNext, j - 1)) = Len(read) + j
    OBVIOUS
  <2>1. PICK i \in 0 .. RecvWindow : i = j - 1 /\ i \in 0 .. k - 1
    BY <1>2, NumbersLast
  <2>2. Held(Plus(recvNext, i))
    BY <1>1, <2>1
  <2>3. ItemAt(Plus(recvNext, i)) = Len(read) + i + 1
    BY <2>2, HeldItem
  <2> QED
    BY <1>2, <2>1, <2>3
<1>4. Len(read) + k <= written
  <2>1. CASE k = 0
    BY <1>2, <2>1
  <2>2. CASE k > 0
    <3>1. PICK i \in 0 .. RecvWindow : i = k - 1 /\ i \in 0 .. k - 1
      BY <1>2, <2>2, NumbersLast
    <3>2. Held(Plus(recvNext, i))
      BY <1>1, <3>1
    <3>3. Len(read) + i + 1 <= written
      BY <3>2, HeldItem
    <3> QED
      BY <1>2, <3>1, <3>3
  <2> QED
    BY <1>2, <2>1, <2>2
<1>5. read' = [i \in 1 .. Len(read) + k |-> i]
  <2> DEFINE more == [j \in 1 .. k |-> ItemAt(Plus(recvNext, j - 1))]
  <2>1. more = [j \in 1 .. k |-> Len(read) + j]
    BY <1>3
  <2>2. read \in Seq(Nat) /\ more \in Seq(Nat) /\ Len(more) = k
    BY <1>2, <2>1 DEF TypeOK, Item
  <2>3. \A i \in 1 .. Len(read) : read[i] = i
    BY <1>2
  <2>4. \A j \in 1 .. k : more[j] = Len(read) + j
    BY <2>1
  <2>5. read' = read \o more
    BY <1>1
  <2> HIDE DEF more
  <2>6. read' \in Seq(Nat) /\ Len(read') = Len(read) + k
    BY <2>2, <2>5, ConcatProperties
  <2>7. \A i \in 1 .. Len(read) + k : read'[i] = i
    <3>1. \A i \in 1 .. Len(read) + Len(more) :
            read'[i] = IF i <= Len(read) THEN read[i] ELSE more[i - Len(read)]
      BY <2>2, <2>5, ConcatProperties
    <3> TAKE i \in 1 .. Len(read) + k
    <3>2. CASE i <= Len(read)
      BY <1>2, <2>2, <2>3, <3>1, <3>2
    <3>3. CASE i > Len(read)
      <4>1. i - Len(read) \in 1 .. k
        BY <1>2, <3>3
      <4>2. read'[i] = more[i - Len(read)]
        BY <1>2, <2>2, <3>1, <3>3
      <4> QED
        BY <1>2, <2>4, <4>1, <4>2
    <3> QED
      BY <1>2, <3>2, <3>3
  <2> QED
    BY <1>2, <2>6, <2>7
<1>6. recvNext' = Plus(base, Len(read) + k)
  BY <1>1, <1>2, PlusPlus, NumbersLast
<1>7. \A s \in cache : Minus(s.number, recvNext) >= k <=> s.item > Len(read) + k
  <2> SUFFICES ASSUME NEW s \in cache
               PROVE  Minus(s.number, recvNext) >= k <=> s.item > Len(read) + k
    OBVIOUS
  <2>1. s.item \in 1 .. written /\ s.number = Plus(base, s.item - 1) /\ s.item > Len(read)
    BY DEF Order, Numbered
  <2>3. s.item - 1 \in 0 .. Mod - 1 /\ Len(read) \in 0 .. Mod - 1
    BY <1>2, <2>1, NumbersLast
  <2>2. Minus(s.number, recvNext) = s.item - 1 - Len(read)
    BY <1>2, <2>1, <2>3, MinusPlus
  <2> QED
    BY <1>2, <2>1, <2>2
<1>8. Len(read') = Len(read) + k
  BY <1>2, <1>5
<1> QED
  BY <1>1, <1>4, <1>5, <1>6, <1>7, <1>8

\* What is taken into the window has not been read.
LEMMA NotReadYet ==
    ASSUME TypeOK, Order, NEW s, Numbered(s), Minus(s.number, recvNext) < RecvWindow
    PROVE  s.item > Len(read)
<1>1. /\ s.item \in 1 .. written /\ s.number = Plus(base, s.item - 1)
      /\ base \in Number /\ written \in Nat /\ Len(read) \in Nat /\ Len(read) <= written
      /\ recvNext = Plus(base, Len(read)) /\ written <= MaxWrites
  BY NumbersLast DEF Order, Numbered, TypeOK, InOrder
<1>3. s.item - 1 \in 0 .. Mod - 1 /\ Len(read) \in 0 .. Mod - 1
  BY <1>1, NumbersLast
<1>2. Minus(s.number, recvNext) = IF s.item - 1 >= Len(read) THEN s.item - 1 - Len(read)
                                  ELSE s.item - 1 - Len(read) + Mod
  BY <1>1, <1>3, MinusPlus
<1> QED
  BY <1>1, <1>2, NumbersLast

\* Where the numbers stand, for the steps below.
LEMMA Positions ==
    ASSUME TypeOK, Order
    PROVE  /\ base \in Number /\ written \in Nat /\ Len(read) \in Nat
           /\ Len(read) <= written /\ written <= MaxWrites
           /\ recvNext = Plus(base, Len(read)) /\ sendNext = Plus(base, written)
           /\ read = [i \in 1 .. Len(read) |-> i]
  BY NumbersLast DEF Order, TypeOK, InOrder

LEMMA OrderStep == ASSUME TypeOK, Order, [Next]_vars PROVE Order'
<1>1. CASE WriteCheck \/ ReadClosed \/ ReadCheck \/ UNCHANGED vars \/ \E m \in net : Lose(m)
  <2>1. /\ UNCHANGED <<base, written, sendNext, recvNext, read>>
        /\ pushing' => written < MaxWrites
        /\ window' \subseteq window /\ cache' \subseteq cache /\ net' \subseteq net
    BY <1>1 DEF WriteCheck, ReadClosed, ReadCheck, Lose, vars, sending, receiving, history, Order
  <2> QED
    BY <2>1, OrderFrame
<1>2. CASE Push
  <2>1. CASE UNCHANGED <<window, sendNext, written>>
    BY <1>2, <2>1, OrderFrame DEF Push, receiving
  <2>2. CASE /\ window' = window \cup {[number |-> sendNext, item |-> written + 1]}
             /\ sendNext' = Plus(sendNext, 1) /\ written' = written + 1
    <3>1. written < MaxWrites /\ UNCHANGED <<base, net, cache, recvNext, read>> /\ ~pushing'
      BY <1>2 DEF Push, receiving, Order
    <3>2. sendNext' = Plus(base, written')
      <4>1. written + 1 < Mod /\ 1 \in Nat
        BY <3>1, Positions, NumbersLast
      <4> QED
        BY <2>2, <4>1, Positions, PlusPlus
    <3>3. \A s : Numbered(s) => Numbered(s)'
      BY <2>2, <3>1, Positions DEF Numbered
    <3>4. ASSUME NEW s, s = [number |-> sendNext, item |-> written + 1] PROVE Numbered(s)'
      <4>1. written + 1 - 1 = written /\ written + 1 \in 1 .. written + 1
        BY Positions
      <4> QED
        BY <2>2, <3>1, <3>4, <4>1, Positions DEF Numbered
    <3>5. InOrder'
      BY <2>2, <3>1, Positions DEF InOrder
    <3>6. /\ \A s \in window' : Numbered(s)'
          /\ \A s \in cache' : Numbered(s)' /\ s.item > Len(read')
          /\ \A m \in net' : m.cmd = "data" => Numbered(m)'
      BY <2>2, <3>1, <3>3, <3>4 DEF Order
    <3>7. written' <= MaxWrites /\ recvNext' = Plus(base', Len(read'))
      BY <2>2, <3>1, Positions, NumbersLast
    <3> QED
      BY <3>1, <3>2, <3>5, <3>6, <3>7 DEF Order
  <2> QED
    BY <1>2, <2>1, <2>2 DEF Push
<1>3. CASE Read
  <2>1. PICK k \in 0 .. RecvWindow :
             /\ Len(read') = Len(read) + k /\ Len(read') <= written
             /\ read' = [i \in 1 .. Len(read) + k |-> i]
             /\ recvNext' = Plus(base, Len(read'))
             /\ cache' = {s \in cache : s.item > Len(read')}
    BY <1>3, ReadItems
  <2>2. UNCHANGED <<base, net, sending, pushing, written>>
    BY <1>3 DEF Read
  <2>3. InOrder'
    BY <2>1, <2>2 DEF InOrder
  <2> QED
    BY <2>1, <2>2, <2>3 DEF Order, Numbered, sending
<1>4. ASSUME NEW m \in net, ReceiveAck(m) \/ ReceiveCommandA(m) PROVE Order'
  <2>1. net' \subseteq net
    BY <1>4 DEF ReceiveAck, ReceiveCommandA, Take
  <2>2. window' \subseteq window
    BY <1>4, WindowShrinks
  <2>3. UNCHANGED <<base, sendNext, pushing, receiving, written, read>>
    BY <1>4 DEF ReceiveAck, ReceiveCommandA
  <2> QED
    BY <2>1, <2>2, <2>3, OrderFrame DEF receiving, Order
<1>5. ASSUME NEW m \in net, ReceiveData(m) PROVE Order'
  <2>1. /\ net' \subseteq net /\ Numbered(m) /\ recvNext' = recvNext
        /\ UNCHANGED <<base, sending, pushing, looked, history>>
    BY <1>5 DEF ReceiveData, Take, Order, receiving
  <2>2. CASE cache' = cache
    BY <2>1, <2>2, OrderFrame DEF sending, history, Order
  <2>3. CASE /\ Minus(m.number, recvNext) < RecvWindow
             /\ cache' = cache \cup {[number |-> m.number, item |-> m.item]}
    <3>1. m.item > Len(read)
      BY <2>1, <2>3, NotReadYet
    <3>2. Numbered([number |-> m.number, item |-> m.item])
      BY <2>1 DEF Numbered
    <3>3. \A s \in cache' : Numbered(s) /\ s.item > Len(read)
      BY <2>3, <3>1, <3>2 DEF Order
    <3> QED
      BY <2>1, <3>3 DEF Order, InOrder, Numbered, sending, history
  <2>4. Minus(m.number, recvNext) \in Int /\ RecvWindow \in Int
    BY <1>5, MessageFields, NumbersLast DEF ReceiveData, TypeOK, Minus, Number
  <2> QED
    BY <1>5, <2>2, <2>3, <2>4 DEF ReceiveData, receiving
<1>6. ASSUME NEW m \in net, ReceiveCommandB(m) PROVE Order'
  BY <1>6, OrderFrame DEF ReceiveCommandB, Take, sending, history, Order
<1>7. ASSUME NEW e \in Ends, Close(e) PROVE Order'
  <2>1. window' \subseteq window
    BY <1>7, Windows DEF Close, TypeOK
  <2> QED
    BY <1>7, <2>1, OrderFrame DEF Close, receiving, Order
<1>8. CASE FlushA
  <2>1. window' \subseteq window
    BY <1>8, Windows DEF FlushA, TypeOK
  <2>2. \A s \in window' : Numbered(DataOf(s, state'[A]))
    BY <2>1 DEF Order, Numbered, DataOf
  <2>3. \A m \in net' : m \in net \/ m.cmd # "data" \/ Numbered(m)
    BY <2>2, <1>8, FlushANet, CommandMessage DEF Ends
  <2>4. UNCHANGED <<base, sendNext, pushing, receiving, written, read>>
    BY <1>8 DEF FlushA
  <2> QED
    BY <2>1, <2>3, <2>4, OrderFrame DEF receiving, Order
<1>9. CASE FlushB
  <2>1. AckOf(state'[B]).cmd # "data" /\ Command(B, "ping", state'[B]).cmd # "data"
    BY DEF AckOf, Command
  <2>2. UNCHANGED <<base, sending, pushing, cache, recvNext, written, read>>
    BY <1>9 DEF FlushB
  <2>3. \A m \in net' : m \in net \/ m.cmd # "data"
    BY <1>9, <2>1, FlushBNet
  <2> QED
    BY <2>2, <2>3, OrderFrame DEF sending, Order
<1>10. ASSUME NEW e \in Ends, FlushTerminating(e) PROVE Order'
  <2>1. window' \subseteq window
    BY <1>10, Windows DEF FlushTerminating, TypeOK
  <2>2. \A m \in net' : m \in net \/ m.cmd # "data"
    <3>1. Command(e, "terminate", "Terminating").cmd # "data"
      BY DEF Command
    <3> QED
      BY <1>10, <3>1, FlushTerminatingNet
  <2>3. UNCHANGED <<base, sendNext, pushing, receiving, written, read>>
    BY <1>10 DEF FlushTerminating
  <2> QED
    BY <2>1, <2>2, <2>3, OrderFrame DEF receiving, Order
<1> QED
  BY <1>1, <1>2, <1>3, <1>4, <1>5, <1>6, <1>7, <1>8, <1>9, <1>10 DEF Next, Receive, Flush

-----------------------------------------------------------------------------
(* What has arrived stays, and what is acknowledged has arrived.            *)

LEMMA OthersLeaveItems ==
    ASSUME [Next]_vars, ~Push, ~Read, \A m \in net : ~ReceiveData(m)
    PROVE  UNCHANGED <<base, written, read, cache>>
<1>1. CASE \E m \in net : Receive(m) \/ Lose(m)
  BY <1>1 DEF Receive, ReceiveAck, ReceiveCommandA, ReceiveCommandB, Lose, receiving, history
<1>2. CASE Flush \/ \E e \in Ends : Close(e)
  BY <1>2 DEF Flush, FlushA, FlushB, FlushTerminating, Close, receiving
<1>3. CASE WriteCheck \/ ReadClosed \/ ReadCheck \/ UNCHANGED vars
  BY <1>3 DEF WriteCheck, ReadClosed, ReadCheck, vars, receiving, history
<1> QED
  BY <1>1, <1>2, <1>3 DEF Next

LEMMA ArrivedStays ==
    ASSUME TypeOK, Order, [Next]_vars
    PROVE  /\ base' = base /\ written' \in Nat /\ written' >= written
           /\ Len(read') \in Nat /\ Len(read') >= Len(read)
           /\ \A i \in Nat : Arrived(i) => Arrived(i)'
<1>1. CASE Read
  <2>1. PICK k \in 0 .. RecvWindow :
             /\ Len(read') = Len(read) + k /\ Len(read') <= written
             /\ cache' = {s \in cache : s.item > Len(read')}
    BY <1>1, ReadItems
  <2>2. base' = base /\ written' = written
    BY <1>1 DEF Read
  <2>3. k \in Nat /\ \A s \in cache : s.item \in Nat
    BY NumbersLast DEF Order, Numbered, TypeOK
  <2> QED
    BY <2>1, <2>2, <2>3, Positions DEF Arrived
<1>2. CASE Push
  <2>1. UNCHANGED <<base, read, cache>> /\ (written' = written \/ written' = written + 1)
    BY <1>2 DEF Push, receiving
  <2> QED
    BY <2>1, Positions DEF Arrived
<1>3. CASE \E m \in net : ReceiveData(m)
  <2>1. UNCHANGED <<base, read, written>> /\ cache \subseteq cache'
    BY <1>3 DEF ReceiveData, receiving, history
  <2> QED
    BY <2>1, Positions DEF Arrived
<1>4. CASE UNCHANGED <<base, written, read, cache>>
  BY <1>4, Positions DEF Arrived
<1> QED
  BY <1>1, <1>2, <1>3, <1>4, OthersLeaveItems

LEMMA AcknowledgedStays ==
    ASSUME TypeOK, Order, [Next]_vars, NEW n, Acknowledged(n)
    PROVE  Acknowledged(n)'
<1>1. PICK i \in 1 .. written : n = Plus(base, i - 1) /\ Arrived(i)
  BY DEF Acknowledged
<1>2. i \in 1 .. written' /\ i \in Nat
  BY ArrivedStays, Positions
<1>3. Arrived(i)' /\ base' = base
  BY <1>1, <1>2, ArrivedStays
<1> QED
  BY <1>1, <1>2, <1>3 DEF Acknowledged

\* A segment that is taken, or had been before, has arrived.
LEMMA DataArrives ==
    ASSUME TypeOK, Order, NEW m \in net, ReceiveData(m), NEW n \in acklist', n \notin acklist
    PROVE  Acknowledged(n)'
<1>1. n = m.number /\ Numbered(m) /\ UNCHANGED <<base, written, read>>
  BY DEF ReceiveData, ClearAcks, receiving, history, Order
<1>2. m.item \in 1 .. written /\ n = Plus(base, m.item - 1)
  BY <1>1 DEF Numbered
<1>3. \E s \in cache' : s.item = m.item
  <2>1. CASE \E s \in cache : s.number = m.number
    <3>1. PICK s \in cache : s.number = m.number
      BY <2>1
    <3>2. /\ s.item - 1 \in 0 .. Mod - 1 /\ m.item - 1 \in 0 .. Mod - 1
          /\ Plus(base, s.item - 1) = Plus(base, m.item - 1)
          /\ s.item \in Nat /\ m.item \in Nat
      BY <1>1, <1>2, <3>1, Positions, NumbersLast DEF Order, Numbered
    <3>3. s.item - 1 = m.item - 1
      BY <3>2, PlusInjective, Positions
    <3>4. s.item = m.item /\ s \in cache'
      BY <3>1, <3>2, <3>3 DEF ReceiveData, receiving
    <3> QED
      BY <3>4
  <2>2. CASE ~\E s \in cache : s.number = m.number
    <3>1. cache' = cache \cup {[number |-> m.number, item |-> m.item]}
      BY <2>2 DEF ReceiveData, receiving, ClearAcks
    <3>2. [number |-> m.number, item |-> m.item].item = m.item
      OBVIOUS
    <3>3. [number |-> m.number, item |-> m.item] \in cache'
      BY <3>1
    <3> QED
      BY <3>2, <3>3
  <2> QED
    BY <2>1, <2>2
<1> QED
  BY <1>1, <1>2, <1>3 DEF Acknowledged, Arrived

LEMMA TruthfulStep == ASSUME TypeOK, Order, Truthful, [Next]_vars PROVE Truthful'
<1>1. ASSUME NEW n \in acklist' PROVE n \in acklist \/ Acknowledged(n)'
  <2>1. CASE \E m \in net : ReceiveData(m)
    BY <2>1, DataArrives, <1>1
  <2>2. CASE \E m \in net : ReceiveCommandB(m)
    BY <2>2, <1>1 DEF ReceiveCommandB, ClearAcks
  <2>3. CASE \E m \in net : ReceiveAck(m) \/ ReceiveCommandA(m) \/ Lose(m)
    BY <2>3, <1>1 DEF ReceiveAck, ReceiveCommandA, Lose, receiving
  <2>4. CASE Flush \/ \E e \in Ends : Close(e)
    BY <2>4, <1>1 DEF Flush, FlushA, FlushB, FlushTerminating, Close, receiving
  <2>5. CASE WriteCheck \/ Push \/ Read \/ ReadClosed \/ ReadCheck \/ UNCHANGED vars
    BY <2>5, <1>1 DEF WriteCheck, Push, Read, ReadClosed, ReadCheck, vars, receiving
  <2> QED
    BY <2>1, <2>2, <2>3, <2>4, <2>5 DEF Next, Receive
<1>2. ASSUME NEW m \in net', m \notin net, m.to = A
      PROVE  m.una = recvNext /\ (m.cmd = "ack" => m.numbers = acklist)
  <2>1. CASE FlushA
    <3>1. Command(A, "ping", state'[A]).to = B /\ \A s : DataOf(s, state'[A]).to = B
      BY DEF Command, DataOf
    <3> QED
      BY <1>2, <2>1, <3>1, FlushANet DEF A, B
  <2>2. CASE FlushB
    <3>1. /\ Command(B, "ping", state'[B]).una = recvNext
          /\ Command(B, "ping", state'[B]).cmd = "ping"
          /\ AckOf(state'[B]).una = recvNext /\ AckOf(state'[B]).numbers = acklist
      BY DEF Command, Una, AckOf, A, B
    <3> QED
      BY <1>2, <2>2, <3>1, FlushBNet
  <2>3. CASE \E e \in Ends : FlushTerminating(e)
    <3>1. PICK e \in Ends : m = Command(e, "terminate", "Terminating")
      BY <1>2, <2>3, FlushTerminatingNet
    <3> QED
      BY <1>2, <3>1 DEF Command, Una, A, B
  <2>4. CASE ~Flush
    <3>1. net' \subseteq net
      BY <2>4 DEF Next, vars, Receive, ReceiveAck, ReceiveCommandA, ReceiveData,
         ReceiveCommandB, Take, Lose, Close, WriteCheck, Push, Read, ReadClosed, ReadCheck
    <3> QED
      BY <1>2, <3>1
  <2> QED
    BY <2>1, <2>2, <2>3, <2>4 DEF Flush
<1>3. \A n \in acklist' : Acknowledged(n)'
  BY <1>1, AcknowledgedStays DEF Truthful
<1>4. ASSUME NEW m \in net', m.to = A
      PROVE  /\ \E j \in 0 .. Len(read') : m.una = Plus(base', j)
             /\ m.cmd = "ack" => \A n \in m.numbers : Acknowledged(n)'
  <2>1. CASE m \in net
    <3>1. PICK j \in 0 .. Len(read) : m.una = Plus(base, j)
      BY <1>4, <2>1 DEF Truthful
    <3>2. j \in 0 .. Len(read') /\ base' = base
      BY ArrivedStays, Positions
    <3> QED
      BY <1>4, <2>1, <3>1, <3>2, AcknowledgedStays DEF Truthful
  <2>2. CASE m \notin net
    <3>1. m.una = recvNext /\ (m.cmd = "ack" => m.numbers = acklist)
      BY <1>2, <1>4, <2>2
    <3>2. Len(read) \in 0 .. Len(read') /\ base' = base /\ recvNext = Plus(base, Len(read))
      BY ArrivedStays, Positions
    <3> QED
      BY <3>1, <3>2, AcknowledgedStays DEF Truthful
  <2> QED
    BY <2>1, <2>2
<1> QED
  BY <1>3, <1>4 DEF Truthful

-----------------------------------------------------------------------------
(* What A gives up has arrived.                                             *)

\* Once A has stopped sending it does not begin again.
LEMMA StopsForGood ==
    ASSUME TypeOK, [Next]_vars, Sends(state'[A]) PROVE Sends(state[A])
<1> USE DEF TypeOK
<1>1. CASE \E m \in net : ReceiveAck(m) \/ ReceiveCommandA(m)
  <2>1. PICK m \in net : ReceiveAck(m) \/ ReceiveCommandA(m)
    BY <1>1
  <2>2. m.to = A /\ state'[A] = StateAfter(m)
    BY <2>1 DEF ReceiveAck, ReceiveCommandA, Ends
  <2> QED
    BY <2>2, StateAfterType
<1>2. CASE \E m \in net : ReceiveData(m) \/ ReceiveCommandB(m)
  BY <1>2 DEF ReceiveData, ReceiveCommandB, Ends, A, B
<1>3. CASE \E e \in Ends : Close(e)
  BY <1>3, StateTypes DEF Close, Ends, A, B
<1>4. CASE FlushA
  BY <1>4, FlushedStateType DEF FlushA, Ends
<1>5. CASE FlushB
  BY <1>5 DEF FlushB, FlushedState, A, B
<1>6. CASE \E e \in Ends : FlushTerminating(e)
  BY <1>6 DEF FlushTerminating, Sends
<1>7. CASE \/ WriteCheck \/ Push \/ Read \/ ReadClosed \/ ReadCheck \/ UNCHANGED vars
           \/ \E m \in net : Lose(m)
  BY <1>7 DEF WriteCheck, Push, Read, ReadClosed, ReadCheck, vars, Lose
<1> QED
  BY <1>1, <1>2, <1>3, <1>4, <1>5, <1>6, <1>7 DEF Next, Receive, Flush

\* What a number that the reader has reached clears has been read, or Clear skips at the wrap.
LEMMA ClearedWasRead ==
    ASSUME TypeOK, Order, NEW j \in 0 .. Len(read), ~Skips(window, Plus(base, j)),
           NEW s \in window, s \notin ClearTo(window, Plus(base, j))
    PROVE  s.item <= Len(read)
<1>1. s.number < Plus(base, j)
  <2>1. s.number \in Int /\ ~Before(s, s)
    BY DEF Segment, Item, Number, TypeOK, Before
  <2>2. j \in 0 .. Mod
    BY Positions, NumbersLast
  <2>3. Plus(base, j) \in Int
    BY <2>2, Positions, PlusNumber DEF Number
  <2> QED
    BY <2>1, <2>3 DEF ClearTo
<1>2. ~(s.item - 1 >= Minus(Plus(base, j), base))
  BY <1>1 DEF Skips
<1>3. j \in 0 .. Mod - 1 /\ 0 \in 0 .. Mod - 1 /\ base \in Number /\ Len(read) \in Nat
  BY Positions, NumbersLast
<1>4. Plus(base, 0) = base
  BY <1>3, NumbersLast DEF Plus, Number
<1>5. Minus(Plus(base, j), base) = j
  BY <1>3, <1>4, MinusPlus
<1>6. s.item \in Nat
  BY DEF TypeOK, Segment, Item
<1> QED
  BY <1>2, <1>3, <1>5, <1>6

LEMMA GivenUpHasArrived ==
    ASSUME TypeOK, Order, Truthful, NEW m \in net, ~skipped',
           ReceiveAck(m) \/ ReceiveCommandA(m), Sends(state'[A]),
           NEW s \in window, s \notin window'
    PROVE  Arrived(s.item)
<1>1. Kept(window, state[A], state'[A]) = window
  BY DEF Kept
<1>2. m.to = A
  BY DEF ReceiveAck, ReceiveCommandA
<1>3. CASE s \notin ClearTo(window, m.una)
  <2>1. PICK j \in 0 .. Len(read) : m.una = Plus(base, j)
    BY <1>2 DEF Truthful
  <2>2. ~Skips(window, Plus(base, j))
    BY <1>1, <2>1 DEF ReceiveAck, ReceiveCommandA
  <2> QED
    BY <1>3, <2>1, <2>2, ClearedWasRead DEF Arrived
<1>4. CASE s \in ClearTo(window, m.una)
  <2>1. m.cmd = "ack" /\ s.number \in m.numbers
    BY <1>1, <1>4 DEF ReceiveAck, ReceiveCommandA, Removed
  <2>2. PICK i \in 1 .. written : s.number = Plus(base, i - 1) /\ Arrived(i)
    BY <1>2, <2>1 DEF Truthful, Acknowledged
  <2>3. /\ s.item - 1 \in 0 .. Mod - 1 /\ i - 1 \in 0 .. Mod - 1 /\ s.item \in Nat
        /\ Plus(base, s.item - 1) = Plus(base, i - 1)
    <3>1. s.item \in 1 .. written /\ s.number = Plus(base, s.item - 1)
      BY DEF Order, Numbered
    <3>2. written \in Nat /\ written <= MaxWrites
      BY Positions
    <3> QED
      BY <2>2, <3>1, <3>2, NumbersLast
  <2>4. s.item - 1 = i - 1
    BY <2>3, PlusInjective, Positions
  <2> QED
    BY <2>2, <2>3, <2>4
<1> QED
  BY <1>3, <1>4

LEMMA SkippedStays == ASSUME [Next]_vars, skipped PROVE skipped'
<1>1. CASE WriteCheck \/ Push \/ Read \/ ReadClosed \/ ReadCheck \/ UNCHANGED vars
  BY <1>1 DEF WriteCheck, Push, Read, ReadClosed, ReadCheck, vars, history
<1>2. CASE FlushA \/ FlushB \/ \E e \in Ends : Close(e) \/ FlushTerminating(e)
  BY <1>2 DEF FlushA, FlushB, Close, FlushTerminating
<1>3. CASE \E m \in net : Receive(m) \/ Lose(m)
  BY <1>3 DEF Receive, ReceiveAck, ReceiveCommandA, ReceiveData, ReceiveCommandB, Lose, history
<1> QED
  BY <1>1, <1>2, <1>3 DEF Next, Flush

LEMMA KeepsStep == ASSUME TypeOK, Order, Truthful, Keeps, [Next]_vars PROVE Keeps'
<1> SUFFICES ASSUME Sends(state'[A]), ~skipped', NEW i \in 1 .. written'
             PROVE  Arrived(i)' \/ \E s \in window' : s.item = i
  BY DEF Keeps
<1>1. Sends(state[A]) /\ ~skipped /\ i \in Nat
  BY StopsForGood, SkippedStays, Positions
<1>2. CASE i \notin 1 .. written
  <2>1. Push /\ written' = written + 1 /\ i = written + 1
    <3>1. written' # written
      BY <1>2
    <3>2. Push \/ Read \/ \E m \in net : ReceiveData(m)
      BY <3>1, OthersLeaveItems
    <3>3. Push
      BY <3>1, <3>2 DEF Read, ReceiveData, history
    <3>4. written' = written + 1
      BY <3>1, <3>3 DEF Push
    <3> QED
      BY <1>1, <1>2, <3>3, <3>4, Positions
  <2>2. [number |-> sendNext, item |-> written + 1] \in window'
    BY <2>1, Positions DEF Push
  <2> QED
    BY <2>1, <2>2
<1>3. CASE i \in 1 .. written /\ Arrived(i)
  BY <1>1, <1>3, ArrivedStays
<1>4. CASE \E s \in window : s.item = i
  <2>1. PICK s \in window : s.item = i
    BY <1>4
  <2>2. CASE \E m \in net : ReceiveAck(m) \/ ReceiveCommandA(m)
    BY <1>1, <2>1, <2>2, GivenUpHasArrived, ArrivedStays
  <2>3. CASE ~\E m \in net : ReceiveAck(m) \/ ReceiveCommandA(m)
    <3>1. window \subseteq window'
      <4>1. CASE \E e \in Ends : Close(e) \/ FlushTerminating(e)
        BY <4>1 DEF Close, FlushTerminating, Kept
      <4>2. CASE FlushA \/ FlushB
        BY <4>2 DEF FlushA, FlushB, Kept, sending
      <4>3. CASE \E m \in net : ReceiveData(m) \/ ReceiveCommandB(m) \/ Lose(m)
        BY <4>3 DEF ReceiveData, ReceiveCommandB, Lose, sending
      <4>4. CASE WriteCheck \/ Push \/ Read \/ ReadClosed \/ ReadCheck \/ UNCHANGED vars
        BY <4>4 DEF WriteCheck, Push, Read, ReadClosed, ReadCheck, vars, sending
      <4> QED
        BY <2>3, <4>1, <4>2, <4>3, <4>4 DEF Next, Receive, Flush
    <3> QED
      BY <2>1, <3>1
  <2> QED
    BY <2>2, <2>3
<1> QED
  BY <1>1, <1>2, <1>3, <1>4 DEF Keeps

-----------------------------------------------------------------------------
(* The end.                                                                 *)

\* When all has arrived and B holds nothing at the next number, B has read all.
LEMMA NothingHeld ==
    ASSUME TypeOK, Order, ~Held(recvNext), \A i \in 1 .. written : Arrived(i)
    PROVE  Len(read) = written
<1>1. SUFFICES ASSUME Len(read) < written PROVE FALSE
  BY Positions
<1>2. Len(read) + 1 \in 1 .. written /\ ~(Len(read) + 1 <= Len(read))
  BY <1>1, Positions
<1>3. PICK s \in cache : s.item = Len(read) + 1
  BY <1>2 DEF Arrived
<1>4. s.number = Plus(base, Len(read)) /\ Len(read) + 1 - 1 = Len(read)
  BY <1>3, Positions DEF Order, Numbered
<1> QED
  BY <1>4, Positions DEF Held

\* A flush that nothing entitles to end the connection leaves B's state alone, and makes A
\* close at most.
LEMMA CalmFlush ==
    ASSUME TypeOK, Ending, NEW e \in Ends, FlushedState(e), ~excused'
    PROVE  /\ ~excused
           /\ e = B => state' = state
           /\ e = A => /\ state'[B] = state[B]
                       /\ state'[A] = state[A] \/ state'[A] \in {"Active", "ReadyToClose"}
                       /\ ~Leaving /\ state'[A] \notin {"Terminating", "Terminated"}
<1>1. PICK silent \in BOOLEAN, expired \in BOOLEAN :
        /\ Settled(e, silent) \notin {"Terminating", "Terminated"}
        /\ state' = [state EXCEPT ![e] = IF expired THEN Overdue(Settled(e, silent))
                                                    ELSE Settled(e, silent)]
        /\ excused' = (excused \/ (e = B /\ silent)
                       \/ (expired /\ Overdue(Settled(e, silent)) # Settled(e, silent)))
  BY DEF FlushedState
<1>2. ~excused /\ ~(e = B /\ silent)
  BY <1>1
<1>3. state' = [state EXCEPT ![e] = Settled(e, silent)]
  BY <1>1
<1>4. CASE e = B
  BY <1>1, <1>2, <1>3, <1>4 DEF Settled, Ending, TypeOK, Ends, A, B
<1>5. CASE e = A
  <2>1. state[A] \in {"Active", "ReadyToClose"}
    BY <1>1, <1>2, <1>5 DEF Ending, Leaving, Settled
  <2>2. Settled(e, silent) \in {"Active", "ReadyToClose"}
    BY <1>1, <1>5, <2>1 DEF Settled, AfterClose
  <2> QED
    BY <1>2, <1>3, <1>5, <2>1, <2>2 DEF Leaving, TypeOK, Ends, A, B
<1> QED
  BY <1>4, <1>5 DEF Ends

\* The steps that do not move A, nor add a message.
LEMMA EndingFrame ==
    ASSUME TypeOK, Order, Ending, [Next]_vars, written' = written, eof' = eof,
           state' = state, net' \subseteq net, ~excused' => ~excused
    PROVE  Ending'
<1> SUFFICES ASSUME ~excused' PROVE Ending'
  BY DEF Ending
<1>1. ~excused
  OBVIOUS
<1>2. Leaving' = Leaving /\ (~skipped' => ~skipped)
  BY SkippedStays DEF Leaving
<1>3. Leaving' /\ ~skipped' => \A i \in 1 .. written' : Arrived(i)'
  <2>1. Leaving /\ ~skipped => \A i \in 1 .. written : Arrived(i) /\ i \in Nat
    BY <1>1, Positions DEF Ending
  <2> QED
    BY <1>2, <2>1, ArrivedStays
<1>4. eof' => (~skipped' => Len(read') = written')
  <2>1. eof /\ ~skipped => Len(read) = written
    BY <1>1 DEF Ending
  <2>2. Len(read') >= Len(read) /\ (eof => read' = read)
    <3>1. eof => ~Read
      BY DEF Read
    <3> QED
      BY <3>1, ArrivedStays, OthersLeaveItems DEF Push, ReceiveData, history
  <2> QED
    BY <1>2, <2>1, <2>2
<1> QED
  BY <1>1, <1>2, <1>3, <1>4 DEF Ending

LEMMA EndingStep ==
    ASSUME TypeOK, Order, Truthful, Keeps, Ending, [Next]_vars
    PROVE  Ending'
<1>1. CASE WriteCheck \/ Read \/ UNCHANGED vars \/ \E m \in net : Lose(m)
  <2>1. /\ written' = written /\ eof' = eof /\ state' = state /\ net' \subseteq net
        /\ excused' = excused
    BY <1>1 DEF WriteCheck, Read, Lose, vars, history
  <2> QED
    BY <2>1, EndingFrame
<1>2. CASE Push
  <2>1. CASE written' = written
    <3>1. eof' = eof /\ state' = state /\ net' = net /\ (~excused' => ~excused)
      BY <1>2, <2>1 DEF Push, TypeOK
    <3> QED
      BY <2>1, <3>1, EndingFrame
  <2>2. CASE written' # written
    <3>1. /\ eof' = eof /\ state' = state /\ net' = net
          /\ excused' = (excused \/ state[A] # "Active")
      BY <1>2, <2>2 DEF Push
    <3>2. ~excused' => ~excused /\ ~Leaving
      BY <3>1 DEF Leaving
    <3>3. ~excused' => ~Leaving' /\ ~eof' /\ state'[B] # "PeerTerminating"
      BY <3>1, <3>2 DEF Ending, Leaving
    <3> QED
      BY <3>1, <3>2, <3>3 DEF Ending, Leaving
  <2> QED
    BY <2>1, <2>2
<1>3. CASE ReadClosed
  <2>1. excused /\ excused' = excused
    BY <1>3 DEF ReadClosed, Ending
  <2> QED
    BY <2>1 DEF Ending
<1>4. CASE ReadCheck
  <2>1. UNCHANGED <<base, state, net, receiving, written, read>>
    BY <1>4 DEF ReadCheck
  <2>2. CASE eof' = eof /\ excused' = excused
    BY <2>1, <2>2, EndingFrame
  <2>3. CASE state[B] = "PeerTerminating" /\ excused' = (excused \/ Held(recvNext))
    <3> SUFFICES ASSUME ~excused' PROVE Ending'
      BY DEF Ending
    <3>1. ~excused /\ ~Held(recvNext) /\ Leaving
      BY <2>3 DEF Ending
    <3>2. ~skipped => /\ \A i \in 1 .. written : Arrived(i)
                      /\ Len(read) = written
      BY <3>1, NothingHeld DEF Ending
    <3>3. \A i : Arrived(i)' <=> Arrived(i)
      BY <2>1 DEF Arrived, receiving
    <3>4. Leaving' /\ (~skipped' => ~skipped)
      BY <2>1, <3>1, SkippedStays DEF Leaving
    <3> QED
      BY <2>1, <2>3, <3>1, <3>2, <3>3, <3>4 DEF Ending
  <2> QED
    BY <1>4, <2>2, <2>3 DEF ReadCheck
<1>5. ASSUME NEW m \in net, ReceiveAck(m) \/ ReceiveCommandA(m) PROVE Ending'
  <2>1. /\ net' \subseteq net /\ UNCHANGED <<written, eof, excused>> /\ m.to = A
        /\ state' = [state EXCEPT ![A] = StateAfter(m)]
    BY <1>5 DEF ReceiveAck, ReceiveCommandA, Take
  <2>2. CASE excused
    BY <2>1, <2>2 DEF Ending
  <2>3. CASE ~excused
    <3>1. ~m.close /\ m.cmd # "terminate"
      BY <2>1, <2>3 DEF Ending
    <3>2. state' = state
      BY <2>1, <3>1 DEF StateAfter, TypeOK
    <3> QED
      BY <2>1, <3>2, EndingFrame
  <2> QED
    BY <2>2, <2>3
<1>6. ASSUME NEW m \in net, ReceiveData(m) \/ ReceiveCommandB(m) PROVE Ending'
  <2>1. /\ net' \subseteq net /\ UNCHANGED history /\ m.to = B
        /\ state' = [state EXCEPT ![B] = StateAfter(m)]
    BY <1>6 DEF ReceiveData, ReceiveCommandB, Take
  <2> SUFFICES ASSUME ~excused' PROVE Ending'
    BY DEF Ending
  <2>2. ~excused /\ state'[A] = state[A] /\ state'[B] = StateAfter(m)
    BY <2>1 DEF history, TypeOK, Ends, A, B
  <2>3. /\ state'[B] \in {"Active", "PeerClosed", "PeerTerminating"}
        /\ state'[B] = "PeerTerminating" => Leaving
        /\ state[B] = "PeerTerminating" => state'[B] = "PeerTerminating"
    BY <2>1, <2>2 DEF Ending, StateAfter, AfterPeerClosed, AfterTerminate
  <2>4. Leaving' = Leaving /\ (~skipped' => ~skipped)
    BY <2>1, <2>2, SkippedStays DEF Leaving
  <2>5. Leaving /\ ~skipped => \A i \in 1 .. written' : Arrived(i)'
    <3>1. Leaving /\ ~skipped => \A i \in 1 .. written : Arrived(i) /\ i \in Nat
      BY <2>2, Positions DEF Ending
    <3> QED
      BY <2>1, <3>1, ArrivedStays DEF history
  <2> QED
    BY <2>1, <2>2, <2>3, <2>4, <2>5 DEF Ending, history
<1>7. ASSUME NEW e \in Ends, Close(e) PROVE Ending'
  <2>1. /\ UNCHANGED <<base, net, receiving, written, read, eof>>
        /\ state' = [state EXCEPT ![e] = AfterClose(state[e])]
        /\ excused' = (excused \/ e = B)
        /\ state[e] \in {"Active", "PeerClosed", "PeerTerminating"}
    BY <1>7 DEF Close
  <2> SUFFICES ASSUME ~excused' PROVE Ending'
    BY DEF Ending
  <2>2. ~excused /\ e = A
    BY <2>1 DEF Ends
  <2>3. state[A] = "Active" /\ state'[A] = "ReadyToClose" /\ state'[B] = state[B]
    BY <2>1, <2>2 DEF Ending, Leaving, AfterClose, TypeOK, Ends, A, B
  <2>4. ~Leaving /\ ~Leaving'
    BY <2>3 DEF Leaving
  <2> QED
    BY <2>1, <2>2, <2>3, <2>4 DEF Ending
<1>8. CASE FlushA
  <2> SUFFICES ASSUME ~excused' PROVE Ending'
    BY DEF Ending
  <2>1. UNCHANGED <<base, receiving, written, read, eof>> /\ FlushedState(A)
    BY <1>8 DEF FlushA
  <2>2. ~excused /\ state'[B] = state[B] /\ ~Leaving /\ ~Leaving'
        /\ state'[A] \in {"Active", "ReadyToClose"}
    BY <2>1, CalmFlush DEF Ends, Leaving, Ending
  <2>3. \A m \in net' : m \in net \/ (m.to = B /\ m.cmd # "terminate")
    <3>1. \A t : DataOf(t, state'[A]).to = B /\ DataOf(t, state'[A]).cmd = "data"
      BY DEF DataOf
    <3>2. Command(A, "ping", state'[A]).to = B /\ Command(A, "ping", state'[A]).cmd = "ping"
      BY DEF Command
    <3> QED
      BY <1>8, <3>1, <3>2, FlushANet
  <2>4. B # A
    BY DEF A, B
  <2> QED
    BY <2>1, <2>2, <2>3, <2>4 DEF Ending
<1>9. CASE FlushB
  <2> SUFFICES ASSUME ~excused' PROVE Ending'
    BY DEF Ending
  <2>1. /\ UNCHANGED <<base, cache, written, read, eof>> /\ FlushedState(B)
    BY <1>9 DEF FlushB
  <2>2. ~excused /\ state' = state
    BY <2>1, CalmFlush DEF Ends
  <2>3. state[B] # "ReadyToClose"
    BY <2>2 DEF Ending
  <2>4. \A m \in net' : m \in net \/ (m.to = A /\ m.cmd # "terminate" /\ ~m.close)
    <3>1. /\ AckOf(state'[B]).to = A /\ AckOf(state'[B]).cmd = "ack" /\ ~AckOf(state'[B]).close
          /\ Command(B, "ping", state'[B]).to = A /\ Command(B, "ping", state'[B]).cmd = "ping"
          /\ ~Command(B, "ping", state'[B]).close
      BY <2>2, <2>3 DEF AckOf, Command, A, B
    <3> QED
      BY <1>9, <3>1, FlushBNet
  <2>5. \A i : Arrived(i)' <=> Arrived(i)
    BY <2>1 DEF Arrived
  <2>6. Leaving' = Leaving /\ (~skipped' => ~skipped) /\ A # B
    BY <2>1, <2>2, SkippedStays DEF Leaving, A, B
  <2> QED
    BY <2>1, <2>2, <2>4, <2>5, <2>6 DEF Ending
<1>10. ASSUME NEW e \in Ends, FlushTerminating(e) PROVE Ending'
  <2> SUFFICES ASSUME ~excused' PROVE Ending'
    BY DEF Ending
  <2>1. PICK silent \in BOOLEAN, expired \in BOOLEAN :
          /\ Settled(e, silent) = "Terminating"
          /\ state' = [state EXCEPT ![e] = IF expired THEN "Terminated" ELSE "Terminating"]
          /\ excused' = (excused \/ (e = B /\ silent))
    BY <1>10 DEF FlushTerminating
  <2>2. UNCHANGED <<base, receiving, written, read, eof>>
    BY <1>10 DEF FlushTerminating
  <2>3. ~excused /\ ~(e = B /\ silent)
    BY <2>1
  <2>4. e = A
    <3>1. e = B => state[B] \in {"ReadyToClose", "Terminating"}
      BY <2>1, <2>3 DEF Settled
    <3> QED
      BY <2>3, <3>1 DEF Ending, Ends
  <2>5. /\ state'[A] \in {"Terminating", "Terminated"} /\ state'[B] = state[B]
        /\ A # B
    BY <2>1, <2>4 DEF TypeOK, Ends, A, B
  <2>6. Leaving' /\ (~skipped' => ~skipped)
    BY <2>2, <2>5, SkippedStays DEF Leaving
  <2>7. ~skipped => \A i \in 1 .. written : Arrived(i)
    <3>1. CASE Leaving
      BY <2>3, <3>1 DEF Ending
    <3>2. CASE ~Leaving
      <4>1. state[A] \in {"Active", "ReadyToClose"} /\ window = {}
        BY <2>1, <2>3, <2>4, <3>2 DEF Ending, Settled, Leaving, AfterClose
      <4> QED
        BY <4>1 DEF Keeps, Sends
    <3> QED
      BY <3>1, <3>2
  <2>8. \A i : Arrived(i)' <=> Arrived(i)
    BY <2>2 DEF Arrived, receiving
  <2>9. \A m \in net' : m \in net \/ m.to = B
    <3>1. Command(A, "terminate", "Terminating").to = B
      BY DEF Command
    <3> QED
      BY <1>10, <2>4, <3>1, FlushTerminatingNet
  <2> QED
    BY <2>2, <2>3, <2>5, <2>6, <2>7, <2>8, <2>9 DEF Ending
<1> QED
  BY <1>1, <1>2, <1>3, <1>4, <1>5, <1>6, <1>7, <1>8, <1>9, <1>10 DEF Next, Receive, Flush

-----------------------------------------------------------------------------
(* Whatever A still has of what has arrived is acknowledged again, until the *)
(* numbers wrap: B drops a number only when A has said that it is done.      *)

\* A number that A has sent as una: what is in its window comes later.
Early(una) == \E j \in 0 .. written : una = Plus(base, j) /\ \A s \in window : s.item > j

Answered ==
    /\ Early(firstUnacknowledged)
    /\ \A m \in net : m.to = B => Early(m.una)
    /\ \A s \in window : Arrived(s.item) => s.number \in acklist \/ base + s.item - 1 >= Mod

\* The window grows at its end, and then nothing arrives.
LEMMA WindowStep ==
    ASSUME TypeOK, [Next]_vars, NEW s \in window', s \notin window
    PROVE  Push /\ s.item = written + 1
<1>1. CASE Push
  BY <1>1 DEF Push
<1>2. CASE \E m \in net : ReceiveAck(m) \/ ReceiveCommandA(m)
  BY <1>2, WindowShrinks
<1>3. CASE FlushA \/ \E e \in Ends : Close(e) \/ FlushTerminating(e)
  <2>1. \A t, u : Kept(window, t, u) \subseteq window
    BY Windows DEF TypeOK
  <2>2. window' = window \/ \E t, u : window' = Kept(window, t, u)
    BY <1>3 DEF FlushA, Close, FlushTerminating
  <2> QED
    BY <2>1, <2>2
<1>4. CASE FlushB \/ \E m \in net : ReceiveData(m) \/ ReceiveCommandB(m) \/ Lose(m)
  BY <1>4 DEF FlushB, ReceiveData, ReceiveCommandB, Lose, sending
<1>5. CASE WriteCheck \/ Read \/ ReadClosed \/ ReadCheck \/ UNCHANGED vars
  BY <1>5 DEF WriteCheck, Read, ReadClosed, ReadCheck, vars, sending
<1> QED
  BY <1>1, <1>2, <1>3, <1>4, <1>5 DEF Next, Receive, Flush

LEMMA EarlyStays ==
    ASSUME TypeOK, Order, [Next]_vars, NEW una, Early(una)
    PROVE  Early(una)'
<1>1. PICK j \in 0 .. written : una = Plus(base, j) /\ \A s \in window : s.item > j
  BY DEF Early
<1>2. base' = base /\ j \in 0 .. written' /\ written \in Nat
  BY <1>1, ArrivedStays, Positions
<1>3. \A s \in window' : s.item > j
  <2> TAKE s \in window'
  <2>1. CASE s \in window
    BY <1>1, <2>1
  <2>2. CASE s \notin window
    BY <1>2, <2>2, WindowStep
  <2> QED
    BY <2>1, <2>2
<1> QED
  BY <1>1, <1>2, <1>3 DEF Early

\* The number of the first segment, or the next one, is early.
LEMMA FirstIsEarly ==
    ASSUME TypeOK, Order, [Next]_vars, Order', NEW m \in net, ReceiveAck(m) \/ ReceiveCommandA(m)
    PROVE  Early(firstUnacknowledged)'
<1>1. /\ IsFirst(firstUnacknowledged', window') /\ sendNext' = sendNext
      /\ written' = written /\ base' = base
  BY DEF ReceiveAck, ReceiveCommandA, history
<1>2. CASE window' = {}
  <2>1. firstUnacknowledged' = Plus(base, written) /\ written \in 0 .. written
    BY <1>1, <1>2, Positions DEF IsFirst
  <2> QED
    BY <1>1, <1>2, <2>1 DEF Early
<1>3. CASE window' # {}
  <2>1. PICK s \in window' : firstUnacknowledged' = s.number /\ \A t \in window' : ~Before(t, s)
    BY <1>1, <1>3 DEF IsFirst
  <2>2. s.item \in 1 .. written /\ s.number = Plus(base, s.item - 1)
        /\ \A t \in window' : t.item \in 1 .. written
    BY <1>1 DEF Order, Numbered
  <2>3. s.item - 1 \in 0 .. written /\ \A t \in window' : t.item > s.item - 1
    BY <2>1, <2>2, Positions DEF Before
  <2> QED
    BY <1>1, <2>1, <2>2, <2>3 DEF Early
<1> QED
  BY <1>2, <1>3

\* What A sends says what A has at that time.
LEMMA SendsEarly ==
    ASSUME TypeOK, Order, [Next]_vars, Answered, NEW m \in net', m.to = B
    PROVE  Early(m.una)'
<1>1. CASE m \in net
  BY <1>1, EarlyStays DEF Answered
<1>2. CASE m \notin net /\ FlushA
  <2>1. m.una = firstUnacknowledged
    <3>1. Command(A, "ping", state'[A]).una = firstUnacknowledged
          /\ \A s : DataOf(s, state'[A]).una = firstUnacknowledged
      BY DEF Command, Una, DataOf
    <3> QED
      BY <1>2, <3>1, FlushANet
  <2> QED
    BY <2>1, EarlyStays DEF Answered
<1>3. CASE m \notin net /\ FlushB
  <2>1. Command(B, "ping", state'[B]).to = A /\ AckOf(state'[B]).to = A /\ A # B
    BY DEF Command, AckOf, A, B
  <2> QED
    BY <1>3, <2>1, FlushBNet
<1>4. ASSUME NEW e \in Ends, m \notin net, FlushTerminating(e) PROVE Early(m.una)'
  <2>1. m = Command(e, "terminate", "Terminating")
    BY <1>4, FlushTerminatingNet
  <2>2. e = A /\ m.una = firstUnacknowledged
    BY <1>4, <2>1 DEF Command, Una, Ends, A, B
  <2> QED
    BY <2>2, EarlyStays DEF Answered
<1>5. CASE net' \subseteq net
  BY <1>1, <1>5
<1>6. CASE \E n \in net : Receive(n) \/ Lose(n)
  BY <1>5, <1>6 DEF Receive, ReceiveAck, ReceiveCommandA, ReceiveData, ReceiveCommandB, Take, Lose
<1>7. CASE WriteCheck \/ Push \/ Read \/ ReadClosed \/ ReadCheck \/ UNCHANGED vars
           \/ \E e \in Ends : Close(e)
  BY <1>5, <1>7 DEF WriteCheck, Push, Read, ReadClosed, ReadCheck, vars, Close
<1> QED
  BY <1>1, <1>2, <1>3, <1>4, <1>6, <1>7 DEF Next, Flush

\* What Read gives out was held.
LEMMA ReadWasHeld ==
    ASSUME TypeOK, Order, Read, NEW i \in Nat, Arrived(i)'
    PROVE  Arrived(i)
<1>1. PICK k \in 0 .. RecvWindow :
        /\ \A j \in 0 .. k - 1 : Held(Plus(recvNext, j))
        /\ recvNext' = Plus(recvNext, k)
        /\ read' = read \o [j \in 1 .. k |-> ItemAt(Plus(recvNext, j - 1))]
        /\ cache' \subseteq cache
  BY DEF Read
<1>2. k \in Nat /\ k <= RecvWindow /\ RecvWindow \in Nat
  BY NumbersLast
<1>3. Len(read') = Len(read) + k
  <2> DEFINE more == [j \in 1 .. k |-> ItemAt(Plus(recvNext, j - 1))]
  <2>1. \A j \in 1 .. k : ItemAt(Plus(recvNext, j - 1)) \in Nat
    <3> TAKE j \in 1 .. k
    <3>1. PICK n \in 0 .. RecvWindow : n = j - 1 /\ n \in 0 .. k - 1
      BY <1>2
    <3>2. ItemAt(Plus(recvNext, n)) = Len(read) + n + 1
      BY <1>1, <3>1, HeldItem
    <3> QED
      BY <3>1, <3>2, Positions
  <2>2. more \in Seq(Nat) /\ Len(more) = k
    BY <1>2, <2>1
  <2>3. read \in Seq(Nat)
    BY DEF TypeOK, Item
  <2> QED
    BY <1>1, <2>2, <2>3, ConcatProperties
<1>4. CASE i > Len(read) /\ i <= Len(read')
  <2>1. PICK j \in 0 .. RecvWindow : i = Len(read) + j + 1 /\ j \in 0 .. k - 1
    <3> DEFINE j == i - Len(read) - 1
    <3>1. Len(read) \in Nat
      BY Positions
    <3>2. j \in 0 .. k - 1 /\ j \in 0 .. RecvWindow /\ i = Len(read) + j + 1
      BY <1>2, <1>3, <1>4, <3>1
    <3> QED
      BY <3>2
  <2>2. Held(Plus(recvNext, j)) /\ ItemAt(Plus(recvNext, j)) = i
    BY <1>1, <2>1, HeldItem
  <2>3. (CHOOSE s \in cache : s.number = Plus(recvNext, j)) \in cache
    BY <2>2 DEF Held
  <2> QED
    BY <2>2, <2>3 DEF ItemAt, Arrived
<1>5. CASE i <= Len(read)
  BY <1>5 DEF Arrived
<1>6. CASE \E s \in cache' : s.item = i
  BY <1>1, <1>6 DEF Arrived
<1> QED
  BY <1>4, <1>5, <1>6, Positions DEF Arrived

\* A number that una has passed has been given up by A, or wrapped.
LEMMA PassedHasWrapped ==
    ASSUME TypeOK, Order, NEW una, Early(una), NEW s \in window, ~(s.number >= una)
    PROVE  base + s.item - 1 >= Mod
<1>1. PICK j \in 0 .. written : una = Plus(base, j) /\ s.item > j
  BY DEF Early
<1>2. s.item \in 1 .. written /\ s.number = Plus(base, s.item - 1)
  BY DEF Order, Numbered
<1>3. base \in 0 .. Mod - 1 /\ Mod \in Nat /\ written \in Nat /\ written < Mod
  BY Positions, NumbersLast DEF Number
<1> QED
  BY <1>1, <1>2, <1>3 DEF Plus

LEMMA AnsweredStep ==
    ASSUME TypeOK, Order, Answered, [Next]_vars, Order'
    PROVE  Answered'
<1>1. Early(firstUnacknowledged)'
  <2>1. CASE \E m \in net : ReceiveAck(m) \/ ReceiveCommandA(m)
    BY <2>1, FirstIsEarly
  <2>2. CASE ~\E m \in net : ReceiveAck(m) \/ ReceiveCommandA(m)
    <3>1. Push \/ FlushA \/ (\E e \in Ends : Close(e) \/ FlushTerminating(e))
            => firstUnacknowledged' = firstUnacknowledged
      BY DEF Push, FlushA, Close, FlushTerminating
    <3>2. FlushB \/ (\E m \in net : ReceiveData(m) \/ ReceiveCommandB(m) \/ Lose(m))
            => firstUnacknowledged' = firstUnacknowledged
      BY DEF FlushB, ReceiveData, ReceiveCommandB, Lose, sending
    <3>3. WriteCheck \/ Read \/ ReadClosed \/ ReadCheck \/ UNCHANGED vars
            => firstUnacknowledged' = firstUnacknowledged
      BY DEF WriteCheck, Read, ReadClosed, ReadCheck, vars, sending
    <3>4. firstUnacknowledged' = firstUnacknowledged
      BY <2>2, <3>1, <3>2, <3>3 DEF Next, Receive, Flush
    <3>5. Early(firstUnacknowledged)
      BY DEF Answered
    <3>6. \A una : Early(una) => Early(una)'
      BY EarlyStays
    <3> QED
      BY <3>4, <3>5, <3>6 DEF Early
  <2> QED
    BY <2>1, <2>2
<1>2. \A m \in net' : m.to = B => Early(m.una)'
  BY SendsEarly
<1>3. ASSUME NEW s \in window', Arrived(s.item)'
      PROVE  s.number \in acklist' \/ base + s.item - 1 >= Mod
  <2>1. CASE s \notin window
    <3>1. Push /\ s.item = written + 1
      BY <2>1, WindowStep
    <3>2. read' = read /\ cache' = cache
      BY <3>1 DEF Push, receiving
    <3>3. ~(s.item <= Len(read)) /\ \A t \in cache : t.item # s.item
      <4>1. \A t \in cache : t.item \in 1 .. written
        BY DEF Order, Numbered
      <4>2. Len(read) \in Nat /\ written \in Nat /\ Len(read) <= written
        BY Positions
      <4> QED
        BY <3>1, <4>1, <4>2
    <3> QED
      BY <1>3, <3>2, <3>3 DEF Arrived
  <2>2. CASE s \in window
    <3>0. s.item \in Nat /\ Numbered(s)
      BY <2>2 DEF Order, Numbered
    <3>1. ASSUME Arrived(s.item), ~(base + s.item - 1 >= Mod)
          PROVE  s.number \in acklist
      BY <2>2, <3>1 DEF Answered
    <3>2. ASSUME NEW m \in net, ReceiveData(m) \/ ReceiveCommandB(m), s.number \in acklist,
                 ~(base + s.item - 1 >= Mod)
          PROVE  s.number \in ClearAcks(m.una)
      <4>1. m.to = B /\ Early(m.una)
        BY <3>2 DEF ReceiveData, ReceiveCommandB, Answered
      <4> QED
        BY <2>2, <3>2, <4>1, PassedHasWrapped DEF ClearAcks
    <3>3. ASSUME NEW m \in net, ReceiveData(m)
          PROVE  s.number \in acklist' \/ base + s.item - 1 >= Mod
      <4>1. read' = read /\ (acklist' = ClearAcks(m.una) \cup {m.number} \/ UNCHANGED receiving)
            /\ (UNCHANGED receiving \/ cache' \subseteq cache \cup {[number |-> m.number, item |-> m.item]})
        BY <3>3 DEF ReceiveData, history
      <4>2. CASE s.item = m.item
        <5>1. Numbered(m) /\ s.number = m.number
          BY <3>0, <3>3, <4>2 DEF ReceiveData, Order, Numbered
        <5>2. CASE acklist' = ClearAcks(m.una) \cup {m.number}
          BY <5>1, <5>2
        <5>3. CASE UNCHANGED receiving
          BY <1>3, <3>1, <4>1, <5>3 DEF receiving, Arrived
        <5> QED
          BY <4>1, <5>2, <5>3
      <4>3. CASE s.item # m.item
        <5>1. Arrived(s.item)
          BY <1>3, <4>1, <4>3 DEF Arrived, receiving
        <5> QED
          BY <3>1, <3>2, <3>3, <4>1, <5>1 DEF receiving
      <4> QED
        BY <4>2, <4>3
    <3>4. ASSUME NEW m \in net, ReceiveCommandB(m)
          PROVE  s.number \in acklist' \/ base + s.item - 1 >= Mod
      <4>1. read' = read /\ cache' = cache /\ acklist' = ClearAcks(m.una)
        BY <3>4 DEF ReceiveCommandB, history
      <4>2. Arrived(s.item)
        BY <1>3, <4>1 DEF Arrived
      <4> QED
        BY <3>1, <3>2, <3>4, <4>1, <4>2
    <3>5. CASE Read
      <4>1. acklist' = acklist /\ Arrived(s.item)
        BY <1>3, <3>0, <3>5, ReadWasHeld DEF Read
      <4> QED
        BY <3>1, <4>1
    <3>6. CASE UNCHANGED <<read, cache, acklist>>
      BY <1>3, <3>1, <3>6 DEF Arrived
    <3>7. CASE Push \/ FlushA \/ FlushB \/ \E e \in Ends : Close(e) \/ FlushTerminating(e)
      BY <3>6, <3>7 DEF Push, FlushA, FlushB, Close, FlushTerminating, receiving
    <3>8. CASE \E m \in net : ReceiveAck(m) \/ ReceiveCommandA(m) \/ Lose(m)
      BY <3>6, <3>8 DEF ReceiveAck, ReceiveCommandA, Lose, receiving, history
    <3>9. CASE WriteCheck \/ ReadClosed \/ ReadCheck \/ UNCHANGED vars
      BY <3>6, <3>9 DEF WriteCheck, ReadClosed, ReadCheck, vars, receiving, history
    <3> QED
      BY <3>3, <3>4, <3>5, <3>7, <3>8, <3>9 DEF Next, Receive, Flush
  <2> QED
    BY <2>1, <2>2
<1>4. base' = base
  BY ArrivedStays
<1> QED
  BY <1>1, <1>2, <1>3, <1>4 DEF Answered

LEMMA InitAnswered == ASSUME Init PROVE Answered
<1>1. base \in Number /\ written = 0 /\ window = {} /\ net = {} /\ firstUnacknowledged = base
  BY NumbersLast DEF Init
<1>2. Plus(base, 0) = base /\ 0 \in 0 .. 0
  BY <1>1, NumbersLast DEF Plus, Number
<1> QED
  BY <1>1, <1>2 DEF Answered, Early

\* What A sends first is new to B, or read and acknowledged, or B can read on.
LEMMA FirstGetsOn ==
    ASSUME TypeOK, Order, Answered, Keeps, Sends(state[A]), ~skipped,
           NEW s \in window, \A t \in window : ~Before(t, s)
    PROVE  \/ Minus(s.number, recvNext) < RecvWindow
           \/ s.number \in acklist
           \/ s.number < recvNext
           \/ Held(recvNext)
<1>1. /\ s.item \in 1 .. written /\ s.number = Plus(base, s.item - 1)
      /\ base \in 0 .. Mod - 1 /\ Mod \in Nat /\ written \in Nat /\ written < Mod
      /\ Len(read) \in Nat /\ Len(read) <= written /\ recvNext = Plus(base, Len(read))
  BY Positions, NumbersLast DEF Order, Numbered, Number
<1>2. CASE s.item = Len(read) + 1
  <2>1. s.number = recvNext /\ recvNext \in Nat
    BY <1>1, <1>2, NumbersLast DEF Plus
  <2>2. Minus(recvNext, recvNext) = 0
    BY <2>1 DEF Minus
  <2> QED
    BY <2>1, <2>2, NumbersLast
<1>3. CASE s.item > Len(read) + 1
  <2>1. Len(read) + 1 \in 1 .. written /\ \A t \in window : t.item # Len(read) + 1
    BY <1>1, <1>3 DEF Before, Order, Numbered
  <2>2. ~(Len(read) + 1 <= Len(read))
    BY <1>1
  <2>3. PICK c \in cache : c.item = Len(read) + 1
    BY <2>1, <2>2 DEF Keeps, Arrived
  <2>4. c.number = Plus(base, Len(read))
    BY <1>1, <2>3 DEF Order, Numbered
  <2> QED
    BY <1>1, <2>4 DEF Held
<1>4. CASE s.item <= Len(read)
  <2>1. s.number \in acklist \/ base + s.item - 1 >= Mod
    BY <1>4 DEF Answered, Arrived
  <2>2. base + s.item - 1 >= Mod => s.number < recvNext
    BY <1>1, <1>4 DEF Plus
  <2> QED
    BY <2>1, <2>2
<1> QED
  BY <1>1, <1>2, <1>3, <1>4

\* What the reader waits for is held at one end.
LEMMA NextIsHeld ==
    ASSUME TypeOK, Order, Keeps, Sends(state[A]), ~skipped, Len(read) < written
    PROVE  Held(recvNext) \/ \E s \in window : s.number = recvNext
<1>1. /\ Len(read) + 1 \in 1 .. written /\ ~(Len(read) + 1 <= Len(read))
      /\ Len(read) + 1 - 1 = Len(read) /\ recvNext = Plus(base, Len(read))
  BY Positions
<1>2. CASE \E s \in cache : s.item = Len(read) + 1
  BY <1>1, <1>2 DEF Order, Numbered, Held
<1>3. CASE \E s \in window : s.item = Len(read) + 1
  BY <1>1, <1>3 DEF Order, Numbered
<1> QED
  BY <1>1, <1>2, <1>3 DEF Keeps, Arrived

-----------------------------------------------------------------------------
(* The theorems.                                                            *)

LEMMA InitInv == Init => IInv
<1> SUFFICES ASSUME Init PROVE IInv
  OBVIOUS
<1>1. base \in Number /\ read = <<>> /\ Len(read) = 0 /\ written = 0
  BY NumbersLast DEF Init
<1>2. TypeOK
  <2>1. state \in [Ends -> States]
    BY DEF Init, States
  <2>2. remoteNext \in Number /\ read \in Seq(Item)
    BY <1>1, NumbersLast DEF Init, Number
  <2>3. pushing \in BOOLEAN /\ looked \in BOOLEAN /\ dirty \in BOOLEAN
        /\ eof \in BOOLEAN /\ excused \in BOOLEAN /\ skipped \in BOOLEAN
    BY DEF Init
  <2>4. /\ net = {} /\ window = {} /\ cache = {} /\ acklist = {} /\ base \in Bases
        /\ firstUnacknowledged = base /\ sendNext = base /\ recvNext = base
    BY DEF Init
  <2> QED
    BY <1>1, <2>1, <2>2, <2>3, <2>4 DEF TypeOK
<1>3. Order
  <2>1. Plus(base, 0) = base
    BY <1>1, NumbersLast DEF Plus, Number
  <2>2. InOrder
    BY <1>1 DEF InOrder
  <2> QED
    BY <1>1, <2>1, <2>2, NumbersLast DEF Init, Order
<1>4. Truthful /\ Keeps
  BY <1>1 DEF Init, Truthful, Keeps
<1>5. Ending
  <2>1. state[A] = "Active" /\ state[B] = "Active" /\ net = {} /\ ~eof
    BY DEF Init, Ends
  <2> QED
    BY <2>1 DEF Ending, Leaving
<1> QED
  BY <1>2, <1>3, <1>4, <1>5 DEF IInv

LEMMA StepInv == IInv /\ [Next]_vars => IInv'
  BY TypeStep, OrderStep, TruthfulStep, KeepsStep, EndingStep DEF IInv

\* The inductive invariant of a connection.
THEOREM Inductive == Spec => []IInv
  BY InitInv, StepInv, PTL DEF Spec

\* The types of the state of a connection, its segments and its datagrams.
THEOREM TypeCorrect == Spec => []TypeOK
<1>1. IInv => TypeOK
  BY DEF IInv
<1> QED
  BY <1>1, Inductive, PTL

\* ReadMultiBuffer gives out what was pushed, in order and once, whatever the network does and
\* also when the numbers wrap.
THEOREM DeliveredInOrder == Spec => []InOrder
<1>1. IInv => InOrder
  BY DEF IInv, Order
<1> QED
  BY <1>1, Inductive, PTL

\* Clear and Remove give up no segment that has not arrived, as long as the connection sends
\* and Clear has taken no segment from after the wrap for one from before.
THEOREM SenderKeepsTheRest == Spec => []NothingLost
<1>1. ASSUME IInv PROVE NothingLost
  <2> SUFFICES ASSUME Sends(state[A]), ~skipped, NEW i \in 1 .. written,
                      i \notin {read[j] : j \in DOMAIN read},
                      i \notin {s.item : s \in cache}, i \notin {s.item : s \in window}
               PROVE  FALSE
    BY DEF NothingLost, Lost
  <2>1. Arrived(i)
    BY <1>1 DEF IInv, Keeps
  <2>2. i <= Len(read)
    BY <2>1 DEF Arrived
  <2>3. i \in DOMAIN read /\ read[i] = i
    BY <1>1, <2>2, Positions DEF IInv
  <2> QED
    BY <2>3
<1> QED
  BY <1>1, Inductive, PTL

\* io.EOF comes after the last segment, unless an end was entitled to leave early or Clear has
\* taken a segment at the wrap.
THEOREM EndComesLast == Spec => []EndIsTrue
<1>1. IInv => EndIsTrue
  BY DEF IInv, Ending, EndIsTrue
<1> QED
  BY <1>1, Inductive, PTL

\* As long as Clear has taken no segment at the wrap, what the reader waits for is at one of
\* the ends, and what A sends first is of use when it arrives: it is new to B, or B says again
\* that it has it, or the reader can go on.
THEOREM GetsOn == Spec => []NeverStuck
<1>1. Init => Answered
  BY InitAnswered
<1>2. IInv /\ Answered /\ [Next]_vars => Answered'
  BY AnsweredStep, StepInv DEF IInv
<1>3. IInv /\ Answered => NeverStuck
  BY FirstGetsOn, NextIsHeld DEF IInv, NeverStuck
<1> QED
  BY <1>1, <1>2, <1>3, Inductive, PTL DEF Spec
=============================================================================

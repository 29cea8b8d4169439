--------------------------------- MODULE Kcp ---------------------------------
(* transport/internet/kcp of xray-core (mKCP): a reliable stream over UDP.    *)
(* One direction of a connection: the end A writes, the end B reads, either   *)
(* closes.  Numbers of segments are unsigned and wrap.  Some comparisons of   *)
(* the code are made modulo the wrap (Minus), others (<, >=) are not.         *)
(*                                                                            *)
(* The network loses, duplicates and reorders what is sent.  Time is not      *)
(* modelled: a timer may have expired whenever the code looks at it.          *)
(*                                                                            *)
(* Close, OnPeerClosed, the command Terminate and flush look at the state and *)
(* set it without a lock.  Each is one step here: that two of them act on one *)
(* look and the state goes back is left out.                                  *)
EXTENDS Integers, Sequences, FiniteSets

CONSTANTS
    Mod,            \* the numbers are 0 .. Mod - 1; 2^32 in the code
    Bases,          \* numbers a connection may have reached when the model begins
    Remote0,        \* what remoteNextNumber starts with, 32 in the code
    SendBuffer,     \* GetSendingBufferSize
    InFlight,       \* GetSendingInFlightSize, times CwndMultiplier
    RecvWindow,     \* GetReceivingInFlightSize
    MaxWrites,      \* bound on the segments written
    MaxNet          \* bound on the datagrams under way: what is above it is lost

A == "A"
B == "B"
Ends   == {A, B}
States == {"Active", "ReadyToClose", "PeerClosed", "Terminating", "PeerTerminating",
           "Terminated"}
Number == 0 .. Mod - 1
Half   == (Mod \div 2) - 1      \* 0x7FFFFFFF

\* No datagram lives so long that its number comes round again.
ASSUME NumbersLast ==
    /\ Mod \in Nat /\ MaxWrites \in Nat /\ RecvWindow \in Nat /\ InFlight \in Nat
    /\ RecvWindow > 0 /\ MaxWrites + RecvWindow < Mod
    /\ Bases \subseteq Number /\ Remote0 \in Number

Plus(n, k)  == IF n + k >= Mod THEN n + k - Mod ELSE n + k
Minus(n, m) == IF n >= m THEN n - m ELSE n - m + Mod

VARIABLES
    base,           \* where the numbers were when the model begins
    state,          \* Connection.state of either end
    net,            \* the datagrams under way
    \* SendingWorker of A
    window,         \* SendingWindow.cache: [number, item]; the items give its order
    firstUnacknowledged, sendNext, remoteNext,
    pushing,        \* the writer has seen StateActive and is about to Push
    \* ReceivingWorker of B
    cache,          \* ReceivingWindow.cache: a set of [number, item]
    recvNext,
    acklist, dirty,
    looked,         \* the reader has found nothing and is about to look at the state
    \* history
    written, read,  \* how many items Push took; the items the reader was given
    eof,            \* the reader was told io.EOF
    excused,        \* something happened that entitles the connection to drop data
    skipped         \* a number from before the wrap has cleared a segment from after it

sending   == <<window, firstUnacknowledged, sendNext, remoteNext>>
receiving == <<cache, recvNext, acklist, dirty>>
history   == <<written, read, eof, excused, skipped>>
vars == <<base, state, net, sending, pushing, receiving, looked, history>>

Item    == Nat \ {0}
Segment == [number : Number, item : Item]

Message ==
    [to : {B}, cmd : {"data"}, number : Number, item : Item, una : Number, close : BOOLEAN]
    \cup [to : {A}, cmd : {"ack"}, numbers : SUBSET Number, una : Number, limit : Number,
          close : BOOLEAN]
    \cup [to : Ends, cmd : {"ping", "terminate"}, una : Number, close : BOOLEAN]

TypeOK ==
    /\ base \in Bases
    /\ state \in [Ends -> States]
    /\ net \subseteq Message
    /\ window \subseteq Segment
    /\ firstUnacknowledged \in Number /\ sendNext \in Number /\ remoteNext \in Number
    /\ cache \subseteq Segment /\ recvNext \in Number
    /\ acklist \subseteq Number
    /\ dirty \in BOOLEAN /\ pushing \in BOOLEAN /\ looked \in BOOLEAN
    /\ eof \in BOOLEAN /\ excused \in BOOLEAN /\ skipped \in BOOLEAN
    /\ written \in Nat /\ read \in Seq(Item)

\* A new connection, or one that has got as far as base: its largest ReceivingWindow
\* so far is what A remembers.
Init ==
    /\ base \in Bases
    /\ state = [e \in Ends |-> "Active"]
    /\ net = {}
    /\ window = {} /\ firstUnacknowledged = base /\ sendNext = base
    /\ remoteNext = IF base = 0 THEN Remote0
                    ELSE IF base + RecvWindow < Mod THEN base + RecvWindow ELSE Mod - 1
    /\ pushing = FALSE
    /\ cache = {} /\ recvNext = base /\ acklist = {} /\ dirty = FALSE
    /\ looked = FALSE
    /\ written = 0 /\ read = <<>> /\ eof = FALSE /\ excused = FALSE
    /\ skipped = FALSE

-----------------------------------------------------------------------------
(* The state of the connection.                                             *)

\* What Close, the option Close and the command Terminate make of a state.
AfterClose(s) ==
    CASE s = "Active"          -> "ReadyToClose"
      [] s = "PeerClosed"      -> "Terminating"
      [] s = "PeerTerminating" -> "Terminated"
      [] OTHER                 -> s

AfterPeerClosed(s) ==
    CASE s = "ReadyToClose" -> "Terminating"
      [] s = "Active"       -> "PeerClosed"
      [] OTHER              -> s

AfterTerminate(s) ==
    CASE s \in {"Active", "PeerClosed"} -> "PeerTerminating"
      [] s = "ReadyToClose"             -> "Terminating"
      [] s = "Terminating"              -> "Terminated"
      [] OTHER                          -> s

\* SetState gives up what is still to be sent unless the state is one of these.
Sends(s) == s \in {"Active", "ReadyToClose"}

Before(s, t) == s.item < t.item

\* Bug: una itself is taken for acknowledged.
ClearPast(w, una) == {s \in w : \E t \in w : t.number > una /\ ~Before(s, t)}

\* SendingWindow.Clear: from the front, until a number that is not below una.
ClearTo(w, una) == {s \in w : \E t \in w : t.number >= una /\ ~Before(s, t)}

\* Window w of A, when A goes from state s to state t: CloseWrite clears up to the largest
\* number.
Kept(w, s, t) == IF s # t /\ ~Sends(t) THEN ClearTo(w, Mod - 1) ELSE w

Close(e) ==
    /\ state[e] \in {"Active", "PeerClosed", "PeerTerminating"}
    /\ state' = [state EXCEPT ![e] = AfterClose(@)]
    /\ window' = IF e = A THEN Kept(window, state[A], state'[A]) ELSE window
    /\ excused' = (excused \/ e = B)
    /\ UNCHANGED <<base, net, firstUnacknowledged, sendNext, remoteNext, pushing,
                   receiving, looked, written, read, eof, skipped>>

-----------------------------------------------------------------------------
(* The writer: writeMultiBufferInternal.                                    *)

WriteCheck ==
    /\ ~pushing /\ state[A] = "Active" /\ written < MaxWrites
    /\ pushing' = TRUE
    /\ UNCHANGED <<base, state, net, sending, receiving, looked, history>>

\* The state may have changed since.  A full window, which holds one more than its size,
\* or a released worker sends the writer back to wait.
Push ==
    /\ pushing /\ pushing' = FALSE
    /\ \/ /\ state[A] = "Terminated" \/ Cardinality(window) > SendBuffer
          /\ UNCHANGED <<window, sendNext, written, excused>>
       \/ /\ Cardinality(window) <= SendBuffer
          /\ window' = window \cup {[number |-> sendNext, item |-> written + 1]}
          /\ sendNext' = Plus(sendNext, 1)
          /\ written' = written + 1
          /\ excused' = (excused \/ state[A] # "Active")
    /\ UNCHANGED <<base, state, net, firstUnacknowledged, remoteNext, receiving, looked,
                   read, eof, skipped>>

-----------------------------------------------------------------------------
(* What arrives at A.                                                       *)

\* FindFirstUnacknowledged.
IsFirst(n, w) ==
    IF w = {} THEN n = sendNext
    ELSE \E s \in w : n = s.number /\ \A t \in w : ~Before(t, s)

\* processAck looks whether a number is in range, and Remove for its segment, up to a
\* larger number: what stands before it and is larger has to be removed by an earlier
\* number of the list.
InRange(n, first) == Minus(n, first) <= Half /\ Minus(n, sendNext) >= Half

Blockers(w, s) == {t \in w : Before(t, s) /\ t.number > s.number}

Removed(w, numbers, gone) ==
    LET acked == {s \in w : /\ s.number \in numbers
                            /\ \A n \in Number : IsFirst(n, w) => InRange(s.number, n)}
    IN  /\ gone \subseteq acked
        /\ \A s \in acked : Blockers(w, s) = {} => s \in gone
        /\ \A s \in gone : Blockers(w, s) \subseteq gone

\* A message is taken from the network, which may have another copy.
Take(m) == net' = net \/ net' = net \ {m}

\* HandleOption, and the command Terminate.
StateAfter(m) ==
    LET s == IF m.close THEN AfterPeerClosed(state[m.to]) ELSE state[m.to]
    IN  IF m.cmd = "terminate" THEN AfterTerminate(s) ELSE s

\* Clear compares without regard to the wrap: with una before it, what comes after una and
\* after the wrap is below una too.
Skips(w, una) ==
    \E s \in w \ ClearTo(w, una) : s.number < una /\ s.item - 1 >= Minus(una, base)

\* ProcessSegment of the SendingWorker.
ReceiveAck(m) ==
    /\ m.to = A /\ m.cmd = "ack" /\ state[A] # "Terminated" /\ Take(m)
    /\ state' = [state EXCEPT ![A] = StateAfter(m)]
    /\ remoteNext' = IF remoteNext < m.limit THEN m.limit ELSE remoteNext
    /\ LET w == ClearTo(Kept(window, state[A], state'[A]), m.una)
       IN  \E gone \in SUBSET w : Removed(w, m.numbers, gone) /\ window' = w \ gone
    /\ firstUnacknowledged' \in Number /\ IsFirst(firstUnacknowledged', window')
    /\ skipped' = (skipped \/ Skips(Kept(window, state[A], state'[A]), m.una))
    /\ UNCHANGED <<base, sendNext, pushing, receiving, looked, written, read, eof, excused>>

\* ProcessReceivingNext.
ReceiveCommandA(m) ==
    /\ m.to = A /\ m.cmd \in {"ping", "terminate"} /\ state[A] # "Terminated" /\ Take(m)
    /\ state' = [state EXCEPT ![A] = StateAfter(m)]
    /\ window' = ClearTo(Kept(window, state[A], state'[A]), m.una)
    /\ firstUnacknowledged' \in Number /\ IsFirst(firstUnacknowledged', window')
    /\ skipped' = (skipped \/ Skips(Kept(window, state[A], state'[A]), m.una))
    /\ UNCHANGED <<base, sendNext, remoteNext, pushing, receiving, looked, written, read, eof,
                   excused>>

-----------------------------------------------------------------------------
(* What arrives at B.                                                       *)

\* Bug: an acknowledgement is dropped while A still waits for it.
ClearAcksPast(una) == {n \in acklist : n > una}

\* AckList.Clear.
ClearAcks(una) == {n \in acklist : n >= una}

\* ProcessSegment of the ReceivingWorker: what is beyond the window, or has been read,
\* is not acknowledged.
ReceiveData(m) ==
    /\ m.to = B /\ m.cmd = "data" /\ state[B] # "Terminated" /\ Take(m)
    /\ state' = [state EXCEPT ![B] = StateAfter(m)]
    /\ IF Minus(m.number, recvNext) >= RecvWindow
       THEN UNCHANGED receiving
       ELSE /\ acklist' = ClearAcks(m.una) \cup {m.number}
            /\ dirty' = TRUE
            /\ cache' = IF \E s \in cache : s.number = m.number THEN cache
                        ELSE cache \cup {[number |-> m.number, item |-> m.item]}
            /\ UNCHANGED recvNext
    /\ UNCHANGED <<base, sending, pushing, looked, history>>

\* ProcessSendingNext.
ReceiveCommandB(m) ==
    /\ m.to = B /\ m.cmd \in {"ping", "terminate"} /\ state[B] # "Terminated" /\ Take(m)
    /\ state' = [state EXCEPT ![B] = StateAfter(m)]
    /\ acklist' = ClearAcks(m.una)
    /\ dirty' = (dirty \/ acklist' # acklist)
    /\ UNCHANGED <<base, sending, pushing, cache, recvNext, looked, history>>

Receive(m) ==
    ReceiveAck(m) \/ ReceiveCommandA(m) \/ ReceiveData(m) \/ ReceiveCommandB(m)

-----------------------------------------------------------------------------
(* The reader: ReadMultiBuffer, and Read, which does not look at the state.  *)

Held(n) == \E s \in cache : s.number = n
ItemAt(n) == (CHOOSE s \in cache : s.number = n).item

\* Bug: the next number goes on by one however much is taken.
ReadOneNumber ==
    /\ ~looked /\ ~eof
    /\ state[B] \notin {"ReadyToClose", "Terminating", "Terminated"}
    /\ \E k \in 0 .. RecvWindow :
         /\ \A j \in 0 .. k - 1 : Held(Plus(recvNext, j))
         /\ ~Held(Plus(recvNext, k))
         /\ read' = read \o [j \in 1 .. k |-> ItemAt(Plus(recvNext, j - 1))]
         /\ cache' = {s \in cache : Minus(s.number, recvNext) >= k}
         /\ recvNext' = IF k = 0 THEN recvNext ELSE Plus(recvNext, 1)
         /\ looked' = (k = 0)
    /\ UNCHANGED <<base, state, net, sending, pushing, acklist, dirty, written, eof, excused,
                   skipped>>

\* It takes whatever follows what it has read without a gap.
Read ==
    /\ ~looked /\ ~eof
    /\ state[B] \notin {"ReadyToClose", "Terminating", "Terminated"}
    /\ \E k \in 0 .. RecvWindow :
         /\ \A j \in 0 .. k - 1 : Held(Plus(recvNext, j))
         /\ ~Held(Plus(recvNext, k))
         /\ read' = read \o [j \in 1 .. k |-> ItemAt(Plus(recvNext, j - 1))]
         /\ cache' = {s \in cache : Minus(s.number, recvNext) >= k}
         /\ recvNext' = Plus(recvNext, k)
         /\ looked' = (k = 0)
    /\ UNCHANGED <<base, state, net, sending, pushing, acklist, dirty, written, eof, excused,
                   skipped>>

ReadClosed ==
    /\ ~looked /\ ~eof
    /\ state[B] \in {"ReadyToClose", "Terminating", "Terminated"}
    /\ eof' = TRUE
    /\ UNCHANGED <<base, state, net, sending, pushing, receiving, looked, written, read,
                   excused, skipped>>

\* The state is looked at after the cache was: something may have come in between.
ReadCheck ==
    /\ looked /\ looked' = FALSE
    /\ \/ state[B] = "PeerTerminating" /\ eof' = TRUE /\ excused' = (excused \/ Held(recvNext))
       \/ UNCHANGED <<eof, excused>>
    /\ UNCHANGED <<base, state, net, sending, pushing, receiving, written, read, skipped>>

-----------------------------------------------------------------------------
(* flush, which the updaters call.                                          *)

\* What gets through; there is no room for more than MaxNet.
Transmit(out) ==
    \E through \in SUBSET out :
        net' = net \cup through /\ Cardinality(net \cup through) <= MaxNet

Una(e) == IF e = A THEN firstUnacknowledged ELSE recvNext

Command(e, cmd, s) ==
    [to |-> IF e = A THEN B ELSE A, cmd |-> cmd, una |-> Una(e), close |-> s = "ReadyToClose"]

\* Bug: it does not wait for what is still to be acknowledged.
SettledAtOnce(e, silent) ==
    LET s == IF silent /\ state[e] = "Active" THEN AfterClose(state[e]) ELSE state[e]
    IN  IF s = "ReadyToClose" THEN "Terminating" ELSE s

\* The state after 30 seconds without a packet, and when everything is acknowledged.
Settled(e, silent) ==
    LET s == IF silent /\ state[e] = "Active" THEN AfterClose(state[e]) ELSE state[e]
    IN  IF s = "ReadyToClose" /\ (e = A => window = {}) THEN "Terminating" ELSE s

\* It sends Terminate for 8 seconds.
FlushTerminating(e) ==
    /\ state[e] # "Terminated"
    /\ \E silent, expired \in BOOLEAN :
         /\ Settled(e, silent) = "Terminating"
         /\ state' = [state EXCEPT ![e] = IF expired THEN "Terminated" ELSE "Terminating"]
         /\ excused' = (excused \/ (e = B /\ silent))
    /\ Transmit({Command(e, "terminate", "Terminating")})
    /\ window' = IF e = A THEN Kept(window, state[A], state'[A]) ELSE window
    /\ UNCHANGED <<base, firstUnacknowledged, sendNext, remoteNext, pushing, receiving,
                   looked, written, read, eof, skipped>>

\* Otherwise 15 seconds in ReadyToClose, or 4 in PeerTerminating, lead there.
Overdue(s) == IF s \in {"ReadyToClose", "PeerTerminating"} THEN "Terminating" ELSE s

FlushedState(e) ==
    \E silent, expired \in BOOLEAN :
        LET s == Settled(e, silent)
        IN  /\ s \notin {"Terminating", "Terminated"}
            /\ state' = [state EXCEPT ![e] = IF expired THEN Overdue(s) ELSE s]
            /\ excused' = (excused \/ (e = B /\ silent) \/ (expired /\ Overdue(s) # s))

\* How many segments the receiver and the congestion window allow; one is always sent.
Allowed ==
    LET room == Minus(remoteNext, firstUnacknowledged)
        n    == IF room < InFlight THEN room ELSE InFlight
    IN  IF n = 0 THEN 1 ELSE n

\* Those that are due, never sent or timed out, and a ping every three seconds.
FlushA ==
    /\ FlushedState(A)
    /\ window' = Kept(window, state[A], state'[A])
    /\ \E due \in SUBSET window' :
         /\ Cardinality(due) <= Allowed
         /\ Transmit({Command(A, "ping", state'[A])} \cup
                     {[to |-> B, cmd |-> "data", number |-> s.number, item |-> s.item,
                       una |-> firstUnacknowledged,
                       close |-> state'[A] = "ReadyToClose"] : s \in due})
    /\ UNCHANGED <<base, firstUnacknowledged, sendNext, remoteNext, pushing, receiving,
                   looked, written, read, eof, skipped>>

\* The numbers to be acknowledged, if there are any or some have been cleared.
FlushB ==
    /\ FlushedState(B)
    /\ LET ack == [to |-> A, cmd |-> "ack", numbers |-> acklist, una |-> recvNext,
                   limit |-> Plus(recvNext, RecvWindow), close |-> state'[B] = "ReadyToClose"]
       IN  Transmit({Command(B, "ping", state'[B])} \cup
                    {m \in {ack} : acklist # {} \/ dirty})
    /\ dirty' = FALSE
    /\ UNCHANGED <<base, sending, pushing, cache, recvNext, acklist, looked, written, read, eof,
                   skipped>>

Flush == FlushA \/ FlushB \/ \E e \in Ends : FlushTerminating(e)

-----------------------------------------------------------------------------
\* The network loses a datagram.
Lose(m) == net' = net \ {m} /\ UNCHANGED <<base, state, sending, pushing, receiving, looked,
                                           history>>

Next ==
    \/ WriteCheck \/ Push \/ Read \/ ReadClosed \/ ReadCheck \/ Flush
    \/ \E e \in Ends : Close(e)
    \/ \E m \in net : Receive(m) \/ Lose(m)

Spec == Init /\ [][Next]_vars

-----------------------------------------------------------------------------
(* Properties.                                                              *)

\* What has been read is what was written, in order, each once.
InOrder == Len(read) <= written /\ read = [i \in 1 .. Len(read) |-> i]

\* Items that neither end has any more and nobody has read.
Lost == {i \in 1 .. written : /\ i \notin {read[j] : j \in DOMAIN read}
                              /\ i \notin {s.item : s \in cache}
                              /\ i \notin {s.item : s \in window}}

\* A gives up nothing that has not arrived, unless the connection ends or Clear, at the wrap,
\* has taken a segment from after it for one from before.
NothingLost == Sends(state[A]) /\ ~skipped => Lost = {}

\* Whatever is lost on the way and wherever the numbers are, the connection can get on: what
\* the reader waits for is held at one end, and what A sends first is of use when it comes
\* again: B takes it, or goes on acknowledging it, or has read it and says so, or the reader
\* has to read first.  The one way to be stuck is a segment that Clear has taken at the wrap
\* (skipped): then B waits for good for a number that A no longer has.
NeverStuck ==
    Sends(state[A]) /\ ~skipped =>
        /\ Len(read) < written => Held(recvNext) \/ \E s \in window : s.number = recvNext
        /\ \A s \in window : (\A t \in window : ~Before(t, s)) =>
              \/ Minus(s.number, recvNext) < RecvWindow
              \/ s.number \in acklist
              \/ s.number < recvNext
              \/ Held(recvNext)

\* A reader that is told of the end without having closed has had everything, if no timer
\* has cut the connection short, the writer did not race with Close, nothing came while the
\* reader was looking, and Clear has taken no segment at the wrap.
EndIsTrue == eof /\ ~excused /\ ~skipped => Len(read) = written
=============================================================================

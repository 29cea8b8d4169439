-------------------------------- MODULE Pipe --------------------------------
(* transport/pipe of xray-core: the buffer between the two halves of every    *)
(* connection xray forwards.  A mutex guards the data and the state; the      *)
(* waiting is done outside it, on two notifiers that hold one signal each     *)
(* (common/signal) and on a channel that is closed for good (signal/done).    *)
(* A signal is given after the mutex has been released, so a goroutine may    *)
(* act between what it has done and the signal that says so.                  *)
EXTENDS Integers, Sequences, SequencesExt

CONSTANTS
    Writers, Readers,   \* goroutines
    Options,        \* what a pipe may be made with: [limit, discard]
    MaxWrites,      \* bound on the writes
    MaxErrors       \* bound on the calls of ReturnAnError

ASSUME OptionsAreOptions == Options \subseteq [limit : Int, discard : BOOLEAN]
ASSUME EndsDiffer        == Writers \cap Readers = {}

\* What a write carries is its number; all are of one size, which is the unit of the limit.
Chunk == Nat \ {0}
Nil   == 0

VARIABLES
    option, data, state,
    readSignal, writeSignal,    \* a signal is in the notifier
    done,                       \* the channel is closed
    errChan,                    \* an error is in the channel
    pc,                         \* goroutine -> where it stands
    mb,                         \* writer -> what it is to write
    timed,                      \* reader -> it is in ReadMultiBufferTimeout
    writes, errors,             \* how many there have been
    accepted, received,         \* history: what writes put in and reads took out
    cut, eof                    \* history: Interrupt threw data away; io.EOF was returned

shared  == <<data, state, readSignal, writeSignal, done, errChan>>
history == <<accepted, received, cut, eof>>
vars    == <<option, shared, pc, mb, timed, writes, errors, history>>

TypeOK ==
    /\ option \in Options
    /\ data \in Seq(Chunk) /\ accepted \in Seq(Chunk) /\ received \in Seq(Chunk)
    /\ state \in {"open", "closed", "errord"}
    /\ readSignal \in BOOLEAN /\ writeSignal \in BOOLEAN /\ done \in BOOLEAN
    /\ errChan \in BOOLEAN /\ cut \in BOOLEAN /\ eof \in BOOLEAN
    /\ pc \in [Writers \cup Readers -> {"idle", "try", "wait", "signal"}]
    /\ mb \in [Writers -> Chunk \cup {Nil}]
    /\ timed \in [Readers -> BOOLEAN]
    /\ writes \in Nat /\ errors \in Nat

Moves(g, from, to) == pc[g] = from /\ pc' = [pc EXCEPT ![g] = to]

-----------------------------------------------------------------------------
\* isFull: at the limit there is still room for one more write.
Full == option.limit >= 0 /\ Len(data) > option.limit

(* WriteMultiBuffer.                                                        *)

Write(w) ==
    /\ Moves(w, "idle", "try")
    /\ writes < MaxWrites
    /\ mb' = [mb EXCEPT ![w] = writes + 1]
    /\ writes' = writes + 1
    /\ UNCHANGED <<option, shared, timed, errors, history>>

\* Bug: the state is not looked at.
AcceptAnyway(w) ==
    /\ Moves(w, "try", "signal")
    /\ ~Full
    /\ data' = Append(data, mb[w])
    /\ accepted' = Append(accepted, mb[w])
    /\ UNCHANGED <<option, state, readSignal, writeSignal, done, errChan,
                   mb, timed, writes, errors, received, cut, eof>>

\* Bug: the newest comes first.
AcceptInFront(w) ==
    /\ Moves(w, "try", "signal")
    /\ state = "open" /\ ~Full
    /\ data' = <<mb[w]>> \o data
    /\ accepted' = Append(accepted, mb[w])
    /\ UNCHANGED <<option, state, readSignal, writeSignal, done, errChan,
                   mb, timed, writes, errors, received, cut, eof>>

\* writeMultiBufferInternal succeeds.
Accept(w) ==
    /\ Moves(w, "try", "signal")
    /\ state = "open" /\ ~Full
    /\ data' = Append(data, mb[w])
    /\ accepted' = Append(accepted, mb[w])
    /\ UNCHANGED <<option, state, readSignal, writeSignal, done, errChan,
                   mb, timed, writes, errors, received, cut, eof>>

\* The pipe has ended; the reader is told all the same.
Refuse(w) ==
    /\ Moves(w, "try", "signal")
    /\ state # "open"
    /\ UNCHANGED <<option, shared, mb, timed, writes, errors, history>>

\* It is full: discardOverflow drops what there is to write and reports success (it never
\* counts as accepted).
Overflow(w) ==
    /\ Moves(w, "try", IF option.discard THEN "idle" ELSE "wait")
    /\ state = "open" /\ Full
    /\ mb' = IF option.discard THEN [mb EXCEPT ![w] = Nil] ELSE mb
    /\ UNCHANGED <<option, shared, timed, writes, errors, history>>

\* Bug: no signal when there was data already, which two writers may both find.
SignalFirst(w) ==
    /\ Moves(w, "signal", "idle")
    /\ readSignal' = (readSignal \/ Len(data) = 1)
    /\ mb' = [mb EXCEPT ![w] = Nil]
    /\ UNCHANGED <<option, data, state, writeSignal, done, errChan,
                   timed, writes, errors, history>>

SignalReaders(w) ==
    /\ Moves(w, "signal", "idle")
    /\ readSignal' = TRUE
    /\ mb' = [mb EXCEPT ![w] = Nil]
    /\ UNCHANGED <<option, data, state, writeSignal, done, errChan,
                   timed, writes, errors, history>>

WriterWoken(w) ==
    /\ Moves(w, "wait", "try")
    /\ writeSignal /\ writeSignal' = FALSE
    /\ UNCHANGED <<option, data, state, readSignal, done, errChan,
                   mb, timed, writes, errors, history>>

\* io.ErrClosedPipe, without another look at the state.
WriterReleased(w) ==
    /\ Moves(w, "wait", "idle")
    /\ done
    /\ mb' = [mb EXCEPT ![w] = Nil]
    /\ UNCHANGED <<option, shared, timed, writes, errors, history>>

-----------------------------------------------------------------------------
(* ReadMultiBuffer and ReadMultiBufferTimeout.                              *)

Read(r) ==
    /\ Moves(r, "idle", "try")
    /\ \E t \in BOOLEAN : timed' = [timed EXCEPT ![r] = t]
    /\ UNCHANGED <<option, shared, mb, writes, errors, history>>

\* readMultiBufferInternal returns all there is.
Take(r) ==
    /\ Moves(r, "try", "signal")
    /\ state # "errord" /\ data # <<>>
    /\ received' = received \o data
    /\ data' = <<>>
    /\ UNCHANGED <<option, state, readSignal, writeSignal, done, errChan,
                   mb, timed, writes, errors, accepted, cut, eof>>

\* It returns an error: io.EOF when the pipe has been closed and is empty.
AtEnd(r) ==
    /\ Moves(r, "try", "signal")
    /\ state = "errord" \/ (state = "closed" /\ data = <<>>)
    /\ eof' = (eof \/ state = "closed")
    /\ UNCHANGED <<option, shared, mb, timed, writes, errors, accepted, received, cut>>

\* It returns nothing.
FindEmpty(r) ==
    /\ Moves(r, "try", "wait")
    /\ state = "open" /\ data = <<>>
    /\ UNCHANGED <<option, shared, mb, timed, writes, errors, history>>

SignalWriters(r) ==
    /\ Moves(r, "signal", "idle")
    /\ writeSignal' = TRUE
    /\ UNCHANGED <<option, data, state, readSignal, done, errChan,
                   mb, timed, writes, errors, history>>

ReaderWoken(r) ==
    /\ Moves(r, "wait", "try")
    /\ \/ readSignal /\ readSignal' = FALSE
       \/ done /\ UNCHANGED readSignal
    /\ UNCHANGED <<option, data, state, writeSignal, done, errChan,
                   mb, timed, writes, errors, history>>

TimesOut(r) ==
    /\ Moves(r, "wait", "idle")
    /\ timed[r]
    /\ UNCHANGED <<option, shared, mb, timed, writes, errors, history>>

\* The error of ReturnAnError; ReadMultiBufferTimeout does not look for it.
TakeError(r) ==
    /\ Moves(r, "wait", "idle")
    /\ ~timed[r]
    /\ errChan /\ errChan' = FALSE
    /\ UNCHANGED <<option, data, state, readSignal, writeSignal, done,
                   mb, timed, writes, errors, history>>

-----------------------------------------------------------------------------
(* The owner of either end.                                                 *)

Close ==
    /\ state = "open"
    /\ state' = "closed" /\ done' = TRUE
    /\ UNCHANGED <<option, data, readSignal, writeSignal, errChan,
                   pc, mb, timed, writes, errors, history>>

\* A pipe that was closed and has been read to its end stays closed.
Interrupt ==
    /\ state # "errord"
    /\ state = "open" \/ data # <<>>
    /\ state' = "errord" /\ done' = TRUE
    /\ data' = <<>>
    /\ cut' = (cut \/ data # <<>>)
    /\ UNCHANGED <<option, readSignal, writeSignal, errChan,
                   pc, mb, timed, writes, errors, accepted, received, eof>>

\* It waits while the channel holds an error.
ReturnAnError ==
    /\ errors < MaxErrors /\ ~errChan
    /\ errors' = errors + 1
    /\ errChan' = TRUE
    /\ UNCHANGED <<option, data, state, readSignal, writeSignal, done,
                   pc, mb, timed, writes, history>>

Recover ==
    /\ errChan /\ errChan' = FALSE
    /\ UNCHANGED <<option, data, state, readSignal, writeSignal, done,
                   pc, mb, timed, writes, errors, history>>

-----------------------------------------------------------------------------
Init ==
    /\ option \in Options
    /\ data = <<>> /\ state = "open"
    /\ readSignal = FALSE /\ writeSignal = FALSE /\ done = FALSE /\ errChan = FALSE
    /\ pc = [g \in Writers \cup Readers |-> "idle"]
    /\ mb = [w \in Writers |-> Nil]
    /\ timed = [r \in Readers |-> FALSE]
    /\ writes = 0 /\ errors = 0
    /\ accepted = <<>> /\ received = <<>>
    /\ cut = FALSE /\ eof = FALSE

WriterStep(w) ==
    \/ Accept(w) \/ Refuse(w) \/ Overflow(w)
    \/ SignalReaders(w) \/ WriterWoken(w) \/ WriterReleased(w)

ReaderStep(r) ==
    \/ Take(r) \/ AtEnd(r) \/ FindEmpty(r)
    \/ SignalWriters(r) \/ ReaderWoken(r) \/ TimesOut(r) \/ TakeError(r)

Next ==
    \/ \E w \in Writers : Write(w) \/ WriterStep(w)
    \/ \E r \in Readers : Read(r) \/ ReaderStep(r)
    \/ Close \/ Interrupt \/ ReturnAnError \/ Recover

Spec == Init /\ [][Next]_vars

-----------------------------------------------------------------------------
(* Properties.                                                              *)

\* What has been read and what is left is what was written, in that order; when Interrupt
\* threw something away, what was read is the beginning of it.
InOrder ==
    IF cut THEN IsPrefix(received, accepted) ELSE received \o data = accepted

\* A reader is told of the end only when it, or another, has had everything that a writer
\* was told it had written.
NothingBehindEOF == eof => data = <<>> /\ (cut \/ received = accepted)

\* No reader sleeps beside data, or in a pipe that has ended, with nobody on the way to
\* wake it: a signal is there, or about to be given, or another reader has taken it.
ReaderNotForgotten ==
    \A r \in Readers : pc[r] = "wait" /\ (data # <<>> \/ state # "open") =>
        \/ readSignal \/ done
        \/ \E w \in Writers : pc[w] = "signal"
        \/ \E o \in Readers : pc[o] = "try"

\* No writer sleeps beside an empty pipe with nobody on the way to wake it.
WriterNotForgotten ==
    \A w \in Writers : pc[w] = "wait" /\ data = <<>> =>
        \/ writeSignal \/ done
        \/ \E r \in Readers : pc[r] = "signal"
        \/ \E o \in Writers : pc[o] = "try"

\* Nobody is forgotten.
NobodyForgotten == ReaderNotForgotten /\ WriterNotForgotten
=============================================================================

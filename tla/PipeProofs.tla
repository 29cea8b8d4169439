----------------------------- MODULE PipeProofs -----------------------------
(***************************************************************************)
(* Proofs about Pipe, for any sets of writers and readers and any options. *)
(* None of the properties is inductive alone: that nobody is forgotten     *)
(* needs to know that the channel `done` is closed exactly when the pipe   *)
(* has ended, and that nothing is cut while it is open.                    *)
(***************************************************************************)
EXTENDS Pipe, SequenceTheorems, TLAPS

\* A writer that is writing has something to write.
Carrying == \A w \in Writers : pc[w] \in {"try", "wait"} => mb[w] \in Chunk

Ended ==
    /\ done <=> state # "open"
    /\ state = "errord" => data = <<>>
    /\ cut => state = "errord"
    /\ eof => state # "open"

IInv ==
    /\ TypeOK /\ Carrying /\ Ended
    /\ InOrder /\ NothingBehindEOF
    /\ ReaderNotForgotten /\ WriterNotForgotten

-----------------------------------------------------------------------------
\* What has been read stays a beginning of what was written when the rest is cut off.
LEMMA PrefixOfConcat ==
    ASSUME NEW S, NEW s \in Seq(S), NEW t \in Seq(S)
    PROVE  IsPrefix(s, s \o t)
<1>1. Len(s) \in Nat /\ Len(t) \in Nat /\ Len(s \o t) = Len(s) + Len(t)
  BY ConcatProperties, LenProperties
<1>2. SubSeq(s \o t, 1, Len(s)) = SubSeq(s, 1, Len(s))
  BY <1>1, SubSeqOfConcat1
<1> QED
  BY <1>1, <1>2 DEF IsPrefix

LEMMA ConcatAppend ==
    ASSUME NEW S, NEW s \in Seq(S), NEW t \in Seq(S), NEW e \in S
    PROVE  s \o Append(t, e) = Append(s \o t, e)
<1>1. <<e>> \in Seq(S)
  OBVIOUS
<1>2. s \o t \in Seq(S)
  BY ConcatProperties
<1>3. Append(t, e) = t \o <<e>> /\ Append(s \o t, e) = (s \o t) \o <<e>>
  BY <1>2, AppendIsConcat
<1> QED
  BY <1>1, <1>3, ConcatAssociative

LEMMA InitInv == Init => IInv
<1> SUFFICES ASSUME Init PROVE IInv
  OBVIOUS
<1>1. TypeOK
  <2>1. data \in Seq(Chunk) /\ accepted \in Seq(Chunk) /\ received \in Seq(Chunk)
    BY EmptySeq DEF Init
  <2>2. pc \in [Writers \cup Readers -> {"idle", "try", "wait", "signal"}]
    BY DEF Init
  <2>3. mb \in [Writers -> Chunk \cup {Nil}] /\ timed \in [Readers -> BOOLEAN]
    BY DEF Init
  <2> QED
    BY <2>1, <2>2, <2>3 DEF Init, TypeOK
<1>2. Carrying /\ Ended /\ NothingBehindEOF
  BY DEF Init, Carrying, Ended, NothingBehindEOF
<1>3. InOrder
  BY DEF Init, InOrder
<1>4. ReaderNotForgotten /\ WriterNotForgotten
  BY DEF Init, ReaderNotForgotten, WriterNotForgotten
<1> QED
  BY <1>1, <1>2, <1>3, <1>4 DEF IInv

-----------------------------------------------------------------------------
(* The steps that put data in, take it out or end the pipe.                 *)

LEMMA AcceptInv == ASSUME IInv, NEW w \in Writers, Accept(w) PROVE IInv'
<1> USE DEF IInv
<1>0. mb[w] \in Chunk /\ ~cut /\ ~done /\ ~eof
  BY DEF Accept, Moves, Carrying, Ended
<1>1. /\ data' = Append(data, mb[w]) /\ data' \in Seq(Chunk) /\ data' # <<>>
      /\ accepted' = Append(accepted, mb[w]) /\ accepted' \in Seq(Chunk)
  BY <1>0, AppendProperties DEF Accept, TypeOK
<1>2. TypeOK'
  BY <1>1, EndsDiffer DEF Accept, Moves, TypeOK
<1>3. Carrying' /\ Ended' /\ NothingBehindEOF'
  BY <1>0 DEF Accept, Moves, Carrying, Ended, NothingBehindEOF, TypeOK
<1>4. InOrder'
  <2>1. received \in Seq(Chunk) /\ data \in Seq(Chunk) /\ received \o data = accepted
    BY <1>0 DEF TypeOK, InOrder
  <2>2. received \o Append(data, mb[w]) = Append(received \o data, mb[w])
    BY <1>0, <2>1, ConcatAppend
  <2> QED
    BY <1>0, <1>1, <2>1, <2>2 DEF Accept, InOrder
<1>5. ReaderNotForgotten' /\ WriterNotForgotten'
  <2>1. pc'[w] = "signal"
    BY DEF Accept, Moves, TypeOK
  <2> QED
    BY <1>1, <2>1 DEF ReaderNotForgotten, WriterNotForgotten
<1> QED
  BY <1>2, <1>3, <1>4, <1>5

LEMMA TakeInv == ASSUME IInv, NEW r \in Readers, Take(r) PROVE IInv'
<1> USE DEF IInv
<1>0. ~cut
  BY DEF Take, Ended
<1>1. received' \in Seq(Chunk) /\ received' = received \o data /\ data' = <<>>
  BY ConcatProperties DEF Take, TypeOK
<1>2. TypeOK'
  BY <1>1 DEF Take, Moves, TypeOK
<1>3. Carrying' /\ Ended'
  BY EndsDiffer DEF Take, Moves, Carrying, Ended, TypeOK
<1>4. InOrder' /\ NothingBehindEOF'
  BY <1>0, <1>1, ConcatEmptySeq DEF Take, TypeOK, InOrder, NothingBehindEOF
<1>5. ReaderNotForgotten'
  BY <1>1 DEF Take, Moves, TypeOK, ReaderNotForgotten, Ended
<1>6. WriterNotForgotten'
  BY DEF Take, Moves, TypeOK, WriterNotForgotten
<1> QED
  BY <1>2, <1>3, <1>4, <1>5, <1>6

LEMMA InterruptInv == ASSUME IInv, Interrupt PROVE IInv'
<1> USE DEF IInv
<1>1. TypeOK' /\ Carrying' /\ Ended'
  BY DEF Interrupt, TypeOK, Carrying, Ended
<1>2. InOrder'
  <2>1. ~cut /\ received \in Seq(Chunk) /\ data \in Seq(Chunk) /\ received \o data = accepted
    BY DEF Interrupt, Ended, TypeOK, InOrder
  <2>2. CASE data = <<>>
    <3>1. ~cut' /\ data' = data /\ received' = received /\ accepted' = accepted
      BY <2>1, <2>2 DEF Interrupt
    <3> QED
      BY <2>1, <3>1 DEF InOrder
  <2>3. CASE data # <<>>
    <3>1. IsPrefix(received, accepted)
      BY <2>1, PrefixOfConcat
    <3>2. cut' /\ received' = received /\ accepted' = accepted
      BY <2>3 DEF Interrupt
    <3> QED
      BY <3>1, <3>2 DEF InOrder
  <2> QED
    BY <2>2, <2>3
<1>3. NothingBehindEOF' /\ ReaderNotForgotten' /\ WriterNotForgotten'
  BY DEF Interrupt, NothingBehindEOF, ReaderNotForgotten, WriterNotForgotten
<1> QED
  BY <1>1, <1>2, <1>3

LEMMA CloseInv == ASSUME IInv, Close PROVE IInv'
<1> USE DEF IInv
<1>1. TypeOK' /\ Carrying' /\ Ended'
  BY DEF Close, TypeOK, Carrying, Ended, shared, history
<1>2. InOrder' /\ NothingBehindEOF'
  BY DEF Close, InOrder, NothingBehindEOF, Ended, shared, history
<1>3. ReaderNotForgotten' /\ WriterNotForgotten'
  BY DEF Close, ReaderNotForgotten, WriterNotForgotten, shared, history
<1> QED
  BY <1>1, <1>2, <1>3

\* The reader that is told of the end has had everything.
LEMMA AtEndInv == ASSUME IInv, NEW r \in Readers, AtEnd(r) PROVE IInv'
<1> USE DEF IInv
<1>1. TypeOK' /\ Carrying' /\ Ended'
  BY EndsDiffer DEF AtEnd, Moves, TypeOK, Carrying, Ended, shared, history
<1>2. InOrder'
  BY DEF AtEnd, InOrder, shared, history
<1>3. NothingBehindEOF'
  BY ConcatEmptySeq DEF AtEnd, NothingBehindEOF, InOrder, Ended, TypeOK, shared, history
<1>4. ReaderNotForgotten' /\ WriterNotForgotten'
  BY DEF AtEnd, Moves, TypeOK, ReaderNotForgotten, WriterNotForgotten, Ended, shared, history
<1> QED
  BY <1>1, <1>2, <1>3, <1>4

-----------------------------------------------------------------------------
(* The steps that only move a goroutine, or give or take a signal, leave what *)
(* was written and read alone.                                                *)

Calm == UNCHANGED <<option, data, state, done, history>>

LEMMA CalmInv ==
    ASSUME IInv, Calm, TypeOK', Carrying', ReaderNotForgotten', WriterNotForgotten'
    PROVE  IInv'
  BY DEF IInv, Calm, Ended, InOrder, NothingBehindEOF, history

LEMMA WriterStepInv == ASSUME IInv, NEW w \in Writers, Write(w) \/ WriterStep(w) PROVE IInv'
<1> USE DEF IInv
<1>1. CASE Write(w)
  <2>1. Calm /\ TypeOK'
    BY <1>1 DEF Write, Moves, Calm, TypeOK, Chunk, shared, history
  <2>2. Carrying'
    BY <1>1 DEF Write, Moves, Carrying, TypeOK, Chunk, shared, history
  <2>3. ReaderNotForgotten' /\ WriterNotForgotten'
    BY <1>1, EndsDiffer DEF Write, Moves, TypeOK, ReaderNotForgotten, WriterNotForgotten, shared, history
  <2> QED
    BY <2>1, <2>2, <2>3, CalmInv
<1>2. CASE Accept(w)
  BY <1>2, AcceptInv
<1>3. CASE Refuse(w)
  <2>1. Calm /\ TypeOK'
    BY <1>3 DEF Refuse, Moves, Calm, TypeOK, shared, history
  <2>2. Carrying' /\ ReaderNotForgotten' /\ WriterNotForgotten'
    BY <1>3, EndsDiffer DEF Refuse, Moves, TypeOK, Carrying, ReaderNotForgotten,
       WriterNotForgotten, Ended, shared, history
  <2> QED
    BY <2>1, <2>2, CalmInv
<1>4. CASE Overflow(w)
  <2>1. Calm /\ TypeOK'
    BY <1>4 DEF Overflow, Moves, Calm, TypeOK, Chunk, Nil, shared, history
  <2>2. data # <<>>
    BY <1>4, OptionsAreOptions DEF Overflow, Full, TypeOK, shared, history
  <2>3. Carrying'
    BY <1>4 DEF Overflow, Moves, Carrying, TypeOK, shared, history
  <2>4. ReaderNotForgotten' /\ WriterNotForgotten'
    BY <1>4, <2>2, EndsDiffer DEF Overflow, Moves, TypeOK, ReaderNotForgotten,
       WriterNotForgotten, shared, history
  <2> QED
    BY <2>1, <2>3, <2>4, CalmInv
<1>5. CASE SignalReaders(w)
  <2>1. Calm /\ TypeOK'
    BY <1>5 DEF SignalReaders, Moves, Calm, TypeOK, Chunk, Nil, shared, history
  <2>2. Carrying' /\ ReaderNotForgotten' /\ WriterNotForgotten'
    BY <1>5, EndsDiffer DEF SignalReaders, Moves, TypeOK, Carrying, ReaderNotForgotten,
       WriterNotForgotten, shared, history
  <2> QED
    BY <2>1, <2>2, CalmInv
<1>6. CASE WriterWoken(w)
  <2>1. Calm /\ TypeOK'
    BY <1>6 DEF WriterWoken, Moves, Calm, TypeOK, shared, history
  <2>2. Carrying' /\ ReaderNotForgotten' /\ WriterNotForgotten'
    BY <1>6, EndsDiffer DEF WriterWoken, Moves, TypeOK, Carrying, ReaderNotForgotten,
       WriterNotForgotten, shared, history
  <2> QED
    BY <2>1, <2>2, CalmInv
<1>7. CASE WriterReleased(w)
  <2>1. Calm /\ TypeOK'
    BY <1>7 DEF WriterReleased, Moves, Calm, TypeOK, Chunk, Nil, shared, history
  <2>2. Carrying' /\ ReaderNotForgotten' /\ WriterNotForgotten'
    BY <1>7, EndsDiffer DEF WriterReleased, Moves, TypeOK, Carrying, ReaderNotForgotten,
       WriterNotForgotten, shared, history
  <2> QED
    BY <2>1, <2>2, CalmInv
<1> QED
  BY <1>1, <1>2, <1>3, <1>4, <1>5, <1>6, <1>7 DEF WriterStep

LEMMA ReaderStepInv == ASSUME IInv, NEW r \in Readers, Read(r) \/ ReaderStep(r) PROVE IInv'
<1> USE DEF IInv
<1>1. CASE Read(r)
  <2>1. Calm /\ TypeOK' /\ Carrying'
    BY <1>1, EndsDiffer DEF Read, Moves, Calm, TypeOK, Carrying, shared, history
  <2>2. ReaderNotForgotten' /\ WriterNotForgotten'
    BY <1>1, EndsDiffer DEF Read, Moves, TypeOK, ReaderNotForgotten, WriterNotForgotten, shared, history
  <2> QED
    BY <2>1, <2>2, CalmInv
<1>2. CASE Take(r)
  BY <1>2, TakeInv
<1>3. CASE AtEnd(r)
  BY <1>3, AtEndInv
<1>4. CASE FindEmpty(r)
  <2>1. Calm /\ TypeOK' /\ Carrying'
    BY <1>4, EndsDiffer DEF FindEmpty, Moves, Calm, TypeOK, Carrying, shared, history
  <2>2. ReaderNotForgotten' /\ WriterNotForgotten'
    BY <1>4, EndsDiffer DEF FindEmpty, Moves, TypeOK, ReaderNotForgotten, WriterNotForgotten,
       shared, shared, history
  <2> QED
    BY <2>1, <2>2, CalmInv
<1>5. CASE SignalWriters(r)
  <2>1. Calm /\ TypeOK' /\ Carrying'
    BY <1>5, EndsDiffer DEF SignalWriters, Moves, Calm, TypeOK, Carrying, shared, history
  <2>2. ReaderNotForgotten' /\ WriterNotForgotten'
    BY <1>5, EndsDiffer DEF SignalWriters, Moves, TypeOK, ReaderNotForgotten,
       WriterNotForgotten, shared, history
  <2> QED
    BY <2>1, <2>2, CalmInv
<1>6. CASE ReaderWoken(r)
  <2>1. Calm /\ TypeOK' /\ Carrying'
    BY <1>6, EndsDiffer DEF ReaderWoken, Moves, Calm, TypeOK, Carrying, shared, history
  <2>2. ReaderNotForgotten' /\ WriterNotForgotten'
    BY <1>6, EndsDiffer DEF ReaderWoken, Moves, TypeOK, ReaderNotForgotten,
       WriterNotForgotten, shared, history
  <2> QED
    BY <2>1, <2>2, CalmInv
<1>7. CASE TimesOut(r) \/ TakeError(r)
  <2>1. Calm /\ TypeOK' /\ Carrying'
    BY <1>7, EndsDiffer DEF TimesOut, TakeError, Moves, Calm, TypeOK, Carrying, shared, history
  <2>2. ReaderNotForgotten' /\ WriterNotForgotten'
    BY <1>7, EndsDiffer DEF TimesOut, TakeError, Moves, TypeOK, ReaderNotForgotten,
       WriterNotForgotten, shared, history
  <2> QED
    BY <2>1, <2>2, CalmInv
<1> QED
  BY <1>1, <1>2, <1>3, <1>4, <1>5, <1>6, <1>7 DEF ReaderStep

LEMMA ErrorInv == ASSUME IInv, ReturnAnError \/ Recover PROVE IInv'
<1>1. Calm /\ TypeOK' /\ Carrying'
  <2>1. CASE ReturnAnError
    BY <2>1 DEF IInv, ReturnAnError, Calm, TypeOK, Carrying, history
  <2>2. CASE Recover
    BY <2>2 DEF IInv, Recover, Calm, TypeOK, Carrying, history
  <2> QED
    BY <2>1, <2>2
<1>2. ReaderNotForgotten' /\ WriterNotForgotten'
  BY DEF IInv, ReturnAnError, Recover, ReaderNotForgotten, WriterNotForgotten, shared, history
<1> QED
  BY <1>1, <1>2, CalmInv

LEMMA StepInv == IInv /\ [Next]_vars => IInv'
<1> SUFFICES ASSUME IInv, [Next]_vars PROVE IInv'
  OBVIOUS
<1>1. CASE \E w \in Writers : Write(w) \/ WriterStep(w)
  BY <1>1, WriterStepInv
<1>2. CASE \E r \in Readers : Read(r) \/ ReaderStep(r)
  BY <1>2, ReaderStepInv
<1>3. CASE Close \/ Interrupt
  BY <1>3, CloseInv, InterruptInv
<1>4. CASE ReturnAnError \/ Recover
  BY <1>4, ErrorInv
<1>5. CASE UNCHANGED vars
  BY <1>5 DEF vars, shared, history, IInv, TypeOK, Carrying, Ended, InOrder,
     NothingBehindEOF, ReaderNotForgotten, WriterNotForgotten
<1> QED
  BY <1>1, <1>2, <1>3, <1>4, <1>5 DEF Next

-----------------------------------------------------------------------------
(* The theorems.                                                            *)

\* IInv is an invariant of every pipe (all of impl.go).
THEOREM Inductive == Spec => []IInv
  BY InitInv, StepInv, PTL DEF Spec

\* The types of a pipe's state, for any writers, readers and options.
THEOREM TypeCorrect == Spec => []TypeOK
<1>1. IInv => TypeOK
  BY DEF IInv
<1> QED
  BY <1>1, Inductive, PTL

\* WriteMultiBuffer and ReadMultiBuffer keep the order, and lose nothing but to Interrupt.
THEOREM OrderKept == Spec => []InOrder
<1>1. IInv => InOrder
  BY DEF IInv
<1> QED
  BY <1>1, Inductive, PTL

\* Nothing that was written is behind an io.EOF.
THEOREM EofIsLast == Spec => []NothingBehindEOF
<1>1. IInv => NothingBehindEOF
  BY DEF IInv
<1> QED
  BY <1>1, Inductive, PTL

\* A goroutine never sleeps beside what it waits for, or in an ended pipe, with nobody on the
\* way to wake it: a reader beside data, a writer beside an empty pipe.
THEOREM SleepersRemembered == Spec => []NobodyForgotten
<1>1. IInv => NobodyForgotten
  BY DEF IInv, NobodyForgotten
<1> QED
  BY <1>1, Inductive, PTL
=============================================================================

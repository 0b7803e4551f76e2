--------------------------- MODULE SdkQueueProofs ---------------------------
(***************************************************************************)
(* Proofs about the SDK's event queue, for any number of events, of calls  *)
(* of flush and close, and of attempts to send.                            *)
(***************************************************************************)
EXTENDS SdkQueue, SequenceTheorems, TLAPS

USE AttemptsAssumption

(* What is in a sequence.                                                  *)
LEMMA SetOfEmpty == SetOf(<<>>) = {}
BY DEF SetOf

LEMMA SetOfConcat ==
  ASSUME NEW S, NEW s \in Seq(S), NEW t \in Seq(S)
  PROVE  SetOf(s \o t) = SetOf(s) \cup SetOf(t)
<1>1. /\ s \o t \in Seq(S) /\ Len(s \o t) = Len(s) + Len(t)
      /\ \A i \in 1..Len(s) + Len(t) : (s \o t)[i] = IF i <= Len(s) THEN s[i] ELSE t[i - Len(s)]
  BY ConcatProperties
<1>2. DOMAIN s = 1..Len(s) /\ DOMAIN t = 1..Len(t) /\ DOMAIN (s \o t) = 1..Len(s) + Len(t)
  BY <1>1
<1>3. Len(s) \in Nat /\ Len(t) \in Nat
  OBVIOUS
<1>4. ASSUME NEW x \in SetOf(s \o t) PROVE x \in SetOf(s) \cup SetOf(t)
  <2>1. PICK i \in 1..Len(s) + Len(t) : x = (s \o t)[i]
    BY <1>2 DEF SetOf
  <2>2. CASE i <= Len(s)
    BY <1>1, <1>2, <1>3, <2>1, <2>2 DEF SetOf
  <2>3. CASE ~(i <= Len(s))
    <3>1. i - Len(s) \in 1..Len(t)
      BY <1>3, <2>3
    <3> QED BY <1>1, <1>2, <2>1, <2>3, <3>1 DEF SetOf
  <2> QED BY <2>2, <2>3
<1>5. ASSUME NEW x \in SetOf(s) PROVE x \in SetOf(s \o t)
  <2>1. PICK i \in 1..Len(s) : x = s[i]
    BY <1>2 DEF SetOf
  <2>2. i \in 1..Len(s) + Len(t) /\ (s \o t)[i] = x
    BY <1>1, <1>3, <2>1
  <2> QED BY <1>2, <2>2 DEF SetOf
<1>6. ASSUME NEW x \in SetOf(t) PROVE x \in SetOf(s \o t)
  <2>1. PICK i \in 1..Len(t) : x = t[i]
    BY <1>2 DEF SetOf
  <2>2. i + Len(s) \in 1..Len(s) + Len(t) /\ ~(i + Len(s) <= Len(s)) /\ i + Len(s) - Len(s) = i
    BY <1>3
  <2>3. (s \o t)[i + Len(s)] = x
    BY <1>1, <2>1, <2>2
  <2> QED BY <1>2, <2>2, <2>3 DEF SetOf
<1> QED BY <1>4, <1>5, <1>6

LEMMA SetOfAppend ==
  ASSUME NEW S, NEW s \in Seq(S), NEW e \in S
  PROVE  SetOf(Append(s, e)) = SetOf(s) \cup {e}
<1>1. Append(s, e) = s \o <<e>> /\ <<e>> \in Seq(S)
  BY AppendIsConcat
<1>2. SetOf(<<e>>) = {e}
  <2>1. DOMAIN <<e>> = {1} /\ <<e>>[1] = e
    OBVIOUS
  <2> QED BY <2>1 DEF SetOf
<1>3. SetOf(s \o <<e>>) = SetOf(s) \cup SetOf(<<e>>)
  BY <1>1, SetOfConcat
<1> QED BY <1>1, <1>2, <1>3

LEMMA HeadAndTail ==
  ASSUME NEW S, NEW s \in Seq(S), s # <<>>
  PROVE  /\ Head(s) \in S /\ Tail(s) \in Seq(S) /\ <<Head(s)>> \in Seq(S)
         /\ s = <<Head(s)>> \o Tail(s)
<1>1. Head(s) \in S /\ Tail(s) \in Seq(S) /\ <<Head(s)>> \in Seq(S)
  BY HeadTailProperties
<1>2. Len(s) \in Nat \ {0} /\ Len(Tail(s)) = Len(s) - 1
      /\ \A i \in 1..Len(Tail(s)) : Tail(s)[i] = s[i + 1]
  BY EmptySeq, HeadTailProperties
<1>3. <<Head(s)>> \o Tail(s) \in Seq(S) /\ Len(<<Head(s)>> \o Tail(s)) = Len(s)
      /\ \A i \in 1..Len(s) : (<<Head(s)>> \o Tail(s))[i]
                                = IF i <= 1 THEN <<Head(s)>>[i] ELSE Tail(s)[i - 1]
  BY <1>1, <1>2, ConcatProperties
<1>4. \A i \in 1..Len(s) : (<<Head(s)>> \o Tail(s))[i] = s[i]
  <2> SUFFICES ASSUME NEW i \in 1..Len(s) PROVE (<<Head(s)>> \o Tail(s))[i] = s[i]
    OBVIOUS
  <2>1. CASE i = 1
    BY <1>3, <2>1
  <2>2. CASE i # 1
    <3>1. i - 1 \in 1..Len(Tail(s)) /\ (i - 1) + 1 = i
      BY <1>2, <2>2
    <3> QED BY <1>2, <1>3, <2>2, <3>1
  <2> QED BY <2>1, <2>2
<1> QED BY <1>1, <1>3, <1>4, SeqEqual

LEMMA HandIsSeq == TypeOK => hand \in Seq(Events)
<1>1. ASSUME NEW e \in Events PROVE <<e>> \in Seq(Events)
  BY AppendIsConcat, EmptySeq
<1>2. <<>> \in Seq(Events)
  BY EmptySeq
<1> QED BY <1>1, <1>2 DEF TypeOK

-----------------------------------------------------------------------------
(* Type correctness.                                                       *)

LEMMA TypeInit == Init => TypeOK
<1> SUFFICES ASSUME Init PROVE TypeOK
  OBVIOUS
<1>1. [pc |-> "idle", kind |-> "none", before |-> {}, late |-> FALSE] \in Closer
  BY DEF Closer
<1>2. closer \in [Closers -> Closer]
  BY <1>1 DEF Init
<1>3. thread \in Thread /\ thread.pc # "sending" /\ hand = <<>>
  BY DEF Init, Thread
<1>4. queue \in Seq(Events) /\ put \in Seq(Events) /\ done \in Seq(Events)
  BY EmptySeq DEF Init
<1> QED BY <1>2, <1>3, <1>4 DEF Init, TypeOK

LEMMA GotoType ==
  ASSUME NEW pc \in {"looping", "emptying", "getting", "sending", "ended"}, Goto(pc)
  PROVE  thread' \in Thread /\ thread'.pc = pc
BY DEF Goto, Thread

LEMMA TypeThread ==
  ASSUME TypeOK, ThreadNext
  PROVE  TypeOK'
<1> USE DEF TypeOK
<1>1. UNCHANGED <<stop, closed, closer, running, put, late>>
  BY DEF ThreadNext, CheckStop, CheckEmpty, Get, Sent, Fails
<1> SUFFICES /\ queue' \in Seq(Events) /\ done' \in Seq(Events)
             /\ thread' \in Thread
             /\ hand' \in {<<>>} \cup {<<e>> : e \in Events}
             /\ thread'.pc = "sending" <=> hand' # <<>>
  BY <1>1
<1>2. CASE CheckStop \/ CheckEmpty
  BY <1>2, GotoType DEF CheckStop, CheckEmpty
<1>3. CASE Get
  <2>1. CASE queue = <<>>
    BY <1>3, <2>1, GotoType DEF Get
  <2>2. CASE queue # <<>>
    <3>1. Head(queue) \in Events /\ Tail(queue) \in Seq(Events)
      BY <2>2, HeadAndTail
    <3>2. hand' = <<Head(queue)>> /\ queue' = Tail(queue) /\ done' = done /\ Goto("sending")
      BY <1>3, <2>2 DEF Get
    <3>3. hand' \in {<<e>> : e \in Events} /\ hand' # <<>>
      BY <3>1, <3>2
    <3> QED BY <3>1, <3>2, <3>3, GotoType
  <2> QED BY <2>1, <2>2
<1>4. Report => /\ done' \in Seq(Events) /\ hand' = <<>>
                /\ thread' \in Thread /\ thread'.pc = "looping"
  BY HandIsSeq, GotoType, ConcatProperties DEF Report
<1>5. CASE Sent
  BY <1>4, <1>5 DEF Sent
<1>6. CASE Fails
  <2>1. CASE thread.attempt < Attempts
    <3>1. thread.pc = "sending" /\ thread' = [thread EXCEPT !.attempt = thread.attempt + 1]
          /\ UNCHANGED <<queue, hand, done>>
      BY <1>6, <2>1 DEF Fails
    <3>2. thread.attempt + 1 \in 1..Attempts
      BY <2>1 DEF Thread
    <3> QED BY <3>1, <3>2 DEF Thread
  <2>2. CASE ~(thread.attempt < Attempts)
    BY <1>4, <1>6, <2>2 DEF Fails
  <2> QED BY <2>1, <2>2
<1> QED BY <1>2, <1>3, <1>5, <1>6 DEF ThreadNext

(* What a step of a closer changes: its own record, and nothing else but   *)
(* the three flags.                                                        *)
LEMMA CloserTouches ==
  ASSUME TypeOK, NEW k \in Closers, CloserNext(k)
  PROVE  /\ UNCHANGED <<queue, thread, hand, put, done, late>>
         /\ closer' \in [Closers -> Closer]
         /\ \A j \in Closers : j # k => closer'[j] = closer[j]
         /\ stop' \in BOOLEAN /\ closed' \in BOOLEAN /\ running' \in BOOLEAN
<1>0. /\ closer \in [Closers -> Closer] /\ SetOf(put) \subseteq Events
      /\ stop \in BOOLEAN /\ closed \in BOOLEAN /\ running \in BOOLEAN
  BY DEF TypeOK, SetOf
<1>1. UNCHANGED <<queue, thread, hand, put, done, late>>
      /\ stop' \in BOOLEAN /\ closed' \in BOOLEAN /\ running' \in BOOLEAN
  BY <1>0 DEF CloserNext, CallFlush, CallClose, Call, SetClosed, FlushReturns, SetStop, Joined, Exit
<1> SUFFICES closer' \in [Closers -> Closer] /\ \A j \in Closers : j # k => closer'[j] = closer[j]
  BY <1>1
<1>2. ASSUME NEW r \in Closer, closer' = [closer EXCEPT ![k] = r]
      PROVE  closer' \in [Closers -> Closer] /\ \A j \in Closers : j # k => closer'[j] = closer[j]
  BY <1>0, <1>2
<1>3. ASSUME NEW pc \in {"idle", "entering", "flushing", "stopping", "joining", "returned"},
             closer' = [closer EXCEPT ![k].pc = pc]
      PROVE  closer' \in [Closers -> Closer] /\ \A j \in Closers : j # k => closer'[j] = closer[j]
  <2>1. [closer[k] EXCEPT !.pc = pc] \in Closer
    BY <1>0 DEF Closer
  <2>2. closer' = [closer EXCEPT ![k] = [closer[k] EXCEPT !.pc = pc]]
    BY <1>3
  <2> QED BY <1>2, <2>1, <2>2
<1>4. ASSUME NEW pc \in {"idle", "entering", "flushing", "stopping", "joining", "returned"},
             NEW b \in BOOLEAN, closer' = [closer EXCEPT ![k].pc = pc, ![k].late = b]
      PROVE  closer' \in [Closers -> Closer] /\ \A j \in Closers : j # k => closer'[j] = closer[j]
  <2>1. [closer[k] EXCEPT !.pc = pc, !.late = b] \in Closer
    BY <1>0 DEF Closer
  <2>2. closer' = [closer EXCEPT ![k] = [closer[k] EXCEPT !.pc = pc, !.late = b]]
    BY <1>0, <1>4
  <2> QED BY <1>2, <2>1, <2>2
<1>5. ASSUME NEW pc \in {"entering", "flushing", "returned"}, NEW kind \in {"flush", "close", "noop"},
             Call(k, pc, kind)
      PROVE  closer' \in [Closers -> Closer] /\ \A j \in Closers : j # k => closer'[j] = closer[j]
  <2>1. [pc |-> pc, kind |-> kind, before |-> SetOf(put), late |-> FALSE] \in Closer
    BY <1>0 DEF Closer
  <2> QED BY <1>2, <1>5, <2>1 DEF Call
<1>6. AfterFlush(k) \in {"stopping", "returned"}
  BY DEF AfterFlush
<1>7. CASE CallFlush(k) \/ CallClose(k)
  BY <1>5, <1>7 DEF CallFlush, CallClose
<1>8. CASE SetClosed(k) \/ SetStop(k)
  BY <1>3, <1>8 DEF SetClosed, SetStop
<1>9. CASE FlushReturns(k)
  <2>1. PICK inTime \in BOOLEAN :
          closer' = [closer EXCEPT ![k].pc = AfterFlush(k),
                                   ![k].late = ~inTime /\ closer[k].kind = "flush"]
    BY <1>9 DEF FlushReturns
  <2>2. (~inTime /\ closer[k].kind = "flush") \in BOOLEAN
    OBVIOUS
  <2> QED BY <1>4, <1>6, <2>1, <2>2
<1>10. CASE Joined(k)
  <2>1. PICK inTime \in BOOLEAN :
          closer' = [closer EXCEPT ![k].pc = "returned", ![k].late = ~inTime]
    BY <1>10 DEF Joined
  <2>2. (~inTime) \in BOOLEAN
    OBVIOUS
  <2> QED BY <1>4, <2>1, <2>2
<1>11. CASE Exit(k)
  BY <1>0, <1>11 DEF Exit
<1> QED BY <1>1, <1>7, <1>8, <1>9, <1>10, <1>11 DEF CloserNext

LEMMA TypeStep ==
  ASSUME TypeOK, [Next]_vars
  PROVE  TypeOK'
<1>1. CASE UNCHANGED vars
  BY <1>1 DEF vars, TypeOK
<1>2. ASSUME NEW e \in Events, Enqueue(e) PROVE TypeOK'
  BY <1>2, AppendProperties DEF Enqueue, TypeOK
<1>3. ASSUME NEW k \in Closers, CloserNext(k) PROVE TypeOK'
  BY <1>3, CloserTouches DEF TypeOK
<1> QED BY <1>1, <1>2, <1>3, TypeThread DEF Next

(* Type correctness: the thread has an event in hand just when it sends.   *)
THEOREM TypeCorrect == Spec => []TypeOK
BY TypeInit, TypeStep, PTL DEF Spec

-----------------------------------------------------------------------------
(* The inductive invariant.                                                *)

LEMMA WhatWasPut ==
  ASSUME TypeOK, NothingVanishes
  PROVE  SetOf(put) = SetOf(done) \cup SetOf(hand) \cup SetOf(queue)
<1>1. done \in Seq(Events) /\ hand \in Seq(Events) /\ queue \in Seq(Events)
      /\ done \o hand \in Seq(Events)
  BY HandIsSeq, ConcatProperties DEF TypeOK
<1>2. SetOf((done \o hand) \o queue) = SetOf(done \o hand) \cup SetOf(queue)
  BY <1>1, SetOfConcat
<1>3. SetOf(done \o hand) = SetOf(done) \cup SetOf(hand)
  BY <1>1, SetOfConcat
<1> QED BY <1>2, <1>3 DEF NothingVanishes

LEMMA IInit == Init => IInv
<1> SUFFICES ASSUME Init PROVE IInv
  OBVIOUS
<1>1. NothingVanishes
  BY ConcatEmptySeq, EmptySeq DEF Init, NothingVanishes
<1>2. \A k \in Closers : closer[k].pc = "idle" /\ closer[k].kind = "none" /\ closer[k].before = {}
  BY DEF Init
<1>3. CloseDrains /\ FlushLeavesOne /\ ClosesBeforeLate
  BY <1>2 DEF CloseDrains, FlushLeavesOne, ClosesBeforeLate
<1>4. StopsInOrder /\ EndsDrained
  BY DEF Init, StopsInOrder, EndsDrained
<1> QED BY <1>1, <1>3, <1>4, TypeInit DEF IInv

(* A step of the thread moves events from the queue to the hand and on to  *)
(* those done, and loses none.                                             *)
LEMMA ThreadMoves ==
  ASSUME TypeOK, NothingVanishes, ThreadNext
  PROVE  /\ done' \o hand' \o queue' = done \o hand \o queue
         /\ SetOf(done) \subseteq SetOf(done')
         /\ SetOf(done) \cup SetOf(hand) \subseteq SetOf(done') \cup SetOf(hand')
         /\ SetOf(queue') \subseteq SetOf(queue)
<1>1. done \in Seq(Events) /\ hand \in Seq(Events) /\ queue \in Seq(Events)
      /\ done \o hand \in Seq(Events)
  BY HandIsSeq, ConcatProperties DEF TypeOK
<1>2. CASE UNCHANGED <<queue, hand, done>>
  BY <1>2
<1>3. CASE Get
  <2>1. CASE queue = <<>>
    <3>1. UNCHANGED <<queue, hand, done>>
      BY <1>3, <2>1 DEF Get
    <3> QED BY <1>2, <3>1
  <2>2. CASE queue # <<>>
    <3>1. hand' = <<Head(queue)>> /\ queue' = Tail(queue) /\ done' = done /\ hand = <<>>
      BY <1>3, <2>2 DEF Get, TypeOK
    <3>2. /\ queue = <<Head(queue)>> \o Tail(queue)
          /\ <<Head(queue)>> \in Seq(Events) /\ Tail(queue) \in Seq(Events)
      BY <1>1, <2>2, HeadAndTail
    <3>3. done \o hand = done
      BY <1>1, <3>1, ConcatEmptySeq
    <3>4. (done \o <<Head(queue)>>) \o Tail(queue) = done \o (<<Head(queue)>> \o Tail(queue))
      BY <1>1, <3>2, ConcatAssociative
    <3>5. SetOf(<<Head(queue)>> \o Tail(queue)) = SetOf(<<Head(queue)>>) \cup SetOf(Tail(queue))
      BY <3>2, SetOfConcat
    <3> QED BY <3>1, <3>2, <3>3, <3>4, <3>5, SetOfEmpty
  <2> QED BY <2>1, <2>2
<1>4. ASSUME Report, queue' = queue
      PROVE  /\ done' \o hand' \o queue' = done \o hand \o queue
             /\ SetOf(done) \subseteq SetOf(done')
             /\ SetOf(done) \cup SetOf(hand) \subseteq SetOf(done') \cup SetOf(hand')
             /\ SetOf(queue') \subseteq SetOf(queue)
  <2>1. done' = done \o hand /\ hand' = <<>>
    BY <1>4 DEF Report
  <2>2. (done \o hand) \o <<>> = done \o hand
    BY <1>1, ConcatEmptySeq
  <2>3. SetOf(done \o hand) = SetOf(done) \cup SetOf(hand)
    BY <1>1, SetOfConcat
  <2> QED BY <1>4, <2>1, <2>2, <2>3
<1>5. CASE Fails
  <2>1. UNCHANGED <<queue, hand, done>> \/ (Report /\ queue' = queue)
    BY <1>5 DEF Fails
  <2> QED BY <1>2, <1>4, <2>1
<1>6. CASE Sent
  BY <1>4, <1>6 DEF Sent
<1>7. CASE CheckStop \/ CheckEmpty
  <2>1. UNCHANGED <<queue, hand, done>>
    BY <1>7 DEF CheckStop, CheckEmpty
  <2> QED BY <1>2, <2>1
<1> QED BY <1>3, <1>5, <1>6, <1>7 DEF ThreadNext

LEMMA ThreadStep ==
  ASSUME IInv, ThreadNext
  PROVE  IInv'
<1>1. TypeOK /\ NothingVanishes /\ TypeOK'
  BY TypeThread DEF IInv
<1>2. UNCHANGED <<stop, closed, closer, running, put, late>>
  BY DEF ThreadNext, CheckStop, CheckEmpty, Get, Sent, Fails
<1>3. /\ done' \o hand' \o queue' = done \o hand \o queue
      /\ SetOf(done) \subseteq SetOf(done')
      /\ SetOf(done) \cup SetOf(hand) \subseteq SetOf(done') \cup SetOf(hand')
      /\ SetOf(queue') \subseteq SetOf(queue)
  BY <1>1, ThreadMoves
<1>4. NothingVanishes'
  BY <1>1, <1>2, <1>3 DEF NothingVanishes
<1>5. CloseDrains' /\ FlushLeavesOne' /\ ClosesBeforeLate'
  <2>1. CloseDrains /\ FlushLeavesOne /\ ClosesBeforeLate
    BY DEF IInv
  <2>2. CloseDrains'
    BY <1>2, <1>3, <2>1 DEF CloseDrains
  <2>3. FlushLeavesOne'
    BY <1>2, <1>3, <2>1 DEF FlushLeavesOne
  <2>4. SetOf(put)' = SetOf(put)
    BY <1>2 DEF SetOf
  <2>5. ClosesBeforeLate'
    BY <1>2, <2>1, <2>4 DEF ClosesBeforeLate
  <2> QED BY <2>2, <2>3, <2>5
<1>6. StopsInOrder' /\ EndsDrained'
  <2>1. StopsInOrder
    BY DEF IInv
  <2>2. CASE CheckStop
    <3>1. thread'.pc = IF stop THEN "emptying" ELSE "getting"
      BY <2>2 DEF CheckStop, Goto
    <3> QED BY <1>2, <2>1, <3>1 DEF StopsInOrder, EndsDrained
  <2>3. CASE CheckEmpty
    <3>1. thread.pc = "emptying" /\ thread'.pc = (IF queue = <<>> THEN "ended" ELSE "getting")
          /\ queue' = queue
      BY <2>3 DEF CheckEmpty, Goto
    <3>2. EndsDrained'
      BY <3>1, SetOfEmpty DEF EndsDrained
    <3> QED BY <1>2, <2>1, <3>1, <3>2 DEF StopsInOrder
  <2>4. CASE Get \/ Sent
    <3>1. thread'.pc \in {"looping", "sending"}
      BY <2>4 DEF Get, Sent, Report, Goto
    <3> QED BY <1>2, <2>1, <3>1 DEF StopsInOrder, EndsDrained
  <2>5. CASE Fails
    <3>1. thread'.pc \in {"looping", "sending"}
      BY <1>1, <2>5 DEF Fails, Report, Goto, TypeOK, Thread
    <3> QED BY <1>2, <2>1, <3>1 DEF StopsInOrder, EndsDrained
  <2> QED BY <2>2, <2>3, <2>4, <2>5 DEF ThreadNext
<1> QED BY <1>1, <1>4, <1>5, <1>6 DEF IInv

(* A put adds the event behind all others, as a late one once _stop is set.*)
LEMMA EnqueueStep ==
  ASSUME IInv, NEW e \in Events, Enqueue(e)
  PROVE  IInv'
<1>1. TypeOK /\ NothingVanishes
  BY DEF IInv
<1>2. /\ e \notin SetOf(put) /\ queue' = Append(queue, e) /\ put' = Append(put, e)
      /\ late' = (IF stop THEN late \cup {e} ELSE late)
      /\ UNCHANGED <<thread, hand, stop, closed, closer, running, done>>
  BY DEF Enqueue
<1>3. done \in Seq(Events) /\ hand \in Seq(Events) /\ queue \in Seq(Events) /\ put \in Seq(Events)
      /\ done \o hand \in Seq(Events)
  BY <1>1, HandIsSeq, ConcatProperties DEF TypeOK
<1>4. TypeOK'
  BY <1>1, <1>2, AppendProperties DEF TypeOK
<1>5. NothingVanishes'
  <2>1. Append(put, e) = put \o <<e>> /\ Append(queue, e) = queue \o <<e>> /\ <<e>> \in Seq(Events)
    BY <1>3, AppendIsConcat
  <2>2. ((done \o hand) \o queue) \o <<e>> = (done \o hand) \o (queue \o <<e>>)
    BY <1>3, <2>1, ConcatAssociative
  <2> QED BY <1>1, <1>2, <2>1, <2>2 DEF NothingVanishes
<1>6. SetOf(put') = SetOf(put) \cup {e} /\ SetOf(queue') = SetOf(queue) \cup {e}
  BY <1>2, <1>3, SetOfAppend
<1>7. CloseDrains' /\ FlushLeavesOne'
  BY <1>2 DEF IInv, CloseDrains, FlushLeavesOne
<1>8. StopsInOrder' /\ EndsDrained'
  BY <1>2, <1>6 DEF IInv, StopsInOrder, EndsDrained
<1>9. ClosesBeforeLate'
  <2> SUFFICES ASSUME NEW k \in Closers
               PROVE  closer[k].before \subseteq SetOf(put')
                      /\ (closer[k].kind = "close" => closer[k].before \cap late' = {})
    BY <1>2 DEF IInv, ClosesBeforeLate
  <2>1. closer[k].before \subseteq SetOf(put)
        /\ (closer[k].kind = "close" => closer[k].before \cap late = {})
    BY DEF IInv, ClosesBeforeLate
  <2> QED BY <1>2, <1>6, <2>1
<1> QED BY <1>4, <1>5, <1>7, <1>8, <1>9 DEF IInv

(* What the invariant says of one call of flush or close.                  *)
CallOK(k) ==
  /\ closer[k].pc = "returned" /\ closer[k].kind = "close" /\ ~closer[k].late =>
       closer[k].before \subseteq SetOf(done)
  /\ closer[k].pc = "returned" /\ closer[k].kind = "flush" /\ ~closer[k].late =>
       closer[k].before \subseteq SetOf(done) \cup SetOf(hand)
  /\ closer[k].before \subseteq SetOf(put)
  /\ closer[k].pc \in {"flushing", "stopping", "joining"} => closer[k].kind \in {"flush", "close"}
  /\ closer[k].pc \in {"stopping", "joining"} => closed
  /\ closer[k].pc \in {"entering", "stopping", "joining"} => closer[k].kind = "close"
  /\ closer[k].kind = "close" => closer[k].before \cap late = {}
  /\ closer[k].kind = "close" /\ closer[k].pc = "flushing" => closed

LEMMA CallsOK == (CloseDrains /\ FlushLeavesOne /\ ClosesBeforeLate) <=> \A k \in Closers : CallOK(k)
BY DEF CloseDrains, FlushLeavesOne, ClosesBeforeLate, CallOK

LEMMA CloserStep ==
  ASSUME IInv, NEW k \in Closers, CloserNext(k)
  PROVE  IInv'
<1>1. /\ TypeOK /\ NothingVanishes /\ StopsInOrder /\ EndsDrained
      /\ \A j \in Closers : CallOK(j)
  BY CallsOK DEF IInv
<1>2. /\ UNCHANGED <<queue, thread, hand, put, done, late>>
      /\ closer' \in [Closers -> Closer]
      /\ \A j \in Closers : j # k => closer'[j] = closer[j]
      /\ stop' \in BOOLEAN /\ closed' \in BOOLEAN /\ running' \in BOOLEAN
  BY <1>1, CloserTouches
<1>3. SetOf(put') = SetOf(put) /\ SetOf(done') = SetOf(done) /\ SetOf(hand') = SetOf(hand)
      /\ SetOf(queue') = SetOf(queue)
  BY <1>2
<1>4. closer \in [Closers -> Closer] /\ closer[k] \in Closer /\ closed \in BOOLEAN
  BY <1>1 DEF TypeOK
<1>5. SetOf(put) = SetOf(done) \cup SetOf(hand) \cup SetOf(queue)
  BY <1>1, WhatWasPut
<1>6. CallOK(k)
  BY <1>1
<1> SUFFICES StopsInOrder' /\ CallOK(k)' /\ (closed => closed')
  <2>1. TypeOK' /\ NothingVanishes' /\ EndsDrained'
    BY <1>1, <1>2, <1>3 DEF TypeOK, NothingVanishes, EndsDrained
  <2>2. \A j \in Closers : j # k => CallOK(j)'
    BY <1>1, <1>2, <1>3 DEF CallOK
  <2>3. (CloseDrains /\ FlushLeavesOne /\ ClosesBeforeLate)'
    BY <2>2 DEF CloseDrains, FlushLeavesOne, ClosesBeforeLate, CallOK
  <2> QED BY <2>1, <2>3 DEF IInv
<1>7. CASE CallFlush(k)
  <2>1. closer'[k] = [pc |-> "flushing", kind |-> "flush", before |-> SetOf(put), late |-> FALSE]
        /\ UNCHANGED <<stop, closed>>
    BY <1>4, <1>7 DEF CallFlush, Call
  <2> QED BY <1>1, <1>2, <1>3, <2>1 DEF CallOK, StopsInOrder
<1>8. CASE CallClose(k) /\ closed
  <2>1. closer'[k] = [pc |-> "returned", kind |-> "noop", before |-> SetOf(put), late |-> FALSE]
        /\ UNCHANGED <<stop, closed>>
    BY <1>4, <1>8 DEF CallClose, Call
  <2> QED BY <1>1, <1>2, <1>3, <2>1 DEF CallOK, StopsInOrder
<1>9. CASE CallClose(k) /\ ~closed
  <2>1. closer'[k] = [pc |-> "entering", kind |-> "close", before |-> SetOf(put), late |-> FALSE]
        /\ UNCHANGED <<stop, closed>>
    BY <1>4, <1>9 DEF CallClose, Call
  <2>2. late = {}
    BY <1>1, <1>9 DEF StopsInOrder
  <2> QED BY <1>1, <1>2, <1>3, <2>1, <2>2 DEF CallOK, StopsInOrder
<1>10. CASE SetClosed(k)
  <2>1. /\ closer[k].pc = "entering" /\ closer'[k].pc = "flushing"
        /\ closer'[k].kind = closer[k].kind /\ closer'[k].before = closer[k].before
        /\ closed' /\ stop' = stop
    BY <1>4, <1>10 DEF SetClosed, Closer
  <2> QED BY <1>1, <1>2, <1>3, <1>6, <2>1 DEF CallOK, StopsInOrder
<1>11. CASE FlushReturns(k)
  <2>1. PICK inTime \in BOOLEAN :
          /\ inTime => queue = <<>>
          /\ closer' = [closer EXCEPT ![k].pc = AfterFlush(k),
                                      ![k].late = ~inTime /\ closer[k].kind = "flush"]
    BY <1>11 DEF FlushReturns
  <2>2. /\ closer[k].pc = "flushing" /\ closer'[k].pc = AfterFlush(k)
        /\ closer'[k].kind = closer[k].kind /\ closer'[k].before = closer[k].before
        /\ closer'[k].late = (~inTime /\ closer[k].kind = "flush")
        /\ UNCHANGED <<stop, closed>>
    BY <1>4, <1>11, <2>1 DEF FlushReturns, Closer
  <2>3. StopsInOrder'
    BY <1>1, <1>2, <2>2 DEF StopsInOrder
  <2>4. CASE closer[k].kind = "close"
    BY <1>2, <1>3, <1>6, <2>2, <2>3, <2>4 DEF CallOK, AfterFlush
  <2>5. CASE closer[k].kind # "close"
    <3>1. closer[k].kind = "flush" /\ closer'[k].pc = "returned"
      BY <1>6, <2>2, <2>5 DEF CallOK, AfterFlush
    <3>2. ~closer'[k].late => closer[k].before \subseteq SetOf(done) \cup SetOf(hand)
      BY <1>5, <1>6, <2>1, <2>2, <3>1, SetOfEmpty DEF CallOK
    <3> QED BY <1>2, <1>3, <1>6, <2>2, <2>3, <3>1, <3>2 DEF CallOK
  <2> QED BY <2>4, <2>5
<1>12. CASE SetStop(k)
  <2>1. /\ closer[k].pc = "stopping" /\ closer'[k].pc = "joining"
        /\ closer'[k].kind = closer[k].kind /\ closer'[k].before = closer[k].before
        /\ stop' /\ closed' = closed
    BY <1>4, <1>12 DEF SetStop, Closer
  <2> QED BY <1>1, <1>2, <1>3, <1>6, <2>1 DEF CallOK, StopsInOrder
<1>13. CASE Joined(k)
  <2>1. PICK inTime \in BOOLEAN :
          /\ inTime => thread.pc = "ended"
          /\ closer' = [closer EXCEPT ![k].pc = "returned", ![k].late = ~inTime]
    BY <1>13 DEF Joined
  <2>2. /\ closer[k].pc = "joining" /\ closer'[k].pc = "returned"
        /\ closer'[k].kind = closer[k].kind /\ closer'[k].before = closer[k].before
        /\ closer'[k].late = ~inTime
        /\ UNCHANGED <<stop, closed>>
    BY <1>4, <1>13, <2>1 DEF Joined, Closer
  <2>3. StopsInOrder'
    BY <1>1, <1>2, <2>2 DEF StopsInOrder
  <2>4. closer[k].kind = "close" /\ closer[k].before \cap late = {}
        /\ closer[k].before \subseteq SetOf(put)
    BY <1>6, <2>2 DEF CallOK
  <2>5. ~closer'[k].late => closer[k].before \subseteq SetOf(done)
    <3> SUFFICES ASSUME thread.pc = "ended" PROVE closer[k].before \subseteq SetOf(done)
      BY <2>1, <2>2
    <3>1. hand = <<>> /\ SetOf(queue) \subseteq late
      BY <1>1 DEF TypeOK, EndsDrained
    <3> QED BY <1>5, <2>4, <3>1, SetOfEmpty
  <2> QED BY <1>2, <1>3, <1>6, <2>2, <2>3, <2>4, <2>5 DEF CallOK
<1>14. CASE Exit(k)
  <2>1. UNCHANGED <<closer, stop, closed>>
    BY <1>14 DEF Exit
  <2> QED BY <1>1, <1>2, <1>3, <1>6, <2>1 DEF CallOK, StopsInOrder
<1> QED BY <1>7, <1>8, <1>9, <1>10, <1>11, <1>12, <1>13, <1>14 DEF CloserNext

(* The inductive invariant of the queue, its thread and its closers.       *)
THEOREM InductiveInvariant == Spec => []IInv
<1>1. ASSUME IInv, [Next]_vars PROVE IInv'
  <2>1. CASE UNCHANGED vars
    <3>1. \A k \in Closers : CallOK(k)'
      BY <1>1, <2>1, CallsOK DEF IInv, CallOK, vars
    <3>2. (CloseDrains /\ FlushLeavesOne /\ ClosesBeforeLate)'
      BY <3>1 DEF CloseDrains, FlushLeavesOne, ClosesBeforeLate, CallOK
    <3>3. (TypeOK /\ NothingVanishes /\ StopsInOrder /\ EndsDrained)'
      BY <1>1, <2>1, TypeStep DEF IInv, NothingVanishes, StopsInOrder, EndsDrained, vars
    <3> QED BY <3>2, <3>3 DEF IInv
  <2> QED BY <1>1, <2>1, ThreadStep, EnqueueStep, CloserStep DEF Next
<1> QED BY <1>1, IInit, PTL DEF Spec

(* Every event put on the queue is sent, warned about, in hand or waiting, *)
(* in the order of the puts.                                               *)
THEOREM NoEventVanishes == Spec => []NothingVanishes
BY InductiveInvariant, PTL DEF IInv

(* close() that was not cut short by a timeout leaves no earlier event.    *)
THEOREM CloseIsDraining == Spec => []CloseDrains
BY InductiveInvariant, PTL DEF IInv

(* flush() that was not cut short leaves at most the event in hand.        *)
THEOREM FlushIsAlmostDone == Spec => []FlushLeavesOne
BY InductiveInvariant, PTL DEF IInv
=============================================================================

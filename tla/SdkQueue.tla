------------------------------ MODULE SdkQueue ------------------------------
(***************************************************************************)
(* The SDK's event queue in one process (sdk/tracyn/client.py): tracked    *)
(* calls put events on it, a daemon thread takes and sends them, and other *)
(* threads call flush() and close(), the last of them from the atexit hook *)
(* before the process ends.                                                *)
(***************************************************************************)
EXTENDS Naturals, Sequences

CONSTANTS
  Events,    \* events that tracked calls put on the queue
  Closers,   \* calls of flush() and of close()
  Attempts   \* `attempts` of _send_with_retry

ASSUME AttemptsAssumption == Attempts \in Nat \ {0}

VARIABLES
  queue,    \* self._queue
  thread,   \* _flush_loop
  hand,     \* the event the thread has taken and is sending, if any
  stop,     \* self._stop
  closed,   \* self._closed
  closer,   \* the calls of flush and close
  running,  \* whether the process is alive
  put,      \* history: the events in the order they were put on the queue
  done,     \* history: those sent or warned about, in that order
  late      \* history: those put on the queue once _stop was set

vars == <<queue, thread, hand, stop, closed, closer, running, put, done, late>>

SetOf(s) == {s[i] : i \in DOMAIN s}

Thread == [pc : {"looping", "emptying", "getting", "sending", "ended"}, attempt : 1..Attempts]

(* before holds the events put before the call, late tells that a deadline *)
(* has passed; a "noop" is a close() that found _closed set.               *)
Closer == [pc : {"idle", "entering", "flushing", "stopping", "joining", "returned"},
           kind : {"none", "flush", "close", "noop"}, before : SUBSET Events, late : BOOLEAN]

TypeOK ==
  /\ queue \in Seq(Events)
  /\ thread \in Thread
  /\ hand \in {<<>>} \cup {<<e>> : e \in Events}
  /\ thread.pc = "sending" <=> hand # <<>>
  /\ stop \in BOOLEAN /\ closed \in BOOLEAN /\ running \in BOOLEAN
  /\ closer \in [Closers -> Closer]
  /\ put \in Seq(Events) /\ done \in Seq(Events)
  /\ late \in SUBSET Events

Init ==
  /\ queue = <<>>
  /\ thread = [pc |-> "looping", attempt |-> 1]
  /\ hand = <<>>
  /\ stop = FALSE /\ closed = FALSE /\ running = TRUE
  /\ closer = [k \in Closers |-> [pc |-> "idle", kind |-> "none", before |-> {}, late |-> FALSE]]
  /\ put = <<>> /\ done = <<>>
  /\ late = {}

-----------------------------------------------------------------------------
(* The calls.                                                              *)

(* _enqueue_event. No tracked call asks whether the client is closed.      *)
Enqueue(e) ==
  /\ running
  /\ e \notin SetOf(put)
  /\ queue' = Append(queue, e)
  /\ put' = Append(put, e)
  /\ late' = IF stop THEN late \cup {e} ELSE late
  /\ UNCHANGED <<thread, hand, stop, closed, closer, running, done>>

-----------------------------------------------------------------------------
(* _flush_loop.                                                            *)

Goto(pc) == thread' = [pc |-> pc, attempt |-> 1]

\* Mutant of CheckStop: the loop ends when _stop is set.
CheckStopOnly ==
  /\ running
  /\ thread.pc = "looping"
  /\ Goto(IF stop THEN "ended" ELSE "getting")
  /\ UNCHANGED <<queue, hand, stop, closed, closer, running, put, done, late>>

(* while not _stop.is_set() ...                                            *)
CheckStop ==
  /\ running
  /\ thread.pc = "looping"
  /\ Goto(IF stop THEN "emptying" ELSE "getting")
  /\ UNCHANGED <<queue, hand, stop, closed, closer, running, put, done, late>>

(* ... or not _queue.empty()                                               *)
CheckEmpty ==
  /\ running
  /\ thread.pc = "emptying"
  /\ Goto(IF queue = <<>> THEN "ended" ELSE "getting")
  /\ UNCHANGED <<queue, hand, stop, closed, closer, running, put, done, late>>

(* _queue.get, or queue.Empty after its timeout.                           *)
Get ==
  /\ running
  /\ thread.pc = "getting"
  /\ IF queue = <<>> THEN Goto("looping") /\ UNCHANGED <<queue, hand>>
     ELSE Goto("sending") /\ hand' = <<Head(queue)>> /\ queue' = Tail(queue)
  /\ UNCHANGED <<stop, closed, closer, running, put, done, late>>

Report == Goto("looping") /\ hand' = <<>> /\ done' = done \o hand

Sent ==
  /\ running
  /\ thread.pc = "sending"
  /\ Report
  /\ UNCHANGED <<queue, stop, closed, closer, running, put, late>>

\* Mutant of Fails: one attempt too many.
FailsOnceMore ==
  /\ running
  /\ thread.pc = "sending"
  /\ IF thread.attempt <= Attempts
       THEN thread' = [thread EXCEPT !.attempt = @ + 1] /\ UNCHANGED <<hand, done>>
       ELSE Report
  /\ UNCHANGED <<queue, stop, closed, closer, running, put, late>>

\* Mutant of Fails: the event is dropped without a warning.
FailsSilently ==
  /\ running
  /\ thread.pc = "sending"
  /\ IF thread.attempt < Attempts
       THEN thread' = [thread EXCEPT !.attempt = @ + 1] /\ UNCHANGED hand
       ELSE Goto("looping") /\ hand' = <<>>
  /\ UNCHANGED <<queue, stop, closed, closer, running, put, done, late>>

(* The next attempt, or the warning on stderr.                             *)
Fails ==
  /\ running
  /\ thread.pc = "sending"
  /\ IF thread.attempt < Attempts
       THEN thread' = [thread EXCEPT !.attempt = @ + 1] /\ UNCHANGED <<hand, done>>
       ELSE Report
  /\ UNCHANGED <<queue, stop, closed, closer, running, put, late>>

-----------------------------------------------------------------------------
(* flush and close.                                                        *)

Call(k, pc, kind) ==
  /\ running
  /\ closer[k].pc = "idle"
  /\ closer' = [closer EXCEPT ![k] = [pc |-> pc, kind |-> kind, before |-> SetOf(put),
                                     late |-> FALSE]]
  /\ UNCHANGED <<queue, thread, hand, stop, closed, running, put, done, late>>

CallFlush(k) == Call(k, "flushing", "flush")

(* if self._closed: return                                                 *)
CallClose(k) == IF closed THEN Call(k, "returned", "noop") ELSE Call(k, "entering", "close")

SetClosed(k) ==
  /\ running
  /\ closer[k].pc = "entering"
  /\ closer' = [closer EXCEPT ![k].pc = "flushing"]
  /\ closed' = TRUE
  /\ UNCHANGED <<queue, thread, hand, stop, running, put, done, late>>

AfterFlush(k) == IF closer[k].kind = "close" THEN "stopping" ELSE "returned"

\* Mutant of FlushReturns: flush does not wait.
FlushWaitsNot(k) ==
  /\ running
  /\ closer[k].pc = "flushing"
  /\ closer' = [closer EXCEPT ![k].pc = AfterFlush(k)]
  /\ UNCHANGED <<queue, thread, hand, stop, closed, running, put, done, late>>

(* The queue is empty, or the deadline has passed.                         *)
FlushReturns(k) ==
  /\ running
  /\ closer[k].pc = "flushing"
  /\ \E inTime \in BOOLEAN :
       /\ inTime => queue = <<>>
       /\ closer' = [closer EXCEPT ![k].pc = AfterFlush(k),
                                   ![k].late = ~inTime /\ closer[k].kind = "flush"]
  /\ UNCHANGED <<queue, thread, hand, stop, closed, running, put, done, late>>

SetStop(k) ==
  /\ running
  /\ closer[k].pc = "stopping"
  /\ closer' = [closer EXCEPT ![k].pc = "joining"]
  /\ stop' = TRUE
  /\ UNCHANGED <<queue, thread, hand, closed, running, put, done, late>>

(* The thread has ended, or the timeout of join() has passed.              *)
Joined(k) ==
  /\ running
  /\ closer[k].pc = "joining"
  /\ \E inTime \in BOOLEAN :
       /\ inTime => thread.pc = "ended"
       /\ closer' = [closer EXCEPT ![k].pc = "returned", ![k].late = ~inTime]
  /\ UNCHANGED <<queue, thread, hand, stop, closed, running, put, done, late>>

(* After the atexit hook the process ends, and the daemon thread with it.  *)
Exit(k) ==
  /\ running
  /\ closer[k].pc = "returned"
  /\ closer[k].kind \in {"close", "noop"}
  /\ running' = FALSE
  /\ UNCHANGED <<queue, thread, hand, stop, closed, closer, put, done, late>>

-----------------------------------------------------------------------------
ThreadNext == CheckStop \/ CheckEmpty \/ Get \/ Sent \/ Fails

CloserNext(k) ==
  \/ CallFlush(k)
  \/ CallClose(k)
  \/ SetClosed(k)
  \/ FlushReturns(k)
  \/ SetStop(k)
  \/ Joined(k)
  \/ Exit(k)

Next ==
  \/ ThreadNext
  \/ \E e \in Events : Enqueue(e)
  \/ \E k \in Closers : CloserNext(k)

(* The thread is scheduled, and every request it makes times out.          *)
Fairness == WF_vars(ThreadNext)

Spec == Init /\ [][Next]_vars
FairSpec == Spec /\ Fairness

-----------------------------------------------------------------------------
(* Properties.                                                             *)

(* No event is dropped silently or overtaken: whatever was put on the      *)
(* queue is sent or warned about, is being sent, or waits, in that order.  *)
NothingVanishes == put = done \o hand \o queue

(* A close() that returned because the thread had ended, and not because   *)
(* of a timeout, left no event behind that was put before it was called.   *)
CloseDrains ==
  \A k \in Closers :
    closer[k].pc = "returned" /\ closer[k].kind = "close" /\ ~closer[k].late =>
      closer[k].before \subseteq SetOf(done)

(* What flush() promises when it returns before its deadline: of the       *)
(* events put before it was called at most the one being sent is left.     *)
FlushLeavesOne ==
  \A k \in Closers :
    closer[k].pc = "returned" /\ closer[k].kind = "flush" /\ ~closer[k].late =>
      closer[k].before \subseteq SetOf(done) \cup SetOf(hand)

(* The inductive invariant behind them: the thread looks whether the queue *)
(* is empty, and ends, only once _stop was set; from then on only late     *)
(* events are put on the queue; and a close() that went on was called      *)
(* before that.                                                            *)
StopsInOrder ==
  /\ thread.pc \in {"emptying", "ended"} => stop
  /\ stop => closed
  /\ late # {} => stop

EndsDrained == thread.pc = "ended" => SetOf(queue) \subseteq late

ClosesBeforeLate ==
  \A k \in Closers :
    /\ closer[k].before \subseteq SetOf(put)
    /\ closer[k].pc \in {"flushing", "stopping", "joining"} => closer[k].kind \in {"flush", "close"}
    /\ closer[k].pc \in {"stopping", "joining"} => closed
    /\ closer[k].pc \in {"entering", "stopping", "joining"} => closer[k].kind = "close"
    /\ closer[k].kind = "close" => closer[k].before \cap late = {}
    /\ closer[k].kind = "close" /\ closer[k].pc = "flushing" => closed

IInv ==
  /\ TypeOK
  /\ NothingVanishes
  /\ CloseDrains
  /\ FlushLeavesOne
  /\ StopsInOrder
  /\ EndsDrained
  /\ ClosesBeforeLate

(* Unless the process exits, every event is sent or warned about, but for  *)
(* those that were put on the queue after close() had stopped the thread.  *)
EventsAreReported ==
  \A e \in Events :
    (e \in SetOf(put)) ~> (e \in SetOf(done) \/ e \in late \/ ~running)
=============================================================================

-------------------------- MODULE AuditChainProofs --------------------------
(***************************************************************************)
(* Proofs about the hash chain and its checkpoints, for any number of      *)
(* inserts, of retries and of runs of the job.                             *)
(***************************************************************************)
EXTENDS AuditChain, TLAPS

USE GenesisAssumption, InsertAttemptsAssumption, MaxClockAssumption

(* The rows of the tables, and of the tables with a row more.              *)
LEMMA RowsType ==
  ASSUME TypeOK
  PROVE  /\ Rows \subseteq EventRow
         /\ Checkpoints \subseteq Checkpoint
BY DEF TypeOK, Rows, Checkpoints

LEMMA AppendedRow ==
  ASSUME TypeOK, NEW row \in EventRow, log' = Append(log, row)
  PROVE  Rows' = Rows \cup {row}
BY DEF TypeOK, Rows

LEMMA AppendedCheckpoint ==
  ASSUME TypeOK, NEW row \in Checkpoint, audit' = Append(audit, row)
  PROVE  Checkpoints' = Checkpoints \cup {row}
BY DEF TypeOK, Checkpoints

LEMMA DueType ==
  ASSUME TypeOK, NEW start \in 0..MaxClock, NEW end \in Times
  PROVE  /\ Due(start, end) \subseteq Events
         /\ \A e \in Due(start, end) :
              \E row \in Rows : row.event = e /\ start < row.created /\ row.created <= end
         /\ \A row \in Rows : start < row.created /\ row.created <= end =>
              row.event \in Due(start, end)
BY RowsType DEF Due, EventRow

LEMMA JobFields ==
  ASSUME TypeOK
  PROVE  /\ job.row \in Checkpoint
         /\ job.row.start \in 0..MaxClock
         /\ job.row.end \in Times
         /\ job.row.sealed \in SUBSET Events
         /\ job.row.prev \in SUBSET Events
         /\ job.attempt \in 1..InsertAttempts
BY DEF TypeOK, Job, Checkpoint

LEMMA RetryType ==
  ASSUME TypeOK, Retry
  PROVE  /\ job' \in Job
         /\ job'.row = job.row
         /\ job'.pc \in {job.pc, "idle"}
<1>1. CASE job.attempt < InsertAttempts
  <2>1. job.attempt + 1 \in 1..InsertAttempts
    BY <1>1, JobFields
  <2>2. job' = [job EXCEPT !.attempt = job.attempt + 1]
    BY <1>1 DEF Retry
  <2> QED BY <2>1, <2>2 DEF TypeOK, Job
<1>2. CASE ~(job.attempt < InsertAttempts)
  BY <1>2, JobFields DEF Retry, TypeOK, Job
<1> QED BY <1>1, <1>2

-----------------------------------------------------------------------------
(* Type correctness.                                                       *)

LEMMA TypeInit == Init => TypeOK
BY DEF Init, TypeOK, Times, Job, Checkpoint, EventRow

LEMMA StartType ==
  ASSUME TypeOK, NEW last, last.end \in 0..MaxClock, last.sealed \in SUBSET Events, Start(last)
  PROVE  /\ job' \in Job
         /\ UNCHANGED <<clock, tx, lock, head, log, audit, late>>
BY DEF Start, TypeOK, Job, Checkpoint, Times

LEMMA TypeStep ==
  ASSUME TypeOK, [Next]_vars
  PROVE  TypeOK'
<1>1. CASE Tick
  BY <1>1 DEF Tick, TypeOK, Times
<1>2. ASSUME NEW e \in Events, InsertNext(e) PROVE TypeOK'
  <2>1. CASE Begin(e)
    BY <2>1 DEF Begin, TypeOK
  <2>2. CASE LockHead(e)
    BY <2>2 DEF LockHead, ReadHead, TypeOK
  <2>3. CASE Commit(e)
    <3>1. [event |-> e, created |-> tx[e].created, prev |-> tx[e].prev] \in EventRow
      BY DEF TypeOK, EventRow
    <3>2. log' \in Seq(EventRow)
      BY <2>3, <3>1 DEF Commit, TypeOK
    <3> QED BY <2>3, <3>2 DEF Commit, TypeOK
  <2>4. CASE Abort(e)
    BY <2>4 DEF Abort, TypeOK
  <2> QED BY <1>2, <2>1, <2>2, <2>3, <2>4 DEF InsertNext
<1>3. CASE ReadLast
  <2>1. CASE audit = <<>>
    <3>1. NoCheckpoint.end \in 0..MaxClock /\ NoCheckpoint.sealed \in SUBSET Events
      BY DEF NoCheckpoint
    <3> QED BY <1>3, <2>1, <3>1, StartType DEF ReadLast, TypeOK
  <2>2. CASE audit # <<>>
    <3>1. PICK a \in Checkpoints : Start(a)
      BY <1>3, <2>2 DEF ReadLast
    <3>2. a.end \in 0..MaxClock /\ a.sealed \in SUBSET Events
      BY <3>1, RowsType DEF Checkpoint, Times
    <3> QED BY <3>1, <3>2, StartType DEF TypeOK
  <2> QED BY <2>1, <2>2
<1>4. CASE ReadEvents
  BY <1>4, DueType, JobFields DEF ReadEvents, TypeOK, Job, Checkpoint
<1>5. ASSUME NEW answered \in BOOLEAN, Seal(answered) PROVE TypeOK'
  <2>1. audit' \in Seq(Checkpoint)
    BY <1>5, JobFields DEF Seal, TypeOK
  <2>2. job' \in Job
    BY <1>5, RetryType DEF Seal, TypeOK, Job
  <2> QED BY <1>5, <2>1, <2>2 DEF Seal, TypeOK
<1>6. CASE SealLost
  BY <1>6, RetryType DEF SealLost, TypeOK
<1>7. CASE JobFails
  BY <1>7 DEF JobFails, TypeOK, Job
<1>8. CASE UNCHANGED vars
  BY <1>8 DEF vars, TypeOK
<1> QED BY <1>1, <1>2, <1>3, <1>4, <1>5, <1>6, <1>7, <1>8 DEF Next, JobNext

(* Type correctness of every reachable state.                              *)
THEOREM TypeCorrect == Spec => []TypeOK
BY TypeInit, TypeStep, PTL DEF Spec

-----------------------------------------------------------------------------
(* The inductive invariant.                                                *)

LEMMA IInit == Init => IInv
<1> SUFFICES ASSUME Init PROVE IInv
  OBVIOUS
<1>1. Rows = {} /\ Checkpoints = {}
  BY DEF Init, Rows, Checkpoints
<1>2. LinearChain
  BY DEF Init, LinearChain
<1> QED
  BY <1>1, <1>2, TypeInit DEF Init, IInv, LockGuardsHead, RowsAreCommitted, PeriodsDisjoint,
     CheckpointsCover, CheckpointsChain, JobWorksOnNext, JobCovers, SealedUnlessLate,
     JobSealsUnlessLate

(* Beginning, locking and aborting: the log does not change.               *)
LEMMA OpenStep ==
  ASSUME IInv, NEW e \in Events, Begin(e) \/ LockHead(e) \/ Abort(e)
  PROVE  IInv'
<1> USE DEF IInv
<1>1. UNCHANGED <<clock, head, log, job, audit, late>>
  BY DEF Begin, LockHead, ReadHead, Abort
<1>2. Rows' = Rows /\ Checkpoints' = Checkpoints
  BY <1>1 DEF Rows, Checkpoints
<1>3. TypeOK'
  BY TypeStep DEF Next, InsertNext
<1>4. LockGuardsHead'
  BY <1>1 DEF LockGuardsHead, Begin, LockHead, ReadHead, Abort, TypeOK
<1>5. tx[e].pc # "committed" /\ \A f \in Events : f # e => tx'[f] = tx[f]
  BY DEF Begin, LockHead, ReadHead, Abort, TypeOK
<1>6. RowsAreCommitted'
  BY <1>2, <1>5, RowsType DEF RowsAreCommitted, EventRow
<1>7. CheckpointsCover' /\ JobCovers'
  BY <1>1, <1>2, <1>5, RowsType, JobFields DEF CheckpointsCover, JobCovers, Covers, Checkpoint
<1>8. LinearChain' /\ PeriodsDisjoint' /\ CheckpointsChain' /\ JobWorksOnNext'
  BY <1>1, <1>2 DEF LinearChain, PeriodsDisjoint, CheckpointsChain, JobWorksOnNext, Follows
<1>9. SealedUnlessLate' /\ JobSealsUnlessLate'
  BY <1>1, <1>2 DEF SealedUnlessLate, JobSealsUnlessLate
<1> QED BY <1>3, <1>4, <1>6, <1>7, <1>8, <1>9

LEMMA CommitStep ==
  ASSUME IInv, NEW e \in Events, Commit(e)
  PROVE  IInv'
<1> USE DEF IInv
<1> DEFINE row == [event |-> e, created |-> tx[e].created, prev |-> tx[e].prev]
<1>1. TypeOK'
  BY TypeStep DEF Next, InsertNext
<1>2. row \in EventRow
  BY DEF TypeOK, EventRow
<1>3. Rows' = Rows \cup {row} /\ Checkpoints' = Checkpoints
  <2>1. log' = Append(log, row) /\ audit' = audit
    BY DEF Commit
  <2> QED BY <1>2, <2>1, AppendedRow DEF Checkpoints
<1>4. LinearChain'
  <2>1. tx[e].prev = head
    BY DEF Commit, LockGuardsHead
  <2>2. log' = Append(log, row) /\ head' = e /\ log \in Seq(EventRow)
    BY DEF Commit, TypeOK
  <2>3. /\ Len(log') = Len(log) + 1 /\ Len(log) \in Nat
        /\ log'[Len(log) + 1] = row
        /\ \A i \in 1..Len(log) : log'[i] = log[i]
    BY <1>2, <2>2
  <2>4. row.event = e /\ row.prev = head
    BY <2>1
  <2>5. log'[Len(log')].event = head' /\ log' # <<>>
    BY <2>2, <2>3, <2>4
  <2>6. row.prev = IF Len(log) + 1 = 1 THEN Genesis ELSE log[Len(log)].event
    BY <2>2, <2>3, <2>4 DEF LinearChain
  <2> HIDE DEF row
  <2>7. ASSUME NEW i \in 1..Len(log')
        PROVE  log'[i].prev = IF i = 1 THEN Genesis ELSE log'[i - 1].event
    <3>1. CASE i = Len(log) + 1
      BY <2>3, <2>6, <3>1
    <3>2. CASE i # Len(log) + 1
      BY <2>3, <3>2 DEF LinearChain
    <3> QED BY <3>1, <3>2
  <2> QED BY <2>5, <2>7 DEF LinearChain
<1>5. LockGuardsHead'
  BY DEF LockGuardsHead, Commit, TypeOK
<1>6. /\ tx'[e].pc = "committed" /\ tx'[e].created = tx[e].created /\ tx[e].pc # "committed"
      /\ \A f \in Events : f # e => tx'[f] = tx[f]
      /\ UNCHANGED <<job, audit>>
  BY DEF Commit, TypeOK
<1>7. RowsAreCommitted'
  BY <1>3, <1>6, RowsType DEF RowsAreCommitted, EventRow
<1>8. CheckpointsCover' /\ JobCovers'
  BY <1>3, <1>6, RowsType, JobFields DEF CheckpointsCover, JobCovers, Covers, Checkpoint
<1>9. PeriodsDisjoint' /\ CheckpointsChain' /\ JobWorksOnNext'
  BY <1>3, <1>6 DEF PeriodsDisjoint, CheckpointsChain, JobWorksOnNext, Follows
<1>10. /\ late \subseteq late'
       /\ ReadPast(row.created) => e \in late'
  BY DEF Commit
<1>11. SealedUnlessLate'
  BY <1>3, <1>10 DEF SealedUnlessLate, ReadPast
<1>12. JobSealsUnlessLate'
  BY <1>3, <1>6, <1>10 DEF JobSealsUnlessLate, ReadPast
<1> QED BY <1>1, <1>4, <1>5, <1>7, <1>8, <1>9, <1>11, <1>12

(* The steps of the job leave the inserts and the log alone.               *)
LEMMA InsertsUntouched ==
  ASSUME IInv, UNCHANGED <<clock, tx, lock, head, log, late>>
  PROVE  /\ LinearChain' /\ LockGuardsHead' /\ RowsAreCommitted'
         /\ Rows' = Rows
BY DEF IInv, LinearChain, LockGuardsHead, RowsAreCommitted, Rows

LEMMA CheckpointsUntouched ==
  ASSUME IInv, UNCHANGED <<clock, tx, lock, head, log, audit, late>>
  PROVE  /\ PeriodsDisjoint' /\ CheckpointsCover' /\ CheckpointsChain' /\ SealedUnlessLate'
         /\ Checkpoints' = Checkpoints
<1>1. Rows' = Rows /\ Checkpoints' = Checkpoints
  BY DEF Rows, Checkpoints
<1> QED
  BY <1>1 DEF IInv, PeriodsDisjoint, CheckpointsCover, Covers, CheckpointsChain, SealedUnlessLate

LEMMA ReadLastStep ==
  ASSUME IInv, ReadLast
  PROVE  IInv'
<1> USE DEF IInv
<1>1. TypeOK'
  BY TypeStep DEF Next, JobNext
<1>2. /\ UNCHANGED <<clock, tx, lock, head, log, audit, late>>
      /\ job'.pc = "reading" /\ job'.row.sealed = {}
  BY DEF ReadLast, Start
<1>3. JobWorksOnNext'
  <2>1. CASE audit = <<>>
    <3>1. Checkpoints = {} /\ Checkpoints' = {}
      BY <1>2, <2>1 DEF Checkpoints
    <3>2. job'.row.start = 0 /\ job'.row.prev = {}
      BY <2>1 DEF ReadLast, Start, NoCheckpoint
    <3> QED BY <3>1, <3>2 DEF JobWorksOnNext, Follows
  <2>2. CASE audit # <<>>
    <3>1. PICK a \in Checkpoints : (\A b \in Checkpoints : b.end <= a.end) /\ Start(a)
      BY <2>2 DEF ReadLast
    <3>2. job'.row.start = a.end /\ job'.row.prev = a.sealed /\ a.end \in Times
      BY <3>1, RowsType DEF Start, Checkpoint
    <3> QED BY <1>2, <3>1, <3>2, CheckpointsUntouched DEF JobWorksOnNext, Follows, Times
  <2> QED BY <2>1, <2>2
<1> QED
  BY <1>1, <1>2, <1>3, InsertsUntouched, CheckpointsUntouched DEF JobCovers, JobSealsUnlessLate

LEMMA ReadEventsStep ==
  ASSUME IInv, ReadEvents
  PROVE  IInv'
<1> USE DEF IInv
<1> DEFINE start == job.row.start
           end == job.row.end
           due == Due(start, end)
<1>1. TypeOK'
  BY TypeStep DEF Next, JobNext
<1>2. UNCHANGED <<clock, tx, lock, head, log, audit, late>>
  BY DEF ReadEvents
<1>3. CASE due = {}
  <2>1. job'.pc = "idle"
    BY <1>3, JobFields DEF ReadEvents, TypeOK, Job
  <2> QED BY <1>1, <1>2, <2>1, InsertsUntouched, CheckpointsUntouched
          DEF JobWorksOnNext, JobCovers, JobSealsUnlessLate
<1>4. CASE due # {}
  <2>1. /\ job'.pc = "inserting" /\ job'.row.start = start /\ job'.row.end = end
        /\ job'.row.sealed = due /\ job'.row.prev = job.row.prev
    BY <1>4 DEF ReadEvents
  <2>2. start \in 0..MaxClock /\ end \in Times
    BY JobFields
  <2>3. \A a \in Checkpoints : a.end <= start
    <3>1. job.pc = "reading"
      BY DEF ReadEvents
    <3> QED BY <3>1 DEF JobWorksOnNext, JobCovers, CheckpointsCover, Covers
  <2>4. /\ due \subseteq Events
        /\ \A e \in due : \E row \in Rows : row.event = e /\ start < row.created /\ row.created <= end
        /\ \A row \in Rows : start < row.created /\ row.created <= end => row.event \in due
    BY <2>2, DueType
  <2>5. \A e \in due : tx[e].pc = "committed" /\ start < tx[e].created /\ tx[e].created <= end
    BY <2>4 DEF RowsAreCommitted
  <2> HIDE DEF due
  <2>6. start < end
    BY <1>4, <2>2, <2>4, RowsType DEF EventRow, Times
  <2>7. JobCovers'
    BY <1>2, <1>4, <2>1, <2>5, <2>6 DEF JobCovers, Covers
  <2>8. Checkpoints' = Checkpoints /\ Rows' = Rows
    BY <1>2, InsertsUntouched, CheckpointsUntouched
  <2>9. Follows(job.row)
    BY DEF ReadEvents, JobWorksOnNext
  <2>10. JobWorksOnNext'
    BY <2>1, <2>3, <2>8, <2>9 DEF JobWorksOnNext, Follows
  <2>11. ASSUME NEW row \in Rows, row.created <= end
         PROVE  \/ row.event \in late \cup due
                \/ \E a \in Checkpoints : row.event \in a.sealed
    <3>1. CASE start < row.created
      BY <2>4, <2>11, <3>1
    <3>2. CASE ~(start < row.created)
      <4>1. row.created \in Times /\ row.created <= start /\ start # 0
        BY <2>2, <3>2, RowsType DEF EventRow, Times
      <4>2. \E b \in Checkpoints : b.end = start
        BY <2>9, <4>1 DEF Follows
      <4> QED BY <4>1, <4>2 DEF SealedUnlessLate
    <3> QED BY <3>1, <3>2
  <2>12. JobSealsUnlessLate'
    BY <1>2, <2>1, <2>8, <2>11 DEF JobSealsUnlessLate
  <2> QED BY <1>1, <1>2, <2>7, <2>10, <2>12, InsertsUntouched, CheckpointsUntouched
<1> QED BY <1>3, <1>4

(* The insert of a checkpoint, or the second insert of the same one.       *)
LEMMA SealStep ==
  ASSUME IInv, NEW answered \in BOOLEAN, Seal(answered)
  PROVE  IInv'
<1> USE DEF IInv
<1>1. TypeOK'
  BY TypeStep DEF Next, JobNext
<1>2. /\ UNCHANGED <<clock, tx, lock, head, log, late>>
      /\ job.pc = "inserting" /\ job'.row = job.row /\ job'.pc \in {"inserting", "idle"}
  BY RetryType, JobFields DEF Seal, TypeOK, Job
<1>3. Checkpoints' = Checkpoints \cup {job.row} /\ Rows' = Rows
  <2>1. audit' = Append(audit, job.row)
    BY DEF Seal
  <2> QED BY <1>2, <2>1, JobFields, AppendedCheckpoint, InsertsUntouched
<1>4. /\ \A a \in Checkpoints : a = job.row \/ a.end <= job.row.start
      /\ Follows(job.row) /\ Covers(job.row)
  BY <1>2 DEF JobWorksOnNext, JobCovers
<1>5. PeriodsDisjoint'
  BY <1>3, <1>4 DEF PeriodsDisjoint
<1>6. CheckpointsCover' /\ JobCovers'
  BY <1>2, <1>3, <1>4 DEF CheckpointsCover, JobCovers, Covers
<1>7. CheckpointsChain'
  BY <1>3, <1>4 DEF CheckpointsChain, Follows, Covers
<1>8. JobWorksOnNext'
  BY <1>2, <1>3, <1>4 DEF JobWorksOnNext, Follows
<1>9. SealedUnlessLate'
  <2>1. ASSUME NEW row \in Rows, row.created <= job.row.end
        PROVE  row.event \in late \/ \E a \in Checkpoints' : row.event \in a.sealed
    BY <1>2, <1>3, <2>1 DEF JobSealsUnlessLate
  <2> QED BY <1>2, <1>3, <2>1 DEF SealedUnlessLate
<1>10. JobSealsUnlessLate'
  BY <1>2, <1>3 DEF JobSealsUnlessLate
<1> QED BY <1>1, <1>2, <1>5, <1>6, <1>7, <1>8, <1>9, <1>10, InsertsUntouched

(* A lost insert, a failed job, a tick: nothing new to cover.              *)
LEMMA QuietStep ==
  ASSUME IInv, SealLost \/ JobFails \/ Tick \/ UNCHANGED vars
  PROVE  IInv'
<1> USE DEF IInv
<1>1. TypeOK'
  BY TypeStep DEF Next, JobNext
<1>2. /\ UNCHANGED <<tx, lock, head, log, audit, late>>
      /\ job'.row = job.row /\ job'.pc \in {job.pc, "idle"}
  BY RetryType DEF SealLost, JobFails, Tick, vars, TypeOK, Job
<1>3. Rows' = Rows /\ Checkpoints' = Checkpoints
  BY <1>2 DEF Rows, Checkpoints
<1>4. LinearChain' /\ LockGuardsHead' /\ RowsAreCommitted'
  BY <1>2, <1>3 DEF LinearChain, LockGuardsHead, RowsAreCommitted
<1>5. PeriodsDisjoint' /\ CheckpointsCover' /\ CheckpointsChain' /\ SealedUnlessLate'
  BY <1>2, <1>3 DEF PeriodsDisjoint, CheckpointsCover, Covers, CheckpointsChain, SealedUnlessLate
<1>6. JobWorksOnNext' /\ JobCovers'
  BY <1>2, <1>3 DEF JobWorksOnNext, Follows, JobCovers, Covers
<1>7. JobSealsUnlessLate'
  BY <1>2, <1>3 DEF JobSealsUnlessLate
<1> QED BY <1>1, <1>4, <1>5, <1>6, <1>7

LEMMA IStep ==
  ASSUME IInv, [Next]_vars
  PROVE  IInv'
BY OpenStep, CommitStep, ReadLastStep, ReadEventsStep, SealStep, QuietStep
   DEF Next, JobNext, InsertNext

(* The inductive invariant holds in every reachable state.                 *)
THEOREM InductiveInvariant == Spec => []IInv
BY IInit, IStep, PTL DEF Spec

(* However many inserts run at once, the rows form one chain.              *)
THEOREM ChainIsLinear == Spec => []LinearChain
<1>1. IInv => LinearChain
  BY DEF IInv
<1> QED BY <1>1, InductiveInvariant, PTL

(* Checkpoints that share an event are copies: a.start < created <= a.end  *)
(* places an event in one of the disjoint periods.                         *)
THEOREM SealedOnce == Spec => []SealedInOnePeriod
<1>1. ASSUME IInv PROVE SealedInOnePeriod
  <2>1. ASSUME NEW a \in Checkpoints, NEW b \in Checkpoints, NEW e \in a.sealed \cap b.sealed
        PROVE  a = b
    <3>1. /\ a.end \in Nat /\ a.start \in Nat /\ b.end \in Nat /\ b.start \in Nat
          /\ tx[e].created \in Nat
      BY <1>1, <2>1, RowsType DEF IInv, TypeOK, Checkpoint, Times
    <3>2. /\ a.start < tx[e].created /\ tx[e].created <= a.end
          /\ b.start < tx[e].created /\ tx[e].created <= b.end
      BY <1>1, <2>1 DEF IInv, CheckpointsCover, Covers
    <3> QED BY <1>1, <2>1, <3>1, <3>2 DEF IInv, PeriodsDisjoint
  <2> QED BY <2>1 DEF SealedInOnePeriod
<1> QED BY <1>1, InductiveInvariant, PTL

(* Every checkpoint names the digest of the one before its period.         *)
THEOREM CheckpointsAreChained == Spec => []CheckpointsChain
<1>1. IInv => CheckpointsChain
  BY DEF IInv
<1> QED BY <1>1, InductiveInvariant, PTL

(* Only an insert committed after a job had read past it can be missed.    *)
THEOREM MissedOnlyIfLate == Spec => []SealedUnlessLate
<1>1. IInv => SealedUnlessLate
  BY DEF IInv
<1> QED BY <1>1, InductiveInvariant, PTL
=============================================================================

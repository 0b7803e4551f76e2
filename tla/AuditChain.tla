----------------------------- MODULE AuditChain -----------------------------
(***************************************************************************)
(* The tamper-evident log of one workspace: inserts into `events`, each a  *)
(* transaction whose trigger chains the row to the workspace's head        *)
(* (supabase/schema.sql), and the daily job that seals the rows since the  *)
(* last checkpoint into `audit_chain` (worker/tasks.py).                   *)
(*                                                                         *)
(* SHA-256 is taken to be free of collisions, so a digest is represented   *)
(* by what it seals: the row_hash of a row by the event, a checkpoint_hash *)
(* by its set of events. Workspaces share neither heads nor checkpoints,   *)
(* so one is enough.                                                       *)
(***************************************************************************)
EXTENDS Naturals, Sequences

CONSTANTS
  Events,          \* inserts into `events`
  Genesis,         \* the head of an empty chain, sixty-four zeros
  InsertAttempts,  \* run_db's `attempts` for the insert of a checkpoint
  MaxClock         \* bound on the clock

ASSUME GenesisAssumption == Genesis \notin Events
ASSUME InsertAttemptsAssumption == InsertAttempts \in Nat \ {0}
ASSUME MaxClockAssumption == MaxClock \in Nat \ {0}

VARIABLES
  clock,  \* now(), of the database and of the worker
  tx,     \* the insert transaction of an event
  lock,   \* the transactions that hold the row lock on the chain head
  head,   \* workspace_chain_heads.last_hash, as committed
  log,    \* the rows of `events` in the order they were committed
  job,    \* compute_audit_checkpoints, at this workspace
  audit,  \* the rows of audit_chain in the order they were inserted
  late    \* history: events committed when a job had read past created_at

vars == <<clock, tx, lock, head, log, job, audit, late>>

Times == 1..MaxClock
EventRow == [event : Events, created : Times, prev : Events \cup {Genesis}]

(* period_start, period_end, what event_count and checkpoint_hash cover,   *)
(* and prev_checkpoint_hash, which is {} for GENESIS_HASH.                 *)
Checkpoint == [start : 0..MaxClock, end : Times, sealed : SUBSET Events,
               prev : SUBSET Events]

Job == [pc : {"idle", "reading", "inserting"}, attempt : 1..InsertAttempts,
        row : Checkpoint]

Rows == {log[i] : i \in DOMAIN log}
Committed == {row.event : row \in Rows}
Checkpoints == {audit[i] : i \in DOMAIN audit}

TypeOK ==
  /\ clock \in Times
  /\ tx \in [Events -> [pc : {"new", "open", "chained", "committed", "aborted"},
                        created : Times, prev : Events \cup {Genesis}]]
  /\ lock \in SUBSET Events
  /\ head \in Events \cup {Genesis}
  /\ log \in Seq(EventRow)
  /\ job \in Job
  /\ audit \in Seq(Checkpoint)
  /\ late \in SUBSET Events

Init ==
  /\ clock = 1
  /\ tx = [e \in Events |-> [pc |-> "new", created |-> 1, prev |-> Genesis]]
  /\ lock = {}
  /\ head = Genesis
  /\ log = <<>>
  /\ job = [pc |-> "idle", attempt |-> 1,
            row |-> [start |-> 0, end |-> 1, sealed |-> {}, prev |-> {}]]
  /\ audit = <<>>
  /\ late = {}

Tick ==
  /\ clock < MaxClock
  /\ clock' = clock + 1
  /\ UNCHANGED <<tx, lock, head, log, job, audit, late>>

-----------------------------------------------------------------------------
(* INSERT INTO events, with the trigger events_chain_hash.                 *)

(* created_at defaults to now(): the time the transaction started.         *)
Begin(e) ==
  /\ tx[e].pc = "new"
  /\ tx' = [tx EXCEPT ![e] = [pc |-> "open", created |-> clock, prev |-> Genesis]]
  /\ UNCHANGED <<clock, lock, head, log, job, audit, late>>

ReadHead(e) ==
  /\ tx[e].pc = "open"
  /\ lock' = lock \cup {e}
  /\ tx' = [tx EXCEPT ![e] = [pc |-> "chained", created |-> tx[e].created, prev |-> head]]
  /\ UNCHANGED <<clock, head, log, job, audit, late>>

\* Mutant of LockHead: the select without "for update".
ReadHeadUnlocked(e) == ReadHead(e)

(* select last_hash ... for update: waits for the transaction that has it. *)
LockHead(e) == lock = {} /\ ReadHead(e)

(* Whether a job that has read the log, or a checkpoint, covers time t.    *)
ReadPast(t) ==
  \/ \E a \in Checkpoints : t <= a.end
  \/ job.pc = "inserting" /\ t <= job.row.end

(* The commit makes the row and the new head visible and frees the lock.   *)
Commit(e) ==
  /\ tx[e].pc = "chained"
  /\ log' = Append(log, [event |-> e, created |-> tx[e].created, prev |-> tx[e].prev])
  /\ head' = e
  /\ lock' = lock \ {e}
  /\ tx' = [tx EXCEPT ![e].pc = "committed"]
  /\ late' = IF ReadPast(tx[e].created) THEN late \cup {e} ELSE late
  /\ UNCHANGED <<clock, job, audit>>

Abort(e) ==
  /\ tx[e].pc \in {"open", "chained"}
  /\ tx' = [tx EXCEPT ![e].pc = "aborted"]
  /\ lock' = lock \ {e}
  /\ UNCHANGED <<clock, head, log, job, audit, late>>

-----------------------------------------------------------------------------
(* compute_audit_checkpoints.                                              *)

Start(last) ==
  /\ job.pc = "idle"
  /\ job' = [pc |-> "reading", attempt |-> 1,
             row |-> [start |-> last.end, end |-> clock, sealed |-> {},
                      prev |-> last.sealed]]
  /\ UNCHANGED <<clock, tx, lock, head, log, audit, late>>

NoCheckpoint == [end |-> 0, sealed |-> {}]

\* Mutant of ReadLast: the hash of the last checkpoint is not selected.
ReadLastForgetHash ==
  IF audit = <<>> THEN Start(NoCheckpoint)
                  ELSE \E a \in Checkpoints :
                         /\ \A b \in Checkpoints : b.end <= a.end
                         /\ Start([NoCheckpoint EXCEPT !.end = a.end])

(* The latest checkpoint: order by period_end, descending, limit 1.        *)
ReadLast ==
  IF audit = <<>> THEN Start(NoCheckpoint)
                  ELSE \E a \in Checkpoints : (\A b \in Checkpoints : b.end <= a.end) /\ Start(a)

\* Mutant of Due: both bounds belong to the period.
DueInclusive(start, end) ==
  {row.event : row \in {x \in Rows : start <= x.created /\ x.created <= end}}

\* Mutant of Due: the end does not belong to the period.
DueExclusive(start, end) ==
  {row.event : row \in {x \in Rows : start < x.created /\ x.created < end}}

(* The committed rows of the period: gt period_start, lte period_end.      *)
Due(start, end) ==
  {row.event : row \in {x \in Rows : start < x.created /\ x.created <= end}}

(* A workspace without new events gets no checkpoint.                      *)
ReadEvents ==
  /\ job.pc = "reading"
  /\ LET due == Due(job.row.start, job.row.end)
     IN job' = IF due = {} THEN [job EXCEPT !.pc = "idle"]
               ELSE [pc |-> "inserting", attempt |-> 1,
                     row |-> [start |-> job.row.start, end |-> job.row.end,
                              sealed |-> due, prev |-> job.row.prev]]
  /\ UNCHANGED <<clock, tx, lock, head, log, audit, late>>

\* Mutant of Retry: one attempt too many.
RetryOnceMore ==
  job' = IF job.attempt <= InsertAttempts THEN [job EXCEPT !.attempt = @ + 1]
                                          ELSE [job EXCEPT !.pc = "idle"]

(* run_db after a transport error.                                         *)
Retry ==
  job' = IF job.attempt < InsertAttempts THEN [job EXCEPT !.attempt = @ + 1]
                                         ELSE [job EXCEPT !.pc = "idle"]

Seal(answered) ==
  /\ job.pc = "inserting"
  /\ audit' = Append(audit, job.row)
  /\ IF answered THEN job' = [job EXCEPT !.pc = "idle"] ELSE Retry
  /\ UNCHANGED <<clock, tx, lock, head, log, late>>

SealLost ==
  /\ job.pc = "inserting"
  /\ Retry
  /\ UNCHANGED <<clock, tx, lock, head, log, audit, late>>

(* A database error or the death of the worker ends the job.               *)
JobFails ==
  /\ job.pc # "idle"
  /\ job' = [job EXCEPT !.pc = "idle"]
  /\ UNCHANGED <<clock, tx, lock, head, log, audit, late>>

-----------------------------------------------------------------------------
InsertNext(e) == Begin(e) \/ LockHead(e) \/ Commit(e) \/ Abort(e)

JobNext ==
  \/ ReadLast
  \/ ReadEvents
  \/ \E answered \in BOOLEAN : Seal(answered)
  \/ SealLost
  \/ JobFails

Next == Tick \/ JobNext \/ \E e \in Events : InsertNext(e)

(* The cron fires every day. A job may fail any number of times, but one   *)
(* that gets as far again and again reads the log, and writes, at last.    *)
Fairness ==
  /\ WF_vars(ReadLast)
  /\ SF_vars(ReadEvents)
  /\ SF_vars(\E answered \in BOOLEAN : Seal(answered))

Spec == Init /\ [][Next]_vars
FairSpec == Spec /\ Fairness

-----------------------------------------------------------------------------
(* Properties.                                                             *)

(* The rows form one chain without a fork, however many inserts run at     *)
(* once: each row's prev_hash is the row_hash committed just before it,    *)
(* and the head is the last of them. This is what the row lock is for.     *)
LinearChain ==
  /\ \A i \in 1..Len(log) : log[i].prev = IF i = 1 THEN Genesis ELSE log[i - 1].event
  /\ head = IF log = <<>> THEN Genesis ELSE log[Len(log)].event

(* An event belongs to one period: checkpoints that share an event are     *)
(* copies of one another (a retried insert leaves such copies).            *)
SealedInOnePeriod ==
  \A a, b \in Checkpoints : a.sealed \cap b.sealed # {} => a = b

(* Checkpoints chain: each one but the first names the digest of the one   *)
(* whose period ended where its own begins.                                *)
CheckpointsChain ==
  \A a \in Checkpoints :
    IF a.start = 0 THEN a.prev = {}
    ELSE \E b \in Checkpoints : b.end = a.start /\ b.sealed = a.prev /\ b.end < a.end

(* The log up to the last period_end is sealed, but for events whose       *)
(* insert was committed after a job had read past their created_at.        *)
SealedUnlessLate ==
  \A row \in Rows :
    (\E a \in Checkpoints : row.created <= a.end) =>
      row.event \in late \/ \E a \in Checkpoints : row.event \in a.sealed

(* The inductive invariant behind them. The holder of the row lock has     *)
(* read the head as it is; a committed row's event is done; checkpoints    *)
(* cover disjoint periods and what they seal was created in them; and the  *)
(* job works on the period after the last checkpoint, or on a copy of it.  *)
LockGuardsHead ==
  /\ \A e \in Events : tx[e].pc = "chained" <=> e \in lock
  /\ \A e, f \in lock : e = f
  /\ \A e \in lock : tx[e].prev = head

RowsAreCommitted ==
  \A row \in Rows : tx[row.event].pc = "committed" /\ tx[row.event].created = row.created

Covers(a) ==
  /\ a.start < a.end
  /\ a.sealed # {}
  /\ \A e \in a.sealed : tx[e].pc = "committed" /\ a.start < tx[e].created /\ tx[e].created <= a.end

Follows(a) ==
  IF a.start = 0 THEN a.prev = {}
  ELSE \E b \in Checkpoints : b.end = a.start /\ b.sealed = a.prev

PeriodsDisjoint ==
  \A a, b \in Checkpoints : a = b \/ a.end <= b.start \/ b.end <= a.start

CheckpointsCover == \A a \in Checkpoints : Covers(a)

JobWorksOnNext ==
  job.pc # "idle" => /\ \A a \in Checkpoints : a = job.row \/ a.end <= job.row.start
                     /\ Follows(job.row)

JobCovers ==
  /\ job.pc = "reading" => job.row.sealed = {}
  /\ job.pc = "inserting" => Covers(job.row)

JobSealsUnlessLate ==
  job.pc = "inserting" => \A row \in Rows : row.created <= job.row.end =>
    \/ row.event \in late \cup job.row.sealed
    \/ \E a \in Checkpoints : row.event \in a.sealed

IInv ==
  /\ TypeOK
  /\ LinearChain
  /\ LockGuardsHead
  /\ RowsAreCommitted
  /\ PeriodsDisjoint
  /\ CheckpointsCover
  /\ CheckpointsChain
  /\ JobWorksOnNext
  /\ JobCovers
  /\ SealedUnlessLate
  /\ JobSealsUnlessLate

(* An event that was not late is sealed some day, however often jobs fail. *)
EventuallySealed ==
  \A e \in Events :
    (e \in Committed /\ e \notin late) ~> (\E a \in Checkpoints : e \in a.sealed)
=============================================================================

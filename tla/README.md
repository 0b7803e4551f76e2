# Tracyn in TLA+

A verification project for Tracyn, an audit log with human approvals for AI
agents. The backend's core and the dashboard are modelled in TLA+, one module
per component, model-checked with TLC on small instances; eight of the
modules come with theorems that TLAPS proves for all instances. Paths below are
relative to the repository's root (`src/` in PROJECT.json's references).

    tlc -workers 2 -config approvals_race.cfg MCApprovals     # any run of the table below
    tlapm ApprovalsProofs.tla                                 # any of the *Proofs modules

PROJECT.json holds the same facts for tools: components, runs, the lines each
definition models ("map"), the hazards with the properties that watch them, the
disagreements between code and documentation ("findings"), the theorems, and,
for each property, mutations of the code that it catches ("mutants").

## 1. The system

Tracyn's SDK (`sdk/tracyn`, Python, in the customer's process) wraps functions.
Each call is checked against a policy, may wait for a human's approval, and
is logged. The backend (`backend/app`) is a FastAPI process and an arq
worker around a Postgres database (Supabase) with Redis as the job queue. Humans
decide and configure through the dashboard (`dashboard`, Next.js), Slack and an
MCP server. Supabase Auth, Whop (payments), Slack and the query library of the
dashboard are external; what the code relies on of them is modelled where it matters.

In the single-container deployment (`backend/start.sh`) Redis, worker and API
start together, and Redis persists nothing. The API runs one event loop:
coroutines interleave at `await`s, database calls among them when they go through
`run_db`, and several API processes may run beside the worker. Everything
shared is in Postgres: each call to it is atomic, no two calls are. The worker
runs up to 20 jobs at once; arq repeats a job whose worker is stopped (a random
job id per enqueue, up to 5 tries), but none that raises or exceeds 300 s. Its
crons fire each minute (the sweep; a slow one overlaps the next) and once a day
(the checkpoints; these do not overlap).

The dashboard is one page at a time over a cache of queries. A query is fetched
when a page mounts it (if it is stale, or older than 30 s), polled, or
invalidated by a mutation; handlers close over what was rendered; the workspace
can be switched, the page left and the session ended while requests are under
way, and other people change the same rows.

| Component | State | Operations | Interacts with |
|---|---|---|---|
| Approval flow | `approvals` rows, Slack messages, SDK calls blocked on a row | request, poll, decide (dashboard, Slack, MCP), sweep of the expired | Slack, e-mail, event intake (the outcome is logged) |
| Event intake | `event_intake` rows, jobs in Redis, `events`, `agents` | POST /v1/events, `process_event_intake` | SDK queue, audit chain (the insert), approvals (`event_id`) |
| Audit chain | `events.prev_hash/row_hash`, `workspace_chain_heads`, `audit_chain` | the insert trigger, the daily checkpoint job | event intake |
| SDK event queue | in-memory queue, a daemon thread, `_stop`, `_closed` | put, flush loop, `flush`, `close` (also at exit) | POST /v1/events |
| Database access | none | `run_db`: three attempts after transport errors | everything in the backend |
| Billing | `subscriptions`, `workspaces.plan`; the page's message and its poll | checkout, Whop's webhooks, cancel | Whop; account deletion |
| Members, invites | `workspace_members`, `workspaces.owner_id`, `workspace_invites`, failed attempts; the pages | change role, remove, leave, transfer; set and reset link, password, code; join | sessions, account deletion |
| Account deletion | a request over all workspaces of the user | survey, cancel subscriptions, hand over, purge, delete | members, billing, Supabase Auth |
| OAuth provider | clients, consent requests and codes in memory; minted API keys; consent pages | register, authorize, consent, exchange | MCP server, members |
| Workspaces and session | the session cookie, localStorage, list of workspaces, the choice | sign in and out, first run, switch, create | every page |
| Signing in | accounts and mails (Supabase Auth), counts of mails | sign up, confirm, resend, sign in | session |
| Account cards, API keys | name and password; `api_keys` | edit, save; create, revoke | Supabase Auth; the SDK |
| Policies | `policies`; draft, proposals, query | edit, switch rules, save, draft with an assistant | SDK |
| Questionnaires | `questionnaires`, `answers`; pages | upload, process, review, approve all | worker, an LLM, home page |
| Inbox, timeline, SOC 2, home | queries and panels | open, filter, step, decide | approvals, the log |
| Policy engines, authentication, redaction, exports, MCP data API, integrations, CLI, public pages | none of their own | see PROJECT.json | |

### What is hard here, and what makes each component correct

* Approval flow: four kinds of processes write the same row; each does it in
  several calls. Correct: a call runs only after a human's approval of its own
  row, one decision wins, a denial is final, Slack does not lie, nobody
  waits for ever.
* Event intake: requests are repeated, inserts are repeated by `run_db`, jobs
  are delivered again, lost, or cut. Correct: a row is logged once, a 202 is
  kept, `done` is believable and `error` final, nothing gets stuck.
* Audit chain: concurrent inserts, a job that reads the log while inserts are
  open, repeated inserts into a table that is append-only. Correct: one chain
  without forks, disjoint periods, nothing left out.
* SDK queue: puts, the thread, `flush` and `close` of several threads, the
  end of the process. Correct: nothing is dropped in silence or overtaken;
  a call that returns means what it says.
* Billing: webhooks arrive out of order and again, and the handler awaits
  between what it reads and what it writes. Correct: the plan is the one paid for,
  every event is settled.
* Members and account deletion: every operation checks roles in one call and
  writes in another; deletion is a long sequence of which any step may fail.
  Correct: one owner, and what is given up is handed over or erased, billing first.
* Invites: links and passwords change while newcomers use them. Correct: a dead
  link lets nobody in; the card shows what is set; failed attempts are bounded.
* OAuth: check-then-act around memory that a restart forgets. Correct: a request
  is decided once; a refusal leaves no key.
* Dashboard: answers that are older than what the page did since. Correct: what a
  page shows is so or about to be fetched, and a handler acts on what was on screen.

"hazards" of PROJECT.json gives the line of each, and the property that
watches it.

## 2. Modules

| Module | Contents |
|---|---|
| `Approvals` | the approval flow |
| `ApprovalGate` | what it promises: at most one verdict per approval, release only on "granted" |
| `ApprovalsRefinement` | the refinement mapping from `Approvals` to `ApprovalGate` |
| `AuditChain` | the insert transactions, the daily job |
| `EventIntake` | from `_send_with_retry` to the insert into `events` |
| `SdkQueue` | the queue, its thread, `flush`, `close`, exit |
| `Billing` | checkouts, webhooks, subscriptions and the plan |
| `PolicyEditor` | the policy page over the policies of several workspaces |
| `Members` | Settings > Members in several browsers, over the API's calls |
| `Invites` | the invite card, join pages, and the API of both |
| `AccountDeletion` | the card and `delete_account`, call by call |
| `OAuth` | clients, consent pages in several tabs, decisions, codes, restarts |
| `Session` | cookie, list and choice of workspaces, first run, switcher, creation |
| `Login` | sign-up, confirmation, resending, sign-in, the limit of mails |
| `ApiKeys`, `AccountCards`, `BillingPage` | the other tabs of the settings |
| `ApprovalInbox` | the page of approvals |
| `EvidencePack`, `HomePage` | one questionnaire in full; several of them as rows |
| `Timeline`, `Soc2` | the pages over the log |
| `CommandPalette` | palette, navigation, drawer |
| `QueryCache` | an entry of the query cache, as operators on records |
| `MCConsole` | an instance of each of the dashboard's pages, one of which is looked at in a behaviour (`part`) |
| `MCRequests` | the same of joining, deleting an account, connecting, signing in, the browser's workspaces and the tab of keys: one goes on, the others rest, each with variables of its own |
| `MC...` | the others: symmetry sets, and what the .cfg files instantiate |
| `...Proofs` | the theorems about the specification, with their proofs; `RequestsProofs` and `ConsoleProofs` are of all the parts of `MCRequests` and `MCConsole` |

Conventions. Every call to the database, Redis, Slack or over HTTP is an action
of its own, and so is everything between two of them that another process may
observe. A record with a field `pc` stands for a coroutine, a job, a mutation or a
thread. A call whose answer is lost has two outcomes: it had its effect before
the error, or it has none (a call that takes effect later than its retry is not
modelled). What a caller does then is the code's: `run_db` tries again, other
code raises. A repeated insert may leave a copy (db.py:33): this is modelled for `approvals`,
`event_intake`, `audit_chain`, failed joins, verification mails and `answers`. An insert that a key
would refuse the second time (members, workspaces, agents, API keys) ends as a call that failed, the insert
of an event is made once (worker/tasks.py:72), and a repeated update by id, upsert or delete changes nothing more
unless somebody else wrote in between, which is not modelled.
Variables marked "history" are read by properties and, where they count,
by the bounds. Bounds of the runs are constants named `Max...`. Operators marked "Mutant
of" are the planted bugs of PROJECT.json; nothing in a specification uses them.

### Approvals

| Variable | In the code |
|---|---|
| `rows` | `approvals`: `status`, `decision_by` (`by`), whether `requested_action` was edited, whether `slack_message_ts` is set (`posted`). The n-th attempt of the insert makes row `<<c, n>>` |
| `expired` | calls whose `expires_at` is over |
| `msg` | what the row's Slack message shows |
| `handler` | the coroutine `request_approval` |
| `call` | `_request_approval_sync` (the async one is the same code) and the wrapper around it; `errors` is `consecutive_errors` |
| `decider` | coroutines in `apply_decision`: the SELECT, the UPDATE ... WHERE status = 'pending', the Slack update |
| `sweep` | runs of `sweep_expired_approvals`: the SELECT's result, the row being announced |

The SELECT and the UPDATE of a decision are `ReadApproval` and `Decide`; the
row may change in between, and the message is updated only if the row *read*
had its `ts`. The sweep's SELECT, its UPDATE by id for each row, and the Slack
and e-mail calls are `SweepSelect`, `SweepDeny`, `SweepTell`; `SweepAbort` is any exception,
`ApiCrash` the death of the API process. Left out: the e-mails, the contents of
an edit, the duration of the window.

### AuditChain

An insert is a transaction: `Begin` takes `created_at` (the default `now()` is
the time the transaction started), `LockHead` is the trigger's
`select ... for update`, `Commit` makes row and head visible at once. The job
is `ReadLast`, `ReadEvents` and `Seal`, at one workspace: workspaces share
neither heads nor checkpoints. Time is a bounded counter, so that rows, jobs and
periods can meet at the same instant. SHA-256 is taken to be free of collisions:
a digest is represented by what it seals. Left out: `purge_workspace`, the
triggers that refuse UPDATE and DELETE, and the order of rows within one digest.

### EventIntake

`sender`, `request`, `worker` are `_send_with_retry`, `ingest_event` and
`process_event_intake`; `intake`, `agent`, `logged`, `linked` the tables
`event_intake`, `agents`, `events` and `approvals.event_id`; `jobs` the arq queue. The
a-th POST of event e whose insert is tried the n-th time makes row `<<e, a, n>>`.
arq is modelled from how the code uses it: `Start` takes a job, `Stop` leaves it in
Redis (the worker is stopped), `Abandon` ends it without an answer (the job
timeout, or an exception outside the `try`), `End` removes it once the run has returned or raised (a worker stopped just before that leaves the job of a settled row), `Refuse` drops it before its first
write, `Restart` is the container's restart. Left out: the content of events (redaction and
classification may raise, that is all); the count behind the monthly limit, whose
answer is a choice in `Receive`.

### SdkQueue

The thread's loop condition is two actions, `CheckStop` and `CheckEmpty`, because
`_stop` may be set between its two reads. Every action needs `running`. The event it has taken is in `hand`
until it is sent or warned about: the queue is empty then. `flush` and `close`
return in time or because a deadline or the timeout of `join` has passed (`late`).
Puts are allowed at any time, after `close` too: no tracked call looks at `_closed`.
`Exit` ends the process, and the daemon thread with it.

### Billing

Whop's side is external: `Buy`, `Deactivate` and `Ends` make memberships and their
events, `Deliver` starts a run of `whop_webhook` for an event, in any order, again
until it is answered, one run per event at a time. `ReadOnFile`, `Cancel`,
`WriteSub`, `WritePlan`, `Answer` are the calls of a run, `Fails` any exception.
Whop may reject `Cancel` for any reason: the code passes over every `HTTPStatusError`
(billing.py:99-106), and the membership, if it was charged for, then is `spared`.
`orderly` records that runs did not overlap and came in Whop's order: what the
plan then is, is `PlanIsPaidFor`; what goes wrong otherwise is the run `billing_stale`.

### The dashboard's pages

A query is an entry of `QueryCache`: the last answer, whether it is stale, and the
request under way, "sent" until the API has read its answer and "read" until that
has arrived. `Mount`, `Fetch`, `Invalidate` are what the pages rely on of
@tanstack/react-query: in particular, invalidating drops a request under way unless it is
the first, which is joined. Answers are sets of at most one element
(`Maybe`), empty before they come.

A mutation is a record with the values its closure has; its actions are the click,
each call that the API makes for it, and the `onSuccess`/`onError` that runs if
the page is still there. Every control is guarded by what is rendered and
enabled. What other people do (`...Elsewhere`, `OtherReviews`, `Ends`, `Join`, `Race`) are
single steps on the database.

* `Members`: `call` is a request to change a role, remove, leave or transfer; the
  role of the caller, that of the other one, and the writes (three for a transfer)
  are `OwnRole`, `TheirRole`, `Write`, `SetOwnerId`, `Promote`, `Demote`. `alone` and `whole` say
  that requests did not overlap and no transfer broke off. Whoever lists the members is checked to be
  one in one call and the list read in another, so a list may lack its reader; then the page goes by the
  role in the list of workspaces, which may be any (`MyRoles`).
* `Invites`: codes and tokens are numbers never used before. A tab's join goes through
  `FindInvite`, `CheckMember`, `CountAttempts`, then `RecordAttempt` or `InsertMember`; `JoinBreaks` is any
  of the reads raising. A failure may be recorded several times, or not at all, as its insert is repeated.
* `AccountDeletion`: one request, repeated after failures: `FindOwned`, `Successors`,
  `ReadSubscription` and `CancelSubscription`, `SetOwnerId`, `SetRole`, `Purge`, `DeleteUser`, each of which may be
  cut by `Breaks`. Of the memberships that are charged for, only the one on file, and not marked as ended
  there, is cancelled (`filed`, `found`). `Join` and `Leave` are other people, `Files` is the webhook of `Billing`.
* `OAuth`: the server's memory and the tabs; `Restart` empties the memory, `Age` and
  `CodeExpires` are the clock. The order of `Mint` and `Complete` is the code's.
* `Login`: a view that is left while it signs in goes on as an `orphan`, and takes the tab along when it
  is done (login-view.tsx:108, 125); one such sign-in is kept at a time, a bound.
* `Timeline`: an event is its place in the chain; what the API calls newest goes by `created`, the order in which
  the transactions of the inserts began, which may be another.
* `EvidencePack`, `HomePage`: an answer may be inserted more than once (`repeats`), and a job whose worker is stopped is
  run again from its first question, even if the update that made the pack ready has already been made
  (`WorkerRestarts`, `RunAgain`; tasks.py:158 looks at no status). `trouble`, `reopened` record the latter.
* `Session`, `ApiKeys`, `AccountCards`, `BillingPage`, `ApprovalInbox`, `Soc2`, `CommandPalette`,
  `PolicyEditor`: each module's header says what it abstracts. Texts are numbers or model
  values, names and colours are left out, a filter is the set of kinds it lets through.
  In `EvidencePack` the index of the question shown is the code's plus one: a key pressed while
  there are no answers takes the code's to -1 (evidence-view.tsx:198), here `StepInVain(0)`, and none
  is shown until a key or the list leads on.

## 3. Runs

Distinct states are of the complete search; a violation stops at the first.

| Run | Instance | Checks | States |
|---|---|---|---|
| `approvals_race` | 1 call, 2 decisions, 2 sweeps, 1 insert attempt, 2 poll errors; symmetric | `TypeOK`, `OneDecisionLands`, `StatusExplained`, `DeniedStaysDenied` | 258,013 |
| `approvals_calls` | 1 call, 1 decision, 1 sweep, 2 insert attempts; fair | `RunsOnlyIfApproved`, `SlackTellsTheTruth`, `ImplementsGate`, `PendingIsResolved`, `CallsReturn` | 125,570 |
| `chain_seal` | 3 inserts, 3 instants, 2 insert attempts; fair | `TypeOK`, `LinearChain`, `SealedInOnePeriod`, `CheckpointsChain`, `SealedUnlessLate`, `EventuallySealed` | 247,220 |
| `intake_rows` | 1 event, 2 POSTs, 2 insert attempts, 2 tries; fair | `TypeOK`, `LoggedOncePerRow`, `DoneIsRecorded`, `AcceptedIsPending`, `ErrorIsFinal`, `SettlesUnlessInterrupted` | 417,286 |
| `queue_close` | 3 events, 2 calls of flush or close, 2 attempts; fair | `TypeOK`, `NothingVanishes`, `CloseDrains`, `FlushLeavesOne`, `EventsAreReported` | 371,823 |
| `billing` | 2 memberships, any number of deliveries, 1 failure, cancellations that Whop rejects; fair | `PlanIsPaidFor`, `EventsSettle` | 1,381,865 |
| `policy_edit` | 2 workspaces, 1 rule, 1 save of the page and 1 elsewhere, 1 turn with the assistant; symmetric | `SavedIsShown`, `EditorIsOfWorkspace`, `RefetchKeepsTyping` | 2,496,478 |
| `requests` | what takes several calls, one at a time: joining (2 pages while the card rests, 1 while links change; 3 new codes or tokens, limit of 1 failed attempt, 2 insert attempts), deleting an account (2 workspaces, 2 others, 2 memberships each, 2 moves), connecting (1 request, 2 tabs, 2 keys), signing in (limit of 2 mails, 4 asked for, 1 sign-in whose view was left), a browser (2 users, 2 workspaces, 2 changes), the tab of keys (2 keys, 2 workspaces) | `DeadLinksStayOut`, `AttemptsBounded`, `CardIsCurrent`, `RequestsEndAsPromised` | 3,560,875 |
| `console` | each of the other parts of the dashboard, one at a time: two of everything; 2 insert attempts | `PartTypeOK`, `OneOwnerUnlessTroubled`, `OwnChangesAreShown`, `PagesTellTheTruth`, `StepsDoAsAsked` | 2,994,996 |

What they show. The approval runs: no order of requests, retries, decisions, sweeps
and crashes lets a call run without its approval, a second decision land, or a
denial turn; and every row is settled in the end although sweeps fail. `chain_seal`:
the log is one chain whatever the inserts do, and only a row whose insert was open
while the job read stays out of the seals. `intake_rows` and `queue_close`: at-least-once
delivery ends in at most one log entry per row, and `close` drains. `billing`: as
long as runs of the webhook do not overlap and come in order, the plan is that of
the membership on file, and only memberships that Whop would not cancel are paid for besides;
and every event is settled. `policy_edit`: the editor never shows one
workspace's text as another's, a saved text is shown, a refetch does not replace
what is typed. `requests`: a link that was reset before the button was pressed lets
nobody in, failed attempts exceed their limit by no more than those that overlapped, the card
shows what is set, and a deletion, a consent or a sign-up that is cut at any
call and tried again ends with one owner, what was on file no longer charged for, one decision, and
the page that was asked for;
the browser shows one of the user's workspaces, and a new key is shown or its answer was lost.

`requests` is the union of six independent systems and `console` of nine (`part` never
changes), as each alone has few states and the questions are the same. The conjuncts of their properties
are defined, and explained, in the parts' own modules:

* `OwnChangesAreShown`: `ListFollowsOwnChanges` (Members), `AnsweredIsNotPending`
  (ApprovalInbox), `ReviewsAreShown` (EvidencePack), `FieldIsSaved` (AccountCards). A page shows what it changed itself, once answered.
* `PagesTellTheTruth`: `OffersMatchRights` (Members), `LandsOnItsTab` (ApprovalInbox),
  `ReadyIsComplete` (EvidencePack), `RowsAreWhole` (HomePage), `UnlinkedFollowsOlder` and
  `MonthIsWhole` (Timeline), `EvidenceAddsUp` (Soc2), `ActivePlanWasReached` (BillingPage),
  `OneMatchIsHighlighted` (CommandPalette).
* `RequestsEndAsPromised`: `HandedOver` and `BillingEndsFirst` (AccountDeletion),
  `DecidedOnce` and `RefusalLeavesNoKey` (OAuth), `MailsBounded` and `ArrivesWhereHeaded` (Login),
  `ShownIsOnesOwn` and `SomethingIsShown` (Session), `KeysAreShownOnce` and `OwnChangesAreListed` (ApiKeys).
* `StepsDoAsAsked`: `NotesStayWithRequests` (ApprovalInbox), `TextsKept` (EvidencePack),
  `StepStays` (Timeline), `CurrentGiven` (AccountCards).

PROJECT.json lists a mutation of the code for each conjunct. The `TypeOK`s that no
run checks describe the variables for the reader; they are parts of the proved invariants (section 5).

The bounds. Two decisions and two sweeps are every pair of writers of a row; a
third of a kind adds no new pair, and rows of different calls share no state, so
one call is enough. Two insert attempts give the duplicate row that three would
give twice; two POSTs with two inserts each give four rows for one event, which share
the agent and the approval. Three inserts are one that holds the lock, one that waits
and one that arrives late; three instants are a checkpoint, the one after it and an
insert open across both. The SDK's limits (5 poll errors, client.py:28, and 3 attempts) are 2 in the
runs: below the limit, and at it. Two memberships are the one on file and the one that
supersedes it. Two workspaces are the one shown and the one switched to; two
rows, keys, requests or answers are the one at hand and its neighbour; three members
are an owner, an admin and a plain member, so that every control has somebody to be used on;
two requests under way are a check and the write of another between its read and its write.
Three new codes are two changes of a link around a join, and one of its token. Two join pages are two
counts before either records: they meet while the card rests (`CardRestsOrOnePage`), and one meets the
changes of the card. That `AttemptsBounded` is overrun only by as many as record at once is the
theorem `AttemptsAreBounded`, for any number of pages and of insert attempts. Two memberships of
a workspace are the one on file and one that is charged for besides; both are charged for at first
(`AllCharged`). Two insert attempts leave the copy that the first one's lost answer
makes. Of runs of a job once more, repeated inserts and reviews a pack sees three in all, and two
once there is trouble; one event is removed; one questionnaire of the rows at a time has copies
or is reopened (`MishapsAreFew`): each is one step that everything else may follow. No job of
`HomePage` is run again that has drafted `MaxDrafted` answers.
`OAuth` has one request and two tabs that decide it; the theorems are for any.
`CHECK_DEADLOCK FALSE` is set everywhere: a run of any of these models ends when every
call has returned, every row is settled and every bound is used up.

### Disagreements between the code and what the repository says

Each run has one property that states the quoted sentence, and TLC refutes it:

| Run | Sentence | What happens |
|---|---|---|
| `approvals_sweep` | test_approvals_service.py:111 "The first decision must stand" | the sweep updates by id alone (worker/tasks.py:119) a row that was approved after its SELECT |
| `billing_stale` | routers/billing.py:114 a deactivation of a superseded membership "is stale and must be a no-op" | it reads the membership on file before the newer one's activation is written, and writes after: the newer plan is lost |
| `account_purge` | settings-view.tsx:332 "erase every workspace only you are in" | somebody joins after the survey; nothing looks again before the purge (account.py:151) |

Others are seen in the models and need no run of their own. In the core:

* the status endpoint does not return an edited action, the call runs unedited
  (sdk/README.md:22 "approves/rejects/edits it");
* a row whose insert was open while the job read the log is in a sealed period and never
  sealed (soc2_controls.py:130 "let an auditor verify the whole log"): `SealedUnlessLate` is the exception;
* a worker that dies after marking its row leaves it so, as the redelivered job returns
  at the check (test_worker_tasks.py:459 'Never left stuck on "processing"');
* a restart empties Redis, and nothing enqueues the queued rows again (start.sh:7 "durable
  state lives in Supabase");
* two runs create the same new agent, and the slower one's event ends in error;
* `flush` (client.py:147 "Blocks until queued events are sent") waits for an empty queue
  while the last event is still being sent: `FlushLeavesOne`;
* a decision taken before the Slack message's `ts` is stored leaves live-looking buttons, and
  a checkpoint whose insert was answered too late is stored twice (worker/tasks.py:261), an action
  whose POST was is logged twice (client.py:130).

In workspaces, billing and OAuth:

* the three inserts of a new workspace do not "stay atomic" (workspaces.py:35): a failure
  between them leaves a workspace without member or policy, which `Session` has;
* two overlapping approvals of one consent request both mint a key, and the loser's stays active
  (oauth.py:83 calls the branch "vanishingly unlikely"); `DecidedOnce` is about what clients get;
* a key whose creation was not answered is active and was never shown;
* the message after a payment is confirmed by the plan of whatever workspace is shown;
* a cancellation that Whop rejects, for whatever reason, is passed over: both memberships stay charged for
  (billing.py:99-106);
* a membership that is not on file, or marked as ended there, is charged for after its workspace was erased
  (account.py:119-131);
* a failed join may be recorded more than once, or not at all (members.py:371 over db.py:33);
* a sign-in whose view was left takes the tab along later (login-view.tsx:108, 125).

On the pages:

* a whole-text PUT of the policy overwrites rules that others saved since it was
  read; what is typed between Save and the refetch is lost; a switch can be flipped while the
  newly chosen workspace's policy still loads;
* a first fetch that is under way when its query is invalidated is joined, not
  repeated, so an older answer can pass for a fresh one until the next poll;
* a list of workspaces that failed to load shows the first run (shell.tsx:83), and a
  query of requests that failed shows "Nothing is waiting on you" (home-view.tsx:94);
* a pack whose answers failed to load shows 0/0 approved (home-view.tsx:227), and a pack opened with the down key
  pressed before its answers came shows none of them until a question is chosen (evidence-view.tsx:198);
* a question may be answered twice in a ready pack, after a repeated insert (tasks.py:198), and a job that is
  run again adds answers to a pack that is ready (tasks.py:158);
* of inserts that overlap, an event may be on the page without the one before it, so that more than one shows no
  link (events.py:45, timeline-view.tsx:65);
* a list of members read just after one's own removal leaves the page with one's former role (members-view.tsx:27);
* events of the month are counted among the latest 200 (data.ts:28), so that "Over your plan limit"
  (settings-view.tsx:870) cannot show for events; the bar of outcomes leaves out `denied_timeout`
  (home-view.tsx:295-298), which the counts have (home-view.tsx:63).

## 4. Fairness

* `Approvals`: the HTTP client's timeout ends a request, the clock reaches
  `expires_at`, the SDK polls every two seconds and each poll is answered or not
  (weak fairness of the disjunction: nothing says a poll ever succeeds), arq starts the
  sweep each minute. A sweep may fail at any row, but not for ever at the same:
  strong fairness of `SweepDeny`. No human is assumed to decide.
* `AuditChain`: the cron fires daily (weak fairness of `ReadLast`); a job may
  fail any number of times, but one that reaches the read, or the insert,
  again and again succeeds some day (strong fairness). `EventuallySealed`
  rests on that, as no retry in the code does more than postpone. The clock is not
  fair, and needs none: a period may end at the instant an event was created.
* `EventIntake`: the worker's event loop runs on and takes jobs while there are
  any; a run proceeds or raises. Nothing keeps requests, POSTs or restarts going.
* `SdkQueue`: the thread is scheduled and its requests time out; puts and
  closers owe nothing.
* `Billing`: Whop delivers an event until it is answered (weak fairness of
  `Deliver`, over all outstanding ones: it may prefer any), and a run of the webhook goes
  on: its calls return or raise. Failures are bounded.
* The pages of the dashboard have no fairness, and no liveness property: a user may leave
  at any time, and a poll repairs what an answer left stale.

## 5. Proofs

Every theorem is checked by TLAPS to the last leaf, for any number of calls,
decisions, sweeps, events, attempts and closers, from the constants' assumptions
stated in the modules (limits are positive, `Genesis` and `NoRow` are no events or
rows, `MaxClock` is positive). No set is assumed finite but
what is counted: the join pages of `Invites` and the requests for mails of `Login`. An invariant `Inv` or `IInv` is shown to hold
initially and to survive every step, one lemma per group of actions, and implies the rest.

* `ApprovalsProofs`: `TypeCorrect`, `OneWinner`, `StatusIsExplained`,
  `NoRunWithoutApproval`, `SlackIsTruthful`, `DenialIsFinal`, `Refinement`. The safety
  properties are not inductive: a decision lands only on a pending row, so
  that nobody has landed there before must be known of pending rows
  (`StatusExplained`, third conjunct); the row a retry creates must be absent,
  or an insert would reset a decided row to pending (`InsertsFresh`); what the sweep
  works on is expired and what it announces is denied (`SweepsExpired`); what a
  decider announces has landed (`NotifiesLanded`). `IInv` is their conjunction, one lemma
  per process shows that its steps preserve it. `Refinement` maps each step
  under `IInv` to a step of `ApprovalGate` or a stutter. The sweep that overwrites a
  decision is a stutter: the verdict is the decision that landed.
* `AuditChainProofs`: `TypeCorrect`, `ChainIsLinear`, `SealedOnce`,
  `CheckpointsAreChained`, `MissedOnlyIfLate`. The invariant adds that the lock's only
  holder has read the head as it is (`LockGuardsHead`), that periods are
  disjoint and cover what they seal, and that the job works on the period after the
  last checkpoint or on a copy of it (`JobWorksOnNext`); the last is what makes
  a repeated insert harmless for the chain.
* `EventIntakeProofs`: `TypeCorrect`, `AtMostOnce`, `DoneIsBelievable`,
  `AcceptedIsKept`, `ErrorStays`. The invariant says that a row gets its job, its
  run and its status in this order, and what each step of a run may rely on
  (`RunsInOrder`, `LogsInOrder`): the run that inserts is the only one
  that ever found the row queued.
* `SdkQueueProofs`: `TypeCorrect`, `NoEventVanishes`, `CloseIsDraining`,
  `FlushIsAlmostDone`, after four lemmas about what concatenation,
  `Append`, `Head` and `Tail` leave in a sequence. The invariant adds that the thread ends only on a
  queue it found empty after `_stop` was set, that from then on only late events
  are put (`StopsInOrder`, `EndsDrained`), and that a `close` that went on was called
  before any of those (`ClosesBeforeLate`).
* `RequestsProofs` (of the parts of `MCRequests`): for joining `TypeCorrect`, `DeadStaysDead`,
  `AttemptsAreBounded`, `CardStaysCurrent`. Numbers in use have been made (`Numbered`), so a new one
  kills all links; a request by a dead link can only fail (`Fits`); those about to record an attempt
  were counted below the limit, so their number, times the attempts of an insert, is what it can be
  overrun by (`Counted`).
  Connecting: `ConnectTypes`, `OnceDecided`, `NoKeyAfterRefusal`. A request that was redirected is not
  pending; of the keys its clients hold or may still get at most one is its own (`IssuedOnce`); a
  decision that no other one disturbs finds its request as it was (`Undisturbed`).
  Deleting: `DeletionTypes`, `WorkspacesHandedOver`, `BillingEndsBefore`. What each step has left to
  do is owned and surveyed, and what was on file for a workspace to be erased is no longer charged for once
  billing is over (`Surveyed`) and after it is erased (`Erased`; what was not on file may be), heirs are members as long as the survey is up to date, and a
  workspace has the owner its row names but between the two steps of handing it over (`Handing`).
  Signing in: `SignInTypes`, `MailsAreBounded`, `VisitorsArrive`. The mails and those who were counted
  below the limit are together fewer than the limit and the requests at a time (`Mails`); one request
  is waited for (`OneAwaited`), and the pages pass on where the visitor was headed, a view that was left
  where its own visitor was (`Heading`).
  The browser: `OwnIsShown`, `OneIsShown`. While nobody is removed or signs in elsewhere, every list is
  of the user signed in and no older than the one it replaces (`OwnLists`), the workspace chosen is on
  the list (`Listed`), and the switcher waits for a list that will have the new one (`Awaited`).
  The keys: `KeysShownOnce`, `OwnChangesListed`. Answers on their way, and those that are not stale, tell
  the changes made in the tab (`Fresh`); what is created or revoked is of the workspace whose list is
  then asked for (`Making`, `OfWorkspace`).
  Together: `RequestsEnd`, that each part ends as promised while the others rest, and
  `JoiningGoesOn`, that what is proved of joining alone holds there too.
* `BillingProofs`: `TypeCorrect`, `PlansArePaidFor`. While events come one at a time and in order,
  some membership h is the one on file: those before it are over, or charged for because Whop rejected their
  cancellation, and have no activation to come; those after it have theirs still to come, and once h itself
  has no event to come the plan is its own or the free one (`Filed`); the one run is for the first event and has done what its step says (`RunsFor`).
  `RemoveAtProps` says what taking an event out of the sequence leaves.
* `PolicyEditorProofs`: `TypeCorrect`, `SavedStaysShown`, `EditorFollows`, `TypingIsKept`. Rows shown,
  rows on their way and the table are in the order of their revisions, and of one revision there is
  one row (`InOrder`): an answer that lands is not older than what it replaces, and one that is no
  newer is equal, so no effect runs. A save asks again, which drops what was on its way, so that
  whatever comes next was read after it.

* `ConsoleProofs` (of the parts of `MCConsole`): for the page of members `TypeCorrect`, `OneOwner`,
  `ListsFollow`, `OffersMatch`. The invariant follows a request that runs alone from the roles it
  read to the writes they allow (`Alone`: between the steps of a transfer the
  workspace has no agreed owner, and `Known` says who has what then), and a list
  from the moment it is read until its page makes a change (`Lists`), which may be one without its reader,
  who has been removed (`Held`).
  For each other part a type invariant, strengthened by what its properties rest on:
  * the inbox (`InboxInv`): what is asked for, kept open or about to be answered was on a list that was
    read, so that a decision drops the answer under way; no list passes for fresh with a request the
    tab decided as pending, and none under way will (`Told`, `Asking`);
  * a pack (`PackInv`): the job has an answer to each question before the one it is at (`Drafting`);
    a pack that is ready stays so unless its job goes on (`Begun`), answers are asked for only of one that is
    ready or was, and it loses no row, so what is on screen is not longer than the rows (`Fetching`); one of a save and an approval of all runs unless they crossed, and what is
    left to approve has the text of its row (`Reviewing`); and what is fresh, or on its way, was read
    after the last review (`Fresh`);
  * the event list (`EventsInv`): unless an event was removed, an answer has of some beginning of the chain the
    newest by `created`, and all of it if it is not a full page (`Newest`);
  * SOC 2 (`ControlsInv`): failures are counted before all events are, and the log only grows;
  * the plans (`PlansInv`): the plan is one of those it has been, and so is all that was read;
  * the account (`CardsInv`): the field shows the name in force but between a save and its answer, and a
    change is sent with the password that was checked;
  * the palette (`PaletteInv`) and the home page's rows (`RowsInv`): what a run has drafted and still has to draft is an answer
    to each question at least, and a count that was read is not less than the questions and, unless the
    questionnaire was reopened, is that of its rows (`Whole`).

  Together: `PartsTyped`, `ChangesAreShown`, `PagesAreTrue`, `StepsAreAsAsked`, that each part does so
  while the others rest; `MembersGoOn`, that what is proved of the page of members holds there too,
  and so `ConsoleOneOwner`.

Assumptions about the parts' constants (`PartsAssumption` in `MCRequests` and `MCConsole`: limits and sizes are
natural numbers, requests for mails are finitely many, a user is none of the others, the palette's items and the sizes of
questionnaires are sequences, the outcomes of a request are the three of the API) are evaluated by TLC.

Model-checked only: the liveness properties (`PendingIsResolved`, `CallsReturn`,
`EventuallySealed`, `SettlesUnlessInterrupted`, `EventsAreReported`, `EventsSettle`), since ENABLED
and liveness under fairness are beyond the installed provers. Every invariant and every action
property of the passing runs is a theorem. Induction over data is
beyond the provers, too; no module here needs it.

## 6. Not modelled

* The policy engines of SDK and backend: functions of a rule and a call, without state; a
  comparison of the two over bounded rules is future work. Redaction, classification, drafting
  and parsing: libraries and an LLM, data and not control.
* Exports, the admin's list, the MCP data API and server: they read only, or call
  `apply_decision`, whose callers are the deciders of `Approvals`. The integrations and
  the command line adapt the SDK client. Authentication is a lookup per request.
* Public pages have no shared state; the former dashboard (`_old-dashboard`) is not routed.
* The counts of events and agents against the plan's limits: counted in one call
  and inserted in another, as the limits of mails and of failed joins, which are modelled.
* The order of rows of one timestamp within a digest, and a failure of one
  workspace that ends the daily job for those after it: one workspace is modelled, and a digest by its set.
* Copies that a repeated insert leaves of a questionnaire, of a workspace's first policy or of a link
  to evidence; an update that is repeated after somebody else's write; a pack that is ready for a moment
  and then in error, because every answer to its last update was lost. No property here would tell.
* A request for the list of members that fails while a menu is open; two events with the same `created_at`.
* Compositions: `SdkQueue` with `EventIntake` (an event that was put is logged or
  warned about), `EventIntake` with `AuditChain` (what is `done` is chained), `Approvals` with
  `EventIntake`. Each module takes the other side's answers as choices, so what it shows holds
  in the composition; end-to-end properties are not stated.

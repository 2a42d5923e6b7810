# PHANTOM VSA: specification and proofs

TLA+ models of the virtual sales assistant (FastAPI backend, React workbench),
the TLC configurations that check them and TLAPS proofs about them.

Run from this directory:

    tlc -workers 2 -config OrderHITL_concurrent.cfg MCOrderHITL
    tlc -workers 2 -config FeedbackSync_retry.cfg MCFeedbackSync
    tlc -workers 2 -config ManagerTasks_board.cfg MCManagerTasks
    tlc -workers 2 -config Workbench_page.cfg MCWorkbench
    tlc -workers 2 -config AgentRun_runs.cfg MCAgentRun
    tlc -workers 2 -config DataReads_pages.cfg MCDataReads
    tlc -workers 2 -config Activation_pilot.cfg MCActivation
    tlapm OrderHITLProofs.tla
    tlapm OrderWorkflowProofs.tla
    tlapm FeedbackSyncProofs.tla
    tlapm ManagerTasksProofs.tla
    tlapm AgentRunProofs.tla
    tlapm ActivationProofs.tla
    tlapm WorkbenchProofs.tla
    tlapm DataReadsProofs.tla

The other configurations and what each shows are in section 4.

## 1. The system

A sales rep works through a route of stores in a browser (PWA). The backend
serves predicted out-of-stock alerts from a data source (a mock or Databricks),
takes feedback on alerts, drafts orders that a human approves and that are then
sent to an ERP, lets managers assign tasks, runs an assistant that streams
events, and writes an audit event for every action. The backend keeps all its
state in one SQL database through one SQLAlchemy session per HTTP request; the
outside world (ERP, CRM, Unity Catalog, model providers) is called from inside
the handlers and is not rolled back with them.

### Inventory

| Component | State | Operations | Interacts with | What is hard | What makes it correct |
|---|---|---|---|---|---|
| Order pipeline (`api/routes/orders.py`, `approvals.py`, `services/agent_actions.py`) | `order_drafts`, `approval_records` | create, approve, reject, submit | ERP, audit sink, data source (store access) | handlers interleave between loading a row and writing it; the ERP call comes before the commit | no order without an approval of that payload; the status tells the truth; submitted is final |
| Audit (`services/audit.py`, `audit_sinks.py`) | `audit_events`, the Unity Catalog table | write, mirror | every writing handler | two stores, one transaction; fail-open and fail-closed | every committed change has its event in every promised store |
| Feedback (`useWorkbenchController.ts`, `offlineQueue.ts`, `sync.py`, `alerts.py`, `feedback.py`) | queue in localStorage, `alert_feedback`, `idempotency_records` | tap, queue, flush, post, sync | browser and backend over a network | lost answers, reloads, overlapping flushes, events queued during a flush | nothing queued is lost or stored twice; the queue empties |
| Manager tasks (`manager.py`, `agent_actions.py`) | `manager_tasks` | create, complete, block, cancel, summaries | audit sink, data source | check then insert; unguarded status writes | one open task per assignment; the trail tells how a task got its status |
| Workbench controller | React state of one page | select store, draft, approve, submit, switch role | all endpoints, IndexedDB cache | answers that arrive after the selection has changed | what is shown and acted on belongs to the selected store |
| Agent run and summary | none of its own (rows of the others) | run, stream; summarise | providers, guardrails, memory, CRM | commits before the stream; providers that fail | an action is done once or is known to have failed |
| CRM visit logs | `visit_logs` | create | CRM, audit sink | CRM first, row later | no log without a row |
| Data reads (`osa.py`, `real.py`, `clients/sql.py`, the routes for stores, alerts, visits, admin) | mock seed data, or tables in Databricks | route, store detail, alerts and their pages, recommendations, territory, audit feed | external tables that are refreshed meanwhile, audit sink | two cursor rules, statements that outlast the wait, events written while the feed is paged | pages cover every alert in its place; nothing is shown without an event; access holds for what is shown |
| Readiness governance (`governance/*`, `integrations.py`) | settings, read once per process | gates, provider statuses, targets, gaps, runbook, packets | factories, adapters, clients | the same facts derived by hand in five places | what is reported ready is not refused; the pages agree |
| Live data contracts | external views | validate a sample | SQL clients, adapters | contract and adapter name their columns separately | validated views can be read |
| Evidence scripts (`scripts/*`) | result files, env snippets | eval, evidence, live validation, handoff, six consolidated checks | settings, backend | files that outlive what they report | a recorded flag was established; a passed check means ready |
| Shelf images, MCP tools, views | little or none | reads and reports | services | one shared model version | - |

All but the shelf images and the MCP tools are modelled, some in part. The full
list, with what is left out and why, is in `PROJECT.json` ("components"); what
is hard to test, line by line, is under "hazards".

## 2. The plan

In order of what matters most:

1. **OrderHITL** and **OrderWorkflow** - done; safety, the audit trail and the
   refinement proved.
2. **FeedbackSync** - done, its safety invariants proved.
3. **ManagerTasks** and **TaskBoard** - done, safety and refinement proved.
4. **Workbench** - done: store selection, the draft panel, summaries, the agent
   stream and the manager screen, with answers in any order; safety proved.
5. **AgentRun** - done, its safety invariants proved.
6. **DataReads** - done: both adapters' pagination against one definition of
   what a client should see, and the audit feed; safety proved.
7. **ReadinessGates**, **LiveContracts** and **Activation** - done, safety proved
   for every configuration.

Every safety property and both refinements are theorems. What is left is a small
module for the shelf image adapter, whose model version is one attribute written
across an await. Liveness stays with TLC.

## 3. The modules

| Module | What it is |
|---|---|
| `OrderHITL` | the order pipeline: handlers, tables, ERP, audit stores |
| `OrderWorkflow` | the documented workflow of a draft, abstractly |
| `MCOrderHITL` | users, stores, territories and digests for TLC |
| `OrderHITLProofs` | the TLAPS proofs about `OrderHITL`: overlapping requests |
| `OrderWorkflowProofs` | those about its audit trail, users who take turns, and `OrderWorkflow` |
| `FeedbackSync` | the browser's feedback queue and the two endpoints |
| `MCFeedbackSync` | symmetry for TLC |
| `FeedbackSyncProofs` | the TLAPS proofs about `FeedbackSync` |
| `ManagerTasks` | the handlers that create tasks and change their status |
| `TaskBoard` | what managers and reps may expect of tasks, abstractly |
| `MCManagerTasks` | users, a store and symmetry for TLC |
| `ManagerTasksProofs` | the TLAPS proofs about `ManagerTasks` |
| `Workbench` | one page of the workbench: its React state and its requests |
| `MCWorkbench` | two stores on one route for TLC |
| `WorkbenchProofs` | the TLAPS proofs about `Workbench` |
| `AgentRun` | an assistant run: guardrail, memory, model, actions, commit, stream |
| `MCAgentRun` | alerts, settings and requests for TLC |
| `AgentRunProofs` | the TLAPS proofs about `AgentRun` |
| `DataReads` | the endpoints that show data, on the mock or on Databricks |
| `MCDataReads` | tables and clients for TLC |
| `DataReadsProofs` | the TLAPS proofs about `DataReads` |
| `ReadinessGates` | gates, statuses, targets, pages and ports as functions of a configuration |
| `LiveContracts` | the columns contracts require and adapters read |
| `Activation` | operator, scripts and backend process over the two modules above |
| `MCActivation` | configurations and views for TLC |
| `ActivationProofs` | the TLAPS proofs about `Activation` |

A definition whose name is that of the next one with a word added
(`FeedOpenEnded` before `Feed`, `CommitNothing` before `Commit`) is the same
definition with a plausible bug. It is not part of the specification; it is
there to show that a property notices.

### 3.1 OrderHITL

One element of `Requests` is one HTTP request. `pc` says where its handler
(coroutine) is, `req` what it holds: the arguments, the row as it was loaded
(SQLAlchemy keeps the loaded attributes), the time of its flush and the
approval it found. The committed tables are `drafts`, `approvals`, `audit`;
`unity` and `orders` are outside and take effect at once.

| Action | Code |
|---|---|
| `CreateDraft` | `create_order_draft_action`: store lookup, access check, build the row |
| `Decide` | `get_draft_for_approval`: load, access, status check |
| `Submit` | `submit_order_draft_sandbox` up to the status check |
| `RecordRow` | `db.add`, `db.flush`: `created_at` is taken |
| `FindApproval` | the SELECT of the newest matching approval |
| `CallERP` | `erp.submit_order` |
| `LogEvent` | the primary sink's `write` (its flush also sends the status UPDATE and locks the row) |
| `MirrorEvent` | `CompositeAuditSink.write`, the mirror: its INSERT is taken, or raises and is ignored when fail-open |
| `StatementEnds` | an INSERT that was still running is done; one that failed never is |
| `Commit` | `db.commit()` and the answer |
| `Fail` | any exception, cancellation or crash: rollback; what is outside stays |

Requests that a guard refuses change nothing and are not steps. There is one
await between any two of these actions in the code, so every interleaving of
them is possible with PostgreSQL at read-committed: `HoldsRow` is the row lock
of a flushed UPDATE, `UpdatesStatus` says whether there is an UPDATE at all
(SQLAlchemy writes changed attributes only: rejecting a draft loaded as REJECTED
writes no status). The default SQLite database locks as a whole; what it
allows is a subset of these interleavings plus failures ("database is locked"),
which are `Fail`.

`sink` is one of the four configurations `get_audit_sink` can build. The SQL
client does not look at the state of a statement (`clients/sql.py:63`): an INSERT
that is still running after ten seconds, or that FAILED, comes back like one that
is done. `statements` holds the INSERTs the warehouse has taken and not done, and
the handler commits beside them, fail-closed or not. So the strongest thing to say
of Unity Catalog is that every committed change has its event there or its INSERT
was taken, and `AuditComplete` says that much. "Every event is immutably
audited" (the repository's README.md:7) is more than the code does.

A draft's items are an opaque value and `Digest` maps a draft's contents to its hash
(not assumed injective: nothing below depends on it). The draft's payload is
never changed by any handler, so the stored hash is the digest of the row.

`OneAtATime` restricts the environment, not the code: TRUE means the users of
a draft wait for the answer (or the failure) of one request before they send
the next. It separates what the code guarantees always from what it guarantees
only then.

### 3.2 OrderWorkflow

Stages of a draft and the set of drafts with an order. `OrderHITL` implements
it under `stage <- Stage, ordered <- {o.draft : o \in orders}` when users take
turns (`ImplementsWorkflow`). The map is the obvious one: handler steps before
the commit are stuttering steps, except `CallERP`, which is `PlaceOrder`.

### 3.3 FeedbackSync

Browser: `Tap` and `DirectOk`/`DirectFail` are `handleFeedback` before and
after its await; `Launch` is `flushQueue` up to its await, taken by
`ComeOnline`, `SwitchRole` and `Reload` (the three things that call it);
`FlushOk` clears the queue, `FlushFail` leaves it. Backend: `PostFeedback` is
the direct endpoint; `SyncArrive` validates the batch; `SyncForeign`,
`SyncDuplicate`, `SyncUnknown`, `SyncAdd` are one turn of the loop each;
`SyncCommit` and `SyncConflict` are the commit with and without a collision on
the primary key of `idempotency_records`. PostgreSQL reports the collision when
the second INSERT is flushed, after waiting for the first transaction; the model
reports it at the commit, which commits the same batches.

A queued tap draws its key once, so tap and key are the same thing here. The
two rows a tap can have - stored by its own POST whose answer was lost, and
stored again by sync - are kept apart (`direct`, `synced`). `late` is a history
variable: taps queued while a flush was waiting. `calm` exists for liveness
only and stays FALSE under `Spec`.

### 3.4 ManagerTasks and TaskBoard

Same shape as OrderHITL: `pc` and `req` per HTTP request, the committed tables
`tasks` and `trail` (the audit events about tasks, in commit order).

| Action | Code |
|---|---|
| `CreateTask` | `create_manager_task_action` up to the SELECT that finds no open task; when it finds one the handler answers with it and changes nothing, which is no step |
| `UpdateStatus` | `update_manager_task_status`: load the row, check the role, set `status` and the payload |
| `LogEvent` | the sink's flush: INSERT of task and event, or event and UPDATE, which waits for the row lock (`RowFree`) |
| `Commit` | `db.commit()` |
| `Fail` | any exception, cancellation or crash: rollback |

`stamp` is what `manager_task_status_payload` adds to `payload_json` (author,
notes, previous status); the rest of the payload never changes. SQLAlchemy
sends only the attributes that differ from the loaded row (`WritesStatus`,
`WritesStamp`), so two overlapping updates can leave the status of one and the
payload of the other. The audit sink is the default one, in the transaction;
the other sinks are in OrderHITL. The territory and rep of a task are those of
its store (the create handler insists on it), so `store` stands for the three;
the duplicate check compares them, the type and the title: `About`. The store
master data is constant: reassigning a store to another rep is not modelled.

`TaskBoard` is what the two endpoints promise: assign a task unless one about
the same thing is open, move a task from its present status to another, and
log each move. ManagerTasks implements it under `board <- Shown, log <- trail`
while `turns` holds (users never overlap requests about one assignment): the
commits are the board's steps, all others stutter. `Shown` rebuilds the last
log entry from the row, so the refinement says that row, payload and trail
agree.

### 3.5 Workbench

One page of one browser. The variables are React state of
`useWorkbenchController.ts` (`selected`, `shown`, `draft`, `approval`,
`submission`, `summary`, `running`, `board`, `error`), the IndexedDB `cache`,
`calls`, the requests under way with how far each has come, and `orders`, what
the backend has on record of each draft. No effect of the page cancels a
request, so any answer may be the next one applied.

| Action | Code |
|---|---|
| `SelectStore`, `OpenManagerStore`, `SwitchRole`, `RepickRole` | the selection and role handlers, with the effects a changed selection or role fires: clear the panel, load |
| `DraftTopAlert`, `ApproveDraft`, `SubmitSandbox`, `Summarize`, `RunAgent`, `ApproveQueued` | the taps, up to the await; their guards are the conditions under which the button exists and is enabled |
| `VisitsAnswered`, `StoreAnswered`, `BoardAnswered`, ..., `Summarized` | what follows the await |
| `Cached` | the write to the cache that follows a load is done; until then a failure of it runs the catch |
| `VisitsFromCache`, `StoreFromCache`, `LoadFailed`, `LoadLost`, `BoardFailed` | the catch branches: the cached copy, the error banner, or neither when `cacheGet` itself rejects |
| `FailedUnreported` | a tap's promise has no catch: nothing on the page changes |
| `StreamMessage`, `StreamAction`, `StreamAudit`, `StreamBreaks` | `handleAgentEvent` and the `finally` of a run |
| `Load`, `Commit`, `ReadQueue` | the backend: the row a decision loads and checks, its commit, and the SELECT of the approval queue |
| `Vanish` | a request the page has given up never arrives, or its handler fails |
| `DraftedElsewhere`, `DecidedElsewhere` | other clients: a draft appears; one is approved, rejected or submitted |
| `Reload` | React state is gone; role and cache stay, and so do writes the backend has not committed |

A decision is loaded and committed in two steps, and the commit overwrites
whatever others have committed in between, as `_record_decision` does; what lies
between is in OrderHITL. A request whose fetch failed, or whose stream broke, is
not undone: `GiveUp` keeps it as `gone`, and the backend may commit it at any
later time or never. Another client's decision may be on a row as old as the
draft.

Six variables are history. `patient` says whether the user waits until the page
awaits nothing before the next tap. `lastLoad` and `stale` note a load that an older
one has overtaken, or that ended without a word because the cache rejected; then
the page may show one store under the name of another, and nobody is told.
`dismissed` notes that the button of the role in force cleared the banner.
`touched` is the set of drafts that changed without this page having been told:
others' decisions and what became of requests given up. `others` counts the steps
of other clients. The properties say what holds but for these: where the code
promises nothing, they claim nothing.

### 3.6 AgentRun

One element of `Runs` is one request to `/agent/run`, `/agent/osa-summary` or
`/crm/visit-log-drafts`; `wish` is what it asks and whether its handler's
validation and access checks pass.

| Action | Code |
|---|---|
| `Ask` | the request arrives; a stream is refused while agent runs are disabled |
| `Guard` | `check_guardrails` with the pattern or the external classifier, which may be down or answer no number |
| `ReadAlerts` | the grounded set; an id that is no alert of the user's stores refuses the request |
| `ReadMemory`, `Remember` | memory read before the model and written after the commit; only the second failure is swallowed |
| `Summarize` | template, model or fall-back, and the grounding check: alert, SKU and store ids in the text, each against its own set (`summary_providers.py:103`) |
| `DraftOrder`, `LogVisit`, `AssignTask` | `services/agent_actions.py` up to the commit; the CRM is called first, an open task is answered without an event |
| `Commit`, `Reply` | `db.commit()`, `db.refresh()` |
| `Tell`, `Answer` | one event of the stream in its order (`Script`); its end |
| `Fail`, `Leave` | an exception or crash: rollback; the client goes, the handler does not |
| `Relist` | the data source lists other alerts |

The row and the event of a run are not visible before its commit; the sinks are
those of OrderHITL and are not repeated here. The grounding check looks at each
kind of id alone, so a text may put the SKU of one alert at the store of another,
and names without an id pass: `SummaryGrounded` claims no more. The routes answer a
ValueError with 400 whoever raised it (`Errs`), and an answer of the CRM that is
no JSON raises one: the client is told of a refusal while the CRM has the log.

### 3.7 DataReads

`wish` says what a client asks, `pc` where its handler is, `page` and `next`
what it has read, `got` what the client has been shown, page after page.

| Action | Code |
|---|---|
| `FindStore` | the first read of a handler about a store, and `assert_store_access` |
| `Admit` | role and territory checks of the others |
| `Query` | the second read: `MockAlerts`, `DatabricksAlerts`, `Visits`, `TerritoryStores`, `Recommendations`, `Feed` |
| `Log`, `Commit` | the audit event of the view, its `created_at` before its commit |
| `Answer`, `Follow` | the answer; a client that wants the whole list sends the cursor back |
| `Fail` | an exception, a crash or a lost answer |
| `RefreshAlert`, `RefreshStore` | the warehouse changes one row |

A Databricks statement has three outcomes (`Outcomes`): its rows, none because
it was still running after ten seconds (the list is then answered empty, the
store not found), or an exception. `moved` and `late` note when the first two of
these excuse a list. The cursor is an offset in both adapters but they end a
list differently: the mock knows how many rows are left, Databricks answers a
full page with a successor. A product of a store may have several rows, one per
prediction date, and the statement sorts by risk and SKU only: rows that rank
alike come in any order, in another one for the next page (`DatabricksAlerts`). `accounted` is the sum of the counts of a client's
committed events; no code keeps it, `Commit` adds to it. The admin feed is paged
by offset over a table that grows at the front.

### 3.8 ReadinessGates, LiveContracts and Activation

A configuration is the set of settings that are given. ReadinessGates has the
five families of functions that read it: discovery gates, provider statuses,
activation targets, operator pages, and the ports (what factories, adapters and
clients refuse). Each is translated on its own, so that agreement is a property
and not a construction. LiveContracts has, per view, the columns a contract
requires and, per live read, the columns the adapter selects or filters by,
`get_alerts_by_ids` included. The evidence manifests are complete: flag, time and
summary of each validation are settings. The discovery packet selects its gates by
the hand-written list `PILOT_REQUIRED_MODES`, and the AI-demo page keeps its
configuration checks.

Activation is the story around them. `env` is what is written down, `server`
what the running process has read: settings are cached, so the two differ until
the next `Start`.

| Action | Code |
|---|---|
| `Edit` | the operator changes a setting |
| `Start` | a new process reads the settings; no port is opened yet |
| `Use`, `Read` | a request needs a port its settings refuse; a live read its view cannot answer |
| `RunEval`, `WriteEvidence` | `run_eval.py`, `ai_demo_eval_evidence.py` |
| `RunLive` | `validate_live_data_contracts.py` |
| `Handoff`, `Record` | `pilot_env_handoff.py`; the operator records what it wrote, or one of the files it merged |
| `Check` | one of the six consolidated checks, with the gates of `pilot_readiness_report.py` |

Parts of a check that look at no setting (lint, tests, demo data) have one
arbitrary outcome, `rest`. The history variable `proven` holds the evidence some
run has established. Five things the translation brought out are not
properties, because no sentence of the repository contradicts them: the
scripts send tokens of the mock identity provider, so neither report nor eval
can pass under `external_jwt`, and the eval cannot pass when Unity Catalog is
the only audit sink; the report has no gate for the offline agent, which
`activation.py:177` counts (the exception in `PassedChecksReady`); and
validating a chosen subset of the contracts writes the same flag as validating
all of them (`validate_live_data_contracts.py:33`); a target is ready with the flag
of a validation alone, though its manifest requires the time and the summary too
(`activation_evidence.py:7`, which `activation.py` never looks at), so `PagesAgree`
speaks of flags; and the AI-demo page may call `summary_fail_open` or the model not
ready while the target is ready (`ai_demo_activation.py:33`), which `PagesAgree`
names as its exception.

## 4. What is checked

| Run | Instance | Shows |
|---|---|---|
| `order_hitl_concurrent` | 4 overlapping requests, 1 draft, a rep and two managers (one of another territory), 4 audit configurations | `OrderBacked`: an ERP order rests on a committed approval of that draft and hash by somebody entitled; `StatusEvidence`: the status has the decision or order it claims; `ApprovalAlwaysFound`: the second 409 of submit cannot be returned; `AuditComplete`, `OrderAccounted`: what is committed has its event in every store the configuration names, or its INSERT was taken there, and only a failed handler's order is missing |
| `order_hitl_turns` | 5 requests, users take turns | `OneFinalSubmission`: a draft has one recorded submission, and it is final; `NewestDecisionRules`, `OrderFollowsDecision`: the newest decision shows and the ERP is called on it only; `ImplementsWorkflow`: the documented workflow is implemented - with failures and retries |
| `order_hitl_answered` | 3 overlapping requests, fair handlers, with and without a mirror | no handler waits for a row lock for ever, also while its holder awaits the mirror |
| `feedback_retry` | 2 taps, 2 overlapping flushes, alerts that vanish | sync stores a key once, an answered batch is stored, an event queued while no flush waits is kept until it is stored |
| `feedback_drains` | 2 taps, 1 flush at a time, batches of 1, an alert that may vanish | once faults end the queue empties, if every alert stays listed and the queue fits one request |
| `feedback_lost` | as `feedback_retry` | **fails**: an event queued during a flush is cleared unsent |
| `manager_tasks_board` | 5 requests about one assignment, a rep and two managers, overlapping or taking turns | a status shown has an entitled author and its payload is of one committed update; the trail begins with the creation and never reports a status the task did not have; with users who take turns, one open task per assignment and the task board is implemented |
| `workbench_page` | 6 requests of a patient or a hasty user, 2 stores, 1 step of another client beside the patient one | `PageOfSelectedStore`: at rest a rep's page shows the selected store or says why not, and for a user who waits draft and summary are about what is shown; `PanelTruthful`: an approval or order shown was recorded, and for a user who waits the status at rest is the backend's unless changed behind the page's back; `QueueTruthful`: so is the approval queue; `AgentStops`: a run leaves the running state however its stream ends |
| `agent_run` | 2 runs (any of 8 requests, and a task), 4 configurations, 2 alerts of 2 stores | `StreamTruthful`: a client hears only of committed work; `OutsideAccounted`: CRM logs, memories and rows of refused, failed and finished runs add up; `SummaryGrounded`: a summary on record holds no id but those of what was asked for, a blocked phrase reaches neither model nor memory |
| `data_reads` | a reader, a second reader and an admin, 1 store, up to 3 alerts of which two may rank alike, pages of 1 to 3, 2 refreshes | `PagesInOrder`: riskiest first, every alert that ranks like no other once, those that rank alike possibly in each other's place; `FeedComplete`: an admin who follows the cursors misses no event; `AnswersAudited`: nothing is shown without an event or to somebody without access; `ListingEnds` |
| `activation_pilot` | about 60 configurations, 3 operator steps | `ReadyRuns`: what is reported ready is not refused; `PassedChecksReady`: a passed check leaves no blocker; `PagesAgree`; `EvidenceBacked`: a recorded flag was established |
| `validated_views` | one pilot, views exactly as the contracts describe | **fails**: validated views lack columns the adapters select |

The runs that fail are the findings of `PROJECT.json`; each contradicts a
sentence of the repository's documentation that is quoted there.

`OneFinalSubmission` needs users who take turns: with `OneAtATime = FALSE` TLC
finds a decision loaded before a submission and committed after it, which
overwrites SUBMITTED_SANDBOX.

**Bounds.** Four requests are what the longest story of a draft needs (create,
two decisions, submit); five allow a failed attempt and a retry. Requests about
different drafts share nothing but the audit stores, whose events carry the
request, so one draft is enough for the runs. Two
taps and two flushes are enough for every collision of two batches; two batches
of one event and one batch of two both occur. `MaxBatch` is 100 in the code and
1 or 2 here: the case that matters is a queue longer than it. Five task requests
are two creates, two overlapping updates and one after them; one store and
title, since requests about different assignments share only the order of the
trail. Six page requests are a route, a store, a draft, its approval and its
submission with one to spare, or a role switch with its loads, an approval from the
queue and the fetch after it; a hasty user has two loads that overtake one another
and a draft between them. One step of another client is enough to take any draft
out of step with the page. Beside a hasty user TLC gives other clients none, for
the sake of the state space; the theorems have no such limit. Two assistant
runs are enough because runs meet only at an open task. Three alerts in pages of
one, two or three give the list that ends within a page, the one that ends with
a full page and the one page that is full.
Three operator steps are validate, record, switch on (or eval, evidence, record).
None of these bounds is in the theorems of section 5, which hold for any number
of requests, taps, runs, alerts and steps and for any configuration. The
violation runs state no fairness and need none: their properties are invariants.

**Fairness.** `OrderHITL!FairSpec`: weak fairness of the steps a handler can
take; the event loop resumes every coroutine whose await is over, and outside
calls have timeouts. Nothing is assumed of `Fail` or of new requests.
`FeedbackSync!FairSpec`: weak fairness of handlers and continuations; the rest
is an assumption about the world, not about the code: faults end (`CalmDown`),
the page goes back to the rep's role, and the device goes offline and online
again and again. The last one is needed because only these events flush the
queue: an event queued by a failed post while the browser stays online waits for
the next of them. `Workbench!FairSpec`: the fetch of a run is answered, breaks or is given up in
the end; other requests may take for ever, and nothing obliges the user. `DataReads!FairSpec`: handlers run to
their end, statements have timeouts, and a client that has a cursor uses it.
AgentRun and Activation have safety properties only: a run ends by its
handler's own steps, and nothing obliges an operator.

**Deadlock** is not checked where the system may come to rest: all requests
made, all lists read, no tap left within the bound.

## 5. What is proved

`OrderHITLProofs`, for every set of requests, drafts, users, stores and
items, every digest, role and territory assignment and every audit
configuration, with requests overlapping or not:

- `TypeCorrect`: `Spec => []TypeOK`
- `PipelineCorrect`: `Spec => []PipelineInv`, the inductive invariant
- `OrdersAreBacked`: `Spec => []OrderBacked`
- `StatusIsEvidenced`: `Spec => []StatusEvidence`
- `ApprovalIsFound`: `Spec => []ApprovalAlwaysFound`

The assumptions are `ConstantsTyped` and `NullsDistinct` of `OrderHITL`.

`OrderBacked` is not inductive: when `CallERP` happens, the approval must be
there, and it was found steps before, by a handler holding a row loaded earlier
still. `PipelineInv` says what survives between a handler's read and its write
although others commit in between: a draft's contents never change and a
decided draft is never DRAFT again (`LoadedRowValid`), a draft id belongs to one
create request (`CreatesDistinct`, `RowsCreated`), decisions were checked
against contents that still hold (`DecisionChecked`, `ApprovalValid`), and a
submit handler's approval exists from the moment its status check passed
(`SubmitChecked`) - which is why the status check on a stale row is good enough
for the approval, though not for the status. Approvals and orders only grow
(`LogsGrow`), so what was found stays found. Each conjunct has a lemma of its
own (`ArrivalKnows`, `LoadedRowStep`, `CreatesStep`, ... `OrderStep`), and the
theorems combine them.

`OrderWorkflowProofs` goes on from there. For any instance:

- `TrailCorrect`: `Spec => []TrailInv`, a second inductive invariant
- `TrailIsComplete`: `Spec => []AuditComplete`
- `OrdersAreAccounted`: `Spec => []OrderAccounted`

and for users who take turns, which is a hypothesis of each theorem
(`OneAtATime` is a constant; the code does not make them wait):

- `TurnsCorrect`: `Spec /\ OneAtATime => []TurnsInv`
- `SubmissionsAreFinal`: `Spec /\ OneAtATime => []OneFinalSubmission`
- `NewestDecisionIsShown`: `Spec /\ OneAtATime => []NewestDecisionRules`
- `OrdersFollowDecisions`: `Spec /\ OneAtATime => OrderFollowsDecision`
- `WorkflowImplemented`: `Spec /\ OneAtATime => ImplementsWorkflow`

`TrailInv` says of every event in a store that its handler wrote it and that a
submission it reports reached the ERP (`EventsReal`, `AuditCommitted`), and of
every handler past its sink that the event is where the sink promised to keep it
(`EventsKept`). Rows and orders are then traced to the request they come from
(`DecisionsCommitted`, `OrdersCalled`, `SubmissionsCommitted`). The four sinks
differ in when an event counts, so `EventsKept` is the conjunct with the cases.
`TurnsInv` is what taking turns buys: a handler's row is the row of the table
(`TurnsTaken`, `RowCurrent`), decisions of a draft are ordered by their time
(`DecisionsTimed`), the status is the newest decision's (`LastDecision`), and
the approval a submit handler is about to cite is still the newest
(`CitesNewest`). `WorkflowImplemented` maps each step: `CallERP` to
`PlaceOrder`, a commit to the workflow's step of its kind, the rest to a
stutter.

`FeedbackSyncProofs`, for every set of taps and of overlapping flushes, every
set of perishable alerts and every limit on a batch:

- `SyncTypeCorrect`: `Spec => []TypeOK`
- `SyncCorrect`: `Spec => []SyncInv`, the inductive invariant
- `StoredOnce`: `Spec => []KeyStoredOnce`
- `AnswerIsTrue`: `Spec => []AnsweredMeansStored`
- `QueuedIsKept`: `Spec => []QueuedKept`

No assumption about the constants is used beyond `BoundsTyped`. `QueuedKept`
is not inductive: when `FlushOk` clears the queue, the batch it clears was
copied and stored steps before, and others have stored and queued since.
`LoopKeeps` carries an event from the turn of the loop that takes it to the
commit, `AnsweredMeansStored` from the commit to the answer, and `BatchCovers`
relates the queue at the time of the answer to the batch: what is not in the
batch was queued late. The proof first lists what a step can do to one exchange
(`EveryExchange`), to the queue (`EveryQueue`) and to the records
(`EveryRecord`); each conjunct then has a lemma that looks at those few cases
instead of every action.

`ManagerTasksProofs`, for every set of requests, users, stores, titles and
notes and every role and territory assignment:

- `TasksTypeCorrect`: `Spec => []TypeOK`
- `TasksCorrect`: `Spec => []TasksInv`, the inductive invariant
- `StatusIsAuthorised`: `Spec => []StatusAuthorised`
- `TrailIsGrounded`: `Spec => []TrailGrounded`
- `OneIsOpen`: `Spec => []OneOpenTask`
- `BoardImplemented`: `Spec => ImplementsBoard`, the refinement

The assumptions are `ConstantsTyped` and `NullsDistinct` of `ManagerTasks`.
None of the three safety properties is inductive, because a handler commits
what it decided on a row loaded earlier. `UpdatesChecked` carries what is still
true of a stale row (the assignment is as it was, its status is in the trail,
the author is entitled), `CreatesOwn` and `RowsCreated` tie a row to the one
request that inserted it, `StatusShown` ties the status of a row to an event,
and `TurnsTaken` says what users who take turns add: what a handler has read is
still so when it commits. Every step is first reduced to one of three kinds
(`StepKinds`): a handler starts and has checked something, moves without
touching a table, or commits (`CommitWrites`). `BoardStep` then maps a commit
to `Assign` or `Move`.

`AgentRunProofs`, for every set of requests, alerts, stores and settings,
whatever the classifier and the model answer:

- `RunTypeCorrect`: `Spec => []TypeOK`
- `RunsCorrect`: `Spec => []AgentInv`, the inductive invariant
- `StreamIsTrue`: `Spec => []StreamTruthful`
- `OutsideIsAccounted`: `Spec => []OutsideAccounted`
- `SummaryIsGrounded`: `Spec => []SummaryGrounded`

The assumption is `ConstantsTyped` of `AgentRun`. None of the three properties
is inductive: what a client hears was committed steps before, and what a summary
mentions was grounded before the model was asked. `AgentInv` follows one run
from its arrival to the end of its stream: `Arrived`, `CommitsOnce` (nothing
anywhere before the commit, save the CRM's log), `Heard` (only a run past its
commit has told anything), `Kept` (CRM and memory), `Grounded` (the alerts held,
the text, and the guardrail's verdict). A step touches one run only (`OneRun`),
and what others commit never takes anything away (`Grows`, `Untouched`); each
conjunct then has a lemma over the handler's actions. `ScriptShape` says where
in the stream an audit event can be, for each of the shapes a stream has.

`ActivationProofs`, for every set of settings, every configuration to begin
with, every state of the views and any number of steps:

- `ActivationTypeCorrect`: `Spec => []TypeOK`
- `ReadyIsOpen`: `Spec => []ReadyRuns`
- `PassedIsReady`: `Spec => []PassedChecksReady`
- `PagesAreOneStory`: `Spec => []PagesAgree`
- `EvidenceIsBacked`: `Spec => []EvidenceBacked`

The assumption is `ConstantsTyped` of `Activation`. The run samples some sixty
of the configurations; here the agreement of the hand-written functions is
shown for all of them, port by port (`NoBlocker`, `StatusOpens`, `ReadyServes`,
`AiDemoServes`), page by page (`PagesOf`, `CommandsKnown`) and gate by gate
(`GatesCover`, `ChecksReport`). Two invariants carry the rest: `Refused` (a
refusal is of the settings the process has read) and `Backed`, the strengthening
of `EvidenceBacked` by the files through which a flag passes on its way.

`WorkbenchProofs`, for every set of stores, every route, any number of requests
and of steps by other clients, patient user or hasty:

- `TypeCorrect`: `Spec => []TypeOK`
- `WorkbenchCorrect`: `Spec => []WorkbenchInv`, the inductive invariant
- `PanelIsTruthful`: `Spec => []PanelTruthful`
- `PageShowsSelection`: `Spec => []PageOfSelectedStore`
- `QueueIsTruthful`: `Spec => []QueueTruthful`

The assumption is `ConstantsTyped` of `Workbench` (among it `MaxCalls` at least
1: the page's first load is a request). The three properties say little
about requests under way, so none is inductive: what holds between a tap and its
answer has to be described. `StagesFit` says which stages a request of each kind
goes through and that only an uncommitted write outlives its page, `DraftsExist`
that whatever names a draft names one on record, `RecordsKept` what is on record
behind an answer on its way, although commits overwrite each other's status.
`LoadsFollow` relates the highlighted store to the newest load and to one that
overtook it. `PatientWaits` says how few requests a patient user can have under
way, `PanelOfStore` what draft and summary are about while they are, and
`DraftInStep`, `QueueInStep` how far panel and queue may lag behind the backend.
The proof goes over the actions once to say what a step does to a request
(`CallsStep`) and to a draft (`OrdersStep`); most conjuncts are then preserved by
these few cases.

`DataReadsProofs`, for every set of clients, every finite set of stores and of
alerts, every page size and any number of refreshes:

- `ReadsCorrect`: `Spec => []ReadsInv`, the inductive invariant
- `TypeCorrect`: `Spec => []TypeOK`
- `PagesAreInOrder`: `Spec => []PagesInOrder`
- `FeedIsComplete`: `Spec => []FeedComplete`
- `AnswersAreAudited`: `Spec => []AnswersAudited`

The assumption is `ConstantsTyped` of `DataReads`: tables are finite. A list is
cut by offsets, so the invariant is about places. `PagesGoOn` gives each row
shown its place, the number of rows that come before it; the cursor is the
number of places passed. `FeedGoesOn` does the same for a feed that grows at the
front: an event's place only moves back (`NewerGrows`), so a row not yet shown is
never before the cursor. `Accounts` and `Ownership` follow a handler from its
first read to its answer. That the code's sort puts every row at its place needs
no induction: in a finite strict order the number of rows before a row numbers
the rows without a gap (`Ranking`, from cardinalities alone), hence a sorted list
is that numbering (`ListedInOrder`). `AlertPages` and `EventPage` then read off
what each cursor rule answers.

**Checked by TLC only.** The liveness properties `RequestsFinish`, `QueueDrains`,
`AgentStops` and `ListingEnds`: they rest on fairness, and ENABLED is outside
the proof system's reach. And the two properties that do not hold,
`QueuedNeverLost` and `ValidatedViewsServe`, whose counterexamples are TLC's.
Induction over data is out of reach too; no property here needs it.

## 6. What is not modelled

- Contents: order lines, notes, scores, summaries, SQL text, log lines.
- Token decoding and key fetching; a model's user has the role, territory and
  subject the token yields.
- The payload hash is not recomputed by the submit handler: it compares two
  stored columns. README.md line 94 speaks of tampering after approval; no
  handler changes a payload, and changes made in the database by other means
  are outside the models.
- Several browser tabs on one queue: the localStorage functions read and write
  in one turn, but two tabs in two processes could interleave them.
- Shelf image analysis and the MCP tool servers. The first shares one adapter
  object between requests and is the next module of the plan; the second calls
  the services that are modelled and adds no state.
- The data behind a row: risk scores, priorities, recommendation texts
  (`services/rules.py`, `rgm.py`), prompts, costs and latencies of the model.
- The smoke scripts, guards and seed exports a consolidated check calls: one
  outcome each. The audit of one session and the metrics: single queries.
- In the page: the service worker, the readiness panels, the admin feed's
  filters, the telemetry.
- In the manager screen, the button of the role already in force clears the
  screen and loads nothing (`useWorkbenchController.ts:400`): Workbench has the
  step (`RepickRole`), and no property speaks of it.
- A hazard without a property has the reason beside it in `PROJECT.json`.

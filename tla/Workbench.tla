------------------------------ MODULE Workbench ------------------------------
(***************************************************************************)
(* The workbench page of one browser (useWorkbenchController.ts): its      *)
(* React state, the requests it has under way, the drafts the backend      *)
(* keeps, and what other clients do to them.  No effect of the page        *)
(* cancels a request, so answers arrive in any order and are applied to    *)
(* whatever the page shows by then; and the backend may still serve a      *)
(* request whose page has given it up.                                     *)
(*                                                                         *)
(* Simplifications.  A store's detail, alerts and recommendations are one  *)
(* value and one cache entry, for the code sets the three in one callback; *)
(* every store has an alert.  The manager screen is its approval queue.    *)
(* The feedback queue is module FeedbackSync, the task list module         *)
(* ManagerTasks.  The handlers behind approve and submit are module        *)
(* OrderHITL: of them this module has the row they load and the commit     *)
(* that may find it changed.                                               *)
(***************************************************************************)
EXTENDS Integers, Sequences, FiniteSets

CONSTANTS
  Stores,      \* the stores of the territory
  Route,       \* today's visits: a sequence of stores without repetition
  Foreign,     \* drafts that other clients may create
  MaxCalls,    \* bound: requests sent in one behaviour
  HastyCalls,  \* bound: the same for a user who does not wait
  MaxOthers,   \* bound: steps of other clients
  HastyOthers, \* bound: the same beside a user who does not wait
  None         \* no store

ASSUME ConstantsTyped ==
  /\ None \notin Stores
  /\ Route \in Seq(Stores) /\ Route # <<>>
  /\ MaxCalls \in Nat \ {0} /\ HastyCalls \in 0..MaxCalls
  /\ MaxOthers \in Nat /\ HastyOthers \in 0..MaxOthers
  /\ Foreign \cap Int = {}

VARIABLES
  role,        \* the role of the page, kept in localStorage
  selected,    \* selectedStoreId
  visits,      \* is the route loaded?
  shown,       \* the store whose detail, alerts and recommendations are set
  draft,       \* the draft in the panel: [id, status]; id 0 is null
  approval,    \* the draft whose approval is in the panel, or 0
  submission,  \* the draft whose ERP order is in the panel, or 0
  summary,     \* the summary box: [id, store, alerts, audit: has it an audit id?];
               \* id 0 is null
  running,     \* agentRunning
  board,       \* the manager screen: [loaded, queue]
  error,       \* is the error banner up?
  cache,       \* keys of the IndexedDB cache of this identity
  calls,       \* requests under way
  next,        \* number of the next request; it also names what it creates
  orders,      \* the backend's drafts: [store, status, approved, ordered]
  patient,     \* history: does the user wait for every request to end?
  lastLoad,    \* history: the newest load that was shown or failed
  stale,       \* history: was that load overtaken by an older one, or given up
               \* without a word?
  dismissed,   \* history: did the button of the role in force clear an error?
  touched,     \* history: drafts changed without this page having been told
  others       \* history: steps of other clients

shell   == <<role, selected, visits, shown>>
panel   == <<draft, approval, submission>>
agent   == <<summary, running>>
loadNotes == <<lastLoad, stale>>
history == <<patient, loadNotes, dismissed, touched, others>>
vars == <<shell, panel, agent, board, error, cache, calls, next, orders, history>>

--------------------------------------------------------------------------------
(* Types *)

Ids == 1..MaxCalls
Drafts == Ids \cup Foreign
StoreOrNone == Stores \cup {None}
Status == {"DRAFT", "REJECTED", "APPROVED", "SUBMITTED_SANDBOX"}

NoDraft == [id |-> 0, status |-> "DRAFT"]
NoSummary == [id |-> 0, store |-> None, alerts |-> None, audit |-> FALSE]
NewDraft(s) == [store |-> s, status |-> "DRAFT", approved |-> FALSE, ordered |-> FALSE]
NoBoard == [loaded |-> FALSE, queue |-> {}]

\* The requests by the function of lib/api.ts that sends them; the last three
\* are streams.
Reads == {"visits", "store", "board", "queue"}
Writes == {"create", "approve", "approveQueued", "submit"}
Streams == {"runSummary", "runDraft", "runVisitLog"}
Kinds == Reads \cup Writes \cup Streams \cup {"summary"}

Loads == {"visits", "store"}
Drafting == {"create", "runDraft"}
Approving == {"approve", "approveQueued"}
Deciding == Approving \cup {"submit"}

\* store: what it is about; alerts: the store whose alert ids it carries;
\* order: the draft it names; found: the drafts of an approval queue answer;
\* stage: how far the backend or, once "caching" or "told", the page is with it;
\* gone: the page has given it up and the backend may not know.
Call == [id: Ids, kind: Kinds, store: StoreOrNone, alerts: StoreOrNone,
         order: Drafts \cup {0}, found: SUBSET Drafts,
         stage: {"sent", "loaded", "served", "refused", "caching", "told"},
         gone: BOOLEAN]

NewCall(id, kind, store, alerts, order) ==
  [id |-> id, kind |-> kind, store |-> store, alerts |-> alerts,
   order |-> order, found |-> {}, stage |-> "sent", gone |-> FALSE]

\* The draft that a write is about; one that is created has the request's number.
Names(c) == IF c.kind \in Drafting THEN c.id ELSE c.order

Known == {d \in Drafts : orders[d].store # None}
Pending == {d \in Known : orders[d].status \in {"DRAFT", "REJECTED"}}

\* What the page still waits for.
Awaited == {c \in calls : ~c.gone}

--------------------------------------------------------------------------------
(* What the code does, named *)

Init ==
  /\ role = "rep" /\ selected = None /\ visits = FALSE /\ shown = None
  /\ draft = NoDraft /\ approval = 0 /\ submission = 0
  /\ summary = NoSummary /\ running = FALSE
  /\ board = NoBoard /\ error = FALSE /\ cache = {}
  /\ calls = {NewCall(1, "visits", None, None, 0)} /\ next = 2
  /\ orders = [d \in Drafts |-> NewDraft(None)]
  /\ patient \in BOOLEAN
  /\ lastLoad = 0 /\ stale = FALSE /\ dismissed = FALSE
  /\ touched = {} /\ others = 0

\* A tap: a patient user taps only when the page waits for nothing, cache writes
\* included.  A tap sends up to two requests and the bound leaves room for them.
Tap == IF patient THEN Awaited = {} /\ next < MaxCalls ELSE next < HastyCalls

\* Request c is sent beside those in rest.
Send(rest, c) ==
  /\ next <= MaxCalls
  /\ calls' = rest \cup {c}
  /\ next' = next + 1

Done(c) == calls' = calls \ {c} /\ UNCHANGED next

At(c, stage) == (calls \ {c}) \cup {[c EXCEPT !.stage = stage]}
Move(c, stage) == calls' = At(c, stage) /\ UNCHANGED next

\* Drafts ds change and the page is not told.
Touch(ds) == touched' = IF patient THEN touched \cup ds ELSE {}

ClearPanelKeepingDraft ==
  /\ summary' = NoSummary
  /\ UNCHANGED <<panel, running>>

\* The store effect clears everything that concerns one store and asks for the
\* new one.  agentRunning is not cleared.
ClearPanel ==
  /\ draft' = NoDraft /\ approval' = 0 /\ submission' = 0
  /\ summary' = NoSummary
  /\ UNCHANGED running

LoadStore(s, id) == NewCall(id, "store", s, None, 0)

\* A change of the selection to s, and the effect it fires when the page is the
\* rep's.
ChangeSelection(s, rest) ==
  /\ selected' = s
  /\ IF s # selected /\ role = "rep"
     THEN ClearPanel /\ Send(rest, LoadStore(s, next))
     ELSE calls' = rest /\ UNCHANGED <<next, panel, agent>>

--------------------------------------------------------------------------------
(* The route and the selected store *)

\* setVisits and setSelectedStoreId: the first visit is selected whatever the
\* user selected in the meantime.
VisitsShown(rest) ==
  /\ visits' = TRUE
  /\ ChangeSelection(Route[1], rest)
  /\ UNCHANGED <<role, shown, board, error, cache, orders, history>>

\* getTodayVisits().then: the route is shown, then written to the cache.
VisitsAnswered(c) ==
  /\ c.kind = "visits" /\ c.stage = "sent"
  /\ VisitsShown(At(c, "caching"))

\* The catch of a failed request or of a failed write: it shows the cached route.
VisitsFromCache(c) ==
  /\ c.kind = "visits" /\ None \in cache
  /\ VisitsShown(calls \ {c})

SelectStore(s) ==
  /\ Tap /\ role = "rep" /\ visits /\ s # selected
  /\ ChangeSelection(s, calls)
  /\ UNCHANGED <<role, visits, shown, board, error, cache, orders, history>>

\* A load is shown or fails, noted.
Note(c, s) ==
  /\ lastLoad' = IF c.id > lastLoad THEN c.id ELSE lastLoad
  /\ stale' = s

StoreShown(c) ==
  /\ shown' = c.store
  /\ Note(c, c.id < lastLoad)
  /\ UNCHANGED <<role, selected, visits, panel, agent, board, error, cache, orders,
                 patient, dismissed, touched, others>>

\* Promise.all([getStore, getAlerts, getRGMRecommendations]).then: the answer is
\* shown whatever store is selected by now, then written to the cache.
StoreAnswered(c) ==
  /\ c.kind = "store" /\ c.stage = "sent"
  /\ StoreShown(c) /\ Move(c, "caching")

\* The catch of a failed request or of a failed write: it shows the cached copy.
StoreFromCache(c) ==
  /\ c.kind = "store" /\ c.store \in cache
  /\ StoreShown(c) /\ Done(c)

\* The write to the cache is done.
Cached(c) ==
  /\ c.stage = "caching"
  /\ cache' = cache \cup {c.store}
  /\ Done(c)
  /\ UNCHANGED <<shell, panel, agent, board, error, orders, history>>

CatchLoad(c) ==
  /\ c.kind \in Loads /\ Done(c)
  /\ UNCHANGED <<shell, panel, agent, board, cache, orders,
                 patient, dismissed, touched, others>>

\* The catch finds no cached copy: the page keeps what it shows.
LoadFailed(c) ==
  /\ CatchLoad(c) /\ c.store \notin cache
  /\ error' = TRUE
  /\ IF c.kind = "store" THEN Note(c, stale) ELSE UNCHANGED loadNotes

\* cacheGet rejects inside the catch: the same, and nobody is told.
LoadLost(c) ==
  /\ CatchLoad(c)
  /\ UNCHANGED error
  /\ IF c.kind = "store" /\ c.stage = "sent"
     THEN Note(c, stale \/ c.id > lastLoad)
     ELSE UNCHANGED loadNotes

--------------------------------------------------------------------------------
(* Roles and the manager screen *)

\* switchRole clears the manager's data and the error, not the rep's selection,
\* store or panel.  The effects of the new role then run: the route and the
\* selected store for a rep, the screen for a manager.
SwitchTo(r, s) ==
  /\ role' = r /\ selected' = s
  /\ board' = NoBoard /\ error' = FALSE
  /\ IF r = "manager"
     THEN /\ Send(calls, NewCall(next, "board", None, None, 0))
          /\ UNCHANGED <<panel, agent>>
     ELSE IF s = None
          THEN /\ Send(calls, NewCall(next, "visits", None, None, 0))
               /\ UNCHANGED <<panel, agent>>
          ELSE /\ calls' = calls \cup {NewCall(next, "visits", None, None, 0),
                                       LoadStore(s, next + 1)}
               /\ next' = next + 2
               /\ ClearPanel
  /\ dismissed' = FALSE
  /\ UNCHANGED <<visits, shown, cache, orders, patient, loadNotes, touched, others>>

SwitchRole(r) == Tap /\ r # role /\ SwitchTo(r, selected)

\* The button of the role in force: switchRole clears as it always does, but no
\* effect depends on what it changed, so nothing is loaded again.
RepickRole ==
  /\ Tap /\ (board # NoBoard \/ error)
  /\ board' = NoBoard /\ error' = FALSE
  /\ dismissed' = (dismissed \/ (error /\ role = "rep"))
  /\ UNCHANGED <<shell, panel, agent, cache, calls, next, orders,
                 patient, loadNotes, touched, others>>

\* openManagerStore: to the rep page with the store of a row selected.
OpenManagerStore(s) ==
  /\ Tap /\ role = "manager" /\ board.loaded
  /\ SwitchTo("rep", s)

\* Promise.all([getTerritorySummary, getApprovalQueue, getManagerTasks]).then:
\* set whatever the role is by now.
BoardAnswered(c) ==
  /\ c.kind = "board" /\ c.stage = "served"
  /\ board' = [loaded |-> TRUE, queue |-> c.found]
  /\ Done(c)
  /\ UNCHANGED <<shell, panel, agent, error, cache, orders, history>>

BoardFailed(c) ==
  /\ c.kind = "board" /\ c.stage \in {"sent", "served"}
  /\ error' = TRUE
  /\ Done(c)
  /\ UNCHANGED <<shell, panel, agent, board, cache, orders, history>>

\* approveQueueDraft: approve, then fetch the queue again and show it.
ApproveQueued(d) ==
  /\ Tap /\ role = "manager" /\ board.loaded /\ d \in board.queue
  /\ Send(calls, NewCall(next, "approveQueued", None, None, d))
  /\ UNCHANGED <<shell, panel, agent, board, error, cache, orders, history>>

QueuedApprovedUnfetched(c) ==
  /\ c.kind = "approveQueued" /\ c.stage = "served"
  /\ Done(c)
  /\ UNCHANGED <<shell, panel, agent, board, error, cache, orders, history>>

QueuedApproved(c) ==
  /\ c.kind = "approveQueued" /\ c.stage = "served"
  /\ Send(calls \ {c}, NewCall(next, "queue", None, None, 0))
  /\ UNCHANGED <<shell, panel, agent, board, error, cache, orders, history>>

QueueAnswered(c) ==
  /\ c.kind = "queue" /\ c.stage = "served"
  /\ board' = [board EXCEPT !.queue = c.found]
  /\ Done(c)
  /\ UNCHANGED <<shell, panel, agent, error, cache, orders, history>>

--------------------------------------------------------------------------------
(* The draft panel and the summary box *)

\* The detail pane renders when a store is set and the selected one is a visit.
PaneOpen ==
  /\ role = "rep" /\ shown # None
  /\ visits /\ \E i \in DOMAIN Route : Route[i] = selected

TapInPane(c) ==
  /\ Tap /\ PaneOpen
  /\ Send(calls, c)
  /\ UNCHANGED <<shell, panel, board, error, cache, orders, history>>

\* draftTopAlert drafts for the store of the first alert shown.
DraftTopAlert ==
  TapInPane(NewCall(next, "create", shown, None, 0)) /\ UNCHANGED agent

ApproveDraftOptimistic ==
  /\ Tap /\ PaneOpen /\ draft.id # 0 /\ draft.status = "DRAFT"
  /\ Send(calls, NewCall(next, "approve", None, None, draft.id))
  /\ approval' = draft.id
  /\ UNCHANGED <<shell, draft, submission, agent, board, error, cache, orders, history>>

ApproveDraft ==
  /\ draft.id # 0 /\ draft.status = "DRAFT"
  /\ TapInPane(NewCall(next, "approve", None, None, draft.id)) /\ UNCHANGED agent

SubmitSandbox ==
  /\ draft.id # 0 /\ draft.status = "APPROVED"
  /\ TapInPane(NewCall(next, "submit", None, None, draft.id)) /\ UNCHANGED agent

\* summarize names the selected store and the alerts of the store shown.
Summarize ==
  TapInPane(NewCall(next, "summary", selected, shown, 0)) /\ UNCHANGED agent

\* runAssistant, runAgentOrderDraftForTopAlert, runAgentVisitLogDraftForStore:
\* one at a time.
RunAgent(kind) ==
  /\ ~running
  /\ TapInPane(NewCall(next, kind,
                       IF kind = "runDraft" THEN shown ELSE selected, shown, 0))
  /\ running' = TRUE /\ UNCHANGED summary

Answered(c, kind) ==
  /\ c.kind = kind /\ c.stage = "served"
  /\ Done(c)
  /\ UNCHANGED <<shell, board, error, cache, orders, history>>

\* The submission of an earlier draft stays in the panel.
DraftCreated(c) ==
  /\ Answered(c, "create")
  /\ draft' = [id |-> c.id, status |-> "DRAFT"] /\ approval' = 0
  /\ UNCHANGED <<submission, agent>>

MarkDraftUnspread(status) ==
  draft' = IF draft.id = 0 THEN draft ELSE [status |-> status]

\* setDraft(current => ...): whichever draft is in the panel by now.
MarkDraft(status) ==
  draft' = IF draft.id = 0 THEN draft ELSE [id |-> draft.id, status |-> status]

DraftApproved(c) ==
  /\ Answered(c, "approve")
  /\ approval' = c.order
  /\ MarkDraft("APPROVED")
  /\ UNCHANGED <<submission, agent>>

DraftSubmitted(c) ==
  /\ Answered(c, "submit")
  /\ submission' = c.order
  /\ MarkDraft("SUBMITTED_SANDBOX")
  /\ UNCHANGED <<approval, agent>>

Summarized(c) ==
  /\ c.kind = "summary"
  /\ summary' = [id |-> c.id, store |-> c.store, alerts |-> c.alerts, audit |-> TRUE]
  /\ Done(c)
  /\ UNCHANGED <<shell, panel, running, board, error, cache, orders, history>>

\* The page gives c up: its fetch failed, or the stream broke.  The backend may
\* have committed its work, may still do so, or never.
GiveUp(c) ==
  IF c.kind \in Drafting \cup Deciding /\ c.stage \in {"sent", "loaded"}
  THEN /\ calls' = (calls \ {c}) \cup {[c EXCEPT !.gone = TRUE]}
       /\ UNCHANGED <<next, touched>>
  ELSE /\ Done(c)
       /\ Touch(IF c.kind = "queue" THEN Known
                ELSE IF c.stage = "served" THEN {Names(c)} ELSE {})

\* The promises of these taps have no catch: nothing on the page changes.
FailedUnreported(c) ==
  /\ c.kind \in Writes \cup {"summary", "queue"} /\ ~c.gone
  /\ GiveUp(c)
  /\ UNCHANGED <<shell, panel, agent, board, error, cache, orders,
                 patient, loadNotes, dismissed, others>>

--------------------------------------------------------------------------------
(* The agent stream: handleAgentEvent, one action per event that sets state *)

StreamMessage(c) ==
  /\ c.kind = "runSummary" /\ c.stage = "sent"
  /\ summary' = [id |-> c.id, store |-> c.store, alerts |-> c.alerts, audit |-> FALSE]
  /\ Move(c, "told")
  /\ UNCHANGED <<shell, panel, running, board, error, cache, orders, history>>

StreamAction(c) ==
  /\ \/ /\ c.kind = "runDraft" /\ c.stage = "served"
        /\ draft' = [id |-> c.id, status |-> "DRAFT"]
        /\ approval' = 0 /\ submission' = 0
     \/ /\ c.kind = "runVisitLog" /\ c.stage = "sent"
        /\ UNCHANGED panel
  /\ Move(c, "told")
  /\ UNCHANGED <<shell, agent, board, error, cache, orders, history>>

\* The audit event of any run is noted on the summary shown; the run is over.
StreamAudit(c) ==
  /\ c.stage = "told"
  /\ summary' = IF summary.id = 0 THEN summary ELSE [summary EXCEPT !.audit = TRUE]
  /\ running' = FALSE
  /\ Done(c)
  /\ UNCHANGED <<shell, panel, board, error, cache, orders, history>>

StreamBreaksRunning(c) ==
  /\ c.kind \in Streams /\ ~c.gone
  /\ GiveUp(c)
  /\ UNCHANGED <<shell, panel, agent, board, error, cache, orders,
                 patient, loadNotes, dismissed, others>>

\* The request is refused or the stream ends early: agentError, and finally.
StreamBreaks(c) ==
  /\ c.kind \in Streams /\ ~c.gone
  /\ running' = FALSE
  /\ GiveUp(c)
  /\ UNCHANGED <<shell, panel, summary, board, error, cache, orders,
                 patient, loadNotes, dismissed, others>>

--------------------------------------------------------------------------------
(* The backend *)

Frontend == <<shell, panel, agent, board, error, cache, patient, loadNotes, dismissed>>

\* get_draft_for_approval and the check of submit: the handler goes on with the
\* row as it is now.
Load(c) ==
  /\ c.kind \in Deciding /\ c.stage = "sent"
  /\ IF orders[c.order].status \in
          (IF c.kind = "submit" THEN {"APPROVED"} ELSE {"DRAFT", "REJECTED"})
     THEN Move(c, "loaded")
     ELSE IF c.gone THEN Done(c) ELSE Move(c, "refused")
  /\ UNCHANGED <<Frontend, orders, touched, others>>

\* The row of the draft that c is about, as c's commit leaves it.
Row(c) ==
  CASE c.kind \in Drafting -> NewDraft(c.store)
    [] c.kind \in Approving ->
         [orders[c.order] EXCEPT !.status = "APPROVED", !.approved = TRUE]
    [] c.kind = "submit" ->
         [orders[c.order] EXCEPT !.status = "SUBMITTED_SANDBOX", !.ordered = TRUE]

\* The commit, whatever others have committed since the row was loaded.
Commit(c) ==
  /\ c.stage = IF c.kind \in Drafting THEN "sent" ELSE "loaded"
  /\ orders' = [orders EXCEPT ![Names(c)] = Row(c)]
  /\ IF c.gone
     THEN Done(c) /\ Touch({Names(c)})
     ELSE Move(c, "served") /\ UNCHANGED touched
  /\ UNCHANGED <<Frontend, others>>

\* A request given up never arrives, or its handler fails.
Vanish(c) ==
  /\ c.gone
  /\ Done(c)
  /\ UNCHANGED <<Frontend, orders, touched, others>>

\* approval_queue, alone or among what the manager screen loads.
ReadQueue(c) ==
  /\ c.kind \in {"board", "queue"} /\ c.stage = "sent"
  /\ calls' = (calls \ {c}) \cup {[c EXCEPT !.stage = "served", !.found = Pending]}
  /\ touched' = {}
  /\ UNCHANGED <<Frontend, next, orders, others>>

--------------------------------------------------------------------------------
(* Other clients, and the browser's end of a page *)

\* A step of another client.
Other ==
  /\ others < (IF patient THEN MaxOthers ELSE HastyOthers)
  /\ others' = others + 1

\* Another rep drafts.
DraftedElsewhere(f, s) ==
  /\ Other
  /\ f \notin Known
  /\ orders' = [orders EXCEPT ![f] = NewDraft(s)]
  /\ Touch({f})
  /\ UNCHANGED <<Frontend, calls, next>>

\* Another client approves, rejects or submits draft d: the row it has loaded may
\* be as old as the draft, so any status may be overwritten, but an approval is
\* looked up before a submission.
DecidedElsewhere(d, status) ==
  /\ Other
  /\ d \in Known
  /\ status = "SUBMITTED_SANDBOX" => orders[d].approved
  /\ orders' = [orders EXCEPT ![d].status = status,
                              ![d].approved = @ \/ status = "APPROVED",
                              ![d].ordered = @ \/ status = "SUBMITTED_SANDBOX"]
  /\ Touch({d})
  /\ UNCHANGED <<Frontend, calls, next>>

\* The page is reloaded: React state is gone, the role and the cache stay, and
\* so do the writes that the backend has not committed.
Reload ==
  /\ Tap
  /\ selected' = None /\ visits' = FALSE /\ shown' = None
  /\ draft' = NoDraft /\ approval' = 0 /\ submission' = 0
  /\ summary' = NoSummary /\ running' = FALSE
  /\ board' = NoBoard /\ error' = FALSE
  /\ Send({[c EXCEPT !.gone = TRUE] :
             c \in {x \in calls : /\ x.kind \in Drafting \cup Deciding
                                  /\ x.stage \in {"sent", "loaded"}}},
          NewCall(next, IF role = "rep" THEN "visits" ELSE "board", None, None, 0))
  /\ dismissed' = FALSE
  /\ UNCHANGED <<role, cache, orders, patient, loadNotes, touched, others>>

--------------------------------------------------------------------------------

User ==
  \/ \E s \in Stores : SelectStore(s) \/ OpenManagerStore(s)
  \/ \E r \in {"rep", "manager"} : SwitchRole(r)
  \/ RepickRole
  \/ \E d \in Drafts : ApproveQueued(d)
  \/ DraftTopAlert \/ ApproveDraft \/ SubmitSandbox \/ Summarize
  \/ \E k \in Streams : RunAgent(k)
  \/ Reload

Ends(c) ==
  \/ VisitsAnswered(c) \/ VisitsFromCache(c) \/ StoreAnswered(c) \/ StoreFromCache(c)
  \/ Cached(c) \/ LoadFailed(c) \/ LoadLost(c)
  \/ BoardAnswered(c) \/ BoardFailed(c) \/ QueuedApproved(c) \/ QueueAnswered(c)
  \/ DraftCreated(c) \/ DraftApproved(c) \/ DraftSubmitted(c) \/ Summarized(c)
  \/ FailedUnreported(c)
  \/ StreamMessage(c) \/ StreamAction(c) \/ StreamAudit(c) \/ StreamBreaks(c)

Backend(c) == Load(c) \/ Commit(c) \/ Vanish(c) \/ ReadQueue(c)

Elsewhere ==
  \/ \E f \in Foreign, s \in Stores : DraftedElsewhere(f, s)
  \/ \E d \in Drafts, status \in Status \ {"DRAFT"} : DecidedElsewhere(d, status)

Network(c) == Backend(c) \/ Ends(c)

Next == User \/ Elsewhere \/ \E c \in calls : Network(c)

Spec == Init /\ [][Next]_vars

\* The fetch of a run ends: it is answered, breaks or is given up and served or
\* not.  Nothing obliges the user, and other fetches may take for ever.
FairSpec ==
  Spec /\ WF_vars(\E c \in calls : c.kind \in Streams /\ Network(c))

--------------------------------------------------------------------------------
(* Properties *)

\* Type invariant.
TypeOK ==
  /\ role \in {"rep", "manager"} /\ selected \in StoreOrNone
  /\ visits \in BOOLEAN /\ shown \in StoreOrNone
  /\ draft \in [id: 0..MaxCalls, status: Status]
  /\ approval \in Drafts \cup {0} /\ submission \in Drafts \cup {0}
  /\ summary \in [id: 0..MaxCalls, store: StoreOrNone, alerts: StoreOrNone,
                  audit: BOOLEAN]
  /\ running \in BOOLEAN
  /\ board \in [loaded: BOOLEAN, queue: SUBSET Drafts]
  /\ error \in BOOLEAN /\ cache \in SUBSET StoreOrNone
  /\ calls \in SUBSET Call /\ next \in 1..(MaxCalls + 1)
  /\ orders \in [Drafts -> [store: StoreOrNone, status: Status,
                            approved: BOOLEAN, ordered: BOOLEAN]]
  /\ patient \in BOOLEAN /\ lastLoad \in 0..MaxCalls /\ stale \in BOOLEAN
  /\ dismissed \in BOOLEAN /\ touched \in SUBSET Drafts /\ others \in 0..MaxOthers

\* Is a store being loaded?  A load that is only written to the cache is not.
Loading == \E c \in calls : c.kind = "store" /\ c.stage = "sent"

\* A rep's page that loads no store shows the store highlighted in the route,
\* although each answer, each late one and each copy the cache falls back on is
\* shown whatever is selected by then (useWorkbenchController.ts:162-197); unless
\* the error banner is up (or was cleared by the button of the role in force), or
\* the newest load was overtaken by an older one or ended without a word.  For a
\* user who waits the draft in the panel is always for the store shown, and the
\* summary in its box about the store selected and the alerts shown.
PageOfSelectedStore ==
  /\ role = "rep" /\ selected # None /\ ~Loading /\ ~error /\ ~dismissed /\ ~stale =>
       shown = selected
  /\ patient /\ draft.id # 0 => orders[draft.id].store = shown
  /\ patient /\ summary.id # 0 => summary.store = selected /\ summary.alerts = shown

\* However taps and answers interleave, whatever others decide and however old the
\* row that a handler commits, an approval or ERP order shown in the panel was
\* recorded for the draft it names.  For a user who waits a status beyond DRAFT has
\* its record, and at rest the status shown is the backend's unless the draft
\* changed without this page having been told.
PanelTruthful ==
  /\ approval # 0 => orders[approval].approved
  /\ submission # 0 => orders[submission].ordered
  /\ patient /\ role = "rep" /\ draft.id # 0 =>
       /\ draft.status # "DRAFT" => orders[draft.id].approved
       /\ draft.status = "SUBMITTED_SANDBOX" => orders[draft.id].ordered
       /\ Awaited = {} /\ draft.id \notin touched =>
            draft.status = orders[draft.id].status

\* For a user who waits, the approval queue shown at rest agrees with the backend
\* on every draft that nobody else, and no request given up, has changed since the
\* queue was last read.
QueueTruthful ==
  patient /\ Awaited = {} /\ role = "manager" /\ board.loaded =>
    \A d \in Drafts \ touched : d \in board.queue <=> d \in Pending

\* An agent run leaves the running state, however its stream ends.
AgentStops == running ~> ~running
================================================================================

------------------------------ MODULE OrderHITL ------------------------------
(***************************************************************************)
(* The human-in-the-loop order pipeline of the backend: a rep drafts an    *)
(* order, somebody entitled to decide approves or rejects it, and an       *)
(* approved draft is sent to the ERP.  Every HTTP request runs in a        *)
(* handler (a coroutine with a database session of its own); handlers      *)
(* interleave at every await.  The database is read-committed: a handler   *)
(* sees what other handlers committed, its own writes become visible when  *)
(* it commits, and a flushed UPDATE keeps the row locked until then.  What *)
(* the ERP and the warehouse of Unity Catalog were told is not rolled      *)
(* back; a warehouse may end an INSERT later than it answers, or never.    *)
(*                                                                         *)
(* A request that a guard refuses (404, 409) changes nothing: it is a      *)
(* stuttering step, so each entry action carries its guards.               *)
(*                                                                         *)
(* A definition that precedes another with a longer name of the same stem  *)
(* (ApprovableAlways, Approvable) is a faulty variant of it: Next does not *)
(* use it, the properties fail when it takes the other's place.            *)
(***************************************************************************)
EXTENDS Naturals

CONSTANTS
    Requests,      \* request identities; a request is handled once
    Drafts,        \* draft ids (uuid4): a create draws one nobody has used
    Users, Stores, Territories,
    Items,         \* abstract item lists and notes of a draft
    Hashes,        \* digests
    Digest,        \* stable_payload_hash on <<rep, store, items>>
    Role,          \* Users -> rep, manager or admin (token claim)
    UserTerritory, \* Users -> territory of the token
    StoreRep, StoreTerritory,   \* the store master data
    Sinks,         \* audit configurations a process may be started with
    OneAtATime,    \* TRUE: the users of one draft never overlap their requests
    NoRow, NoRequest, NoApproval

VARIABLES
    drafts,     \* order_drafts, committed
    approvals,  \* approval_records, committed
    audit,      \* audit_events, committed
    unity,      \* the Unity Catalog audit table
    statements, \* events whose INSERT the warehouse took and has not done
    orders,     \* orders the ERP has accepted
    clock,      \* stands for utcnow(): orders the decisions by created_at
    sink,       \* the audit settings of the process
    pc,         \* where each handler is
    req         \* what each handler holds: arguments, the loaded row, ...

tables == <<drafts, approvals, audit>>
warehouse == <<unity, statements>>
outside == <<unity, statements, orders>>
vars == <<drafts, approvals, audit, unity, statements, orders, clock, sink, pc, req>>

-----------------------------------------------------------------------------
(* Types *)

Status == {"DRAFT", "APPROVED", "REJECTED", "SUBMITTED_SANDBOX"}
Kinds == {"create", "approve", "reject", "submit"}
AllSinks == {"postgres", "dual_fail_closed", "dual_fail_open", "unity_catalog"}

DraftRow == [rep: Users, store: Stores, items: Items, status: Status]

Approval == [id: Requests, draft: Drafts, approved: BOOLEAN, by: Users,
             hash: Hashes, at: Nat]

EventTypes == {"order_draft_created", "order_draft_approved",
               "order_draft_rejected", "order_sandbox_submitted"}

AuditEvent == [id: Requests, type: EventTypes, draft: Drafts, by: Users,
               approval: Requests \cup {NoApproval}, hash: Hashes]

ErpOrder == [id: Requests, draft: Drafts, approval: Requests \cup {NoApproval},
             hash: Hashes]

Handler == [kind: Kinds, user: Users, draft: Drafts, row: DraftRow,
            at: Nat, cites: Requests \cup {NoApproval}]

InFlight == {"loaded", "recorded", "matched", "accepted", "logged", "mirrored"}

ASSUME ConstantsTyped ==
    /\ Role \in [Users -> {"rep", "manager", "admin"}]
    /\ UserTerritory \in [Users -> Territories]
    /\ StoreRep \in [Stores -> Users]
    /\ StoreTerritory \in [Stores -> Territories]
    /\ Digest \in [Users \X Stores \X Items -> Hashes]
    /\ Sinks \subseteq AllSinks
    /\ OneAtATime \in BOOLEAN

ASSUME NullsDistinct ==
    /\ NoRow \notin DraftRow
    /\ NoRequest \notin Handler
    /\ NoApproval \notin Requests

-----------------------------------------------------------------------------
(* Access rules and the fixed tables of the code *)

\* rbac.assert_store_access(user, store.rep_id, store.territory_code)
StoreAccess(u, s) ==
    \/ Role[u] = "admin"
    \/ Role[u] = "manager" /\ UserTerritory[u] = StoreTerritory[s]
    \/ Role[u] = "rep" /\ u = StoreRep[s] /\ UserTerritory[u] = StoreTerritory[s]

\* get_draft_for_approval: the admin, the rep who wrote the draft, or a
\* manager with access to its store.
CanDecide(u, row) ==
    \/ Role[u] = "admin"
    \/ row.rep = u
    \/ Role[u] = "manager" /\ StoreAccess(u, row.store)

\* submit_order_draft_sandbox: the admin or the rep who wrote the draft.
CanSubmit(u, row) == Role[u] = "admin" \/ row.rep = u

PayloadHash(row) == Digest[<<row.rep, row.store, row.items>>]

\* The status checks of get_draft_for_approval and of the submit handler.
ApprovableAlways(row) == row.status \in Status
Approvable(row) == row.status \in {"DRAFT", "REJECTED"}

SubmittableOpen(row) == row.status # "SUBMITTED_SANDBOX"
SubmittableAlways(row) == row.status \in Status
Submittable(row) == row.status = "APPROVED"

\* The status a request of each kind writes, and the audit event it logs.
OutcomeOfErp == [create |-> "DRAFT", approve |-> "APPROVED",
                 reject |-> "REJECTED", submit |-> "SUBMITTED_EXTERNAL"]
Outcome == [create |-> "DRAFT", approve |-> "APPROVED",
            reject |-> "REJECTED", submit |-> "SUBMITTED_SANDBOX"]

EventType == [create |-> "order_draft_created", approve |-> "order_draft_approved",
              reject |-> "order_draft_rejected", submit |-> "order_sandbox_submitted"]

Decisions == {"approve", "reject"}
DualWrite == sink \in {"dual_fail_closed", "dual_fail_open"}

\* When the composite sink goes on after its mirror has raised an exception.
MirrorMayAlwaysFail == DualWrite
MirrorMayFail == sink = "dual_fail_open"

\* The session emits an UPDATE only when the attribute differs from what it
\* loaded: rejecting a draft loaded as REJECTED writes no status.
UpdatesByDecision(r) == req[r].kind \in Decisions
UpdatesFromDraft(r) == req[r].kind = "submit" \/ req[r].row.status = "DRAFT"
UpdatesStatus(r) ==
    req[r].kind # "create" /\ Outcome[req[r].kind] # req[r].row.status

\* The row lock of a flushed UPDATE, held until commit or rollback.  With
\* Unity Catalog as the only sink nothing flushes before the commit does.
HoldsRowForever(r, d) ==
    /\ pc[r] \in {"logged", "mirrored", "failed"}
    /\ sink # "unity_catalog"
    /\ req[r].draft = d
    /\ UpdatesStatus(r)

HoldsRow(r, d) ==
    /\ pc[r] \in {"logged", "mirrored"}
    /\ sink # "unity_catalog"
    /\ req[r].draft = d
    /\ UpdatesStatus(r)

RowFree(r) == UpdatesStatus(r) => \A q \in Requests \ {r} : ~HoldsRow(q, req[r].draft)

\* The rows a handler has added to its session: visible when it commits.
NewApproval(r) ==
    [id |-> r, draft |-> req[r].draft, approved |-> req[r].kind = "approve",
     by |-> req[r].user, hash |-> PayloadHash(req[r].row), at |-> req[r].at]

NewEventOwnId(r) ==
    [id |-> r, type |-> EventType[req[r].kind], draft |-> req[r].draft,
     by |-> req[r].user, approval |-> r, hash |-> PayloadHash(req[r].row)]

NewEvent(r) ==
    [id |-> r, type |-> EventType[req[r].kind], draft |-> req[r].draft,
     by |-> req[r].user,
     approval |-> IF req[r].kind \in Decisions THEN r ELSE req[r].cites,
     hash |-> PayloadHash(req[r].row)]

NewOrder(r) ==
    [id |-> r, draft |-> req[r].draft, approval |-> req[r].cites,
     hash |-> PayloadHash(req[r].row)]

\* What the SELECT of the submit handler finds; it takes the newest.
MatchingDecisions(d, hash) == {a \in approvals : a.draft = d /\ a.hash = hash}

MatchingApprovals(d, hash) ==
    {a \in approvals : a.draft = d /\ a.approved /\ a.hash = hash}

Idle(d) == \A q \in Requests : pc[q] \in InFlight => req[q].draft # d

-----------------------------------------------------------------------------
Init ==
    /\ drafts = [d \in Drafts |-> NoRow]
    /\ approvals = {}
    /\ audit = {}
    /\ unity = {}
    /\ statements = {}
    /\ orders = {}
    /\ clock = 0
    /\ sink \in Sinks
    /\ pc = [r \in Requests |-> "idle"]
    /\ req = [r \in Requests |-> NoRequest]

\* A request enters its handler with the row it built or loaded.
Begin(r, kind, u, d, row) ==
    /\ pc[r] = "idle"
    /\ pc' = [pc EXCEPT ![r] = "loaded"]
    /\ req' = [req EXCEPT ![r] = [kind |-> kind, user |-> u, draft |-> d,
                                  row |-> row, at |-> 0, cites |-> NoApproval]]
    /\ UNCHANGED <<tables, outside, clock, sink>>

\* POST /orders/drafts: the store must be the caller's own.
CreateDraft(r, u, s, i, d) ==
    /\ StoreRep[s] = u
    /\ StoreAccess(u, s)
    /\ \A q \in Requests : pc[q] # "idle" => req[q].draft # d
    /\ Begin(r, "create", u, d, [rep |-> u, store |-> s, items |-> i, status |-> "DRAFT"])

\* POST /approvals/{draft}/approve and /reject: load the draft and check it.
Decide(r, kind, u, d) ==
    /\ kind \in Decisions
    /\ drafts[d] # NoRow
    /\ CanDecide(u, drafts[d])
    /\ Approvable(drafts[d])
    /\ OneAtATime => Idle(d)
    /\ Begin(r, kind, u, d, drafts[d])

\* POST /orders/drafts/{draft}/submit-sandbox: load the draft and check it.
Submit(r, u, d) ==
    /\ drafts[d] # NoRow
    /\ CanSubmit(u, drafts[d])
    /\ Submittable(drafts[d])
    /\ OneAtATime => Idle(d)
    /\ Begin(r, "submit", u, d, drafts[d])

\* db.add(draft) or db.add(approval), then flush: the row exists for this
\* session only, and its created_at is taken now.
RecordRow(r) ==
    /\ pc[r] = "loaded"
    /\ req[r].kind # "submit"
    /\ pc' = [pc EXCEPT ![r] = "recorded"]
    /\ req' = [req EXCEPT ![r].at = clock]
    /\ clock' = clock + 1
    /\ UNCHANGED <<tables, outside, sink>>

\* The submit handler looks up the newest approval of this payload.
FindApproval(r) ==
    /\ pc[r] = "loaded"
    /\ req[r].kind = "submit"
    /\ \E a \in MatchingApprovals(req[r].draft, PayloadHash(req[r].row)) :
          /\ \A b \in MatchingApprovals(req[r].draft, PayloadHash(req[r].row)) : b.at <= a.at
          /\ req' = [req EXCEPT ![r].cites = a.id]
    /\ pc' = [pc EXCEPT ![r] = "matched"]
    /\ UNCHANGED <<tables, outside, clock, sink>>

\* erp.submit_order succeeds.  An order the ERP accepts and whose answer is
\* lost (timeout, error status) is this step followed by Fail.
CallERPUnchecked(r) ==
    /\ pc[r] = "matched"
    /\ orders' \in {orders, orders \cup {NewOrder(r)}}
    /\ pc' = [pc EXCEPT ![r] = "accepted"]
    /\ UNCHANGED <<tables, warehouse, clock, sink, req>>

CallERP(r) ==
    /\ pc[r] = "matched"
    /\ orders' = orders \cup {NewOrder(r)}
    /\ pc' = [pc EXCEPT ![r] = "accepted"]
    /\ UNCHANGED <<tables, warehouse, clock, sink, req>>

\* The client posts the INSERT and does not look at the state of the
\* statement: done, still running after wait_timeout, or failed, an answer of
\* 200 is no exception.
Insert(e) == statements' = statements \cup {e} /\ UNCHANGED unity

\* A statement is done, at once or later; one that failed never is.
StatementEnds ==
    /\ \E e \in statements :
          unity' = unity \cup {e} /\ statements' = statements \ {e}
    /\ UNCHANGED <<tables, orders, clock, sink, pc, req>>

\* log_audit_event: the primary sink.  Postgres flushes the event and the
\* status UPDATE, waiting for the row; Unity Catalog is handed an INSERT.
LogEvent(r) ==
    /\ pc[r] \in {"recorded", "accepted"}
    /\ pc' = [pc EXCEPT ![r] = "logged"]
    /\ \/ sink # "unity_catalog" /\ RowFree(r) /\ UNCHANGED warehouse
       \/ sink = "unity_catalog" /\ Insert(NewEvent(r))
    /\ UNCHANGED <<tables, orders, clock, sink, req>>

\* CompositeAuditSink: the mirror's INSERT is taken, or raises and the handler
\* goes on when the setting is fail-open (fail-closed: see Fail).
MirrorEvent(r) ==
    /\ pc[r] = "logged"
    /\ DualWrite
    /\ pc' = [pc EXCEPT ![r] = "mirrored"]
    /\ \/ Insert(NewEvent(r))
       \/ MirrorMayFail /\ UNCHANGED warehouse
    /\ UNCHANGED <<tables, orders, clock, sink, req>>

\* db.commit(): everything the session holds becomes visible at once.  The
\* UPDATE names the row by its key and overwrites whatever is there.
Commit(r) ==
    LET d == req[r].draft IN
    /\ pc[r] = IF DualWrite THEN "mirrored" ELSE "logged"
    /\ drafts' = [drafts EXCEPT ![d] =
                    IF req[r].kind = "create" THEN req[r].row
                    ELSE IF UpdatesStatus(r) THEN [@ EXCEPT !.status = Outcome[req[r].kind]]
                    ELSE @]
    /\ approvals' = approvals \cup
                    (IF req[r].kind \in Decisions THEN {NewApproval(r)} ELSE {})
    /\ audit' = audit \cup (IF sink # "unity_catalog" THEN {NewEvent(r)} ELSE {})
    /\ pc' = [pc EXCEPT ![r] = "done"]
    /\ UNCHANGED <<outside, clock, sink, req>>

\* An exception, a timeout, a lost connection or a crash: the session is
\* rolled back, what the ERP and Unity Catalog were told stays.
Fail(r) ==
    /\ pc[r] \in InFlight
    /\ pc' = [pc EXCEPT ![r] = "failed"]
    /\ UNCHANGED <<tables, outside, clock, sink, req>>

\* Every request has been answered or none is under way.
Quiet ==
    /\ \A r \in Requests : pc[r] \notin InFlight
    /\ UNCHANGED vars

Arrive(r) ==
    \/ \E u \in Users, s \in Stores, i \in Items, d \in Drafts : CreateDraft(r, u, s, i, d)
    \/ \E u \in Users, d \in Drafts, kind \in Decisions : Decide(r, kind, u, d)
    \/ \E u \in Users, d \in Drafts : Submit(r, u, d)

Progress(r) ==
    \/ RecordRow(r)
    \/ FindApproval(r)
    \/ CallERP(r)
    \/ LogEvent(r)
    \/ MirrorEvent(r)
    \/ Commit(r)

Next ==
    \/ \E r \in Requests : Arrive(r) \/ Progress(r) \/ Fail(r)
    \/ StatementEnds
    \/ Quiet

Spec == Init /\ [][Next]_vars

\* The event loop resumes every coroutine whose await is over, and every
\* outside call has a timeout: a handler that can go on does.
FairSpec == Spec /\ \A r \in Requests : WF_vars(Progress(r))

-----------------------------------------------------------------------------
(* Properties *)

\* Every variable holds values of its kind, and a handler that has started
\* holds its arguments.
TypeOK ==
    /\ drafts \in [Drafts -> DraftRow \cup {NoRow}]
    /\ approvals \subseteq Approval
    /\ audit \subseteq AuditEvent
    /\ unity \subseteq AuditEvent
    /\ statements \subseteq AuditEvent
    /\ orders \subseteq ErpOrder
    /\ clock \in Nat
    /\ sink \in Sinks
    /\ pc \in [Requests -> InFlight \cup {"idle", "done", "failed"}]
    /\ req \in [Requests -> Handler \cup {NoRequest}]
    /\ \A r \in Requests : pc[r] # "idle" => req[r] \in Handler

\* However requests interleave and fail, nothing reaches the ERP without a
\* committed approval of that very draft and payload hash, given by somebody
\* entitled to decide on it (orders.py: status check and approval lookup).
OrderBacked ==
    \A o \in orders : \E a \in approvals :
        /\ a.id = o.approval
        /\ a.draft = o.draft
        /\ a.approved
        /\ a.hash = o.hash
        /\ drafts[o.draft] # NoRow
        /\ a.hash = PayloadHash(drafts[o.draft])
        /\ CanDecide(a.by, drafts[o.draft])

\* The status column never claims what did not happen, even when a stale
\* handler overwrites it: APPROVED and REJECTED have a committed decision of
\* that kind, SUBMITTED_SANDBOX has an order at the ERP, and a draft that is
\* still DRAFT has had no decision at all.
StatusEvidence ==
    \A d \in Drafts : drafts[d] # NoRow =>
        /\ drafts[d].status = "APPROVED" => \E a \in approvals : a.draft = d /\ a.approved
        /\ drafts[d].status = "REJECTED" => \E a \in approvals : a.draft = d /\ ~a.approved
        /\ drafts[d].status = "SUBMITTED_SANDBOX" => \E o \in orders : o.draft = d
        /\ drafts[d].status = "DRAFT" => \A a \in approvals : a.draft # d

\* A submit handler that got past the status check finds its approval: the
\* 409 "Matching approval not found" of the code cannot be returned.
ApprovalAlwaysFound ==
    \A r \in Requests :
        pc[r] = "loaded" /\ req[r].kind = "submit" =>
            MatchingApprovals(req[r].draft, PayloadHash(req[r].row)) # {}

\* Every event a sink was handed.
Trail == audit \cup unity \cup statements

\* Where a committed event must be found, by audit configuration.  Unity
\* Catalog has it, or has only been asked to: fail-closed is no more than that.
TrailOf(e) ==
    /\ sink # "unity_catalog" => e \in audit
    /\ sink \in {"dual_fail_closed", "unity_catalog"} => e \in unity \cup statements

\* No row change is committed before every audit store the configuration names
\* has its event, or the INSERT of it: a draft that exists, a decision, a
\* submission.  A statement that is taken and fails afterwards leaves the
\* committed change without an event in Unity Catalog (clients/sql.py:63).
AuditComplete ==
    /\ \A d \in Drafts : drafts[d] # NoRow =>
          \E e \in Trail : e.type = "order_draft_created" /\ e.draft = d /\ TrailOf(e)
    /\ \A a \in approvals : \E e \in Trail :
          /\ e.id = a.id /\ e.draft = a.draft /\ e.by = a.by /\ e.hash = a.hash
          /\ e.type = IF a.approved THEN "order_draft_approved" ELSE "order_draft_rejected"
          /\ TrailOf(e)
    /\ \A d \in Drafts : drafts[d] # NoRow /\ drafts[d].status = "SUBMITTED_SANDBOX" =>
          \E e \in Trail :
             e.type = "order_sandbox_submitted" /\ e.draft = d /\ TrailOf(e)

\* An ERP order is missing from the trail only while its handler is at work
\* or because that handler failed after the ERP had accepted; and the trail
\* reports no submission the ERP has not accepted.
OrderAccounted ==
    /\ \A o \in orders :
          \/ pc[o.id] \in {"accepted", "logged", "mirrored", "failed"}
          \/ \E e \in Trail :
                e.id = o.id /\ e.type = "order_sandbox_submitted" /\ TrailOf(e)
    /\ \A e \in Trail : e.type = "order_sandbox_submitted" =>
          \E o \in orders : o.id = e.id /\ o.draft = e.draft /\ o.approval = e.approval

\* A row lock is never left behind: every request that starts is answered,
\* whoever else is writing the same draft.
RequestsFinish ==
    \A r \in Requests : pc[r] \in InFlight ~> pc[r] \in {"done", "failed"}

-----------------------------------------------------------------------------
(* The inductive invariant behind OrderBacked, StatusEvidence and           *)
(* ApprovalAlwaysFound: what a handler knows stays true while others run.   *)

\* What a draft says is fixed when it is created; only its status moves.
SameContents(row1, row2) ==
    row1.rep = row2.rep /\ row1.store = row2.store /\ row1.items = row2.items

\* A decision or submit handler works on a committed row with the contents
\* it loaded, and a row it saw decided is not DRAFT again.
LoadedRowValid ==
    \A r \in Requests : pc[r] # "idle" /\ req[r].kind # "create" =>
        LET row == drafts[req[r].draft] IN
        /\ row # NoRow
        /\ SameContents(req[r].row, row)
        /\ req[r].row.status # "DRAFT" => row.status # "DRAFT"

\* A draft id belongs to one create request, and the row is absent until
\* that request commits.
CreatesDistinct ==
    \A r \in Requests : pc[r] # "idle" /\ req[r].kind = "create" =>
        /\ req[r].row.status = "DRAFT"
        /\ pc[r] # "done" => drafts[req[r].draft] = NoRow
        /\ \A q \in Requests \ {r} :
              pc[q] # "idle" /\ req[q].kind = "create" => req[q].draft # req[r].draft

\* A row exists only because a create request committed it.
RowsCreated ==
    \A d \in Drafts : drafts[d] # NoRow =>
        \E r \in Requests : pc[r] = "done" /\ req[r].kind = "create" /\ req[r].draft = d

\* A decision handler passed the access and status checks of its row.
DecisionChecked ==
    \A r \in Requests : pc[r] # "idle" /\ req[r].kind \in Decisions =>
        /\ CanDecide(req[r].user, req[r].row)
        /\ req[r].row.status \in {"DRAFT", "REJECTED"}

\* A submit handler has a committed approval to find, then the one it
\* cites, then the order the ERP accepted on that authority.
SubmitChecked ==
    \A r \in Requests : pc[r] # "idle" =>
        /\ pc[r] = "recorded" => req[r].kind # "submit"
        /\ pc[r] \in {"matched", "accepted"} => req[r].kind = "submit"
        /\ req[r].kind = "submit" =>
              LET found == MatchingApprovals(req[r].draft, PayloadHash(req[r].row)) IN
              /\ req[r].row.status = "APPROVED"
              /\ found # {}
              /\ pc[r] \in {"matched", "accepted", "logged", "mirrored", "done"} =>
                    \E a \in found : a.id = req[r].cites
              /\ pc[r] \in {"accepted", "logged", "mirrored", "done"} => NewOrder(r) \in orders

\* A committed decision is about an existing draft, binds its contents and
\* was made by somebody entitled to make it.
ApprovalValid ==
    \A a \in approvals :
        /\ drafts[a.draft] # NoRow
        /\ a.hash = PayloadHash(drafts[a.draft])
        /\ CanDecide(a.by, drafts[a.draft])

PipelineInv ==
    /\ TypeOK
    /\ LoadedRowValid
    /\ CreatesDistinct
    /\ RowsCreated
    /\ DecisionChecked
    /\ SubmitChecked
    /\ ApprovalValid
    /\ StatusEvidence
    /\ OrderBacked

-----------------------------------------------------------------------------
(* Properties of users who take turns on a draft (OneAtATime) *)

\* One submission per draft is ever recorded, and it is never undone:
\* SUBMITTED_SANDBOX is the last state docs/architecture-ontology.md draws.
OneFinalSubmission ==
    \A e \in audit : e.type = "order_sandbox_submitted" =>
        /\ drafts[e.draft].status = "SUBMITTED_SANDBOX"
        /\ \A f \in audit : f.type = e.type /\ f.draft = e.draft => f = e

\* Until it is submitted, a draft shows what its newest decision says.
NewestDecisionRules ==
    \A a \in approvals :
        (\A b \in approvals : b.draft = a.draft => b.at <= a.at) =>
            \/ drafts[a.draft].status = "SUBMITTED_SANDBOX"
            \/ drafts[a.draft].status = IF a.approved THEN "APPROVED" ELSE "REJECTED"

\* The ERP is called only while the draft is APPROVED, on the authority of
\* the newest decision about it.
OrderFollowsDecision ==
    [][\A o \in orders' \ orders :
          /\ drafts[o.draft].status = "APPROVED"
          /\ \E a \in approvals : a.id = o.approval
                /\ \A b \in approvals : b.draft = o.draft => b.at <= a.at]_vars

\* The pipeline as docs/architecture-ontology.md draws it.
Stage == [d \in Drafts |-> IF drafts[d] = NoRow THEN "NONE" ELSE drafts[d].status]

Workflow == INSTANCE OrderWorkflow WITH stage <- Stage, ordered <- {o.draft : o \in orders}

\* With users taking turns the handlers implement the documented workflow.
ImplementsWorkflow == Workflow!Spec
=============================================================================

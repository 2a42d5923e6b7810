------------------------- MODULE OrderWorkflowProofs -------------------------
(***************************************************************************)
(* Proofs about OrderHITL that rest on PipelineInv: the audit trail, for   *)
(* requests that interleave and fail as they like in every audit           *)
(* configuration; and what holds when the users of a draft take turns      *)
(* (OneAtATime): submissions are final, the newest decision rules, and the *)
(* handlers implement OrderWorkflow.                                       *)
(***************************************************************************)
EXTENDS OrderHITLProofs

-----------------------------------------------------------------------------
(* The inductive invariant of the audit trail *)

\* An event is what its handler reports, and a submission it reports has
\* reached the ERP.
EventsReal ==
    \A e \in Trail :
        /\ pc[e.id] \in {"logged", "mirrored", "done", "failed"}
        /\ e = NewEvent(e.id)
        /\ req[e.id].kind = "submit" => NewOrder(e.id) \in orders

\* The primary table has events of committed requests only.
AuditCommitted == \A e \in audit : pc[e.id] = "done"

\* The warehouse has what a handler had to hand it before it went on.
EventsKept ==
    \A r \in Requests :
        /\ pc[r] \in {"logged", "mirrored"} /\ sink = "unity_catalog" =>
              NewEvent(r) \in unity \cup statements
        /\ pc[r] = "mirrored" /\ sink = "dual_fail_closed" =>
              NewEvent(r) \in unity \cup statements
        /\ pc[r] = "done" => TrailOf(NewEvent(r))

\* A decision on record was committed by its own request.
DecisionsCommitted ==
    \A a \in approvals : \E r \in Requests :
        pc[r] = "done" /\ req[r].kind \in Decisions /\ a = NewApproval(r)

\* An order at the ERP was sent by a submit request that went on, or failed.
OrdersCalled ==
    \A o \in orders :
        /\ pc[o.id] \in {"accepted", "logged", "mirrored", "done", "failed"}
        /\ req[o.id].kind = "submit"
        /\ o = NewOrder(o.id)

\* A submitted draft was submitted by a committed request.
SubmissionsCommitted ==
    \A d \in Drafts : drafts[d] # NoRow /\ drafts[d].status = "SUBMITTED_SANDBOX" =>
        \E r \in Requests : pc[r] = "done" /\ req[r].kind = "submit" /\ req[r].draft = d

TrailInv ==
    /\ EventsReal
    /\ AuditCommitted
    /\ EventsKept
    /\ DecisionsCommitted
    /\ OrdersCalled
    /\ SubmissionsCommitted

-----------------------------------------------------------------------------
(* The inductive invariant of users who take turns *)

\* No two requests about one draft are under way.
TurnsTaken ==
    \A r \in Requests : \A q \in Requests \ {r} :
        pc[r] \in InFlight /\ pc[q] \in InFlight => req[r].draft # req[q].draft

\* So the row a handler has loaded is the row of the table.
RowCurrent ==
    \A r \in Requests : pc[r] \in InFlight /\ req[r].kind # "create" =>
        req[r].row = drafts[req[r].draft]

\* A decision under way is later than those on record, of which no two
\* about one draft have the same time.
DecisionsTimed ==
    /\ \A a \in approvals : a.at < clock
    /\ \A a, b \in approvals : a.draft = b.draft /\ a.at = b.at => a = b
    /\ \A r \in Requests :
          pc[r] \in {"recorded", "logged", "mirrored"} /\ req[r].kind \in Decisions =>
              /\ req[r].at < clock
              /\ \A a \in approvals : a.draft = req[r].draft => a.at < req[r].at

Newest(a) == \A b \in approvals : b.draft = a.draft => b.at <= a.at

\* A decided draft shows its newest decision.
LastDecision ==
    \A d \in Drafts : drafts[d] # NoRow /\ drafts[d].status \in {"APPROVED", "REJECTED"} =>
        \E a \in approvals :
            a.draft = d /\ (a.approved <=> drafts[d].status = "APPROVED") /\ Newest(a)

\* The approval a submit handler is about to cite is the newest decision.
CitesNewest ==
    \A r \in Requests : pc[r] = "matched" =>
        \E a \in approvals : a.id = req[r].cites /\ a.draft = req[r].draft /\ Newest(a)

TurnsInv ==
    /\ OneAtATime
    /\ TurnsTaken
    /\ RowCurrent
    /\ DecisionsTimed
    /\ LastDecision
    /\ CitesNewest
    /\ OneFinalSubmission

-----------------------------------------------------------------------------
(* What a step does to a handler and to the tables *)

\* A handler that has started stays as it is or takes a step of its own.
LEMMA OwnStep ==
    ASSUME TypeOK, [Next]_vars, NEW q \in Requests, pc[q] # "idle"
    PROVE  \/ pc'[q] = pc[q] /\ req'[q] = req[q]
           \/ Progress(q)
           \/ Fail(q)
<1>1. ASSUME NEW r \in Requests, Arrive(r)
      PROVE  pc'[q] = pc[q] /\ req'[q] = req[q]
  BY <1>1 DEF Arrive, CreateDraft, Decide, Submit, Begin, TypeOK
<1>2. ASSUME NEW r \in Requests \ {q}, Progress(r) \/ Fail(r)
      PROVE  pc'[q] = pc[q] /\ req'[q] = req[q]
  BY <1>2 DEF Progress, RecordRow, FindApproval, CallERP, LogEvent, MirrorEvent,
              Commit, Fail, TypeOK
<1>. QED
  BY <1>1, <1>2 DEF Next, StatementEnds, Quiet, vars

\* Where a handler's own step takes it, and what it changes of its record.
LEMMA OwnMove ==
    ASSUME TypeOK, NEW q \in Requests, pc[q] # "idle", Progress(q) \/ Fail(q)
    PROVE  /\ pc[q] \in InFlight
           /\ pc[q] # "loaded" => req'[q] = req[q]
           /\ pc[q] = "loaded" => pc'[q] \in {"recorded", "matched", "failed"}
           /\ pc[q] = "recorded" => pc'[q] \in {"logged", "failed"}
           /\ pc[q] = "matched" => pc'[q] \in {"accepted", "failed"}
           /\ pc[q] = "accepted" => pc'[q] \in {"logged", "failed"}
           /\ pc[q] = "logged" => pc'[q] \in {"mirrored", "done", "failed"}
           /\ pc[q] = "mirrored" => pc'[q] \in {"done", "failed"}
           /\ pc'[q] = "done" => Commit(q)
           /\ pc'[q] = "logged" => LogEvent(q)
           /\ pc'[q] = "mirrored" => MirrorEvent(q)
           /\ pc'[q] = "accepted" => CallERP(q)
           /\ pc'[q] = "matched" => FindApproval(q)
           /\ pc'[q] = "recorded" => RecordRow(q)
<1>1. CASE RecordRow(q)
  BY <1>1 DEF RecordRow, TypeOK, InFlight
<1>2. CASE FindApproval(q)
  BY <1>2 DEF FindApproval, TypeOK, InFlight
<1>3. CASE CallERP(q)
  BY <1>3 DEF CallERP, TypeOK, InFlight
<1>4. CASE LogEvent(q)
  BY <1>4 DEF LogEvent, TypeOK, InFlight
<1>5. CASE MirrorEvent(q)
  BY <1>5 DEF MirrorEvent, TypeOK, InFlight
<1>6. CASE Commit(q)
  BY <1>6 DEF Commit, TypeOK, InFlight
<1>7. CASE Fail(q)
  BY <1>7 DEF Fail, TypeOK, InFlight
<1>. QED
  BY <1>1, <1>2, <1>3, <1>4, <1>5, <1>6, <1>7 DEF Progress

\* Once past its first step a handler's record is settled, and so is what
\* the handler writes.
LEMMA Settled ==
    ASSUME TypeOK, [Next]_vars, NEW q \in Requests, pc[q] \notin {"idle", "loaded"}
    PROVE  /\ req'[q] = req[q]
           /\ NewEvent(q)' = NewEvent(q)
           /\ NewOrder(q)' = NewOrder(q)
           /\ NewApproval(q)' = NewApproval(q)
<1>1. req'[q] = req[q]
  BY OwnStep, OwnMove
<1>. QED
  BY <1>1 DEF NewEvent, NewOrder, NewApproval, PayloadHash

\* A handler never goes back.
LEMMA Onward ==
    ASSUME TypeOK, [Next]_vars, NEW q \in Requests
    PROVE  /\ pc[q] \in {"accepted", "logged", "mirrored", "done", "failed"} =>
                 pc'[q] \in {"accepted", "logged", "mirrored", "done", "failed"}
           /\ pc[q] \in {"logged", "mirrored", "done", "failed"} =>
                 pc'[q] \in {"logged", "mirrored", "done", "failed"}
BY OwnStep, OwnMove DEF InFlight

\* The trail only grows, by the events of handlers that log, mirror or
\* commit; the audit settings of the process are fixed.
LEMMA TrailGrows ==
    ASSUME [Next]_vars
    PROVE  /\ sink' = sink
           /\ audit \subseteq audit'
           /\ Trail \subseteq Trail'
           /\ unity \cup statements \subseteq unity' \cup statements'
           /\ \A e \in audit' \ audit : \E r \in Requests : Commit(r) /\ e = NewEvent(r)
           /\ \A e \in Trail' \ Trail : \E r \in Requests :
                 (LogEvent(r) \/ MirrorEvent(r) \/ Commit(r)) /\ e = NewEvent(r)
<1> USE DEF Trail, warehouse
<1>1. ASSUME NEW r \in Requests,
             Arrive(r) \/ RecordRow(r) \/ FindApproval(r) \/ CallERP(r) \/ Fail(r)
      PROVE  UNCHANGED <<sink, audit, unity, statements>>
  BY <1>1 DEF Arrive, CreateDraft, Decide, Submit, Begin, RecordRow, FindApproval,
              CallERP, Fail, tables, outside
<1>2. ASSUME NEW r \in Requests, LogEvent(r) \/ MirrorEvent(r)
      PROVE  /\ UNCHANGED <<sink, audit, unity>>
             /\ statements' \in {statements, statements \cup {NewEvent(r)}}
  BY <1>2 DEF LogEvent, MirrorEvent, Insert, tables
<1>3. ASSUME NEW r \in Requests, Commit(r)
      PROVE  /\ UNCHANGED <<sink, unity, statements>>
             /\ audit' \in {audit, audit \cup {NewEvent(r)}}
  BY <1>3 DEF Commit, outside
<1>4. UNCHANGED vars => UNCHANGED <<sink, audit, unity, statements>>
  BY DEF vars
<1>5. StatementEnds => /\ UNCHANGED <<sink, audit>>
                       /\ unity' \cup statements' = unity \cup statements
  BY DEF StatementEnds, tables
<1>. QED
  BY <1>1, <1>2, <1>3, <1>4, <1>5 DEF Next, Progress, Quiet

-----------------------------------------------------------------------------
(* The audit trail *)

\* Events stay what their handlers report; a new one is written when its
\* handler is past the ERP, if it submits at all.
LEMMA EventsStep ==
    ASSUME PipelineInv, EventsReal, [Next]_vars
    PROVE  EventsReal'
<1>1. TypeOK
  BY InvRows
<1> SUFFICES ASSUME NEW e \in Trail'
             PROVE  /\ pc'[e.id] \in {"logged", "mirrored", "done", "failed"}
                    /\ e = NewEvent(e.id)'
                    /\ req'[e.id].kind = "submit" => NewOrder(e.id)' \in orders'
  BY DEF EventsReal, NewEvent, NewOrder, PayloadHash
<1>2. CASE e \in Trail
  <2>1. /\ e.id \in Requests
        /\ pc[e.id] \in {"logged", "mirrored", "done", "failed"}
        /\ e = NewEvent(e.id)
        /\ req[e.id].kind = "submit" => NewOrder(e.id) \in orders
    BY <1>1, <1>2 DEF EventsReal, Trail, TypeOK, AuditEvent
  <2>. QED
    BY <1>1, <2>1, Settled, Onward, LogsGrow
<1>3. CASE e \notin Trail
  <2>1. PICK r \in Requests : /\ e = NewEvent(r)
                              /\ LogEvent(r) \/ MirrorEvent(r) \/ Commit(r)
    BY <1>3, TrailGrows
  <2>2. /\ e.id = r
        /\ pc[r] \in {"recorded", "accepted", "logged", "mirrored"}
        /\ pc'[r] \in {"logged", "mirrored", "done"}
    BY <1>1, <2>1 DEF LogEvent, MirrorEvent, Commit, TypeOK, NewEvent
  <2>3. /\ req'[r] = req[r]
        /\ NewEvent(r)' = NewEvent(r) /\ NewOrder(r)' = NewOrder(r)
    BY <1>1, <2>2, Settled
  <2>4. req[r].kind = "submit" => NewOrder(r) \in orders
    BY <2>2 DEF PipelineInv, SubmitChecked
  <2>. QED
    BY <2>1, <2>2, <2>3, <2>4, LogsGrow
<1>. QED
  BY <1>2, <1>3

\* The primary table gets an event when its request commits.
LEMMA CommittedStep ==
    ASSUME PipelineInv, AuditCommitted, [Next]_vars
    PROVE  AuditCommitted'
<1>1. TypeOK
  BY InvRows
<1> SUFFICES ASSUME NEW e \in audit'
             PROVE  pc'[e.id] = "done"
  BY DEF AuditCommitted
<1>2. CASE e \in audit
  BY <1>1, <1>2, DoneStays DEF AuditCommitted, TypeOK, AuditEvent
<1>3. CASE e \notin audit
  <2>1. PICK r \in Requests : Commit(r) /\ e = NewEvent(r)
    BY <1>3, TrailGrows
  <2>2. e.id = r
    BY <2>1 DEF NewEvent
  <2>. QED
    BY <1>1, <2>1, <2>2 DEF Commit, TypeOK
<1>. QED
  BY <1>2, <1>3

\* A sink keeps what it was told, and a handler moves on from a sink that
\* must succeed only when it did.
LEMMA KeptStep ==
    ASSUME PipelineInv, EventsKept, [Next]_vars
    PROVE  EventsKept'
<1>1. TypeOK /\ sink \in AllSinks
  BY InvRows, ConstantsTyped DEF TypeOK
<1> DEFINE handed == unity \cup statements
<1>2. sink' = sink /\ audit \subseteq audit' /\ handed \subseteq handed'
  BY TrailGrows
<1> SUFFICES ASSUME NEW r \in Requests
             PROVE  /\ pc'[r] \in {"logged", "mirrored"} /\ sink = "unity_catalog" =>
                          NewEvent(r)' \in handed'
                    /\ pc'[r] = "mirrored" /\ sink = "dual_fail_closed" =>
                          NewEvent(r)' \in handed'
                    /\ pc'[r] = "done" =>
                          /\ sink # "unity_catalog" => NewEvent(r)' \in audit'
                          /\ sink \in {"dual_fail_closed", "unity_catalog"} =>
                                NewEvent(r)' \in handed'
  BY <1>2 DEF EventsKept, TrailOf, NewEvent, PayloadHash
<1>3. CASE pc[r] = "idle"
  BY <1>1, <1>3, HandlerStarts, ArrivalKnows
<1>4. CASE pc[r] # "idle" /\ pc'[r] = pc[r] /\ req'[r] = req[r]
  <2>1. NewEvent(r)' = NewEvent(r)
    BY <1>4 DEF NewEvent, PayloadHash
  <2>. QED
    BY <1>2, <1>4, <2>1 DEF EventsKept, TrailOf
<1>5. CASE pc[r] # "idle" /\ (Progress(r) \/ Fail(r))
  <2>1. CASE pc'[r] = "logged"
    <3>1. LogEvent(r) /\ pc[r] \notin {"idle", "loaded"}
      BY <1>1, <1>5, <2>1, OwnMove DEF LogEvent
    <3>. QED
      BY <1>1, <2>1, <3>1, Settled DEF LogEvent, Insert
  <2>2. CASE pc'[r] = "mirrored"
    <3>1. MirrorEvent(r) /\ pc[r] = "logged"
      BY <1>1, <1>5, <2>2, OwnMove DEF MirrorEvent
    <3>2. DualWrite /\ (sink = "dual_fail_closed" => NewEvent(r) \in handed')
      BY <3>1 DEF MirrorEvent, MirrorMayFail, Insert
    <3>. QED
      BY <1>1, <2>2, <3>1, <3>2, Settled DEF DualWrite
  <2>3. CASE pc'[r] = "done"
    <3>1. /\ Commit(r)
          /\ pc[r] = IF DualWrite THEN "mirrored" ELSE "logged"
      BY <1>1, <1>5, <2>3, OwnMove DEF Commit
    <3>2. NewEvent(r)' = NewEvent(r)
      BY <1>1, <3>1, Settled
    <3>3. sink # "unity_catalog" => NewEvent(r) \in audit'
      BY <3>1 DEF Commit
    <3>4. sink \in {"dual_fail_closed", "unity_catalog"} => NewEvent(r) \in handed
      BY <3>1 DEF EventsKept, DualWrite
    <3>. QED
      BY <1>2, <2>3, <3>2, <3>3, <3>4
  <2>. QED
    BY <2>1, <2>2, <2>3
<1>. QED
  BY <1>1, <1>3, <1>4, <1>5, OwnStep

\* A decision gets on record with the commit of its request.
LEMMA DecisionsStep ==
    ASSUME PipelineInv, DecisionsCommitted, [Next]_vars
    PROVE  DecisionsCommitted'
<1>1. TypeOK
  BY InvRows
<1> SUFFICES ASSUME NEW a \in approvals'
             PROVE  \E r \in Requests :
                       pc'[r] = "done" /\ req'[r].kind \in Decisions /\ a = NewApproval(r)'
  BY DEF DecisionsCommitted, NewApproval, PayloadHash
<1>2. CASE a \in approvals
  <2>1. PICK r \in Requests : pc[r] = "done" /\ req[r].kind \in Decisions /\ a = NewApproval(r)
    BY <1>2 DEF DecisionsCommitted
  <2>. QED
    BY <1>1, <2>1, DoneStays, Settled
<1>3. CASE a \notin approvals
  <2>1. PICK r \in Requests : Commit(r) /\ req[r].kind \in Decisions /\ a = NewApproval(r)
    BY <1>3, LogsGrow
  <2>2. pc[r] \in {"logged", "mirrored"} /\ pc'[r] = "done"
    BY <1>1, <2>1 DEF Commit, TypeOK
  <2>. QED
    BY <1>1, <2>1, <2>2, Settled
<1>. QED
  BY <1>2, <1>3

\* An order stays with the submit handler that sent it.
LEMMA CalledStep ==
    ASSUME PipelineInv, OrdersCalled, [Next]_vars
    PROVE  OrdersCalled'
<1>1. TypeOK
  BY InvRows
<1> SUFFICES ASSUME NEW o \in orders'
             PROVE  /\ pc'[o.id] \in {"accepted", "logged", "mirrored", "done", "failed"}
                    /\ req'[o.id].kind = "submit"
                    /\ o = NewOrder(o.id)'
  BY DEF OrdersCalled, NewOrder, PayloadHash
<1>2. CASE o \in orders
  <2>1. /\ o.id \in Requests
        /\ pc[o.id] \in {"accepted", "logged", "mirrored", "done", "failed"}
        /\ req[o.id].kind = "submit"
        /\ o = NewOrder(o.id)
    BY <1>1, <1>2 DEF OrdersCalled, TypeOK, ErpOrder
  <2>. QED
    BY <1>1, <2>1, Settled, Onward
<1>3. CASE o \notin orders
  <2>1. PICK r \in Requests : CallERP(r) /\ o = NewOrder(r)
    BY <1>3, LogsGrow
  <2>2. o.id = r /\ pc[r] = "matched" /\ pc'[r] = "accepted"
    BY <1>1, <2>1 DEF CallERP, TypeOK, NewOrder
  <2>3. req[r].kind = "submit"
    BY <2>2 DEF PipelineInv, SubmitChecked
  <2>. QED
    BY <1>1, <2>1, <2>2, <2>3, Settled
<1>. QED
  BY <1>2, <1>3

\* A draft becomes SUBMITTED_SANDBOX only by the commit of a submission.
LEMMA SubmissionStep ==
    ASSUME PipelineInv, SubmissionsCommitted, [Next]_vars
    PROVE  SubmissionsCommitted'
<1>1. TypeOK /\ RowsKept
  BY InvRows
<1> SUFFICES ASSUME NEW d \in Drafts, drafts'[d] # NoRow,
                    drafts'[d].status = "SUBMITTED_SANDBOX"
             PROVE  \E r \in Requests :
                       pc'[r] = "done" /\ req'[r].kind = "submit" /\ req'[r].draft = d
  BY DEF SubmissionsCommitted
<1>2. CASE drafts[d] # NoRow /\ drafts[d].status = "SUBMITTED_SANDBOX"
  <2>1. PICK r \in Requests : pc[r] = "done" /\ req[r].kind = "submit" /\ req[r].draft = d
    BY <1>2 DEF SubmissionsCommitted
  <2>. QED
    BY <1>1, <2>1, DoneStays, Settled
<1>3. CASE ~(drafts[d] # NoRow /\ drafts[d].status = "SUBMITTED_SANDBOX")
  <2>1. PICK r \in Requests : Commit(r)
    BY <1>3 DEF Next, Arrive, Progress, CreateDraft, Decide, Submit, Begin, RecordRow,
           FindApproval, CallERP, LogEvent, MirrorEvent, Fail, StatementEnds, Quiet, tables, vars
  <2>2. pc[r] \in {"logged", "mirrored"} /\ pc'[r] = "done" /\ req'[r] = req[r]
        /\ req[r] \in Handler
    BY <1>1, <2>1 DEF Commit, TypeOK
  <2>3. req[r].draft = d
    BY <1>1, <1>3, <2>1, CommitRow
  <2>4. req[r].kind # "create"
    BY <1>1, <2>1, <2>2, <2>3, CommitRow DEF PipelineInv, CreatesDistinct
  <2>5. UpdatesStatus(r) /\ Outcome[req[r].kind] = "SUBMITTED_SANDBOX"
    BY <1>1, <1>3, <2>1, <2>3, <2>4, CommitRow, NullsDistinct
  <2>6. req[r].kind = "submit"
    BY <2>2, <2>5 DEF Handler, Kinds, Outcome
  <2>. QED
    BY <2>2, <2>3, <2>6
<1>. QED
  BY <1>2, <1>3

\* TrailInv is an invariant of the pipeline.
THEOREM TrailCorrect == Spec => []TrailInv
<1>1. Init => TrailInv
  BY DEF Init, TrailInv, EventsReal, Trail, AuditCommitted, EventsKept,
         DecisionsCommitted, OrdersCalled, SubmissionsCommitted
<1>2. PipelineInv /\ TrailInv /\ [Next]_vars => TrailInv'
  BY EventsStep, CommittedStep, KeptStep, DecisionsStep, CalledStep, SubmissionStep
     DEF TrailInv
<1>. QED
  BY <1>1, <1>2, PipelineCorrect, PTL DEF Spec

\* The event of a committed request is in the trail.
LEMMA InTrail ==
    ASSUME PipelineInv, EventsKept, NEW r \in Requests, pc[r] = "done"
    PROVE  NewEvent(r) \in Trail /\ TrailOf(NewEvent(r))
<1>1. TrailOf(NewEvent(r))
  BY DEF EventsKept
<1>2. sink = "unity_catalog" \/ sink # "unity_catalog"
  OBVIOUS
<1>. QED
  BY <1>1, <1>2 DEF TrailOf, Trail

\* Whatever the audit configuration, and however requests interleave and
\* fail: no draft, decision or submission is committed before every audit
\* store the configuration names has its event or has taken the INSERT of it
\* (audit_sinks.py, clients/sql.py, orders.py, approvals.py).
THEOREM TrailIsComplete == Spec => []AuditComplete
<1>1. PipelineInv /\ TrailInv => AuditComplete
  <2> SUFFICES ASSUME PipelineInv, TrailInv
               PROVE  AuditComplete
    OBVIOUS
  <2>1. ASSUME NEW d \in Drafts, drafts[d] # NoRow
        PROVE  \E e \in Trail :
                  e.type = "order_draft_created" /\ e.draft = d /\ TrailOf(e)
    <3>1. PICK r \in Requests : pc[r] = "done" /\ req[r].kind = "create" /\ req[r].draft = d
      BY <2>1 DEF PipelineInv, RowsCreated
    <3>2. NewEvent(r) \in Trail /\ TrailOf(NewEvent(r))
      BY <3>1, InTrail DEF TrailInv
    <3>3. NewEvent(r).type = "order_draft_created" /\ NewEvent(r).draft = d
      BY <3>1 DEF NewEvent, EventType
    <3>. QED
      BY <3>2, <3>3
  <2>2. ASSUME NEW a \in approvals
        PROVE  \E e \in Trail :
                  /\ e.id = a.id /\ e.draft = a.draft /\ e.by = a.by /\ e.hash = a.hash
                  /\ e.type = IF a.approved THEN "order_draft_approved" ELSE "order_draft_rejected"
                  /\ TrailOf(e)
    <3>1. PICK r \in Requests : pc[r] = "done" /\ req[r].kind \in Decisions /\ a = NewApproval(r)
      BY DEF TrailInv, DecisionsCommitted
    <3>2. NewEvent(r) \in Trail /\ TrailOf(NewEvent(r))
      BY <3>1, InTrail DEF TrailInv
    <3>3. /\ a.id = r /\ a.draft = req[r].draft /\ a.by = req[r].user
          /\ a.hash = PayloadHash(req[r].row)
      BY <3>1 DEF NewApproval
    <3>4. a.approved <=> req[r].kind = "approve"
      BY <3>1 DEF NewApproval
    <3>5. LET e == NewEvent(r) IN
          /\ e.id = r /\ e.draft = req[r].draft /\ e.by = req[r].user
          /\ e.hash = PayloadHash(req[r].row)
          /\ e.type = IF req[r].kind = "approve" THEN "order_draft_approved"
                      ELSE "order_draft_rejected"
      BY <3>1 DEF NewEvent, EventType, Decisions
    <3>. QED
      BY <3>2, <3>3, <3>4, <3>5
  <2>3. ASSUME NEW d \in Drafts, drafts[d] # NoRow, drafts[d].status = "SUBMITTED_SANDBOX"
        PROVE  \E e \in Trail :
                  e.type = "order_sandbox_submitted" /\ e.draft = d /\ TrailOf(e)
    <3>1. PICK r \in Requests : pc[r] = "done" /\ req[r].kind = "submit" /\ req[r].draft = d
      BY <2>3 DEF TrailInv, SubmissionsCommitted
    <3>2. NewEvent(r) \in Trail /\ TrailOf(NewEvent(r))
      BY <3>1, InTrail DEF TrailInv
    <3>3. NewEvent(r).type = "order_sandbox_submitted" /\ NewEvent(r).draft = d
      BY <3>1 DEF NewEvent, EventType
    <3>. QED
      BY <3>2, <3>3
  <2>. QED
    BY <2>1, <2>2, <2>3 DEF AuditComplete
<1>. QED
  BY <1>1, PipelineCorrect, TrailCorrect, PTL

\* An order at the ERP is missing from the trail only while its handler is
\* at work or because it failed afterwards, and the trail claims no
\* submission the ERP has not accepted (orders.py submit_order_draft_sandbox).
THEOREM OrdersAreAccounted == Spec => []OrderAccounted
<1>1. PipelineInv /\ TrailInv => OrderAccounted
  <2> SUFFICES ASSUME PipelineInv, TrailInv
               PROVE  OrderAccounted
    OBVIOUS
  <2>1. ASSUME NEW o \in orders, pc[o.id] \notin {"accepted", "logged", "mirrored", "failed"}
        PROVE  \E e \in Trail :
                  e.id = o.id /\ e.type = "order_sandbox_submitted" /\ TrailOf(e)
    <3>1. o.id \in Requests /\ pc[o.id] = "done" /\ req[o.id].kind = "submit"
      BY <2>1 DEF TrailInv, OrdersCalled, PipelineInv, TypeOK, ErpOrder
    <3>2. NewEvent(o.id) \in Trail /\ TrailOf(NewEvent(o.id))
      BY <3>1, InTrail DEF TrailInv
    <3>3. NewEvent(o.id).type = "order_sandbox_submitted" /\ NewEvent(o.id).id = o.id
      BY <3>1 DEF NewEvent, EventType
    <3>. QED
      BY <3>2, <3>3
  <2>2. ASSUME NEW e \in Trail, e.type = "order_sandbox_submitted"
        PROVE  \E o \in orders : o.id = e.id /\ o.draft = e.draft /\ o.approval = e.approval
    <3>1. /\ e.id \in Requests
          /\ pc[e.id] # "idle"
          /\ e = NewEvent(e.id)
          /\ req[e.id].kind = "submit" => NewOrder(e.id) \in orders
      BY DEF TrailInv, EventsReal, Trail, PipelineInv, TypeOK, AuditEvent
    <3>2. req[e.id] \in Handler
      BY <3>1 DEF PipelineInv, TypeOK
    <3>3. req[e.id].kind = "submit"
      BY <2>2, <3>1, <3>2 DEF NewEvent, EventType, Handler, Kinds
    <3>4. e.draft = req[e.id].draft /\ e.approval = req[e.id].cites
      BY <3>1, <3>3 DEF NewEvent, Decisions
    <3>. QED
      BY <3>1, <3>3, <3>4 DEF NewOrder
  <2>. QED
    BY <2>1, <2>2 DEF OrderAccounted
<1>. QED
  BY <1>1, PipelineCorrect, TrailCorrect, PTL

-----------------------------------------------------------------------------
(* Users who take turns on a draft *)

\* The request that comes in is about a draft nobody is working on.
LEMMA ArrivalWaits ==
    ASSUME TypeOK, OneAtATime, NEW r \in Requests, Arrive(r),
           NEW q \in Requests, pc[q] \in InFlight
    PROVE  req[q].draft # req'[r].draft
<1>1. pc[q] # "idle"
  BY DEF InFlight
<1>2. ASSUME NEW kind, NEW u, NEW d, NEW row, Begin(r, kind, u, d, row)
      PROVE  req'[r].draft = d
  BY <1>2 DEF Begin, TypeOK
<1>. QED
  BY <1>1, <1>2 DEF Arrive, CreateDraft, Decide, Submit, Idle

\* A handler that is under way after a step was so before, or has arrived.
LEMMA UnderWay ==
    ASSUME TypeOK, [Next]_vars, NEW q \in Requests, pc[q] # "idle", pc'[q] \in InFlight
    PROVE  pc[q] \in InFlight
BY OwnStep, OwnMove

\* A step leaves at most one handler at work on a draft.
LEMMA TurnsStep ==
    ASSUME PipelineInv, OneAtATime, TurnsTaken, [Next]_vars
    PROVE  TurnsTaken'
<1>1. TypeOK
  BY InvRows
<1> SUFFICES ASSUME NEW r \in Requests, NEW q \in Requests \ {r},
                    pc'[r] \in InFlight, pc'[q] \in InFlight
             PROVE  req'[r].draft # req'[q].draft
  BY DEF TurnsTaken
<1>2. ASSUME NEW p \in Requests, pc[p] = "idle", pc'[p] \in InFlight
      PROVE  /\ Arrive(p)
             /\ \A s \in Requests \ {p} : pc'[s] = pc[s] /\ req'[s] = req[s]
             /\ \A s \in Requests \ {p} : pc[s] \in InFlight => req'[s].draft # req'[p].draft
  <2>1. Arrive(p)
    BY <1>1, <1>2, HandlerStarts DEF InFlight
  <2>. QED
    BY <1>1, <2>1, ArrivalKnows, ArrivalWaits
<1>3. CASE pc[r] = "idle"
  BY <1>2, <1>3
<1>4. CASE pc[q] = "idle"
  BY <1>2, <1>4
<1>5. CASE pc[r] # "idle" /\ pc[q] # "idle"
  <2>1. pc[r] \in InFlight /\ pc[q] \in InFlight
    BY <1>1, <1>5, UnderWay
  <2>2. req'[r].draft = req[r].draft /\ req'[q].draft = req[q].draft
    BY <1>1, <1>5, HandlerKept
  <2>. QED
    BY <2>1, <2>2 DEF TurnsTaken
<1>. QED
  BY <1>3, <1>4, <1>5

\* A commit by another handler leaves the draft of a handler under way alone.
LEMMA OthersCommit ==
    ASSUME PipelineInv, TurnsTaken, [Next]_vars,
           NEW q \in Requests, pc[q] \in InFlight, pc'[q] # "done"
    PROVE  /\ drafts'[req[q].draft] = drafts[req[q].draft]
           /\ \A a \in approvals' : a.draft = req[q].draft => a \in approvals
<1>1. TypeOK /\ RowsKept
  BY InvRows
<1>2. req[q].draft \in Drafts
  BY <1>1 DEF TypeOK, Handler, InFlight
<1>3. ASSUME NEW r \in Requests, Commit(r)
      PROVE  req[r].draft # req[q].draft
  <2>1. r # q /\ pc[r] \in InFlight
    BY <1>1, <1>3 DEF Commit, TypeOK, InFlight
  <2>. QED
    BY <2>1 DEF TurnsTaken
<1>4. drafts'[req[q].draft] = drafts[req[q].draft]
  <2>1. CASE \E r \in Requests : Commit(r)
    BY <1>1, <1>2, <1>3, <2>1, CommitRow
  <2>2. CASE \A r \in Requests : ~Commit(r)
    BY <2>2 DEF Next, Arrive, Progress, CreateDraft, Decide, Submit, Begin, RecordRow,
           FindApproval, CallERP, LogEvent, MirrorEvent, Fail, StatementEnds, Quiet, tables, vars
  <2>. QED
    BY <2>1, <2>2
<1>5. ASSUME NEW a \in approvals', a.draft = req[q].draft, a \notin approvals
      PROVE  FALSE
  BY <1>3, <1>5, LogsGrow DEF NewApproval
<1>. QED
  BY <1>4, <1>5

\* A handler at work keeps the newest row of its draft: nobody else writes it.
LEMMA RowStep ==
    ASSUME PipelineInv, TurnsTaken, RowCurrent, [Next]_vars
    PROVE  RowCurrent'
<1>1. TypeOK
  BY InvRows
<1> SUFFICES ASSUME NEW q \in Requests, pc'[q] \in InFlight, req'[q].kind # "create"
             PROVE  req'[q].row = drafts'[req'[q].draft]
  BY DEF RowCurrent
<1>2. CASE pc[q] = "idle"
  <2>1. Arrive(q)
    BY <1>1, <1>2, HandlerStarts DEF InFlight
  <2>. QED
    BY <1>1, <2>1, ArrivalKnows
<1>3. CASE pc[q] # "idle"
  <2>1. pc[q] \in InFlight /\ pc'[q] # "done"
    BY <1>1, <1>3, UnderWay DEF InFlight
  <2>2. /\ req'[q].kind = req[q].kind /\ req'[q].draft = req[q].draft
        /\ req'[q].row = req[q].row
    BY <1>1, <1>3, HandlerKept
  <2>. QED
    BY <2>1, <2>2, OthersCommit DEF RowCurrent
<1>. QED
  BY <1>2, <1>3

\* The clock never goes back.
LEMMA ClockStep == TypeOK /\ [Next]_vars => clock' \in Nat /\ clock <= clock'
<1> SUFFICES ASSUME TypeOK, [Next]_vars
             PROVE  clock' \in Nat /\ clock <= clock'
  OBVIOUS
<1>1. ASSUME NEW r \in Requests, Arrive(r) \/ FindApproval(r) \/ CallERP(r)
                                 \/ LogEvent(r) \/ MirrorEvent(r) \/ Commit(r) \/ Fail(r)
      PROVE  clock' = clock
  BY <1>1 DEF Arrive, CreateDraft, Decide, Submit, Begin, FindApproval, CallERP,
              LogEvent, MirrorEvent, Commit, Fail
<1>2. ASSUME NEW r \in Requests, RecordRow(r)
      PROVE  clock' = clock + 1
  BY <1>2 DEF RecordRow
<1>3. UNCHANGED vars => clock' = clock
  BY DEF vars
<1>4. clock' = clock \/ clock' = clock + 1
  BY <1>1, <1>2, <1>3 DEF Next, Progress, StatementEnds, Quiet
<1>. QED
  BY <1>4 DEF TypeOK

\* Decisions about one draft are on record in the order they were taken.
LEMMA TimesStep ==
    ASSUME PipelineInv, TurnsTaken, DecisionsTimed, [Next]_vars
    PROVE  DecisionsTimed'
<1>1. TypeOK /\ TypeOK'
  BY InvRows, TypeStep
<1>2. clock \in Nat /\ clock' \in Nat /\ clock <= clock'
  BY <1>1, ClockStep DEF TypeOK
<1>3. \A a \in approvals' : a.at \in Nat
  BY <1>1 DEF TypeOK, Approval
<1>4. ASSUME NEW a \in approvals' \ approvals
      PROVE  \E r \in Requests :
                /\ Commit(r) /\ a = NewApproval(r) /\ pc[r] \in {"logged", "mirrored"}
                /\ a.at = req[r].at /\ a.draft = req[r].draft
                /\ req[r].at < clock
                /\ \A b \in approvals : b.draft = a.draft => b.at < a.at
  <2>1. PICK r \in Requests : Commit(r) /\ req[r].kind \in Decisions /\ a = NewApproval(r)
    BY <1>4, LogsGrow
  <2>2. pc[r] \in {"logged", "mirrored"} /\ a.at = req[r].at /\ a.draft = req[r].draft
    BY <2>1 DEF Commit, NewApproval
  <2>. QED
    BY <2>1, <2>2 DEF DecisionsTimed
<1>5. ASSUME NEW r \in Requests, NEW q \in Requests, Commit(r), Commit(q)
      PROVE  r = q
  <2>1. pc' = [pc EXCEPT ![r] = "done"] /\ pc[q] # "done" /\ pc'[q] = "done"
    BY <1>1, <1>5 DEF Commit, TypeOK
  <2>. QED
    BY <1>1, <2>1 DEF TypeOK
<1>6. \A a \in approvals' : a.at < clock'
  <2> SUFFICES ASSUME NEW a \in approvals'
               PROVE  a.at < clock
    BY <1>2, <1>3
  <2>. QED
    BY <1>4 DEF DecisionsTimed
<1>7. \A a, b \in approvals' : a.draft = b.draft /\ a.at = b.at => a = b
  <2> SUFFICES ASSUME NEW a \in approvals', NEW b \in approvals',
                      a.draft = b.draft, a.at = b.at
               PROVE  a = b
    OBVIOUS
  <2>1. CASE a \in approvals /\ b \in approvals
    BY <2>1 DEF DecisionsTimed
  <2>2. CASE a \notin approvals /\ b \in approvals
    BY <1>3, <1>4, <2>2
  <2>3. CASE a \in approvals /\ b \notin approvals
    BY <1>3, <1>4, <2>3
  <2>4. CASE a \notin approvals /\ b \notin approvals
    BY <1>4, <1>5, <2>4
  <2>. QED
    BY <2>1, <2>2, <2>3, <2>4
<1>8. ASSUME NEW q \in Requests, pc'[q] \in {"recorded", "logged", "mirrored"},
             req'[q].kind \in Decisions
      PROVE  /\ req'[q].at < clock'
             /\ \A a \in approvals' : a.draft = req'[q].draft => a.at < req'[q].at
  <2>1. pc[q] # "idle"
    BY <1>1, <1>8, HandlerStarts, ArrivalKnows
  <2>2. pc[q] \in InFlight /\ pc'[q] # "done"
    BY <1>1, <1>8, <2>1, UnderWay DEF InFlight
  <2>3. /\ req'[q].kind = req[q].kind /\ req'[q].draft = req[q].draft /\ req[q] \in Handler
    BY <1>1, <2>1, HandlerKept DEF TypeOK
  <2>4. req[q].kind # "submit"
    BY <1>8, <2>3 DEF Decisions
  <2>5. CASE pc[q] = "loaded"
    <3>1. RecordRow(q)
      BY <1>1, <1>8, <2>1, <2>5, OwnStep, OwnMove
    <3>2. req'[q].at = clock /\ clock' = clock + 1 /\ approvals' = approvals
      BY <1>1, <2>3, <3>1 DEF RecordRow, tables, TypeOK, Handler
    <3>. QED
      BY <1>2, <3>2 DEF DecisionsTimed
  <2>6. CASE pc[q] # "loaded"
    <3>1. req'[q] = req[q]
      BY <1>1, <2>1, <2>6, Settled
    <3>2. pc[q] \in {"recorded", "logged", "mirrored"}
      BY <2>1, <2>2, <2>3, <2>4, <2>6 DEF PipelineInv, SubmitChecked, InFlight
    <3>3. req[q].at \in Nat
      BY <2>3 DEF Handler
    <3>4. req[q].at < clock /\ \A a \in approvals : a.draft = req[q].draft => a.at < req[q].at
      BY <1>8, <3>1, <3>2 DEF DecisionsTimed
    <3>. QED
      BY <1>2, <2>2, <3>1, <3>3, <3>4, OthersCommit
  <2>. QED
    BY <2>5, <2>6
<1>. QED
  BY <1>6, <1>7, <1>8 DEF DecisionsTimed

\* What a commit does to the stage of its draft when the row the handler
\* loaded is still the row of the table.
LEMMA CommitStages ==
    ASSUME PipelineInv, RowCurrent, NEW r \in Requests, Commit(r)
    PROVE  LET d == req[r].draft IN
           /\ d \in Drafts /\ drafts'[d] \in DraftRow
           /\ req[r].kind = "create" => drafts[d] = NoRow /\ drafts'[d].status = "DRAFT"
           /\ req[r].kind # "create" => drafts[d] # NoRow
           /\ req[r].kind = "approve" =>
                 drafts[d].status \in {"DRAFT", "REJECTED"} /\ drafts'[d].status = "APPROVED"
           /\ req[r].kind = "reject" =>
                 drafts[d].status \in {"DRAFT", "REJECTED"} /\ drafts'[d].status = "REJECTED"
           /\ req[r].kind = "submit" =>
                 /\ drafts[d].status = "APPROVED" /\ NewOrder(r) \in orders
                 /\ drafts'[d].status = "SUBMITTED_SANDBOX"
<1> DEFINE d == req[r].draft
<1>1. TypeOK /\ RowsKept
  BY InvRows
<1>2. pc[r] \in {"logged", "mirrored"} /\ pc[r] \in InFlight /\ pc[r] # "idle"
  BY DEF Commit, InFlight
<1>3. /\ req[r] \in Handler /\ d \in Drafts /\ drafts'[d] \in DraftRow
      /\ req[r].kind = "create" => drafts'[d] = req[r].row
      /\ req[r].kind # "create" =>
            /\ drafts[d] \in DraftRow
            /\ drafts'[d].status = IF UpdatesStatus(r) THEN Outcome[req[r].kind]
                                   ELSE drafts[d].status
  BY <1>1, CommitRow
<1>4. req[r].kind # "create" => req[r].row = drafts[d] /\ drafts[d] # NoRow
  BY <1>1, <1>2 DEF RowCurrent, RowsKept
<1>5. req[r].kind = "create" => drafts[d] = NoRow /\ drafts'[d].status = "DRAFT"
  BY <1>2, <1>3 DEF PipelineInv, CreatesDistinct
<1>6. ASSUME req[r].kind \in Decisions
      PROVE  /\ drafts[d].status \in {"DRAFT", "REJECTED"}
             /\ drafts'[d].status = Outcome[req[r].kind]
  <2>1. req[r].row.status \in {"DRAFT", "REJECTED"} /\ req[r].kind # "create"
    BY <1>2, <1>6 DEF PipelineInv, DecisionChecked, Decisions
  <2>. QED
    BY <1>3, <1>4, <2>1 DEF UpdatesStatus
<1>7. ASSUME req[r].kind = "submit"
      PROVE  /\ drafts[d].status = "APPROVED" /\ NewOrder(r) \in orders
             /\ drafts'[d].status = Outcome[req[r].kind]
  <2>1. req[r].row.status = "APPROVED" /\ NewOrder(r) \in orders
    BY <1>2, <1>7 DEF PipelineInv, SubmitChecked
  <2>. QED
    BY <1>3, <1>4, <1>7, <2>1 DEF UpdatesStatus
<1>. QED
  BY <1>3, <1>4, <1>5, <1>6, <1>7 DEF Decisions, Outcome

\* A decided draft keeps showing its newest decision.
LEMMA LastStep ==
    ASSUME PipelineInv, TurnsInv, [Next]_vars
    PROVE  LastDecision'
<1>1. TypeOK /\ TypeOK' /\ RowsKept /\ DecisionsTimed'
  BY InvRows, TypeStep, TimesStep DEF TurnsInv
<1> SUFFICES ASSUME NEW d \in Drafts, drafts'[d] # NoRow,
                    drafts'[d].status \in {"APPROVED", "REJECTED"}
             PROVE  \E a \in approvals' :
                       /\ a.draft = d
                       /\ a.approved <=> drafts'[d].status = "APPROVED"
                       /\ \A b \in approvals' : b.draft = a.draft => b.at <= a.at
  BY DEF LastDecision, Newest
<1>2. CASE \E r \in Requests : Commit(r) /\ req[r].draft = d
  <2>1. PICK r \in Requests : Commit(r) /\ req[r].draft = d
    BY <1>2
  <2>2. pc[r] \in {"logged", "mirrored"} /\ req[r] \in Handler
    BY <1>1, <2>1 DEF Commit, TypeOK
  <2>3. /\ req[r].kind \in Decisions
        /\ req[r].kind = "approve" <=> drafts'[d].status = "APPROVED"
    BY <2>1, <2>2, CommitStages DEF TurnsInv, Handler, Kinds, Decisions
  <2>4. approvals' = approvals \cup {NewApproval(r)}
    BY <2>1, <2>3 DEF Commit
  <2>5. /\ NewApproval(r).draft = d /\ NewApproval(r).at = req[r].at
        /\ NewApproval(r).approved <=> req[r].kind = "approve"
    BY <2>1 DEF NewApproval
  <2>6. \A b \in approvals : b.draft = d => b.at < req[r].at
    BY <2>1, <2>2, <2>3 DEF TurnsInv, DecisionsTimed
  <2>7. req[r].at \in Nat /\ \A b \in approvals' : b.at \in Nat
    BY <1>1, <2>2 DEF Handler, TypeOK, Approval
  <2>8. \A b \in approvals' : b.draft = d => b.at <= req[r].at
    BY <2>4, <2>5, <2>6, <2>7
  <2>. QED
    BY <2>3, <2>4, <2>5, <2>8
<1>3. CASE \A r \in Requests : Commit(r) => req[r].draft # d
  <2>1. drafts'[d] = drafts[d]
    <3>1. CASE \E r \in Requests : Commit(r)
      BY <1>1, <1>3, <3>1, CommitRow
    <3>2. CASE \A r \in Requests : ~Commit(r)
      BY <3>2 DEF Next, Arrive, Progress, CreateDraft, Decide, Submit, Begin, RecordRow,
             FindApproval, CallERP, LogEvent, MirrorEvent, Fail, StatementEnds, Quiet, tables, vars
    <3>. QED
      BY <3>1, <3>2
  <2>2. \A a \in approvals' \ approvals : a.draft # d
    BY <1>3, LogsGrow DEF NewApproval
  <2>3. PICK a \in approvals : a.draft = d /\ (a.approved <=> drafts[d].status = "APPROVED")
                               /\ Newest(a)
    BY <2>1 DEF TurnsInv, LastDecision
  <2>4. \A b \in approvals' : b.draft = d => b.at <= a.at
    BY <2>2, <2>3 DEF Newest
  <2>. QED
    BY <2>1, <2>3, <2>4, LogsGrow
<1>. QED
  BY <1>2, <1>3

\* The lookup of a submit handler returns the newest decision: the draft is
\* APPROVED, so its newest decision is an approval, and it matches.
LEMMA CitesStep ==
    ASSUME PipelineInv, TurnsInv, [Next]_vars
    PROVE  CitesNewest'
<1>1. TypeOK
  BY InvRows
<1> SUFFICES ASSUME NEW q \in Requests, pc'[q] = "matched"
             PROVE  \E a \in approvals' :
                       /\ a.id = req'[q].cites /\ a.draft = req'[q].draft
                       /\ \A b \in approvals' : b.draft = a.draft => b.at <= a.at
  BY DEF CitesNewest, Newest
<1>2. pc[q] # "idle"
  BY <1>1, HandlerStarts, ArrivalKnows
<1>3. /\ pc[q] \in InFlight /\ pc'[q] # "done" /\ req[q] \in Handler
      /\ req'[q].draft = req[q].draft
  BY <1>1, <1>2, UnderWay, HandlerKept DEF InFlight, TypeOK
<1>4. PICK a \in approvals : a.id = req'[q].cites /\ a.draft = req[q].draft /\ Newest(a)
  <2>1. CASE pc[q] = "matched"
    BY <1>1, <2>1, Settled DEF TurnsInv, CitesNewest
  <2>2. CASE pc[q] # "matched"
    <3> DEFINE d == req[q].draft
               found == MatchingApprovals(d, PayloadHash(req[q].row))
    <3>1. FindApproval(q)
      BY <1>1, <1>2, <2>2, OwnStep, OwnMove
    <3>2. PICK a \in found : (\A b \in found : b.at <= a.at) /\ req'[q].cites = a.id
      BY <1>1, <1>3, <3>1 DEF FindApproval, TypeOK, Handler
    <3>3. /\ req[q].row = drafts[d] /\ drafts[d] # NoRow /\ d \in Drafts
          /\ drafts[d].status = "APPROVED"
      BY <1>2, <1>3, <3>1 DEF FindApproval, TurnsInv, RowCurrent, PipelineInv,
                              SubmitChecked, LoadedRowValid, Handler
    <3>4. PICK last \in approvals : last.draft = d /\ last.approved /\ Newest(last)
      BY <3>3 DEF TurnsInv, LastDecision
    <3>5. last \in found
      BY <3>3, <3>4 DEF MatchingApprovals, PipelineInv, ApprovalValid
    <3>6. a \in approvals /\ a.draft = d /\ last.at <= a.at
      BY <3>2, <3>5 DEF MatchingApprovals
    <3>7. \A b \in approvals : b.at \in Nat
      BY <1>1 DEF TypeOK, Approval
    <3>8. Newest(a)
      BY <3>4, <3>6, <3>7 DEF Newest
    <3>. QED
      BY <3>2, <3>6, <3>8
  <2>. QED
    BY <2>1, <2>2
<1>5. \A b \in approvals' : b.draft = req[q].draft => b \in approvals
  BY <1>3, OthersCommit DEF TurnsInv
<1>. QED
  BY <1>3, <1>4, <1>5, LogsGrow DEF Newest

\* A recorded submission is the only one of its draft and is not undone: no
\* handler under way has loaded anything but SUBMITTED_SANDBOX.
LEMMA FinalStep ==
    ASSUME PipelineInv, TrailInv, TurnsInv, [Next]_vars
    PROVE  OneFinalSubmission'
<1>1. TypeOK /\ RowsKept
  BY InvRows
<1>2. ASSUME NEW e \in audit, e.type = "order_sandbox_submitted"
      PROVE  /\ e.draft \in Drafts
             /\ drafts[e.draft] # NoRow
             /\ drafts[e.draft].status = "SUBMITTED_SANDBOX"
  <2>1. /\ e.id \in Requests /\ pc[e.id] # "idle" /\ e = NewEvent(e.id)
        /\ e.draft \in Drafts /\ req[e.id] \in Handler
    BY <1>1 DEF TrailInv, EventsReal, Trail, TypeOK, AuditEvent
  <2>2. req[e.id].kind = "submit" /\ e.draft = req[e.id].draft
    BY <1>2, <2>1 DEF NewEvent, EventType, Handler, Kinds
  <2>. QED
    BY <1>1, <1>2, <2>1, <2>2 DEF RowsKept, TurnsInv, OneFinalSubmission
<1>3. ASSUME NEW r \in Requests, Commit(r)
      PROVE  /\ \A e \in audit : e.type = "order_sandbox_submitted" => e.draft # req[r].draft
             /\ \A f \in audit' \ audit : f = NewEvent(r)
             /\ \A d \in Drafts \ {req[r].draft} : drafts'[d] = drafts[d]
  <2>1. req[r] \in Handler
    BY <1>1, <1>3 DEF Commit, TypeOK
  <2>2. ~(drafts[req[r].draft] # NoRow /\ drafts[req[r].draft].status = "SUBMITTED_SANDBOX")
    BY <1>3, <2>1, CommitStages DEF TurnsInv, Handler, Kinds
  <2>3. \A e \in audit : e.type = "order_sandbox_submitted" => e.draft # req[r].draft
    BY <1>2, <2>2
  <2>4. \A f \in audit' \ audit : f = NewEvent(r)
    BY <1>3 DEF Commit
  <2>. QED
    BY <1>1, <1>3, <2>3, <2>4, CommitRow
<1>4. CASE \E r \in Requests : Commit(r)
  <2>1. PICK r \in Requests : Commit(r)
    BY <1>4
  <2>2. NewEvent(r).type = "order_sandbox_submitted" =>
           /\ NewEvent(r).draft = req[r].draft
           /\ drafts'[req[r].draft].status = "SUBMITTED_SANDBOX"
    <3>1. req[r] \in Handler
      BY <1>1, <2>1 DEF Commit, TypeOK
    <3>2. NewEvent(r).type = EventType[req[r].kind] /\ NewEvent(r).draft = req[r].draft
      BY DEF NewEvent
    <3>3. NewEvent(r).type = "order_sandbox_submitted" => req[r].kind = "submit"
      BY <3>1, <3>2 DEF EventType, Handler, Kinds
    <3>. QED
      BY <2>1, <3>2, <3>3, CommitStages DEF TurnsInv
  <2>3. ASSUME NEW e \in audit', e.type = "order_sandbox_submitted"
        PROVE  drafts'[e.draft].status = "SUBMITTED_SANDBOX"
    <3>1. CASE e \in audit
      BY <1>2, <1>3, <2>1, <2>3, <3>1
    <3>2. CASE e \notin audit
      BY <1>3, <2>1, <2>2, <2>3, <3>2
    <3>. QED
      BY <3>1, <3>2
  <2>4. ASSUME NEW e \in audit', NEW f \in audit', e.type = "order_sandbox_submitted",
               f.type = e.type, f.draft = e.draft
        PROVE  f = e
    <3>1. CASE e \in audit /\ f \in audit
      BY <2>4, <3>1 DEF TurnsInv, OneFinalSubmission
    <3>2. CASE e \notin audit /\ f \notin audit
      BY <1>3, <2>1, <3>2
    <3>3. CASE e \in audit /\ f \notin audit
      BY <1>3, <2>1, <2>2, <2>4, <3>3
    <3>4. CASE e \notin audit /\ f \in audit
      BY <1>3, <2>1, <2>2, <2>4, <3>4
    <3>. QED
      BY <3>1, <3>2, <3>3, <3>4
  <2>. QED
    BY <2>3, <2>4 DEF OneFinalSubmission
<1>5. CASE \A r \in Requests : ~Commit(r)
  <2>1. UNCHANGED <<drafts, audit>>
    BY <1>5 DEF Next, Arrive, Progress, CreateDraft, Decide, Submit, Begin, RecordRow,
           FindApproval, CallERP, LogEvent, MirrorEvent, Fail, StatementEnds, Quiet, tables, vars
  <2>. QED
    BY <2>1 DEF TurnsInv, OneFinalSubmission
<1>. QED
  BY <1>4, <1>5

\* TurnsInv is an invariant when users take turns.
THEOREM TurnsCorrect == Spec /\ OneAtATime => []TurnsInv
<1>1. Init /\ OneAtATime => TurnsInv
  BY DEF Init, TurnsInv, TurnsTaken, RowCurrent, DecisionsTimed, LastDecision,
         CitesNewest, OneFinalSubmission, InFlight
<1>2. PipelineInv /\ TrailInv /\ TurnsInv /\ [Next]_vars => TurnsInv'
  <2> SUFFICES ASSUME PipelineInv, TrailInv, TurnsInv, [Next]_vars
               PROVE  TurnsInv'
    OBVIOUS
  <2>1. TurnsTaken' /\ RowCurrent' /\ DecisionsTimed'
    BY TurnsStep, RowStep, TimesStep DEF TurnsInv
  <2>. QED
    BY <2>1, LastStep, CitesStep, FinalStep DEF TurnsInv
<1>. QED
  BY <1>1, <1>2, PipelineCorrect, TrailCorrect, PTL DEF Spec

\* When the users of a draft take turns, one submission of it is recorded
\* and SUBMITTED_SANDBOX is final, as docs/architecture-ontology.md draws it.
THEOREM SubmissionsAreFinal == Spec /\ OneAtATime => []OneFinalSubmission
<1>1. TurnsInv => OneFinalSubmission
  BY DEF TurnsInv
<1>. QED
  BY <1>1, TurnsCorrect, PTL

\* When the users of a draft take turns, a draft that is not yet submitted
\* shows what its newest decision says (approvals.py).
THEOREM NewestDecisionIsShown == Spec /\ OneAtATime => []NewestDecisionRules
<1>1. PipelineInv /\ TurnsInv => NewestDecisionRules
  <2> SUFFICES ASSUME PipelineInv, TurnsInv, NEW a \in approvals, Newest(a),
                      drafts[a.draft].status # "SUBMITTED_SANDBOX"
               PROVE  drafts[a.draft].status = IF a.approved THEN "APPROVED" ELSE "REJECTED"
    BY DEF NewestDecisionRules, Newest
  <2> DEFINE d == a.draft
  <2>1. d \in Drafts /\ drafts[d] \in DraftRow /\ drafts[d] # NoRow
    BY DEF PipelineInv, TypeOK, Approval, ApprovalValid
  <2>2. drafts[d].status \in {"APPROVED", "REJECTED"}
    BY <2>1 DEF PipelineInv, StatusEvidence, DraftRow, Status
  <2>3. PICK b \in approvals : b.draft = d /\ (b.approved <=> drafts[d].status = "APPROVED")
                               /\ Newest(b)
    BY <2>1, <2>2 DEF TurnsInv, LastDecision
  <2>4. a.at \in Nat /\ b.at \in Nat /\ a.at <= b.at /\ b.at <= a.at
    BY <2>3 DEF Newest, PipelineInv, TypeOK, Approval
  <2>5. a = b
    BY <2>3, <2>4 DEF TurnsInv, DecisionsTimed
  <2>. QED
    BY <2>2, <2>3, <2>5
<1>. QED
  BY <1>1, PipelineCorrect, TurnsCorrect, PTL

\* When the users of a draft take turns, the ERP is called only while the
\* draft is APPROVED and on its newest decision (orders.py).
THEOREM OrdersFollowDecisions == Spec /\ OneAtATime => OrderFollowsDecision
<1>1. PipelineInv /\ TurnsInv /\ [Next]_vars =>
         \A o \in orders' \ orders :
            /\ drafts[o.draft].status = "APPROVED"
            /\ \E a \in approvals : a.id = o.approval
                  /\ \A b \in approvals : b.draft = o.draft => b.at <= a.at
  <2> SUFFICES ASSUME PipelineInv, TurnsInv, [Next]_vars, NEW o \in orders' \ orders
               PROVE  /\ drafts[o.draft].status = "APPROVED"
                      /\ \E a \in approvals : a.id = o.approval
                            /\ \A b \in approvals : b.draft = o.draft => b.at <= a.at
    OBVIOUS
  <2>1. PICK r \in Requests : CallERP(r) /\ o = NewOrder(r)
    BY LogsGrow
  <2>2. pc[r] = "matched" /\ o.draft = req[r].draft /\ o.approval = req[r].cites
    BY <2>1 DEF CallERP, NewOrder
  <2>3. req[r].kind = "submit" /\ req[r].row.status = "APPROVED"
    BY <2>2 DEF PipelineInv, SubmitChecked
  <2>4. req[r].row = drafts[req[r].draft]
    BY <2>2, <2>3 DEF TurnsInv, RowCurrent, InFlight
  <2>. QED
    BY <2>2, <2>3, <2>4 DEF TurnsInv, CitesNewest, Newest
<1>. QED
  BY <1>1, PipelineCorrect, TurnsCorrect, PTL DEF Spec, OrderFollowsDecision

-----------------------------------------------------------------------------
(* The documented workflow *)

\* A commit is a step of the workflow, or rejects what was rejected before.
LEMMA CommitMaps ==
    ASSUME PipelineInv, TurnsInv, [Next]_vars, NEW r \in Requests, Commit(r)
    PROVE  [Workflow!Next]_<<Stage, {o.draft : o \in orders}>>
<1> DEFINE d == req[r].draft
           ordered == {o.draft : o \in orders}
<1>1. TypeOK /\ RowsKept
  BY InvRows
<1>2. req[r] \in Handler /\ d \in Drafts /\ ordered' = ordered
  BY <1>1 DEF Commit, TypeOK, Handler, outside
<1>3. \A e \in Drafts \ {d} : drafts'[e] = drafts[e]
  BY <1>1, CommitRow
<1>4. drafts'[d] # NoRow
  BY CommitStages, NullsDistinct DEF TurnsInv
<1>5. Stage' = [Stage EXCEPT ![d] = drafts'[d].status]
  BY <1>2, <1>3, <1>4 DEF Stage
<1>6. CASE req[r].kind = "create"
  <2>1. Stage[d] = "NONE" /\ drafts'[d].status = "DRAFT"
    BY <1>2, <1>6, CommitStages DEF TurnsInv, Stage
  <2>2. Workflow!Create(d)
    BY <1>2, <1>5, <2>1 DEF Workflow!Create, Workflow!Move
  <2>. QED
    BY <1>2, <2>2 DEF Workflow!Next
<1>7. CASE req[r].kind = "approve"
  <2>1. Stage[d] \in {"DRAFT", "REJECTED"} /\ drafts'[d].status = "APPROVED"
    BY <1>2, <1>7, CommitStages DEF TurnsInv, Stage
  <2>2. Workflow!Approve(d)
    BY <1>2, <1>5, <2>1 DEF Workflow!Approve, Workflow!Move
  <2>. QED
    BY <1>2, <2>2 DEF Workflow!Next
<1>8. CASE req[r].kind = "reject"
  <2>1. Stage[d] \in {"DRAFT", "REJECTED"} /\ drafts'[d].status = "REJECTED"
    BY <1>2, <1>8, CommitStages DEF TurnsInv, Stage
  <2>2. CASE Stage[d] = "DRAFT"
    <3>1. Workflow!Reject(d)
      BY <1>2, <1>5, <2>1, <2>2 DEF Workflow!Reject, Workflow!Move
    <3>. QED
      BY <1>2, <3>1 DEF Workflow!Next
  <2>3. CASE Stage[d] = "REJECTED"
    <3>1. Stage' = Stage
      BY <1>2, <1>5, <2>1, <2>3 DEF Stage
    <3>. QED
      BY <1>2, <3>1
  <2>. QED
    BY <2>1, <2>2, <2>3
<1>9. CASE req[r].kind = "submit"
  <2>1. /\ Stage[d] = "APPROVED" /\ drafts'[d].status = "SUBMITTED_SANDBOX"
        /\ NewOrder(r) \in orders
    BY <1>2, <1>9, CommitStages DEF TurnsInv, Stage
  <2>2. d \in ordered
    BY <2>1 DEF NewOrder
  <2>3. Workflow!Complete(d)
    BY <1>2, <1>5, <2>1, <2>2 DEF Workflow!Complete, Workflow!Move
  <2>. QED
    BY <1>2, <2>3 DEF Workflow!Next
<1>. QED
  BY <1>2, <1>6, <1>7, <1>8, <1>9 DEF Handler, Kinds

\* A call of the ERP places an order for a draft that is APPROVED.
LEMMA CallMaps ==
    ASSUME PipelineInv, TurnsInv, [Next]_vars, NEW r \in Requests, CallERP(r)
    PROVE  Workflow!Next
<1> DEFINE d == req[r].draft
<1>1. pc[r] = "matched" /\ UNCHANGED drafts /\ orders' = orders \cup {NewOrder(r)}
  BY DEF CallERP, tables
<1>2. req[r].kind = "submit" /\ req[r].row.status = "APPROVED" /\ d \in Drafts
  <2>1. req[r] \in Handler
    BY <1>1 DEF PipelineInv, TypeOK
  <2>. QED
    BY <1>1, <2>1 DEF PipelineInv, SubmitChecked, Handler
<1>3. req[r].row = drafts[d] /\ drafts[d] # NoRow
  BY <1>1, <1>2 DEF TurnsInv, RowCurrent, InFlight, PipelineInv, LoadedRowValid
<1>4. Stage[d] = drafts[d].status /\ Stage' = Stage
  BY <1>1, <1>2, <1>3 DEF Stage
<1>5. {o.draft : o \in orders}' = {o.draft : o \in orders} \cup {d}
  <2>1. NewOrder(r).draft = d
    BY DEF NewOrder
  <2>2. \A x : x \in {o.draft : o \in orders'} <=> x \in {o.draft : o \in orders} \/ x = d
    BY <1>1, <2>1
  <2>. QED
    BY <2>2
<1>6. Workflow!PlaceOrder(d)
  BY <1>2, <1>3, <1>4, <1>5 DEF Workflow!PlaceOrder
<1>. QED
  BY <1>2, <1>6 DEF Workflow!Next, Workflow!PlaceOrder

\* When the users of a draft take turns, the handlers of orders.py and
\* approvals.py implement the workflow docs/architecture-ontology.md draws.
THEOREM WorkflowImplemented == Spec /\ OneAtATime => ImplementsWorkflow
<1>1. Init => Workflow!Init
  BY DEF Init, Workflow!Init, Stage
<1>2. PipelineInv /\ TurnsInv /\ [Next]_vars =>
         [Workflow!Next]_<<Stage, {o.draft : o \in orders}>>
  <2> SUFFICES ASSUME PipelineInv, TurnsInv, [Next]_vars
               PROVE  [Workflow!Next]_<<Stage, {o.draft : o \in orders}>>
    OBVIOUS
  <2>1. CASE \E r \in Requests : Commit(r)
    BY <2>1, CommitMaps
  <2>2. CASE \E r \in Requests : CallERP(r)
    BY <2>2, CallMaps
  <2>3. CASE \A r \in Requests : ~Commit(r) /\ ~CallERP(r)
    <3>1. UNCHANGED <<drafts, orders>>
      BY <2>3 DEF Next, Arrive, Progress, CreateDraft, Decide, Submit, Begin, RecordRow,
             FindApproval, LogEvent, MirrorEvent, Fail, StatementEnds, Quiet, tables, outside, vars
    <3>. QED
      BY <3>1 DEF Stage
  <2>. QED
    BY <2>1, <2>2, <2>3
<1>. QED
  BY <1>1, <1>2, PipelineCorrect, TurnsCorrect, PTL DEF Spec, ImplementsWorkflow, Workflow!Spec

=============================================================================

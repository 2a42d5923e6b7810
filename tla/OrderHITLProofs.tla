--------------------------- MODULE OrderHITLProofs ---------------------------
(***************************************************************************)
(* Proofs about OrderHITL for any number of requests, drafts, users and    *)
(* stores, any audit configuration, and handlers that interleave and fail  *)
(* as they like (OneAtATime is not used).                                  *)
(***************************************************************************)
EXTENDS OrderHITL, TLAPS

-----------------------------------------------------------------------------
(* Type correctness *)

\* The handler record a request starts with is well typed.
LEMMA BeginTypes ==
    ASSUME TypeOK, NEW r \in Requests, NEW u \in Users, NEW d \in Drafts,
           NEW kind \in Kinds, NEW row \in DraftRow, Begin(r, kind, u, d, row)
    PROVE  TypeOK'
<1> USE DEF TypeOK, Begin, tables, outside
<1> DEFINE h == [kind |-> kind, user |-> u, draft |-> d, row |-> row,
                 at |-> 0, cites |-> NoApproval]
<1>1. h \in Handler
  BY DEF Handler
<1>2. req' \in [Requests -> Handler \cup {NoRequest}] /\ req'[r] = h
  BY <1>1
<1>3. pc' \in [Requests -> InFlight \cup {"idle", "done", "failed"}]
  BY DEF InFlight
<1>4. \A q \in Requests : pc'[q] # "idle" => req'[q] \in Handler
  BY <1>1, <1>2
<1> HIDE DEF h
<1>. QED
  BY <1>2, <1>3, <1>4

\* The digest of a draft's contents is a hash.
LEMMA HashTypes ==
    ASSUME NEW row \in DraftRow
    PROVE  PayloadHash(row) \in Hashes
BY ConstantsTyped DEF PayloadHash, DraftRow

\* What a handler writes to the tables and to the outside is well typed.
LEMMA WritesTyped ==
    ASSUME TypeOK, NEW r \in Requests, pc[r] # "idle"
    PROVE  /\ req[r] \in Handler
           /\ NewEvent(r) \in AuditEvent
           /\ req[r].kind \in Decisions => NewApproval(r) \in Approval
           /\ NewOrder(r) \in ErpOrder
<1>1. req[r] \in Handler
  BY DEF TypeOK
<1>2. PayloadHash(req[r].row) \in Hashes
  BY <1>1, HashTypes DEF Handler
<1>3. EventType[req[r].kind] \in EventTypes
  BY <1>1 DEF Handler, Kinds, EventType, EventTypes
<1>. QED
  BY <1>1, <1>2, <1>3 DEF Handler, NewEvent, AuditEvent, NewApproval, Approval,
                          NewOrder, ErpOrder, Decisions

\* Moving a handler that has started along, its record unchanged, keeps pc
\* and req well typed.
LEMMA MoveTypes ==
    ASSUME TypeOK, NEW r \in Requests, NEW to \in InFlight \cup {"done", "failed"},
           pc[r] # "idle", pc' = [pc EXCEPT ![r] = to], UNCHANGED req
    PROVE  /\ pc' \in [Requests -> InFlight \cup {"idle", "done", "failed"}]
           /\ req' \in [Requests -> Handler \cup {NoRequest}]
           /\ \A q \in Requests : pc'[q] # "idle" => req'[q] \in Handler
BY DEF TypeOK

\* A handler that decides on a draft or submits it works on a committed row,
\* and rows are never deleted.
RowsKept ==
    \A r \in Requests : pc[r] # "idle" /\ req[r].kind # "create" =>
        drafts[req[r].draft] # NoRow

\* What a commit does to the table of drafts: one row changes; a create
\* stores the handler's row, any other request touches the status only.
LEMMA CommitRow ==
    ASSUME TypeOK, RowsKept, NEW r \in Requests, Commit(r)
    PROVE  LET d == req[r].draft IN
           /\ req[r] \in Handler
           /\ d \in Drafts
           /\ drafts' \in [Drafts -> DraftRow \cup {NoRow}]
           /\ drafts'[d] \in DraftRow
           /\ \A e \in Drafts \ {d} : drafts'[e] = drafts[e]
           /\ req[r].kind = "create" => drafts'[d] = req[r].row
           /\ req[r].kind # "create" =>
                 /\ drafts[d] \in DraftRow
                 /\ drafts'[d].rep = drafts[d].rep
                 /\ drafts'[d].store = drafts[d].store
                 /\ drafts'[d].items = drafts[d].items
                 /\ drafts'[d].status = IF UpdatesStatus(r) THEN Outcome[req[r].kind]
                                        ELSE drafts[d].status
<1> DEFINE d == req[r].draft
           new == IF req[r].kind = "create" THEN req[r].row
                  ELSE IF UpdatesStatus(r) THEN [drafts[d] EXCEPT !.status = Outcome[req[r].kind]]
                  ELSE drafts[d]
<1>1. req[r] \in Handler /\ d \in Drafts /\ req[r].row \in DraftRow
  BY DEF Commit, TypeOK, Handler
<1>2. drafts' = [drafts EXCEPT ![d] = new]
  BY DEF Commit
<1>3. drafts[d] \in DraftRow \cup {NoRow}
  BY <1>1 DEF TypeOK
<1>4. req[r].kind # "create" => drafts[d] \in DraftRow
  BY <1>3 DEF RowsKept, Commit
<1>5. Outcome[req[r].kind] \in Status
  BY <1>1 DEF Handler, Kinds, Outcome, Status
<1>6. drafts[d] \in DraftRow =>
         LET row == [drafts[d] EXCEPT !.status = Outcome[req[r].kind]] IN
         /\ row \in DraftRow
         /\ row.rep = drafts[d].rep /\ row.store = drafts[d].store
         /\ row.items = drafts[d].items /\ row.status = Outcome[req[r].kind]
  BY <1>5 DEF DraftRow
<1>7. new \in DraftRow
  BY <1>1, <1>4, <1>6
<1>8. drafts'[d] = new /\ \A e \in Drafts \ {d} : drafts'[e] = drafts[e]
  BY <1>1, <1>2 DEF TypeOK
<1>9. drafts' \in [Drafts -> DraftRow \cup {NoRow}]
  BY <1>1, <1>2, <1>7 DEF TypeOK
<1>. QED
  BY <1>1, <1>4, <1>6, <1>7, <1>8, <1>9

\* A handler keeps what it was called with and the row it loaded.
LEMMA HandlerKept ==
    ASSUME TypeOK, [Next]_vars, NEW q \in Requests, pc[q] # "idle"
    PROVE  /\ pc'[q] # "idle"
           /\ req'[q].kind = req[q].kind
           /\ req'[q].draft = req[q].draft
           /\ req'[q].user = req[q].user
           /\ req'[q].row = req[q].row
<1>1. req[q] \in Handler
  BY DEF TypeOK
<1>2. ASSUME NEW r \in Requests, NEW kind, NEW u, NEW d, NEW row, Begin(r, kind, u, d, row)
      PROVE  pc'[q] # "idle" /\ req'[q] = req[q]
  BY <1>2 DEF Begin, TypeOK
<1>3. ASSUME NEW r \in Requests, Arrive(r)
      PROVE  pc'[q] # "idle" /\ req'[q] = req[q]
  BY <1>2, <1>3 DEF Arrive, CreateDraft, Decide, Submit
<1>4. ASSUME NEW r \in Requests, RecordRow(r) \/ FindApproval(r)
      PROVE  /\ pc'[q] # "idle"
             /\ req'[q].kind = req[q].kind /\ req'[q].draft = req[q].draft
             /\ req'[q].user = req[q].user /\ req'[q].row = req[q].row
  BY <1>1, <1>4 DEF RecordRow, FindApproval, TypeOK, Handler
<1>5. ASSUME NEW r \in Requests, CallERP(r) \/ LogEvent(r) \/ MirrorEvent(r) \/ Commit(r) \/ Fail(r)
      PROVE  pc'[q] # "idle" /\ req'[q] = req[q]
  BY <1>5 DEF CallERP, LogEvent, MirrorEvent, Commit, Fail, TypeOK
<1>6. CASE UNCHANGED vars
  BY <1>6 DEF vars
<1>. QED
  BY <1>3, <1>4, <1>5, <1>6 DEF Next, Progress, StatementEnds, Quiet

\* Types are preserved by every action, given that updated rows exist.
LEMMA TypeStep == TypeOK /\ RowsKept /\ [Next]_vars => TypeOK'
<1> SUFFICES ASSUME TypeOK, RowsKept, [Next]_vars
             PROVE  TypeOK'
  OBVIOUS
<1> USE DEF tables, outside, warehouse, Insert
<1>1. ASSUME NEW r \in Requests, NEW u \in Users, NEW s \in Stores, NEW i \in Items,
             NEW d \in Drafts, CreateDraft(r, u, s, i, d)
      PROVE  TypeOK'
  <2>1. [rep |-> u, store |-> s, items |-> i, status |-> "DRAFT"] \in DraftRow
    BY DEF DraftRow, Status
  <2>. QED
    BY <1>1, <2>1, BeginTypes DEF CreateDraft, Kinds
<1>2. ASSUME NEW r \in Requests, NEW u \in Users, NEW d \in Drafts,
             NEW kind \in Decisions, Decide(r, kind, u, d)
      PROVE  TypeOK'
  <2>1. drafts[d] \in DraftRow
    BY <1>2 DEF Decide, TypeOK
  <2>. QED
    BY <1>2, <2>1, BeginTypes DEF Decide, Kinds, Decisions
<1>3. ASSUME NEW r \in Requests, NEW u \in Users, NEW d \in Drafts, Submit(r, u, d)
      PROVE  TypeOK'
  <2>1. drafts[d] \in DraftRow
    BY <1>3 DEF Submit, TypeOK
  <2>. QED
    BY <1>3, <2>1, BeginTypes DEF Submit, Kinds
<1>4. ASSUME NEW r \in Requests, RecordRow(r)
      PROVE  TypeOK'
  <2>1. req[r] \in Handler
    BY <1>4 DEF RecordRow, TypeOK
  <2>2. [req[r] EXCEPT !.at = clock] \in Handler
    BY <2>1 DEF Handler, TypeOK
  <2>3. req' = [req EXCEPT ![r] = [req[r] EXCEPT !.at = clock]]
    BY <1>4 DEF RecordRow
  <2>. QED
    BY <1>4, <2>2, <2>3 DEF RecordRow, TypeOK, InFlight
<1>5. ASSUME NEW r \in Requests, FindApproval(r)
      PROVE  TypeOK'
  <2>1. req[r] \in Handler
    BY <1>5 DEF FindApproval, TypeOK
  <2>2. PICK a \in approvals : req' = [req EXCEPT ![r] = [req[r] EXCEPT !.cites = a.id]]
    BY <1>5 DEF FindApproval, MatchingApprovals
  <2>3. [req[r] EXCEPT !.cites = a.id] \in Handler
    BY <2>1 DEF Handler, TypeOK, Approval
  <2>. QED
    BY <1>5, <2>2, <2>3 DEF FindApproval, TypeOK, InFlight
<1>6. ASSUME NEW r \in Requests, CallERP(r)
      PROVE  TypeOK'
  BY <1>6, MoveTypes, WritesTyped DEF CallERP, TypeOK, InFlight
<1>7. ASSUME NEW r \in Requests, LogEvent(r)
      PROVE  TypeOK'
  BY <1>7, MoveTypes, WritesTyped DEF LogEvent, TypeOK, InFlight
<1>8. ASSUME NEW r \in Requests, MirrorEvent(r)
      PROVE  TypeOK'
  BY <1>8, MoveTypes, WritesTyped DEF MirrorEvent, TypeOK, InFlight
<1>9. ASSUME NEW r \in Requests, Commit(r)
      PROVE  TypeOK'
  <2>1. pc[r] # "idle"
    BY <1>9 DEF Commit
  <2>5. approvals' \subseteq Approval /\ audit' \subseteq AuditEvent
    BY <1>9, <2>1, WritesTyped DEF Commit, TypeOK
  <2>. QED
    BY <1>9, <2>1, <2>5, CommitRow, MoveTypes DEF Commit, TypeOK
<1>10. ASSUME NEW r \in Requests, Fail(r)
       PROVE  TypeOK'
  BY <1>10, MoveTypes DEF Fail, TypeOK, InFlight
<1>11. CASE UNCHANGED vars
  BY <1>11 DEF vars, TypeOK
<1>12. CASE StatementEnds
  BY <1>12 DEF StatementEnds, TypeOK
<1>. QED
  BY <1>1, <1>2, <1>3, <1>4, <1>5, <1>6, <1>7, <1>8, <1>9, <1>10, <1>11, <1>12
     DEF Next, Arrive, Progress, Quiet, Decisions

\* A handler starts by its own arrival only.
LEMMA HandlerStarts ==
    ASSUME TypeOK, [Next]_vars, NEW q \in Requests, pc[q] = "idle", pc'[q] # "idle"
    PROVE  Arrive(q)
<1>1. ASSUME NEW r \in Requests, Arrive(r), r # q
      PROVE  pc'[q] = pc[q]
  BY <1>1 DEF Arrive, CreateDraft, Decide, Submit, Begin, TypeOK
<1>2. ASSUME NEW r \in Requests, Progress(r)
      PROVE  pc'[q] = pc[q]
  BY <1>2 DEF Progress, RecordRow, FindApproval, CallERP, LogEvent, MirrorEvent, Commit, TypeOK
<1>3. ASSUME NEW r \in Requests, Fail(r)
      PROVE  pc'[q] = pc[q]
  BY <1>3 DEF Fail, InFlight, TypeOK
<1>4. UNCHANGED vars => pc'[q] = pc[q]
  BY DEF vars
<1>. QED
  BY <1>1, <1>2, <1>3, <1>4 DEF Next, StatementEnds, Quiet

\* No action deletes a row a handler works on.
LEMMA RowsStep == TypeOK /\ RowsKept /\ [Next]_vars => RowsKept'
<1> SUFFICES ASSUME TypeOK, RowsKept, [Next]_vars,
                    NEW q \in Requests, pc'[q] # "idle", req'[q].kind # "create"
             PROVE  drafts'[req'[q].draft] # NoRow
  BY DEF RowsKept
<1> DEFINE d == req'[q].draft
<1>1. drafts[d] # NoRow /\ d \in Drafts
  <2>1. CASE pc[q] # "idle"
    BY <2>1, HandlerKept DEF RowsKept, TypeOK, Handler
  <2>2. CASE pc[q] = "idle"
    <3>1. Arrive(q)
      BY <2>2, HandlerStarts
    <3>. QED
      BY <3>1 DEF Arrive, CreateDraft, Decide, Submit, Begin, TypeOK
  <2>. QED
    BY <2>1, <2>2
<1>2. CASE \E r \in Requests : Commit(r)
  BY <1>1, <1>2, CommitRow, NullsDistinct
<1>3. CASE \A r \in Requests : ~Commit(r)
  <2>1. UNCHANGED drafts
    BY <1>3 DEF Next, Arrive, Progress, CreateDraft, Decide, Submit, Begin, RecordRow,
           FindApproval, CallERP, LogEvent, MirrorEvent, Fail, StatementEnds, Quiet, tables, vars
  <2>. QED
    BY <1>1, <2>1
<1>. QED
  BY <1>2, <1>3

\* Every reachable state is well typed.
THEOREM TypeCorrect == Spec => []TypeOK
<1>1. Init => TypeOK /\ RowsKept
  BY DEF Init, TypeOK, RowsKept
<1>2. TypeOK /\ RowsKept /\ [Next]_vars => TypeOK' /\ RowsKept'
  BY TypeStep, RowsStep
<1>. QED
  BY <1>1, <1>2, PTL DEF Spec

-----------------------------------------------------------------------------
(* The approval gate *)

\* Access to a draft and its digest depend on its contents, not its status.
LEMMA ContentsDecide ==
    ASSUME NEW u, NEW row1, NEW row2, SameContents(row1, row2)
    PROVE  /\ CanDecide(u, row1) <=> CanDecide(u, row2)
           /\ PayloadHash(row1) = PayloadHash(row2)
BY DEF SameContents, CanDecide, PayloadHash

\* The invariant gives what the lemmas on types ask for.
LEMMA InvRows == PipelineInv => TypeOK /\ RowsKept
BY DEF PipelineInv, LoadedRowValid, RowsKept

\* A committed draft keeps its contents and never becomes DRAFT again.
LEMMA DraftsKept ==
    ASSUME PipelineInv, [Next]_vars, NEW d \in Drafts, drafts[d] # NoRow
    PROVE  /\ drafts'[d] # NoRow
           /\ SameContents(drafts[d], drafts'[d])
           /\ drafts[d].status # "DRAFT" => drafts'[d].status # "DRAFT"
<1>1. TypeOK /\ RowsKept
  BY InvRows
<1>2. ASSUME NEW r \in Requests, Commit(r)
      PROVE  /\ drafts'[d] # NoRow
             /\ SameContents(drafts[d], drafts'[d])
             /\ drafts[d].status # "DRAFT" => drafts'[d].status # "DRAFT"
  <2>1. pc[r] \in {"logged", "mirrored"} /\ req[r] \in Handler
    BY <1>1, <1>2 DEF Commit, TypeOK
  <2>2. CASE req[r].draft # d
    BY <1>1, <1>2, <2>2, CommitRow DEF SameContents
  <2>3. CASE req[r].draft = d
    <3>1. req[r].kind # "create"
      BY <2>1, <2>3 DEF PipelineInv, CreatesDistinct
    <3>2. Outcome[req[r].kind] # "DRAFT"
      BY <2>1, <3>1 DEF Handler, Kinds, Outcome
    <3>3. drafts'[d] \in DraftRow
      BY <1>1, <1>2, <2>3, CommitRow
    <3>. QED
      BY <1>1, <1>2, <2>3, <3>1, <3>2, <3>3, CommitRow, NullsDistinct DEF SameContents
  <2>. QED
    BY <2>2, <2>3
<1>3. CASE \A r \in Requests : ~Commit(r)
  <2>1. UNCHANGED drafts
    BY <1>3 DEF Next, Arrive, Progress, CreateDraft, Decide, Submit, Begin, RecordRow,
           FindApproval, CallERP, LogEvent, MirrorEvent, Fail, StatementEnds, Quiet, tables, vars
  <2>. QED
    BY <2>1 DEF SameContents
<1>. QED
  BY <1>2, <1>3

\* Decisions and orders are only ever added, a decision by its commit and
\* an order by the call of its handler.
LEMMA LogsGrow ==
    ASSUME [Next]_vars
    PROVE  /\ approvals \subseteq approvals'
           /\ orders \subseteq orders'
           /\ \A a \in approvals' \ approvals : \E r \in Requests :
                 Commit(r) /\ req[r].kind \in Decisions /\ a = NewApproval(r)
           /\ \A o \in orders' \ orders : \E r \in Requests : CallERP(r) /\ o = NewOrder(r)
<1>1. ASSUME NEW r \in Requests, Arrive(r) \/ RecordRow(r) \/ FindApproval(r)
                                 \/ LogEvent(r) \/ MirrorEvent(r) \/ Fail(r)
      PROVE  UNCHANGED <<approvals, orders>>
  BY <1>1 DEF Arrive, CreateDraft, Decide, Submit, Begin, RecordRow, FindApproval,
              LogEvent, MirrorEvent, Fail, tables, outside
<1>2. ASSUME NEW r \in Requests, CallERP(r)
      PROVE  UNCHANGED approvals /\ orders' = orders \cup {NewOrder(r)}
  BY <1>2 DEF CallERP, tables
<1>3. ASSUME NEW r \in Requests, Commit(r)
      PROVE  /\ UNCHANGED orders
             /\ approvals' = approvals \cup
                  (IF req[r].kind \in Decisions THEN {NewApproval(r)} ELSE {})
  BY <1>3 DEF Commit, outside
<1>4. StatementEnds \/ UNCHANGED vars => UNCHANGED <<approvals, orders>>
  BY DEF StatementEnds, tables, vars
<1>. QED
  BY <1>1, <1>2, <1>3, <1>4 DEF Next, Progress, Quiet

\* The approvals a submit handler can find stay where they are.
LEMMA MatchesGrow ==
    ASSUME [Next]_vars, NEW d, NEW h
    PROVE  MatchingApprovals(d, h) \subseteq MatchingApprovals(d, h)'
BY LogsGrow DEF MatchingApprovals

\* Decisions stay valid: rows keep their contents, and a new decision was
\* checked against the row its handler had loaded.
LEMMA ApprovalStep == PipelineInv /\ [Next]_vars => ApprovalValid'
<1> SUFFICES ASSUME PipelineInv, [Next]_vars, NEW a \in approvals'
             PROVE  /\ drafts'[a.draft] # NoRow
                    /\ a.hash = PayloadHash(drafts'[a.draft])
                    /\ CanDecide(a.by, drafts'[a.draft])
  BY DEF ApprovalValid, PayloadHash, CanDecide
<1>1. TypeOK /\ RowsKept
  BY InvRows
<1>2. CASE a \in approvals
  <2>1. a.draft \in Drafts /\ drafts[a.draft] # NoRow
    BY <1>1, <1>2 DEF TypeOK, Approval, PipelineInv, ApprovalValid
  <2>2. SameContents(drafts[a.draft], drafts'[a.draft]) /\ drafts'[a.draft] # NoRow
    BY <2>1, DraftsKept
  <2>. QED
    BY <1>2, <2>2, ContentsDecide DEF PipelineInv, ApprovalValid
<1>3. CASE a \notin approvals
  <2>1. PICK r \in Requests : Commit(r) /\ req[r].kind \in Decisions /\ a = NewApproval(r)
    BY <1>3, LogsGrow
  <2>2. pc[r] # "idle" /\ req[r].kind # "create" /\ req[r] \in Handler
    BY <1>1, <2>1 DEF Commit, TypeOK, Decisions
  <2>3. a.draft = req[r].draft /\ a.hash = PayloadHash(req[r].row) /\ a.by = req[r].user
    BY <2>1 DEF NewApproval
  <2>4. CanDecide(req[r].user, req[r].row)
    BY <2>1, <2>2 DEF PipelineInv, DecisionChecked
  <2>5. drafts[a.draft] # NoRow /\ SameContents(req[r].row, drafts[a.draft]) /\ a.draft \in Drafts
    BY <2>2, <2>3 DEF PipelineInv, LoadedRowValid, Handler
  <2>6. drafts'[a.draft] # NoRow /\ SameContents(drafts[a.draft], drafts'[a.draft])
    BY <2>5, DraftsKept
  <2>. QED
    BY <2>3, <2>4, <2>5, <2>6, ContentsDecide
<1>. QED
  BY <1>2, <1>3

\* What an arriving handler has in its record.
LEMMA ArrivalKnows ==
    ASSUME TypeOK, NEW r \in Requests, Arrive(r)
    PROVE  LET h == req'[r] IN
           /\ pc'[r] = "loaded"
           /\ h \in Handler
           /\ UNCHANGED <<drafts, approvals, audit, unity, orders>>
           /\ \A q \in Requests \ {r} : pc'[q] = pc[q] /\ req'[q] = req[q]
           /\ h.kind = "create" =>
                 /\ h.row.status = "DRAFT"
                 /\ \A q \in Requests : pc[q] # "idle" => req[q].draft # h.draft
           /\ h.kind # "create" => h.row = drafts[h.draft] /\ h.row # NoRow
           /\ h.kind \in Decisions =>
                 CanDecide(h.user, h.row) /\ h.row.status \in {"DRAFT", "REJECTED"}
           /\ h.kind = "submit" => h.row.status = "APPROVED"
<1> DEFINE h == req'[r]
<1>1. ASSUME NEW kind \in Kinds, NEW u \in Users, NEW d \in Drafts, NEW row \in DraftRow,
             Begin(r, kind, u, d, row)
      PROVE  /\ pc'[r] = "loaded"
             /\ h.kind = kind /\ h.user = u /\ h.draft = d /\ h.row = row
             /\ h \in Handler
             /\ UNCHANGED <<drafts, approvals, audit, unity, orders>>
             /\ \A q \in Requests \ {r} : pc'[q] = pc[q] /\ req'[q] = req[q]
  BY <1>1 DEF Begin, TypeOK, Handler, tables, outside
<1>2. ASSUME NEW u \in Users, NEW s \in Stores, NEW i \in Items, NEW d \in Drafts,
             CreateDraft(r, u, s, i, d)
      PROVE  /\ \E row \in DraftRow : Begin(r, "create", u, d, row) /\ row.status = "DRAFT"
             /\ \A q \in Requests : pc[q] # "idle" => req[q].draft # d
  BY <1>2 DEF CreateDraft, DraftRow, Status
<1>3. ASSUME NEW u \in Users, NEW d \in Drafts, NEW kind \in Decisions, Decide(r, kind, u, d)
      PROVE  /\ drafts[d] \in DraftRow
             /\ Begin(r, kind, u, d, drafts[d])
             /\ drafts[d] # NoRow
             /\ CanDecide(u, drafts[d])
             /\ drafts[d].status \in {"DRAFT", "REJECTED"}
  BY <1>3 DEF Decide, Approvable, TypeOK
<1>4. ASSUME NEW u \in Users, NEW d \in Drafts, Submit(r, u, d)
      PROVE  /\ drafts[d] \in DraftRow
             /\ Begin(r, "submit", u, d, drafts[d])
             /\ drafts[d] # NoRow
             /\ drafts[d].status = "APPROVED"
  BY <1>4 DEF Submit, Submittable, TypeOK
<1>5. CASE \E u \in Users, s \in Stores, i \in Items, d \in Drafts : CreateDraft(r, u, s, i, d)
  <2>1. PICK u \in Users, d \in Drafts, row \in DraftRow :
              /\ Begin(r, "create", u, d, row)
              /\ row.status = "DRAFT"
              /\ \A q \in Requests : pc[q] # "idle" => req[q].draft # d
    BY <1>2, <1>5
  <2>. QED
    BY <1>1, <2>1 DEF Kinds, Decisions
<1>6. CASE \E u \in Users, d \in Drafts, kind \in Decisions : Decide(r, kind, u, d)
  <2>1. PICK u \in Users, d \in Drafts, kind \in Decisions : Decide(r, kind, u, d)
    BY <1>6
  <2>2. kind \in Kinds /\ kind # "create" /\ kind # "submit"
    BY DEF Kinds, Decisions
  <2>. QED
    BY <1>1, <1>3, <2>1, <2>2
<1>7. CASE \E u \in Users, d \in Drafts : Submit(r, u, d)
  <2>1. PICK u \in Users, d \in Drafts : Submit(r, u, d)
    BY <1>7
  <2>. QED
    BY <1>1, <1>4, <2>1 DEF Kinds, Decisions
<1>. QED
  BY <1>5, <1>6, <1>7 DEF Arrive

\* The row a handler loaded stays valid while others commit.
LEMMA LoadedRowStep == PipelineInv /\ [Next]_vars => LoadedRowValid'
<1> SUFFICES ASSUME PipelineInv, [Next]_vars,
                    NEW q \in Requests, pc'[q] # "idle", req'[q].kind # "create"
             PROVE  LET row == drafts'[req'[q].draft] IN
                    /\ row # NoRow
                    /\ SameContents(req'[q].row, row)
                    /\ req'[q].row.status # "DRAFT" => row.status # "DRAFT"
  BY DEF LoadedRowValid, SameContents
<1>1. TypeOK
  BY InvRows
<1>2. CASE pc[q] = "idle"
  <2>1. Arrive(q)
    BY <1>1, <1>2, HandlerStarts
  <2>. QED
    BY <1>1, <2>1, ArrivalKnows DEF SameContents
<1>3. CASE pc[q] # "idle"
  <2>1. /\ req'[q].kind = req[q].kind /\ req'[q].draft = req[q].draft
        /\ req'[q].row = req[q].row
    BY <1>1, <1>3, HandlerKept
  <2>2. /\ drafts[req[q].draft] # NoRow /\ req[q].draft \in Drafts
        /\ SameContents(req[q].row, drafts[req[q].draft])
        /\ req[q].row.status # "DRAFT" => drafts[req[q].draft].status # "DRAFT"
    BY <1>1, <1>3, <2>1 DEF PipelineInv, LoadedRowValid, TypeOK, Handler
  <2>. QED
    BY <2>1, <2>2, DraftsKept DEF SameContents
<1>. QED
  BY <1>2, <1>3

\* Draft ids stay unique, and only its own create brings a row about.
LEMMA CreatesStep == PipelineInv /\ [Next]_vars => CreatesDistinct'
<1> SUFFICES ASSUME PipelineInv, [Next]_vars,
                    NEW r \in Requests, pc'[r] # "idle", req'[r].kind = "create"
             PROVE  /\ req'[r].row.status = "DRAFT"
                    /\ pc'[r] # "done" => drafts'[req'[r].draft] = NoRow
                    /\ \A q \in Requests \ {r} : pc'[q] # "idle" /\ req'[q].kind = "create"
                          => req'[q].draft # req'[r].draft
  BY DEF CreatesDistinct
<1>1. TypeOK /\ RowsKept
  BY InvRows
<1>2. CASE pc[r] = "idle"
  <2>1. Arrive(r)
    BY <1>1, <1>2, HandlerStarts
  <2>2. /\ \A q \in Requests : pc[q] # "idle" => req[q].draft # req'[r].draft
        /\ \A q \in Requests \ {r} : pc'[q] = pc[q] /\ req'[q] = req[q]
        /\ req'[r].row.status = "DRAFT" /\ UNCHANGED drafts /\ req'[r].draft \in Drafts
    BY <1>1, <2>1, ArrivalKnows DEF Handler
  <2>3. drafts[req'[r].draft] = NoRow
    BY <2>2 DEF PipelineInv, RowsCreated
  <2>. QED
    BY <2>2, <2>3
<1>3. CASE pc[r] # "idle"
  <2>1. /\ req'[r].row = req[r].row /\ req'[r].draft = req[r].draft /\ req[r].kind = "create"
        /\ req[r] \in Handler
    BY <1>1, <1>3, HandlerKept DEF TypeOK
  <2>2. \A q \in Requests \ {r} : pc'[q] # "idle" /\ req'[q].kind = "create"
           => req'[q].draft # req'[r].draft
    <3> SUFFICES ASSUME NEW q \in Requests \ {r}, pc'[q] # "idle", req'[q].kind = "create"
                 PROVE  req'[q].draft # req'[r].draft
      OBVIOUS
    <3>1. CASE pc[q] = "idle"
      BY <1>1, <1>3, <2>1, <3>1, HandlerStarts, ArrivalKnows
    <3>2. CASE pc[q] # "idle"
      BY <1>1, <1>3, <2>1, <3>2, HandlerKept DEF PipelineInv, CreatesDistinct
    <3>. QED
      BY <3>1, <3>2
  <2>3. pc'[r] # "done" => drafts'[req'[r].draft] = NoRow
    <3> SUFFICES ASSUME pc'[r] # "done"
                 PROVE  drafts'[req[r].draft] = NoRow
      BY <2>1
    <3>1. CASE \E q \in Requests : Commit(q)
      <4>1. PICK q \in Requests : Commit(q)
        BY <3>1
      <4>2. q # r /\ pc[q] # "idle" /\ pc[r] # "done"
        BY <1>1, <4>1 DEF Commit, TypeOK
      <4>3. drafts[req[r].draft] = NoRow
        BY <1>3, <2>1, <4>2 DEF PipelineInv, CreatesDistinct
      <4>4. req[q].draft # req[r].draft
        BY <1>1, <1>3, <2>1, <4>2, <4>3 DEF RowsKept, PipelineInv, CreatesDistinct
      <4>. QED
        BY <1>1, <2>1, <4>1, <4>3, <4>4, CommitRow DEF Handler
    <3>2. CASE \A q \in Requests : ~Commit(q)
      <4>1. UNCHANGED drafts
        BY <3>2 DEF Next, Arrive, Progress, CreateDraft, Decide, Submit, Begin, RecordRow,
               FindApproval, CallERP, LogEvent, MirrorEvent, Fail, StatementEnds, Quiet, tables, vars
      <4>2. pc[r] # "done"
        BY <1>1, <3>2 DEF Next, Arrive, Progress, CreateDraft, Decide, Submit, Begin, RecordRow,
               FindApproval, CallERP, LogEvent, MirrorEvent, Fail, StatementEnds, Quiet, vars, TypeOK, InFlight
      <4>. QED
        BY <1>3, <2>1, <4>1, <4>2 DEF PipelineInv, CreatesDistinct
    <3>. QED
      BY <3>1, <3>2
  <2>. QED
    BY <1>3, <2>1, <2>2, <2>3 DEF PipelineInv, CreatesDistinct
<1>. QED
  BY <1>2, <1>3

\* A request that has been answered stays answered.
LEMMA DoneStays ==
    ASSUME TypeOK, [Next]_vars, NEW q \in Requests, pc[q] = "done"
    PROVE  pc'[q] = "done"
<1>1. ASSUME NEW r \in Requests, Arrive(r)
      PROVE  pc'[q] = "done"
  BY <1>1 DEF Arrive, CreateDraft, Decide, Submit, Begin, TypeOK
<1>2. ASSUME NEW r \in Requests, Progress(r)
      PROVE  pc'[q] = "done"
  BY <1>2 DEF Progress, RecordRow, FindApproval, CallERP, LogEvent, MirrorEvent, Commit, TypeOK
<1>3. ASSUME NEW r \in Requests, Fail(r)
      PROVE  pc'[q] = "done"
  BY <1>3 DEF Fail, InFlight, TypeOK
<1>4. UNCHANGED vars => pc'[q] = "done"
  BY DEF vars
<1>. QED
  BY <1>1, <1>2, <1>3, <1>4 DEF Next, StatementEnds, Quiet

\* A row that appears was committed by its create request.
LEMMA CreatedStep == PipelineInv /\ [Next]_vars => RowsCreated'
<1> SUFFICES ASSUME PipelineInv, [Next]_vars, NEW d \in Drafts, drafts'[d] # NoRow
             PROVE  \E r \in Requests :
                       pc'[r] = "done" /\ req'[r].kind = "create" /\ req'[r].draft = d
  BY DEF RowsCreated
<1>1. TypeOK /\ RowsKept
  BY InvRows
<1>2. CASE drafts[d] # NoRow
  <2>1. PICK r \in Requests : pc[r] = "done" /\ req[r].kind = "create" /\ req[r].draft = d
    BY <1>2 DEF PipelineInv, RowsCreated
  <2>2. pc'[r] = "done"
    BY <1>1, <2>1, DoneStays
  <2>. QED
    BY <1>1, <2>1, <2>2, HandlerKept
<1>3. CASE drafts[d] = NoRow
  <2>1. PICK r \in Requests : Commit(r)
    BY <1>3 DEF Next, Arrive, Progress, CreateDraft, Decide, Submit, Begin, RecordRow,
           FindApproval, CallERP, LogEvent, MirrorEvent, Fail, StatementEnds, Quiet, tables, vars
  <2>2. req[r].draft = d /\ req[r].kind = "create"
    BY <1>1, <1>3, <2>1, CommitRow, NullsDistinct
  <2>3. pc'[r] = "done" /\ UNCHANGED req
    BY <1>1, <2>1 DEF Commit, TypeOK
  <2>. QED
    BY <2>2, <2>3
<1>. QED
  BY <1>2, <1>3

\* A decision handler remains one that was allowed to decide.
LEMMA DecisionStep == PipelineInv /\ [Next]_vars => DecisionChecked'
<1> SUFFICES ASSUME PipelineInv, [Next]_vars,
                    NEW q \in Requests, pc'[q] # "idle", req'[q].kind \in Decisions
             PROVE  /\ CanDecide(req'[q].user, req'[q].row)
                    /\ req'[q].row.status \in {"DRAFT", "REJECTED"}
  BY DEF DecisionChecked, CanDecide
<1>1. TypeOK
  BY InvRows
<1>2. CASE pc[q] = "idle"
  BY <1>1, <1>2, HandlerStarts, ArrivalKnows
<1>3. CASE pc[q] # "idle"
  BY <1>1, <1>3, HandlerKept DEF PipelineInv, DecisionChecked
<1>. QED
  BY <1>2, <1>3

\* The status column keeps its evidence: decisions and orders stay, and a
\* commit that writes a status brings the evidence with it or has seen it.
LEMMA StatusStep == PipelineInv /\ [Next]_vars => StatusEvidence'
<1> SUFFICES ASSUME PipelineInv, [Next]_vars, NEW d \in Drafts, drafts'[d] # NoRow
             PROVE  LET status == drafts'[d].status IN
                    /\ status = "APPROVED" => \E a \in approvals' : a.draft = d /\ a.approved
                    /\ status = "REJECTED" => \E a \in approvals' : a.draft = d /\ ~a.approved
                    /\ status = "SUBMITTED_SANDBOX" => \E o \in orders' : o.draft = d
                    /\ status = "DRAFT" => \A a \in approvals' : a.draft # d
  BY DEF StatusEvidence
<1>1. TypeOK /\ RowsKept
  BY InvRows
<1>2. ASSUME NEW r \in Requests, Commit(r)
      PROVE  /\ pc[r] \in {"logged", "mirrored"} /\ req[r] \in Handler
             /\ UNCHANGED orders
             /\ approvals' = approvals \cup
                   (IF req[r].kind \in Decisions THEN {NewApproval(r)} ELSE {})
  BY <1>1, <1>2 DEF Commit, TypeOK, outside
<1>3. ASSUME NEW r \in Requests, Commit(r), req[r].draft = d, req[r].kind = "create"
      PROVE  drafts'[d].status = "DRAFT" /\ \A a \in approvals' : a.draft # d
  <2>1. drafts[d] = NoRow /\ req[r].row.status = "DRAFT"
    BY <1>2, <1>3 DEF PipelineInv, CreatesDistinct
  <2>2. approvals' = approvals
    BY <1>2, <1>3 DEF Decisions
  <2>. QED
    BY <1>1, <1>3, <2>1, <2>2, CommitRow DEF PipelineInv, ApprovalValid
<1>4. ASSUME NEW r \in Requests, Commit(r), req[r].draft = d, req[r].kind \in Decisions
      PROVE  /\ drafts'[d].status = IF req[r].kind = "approve" THEN "APPROVED" ELSE
                                    IF UpdatesStatus(r) THEN "REJECTED" ELSE drafts[d].status
             /\ drafts'[d].status # "DRAFT"
             /\ drafts[d] # NoRow
             /\ \E a \in approvals' : a.draft = d /\ (a.approved <=> req[r].kind = "approve")
  <2>1. req[r].row.status \in {"DRAFT", "REJECTED"} /\ drafts[d] # NoRow
    BY <1>2, <1>4 DEF PipelineInv, DecisionChecked, LoadedRowValid, Decisions
  <2>2. drafts'[d].status = IF UpdatesStatus(r) THEN Outcome[req[r].kind] ELSE drafts[d].status
    BY <1>1, <1>4, CommitRow DEF Decisions
  <2>3. req[r].kind = "approve" => UpdatesStatus(r)
    BY <2>1 DEF UpdatesStatus, Outcome
  <2>4. ~UpdatesStatus(r) => drafts[d].status # "DRAFT"
    BY <1>2, <1>4, <2>1 DEF UpdatesStatus, Outcome, PipelineInv, LoadedRowValid, Decisions
  <2>5. NewApproval(r) \in approvals' /\ NewApproval(r).draft = d
        /\ (NewApproval(r).approved <=> req[r].kind = "approve")
    BY <1>2, <1>4 DEF NewApproval
  <2>. QED
    BY <1>4, <2>1, <2>2, <2>3, <2>4, <2>5 DEF Outcome, Decisions
<1>5. ASSUME NEW r \in Requests, Commit(r), req[r].draft = d, req[r].kind = "submit"
      PROVE  drafts'[d].status = "SUBMITTED_SANDBOX" /\ \E o \in orders' : o.draft = d
  <2>1. NewOrder(r) \in orders /\ req[r].row.status = "APPROVED"
    BY <1>2, <1>5 DEF PipelineInv, SubmitChecked
  <2>2. UpdatesStatus(r)
    BY <1>5, <2>1 DEF UpdatesStatus, Outcome
  <2>3. drafts'[d].status = "SUBMITTED_SANDBOX"
    BY <1>1, <1>5, <2>2, CommitRow DEF Outcome
  <2>. QED
    BY <1>2, <1>5, <2>1, <2>3 DEF NewOrder
<1>6. CASE \E r \in Requests : Commit(r) /\ req[r].draft = d
  <2>1. PICK r \in Requests : Commit(r) /\ req[r].draft = d
    BY <1>6
  <2>2. req[r].kind \in {"create", "approve", "reject", "submit"}
    BY <1>2, <2>1 DEF Handler, Kinds
  <2>3. CASE req[r].kind = "create"
    BY <1>3, <2>1, <2>3
  <2>4. CASE req[r].kind \in Decisions
    BY <1>4, <2>1, <2>4, LogsGrow DEF PipelineInv, StatusEvidence, Decisions
  <2>5. CASE req[r].kind = "submit"
    BY <1>5, <2>1, <2>5
  <2>. QED
    BY <2>2, <2>3, <2>4, <2>5 DEF Decisions
<1>7. CASE \A r \in Requests : Commit(r) => req[r].draft # d
  <2>1. drafts'[d] = drafts[d]
    <3>1. CASE \E r \in Requests : Commit(r)
      BY <1>1, <1>7, <3>1, CommitRow
    <3>2. CASE \A r \in Requests : ~Commit(r)
      BY <3>2 DEF Next, Arrive, Progress, CreateDraft, Decide, Submit, Begin, RecordRow,
             FindApproval, CallERP, LogEvent, MirrorEvent, Fail, StatementEnds, Quiet, tables, vars
    <3>. QED
      BY <3>1, <3>2
  <2>2. \A a \in approvals' \ approvals : a.draft # d
    BY <1>7, LogsGrow DEF NewApproval
  <2>. QED
    BY <2>1, <2>2, LogsGrow DEF PipelineInv, StatusEvidence
<1>. QED
  BY <1>6, <1>7

\* A submit handler still has its approval to find, to cite, and its order.
LEMMA SubmitStep == PipelineInv /\ [Next]_vars => SubmitChecked'
<1> DEFINE Found(r) == MatchingApprovals(req[r].draft, PayloadHash(req[r].row))
           Late == {"matched", "accepted", "logged", "mirrored", "done"}
           Ordered == {"accepted", "logged", "mirrored", "done"}
<1> SUFFICES ASSUME PipelineInv, [Next]_vars, NEW q \in Requests, pc'[q] # "idle"
             PROVE  /\ pc'[q] = "recorded" => req'[q].kind # "submit"
                    /\ pc'[q] \in {"matched", "accepted"} => req'[q].kind = "submit"
                    /\ req'[q].kind = "submit" =>
                          /\ req'[q].row.status = "APPROVED"
                          /\ Found(q)' # {}
                          /\ pc'[q] \in Late => \E a \in Found(q)' : a.id = req'[q].cites
                          /\ pc'[q] \in Ordered => NewOrder(q)' \in orders'
  BY DEF SubmitChecked
<1>1. TypeOK
  BY InvRows
<1>2. CASE pc[q] = "idle"
  <2>1. Arrive(q)
    BY <1>1, <1>2, HandlerStarts
  <2>2. /\ pc'[q] = "loaded" /\ req'[q] \in Handler /\ UNCHANGED <<drafts, approvals>>
        /\ req'[q].kind = "submit" =>
              /\ req'[q].row = drafts[req'[q].draft] /\ req'[q].row # NoRow
              /\ req'[q].row.status = "APPROVED"
    BY <1>1, <2>1, ArrivalKnows DEF Decisions
  <2>3. ASSUME req'[q].kind = "submit"
        PROVE  Found(q)' # {}
    <3>1. PICK a \in approvals : a.draft = req'[q].draft /\ a.approved
      BY <2>2, <2>3 DEF PipelineInv, StatusEvidence, Handler
    <3>2. a.hash = PayloadHash(req'[q].row)
      BY <2>2, <2>3, <3>1 DEF PipelineInv, ApprovalValid
    <3>3. a \in Found(q)'
      BY <2>2, <3>1, <3>2 DEF MatchingApprovals, PayloadHash
    <3>. QED
      BY <3>3
  <2>. QED
    BY <2>2, <2>3
<1>3. CASE pc[q] # "idle"
  <2>1. /\ req'[q].kind = req[q].kind /\ req'[q].draft = req[q].draft
        /\ req'[q].row = req[q].row /\ req[q] \in Handler
    BY <1>1, <1>3, HandlerKept DEF TypeOK
  <2>2. Found(q) \subseteq Found(q)'
    BY <2>1, LogsGrow DEF MatchingApprovals, PayloadHash
  <2>3. orders \subseteq orders'
    BY LogsGrow
  <2>4. CASE pc'[q] = pc[q] /\ req'[q] = req[q]
    BY <1>3, <2>1, <2>2, <2>3, <2>4 DEF PipelineInv, SubmitChecked, NewOrder, PayloadHash
  <2>5. CASE RecordRow(q)
    BY <1>1, <1>3, <2>1, <2>2, <2>5 DEF RecordRow, TypeOK, PipelineInv, SubmitChecked
  <2>6. CASE FindApproval(q)
    <3>1. \E a \in Found(q) : req'[q].cites = a.id
      BY <1>1, <2>1, <2>6 DEF FindApproval, TypeOK, Handler
    <3>2. pc'[q] = "matched" /\ req[q].kind = "submit"
      BY <1>1, <2>6 DEF FindApproval, TypeOK
    <3>. QED
      BY <1>3, <2>1, <2>2, <3>1, <3>2 DEF PipelineInv, SubmitChecked
  <2>7. CASE CallERP(q)
    <3>1. pc[q] = "matched" /\ pc'[q] = "accepted" /\ req'[q] = req[q] /\ NewOrder(q) \in orders'
      BY <1>1, <2>7 DEF CallERP, TypeOK
    <3>2. NewOrder(q)' = NewOrder(q)
      BY <3>1 DEF NewOrder, PayloadHash
    <3>. QED
      BY <1>3, <2>1, <2>2, <3>1, <3>2 DEF PipelineInv, SubmitChecked
  <2>8. CASE LogEvent(q) \/ MirrorEvent(q) \/ Commit(q) \/ Fail(q)
    <3>1. /\ req'[q] = req[q] /\ pc'[q] \in {"logged", "mirrored", "done", "failed"}
          /\ pc'[q] # "failed" => pc[q] \in {"recorded", "accepted", "logged", "mirrored"}
      BY <1>1, <2>8 DEF LogEvent, MirrorEvent, Commit, Fail, TypeOK
    <3>2. NewOrder(q)' = NewOrder(q)
      BY <3>1 DEF NewOrder, PayloadHash
    <3>. QED
      BY <1>3, <2>1, <2>2, <2>3, <3>1, <3>2 DEF PipelineInv, SubmitChecked
  <2>9. ASSUME NEW r \in Requests, Arrive(r)
        PROVE  pc'[q] = pc[q] /\ req'[q] = req[q]
    BY <1>1, <1>3, <2>9 DEF Arrive, CreateDraft, Decide, Submit, Begin, TypeOK
  <2>10. ASSUME NEW r \in Requests \ {q}, Progress(r) \/ Fail(r)
         PROVE  pc'[q] = pc[q] /\ req'[q] = req[q]
    BY <1>1, <2>10 DEF Progress, RecordRow, FindApproval, CallERP, LogEvent, MirrorEvent,
                       Commit, Fail, TypeOK
  <2>. QED
    BY <2>4, <2>5, <2>6, <2>7, <2>8, <2>9, <2>10 DEF Next, Progress, StatementEnds, Quiet, vars
<1>. QED
  BY <1>2, <1>3

\* Every order at the ERP keeps its authority, and a new one has it.
LEMMA OrderStep == PipelineInv /\ [Next]_vars => OrderBacked'
<1> SUFFICES ASSUME PipelineInv, [Next]_vars, NEW o \in orders'
             PROVE  \E a \in approvals' :
                       /\ a.id = o.approval /\ a.draft = o.draft /\ a.approved
                       /\ a.hash = o.hash /\ drafts'[o.draft] # NoRow
                       /\ a.hash = PayloadHash(drafts'[o.draft])
                       /\ CanDecide(a.by, drafts'[o.draft])
  BY DEF OrderBacked, PayloadHash, CanDecide
<1>1. TypeOK /\ ApprovalValid'
  BY InvRows, ApprovalStep
<1>2. \E a \in approvals : a.id = o.approval /\ a.draft = o.draft /\ a.approved /\ a.hash = o.hash
  <2>1. CASE o \in orders
    BY <2>1 DEF PipelineInv, OrderBacked
  <2>2. CASE o \notin orders
    <3>1. PICK r \in Requests : CallERP(r) /\ o = NewOrder(r)
      BY <2>2, LogsGrow
    <3>2. pc[r] = "matched"
      BY <3>1 DEF CallERP
    <3>3. \E a \in MatchingApprovals(req[r].draft, PayloadHash(req[r].row)) : a.id = req[r].cites
      BY <3>2 DEF PipelineInv, SubmitChecked
    <3>. QED
      BY <3>1, <3>3 DEF NewOrder, MatchingApprovals
  <2>. QED
    BY <2>1, <2>2
<1>. QED
  BY <1>1, <1>2, LogsGrow DEF ApprovalValid, PayloadHash, CanDecide

\* PipelineInv is an invariant of the pipeline.
THEOREM PipelineCorrect == Spec => []PipelineInv
<1>1. Init => PipelineInv
  BY DEF Init, PipelineInv, TypeOK, LoadedRowValid, CreatesDistinct, RowsCreated,
         DecisionChecked, SubmitChecked, ApprovalValid, StatusEvidence, OrderBacked
<1>2. PipelineInv /\ [Next]_vars => PipelineInv'
  <2>1. PipelineInv /\ [Next]_vars => TypeOK'
    BY InvRows, TypeStep
  <2>. QED
    BY <2>1, LoadedRowStep, CreatesStep, CreatedStep, DecisionStep, SubmitStep,
       ApprovalStep, StatusStep, OrderStep DEF PipelineInv
<1>. QED
  BY <1>1, <1>2, PTL DEF Spec

\* No order reaches the ERP without a committed approval of that draft and
\* payload hash by somebody entitled to decide (orders.py, approvals.py).
THEOREM OrdersAreBacked == Spec => []OrderBacked
<1>1. PipelineInv => OrderBacked
  BY DEF PipelineInv
<1>. QED
  BY <1>1, PipelineCorrect, PTL

\* The status of a draft always has the decision or the order it claims.
THEOREM StatusIsEvidenced == Spec => []StatusEvidence
<1>1. PipelineInv => StatusEvidence
  BY DEF PipelineInv
<1>. QED
  BY <1>1, PipelineCorrect, PTL

\* A submit handler that saw APPROVED finds the approval it looks up.
THEOREM ApprovalIsFound == Spec => []ApprovalAlwaysFound
<1>1. PipelineInv => ApprovalAlwaysFound
  BY DEF PipelineInv, SubmitChecked, ApprovalAlwaysFound
<1>. QED
  BY <1>1, PipelineCorrect, PTL
=============================================================================

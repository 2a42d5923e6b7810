------------------------- MODULE ManagerTasksProofs -------------------------
(***************************************************************************)
(* Proofs about ManagerTasks for any number of requests, users, stores,    *)
(* titles and notes, handlers that interleave and fail as they like, with  *)
(* users who take turns or not.                                            *)
(***************************************************************************)
EXTENDS ManagerTasks, TLAPS

-----------------------------------------------------------------------------
(* Lemmas about the operators *)

\* An event that is appended comes last, the earlier ones stay.
LEMMA AppendEvent ==
    ASSUME TypeOK, NEW e \in AuditEvent, trail' = Append(trail, e)
    PROVE  /\ trail' \in Seq(AuditEvent)
           /\ Len(trail) \in Nat
           /\ DOMAIN trail = 1 .. Len(trail)
           /\ DOMAIN trail' = 1 .. (Len(trail) + 1)
           /\ \A i \in DOMAIN trail : i \in DOMAIN trail' /\ trail'[i] = trail[i]
           /\ trail'[Len(trail) + 1] = e
BY DEF TypeOK

\* Who passes the check of the status endpoint is entitled to what it writes,
\* and nobody reopens a task.
LEMMA WriteEntitled ==
    ASSUME NEW u \in Users, NEW row \in TaskRow, NEW to \in Status, MayWrite(u, row, to)
    PROVE  to # "OPEN" /\ Entitled(u, row.store, to)
BY ConstantsTyped DEF MayWrite, Entitled

\* What a handler commits is well typed.
LEMMA WritesTyped ==
    ASSUME TypeOK, NEW r \in Requests, pc[r] # "idle"
    PROVE  /\ req[r] \in Handler
           /\ NewStamp(r) \in Stamp
           /\ NewEvent(r) \in AuditEvent
BY DEF TypeOK, Handler, TaskRow, NewStamp, Stamp, NewEvent, AuditEvent

-----------------------------------------------------------------------------
(* What each step knows *)

\* What a request has made sure of when its handler starts.
Checked(r, h) ==
    /\ h.kind = "create" =>
          /\ h.task = r
          /\ h.to = "OPEN"
          /\ h.row.status = "OPEN" /\ h.row.stamp = NoStamp
          /\ tasks[r] = NoTask
          /\ \A o \in Requests : tasks[o] # NoTask /\ About(tasks[o]) = About(h.row)
                                   => tasks[o].status # "OPEN"
    /\ h.kind = "update" =>
          /\ tasks[h.task] # NoTask
          /\ h.row = tasks[h.task]
          /\ h.to # "OPEN"
          /\ Entitled(h.user, h.row.store, h.to)

\* A task's row is there only when its create request has committed.
LEMMA ArriveChecks ==
    ASSUME TypeOK, RowsCreated, NEW r \in Requests, Arrive(r)
    PROVE  \E h \in Handler : Begin(r, h) /\ Checked(r, h)
<1>1. PICK u \in Users, n \in Notes :
         \/ \E s \in Stores, title \in Titles : CreateTask(r, u, s, title, n)
         \/ \E t \in Requests, to \in Status : UpdateStatus(r, u, t, to, n)
  BY DEF Arrive
<1>2. ASSUME NEW s \in Stores, NEW title \in Titles, CreateTask(r, u, s, title, n)
      PROVE  \E h \in Handler : Begin(r, h) /\ Checked(r, h)
  <2> DEFINE h == [kind |-> "create", user |-> u, task |-> r, row |-> NewRow(u, s, title),
                   to |-> "OPEN", notes |-> n]
  <2>1. h \in Handler
    BY DEF Handler, NewRow, TaskRow, Status
  <2>2. Begin(r, h) /\ OpenTasks(s, title) = {} /\ pc[r] = "idle"
    BY <1>2 DEF CreateTask, Begin
  <2>3. tasks[r] = NoTask
    BY <2>2 DEF RowsCreated
  <2>4. \A o \in Requests : tasks[o] # NoTask /\ About(tasks[o]) = About(h.row)
                                 => tasks[o].status # "OPEN"
    BY <2>2 DEF OpenTasks, About, NewRow
  <2>5. Checked(r, h)
    BY <2>2, <2>3, <2>4 DEF Checked, NewRow
  <2>. QED
    BY <2>1, <2>2, <2>5
<1>3. ASSUME NEW t \in Requests, NEW to \in Status, UpdateStatus(r, u, t, to, n)
      PROVE  \E h \in Handler : Begin(r, h) /\ Checked(r, h)
  <2> DEFINE h == [kind |-> "update", user |-> u, task |-> t, row |-> tasks[t],
                   to |-> to, notes |-> n]
  <2>1. tasks[t] \in TaskRow /\ tasks[t] # NoTask
    BY <1>3 DEF UpdateStatus, TypeOK
  <2>2. h \in Handler
    BY <2>1 DEF Handler
  <2>3. Begin(r, h) /\ to # "OPEN" /\ Entitled(u, tasks[t].store, to)
    BY <1>3, <2>1, WriteEntitled DEF UpdateStatus
  <2>4. Checked(r, h)
    BY <2>1, <2>3 DEF Checked
  <2>. QED
    BY <2>2, <2>3, <2>4
<1>. QED
  BY <1>1, <1>2, <1>3

\* The steps of a handler that touch no table.
Moves(r) ==
    /\ pc[r] \in InFlight
    /\ \E to \in InFlight \cup {"failed"} : pc' = [pc EXCEPT ![r] = to]
    /\ UNCHANGED <<tasks, trail, turns, req>>

LEMMA StepKinds ==
    ASSUME TypeOK, RowsCreated, Next
    PROVE  \E r \in Requests :
              \/ \E h \in Handler : Begin(r, h) /\ Checked(r, h)
              \/ Moves(r)
              \/ Commit(r)
<1>1. PICK r \in Requests : Arrive(r) \/ LogEvent(r) \/ Commit(r) \/ Fail(r)
  BY DEF Next
<1>2. LogEvent(r) \/ Fail(r) => Moves(r)
  BY DEF LogEvent, Fail, Moves, InFlight
<1>. QED
  BY <1>1, <1>2, ArriveChecks

\* What a commit does: one row is inserted, or keeps its assignment and takes
\* the status and the stamp the handler writes; one event is appended.
LEMMA CommitWrites ==
    ASSUME TypeOK, CreatesOwn, UpdatesChecked, NEW r \in Requests, Commit(r)
    PROVE  LET h == req[r]
               t == h.task
           IN
           /\ h \in Handler
           /\ pc[r] = "logged"
           /\ NewEvent(r) \in AuditEvent
           /\ trail' = Append(trail, NewEvent(r))
           /\ tasks' \in [Requests -> TaskRow \cup {NoTask}]
           /\ tasks'[t] \in TaskRow /\ tasks'[t] # NoTask
           /\ \A o \in Requests \ {t} : tasks'[o] = tasks[o]
           /\ About(tasks'[t]) = About(h.row)
           /\ h.kind = "create" => tasks'[t] = h.row
           /\ h.kind = "update" =>
                 /\ tasks[t] \in TaskRow
                 /\ tasks'[t].status = IF WritesStatus(r) THEN h.to ELSE tasks[t].status
                 /\ tasks'[t].stamp = IF WritesStamp(r) THEN NewStamp(r) ELSE tasks[t].stamp
<1> DEFINE h == req[r]
           t == h.task
<1>1. pc[r] = "logged" /\ h \in Handler /\ NewStamp(r) \in Stamp /\ NewEvent(r) \in AuditEvent
  BY WritesTyped DEF Commit
<1>2. trail' = Append(trail, NewEvent(r))
  BY DEF Commit
<1>3. t \in Requests /\ h.row \in TaskRow /\ h.to \in Status /\ h.kind \in {"create", "update"}
  BY <1>1 DEF Handler
<1>4. CASE h.kind = "create"
  <2>1. tasks' = [tasks EXCEPT ![t] = h.row]
    BY <1>4 DEF Commit, TypeOK
  <2>2. tasks'[t] = h.row /\ \A o \in Requests \ {t} : tasks'[o] = tasks[o]
    BY <1>3, <2>1 DEF TypeOK
  <2>. QED
    BY <1>1, <1>2, <1>3, <1>4, <2>1, <2>2, NullsDistinct DEF TypeOK
<1>5. CASE h.kind = "update"
  <2> DEFINE row == UpdatedRow(r)
  <2>1. tasks' = [tasks EXCEPT ![t] = row]
    BY <1>5 DEF Commit
  <2>2. tasks[t] \in TaskRow /\ About(tasks[t]) = About(h.row)
    BY <1>1, <1>3, <1>5 DEF UpdatesChecked, TypeOK
  <2>3. /\ row \in TaskRow
        /\ row.status = IF WritesStatus(r) THEN h.to ELSE tasks[t].status
        /\ row.stamp = IF WritesStamp(r) THEN NewStamp(r) ELSE tasks[t].stamp
        /\ row.store = tasks[t].store /\ row.title = tasks[t].title
    BY <1>1, <1>3, <2>2 DEF UpdatedRow, TaskRow
  <2> HIDE DEF row
  <2>4. tasks'[t] = row /\ \A o \in Requests \ {t} : tasks'[o] = tasks[o]
    BY <1>3, <2>1 DEF TypeOK
  <2>5. About(row) = About(h.row)
    BY <2>2, <2>3 DEF About
  <2>. QED
    BY <1>1, <1>2, <1>3, <1>5, <2>1, <2>2, <2>3, <2>4, <2>5, NullsDistinct DEF TypeOK
<1>. QED
  BY <1>3, <1>4, <1>5

-----------------------------------------------------------------------------
(* Each conjunct of TasksInv is kept *)

\* A step keeps every variable within its kind.
LEMMA TypeStep ==
    ASSUME TypeOK, CreatesOwn, UpdatesChecked, RowsCreated, Next
    PROVE  TypeOK'
<1>1. PICK r \in Requests :
         \/ \E h \in Handler : Begin(r, h) /\ Checked(r, h)
         \/ Moves(r)
         \/ Commit(r)
  BY StepKinds
<1>2. ASSUME NEW h \in Handler, Begin(r, h)
      PROVE  TypeOK'
  BY <1>2 DEF Begin, TypeOK, InFlight
<1>3. CASE Moves(r)
  <2>1. PICK to \in InFlight \cup {"failed"} : pc' = [pc EXCEPT ![r] = to]
    BY <1>3 DEF Moves
  <2>2. pc' \in [Requests -> InFlight \cup {"idle", "done", "failed"}]
    BY <2>1 DEF TypeOK
  <2>3. \A q \in Requests : pc'[q] # "idle" => pc[q] # "idle"
    BY <1>3, <2>1 DEF Moves, TypeOK, InFlight
  <2>. QED
    BY <1>3, <2>2, <2>3 DEF Moves, TypeOK
<1>4. CASE Commit(r)
  <2>1. tasks' \in [Requests -> TaskRow \cup {NoTask}] /\ trail' \in Seq(AuditEvent)
    BY <1>4, CommitWrites, AppendEvent
  <2>2. pc' \in [Requests -> InFlight \cup {"idle", "done", "failed"}]
        /\ \A q \in Requests : pc'[q] # "idle" => pc[q] # "idle"
    BY <1>4 DEF Commit, TypeOK
  <2>. QED
    BY <1>4, <2>1, <2>2 DEF Commit, TypeOK
<1>. QED
  BY <1>1, <1>2, <1>3, <1>4

\* A create starts with its own new row, and its commit is what makes the row.
LEMMA CreatesStep ==
    ASSUME TypeOK, CreatesOwn, UpdatesChecked, RowsCreated, Next
    PROVE  CreatesOwn' /\ RowsCreated'
<1>1. PICK r \in Requests :
         \/ \E h \in Handler : Begin(r, h) /\ Checked(r, h)
         \/ Moves(r)
         \/ Commit(r)
  BY StepKinds
<1>2. ASSUME NEW h \in Handler, Begin(r, h), Checked(r, h)
      PROVE  CreatesOwn' /\ RowsCreated'
  BY <1>2 DEF Begin, Checked, CreatesOwn, RowsCreated, TypeOK
<1>3. CASE Moves(r)
  BY <1>3 DEF Moves, CreatesOwn, RowsCreated, TypeOK, InFlight
<1>4. CASE Commit(r)
  <2>1. CreatesOwn'
    BY <1>4 DEF Commit, CreatesOwn, TypeOK
  <2>2. ASSUME NEW o \in Requests, tasks'[o] # NoTask
        PROVE  pc'[o] = "done" /\ req'[o].kind = "create"
    <3>1. CASE tasks[o] # NoTask
      BY <1>4, <3>1 DEF Commit, RowsCreated, TypeOK
    <3>2. CASE tasks[o] = NoTask
      <4>1. o = req[r].task /\ req[r].kind \in {"create", "update"} /\ pc[r] = "logged"
        BY <1>4, <2>2, <3>2, CommitWrites DEF Handler
      <4>2. req[r].kind = "create"
        BY <3>2, <4>1 DEF UpdatesChecked
      <4>3. o = r
        BY <4>1, <4>2 DEF CreatesOwn
      <4>. QED
        BY <1>4, <4>2, <4>3 DEF Commit, TypeOK
    <3>. QED
      BY <3>1, <3>2
  <2>. QED
    BY <2>1, <2>2 DEF RowsCreated
<1>. QED
  BY <1>1, <1>2, <1>3, <1>4

\* A commit announces the status it writes; what it leaves was announced.
LEMMA ShownStep ==
    ASSUME TypeOK, CreatesOwn, UpdatesChecked, RowsCreated, StatusShown, Next
    PROVE  StatusShown'
<1>1. PICK r \in Requests :
         \/ \E h \in Handler : Begin(r, h) /\ Checked(r, h)
         \/ Moves(r)
         \/ Commit(r)
  BY StepKinds
<1>2. CASE Moves(r) \/ \E h \in Handler : Begin(r, h)
  BY <1>2 DEF Begin, Moves, StatusShown
<1>3. CASE Commit(r)
  <2> DEFINE t == req[r].task
             e == NewEvent(r)
  <2>1. e \in AuditEvent /\ trail' = Append(trail, e)
    BY <1>3, CommitWrites
  <2>2. e.task = t /\ e.to = req[r].to /\ req[r].kind \in {"create", "update"}
    BY <1>3, CommitWrites DEF NewEvent, Handler
  <2>3. ASSUME NEW o \in Requests, tasks'[o] # NoTask
        PROVE  \E i \in DOMAIN trail' : trail'[i].task = o /\ trail'[i].to = tasks'[o].status
    <3>1. CASE tasks[o] # NoTask /\ tasks'[o].status = tasks[o].status
      BY <2>1, <3>1, AppendEvent DEF StatusShown
    <3>2. CASE o = t /\ tasks'[o].status = req[r].to
      <4>1. trail'[Len(trail) + 1] = e /\ Len(trail) + 1 \in DOMAIN trail'
        BY <2>1, AppendEvent
      <4>. QED
        BY <2>2, <3>2, <4>1
    <3>3. CASE o # t
      BY <1>3, <2>3, <3>1, <3>3, CommitWrites
    <3>4. CASE o = t /\ req[r].kind = "create"
      BY <1>3, <3>2, <3>4, CommitWrites DEF CreatesOwn
    <3>5. CASE o = t /\ req[r].kind = "update"
      BY <1>3, <3>1, <3>2, <3>5, CommitWrites DEF UpdatesChecked
    <3>. QED
      BY <2>2, <3>3, <3>4, <3>5
  <2>. QED
    BY <2>3 DEF StatusShown
<1>. QED
  BY <1>1, <1>2, <1>3

\* What an update checked stays so while others commit.
LEMMA UpdatesStep ==
    ASSUME TypeOK, CreatesOwn, UpdatesChecked, RowsCreated, StatusShown, Next
    PROVE  UpdatesChecked'
<1>1. PICK r \in Requests :
         \/ \E h \in Handler : Begin(r, h) /\ Checked(r, h)
         \/ Moves(r)
         \/ Commit(r)
  BY StepKinds
<1>2. ASSUME NEW h \in Handler, Begin(r, h), Checked(r, h)
      PROVE  UpdatesChecked'
  <2>. SUFFICES ASSUME NEW q \in Requests, pc'[q] # "idle", req'[q].kind = "update"
                PROVE  /\ tasks'[req'[q].task] # NoTask
                       /\ About(tasks'[req'[q].task]) = About(req'[q].row)
                       /\ req'[q].to # "OPEN"
                       /\ Entitled(req'[q].user, req'[q].row.store, req'[q].to)
                       /\ \E i \in DOMAIN trail' :
                             trail'[i].task = req'[q].task /\ trail'[i].to = req'[q].row.status
    BY DEF UpdatesChecked
  <2>1. CASE q = r
    <3>1. req'[q] = h /\ UNCHANGED <<tasks, trail>> /\ h.task \in Requests
      BY <1>2, <2>1 DEF Begin, TypeOK, Handler
    <3>. QED
      BY <1>2, <3>1 DEF Checked, StatusShown
  <2>2. CASE q # r
    <3>1. req'[q] = req[q] /\ pc'[q] = pc[q] /\ UNCHANGED <<tasks, trail>>
      BY <1>2, <2>2 DEF Begin, TypeOK
    <3>. QED
      BY <3>1 DEF UpdatesChecked
  <2>. QED
    BY <2>1, <2>2
<1>3. CASE Moves(r)
  BY <1>3 DEF Moves, UpdatesChecked, TypeOK, InFlight
<1>4. CASE Commit(r)
  <2>. SUFFICES ASSUME NEW q \in Requests, pc[q] # "idle", req[q].kind = "update"
                PROVE  /\ tasks'[req[q].task] # NoTask
                       /\ About(tasks'[req[q].task]) = About(req[q].row)
                       /\ \E i \in DOMAIN trail' :
                             trail'[i].task = req[q].task /\ trail'[i].to = req[q].row.status
    BY <1>4 DEF Commit, UpdatesChecked, TypeOK
  <2>1. /\ tasks[req[q].task] # NoTask
        /\ About(tasks[req[q].task]) = About(req[q].row)
        /\ req[q].task \in Requests
    <3>1. req[q] \in Handler
      BY DEF TypeOK
    <3>2. req[q].task \in Requests
      BY <3>1 DEF Handler
    <3>. QED
      BY <3>2 DEF UpdatesChecked
  <2> DEFINE Same == /\ tasks'[req[q].task] # NoTask
                     /\ About(tasks'[req[q].task]) = About(req[q].row)
  <2>2. ASSUME req[q].task # req[r].task
        PROVE  Same
    BY <1>4, <2>1, <2>2, CommitWrites
  <2>3. ASSUME req[q].task = req[r].task
        PROVE  Same
    <3>1. tasks[req[r].task] # NoTask /\ req[r].kind \in {"create", "update"} /\ pc[r] = "logged"
      BY <1>4, <2>1, <2>3, CommitWrites DEF Handler
    <3>2. req[r].kind = "update"
      BY <3>1 DEF CreatesOwn, RowsCreated
    <3>3. About(tasks[req[r].task]) = About(req[r].row)
      BY <3>1, <3>2 DEF UpdatesChecked
    <3>4. About(tasks'[req[r].task]) = About(req[r].row) /\ tasks'[req[r].task] # NoTask
      BY <1>4, CommitWrites
    <3>. QED
      BY <2>1, <2>3, <3>3, <3>4
  <2>4. PICK i \in DOMAIN trail : trail[i].task = req[q].task /\ trail[i].to = req[q].row.status
    BY DEF UpdatesChecked
  <2>5. i \in DOMAIN trail' /\ trail'[i] = trail[i]
    BY <1>4, CommitWrites, AppendEvent
  <2>. QED
    BY <2>2, <2>3, <2>4, <2>5
<1>. QED
  BY <1>1, <1>2, <1>3, <1>4

\* An event continues the trail of its task or opens it.
LEMMA GroundedStep ==
    ASSUME TypeOK, CreatesOwn, UpdatesChecked, RowsCreated, TrailGrounded, Next
    PROVE  TrailGrounded'
<1>1. PICK r \in Requests :
         \/ \E h \in Handler : Begin(r, h) /\ Checked(r, h)
         \/ Moves(r)
         \/ Commit(r)
  BY StepKinds
<1>2. CASE Moves(r) \/ \E h \in Handler : Begin(r, h)
  BY <1>2 DEF Begin, Moves, TrailGrounded
<1>3. CASE Commit(r)
  <2> DEFINE t == req[r].task
             e == NewEvent(r)
             n == Len(trail) + 1
  <2>1. e \in AuditEvent /\ trail' = Append(trail, e) /\ req[r] \in Handler /\ pc[r] = "logged"
    BY <1>3, CommitWrites
  <2>2. /\ DOMAIN trail = 1 .. Len(trail) /\ Len(trail) \in Nat
        /\ DOMAIN trail' = 1 .. n /\ trail'[n] = e
        /\ \A i \in DOMAIN trail : trail'[i] = trail[i]
    BY <2>1, AppendEvent
  <2>3. e.task = t /\ t \in Requests
    BY <2>1 DEF NewEvent, Handler
  <2>4. e.from = "NONE" => /\ \A i \in DOMAIN trail : trail[i].task # t
    <3>1. CASE req[r].kind = "create"
      <4>1. t = r /\ tasks[t] = NoTask
        BY <2>1, <3>1 DEF CreatesOwn, RowsCreated
      <4>. QED
        BY <2>3, <4>1 DEF TrailGrounded
    <3>2. CASE req[r].kind = "update"
      BY <2>1, <3>2 DEF NewEvent, Handler, TaskRow, Status
    <3>. QED
      BY <2>1, <3>1, <3>2 DEF Handler
  <2>5. e.from # "NONE" => \E j \in DOMAIN trail : trail[j].task = t /\ trail[j].to = e.from
    <3>1. CASE req[r].kind = "create"
      BY <3>1 DEF NewEvent
    <3>2. CASE req[r].kind = "update"
      BY <2>1, <3>2 DEF NewEvent, UpdatesChecked
    <3>. QED
      BY <2>1, <3>1, <3>2 DEF Handler
  <2> HIDE DEF t, e
  <2>6. ASSUME NEW i \in DOMAIN trail'
        PROVE  IF trail'[i].from = "NONE"
               THEN \A j \in DOMAIN trail' : trail'[j].task = trail'[i].task => i <= j
               ELSE \E j \in 1 .. (i - 1) : trail'[j].task = trail'[i].task
                                            /\ trail'[j].to = trail'[i].from
    <3>1. CASE i = n
      <4>1. trail'[i] = e /\ i = Len(trail) + 1 /\ Len(trail) \in Nat
        BY <2>2, <3>1
      <4>2. CASE e.from = "NONE"
        BY <2>2, <2>3, <2>4, <4>1, <4>2
      <4>3. CASE e.from # "NONE"
        BY <2>2, <2>3, <2>5, <4>1, <4>3
      <4>. QED
        BY <4>2, <4>3
    <3>2. CASE i \in DOMAIN trail
      <4>1. trail'[i] = trail[i] /\ i \in 1 .. Len(trail)
        BY <2>2, <3>2
      <4>2. CASE trail[i].from = "NONE"
        <5>1. \A j \in DOMAIN trail : trail[j].task = trail[i].task => i <= j
          BY <3>2, <4>2 DEF TrailGrounded
        <5>2. i <= n /\ \A j \in DOMAIN trail' : j \in DOMAIN trail \/ j = n
          BY <2>2, <4>1
        <5>. QED
          BY <2>2, <4>1, <4>2, <5>1, <5>2
      <4>3. CASE trail[i].from # "NONE"
        <5>1. PICK j \in 1 .. (i - 1) :
                 trail[j].task = trail[i].task /\ trail[j].to = trail[i].from
          BY <3>2, <4>3 DEF TrailGrounded
        <5>2. trail'[j] = trail[j]
          BY <2>2, <4>1
        <5>. QED
          BY <4>1, <4>3, <5>1, <5>2
      <4>. QED
        BY <4>2, <4>3
    <3>. QED
      BY <2>2, <3>1, <3>2
  <2>7. ASSUME NEW o \in Requests
        PROVE  tasks'[o] # NoTask <=> \E i \in DOMAIN trail' : trail'[i].task = o
    <3>1. CASE o = t
      BY <1>3, <2>2, <2>3, <3>1, CommitWrites DEF t
    <3>2. CASE o # t
      <4>1. tasks'[o] = tasks[o]
        BY <1>3, <3>2, CommitWrites DEF t
      <4>. QED
        BY <2>2, <2>3, <3>2, <4>1 DEF TrailGrounded
    <3>. QED
      BY <3>1, <3>2
  <2>. QED
    BY <2>6, <2>7 DEF TrailGrounded
<1>. QED
  BY <1>1, <1>2, <1>3

\* A commit that writes a status or a stamp appends the event for it.
LEMMA AuthorisedStep ==
    ASSUME TypeOK, CreatesOwn, UpdatesChecked, RowsCreated, StatusAuthorised, Next
    PROVE  StatusAuthorised'
<1>1. PICK r \in Requests :
         \/ \E h \in Handler : Begin(r, h) /\ Checked(r, h)
         \/ Moves(r)
         \/ Commit(r)
  BY StepKinds
<1>2. CASE Moves(r) \/ \E h \in Handler : Begin(r, h)
  BY <1>2 DEF Begin, Moves, StatusAuthorised
<1>3. CASE Commit(r)
  <2> DEFINE t == req[r].task
             e == NewEvent(r)
             n == Len(trail) + 1
  <2>1. e \in AuditEvent /\ trail' = Append(trail, e) /\ req[r] \in Handler /\ pc[r] = "logged"
    BY <1>3, CommitWrites
  <2>2. /\ n \in DOMAIN trail' /\ trail'[n] = e
        /\ \A i \in DOMAIN trail : i \in DOMAIN trail' /\ trail'[i] = trail[i]
    BY <2>1, AppendEvent
  <2>3. e.task = t /\ t \in Requests /\ e.to = req[r].to /\ e.by = req[r].user
        /\ e.notes = req[r].notes
    BY <2>1 DEF NewEvent, Handler
  <2>4. \A o \in Requests \ {t} : tasks'[o] = tasks[o]
    BY <1>3, CommitWrites
  <2>5. ASSUME NEW o \in Requests, tasks'[o] # NoTask, tasks'[o].status # "OPEN"
        PROVE  \E i \in DOMAIN trail' :
                  /\ trail'[i].task = o
                  /\ trail'[i].to = tasks'[o].status
                  /\ Entitled(trail'[i].by, tasks'[o].store, trail'[i].to)
    <3> DEFINE Announced == \E i \in DOMAIN trail' :
                  /\ trail'[i].task = o
                  /\ trail'[i].to = tasks'[o].status
                  /\ Entitled(trail'[i].by, tasks'[o].store, trail'[i].to)
    <3>1. ASSUME tasks[o] # NoTask, tasks'[o].status = tasks[o].status,
                 tasks'[o].store = tasks[o].store
          PROVE  Announced
      <4>1. PICK i \in DOMAIN trail : /\ trail[i].task = o
                                      /\ trail[i].to = tasks[o].status
                                      /\ Entitled(trail[i].by, tasks[o].store, trail[i].to)
        BY <2>5, <3>1 DEF StatusAuthorised
      <4>2. i \in DOMAIN trail' /\ trail'[i] = trail[i]
        BY <2>2
      <4>. QED
        BY <3>1, <4>1, <4>2
    <3>2. CASE o # t
      BY <2>4, <2>5, <3>1, <3>2
    <3>3. CASE o = t /\ req[r].kind = "create"
      BY <1>3, <2>5, <3>3, CommitWrites DEF CreatesOwn
    <3>4. CASE o = t /\ req[r].kind = "update"
      <4>1. /\ tasks[t] # NoTask
            /\ tasks'[t].store = tasks[t].store
            /\ tasks'[t].store = req[r].row.store
            /\ Entitled(req[r].user, req[r].row.store, req[r].to)
        BY <1>3, <2>1, <3>4, CommitWrites DEF UpdatesChecked, About
      <4>2. tasks'[t].status = req[r].to \/ tasks'[t].status = tasks[t].status
        BY <1>3, <3>4, CommitWrites
      <4>3. ASSUME tasks'[t].status = req[r].to
            PROVE  Announced
        <5>1. Entitled(trail'[n].by, tasks'[o].store, trail'[n].to)
          BY <2>2, <2>3, <3>4, <4>1
        <5>. QED
          BY <2>2, <2>3, <3>4, <4>3, <5>1
      <4>. QED
        BY <3>1, <3>4, <4>1, <4>2, <4>3
    <3>. QED
      BY <2>1, <3>2, <3>3, <3>4 DEF Handler
  <2>6. ASSUME NEW o \in Requests, tasks'[o] # NoTask, tasks'[o].stamp # NoStamp
        PROVE  \E i \in DOMAIN trail' :
                  /\ trail'[i].task = o
                  /\ tasks'[o].stamp = [by |-> trail'[i].by, previous |-> trail'[i].from,
                                        notes |-> trail'[i].notes]
    <3>1. CASE tasks[o] # NoTask /\ tasks'[o].stamp = tasks[o].stamp
      <4>1. PICK i \in DOMAIN trail :
               /\ trail[i].task = o
               /\ tasks[o].stamp = [by |-> trail[i].by, previous |-> trail[i].from,
                                    notes |-> trail[i].notes]
        BY <2>6, <3>1 DEF StatusAuthorised
      <4>2. i \in DOMAIN trail' /\ trail'[i] = trail[i]
        BY <2>2
      <4>. QED
        BY <3>1, <4>1, <4>2
    <3>2. CASE o # t
      BY <2>4, <2>6, <3>1, <3>2
    <3>3. CASE o = t /\ req[r].kind = "create"
      BY <1>3, <2>6, <3>3, CommitWrites DEF CreatesOwn
    <3>4. CASE o = t /\ req[r].kind = "update" /\ tasks'[t].stamp = NewStamp(r)
      <4>1. e.from = req[r].row.status
        BY <3>4 DEF NewEvent
      <4>2. tasks'[o].stamp = [by |-> e.by, previous |-> e.from, notes |-> e.notes]
        BY <2>3, <3>4, <4>1 DEF NewStamp
      <4>. QED
        BY <2>2, <2>3, <3>4, <4>2
    <3>5. CASE o = t /\ req[r].kind = "update" /\ tasks'[t].stamp # NewStamp(r)
      <4>1. tasks[t] # NoTask /\ tasks'[t].stamp = tasks[t].stamp
        BY <1>3, <2>1, <3>5, CommitWrites DEF UpdatesChecked
      <4>. QED
        BY <3>1, <3>5, <4>1
    <3>. QED
      BY <2>1, <3>2, <3>3, <3>4, <3>5 DEF Handler
  <2>. QED
    BY <2>5, <2>6 DEF StatusAuthorised
<1>. QED
  BY <1>1, <1>2, <1>3

\* Who takes turns finds the assignment as it was read.
LEMMA TurnsStep ==
    ASSUME TypeOK, CreatesOwn, UpdatesChecked, RowsCreated, TurnsTaken, Next
    PROVE  TurnsTaken'
<1>. SUFFICES ASSUME turns', NEW q \in Requests, pc'[q] \in InFlight
              PROVE  /\ \A p \in Requests \ {q} :
                           pc'[p] \in InFlight => About(req'[p].row) # About(req'[q].row)
                     /\ req'[q].kind = "update" => req'[q].row = tasks'[req'[q].task]
                     /\ req'[q].kind = "create" =>
                           \A o \in Requests :
                              tasks'[o] # NoTask /\ About(tasks'[o]) = About(req'[q].row)
                                 => tasks'[o].status # "OPEN"
  BY DEF TurnsTaken
<1>1. PICK r \in Requests :
         \/ \E h \in Handler : Begin(r, h) /\ Checked(r, h)
         \/ Moves(r)
         \/ Commit(r)
  BY StepKinds
<1>2. ASSUME NEW h \in Handler, Begin(r, h), Checked(r, h)
      PROVE  /\ \A p \in Requests \ {q} :
                   pc'[p] \in InFlight => About(req'[p].row) # About(req'[q].row)
             /\ req'[q].kind = "update" => req'[q].row = tasks'[req'[q].task]
             /\ req'[q].kind = "create" =>
                   \A o \in Requests :
                      tasks'[o] # NoTask /\ About(tasks'[o]) = About(req'[q].row)
                         => tasks'[o].status # "OPEN"
  <2>1. /\ turns /\ UNCHANGED <<tasks, trail, turns>>
        /\ req'[r] = h
        /\ \A p \in Requests \ {r} : req'[p] = req[p] /\ pc'[p] = pc[p]
        /\ \A p \in Requests \ {r} : pc[p] \in InFlight => About(req[p].row) # About(h.row)
    BY <1>2 DEF Begin, Idle, TypeOK
  <2>2. CASE q = r
    BY <1>2, <2>1, <2>2 DEF Checked
  <2>3. CASE q # r
    <3>1. pc[q] \in InFlight /\ req'[q] = req[q]
      BY <2>1, <2>3
    <3>. QED
      BY <2>1, <2>3, <3>1 DEF TurnsTaken
  <2>. QED
    BY <2>2, <2>3
<1>3. CASE Moves(r)
  <2>1. /\ turns /\ UNCHANGED <<tasks, trail, turns, req>>
        /\ \A p \in Requests : pc'[p] \in InFlight => pc[p] \in InFlight
    BY <1>3 DEF Moves, TypeOK, InFlight
  <2>. QED
    BY <2>1 DEF TurnsTaken
<1>4. CASE Commit(r)
  <2> DEFINE t == req[r].task
             row == req[q].row
  <2>1. /\ turns /\ UNCHANGED <<turns, req>>
        /\ q # r /\ pc[q] \in InFlight /\ pc[r] \in InFlight
        /\ \A p \in Requests : pc'[p] \in InFlight => pc[p] \in InFlight
    BY <1>4 DEF Commit, TypeOK, InFlight
  <2>2. /\ \A o \in Requests \ {t} : tasks'[o] = tasks[o]
        /\ About(tasks'[t]) = About(req[r].row)
    BY <1>4, CommitWrites
  <2>3. About(req[r].row) # About(row)
    BY <2>1 DEF TurnsTaken
  <2>4. req[q] \in Handler /\ req[r] \in Handler
    BY <2>1, WritesTyped DEF InFlight
  <2>5. ASSUME req[q].kind = "update"
        PROVE  row = tasks'[req[q].task]
    <3>1. row = tasks[req[q].task] /\ req[q].task \in Requests /\ tasks[req[q].task] # NoTask
      BY <2>1, <2>4, <2>5 DEF TurnsTaken, UpdatesChecked, Handler, InFlight
    <3>2. req[q].task # t
      <4>1. CASE req[r].kind = "create"
        BY <2>1, <3>1, <4>1 DEF CreatesOwn, RowsCreated, InFlight
      <4>2. CASE req[r].kind = "update"
        <5>1. About(tasks[t]) = About(req[r].row)
          BY <2>1, <4>2 DEF UpdatesChecked, InFlight
        <5>. QED
          BY <2>3, <3>1, <5>1
      <4>. QED
        BY <2>4, <4>1, <4>2 DEF Handler
    <3>. QED
      BY <2>2, <3>1, <3>2
  <2>6. ASSUME req[q].kind = "create", NEW o \in Requests,
               tasks'[o] # NoTask, About(tasks'[o]) = About(row)
        PROVE  tasks'[o].status # "OPEN"
    <3>1. o # t
      BY <2>2, <2>3, <2>6
    <3>. QED
      BY <2>1, <2>2, <2>6, <3>1 DEF TurnsTaken
  <2>. QED
    BY <2>1, <2>5, <2>6 DEF TurnsTaken
<1>. QED
  BY <1>1, <1>2, <1>3, <1>4

\* A create that found no open task finds none when it commits.
LEMMA OneOpenStep ==
    ASSUME TypeOK, CreatesOwn, UpdatesChecked, RowsCreated, TurnsTaken, OneOpenTask, Next
    PROVE  OneOpenTask'
<1>1. PICK r \in Requests :
         \/ \E h \in Handler : Begin(r, h) /\ Checked(r, h)
         \/ Moves(r)
         \/ Commit(r)
  BY StepKinds
<1>2. CASE Moves(r) \/ \E h \in Handler : Begin(r, h)
  BY <1>2 DEF Begin, Moves, OneOpenTask, NoDuplicateOpen
<1>3. CASE Commit(r)
  <2>. SUFFICES ASSUME turns, NEW a \in Requests, NEW b \in Requests,
                       tasks'[a] # NoTask, tasks'[a].status = "OPEN",
                       tasks'[b] # NoTask, tasks'[b].status = "OPEN",
                       About(tasks'[a]) = About(tasks'[b]), a # b
                PROVE  FALSE
    BY <1>3 DEF Commit, OneOpenTask, NoDuplicateOpen
  <2> DEFINE t == req[r].task
  <2>1. /\ \A o \in Requests \ {t} : tasks'[o] = tasks[o]
        /\ About(tasks'[t]) = About(req[r].row)
        /\ req[r] \in Handler /\ pc[r] \in InFlight
    BY <1>3, CommitWrites DEF InFlight
  <2>2. CASE req[r].kind = "create"
    <3>1. \A o \in Requests : ~(/\ tasks[o] # NoTask
                               /\ About(tasks[o]) = About(req[r].row)
                               /\ tasks[o].status = "OPEN")
      BY <2>1, <2>2 DEF TurnsTaken
    <3>. QED
      BY <2>1, <3>1 DEF OneOpenTask, NoDuplicateOpen
  <2>3. CASE req[r].kind = "update"
    <3>1. /\ tasks[t] # NoTask
          /\ About(tasks[t]) = About(req[r].row)
          /\ req[r].to # "OPEN"
      BY <2>1, <2>3 DEF UpdatesChecked, InFlight
    <3>2. tasks'[t].status = "OPEN" => tasks[t].status = "OPEN"
      BY <1>3, <2>3, <3>1, CommitWrites
    <3>. QED
      BY <2>1, <3>1, <3>2 DEF OneOpenTask, NoDuplicateOpen
  <2>. QED
    BY <2>1, <2>2, <2>3 DEF Handler
<1>. QED
  BY <1>1, <1>2, <1>3

-----------------------------------------------------------------------------
(* Users who take turns see the board *)

\* The board shows exactly the tasks that exist.
LEMMA ShownIs ==
    ASSUME TypeOK, NEW o \in Requests
    PROVE  /\ tasks[o] = NoTask => Shown[o].status = "NONE"
           /\ tasks[o] # NoTask => /\ Shown[o].status = tasks[o].status
                                  /\ Shown[o].about = About(tasks[o])
                                  /\ Shown[o].status # "NONE"
<1>1. tasks[o] # NoTask => tasks[o].status # "NONE"
  BY DEF TypeOK, TaskRow, Status
<1>. QED
  BY <1>1 DEF Shown

\* A commit of a handler whose user took a turn is one step of the board.
LEMMA BoardStep ==
    ASSUME TasksInv, turns, NEW r \in Requests, Commit(r)
    PROVE  Board!Next
<1> USE DEF TasksInv
<1> DEFINE h == req[r]
           e == NewEvent(r)
<1>0. PICK t \in Requests : t = h.task
  BY CommitWrites DEF Handler
<1>1. /\ h \in Handler /\ pc[r] \in InFlight /\ pc[r] = "logged"
      /\ trail' = Append(trail, e)
      /\ tasks' \in [Requests -> TaskRow \cup {NoTask}]
      /\ tasks'[t] \in TaskRow /\ tasks'[t] # NoTask
      /\ \A o \in Requests \ {t} : tasks'[o] = tasks[o]
      /\ About(tasks'[t]) = About(h.row)
  BY <1>0, CommitWrites DEF InFlight
<1>2. /\ h.user \in Users /\ h.notes \in Notes /\ h.row \in TaskRow
      /\ h.kind \in {"create", "update"} /\ h.to \in Status
  BY <1>1 DEF Handler
<1>3. \A o \in Requests \ {t} : Shown'[o] = Shown[o]
  BY <1>1 DEF Shown, Entry
<1>4. Shown = [o \in Requests |-> Shown[o]] /\ Shown' = [o \in Requests |-> Shown'[o]]
  BY DEF Shown
<1>5. Shown'[t] = [status |-> tasks'[t].status, about |-> About(tasks'[t]), last |-> Entry(t)']
  BY <1>1 DEF Shown
<1>6. CASE h.kind = "create"
  <2>0. /\ t = r /\ h.to = "OPEN"
        /\ h.row.status = "OPEN" /\ h.row.stamp = NoStamp
    BY <1>0, <1>1, <1>6 DEF CreatesOwn, InFlight
  <2>1. /\ tasks[t] = NoTask /\ tasks'[t] = h.row
        /\ h.row.status = "OPEN" /\ h.row.stamp = NoStamp
        /\ e = [task |-> t, from |-> "NONE", to |-> "OPEN", by |-> h.user, notes |-> h.notes]
    <3>1. tasks[t] = NoTask
      BY <1>1, <2>0 DEF RowsCreated
    <3>2. tasks'[t] = h.row
      BY <1>0, <1>6, CommitWrites
    <3>3. e = [task |-> t, from |-> "NONE", to |-> "OPEN", by |-> h.user, notes |-> h.notes]
      BY <1>0, <1>6, <2>0 DEF NewEvent
    <3>. QED
      BY <2>0, <3>1, <3>2, <3>3
  <2>2. Shown'[t] = [status |-> "OPEN", about |-> About(h.row), last |-> NoTask]
    BY <1>5, <2>1 DEF Entry
  <2>3. About(h.row) \in Stores \X Titles
    BY <1>2 DEF TaskRow, About
  <2>4. ~\E o \in Requests : Shown[o].status = "OPEN" /\ Shown[o].about = About(h.row)
    <3>1. \A o \in Requests : tasks[o] # NoTask /\ About(tasks[o]) = About(h.row)
                                 => tasks[o].status # "OPEN"
      BY <1>1, <1>6 DEF TurnsTaken
    <3>. QED
      BY <3>1, ShownIs
  <2>5. Shown[t].status = "NONE"
    BY <1>2, <2>1, ShownIs
  <2>6. Shown' = [Shown EXCEPT ![t] =
                     [status |-> "OPEN", about |-> About(h.row), last |-> NoTask]]
    BY <1>3, <1>4, <2>2
  <2>7. Board!Assign(t, About(h.row), h.user, h.notes)
    BY <1>1, <2>1, <2>4, <2>5, <2>6 DEF Board!Assign
  <2>. QED
    BY <1>2, <2>3, <2>7 DEF Board!Next
<1>7. CASE h.kind = "update"
  <2>1. /\ tasks[t] # NoTask /\ tasks[t] \in TaskRow /\ h.row = tasks[t] /\ h.to # "OPEN"
    BY <1>0, <1>1, <1>7, CommitWrites DEF UpdatesChecked, TurnsTaken, InFlight
  <2>2. tasks'[t].status = h.to
    BY <1>0, <1>7, <2>1, CommitWrites DEF WritesStatus
  <2>3. tasks'[t].stamp = NewStamp(r) /\ NewStamp(r) \in Stamp
    BY <1>0, <1>1, <1>7, <2>1, CommitWrites, WritesTyped DEF WritesStamp
  <2>4. e = [task |-> t, from |-> tasks[t].status, to |-> h.to, by |-> h.user,
             notes |-> h.notes]
    BY <1>0, <1>7, <2>1 DEF NewEvent
  <2>5. Entry(t)' = e
    BY <2>1, <2>2, <2>3, <2>4, NullsDistinct DEF Entry, NewStamp
  <2>6. About(tasks'[t]) = About(tasks[t])
    BY <1>1, <2>1, Zenon
  <2>7. Shown[t] = [status |-> tasks[t].status, about |-> About(tasks[t]), last |-> Entry(t)]
    BY <2>1 DEF Shown
  <2>8. Shown'[t] = [status |-> h.to, about |-> About(tasks[t]), last |-> e]
    <3>1. \A x : Entry(t)' = x =>
            Shown'[t] = [status |-> tasks'[t].status, about |-> About(tasks'[t]), last |-> x]
      BY <1>5
    <3>. QED
      BY <2>2, <2>5, <2>6, <3>1
  <2>9. Shown' = [Shown EXCEPT ![t] = [status |-> h.to, about |-> @.about, last |-> e]]
    BY <1>3, <1>4, <2>7, <2>8
  <2>10. Board!Move(t, h.to, h.user, h.notes)
    BY <1>1, <1>2, <2>1, <2>4, <2>7, <2>9, ShownIs DEF Board!Move
  <2>. QED
    BY <1>2, <2>1, <2>10 DEF Board!Next, Status
<1>. QED
  BY <1>2, <1>6, <1>7

-----------------------------------------------------------------------------
(* The theorems *)

\* TasksInv holds in every state of every behaviour: what handlers have read
\* and written, the tasks and their trail agree.
THEOREM TasksCorrect == Spec => []TasksInv
<1>1. Init => TasksInv
  <2>. SUFFICES ASSUME Init PROVE TasksInv
    OBVIOUS
  <2>1. TypeOK
    <3>1. trail \in Seq(AuditEvent)
      BY DEF Init
    <3>. QED
      BY <3>1, ConstantsTyped DEF Init, TypeOK
  <2>2. StatusShown /\ CreatesOwn /\ RowsCreated /\ UpdatesChecked /\ StatusAuthorised
        /\ OneOpenTask
    BY DEF Init, StatusShown, CreatesOwn, RowsCreated, UpdatesChecked, StatusAuthorised,
           OneOpenTask, NoDuplicateOpen
  <2>3. TrailGrounded /\ TurnsTaken
    BY DEF Init, TrailGrounded, TurnsTaken, InFlight
  <2>. QED
    BY <2>1, <2>2, <2>3 DEF TasksInv
<1>2. TasksInv /\ [Next]_vars => TasksInv'
  <2>. SUFFICES ASSUME TasksInv, [Next]_vars PROVE TasksInv'
    OBVIOUS
  <2>1. CASE Next
    BY <2>1, TypeStep, CreatesStep, ShownStep, UpdatesStep, GroundedStep, AuthorisedStep,
       TurnsStep, OneOpenStep DEF TasksInv
  <2>2. CASE UNCHANGED vars
    BY <2>2 DEF vars, TasksInv, TypeOK, StatusShown, CreatesOwn, RowsCreated, UpdatesChecked,
                TrailGrounded, StatusAuthorised, TurnsTaken, OneOpenTask, NoDuplicateOpen
  <2>. QED
    BY <2>1, <2>2
<1>. QED
  BY <1>1, <1>2, PTL DEF Spec

\* Every variable of the task handlers always holds a value of its kind.
THEOREM TasksTypeCorrect == Spec => []TypeOK
BY TasksCorrect, PTL DEF TasksInv

\* However updates overlap, the status a task shows was written by somebody
\* update_manager_task_status lets write it, and its payload is of one update.
THEOREM StatusIsAuthorised == Spec => []StatusAuthorised
BY TasksCorrect, PTL DEF TasksInv

\* The audit trail of a task begins with its creation and never reports a
\* previous status the trail has not shown.
THEOREM TrailIsGrounded == Spec => []TrailGrounded
BY TasksCorrect, PTL DEF TasksInv

\* While users take turns the check of create_manager_task_action is enough:
\* no assignment has two open tasks.
THEOREM OneIsOpen == Spec => []OneOpenTask
BY TasksCorrect, PTL DEF TasksInv

\* While users take turns, the handlers with their awaits, failures and stale
\* rows implement the task board: every step is one of its operations or none.
THEOREM BoardImplemented == Spec => ImplementsBoard
<1>1. Init => Board!Init
  BY DEF Init, Board!Init, Shown
<1>2. TasksInv /\ [Next]_vars => [turns => Board!Next]_<<Shown, trail>>
  <2>. SUFFICES ASSUME TasksInv, [Next]_vars, turns, ~UNCHANGED <<Shown, trail>>
                PROVE  Board!Next
    OBVIOUS
  <2>1. ~UNCHANGED <<tasks, trail>>
    BY DEF Shown, Entry
  <2>2. PICK r \in Requests : Commit(r)
    BY <2>1, StepKinds DEF TasksInv, vars, Begin, Moves
  <2>. QED
    BY <2>2, BoardStep
<1>. QED
  BY <1>1, <1>2, TasksCorrect, PTL DEF Spec, ImplementsBoard

=============================================================================

---------------------------- MODULE ManagerTasks ----------------------------
(***************************************************************************)
(* Tasks that managers assign to the rep of a store: POST /manager/tasks   *)
(* (and the same service behind the assistant) creates a task unless an    *)
(* open one for the same assignment is found; POST /manager/tasks/{id}/    *)
(* status lets the rep complete or block it and a manager cancel it.       *)
(* Handlers interleave at every await over a read-committed database, as   *)
(* in OrderHITL; the audit sink is the database one, whose event is part   *)
(* of the transaction.  A request that a guard refuses changes nothing.    *)
(*                                                                         *)
(* A definition that precedes another with the start of its name           *)
(* (MayWriteAny, MayWrite) is a faulty variant: Next does not use it, a    *)
(* property fails when it takes the other's place.                         *)
(***************************************************************************)
EXTENDS Naturals, Sequences

CONSTANTS
    Requests,      \* request identities; the task a create inserts has its id
    Users, Stores, Territories,
    Titles,        \* title and type of a task
    Notes,         \* notes of a request
    Role, UserTerritory,        \* token claims
    StoreRep, StoreTerritory,   \* the store master data
    Manners,       \* values turns may have
    NoTask, NoStamp, NoRequest

VARIABLES
    tasks,   \* manager_tasks, committed, by id
    trail,   \* audit_events about tasks, committed, in the order of commits
    turns,   \* TRUE: users never overlap requests about one assignment
    pc,      \* where each handler is
    req      \* what each handler holds

vars == <<tasks, trail, turns, pc, req>>

-----------------------------------------------------------------------------
(* Types *)

Status == {"OPEN", "COMPLETED", "BLOCKED", "CANCELLED"}

\* What manager_task_status_payload leaves in payload_json.
Stamp == [by: Users, previous: Status, notes: Notes]

TaskRow == [store: Stores, title: Titles, by: Users, status: Status,
            stamp: Stamp \cup {NoStamp}]

AuditEvent == [task: Requests, from: Status \cup {"NONE"}, to: Status,
               by: Users, notes: Notes]

\* row: the row to insert or the row as loaded; to: the status requested.
Handler == [kind: {"create", "update"}, user: Users, task: Requests,
            row: TaskRow, to: Status, notes: Notes]

InFlight == {"loaded", "logged"}

ASSUME ConstantsTyped ==
    /\ Role \in [Users -> {"rep", "manager", "admin"}]
    /\ UserTerritory \in [Users -> Territories]
    /\ StoreRep \in [Stores -> Users]
    /\ StoreTerritory \in [Stores -> Territories]
    /\ Manners \subseteq BOOLEAN

ASSUME NullsDistinct ==
    /\ NoTask \notin TaskRow
    /\ NoStamp \notin Stamp
    /\ NoRequest \notin Handler

-----------------------------------------------------------------------------
(* Access rules and what a handler writes *)

\* rbac.assert_territory_access
TerritoryAccess(u, territory) == Role[u] = "admin" \/ UserTerritory[u] = territory

\* Who may write which status, the territory and rep being those of the row.
MayWriteAny(u, row, to) ==
    \/ Role[u] = "rep" /\ StoreRep[row.store] = u
    \/ /\ Role[u] \in {"manager", "admin"}
       /\ TerritoryAccess(u, StoreTerritory[row.store])
       /\ to = "CANCELLED"

MayWriteReopening(u, row, to) ==
    \/ Role[u] = "rep" /\ StoreRep[row.store] = u /\ to \in {"COMPLETED", "BLOCKED"}
    \/ /\ Role[u] \in {"manager", "admin"}
       /\ TerritoryAccess(u, StoreTerritory[row.store])
       /\ to \in {"CANCELLED", "OPEN"}

MayWrite(u, row, to) ==
    \/ Role[u] = "rep" /\ StoreRep[row.store] = u /\ to \in {"COMPLETED", "BLOCKED"}
    \/ /\ Role[u] \in {"manager", "admin"}
       /\ TerritoryAccess(u, StoreTerritory[row.store])
       /\ to = "CANCELLED"

\* The assignment a task is about (territory and rep follow from the store).
About(row) == <<row.store, row.title>>

\* The open tasks that stop a create, and the one it answers with.
OpenTasks(s, title) ==
    {t \in Requests : /\ tasks[t] # NoTask
                      /\ About(tasks[t]) = <<s, title>>
                      /\ tasks[t].status = "OPEN"}

NewRowDraft(u, s, title) ==
    [store |-> s, title |-> title, by |-> u, status |-> "DRAFT", stamp |-> NoStamp]

NewRow(u, s, title) ==
    [store |-> s, title |-> title, by |-> u, status |-> "OPEN", stamp |-> NoStamp]

\* The stamp is built from the row as loaded.
NewStamp(r) ==
    [by |-> req[r].user, previous |-> req[r].row.status, notes |-> req[r].notes]

\* The session writes the attributes that differ from what it loaded.
WritesStatus(r) == req[r].kind = "update" /\ req[r].to # req[r].row.status
WritesStampWithStatus(r) == WritesStatus(r)
WritesStamp(r) == req[r].kind = "update" /\ NewStamp(r) # req[r].row.stamp

\* The UPDATE names the row by its key: what it does not write stays as it
\* was committed by others.
UpdatedRow(r) ==
    [tasks[req[r].task] EXCEPT
        !.status = IF WritesStatus(r) THEN req[r].to ELSE @,
        !.stamp = IF WritesStamp(r) THEN NewStamp(r) ELSE @]

\* The row lock of a flushed UPDATE, held until commit or rollback.
HoldsRow(r, t) ==
    /\ pc[r] = "logged"
    /\ req[r].task = t
    /\ WritesStatus(r) \/ WritesStamp(r)

RowFree(r) ==
    WritesStatus(r) \/ WritesStamp(r) =>
        \A q \in Requests \ {r} : ~HoldsRow(q, req[r].task)

NewEventOverwritten(r) ==
    [task |-> req[r].task,
     from |-> IF req[r].kind = "create" THEN "NONE" ELSE req[r].to,
     to |-> req[r].to, by |-> req[r].user, notes |-> req[r].notes]

NewEvent(r) ==
    [task |-> req[r].task,
     from |-> IF req[r].kind = "create" THEN "NONE" ELSE req[r].row.status,
     to |-> req[r].to, by |-> req[r].user, notes |-> req[r].notes]

Idle(about) == \A q \in Requests : pc[q] \in InFlight => About(req[q].row) # about

-----------------------------------------------------------------------------
Init ==
    /\ tasks = [t \in Requests |-> NoTask]
    /\ trail = <<>>
    /\ turns \in Manners
    /\ pc = [r \in Requests |-> "idle"]
    /\ req = [r \in Requests |-> NoRequest]

Begin(r, handler) ==
    /\ pc[r] = "idle"
    /\ turns => Idle(About(handler.row))
    /\ pc' = [pc EXCEPT ![r] = "loaded"]
    /\ req' = [req EXCEPT ![r] = handler]
    /\ UNCHANGED <<tasks, trail, turns>>

\* POST /manager/tasks, up to the SELECT that finds no open task.  When it
\* finds one the handler answers with the newest and changes nothing.
CreateTask(r, u, s, title, n) ==
    /\ Role[u] \in {"manager", "admin"}
    /\ TerritoryAccess(u, StoreTerritory[s])
    /\ OpenTasks(s, title) = {}
    /\ Begin(r, [kind |-> "create", user |-> u, task |-> r, row |-> NewRow(u, s, title),
                 to |-> "OPEN", notes |-> n])

\* POST /manager/tasks/{id}/status: load the task and check the request.
\* The status the task has already is not looked at.
UpdateStatus(r, u, t, to, n) ==
    /\ tasks[t] # NoTask
    /\ MayWrite(u, tasks[t], to)
    /\ Begin(r, [kind |-> "update", user |-> u, task |-> t, row |-> tasks[t],
                 to |-> to, notes |-> n])

\* The new row and the event are flushed, or the event and the UPDATE, which
\* waits for the row.  Only this session sees them.
LogEvent(r) ==
    /\ pc[r] = "loaded"
    /\ RowFree(r)
    /\ pc' = [pc EXCEPT ![r] = "logged"]
    /\ UNCHANGED <<tasks, trail, turns, req>>

\* db.commit().
Commit(r) ==
    LET t == req[r].task IN
    /\ pc[r] = "logged"
    /\ tasks' = [tasks EXCEPT ![t] =
                    IF req[r].kind = "create" THEN req[r].row ELSE UpdatedRow(r)]
    /\ trail' = Append(trail, NewEvent(r))
    /\ pc' = [pc EXCEPT ![r] = "done"]
    /\ UNCHANGED <<turns, req>>

\* An exception, a lost connection or a crash: the session is rolled back.
Fail(r) ==
    /\ pc[r] \in InFlight
    /\ pc' = [pc EXCEPT ![r] = "failed"]
    /\ UNCHANGED <<tasks, trail, turns, req>>

Arrive(r) ==
    \E u \in Users, n \in Notes :
        \/ \E s \in Stores, title \in Titles : CreateTask(r, u, s, title, n)
        \/ \E t \in Requests, to \in Status : UpdateStatus(r, u, t, to, n)

Next == \E r \in Requests : Arrive(r) \/ LogEvent(r) \/ Commit(r) \/ Fail(r)

Spec == Init /\ [][Next]_vars

-----------------------------------------------------------------------------
(* Properties *)

\* Every variable holds values of its kind, and a handler that has started
\* holds its arguments.
TypeOK ==
    /\ tasks \in [Requests -> TaskRow \cup {NoTask}]
    /\ trail \in Seq(AuditEvent)
    /\ turns \in BOOLEAN
    /\ pc \in [Requests -> InFlight \cup {"idle", "done", "failed"}]
    /\ req \in [Requests -> Handler \cup {NoRequest}]
    /\ \A r \in Requests : pc[r] # "idle" => req[r] \in Handler

\* Cancelling is for the managers of the territory and the admin, the rest
\* for the rep of the store.
Entitled(u, s, to) ==
    IF to = "CANCELLED"
    THEN Role[u] # "rep" /\ TerritoryAccess(u, StoreTerritory[s])
    ELSE Role[u] = "rep" /\ StoreRep[s] = u

\* However updates overlap and overwrite one another, a task shows a status
\* only if somebody entitled to write it did, and its payload names the
\* author, notes and previous status of one update that was committed.
StatusAuthorised ==
    \A t \in Requests : tasks[t] # NoTask =>
        /\ tasks[t].status # "OPEN" =>
              \E i \in DOMAIN trail :
                 /\ trail[i].task = t
                 /\ trail[i].to = tasks[t].status
                 /\ Entitled(trail[i].by, tasks[t].store, trail[i].to)
        /\ tasks[t].stamp # NoStamp =>
              \E i \in DOMAIN trail :
                 /\ trail[i].task = t
                 /\ tasks[t].stamp = [by |-> trail[i].by, previous |-> trail[i].from,
                                      notes |-> trail[i].notes]

\* The trail of a task begins with its creation, and the previous status an
\* event reports is one the trail has shown before: overlapping updates may
\* report the same previous status, never one the task did not have.
TrailGrounded ==
    /\ \A i \in DOMAIN trail :
          IF trail[i].from = "NONE"
          THEN \A j \in DOMAIN trail : trail[j].task = trail[i].task => i <= j
          ELSE \E j \in 1 .. (i - 1) : trail[j].task = trail[i].task /\ trail[j].to = trail[i].from
    /\ \A t \in Requests : tasks[t] # NoTask <=> \E i \in DOMAIN trail : trail[i].task = t

\* docs/implementation-continuation-plan.md: duplicate open assignment
\* prevention.
NoDuplicateOpen ==
    \A t, o \in Requests :
        (/\ tasks[t] # NoTask /\ tasks[t].status = "OPEN"
         /\ tasks[o] # NoTask /\ tasks[o].status = "OPEN"
         /\ About(tasks[t]) = About(tasks[o])) => t = o

\* When the users of an assignment take turns, it never has two open tasks,
\* although handlers fail and requests are repeated.
OneOpenTask == turns => NoDuplicateOpen

-----------------------------------------------------------------------------
(* The inductive invariant behind the properties above *)

\* What a task shows was announced by an event.
StatusShown ==
    \A t \in Requests : tasks[t] # NoTask =>
        \E i \in DOMAIN trail : trail[i].task = t /\ trail[i].to = tasks[t].status

\* A create works on a new, open row with its own id.
CreatesOwn ==
    \A r \in Requests : pc[r] # "idle" /\ req[r].kind = "create" =>
        /\ req[r].task = r
        /\ req[r].to = "OPEN"
        /\ req[r].row.status = "OPEN"
        /\ req[r].row.stamp = NoStamp

\* A row exists only because the create request with its id committed it.
RowsCreated ==
    \A t \in Requests : tasks[t] # NoTask => pc[t] = "done" /\ req[t].kind = "create"

\* An update was checked against a task whose assignment is as it was, and
\* the status it saw, stale as it may be, is in the trail.
UpdatesChecked ==
    \A r \in Requests : pc[r] # "idle" /\ req[r].kind = "update" =>
        /\ tasks[req[r].task] # NoTask
        /\ About(tasks[req[r].task]) = About(req[r].row)
        /\ req[r].to # "OPEN"
        /\ Entitled(req[r].user, req[r].row.store, req[r].to)
        /\ \E i \in DOMAIN trail :
              trail[i].task = req[r].task /\ trail[i].to = req[r].row.status

\* When users take turns, what a handler has read is still so: nobody else is
\* at work on the assignment.
TurnsTaken ==
    turns => \A r \in Requests : pc[r] \in InFlight =>
        /\ \A q \in Requests \ {r} : pc[q] \in InFlight => About(req[q].row) # About(req[r].row)
        /\ req[r].kind = "update" => req[r].row = tasks[req[r].task]
        /\ req[r].kind = "create" =>
              \A t \in Requests : tasks[t] # NoTask /\ About(tasks[t]) = About(req[r].row)
                                     => tasks[t].status # "OPEN"

TasksInv ==
    /\ TypeOK
    /\ StatusShown
    /\ CreatesOwn
    /\ RowsCreated
    /\ UpdatesChecked
    /\ TrailGrounded
    /\ StatusAuthorised
    /\ TurnsTaken
    /\ OneOpenTask

-----------------------------------------------------------------------------
(* The board the handlers implement when users take turns *)

Entry(t) ==
    IF tasks[t].stamp = NoStamp THEN NoTask
    ELSE [task |-> t, from |-> tasks[t].stamp.previous, to |-> tasks[t].status,
          by |-> tasks[t].stamp.by, notes |-> tasks[t].stamp.notes]

Shown == [t \in Requests |->
    IF tasks[t] = NoTask THEN [status |-> "NONE", about |-> NoTask, last |-> NoTask]
    ELSE [status |-> tasks[t].status, about |-> About(tasks[t]), last |-> Entry(t)]]

Board == INSTANCE TaskBoard WITH
    Ids <- Requests, Topics <- Stores \X Titles, Authors <- Users, Remarks <- Notes,
    Absent <- NoTask, board <- Shown, log <- trail

\* When users take turns every step is a step of the board or none of it:
\* the log is the whole history, each entry starts where the one before
\* ended, and the row agrees with the last entry about it.
ImplementsBoard == Board!Init /\ [][turns => Board!Next]_<<Shown, trail>>
=============================================================================

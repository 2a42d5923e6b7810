---------------------------- MODULE FeedbackSync ----------------------------
(***************************************************************************)
(* Alert feedback from the rep's browser to the backend.  Online, a tap is *)
(* sent at once; offline, or when sending fails, it goes into the queue    *)
(* kept in localStorage.  flushQueue sends a copy of the whole queue when  *)
(* the browser comes online, the page is loaded or the demo role changes,  *)
(* and clears the queue when the backend has answered.  The backend stores *)
(* a batch in one transaction and recognises a retried event by its        *)
(* idempotency key.  Browser and backend are separate processes: an answer *)
(* may be lost, a page reloaded, while the handler goes on.  A feedback    *)
(* row stands for its audit event too: with the default audit sink both    *)
(* are written in one transaction.                                         *)
(*                                                                         *)
(* A definition that precedes another with the start of its name           *)
(* (SyncCommitUnkeyed, SyncCommit) is a faulty variant: Next does not use  *)
(* it, a property fails when it takes the other's place.                   *)
(***************************************************************************)
EXTENDS Naturals, Sequences, Functions

CONSTANTS
    Taps,        \* feedback taps; a tap that is queued draws one key (a uuid)
    Flushes,     \* runs of flushQueue that may be under way together
    Perishable,  \* taps whose alert may leave the data source
    MaxBatch     \* the most events one sync request may carry (100)

VARIABLES
    role,     \* the demo role in localStorage: whose token requests carry
    online,   \* navigator.onLine
    calm,     \* TRUE once nothing fails any more (see CalmDown)
    queue,    \* the feedback queue in localStorage
    tap,      \* how far handleFeedback has come with each tap
    post,     \* the backend's side of each POST /alerts/{id}/feedback
    flush,    \* the exchanges of POST /sync/feedback-events
    listed,   \* taps whose alert the data source returns
    direct,   \* taps with an alert_feedback row stored by their own POST
    synced,   \* number of alert_feedback rows stored for a tap by sync
    records,  \* idempotency_records: keys stored
    late      \* history: taps queued while a flush was waiting for its answer

browser == <<role, online, queue, tap, late>>
backend == <<direct, synced, records>>
vars == <<browser, backend, post, flush, listed, calm>>

Roles == {"rep", "manager"}
Ended == {"committed", "refused"}

\* One exchange: the batch copied from the queue, whose token it carries,
\* whether the page still waits, how far the handler is and what its session
\* holds.
Exchange == [batch: Seq(Taps), who: Roles, waiting: BOOLEAN,
             handler: {"arriving", "working"} \cup Ended,
             pos: Nat \ {0}, pending: SUBSET Taps]

Free == [batch |-> <<>>, who |-> "rep", waiting |-> FALSE,
         handler |-> "refused", pos |-> 1, pending |-> {}]

InFlight(x) == x.waiting \/ x.handler \notin Ended

\* The handler ends; nobody waits for an answer when the page is gone.
EndUnnamed(x, outcome) ==
    IF x.waiting THEN [x EXCEPT !.handler = "ended", !.pos = 1, !.pending = {}] ELSE Free
End(x, outcome) ==
    IF x.waiting THEN [x EXCEPT !.handler = outcome, !.pos = 1, !.pending = {}] ELSE Free
Forget(x) == IF x.handler \in Ended THEN Free ELSE [x EXCEPT !.waiting = FALSE]

ASSUME BoundsTyped ==
    /\ Perishable \subseteq Taps
    /\ MaxBatch \in Nat \ {0}

-----------------------------------------------------------------------------
Init ==
    /\ role = "rep"
    /\ online \in BOOLEAN
    /\ queue = <<>>
    /\ tap = [t \in Taps |-> "new"]
    /\ post = [t \in Taps |-> "none"]
    /\ flush = [f \in Flushes |-> Free]
    /\ listed = Taps
    /\ calm = FALSE
    /\ direct = {}
    /\ synced = [t \in Taps |-> 0]
    /\ records = {}
    /\ late = {}

\* queueFeedback: read the queue, append the event, write it back.
Enqueue(t) ==
    /\ queue' = Append(queue, t)
    /\ tap' = [tap EXCEPT ![t] = "queued"]
    /\ late' = IF \E f \in Flushes : flush[f].waiting THEN late \cup {t} ELSE late

\* flushQueue, up to its await, with the exchanges as they are in fl.
Launch(fl, who) ==
    IF queue = <<>>
    THEN flush' = fl
    ELSE \E f \in Flushes :
            /\ ~InFlight(fl[f])
            /\ flush' = [fl EXCEPT ![f] =
                   [batch |-> queue, who |-> who, waiting |-> TRUE,
                    handler |-> "arriving", pos |-> 1, pending |-> {}]]

-----------------------------------------------------------------------------
(* The browser *)

\* handleFeedback, up to its await: the rep's view only.
Tap(t) ==
    /\ role = "rep"
    /\ tap[t] = "new"
    /\ \/ /\ ~online
          /\ Enqueue(t)
          /\ UNCHANGED post
       \/ /\ online
          /\ tap' = [tap EXCEPT ![t] = "waiting"]
          /\ post' = [post EXCEPT ![t] = "arriving"]
          /\ UNCHANGED <<queue, late>>
    /\ UNCHANGED <<role, online, backend, flush, listed, calm>>

DirectOk(t) ==
    /\ tap[t] = "waiting"
    /\ post[t] = "stored"
    /\ tap' = [tap EXCEPT ![t] = "delivered"]
    /\ post' = [post EXCEPT ![t] = "none"]
    /\ UNCHANGED <<role, online, queue, late, backend, flush, listed, calm>>

\* The catch branch: an error status, or no answer whatever the backend did.
DirectFail(t) ==
    /\ tap[t] = "waiting"
    /\ calm => post[t] = "refused"
    /\ Enqueue(t)
    /\ post' = [post EXCEPT ![t] = IF @ = "arriving" THEN @ ELSE "none"]
    /\ UNCHANGED <<role, online, backend, flush, listed, calm>>

GoOffline ==
    /\ online
    /\ online' = FALSE
    /\ UNCHANGED <<role, queue, tap, late, post, backend, flush, listed, calm>>

ComeOnline ==
    /\ ~online
    /\ online' = TRUE
    /\ Launch(flush, role)
    /\ UNCHANGED <<role, queue, tap, late, post, backend, listed, calm>>

\* switchRole stores the role; the effect that depends on it flushes.
SwitchRole ==
    /\ calm => role # "rep"
    /\ role' \in Roles \ {role}
    /\ IF online THEN Launch(flush, role') ELSE UNCHANGED flush
    /\ UNCHANGED <<online, queue, tap, late, post, backend, listed, calm>>

\* The page is reloaded: promises under way are gone, localStorage stays,
\* and the mounted page flushes.
Reload ==
    /\ ~calm
    /\ tap' = [t \in Taps |-> IF tap[t] = "waiting" THEN "dropped" ELSE tap[t]]
    /\ LET left == [f \in Flushes |-> Forget(flush[f])] IN
       IF online THEN Launch(left, role) ELSE flush' = left
    /\ UNCHANGED <<role, online, queue, late, post, backend, listed, calm>>

\* The await of flushQueue is over: clearQueuedFeedback empties the queue,
\* whatever it holds by now.
FlushOkAlways(f) ==
    /\ flush[f].waiting
    /\ flush[f].handler \in Ended
    /\ flush' = [flush EXCEPT ![f] = Free]
    /\ queue' = <<>>
    /\ UNCHANGED <<role, online, tap, late, post, backend, listed, calm>>

FlushOk(f) ==
    /\ flush[f].waiting
    /\ flush[f].handler = "committed"
    /\ flush' = [flush EXCEPT ![f] = Free]
    /\ queue' = <<>>
    /\ UNCHANGED <<role, online, tap, late, post, backend, listed, calm>>

\* An error status, or no answer: the promise is rejected and the queue stays.
FlushFail(f) ==
    /\ flush[f].waiting
    /\ calm => flush[f].handler = "refused"
    /\ flush' = [flush EXCEPT ![f] = Forget(@)]
    /\ UNCHANGED <<browser, post, backend, listed, calm>>

-----------------------------------------------------------------------------
(* The backend *)

\* submit_feedback: create_alert_feedback and commit.
PostFeedback(t) ==
    /\ post[t] = "arriving"
    /\ t \in listed
    /\ post' = [post EXCEPT ![t] = IF tap[t] = "waiting" THEN "stored" ELSE "none"]
    /\ direct' = direct \cup {t}
    /\ UNCHANGED <<browser, flush, listed, synced, records, calm>>

\* 404 for an alert that is not listed; otherwise a request that never
\* arrived or a handler that failed.
PostRefused(t) ==
    /\ post[t] = "arriving"
    /\ calm => t \notin listed
    /\ post' = [post EXCEPT ![t] = IF tap[t] = "waiting" THEN "refused" ELSE "none"]
    /\ UNCHANGED <<browser, flush, listed, backend, calm>>

\* The request body is validated: at most MaxBatch events (422).
SyncArrive(f) ==
    /\ flush[f].handler = "arriving"
    /\ flush' = [flush EXCEPT ![f] =
                    IF Len(@.batch) <= MaxBatch THEN [@ EXCEPT !.handler = "working"]
                    ELSE End(@, "refused")]
    /\ UNCHANGED <<browser, post, listed, backend, calm>>

\* The loop takes the events one by one, awaiting the database and the data
\* source for each.  Several outcomes:
AtEvent(f, t) ==
    /\ flush[f].handler = "working"
    /\ flush[f].pos <= Len(flush[f].batch)
    /\ t = flush[f].batch[flush[f].pos]

Continue(f, x) ==
    /\ flush' = [flush EXCEPT ![f] = x]
    /\ UNCHANGED <<browser, post, listed, calm, backend>>

Skip(f) == Continue(f, [flush[f] EXCEPT !.pos = @ + 1])
Refuse(f) == Continue(f, End(flush[f], "refused"))

\* the key does not start with the caller's rep id (400),
SyncForeign(f) ==
    /\ \E t \in Taps : AtEvent(f, t)
    /\ flush[f].who # "rep"
    /\ Refuse(f)

\* the key is on record: the stored feedback is returned as a duplicate,
SyncDuplicateRefused(f) ==
    /\ flush[f].who = "rep"
    /\ \E t \in records : AtEvent(f, t)
    /\ Refuse(f)

SyncDuplicate(f) ==
    /\ flush[f].who = "rep"
    /\ \E t \in records : AtEvent(f, t)
    /\ Skip(f)

\* the alert is unknown (404),
SyncUnknownSkipped(f) ==
    /\ flush[f].who = "rep"
    /\ \E t \in Taps \ (records \cup listed) : AtEvent(f, t)
    /\ Skip(f)

SyncUnknown(f) ==
    /\ flush[f].who = "rep"
    /\ \E t \in Taps \ (records \cup listed) : AtEvent(f, t)
    /\ Refuse(f)

\* or the session gets a feedback row, its audit event and the key's record.
SyncAdd(f) ==
    /\ flush[f].who = "rep"
    /\ \E t \in listed \ records :
          /\ AtEvent(f, t)
          /\ Continue(f, [flush[f] EXCEPT !.pos = @ + 1, !.pending = @ \cup {t}])

\* db.commit().  The key is the primary key of idempotency_records: a batch
\* with a key that another transaction has committed meanwhile is rolled
\* back as a whole (SyncConflict).
SyncCommitUnkeyed(f) ==
    LET x == flush[f] IN
    /\ x.handler = "working"
    /\ x.pos > Len(x.batch)
    /\ flush' = [flush EXCEPT ![f] = End(@, "committed")]
    /\ records' = records \cup x.pending
    /\ synced' = [t \in Taps |-> IF t \in x.pending THEN synced[t] + 1 ELSE synced[t]]
    /\ UNCHANGED <<browser, post, listed, direct, calm>>

SyncCommit(f) ==
    LET x == flush[f] IN
    /\ x.handler = "working"
    /\ x.pos > Len(x.batch)
    /\ x.pending \cap records = {}
    /\ flush' = [flush EXCEPT ![f] = End(@, "committed")]
    /\ records' = records \cup x.pending
    /\ synced' = [t \in Taps |-> IF t \in x.pending THEN synced[t] + 1 ELSE synced[t]]
    /\ UNCHANGED <<browser, post, listed, direct, calm>>

SyncConflict(f) ==
    /\ flush[f].handler = "working"
    /\ flush[f].pos > Len(flush[f].batch)
    /\ flush[f].pending \cap records # {}
    /\ flush' = [flush EXCEPT ![f] = End(@, "refused")]
    /\ UNCHANGED <<browser, post, listed, backend, calm>>

\* The request never arrives, the handler or the process fails.
SyncLost(f) ==
    /\ ~calm
    /\ flush[f].handler \in {"arriving", "working"}
    /\ flush' = [flush EXCEPT ![f] = End(@, "refused")]
    /\ UNCHANGED <<browser, post, listed, backend, calm>>

\* An alert is resolved, or the next prediction run renames it.
Expire(t) ==
    /\ t \in Perishable \cap listed
    /\ listed' = listed \ {t}
    /\ UNCHANGED <<browser, post, flush, backend, calm>>

\* From here on no request is lost, no handler fails, no page reloads, and
\* the page goes back to the rep's role and stays there.
CalmDown ==
    /\ ~calm
    /\ calm' = TRUE
    /\ UNCHANGED <<browser, post, flush, listed, backend>>

Handle(f) ==
    \/ SyncArrive(f)
    \/ SyncForeign(f) \/ SyncDuplicate(f) \/ SyncUnknown(f) \/ SyncAdd(f)
    \/ SyncCommit(f) \/ SyncConflict(f)

Next ==
    \/ \E t \in Taps : Tap(t) \/ DirectOk(t) \/ DirectFail(t)
    \/ \E t \in Taps : PostFeedback(t) \/ PostRefused(t) \/ Expire(t)
    \/ \E f \in Flushes : FlushOk(f) \/ FlushFail(f) \/ Handle(f) \/ SyncLost(f)
    \/ GoOffline \/ ComeOnline \/ SwitchRole \/ Reload

Spec == Init /\ [][Next]_vars

\* Handlers and continuations run when they can.  The rest is about the
\* world: faults end, and the rep's device comes online again and again.
FairSpec ==
    /\ Init /\ [][Next \/ CalmDown]_vars /\ WF_vars(CalmDown)
    /\ \A f \in Flushes : WF_vars(Handle(f)) /\ WF_vars(FlushOk(f) \/ FlushFail(f))
    /\ WF_vars(GoOffline)
    /\ SF_vars(calm /\ SwitchRole)
    /\ SF_vars(ComeOnline)

-----------------------------------------------------------------------------
(* Properties *)

\* Every variable holds values of its kind.
TypeOK ==
    /\ role \in Roles
    /\ online \in BOOLEAN
    /\ calm \in BOOLEAN
    /\ queue \in Seq(Taps)
    /\ tap \in [Taps -> {"new", "waiting", "delivered", "queued", "dropped"}]
    /\ post \in [Taps -> {"none", "arriving", "stored", "refused"}]
    /\ flush \in [Flushes -> Exchange]
    /\ listed \subseteq Taps
    /\ direct \subseteq Taps
    /\ synced \in [Taps -> Nat]
    /\ records \subseteq Taps
    /\ late \subseteq Taps

\* However often and however concurrently a queued event is sent, sync
\* stores it at most once, and its key is on record exactly when it is.
KeyStoredOnce ==
    \A t \in Taps : synced[t] = IF t \in records THEN 1 ELSE 0

\* A sync that is answered with success has every event of its batch on
\* record: stored by this request or by an earlier one.
AnsweredMeansStored ==
    \A f \in Flushes : flush[f].handler = "committed" => Range(flush[f].batch) \subseteq records

\* An event queued while no flush was waiting for its answer is in the
\* queue until sync has stored it, through reloads, role changes, lost
\* answers and failing handlers.
QueuedKept ==
    \A t \in Taps : tap[t] = "queued" /\ t \notin late => t \in Range(queue) \cup records

-----------------------------------------------------------------------------
(* The inductive invariant behind KeyStoredOnce, AnsweredMeansStored and    *)
(* QueuedKept.                                                              *)

\* Every event the loop has passed is on record or in the handler's session.
LoopKeeps ==
    \A f \in Flushes : \A i \in DOMAIN flush[f].batch :
        i < flush[f].pos => flush[f].batch[i] \in flush[f].pending \cup records

\* What the queue holds beyond the batch of a waiting flush was queued while
\* that flush was waiting.
BatchCovers ==
    \A f \in Flushes : flush[f].waiting => Range(queue) \subseteq Range(flush[f].batch) \cup late

SyncInv ==
    /\ TypeOK
    /\ KeyStoredOnce
    /\ LoopKeeps
    /\ AnsweredMeansStored
    /\ BatchCovers
    /\ QueuedKept

-----------------------------------------------------------------------------
(* Liveness, and what the documentation says of the program *)

\* As long as every alert stays listed and the queue fits one request, a
\* queued event does not stay in the queue for ever: a retry of what was
\* stored already counts as done.
QueueDrains ==
    [](listed = Taps /\ Len(queue) <= MaxBatch) =>
        \A t \in Taps : t \in Range(queue) ~> t \notin Range(queue)

\* docs/architecture-ontology.md: captured_offline -> queued -> synced ->
\* persisted.  No queued event is lost.
QueuedNeverLost ==
    \A t \in Taps : tap[t] = "queued" => t \in Range(queue) \cup records
=============================================================================

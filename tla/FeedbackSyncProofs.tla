------------------------- MODULE FeedbackSyncProofs -------------------------
(***************************************************************************)
(* Proofs about FeedbackSync for any number of taps and of overlapping     *)
(* flushes, any limit on a batch, and requests, handlers and pages that    *)
(* fail as they like (calm and fairness are not used).                     *)
(***************************************************************************)
EXTENDS FeedbackSync, TLAPS

-----------------------------------------------------------------------------
(* Lemmas about the operators *)

\* Appending an event to the queue adds that event and nothing else.
LEMMA RangeAppend ==
    ASSUME NEW S, NEW q \in Seq(S), NEW t \in S
    PROVE  /\ Append(q, t) \in Seq(S)
           /\ Range(Append(q, t)) = Range(q) \cup {t}
<1> DEFINE a == Append(q, t)
<1>1. a \in Seq(S) /\ Len(a) = Len(q) + 1 /\ a[Len(q) + 1] = t
      /\ \A i \in 1 .. Len(q) : a[i] = q[i]
  OBVIOUS
<1>2. DOMAIN a = 1 .. (Len(q) + 1) /\ DOMAIN q = 1 .. Len(q) /\ Len(q) \in Nat
  BY <1>1
<1>3. DOMAIN a = DOMAIN q \cup {Len(q) + 1}
  BY <1>2
<1> HIDE DEF a
<1>4. Range(a) = Range(q) \cup {t}
  BY <1>1, <1>2, <1>3 DEF Range
<1>. QED
  BY <1>1, <1>4 DEF a

\* An empty queue holds no event.
LEMMA RangeEmpty == Range(<<>>) = {}
BY DEF Range

\* The free slot is an exchange nobody waits for and no handler works on.
LEMMA FreeTyped ==
    /\ Free \in Exchange
    /\ ~Free.waiting
    /\ Free.handler = "refused"
BY DEF Free, Exchange, Roles, Ended

\* A handler that ends leaves a well-typed exchange; it has the outcome and
\* the batch when the page still waits, and is the free slot otherwise.
LEMMA EndKeeps ==
    ASSUME NEW x \in Exchange, NEW outcome \in Ended
    PROVE  /\ End(x, outcome) \in Exchange
           /\ x.waiting => /\ End(x, outcome).waiting
                           /\ End(x, outcome).batch = x.batch
                           /\ End(x, outcome).handler = outcome
           /\ ~x.waiting => End(x, outcome) = Free
           /\ End(x, outcome).pos = 1
<1>1. CASE x.waiting
  <2>1. End(x, outcome) = [x EXCEPT !.handler = outcome, !.pos = 1, !.pending = {}]
    BY <1>1 DEF End
  <2>2. End(x, outcome) = [batch |-> x.batch, who |-> x.who, waiting |-> x.waiting,
                           handler |-> outcome, pos |-> 1, pending |-> {}]
    BY <2>1 DEF Exchange
  <2>. QED
    BY <1>1, <2>2 DEF Exchange, Ended
<1>2. CASE ~x.waiting
  BY <1>2, FreeTyped DEF End, Free
<1>. QED
  BY <1>1, <1>2

\* A page that no longer waits leaves the handler as it is, or a free slot.
LEMMA ForgetKeeps ==
    ASSUME NEW x \in Exchange
    PROVE  /\ Forget(x) \in Exchange
           /\ ~Forget(x).waiting
           /\ Forget(x).handler # "committed"
           /\ \/ Forget(x) = Free
              \/ /\ Forget(x).handler = x.handler
                 /\ Forget(x).batch = x.batch
                 /\ Forget(x).pos = x.pos
                 /\ Forget(x).pending = x.pending
BY FreeTyped DEF Forget, Exchange, Ended

-----------------------------------------------------------------------------
(* What a step does to one exchange *)

\* The slot takes an exchange the page has just started.
Launched(f) ==
    /\ flush'[f] = [batch |-> queue, who |-> flush'[f].who, waiting |-> TRUE,
                    handler |-> "arriving", pos |-> 1, pending |-> {}]
    /\ flush'[f].who \in Roles
    /\ UNCHANGED <<queue, late>>

\* The loop passes one event, which is on record or joins the session.
Passed(f) ==
    LET x == flush[f]
        y == flush'[f]
    IN
    /\ y.batch = x.batch /\ y.waiting = x.waiting /\ y.handler = "working"
    /\ y.pos = x.pos + 1
    /\ x.pending \subseteq y.pending
    /\ x.batch[x.pos] \in y.pending \cup records
    /\ UNCHANGED <<queue, late>>

\* The handler ends with its session committed.
Committed(f) ==
    /\ flush'[f] = End(flush[f], "committed")
    /\ flush[f].pos > Len(flush[f].batch)
    /\ records' = records \cup flush[f].pending
    /\ UNCHANGED <<queue, late>>

ExchangeStep(f) ==
    \/ flush'[f] = flush[f]
    \/ flush'[f] = Free
    \/ flush'[f] = Forget(flush[f])
    \/ Launched(f)
    \/ /\ flush'[f] = End(flush[f], "refused")
       /\ UNCHANGED <<queue, late>>
    \/ /\ flush'[f] = [flush[f] EXCEPT !.handler = "working"]
       /\ UNCHANGED <<queue, late>>
    \/ Passed(f)
    \/ Committed(f)

\* flushQueue starts one exchange and leaves the other slots.
LEMMA LaunchStep ==
    ASSUME TypeOK, NEW fl \in [Flushes -> Exchange], NEW who \in Roles,
           Launch(fl, who), UNCHANGED <<queue, late>>
    PROVE  /\ flush' \in [Flushes -> Exchange]
           /\ \A f \in Flushes : flush'[f] = fl[f] \/ Launched(f)
<1>1. CASE queue = <<>>
  BY <1>1 DEF Launch
<1>2. CASE queue # <<>>
  <2> DEFINE x == [batch |-> queue, who |-> who, waiting |-> TRUE,
                   handler |-> "arriving", pos |-> 1, pending |-> {}]
  <2>1. x \in Exchange /\ x.who = who
    BY DEF TypeOK, Exchange
  <2>2. PICK g \in Flushes : flush' = [fl EXCEPT ![g] = x]
    BY <1>2 DEF Launch
  <2>3. flush'[g] = x /\ \A f \in Flushes \ {g} : flush'[f] = fl[f]
    BY <2>2
  <2>4. Launched(g)
    BY <2>1, <2>3 DEF Launched
  <2> HIDE DEF x
  <2>. QED
    BY <2>1, <2>2, <2>3, <2>4
<1>. QED
  BY <1>1, <1>2

\* Every step moves every exchange in one of the ways listed above.
LEMMA EveryExchange ==
    ASSUME TypeOK, Next
    PROVE  /\ flush' \in [Flushes -> Exchange]
           /\ \A f \in Flushes : ExchangeStep(f)
<1>0. flush \in [Flushes -> Exchange]
  BY DEF TypeOK
<1>1. CASE UNCHANGED flush
  BY <1>0, <1>1 DEF ExchangeStep
<1>2. ASSUME NEW g \in Flushes, NEW x \in Exchange, flush' = [flush EXCEPT ![g] = x],
             flush'[g] = x => ExchangeStep(g)
      PROVE  /\ flush' \in [Flushes -> Exchange]
             /\ \A f \in Flushes : ExchangeStep(f)
  <2>1. flush'[g] = x /\ flush' \in [Flushes -> Exchange]
    BY <1>0, <1>2
  <2>2. \A f \in Flushes \ {g} : flush'[f] = flush[f]
    BY <1>0, <1>2
  <2>. QED
    BY <1>2, <2>1, <2>2 DEF ExchangeStep
<1>3. ASSUME NEW t \in Taps, Tap(t) \/ DirectOk(t) \/ DirectFail(t)
                              \/ PostFeedback(t) \/ PostRefused(t) \/ Expire(t)
      PROVE  UNCHANGED flush
  BY <1>3 DEF Tap, DirectOk, DirectFail, PostFeedback, PostRefused, Expire
<1>4. ASSUME NEW g \in Flushes, FlushOk(g) \/ FlushFail(g)
      PROVE  /\ flush' \in [Flushes -> Exchange]
             /\ \A f \in Flushes : ExchangeStep(f)
  <2>1. flush[g] \in Exchange
    BY <1>0
  <2>2. CASE FlushOk(g)
    BY <1>2, <2>2, FreeTyped DEF FlushOk, ExchangeStep
  <2>3. CASE FlushFail(g)
    <3>1. flush' = [flush EXCEPT ![g] = Forget(flush[g])]
      BY <2>3, <1>0 DEF FlushFail
    <3>. QED
      BY <1>2, <2>1, <3>1, ForgetKeeps DEF ExchangeStep
  <2>. QED
    BY <1>4, <2>2, <2>3
<1>5. ASSUME NEW g \in Flushes, NEW outcome \in Ended,
             flush' = [flush EXCEPT ![g] = End(@, outcome)],
             UNCHANGED <<queue, late>>,
             outcome = "committed" => Committed(g) \/ flush'[g] # End(flush[g], outcome)
      PROVE  /\ flush' \in [Flushes -> Exchange]
             /\ \A f \in Flushes : ExchangeStep(f)
  <2>1. flush' = [flush EXCEPT ![g] = End(flush[g], outcome)]
    BY <1>0, <1>5
  <2>2. End(flush[g], outcome) \in Exchange
    BY <1>0, EndKeeps
  <2>. QED
    BY <1>2, <1>5, <2>1, <2>2 DEF ExchangeStep, Ended
<1>6. ASSUME NEW g \in Flushes, Handle(g) \/ SyncLost(g)
      PROVE  /\ flush' \in [Flushes -> Exchange]
             /\ \A f \in Flushes : ExchangeStep(f)
  <2> DEFINE y == flush[g]
  <2>0. y \in Exchange
    BY <1>0
  <2>1. CASE SyncArrive(g)
    <3>1. CASE Len(y.batch) <= MaxBatch
      <4>1. flush' = [flush EXCEPT ![g] = [y EXCEPT !.handler = "working"]]
            /\ UNCHANGED <<queue, late>>
        BY <1>0, <2>1, <3>1 DEF SyncArrive, browser
      <4>2. [y EXCEPT !.handler = "working"] \in Exchange
        BY <2>0 DEF Exchange
      <4>. QED
        BY <1>2, <4>1, <4>2 DEF ExchangeStep
    <3>2. CASE ~(Len(y.batch) <= MaxBatch)
      <4>1. flush' = [flush EXCEPT ![g] = End(@, "refused")] /\ UNCHANGED <<queue, late>>
        BY <1>0, <2>1, <3>2 DEF SyncArrive, browser
      <4>. QED
        BY <1>5, <4>1 DEF Ended
    <3>. QED
      BY <3>1, <3>2
  <2>2. CASE SyncForeign(g) \/ SyncUnknown(g) \/ SyncConflict(g) \/ SyncLost(g)
    <3>1. flush' = [flush EXCEPT ![g] = End(@, "refused")] /\ UNCHANGED <<queue, late>>
      BY <1>0, <2>2 DEF SyncForeign, SyncUnknown, SyncConflict, SyncLost, Refuse,
                        Continue, browser
    <3>. QED
      BY <1>5, <3>1 DEF Ended
  <2>3. CASE SyncDuplicate(g) \/ SyncAdd(g)
    <3>1. /\ y.handler = "working"
          /\ y.pos \in DOMAIN y.batch
          /\ y.batch[y.pos] \in Taps
      <4>1. \E t \in Taps : AtEvent(g, t)
        BY <2>3 DEF SyncDuplicate, SyncAdd, AtEvent, TypeOK
      <4>2. y.handler = "working" /\ y.pos <= Len(y.batch)
        BY <4>1 DEF AtEvent
      <4>3. y.batch \in Seq(Taps) /\ y.pos \in Nat \ {0}
        BY <2>0 DEF Exchange
      <4>. QED
        BY <4>2, <4>3
    <3>2. CASE SyncDuplicate(g)
      <4>1. flush' = [flush EXCEPT ![g] = [y EXCEPT !.pos = @ + 1]]
            /\ UNCHANGED <<queue, late>> /\ y.batch[y.pos] \in records
        BY <3>2 DEF SyncDuplicate, AtEvent, Skip, Continue, browser
      <4>2. [y EXCEPT !.pos = @ + 1] \in Exchange
        BY <2>0 DEF Exchange
      <4>3. flush'[g] = [y EXCEPT !.pos = @ + 1]
        BY <1>0, <4>1
      <4>4. Passed(g)
        BY <2>0, <3>1, <4>1, <4>3 DEF Passed, Exchange
      <4>. QED
        BY <1>2, <4>1, <4>2, <4>4 DEF ExchangeStep
    <3>3. CASE SyncAdd(g)
      <4>1. flush' = [flush EXCEPT ![g] =
                        [y EXCEPT !.pos = @ + 1, !.pending = @ \cup {y.batch[y.pos]}]]
            /\ UNCHANGED <<queue, late>>
        <5>1. PICK t \in listed \ records :
                 /\ AtEvent(g, t)
                 /\ Continue(g, [y EXCEPT !.pos = @ + 1, !.pending = @ \cup {t}])
          BY <3>3 DEF SyncAdd
        <5>2. t = y.batch[y.pos]
          BY <5>1 DEF AtEvent
        <5>. QED
          BY <5>1, <5>2 DEF Continue, browser
      <4>2. [y EXCEPT !.pos = @ + 1, !.pending = @ \cup {y.batch[y.pos]}] \in Exchange
        <5>1. y.pos + 1 \in Nat \ {0} /\ y.pending \cup {y.batch[y.pos]} \in SUBSET Taps
          BY <2>0, <3>1 DEF Exchange
        <5>. QED
          BY <2>0, <5>1 DEF Exchange
      <4>3. flush'[g] = [y EXCEPT !.pos = @ + 1, !.pending = @ \cup {y.batch[y.pos]}]
        BY <1>0, <4>1
      <4>4. flush'[g] = [batch |-> y.batch, who |-> y.who, waiting |-> y.waiting,
                         handler |-> y.handler, pos |-> y.pos + 1,
                         pending |-> y.pending \cup {y.batch[y.pos]}]
        BY <2>0, <4>3 DEF Exchange
      <4>5. Passed(g)
        BY <3>1, <4>1, <4>4 DEF Passed
      <4>. QED
        BY <1>2, <4>1, <4>2, <4>5 DEF ExchangeStep
    <3>. QED
      BY <2>3, <3>2, <3>3
  <2>4. CASE SyncCommit(g)
    <3>1. /\ flush' = [flush EXCEPT ![g] = End(@, "committed")]
          /\ UNCHANGED <<queue, late>>
          /\ y.pos > Len(y.batch) /\ records' = records \cup y.pending
      BY <2>4 DEF SyncCommit, browser
    <3>. QED
      BY <1>5, <3>1 DEF Ended, Committed
  <2>. QED
    BY <1>6, <2>1, <2>2, <2>3, <2>4 DEF Handle
<1>7. CASE GoOffline \/ ComeOnline \/ SwitchRole
  <2>1. UNCHANGED flush \/ \E who \in Roles : Launch(flush, who)
    BY <1>7 DEF GoOffline, ComeOnline, SwitchRole, TypeOK
  <2>2. UNCHANGED <<queue, late>>
    BY <1>7 DEF GoOffline, ComeOnline, SwitchRole
  <2>. QED
    BY <1>0, <1>1, <2>1, <2>2, LaunchStep DEF ExchangeStep
<1>8. CASE Reload
  <2> DEFINE left == [f \in Flushes |-> Forget(flush[f])]
  <2>1. left \in [Flushes -> Exchange]
    BY <1>0, ForgetKeeps
  <2>2. flush' = left \/ Launch(left, role)
    BY <1>8 DEF Reload
  <2>3. UNCHANGED <<queue, late>> /\ role \in Roles
    BY <1>8 DEF Reload, TypeOK
  <2>. QED
    BY <2>1, <2>2, <2>3, LaunchStep DEF ExchangeStep
<1>. QED
  BY <1>1, <1>3, <1>4, <1>6, <1>7, <1>8 DEF Next

-----------------------------------------------------------------------------
(* What a step does to the queue and to the keys on record *)

\* The queue grows by an event that joins late if a flush waits, it is
\* emptied by a flush whose batch was committed, or it stays.
QueueStep ==
    \/ UNCHANGED <<queue, late, tap>>
    \/ UNCHANGED <<queue, late>> /\ \A t \in Taps : tap'[t] = "queued" => tap[t] = "queued"
    \/ UNCHANGED flush /\ \E t \in Taps : Enqueue(t)
    \/ \E f \in Flushes : FlushOk(f)

\* Every step moves the queue in one of the ways listed in QueueStep.
LEMMA EveryQueue ==
    ASSUME TypeOK, Next
    PROVE  QueueStep
<1>1. ASSUME NEW t \in Taps, Tap(t)
      PROVE  QueueStep
  BY <1>1 DEF Tap, QueueStep, TypeOK
<1>2. ASSUME NEW t \in Taps, DirectOk(t) \/ DirectFail(t)
      PROVE  QueueStep
  BY <1>2 DEF DirectOk, DirectFail, QueueStep, TypeOK
<1>3. ASSUME NEW t \in Taps, PostFeedback(t) \/ PostRefused(t) \/ Expire(t)
      PROVE  QueueStep
  BY <1>3 DEF PostFeedback, PostRefused, Expire, browser, QueueStep
<1>4. ASSUME NEW f \in Flushes, FlushFail(f) \/ Handle(f) \/ SyncLost(f)
      PROVE  QueueStep
  BY <1>4 DEF FlushFail, Handle, SyncLost, SyncArrive, SyncForeign, SyncDuplicate,
              SyncUnknown, SyncAdd, SyncCommit, SyncConflict, Refuse, Skip, Continue,
              browser, QueueStep
<1>5. ASSUME NEW f \in Flushes, FlushOk(f)
      PROVE  QueueStep
  BY <1>5 DEF QueueStep
<1>6. CASE GoOffline \/ ComeOnline \/ SwitchRole
  BY <1>6 DEF GoOffline, ComeOnline, SwitchRole, QueueStep
<1>7. CASE Reload
  BY <1>7 DEF Reload, QueueStep, TypeOK
<1>. QED
  BY <1>1, <1>2, <1>3, <1>4, <1>5, <1>6, <1>7 DEF Next

\* Keys are only ever added, by a commit that finds none of its keys on
\* record, together with the rows they stand for.
LEMMA EveryRecord ==
    ASSUME TypeOK, Next
    PROVE  \/ UNCHANGED <<records, synced>>
           \/ \E f \in Flushes : SyncCommit(f)
<1>1. ASSUME NEW t \in Taps, Tap(t) \/ DirectOk(t) \/ DirectFail(t)
                              \/ PostFeedback(t) \/ PostRefused(t) \/ Expire(t)
      PROVE  UNCHANGED <<records, synced>>
  BY <1>1 DEF Tap, DirectOk, DirectFail, PostFeedback, PostRefused, Expire, backend
<1>2. ASSUME NEW f \in Flushes,
             FlushOk(f) \/ FlushFail(f) \/ SyncLost(f) \/ SyncArrive(f) \/ SyncConflict(f)
             \/ SyncForeign(f) \/ SyncDuplicate(f) \/ SyncUnknown(f) \/ SyncAdd(f)
      PROVE  UNCHANGED <<records, synced>>
  BY <1>2 DEF FlushOk, FlushFail, SyncLost, SyncArrive, SyncConflict, SyncForeign,
              SyncDuplicate, SyncUnknown, SyncAdd, Refuse, Skip, Continue, backend
<1>3. CASE GoOffline \/ ComeOnline \/ SwitchRole \/ Reload
  BY <1>3 DEF GoOffline, ComeOnline, SwitchRole, Reload, backend
<1>. QED
  BY <1>1, <1>2, <1>3 DEF Next, Handle

\* A key on record stays on record.
LEMMA RecordsGrow ==
    ASSUME TypeOK, Next
    PROVE  records \subseteq records'
BY EveryRecord DEF SyncCommit

-----------------------------------------------------------------------------
(* Each conjunct of SyncInv is kept *)

\* A step keeps every variable within its kind.
LEMMA TypeStep ==
    ASSUME TypeOK, Next
    PROVE  TypeOK'
<1>0. flush' \in [Flushes -> Exchange]
  BY EveryExchange
<1>1. queue' \in Seq(Taps) /\ late' \subseteq Taps
  <2>1. QueueStep
    BY EveryQueue
  <2>2. ASSUME NEW t \in Taps, Enqueue(t)
        PROVE  queue' \in Seq(Taps) /\ late' \subseteq Taps
    BY <2>2, RangeAppend DEF Enqueue, TypeOK
  <2>3. ASSUME NEW f \in Flushes, FlushOk(f)
        PROVE  queue' \in Seq(Taps) /\ late' \subseteq Taps
    BY <2>3 DEF FlushOk, TypeOK
  <2>. QED
    BY <2>1, <2>2, <2>3 DEF QueueStep, TypeOK
<1>2. synced' \in [Taps -> Nat] /\ records' \subseteq Taps
  <2>1. ASSUME NEW f \in Flushes, SyncCommit(f)
        PROVE  synced' \in [Taps -> Nat] /\ records' \subseteq Taps
    BY <2>1 DEF SyncCommit, TypeOK, Exchange
  <2>. QED
    BY <2>1, EveryRecord DEF TypeOK
<1> DEFINE Rest ==
      /\ role \in Roles /\ online \in BOOLEAN /\ calm \in BOOLEAN
      /\ tap \in [Taps -> {"new", "waiting", "delivered", "queued", "dropped"}]
      /\ post \in [Taps -> {"none", "arriving", "stored", "refused"}]
      /\ listed \subseteq Taps /\ direct \subseteq Taps
<1>3. Rest'
  <2>1. ASSUME NEW t \in Taps, Tap(t) \/ DirectOk(t) \/ DirectFail(t)
        PROVE  Rest'
    BY <2>1 DEF Tap, DirectOk, DirectFail, Enqueue, backend, TypeOK
  <2>2. ASSUME NEW t \in Taps, PostFeedback(t) \/ PostRefused(t) \/ Expire(t)
        PROVE  Rest'
    BY <2>2 DEF PostFeedback, PostRefused, Expire, browser, backend, TypeOK
  <2>3. ASSUME NEW f \in Flushes, FlushOk(f) \/ FlushFail(f) \/ Handle(f) \/ SyncLost(f)
        PROVE  Rest'
    BY <2>3 DEF FlushOk, FlushFail, Handle, SyncLost, SyncArrive, SyncForeign,
                SyncDuplicate, SyncUnknown, SyncAdd, SyncCommit, SyncConflict, Refuse,
                Skip, Continue, browser, backend, TypeOK
  <2>4. CASE GoOffline \/ ComeOnline \/ SwitchRole \/ Reload
    BY <2>4 DEF GoOffline, ComeOnline, SwitchRole, Reload, backend, TypeOK
  <2>. QED
    BY <2>1, <2>2, <2>3, <2>4 DEF Next
<1>. QED
  BY <1>0, <1>1, <1>2, <1>3 DEF TypeOK

\* A commit stores what its session holds, none of which was on record.
LEMMA StoredStep ==
    ASSUME TypeOK, KeyStoredOnce, Next
    PROVE  KeyStoredOnce'
<1>1. ASSUME NEW f \in Flushes, SyncCommit(f)
      PROVE  KeyStoredOnce'
  <2>1. ASSUME NEW t \in Taps
        PROVE  synced'[t] = IF t \in records' THEN 1 ELSE 0
    BY <1>1, <2>1 DEF SyncCommit, KeyStoredOnce, TypeOK
  <2>. QED
    BY <2>1 DEF KeyStoredOnce
<1>. QED
  BY <1>1, EveryRecord DEF KeyStoredOnce

\* The loop passes an event only when it is on record or in the session.
LEMMA LoopStep ==
    ASSUME TypeOK, LoopKeeps, Next
    PROVE  LoopKeeps'
<1>. SUFFICES ASSUME NEW f \in Flushes, NEW i \in DOMAIN flush'[f].batch,
                     i < flush'[f].pos
              PROVE  flush'[f].batch[i] \in flush'[f].pending \cup records'
  BY DEF LoopKeeps
<1> DEFINE x == flush[f]
           y == flush'[f]
           Kept == /\ y.batch = x.batch
                   /\ x.pending \subseteq y.pending
<1>1. x \in Exchange /\ records \subseteq records' /\ ExchangeStep(f)
  BY EveryExchange, RecordsGrow DEF TypeOK
<1>2. i \in Nat \ {0}
  <2>1. flush'[f].batch \in Seq(Taps)
    BY EveryExchange DEF Exchange
  <2>. QED
    BY <2>1
<1>3. y.pos # 1
  BY <1>2
<1>4. CASE Kept /\ y.pos = x.pos
  BY <1>1, <1>4 DEF LoopKeeps
<1>5. CASE Passed(f)
  <2>1. Kept /\ y.pos = x.pos + 1
    BY <1>5 DEF Passed
  <2>2. i < x.pos \/ i = x.pos
    BY <1>1, <1>2, <2>1 DEF Exchange
  <2>3. x.batch[x.pos] \in y.pending \cup records
    BY <1>5 DEF Passed
  <2>. QED
    BY <1>1, <2>1, <2>2, <2>3 DEF LoopKeeps
<1>6. ASSUME NEW outcome \in Ended
      PROVE  y # End(x, outcome)
  BY <1>1, <1>3, EndKeeps
<1>7. CASE y = Forget(x)
  BY <1>1, <1>3, <1>4, <1>7, ForgetKeeps DEF Free
<1>. QED
  BY <1>1, <1>3, <1>4, <1>5, <1>6, <1>7 DEF ExchangeStep, Launched, Committed, Free, Ended, Exchange

\* A handler commits after the last event, so the whole batch is on record.
LEMMA AnsweredStep ==
    ASSUME TypeOK, LoopKeeps, AnsweredMeansStored, Next
    PROVE  AnsweredMeansStored'
<1>. SUFFICES ASSUME NEW f \in Flushes, flush'[f].handler = "committed"
              PROVE  Range(flush'[f].batch) \subseteq records'
  BY DEF AnsweredMeansStored
<1> DEFINE x == flush[f]
           y == flush'[f]
<1>1. x \in Exchange /\ records \subseteq records' /\ ExchangeStep(f)
  BY EveryExchange, RecordsGrow DEF TypeOK
<1>2. CASE y.batch = x.batch /\ x.handler = "committed"
  BY <1>1, <1>2 DEF AnsweredMeansStored
<1>3. CASE Committed(f)
  <2>1. y.batch = x.batch
    BY <1>1, <1>3, EndKeeps, FreeTyped DEF Committed, Ended
  <2>2. x.batch \in Seq(Taps) /\ x.pos \in Nat
    BY <1>1 DEF Exchange
  <2>3. \A i \in DOMAIN x.batch : i < x.pos
    BY <1>3, <2>2 DEF Committed
  <2>4. \A i \in DOMAIN x.batch : x.batch[i] \in records'
    BY <1>3, <2>3 DEF Committed, LoopKeeps
  <2>. QED
    BY <2>1, <2>4 DEF Range
<1>4. y # Free /\ y # Forget(x) /\ y # End(x, "refused")
  BY <1>1, FreeTyped, ForgetKeeps, EndKeeps DEF Ended
<1>5. ~Launched(f) /\ ~Passed(f) /\ y # [x EXCEPT !.handler = "working"]
  BY <1>1 DEF Launched, Passed, Exchange
<1>. QED
  BY <1>1, <1>2, <1>3, <1>4, <1>5 DEF ExchangeStep

\* While a flush waits, what enters the queue enters late as well.
LEMMA CoversStep ==
    ASSUME TypeOK, BatchCovers, Next
    PROVE  BatchCovers'
<1>. SUFFICES ASSUME NEW f \in Flushes, flush'[f].waiting
              PROVE  Range(queue') \subseteq Range(flush'[f].batch) \cup late'
  BY DEF BatchCovers
<1> DEFINE x == flush[f]
           y == flush'[f]
<1>1. x \in Exchange /\ ExchangeStep(f) /\ QueueStep
  BY EveryExchange, EveryQueue DEF TypeOK
<1>2. CASE UNCHANGED <<queue, late>>
  <2>1. y.batch = queue \/ (x.waiting /\ y.batch = x.batch)
    <3>1. y # Free /\ y # Forget(x)
      BY <1>1, FreeTyped, ForgetKeeps
    <3>2. ASSUME NEW outcome \in Ended, y = End(x, outcome)
          PROVE  x.waiting /\ y.batch = x.batch
      BY <1>1, <3>2, EndKeeps, FreeTyped
    <3>3. CASE Passed(f) \/ y = [x EXCEPT !.handler = "working"] \/ y = x
      BY <1>1, <3>3 DEF Passed, Exchange
    <3>4. CASE Launched(f)
      BY <3>4 DEF Launched
    <3>. QED
      BY <1>1, <3>1, <3>2, <3>3, <3>4 DEF ExchangeStep, Committed, Ended
  <2>. QED
    BY <1>2, <2>1 DEF BatchCovers
<1>3. ASSUME UNCHANGED flush, NEW t \in Taps, Enqueue(t)
      PROVE  Range(queue') \subseteq Range(y.batch) \cup late'
  <2>1. Range(queue') = Range(queue) \cup {t} /\ late' = late \cup {t} /\ x.waiting
    BY <1>3, RangeAppend DEF Enqueue, TypeOK
  <2>. QED
    BY <1>3, <2>1 DEF BatchCovers
<1>4. ASSUME NEW g \in Flushes, FlushOk(g)
      PROVE  Range(queue') = {}
  BY <1>4, RangeEmpty DEF FlushOk
<1>. QED
  BY <1>1, <1>2, <1>3, <1>4 DEF QueueStep

\* A flush that succeeds clears the queue: what was queued before it has
\* been stored, the rest was queued while it waited.
LEMMA KeptStep ==
    ASSUME TypeOK, AnsweredMeansStored, BatchCovers, QueuedKept, Next
    PROVE  QueuedKept'
<1>. SUFFICES ASSUME NEW t \in Taps, tap'[t] = "queued", t \notin late'
              PROVE  t \in Range(queue') \cup records'
  BY DEF QueuedKept
<1>1. QueueStep /\ records \subseteq records'
  BY EveryQueue, RecordsGrow
<1>2. CASE UNCHANGED <<queue, late>> /\ tap[t] = "queued"
  BY <1>1, <1>2 DEF QueuedKept
<1>3. ASSUME NEW u \in Taps, Enqueue(u)
      PROVE  t \in Range(queue') \cup records'
  <2>1. Range(queue') = Range(queue) \cup {u} /\ late \subseteq late'
    BY <1>3, RangeAppend DEF Enqueue, TypeOK
  <2>2. t = u \/ tap[t] = "queued"
    BY <1>3 DEF Enqueue, TypeOK
  <2>. QED
    BY <1>1, <2>1, <2>2 DEF QueuedKept
<1>4. ASSUME NEW f \in Flushes, FlushOk(f)
      PROVE  t \in Range(queue') \cup records'
  <2>1. flush[f].waiting /\ flush[f].handler = "committed" /\ UNCHANGED <<tap, late>>
    BY <1>4 DEF FlushOk
  <2>2. Range(queue) \subseteq records \cup late
    BY <2>1 DEF BatchCovers, AnsweredMeansStored
  <2>. QED
    BY <1>1, <2>1, <2>2 DEF QueuedKept
<1>. QED
  BY <1>1, <1>2, <1>3, <1>4 DEF QueueStep

-----------------------------------------------------------------------------
(* The theorems *)

\* SyncInv holds in every state of every behaviour: what the browser's queue,
\* the exchanges under way and the stored keys know of one another.
THEOREM SyncCorrect == Spec => []SyncInv
<1>1. Init => SyncInv
  <2>. SUFFICES ASSUME Init PROVE SyncInv
    OBVIOUS
  <2>1. TypeOK
    <3>1. flush \in [Flushes -> Exchange]
      BY FreeTyped DEF Init
    <3>2. queue \in Seq(Taps)
      BY DEF Init
    <3>. QED
      BY <3>1, <3>2 DEF Init, TypeOK, Roles
  <2>2. KeyStoredOnce /\ QueuedKept
    BY DEF Init, KeyStoredOnce, QueuedKept
  <2>3. LoopKeeps /\ AnsweredMeansStored /\ BatchCovers
    BY FreeTyped DEF Init, LoopKeeps, AnsweredMeansStored, BatchCovers, Free
  <2>. QED
    BY <2>1, <2>2, <2>3 DEF SyncInv
<1>2. SyncInv /\ [Next]_vars => SyncInv'
  <2>. SUFFICES ASSUME SyncInv, [Next]_vars PROVE SyncInv'
    OBVIOUS
  <2>1. CASE Next
    BY <2>1, TypeStep, StoredStep, LoopStep, AnsweredStep, CoversStep, KeptStep
       DEF SyncInv
  <2>2. CASE UNCHANGED vars
    BY <2>2 DEF SyncInv, vars, browser, backend, TypeOK, KeyStoredOnce, LoopKeeps,
                AnsweredMeansStored, BatchCovers, QueuedKept
  <2>. QED
    BY <2>1, <2>2
<1>. QED
  BY <1>1, <1>2, PTL DEF Spec

\* Every variable of browser and backend always holds a value of its kind.
THEOREM SyncTypeCorrect == Spec => []TypeOK
BY SyncCorrect, PTL DEF SyncInv

\* However often and however concurrently the queue is sent, sync_feedback_events
\* stores a queued event at most once, exactly when its key is on record.
THEOREM StoredOnce == Spec => []KeyStoredOnce
BY SyncCorrect, PTL DEF SyncInv

\* A sync request answered with success has every event of its batch stored.
THEOREM AnswerIsTrue == Spec => []AnsweredMeansStored
BY SyncCorrect, PTL DEF SyncInv

\* Feedback queued by queueFeedback while no flush is under way stays in the
\* queue until it is stored.
THEOREM QueuedIsKept == Spec => []QueuedKept
BY SyncCorrect, PTL DEF SyncInv
=============================================================================

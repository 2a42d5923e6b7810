--------------------------- MODULE WorkbenchProofs ---------------------------
(***************************************************************************)
(* Proofs about the workbench page for any stores, any route, any number   *)
(* of requests, taps and answers in any order, requests served after the   *)
(* page gave them up, and other clients deciding on the same drafts: the   *)
(* types, that the page shows the store it highlights, that the panel      *)
(* never claims a record the backend does not have, and that the approval  *)
(* queue shown is the backend's but for what others changed.               *)
(***************************************************************************)
EXTENDS Workbench, TLAPS

--------------------------------------------------------------------------------
(* The inductive invariant *)

Managing == {"board", "queue", "approveQueued"}

\* Every request has a number of its own, already used.
CallsNumbered ==
  \A c \in calls : c.id < next /\ \A e \in calls : e.id = c.id => e = c

\* A request goes through the stages of its kind; only a write that is not
\* committed yet outlives its page.
StagesFit ==
  \A c \in calls :
    /\ c.stage = "told" => c.kind \in Streams
    /\ c.stage = "caching" => c.kind \in Loads
    /\ c.stage \in {"loaded", "refused"} => c.kind \in Deciding
    /\ c.stage = "served" => c.kind \in Drafting \cup Deciding \cup {"board", "queue"}
    /\ c.gone => c.kind \in Drafting \cup Deciding /\ c.stage \in {"sent", "loaded"}

\* A draft of this page exists once the request that creates it is committed, and
\* whatever names a draft names one that exists.
DraftsExist ==
  /\ \A d \in Ids : d \in Known => d < next
  /\ \A c \in calls :
       /\ c.kind \in Drafting =>
            /\ c.store # None
            /\ c.stage = "sent" => c.id \notin Known
            /\ c.stage = "served" => c.id \in Known /\ orders[c.id].store = c.store
       /\ c.kind \in Deciding => c.order \in Known
       /\ c.found \subseteq Known
  /\ draft.id # 0 => draft.id \in Known
  /\ board.queue \subseteq Known

\* A status has the record it stands for, and so has an approval or submission
\* that was answered or is shown.
RecordsKept ==
  /\ \A d \in Drafts :
       /\ orders[d].status \in {"APPROVED", "SUBMITTED_SANDBOX"} => orders[d].approved
       /\ orders[d].status = "SUBMITTED_SANDBOX" => orders[d].ordered
  /\ \A c \in calls :
       /\ c.kind \in Approving /\ c.stage = "served" => orders[c.order].approved
       /\ c.kind = "submit" /\ c.stage \in {"loaded", "served"} => orders[c.order].approved
       /\ c.kind = "submit" /\ c.stage = "served" => orders[c.order].ordered
  /\ approval # 0 => approval \in Known /\ orders[approval].approved
  /\ submission # 0 => submission \in Known /\ orders[submission].ordered

\* The store that is highlighted is that of the newest load: it is under way, or
\* it has been shown or has failed and the page shows its store or says why not.
LoadsFollow ==
  /\ lastLoad < next
  /\ role = "rep" /\ selected # None =>
       LET loads == {c \in calls : c.kind = "store"} IN
       \/ \E c \in loads : /\ c.stage = "sent" /\ c.store = selected /\ c.id > lastLoad
                           /\ \A e \in loads : e.id <= c.id
       \/ /\ \A e \in loads : /\ e.id <= lastLoad
                              /\ e.id = lastLoad => e.stage = "caching" /\ e.store = selected
          /\ error \/ dismissed \/ stale \/ shown = selected

\* The page of a patient user waits for one request, or for loads.
PatientWaits ==
  patient => \A c \in Awaited :
    /\ c.kind \notin Loads => Awaited = {c}
    /\ c.kind \in Managing <=> role = "manager"

\* Draft and summary of a patient user are about what the page shows: the page
\* has a selected store, nothing loads beside them, and so has what may set them.
PanelOfStore ==
  patient =>
    /\ selected = None => /\ draft.id = 0 /\ summary.id = 0
                          /\ \A c \in Awaited : c.kind \in Loads \cup Managing
    /\ draft.id # 0 \/ summary.id # 0 => \A c \in Awaited : c.kind \notin Loads
    /\ draft.id # 0 => orders[draft.id].store = shown
    /\ summary.id # 0 => summary.store = selected /\ summary.alerts = shown
    /\ \A c \in Awaited :
         /\ c.kind \in Drafting => c.store = shown
         /\ c.kind \in {"summary", "runSummary"} => c.store = selected /\ c.alerts = shown

\* The draft in a patient rep's panel is as the backend has it, but for an answer
\* on its way and what the page was not told.
DraftInStep ==
  patient /\ role = "rep" =>
    /\ \A c \in Awaited :
         /\ c.kind \in {"approve", "submit"} => c.order = draft.id
         /\ c.stage = "served" /\ Names(c) \notin touched =>
              /\ c.kind \in Drafting => orders[c.id].status = "DRAFT"
              /\ c.kind = "approve" => orders[c.order].status = "APPROVED"
              /\ c.kind = "submit" => orders[c.order].status = "SUBMITTED_SANDBOX"
    /\ draft.id # 0 =>
         /\ draft.status # "DRAFT" => orders[draft.id].approved
         /\ draft.status = "SUBMITTED_SANDBOX" => orders[draft.id].ordered
         /\ \/ draft.id \in touched
            \/ \E c \in Awaited : c.kind \in {"approve", "submit"} /\ c.stage = "served"
            \/ draft.status = orders[draft.id].status

\* So is the approval queue of a patient manager.
QueueInStep ==
  patient /\ role = "manager" =>
    /\ \A c \in Awaited :
         /\ c.kind \in {"board", "queue"} /\ c.stage = "served" =>
              \A d \in Drafts \ touched : d \in c.found <=> d \in Pending
         /\ c.kind = "board" => ~board.loaded
    /\ board.loaded =>
         \A d \in Drafts \ touched :
           \/ d \in board.queue <=> d \in Pending
           \/ \E c \in Awaited : \/ c.kind = "queue"
                                 \/ c.kind = "approveQueued" /\ c.stage = "served" /\ c.order = d

WorkbenchInv ==
  /\ TypeOK
  /\ CallsNumbered
  /\ StagesFit
  /\ DraftsExist
  /\ RecordsKept
  /\ LoadsFollow
  /\ PatientWaits
  /\ PanelOfStore
  /\ DraftInStep
  /\ QueueInStep

--------------------------------------------------------------------------------
(* Requests *)

\* What holds of requests, drafts and records at once.
Basics == TypeOK /\ CallsNumbered /\ StagesFit /\ DraftsExist /\ RecordsKept

Stages == {"sent", "loaded", "served", "refused", "caching", "told"}

\* Two records of one request.
SameCall(c, e) ==
  /\ e.id = c.id /\ e.kind = c.kind /\ e.store = c.store
  /\ e.alerts = c.alerts /\ e.order = c.order

\* A request sent by this step: it drafts for the store shown, or decides about a
\* draft that the page shows.
Sent(x) ==
  /\ x.id \in next..(next' - 1)
  /\ x.stage = "sent" /\ ~x.gone /\ x.found = {}
  /\ x.kind \in Drafting => x.store = shown /\ shown # None
  /\ x.kind \in Deciding => x.order # 0 /\ (x.order = draft.id \/ x.order \in board.queue)

\* A request that has moved on in this step.
Moves(c, x) ==
  /\ c \notin calls' /\ SameCall(c, x)
  /\ \/ x.found = c.found /\ ~c.gone /\ ~x.gone
        /\ \/ x.stage = "told" /\ x.kind \in Streams
           \/ x.stage = "caching" /\ x.kind \in Loads
     \/ x.found = c.found /\ x.gone = c.gone /\ Load(c) /\ x.stage \in {"loaded", "refused"}
        /\ (x.stage = "refused" => ~x.gone)
        /\ (x.stage = "loaded" /\ c.kind = "submit" => orders[c.order].status = "APPROVED")
     \/ x.found = c.found /\ ~c.gone /\ ~x.gone /\ Commit(c) /\ x.stage = "served"
     \/ x.found = Pending /\ ~c.gone /\ ~x.gone /\ ReadQueue(c) /\ x.stage = "served"
     \/ x.found = c.found /\ ~c.gone /\ x.gone /\ x.stage = c.stage
        /\ x.kind \in Drafting \cup Deciding /\ x.stage \in {"sent", "loaded"}
        /\ orders' = orders

\* Every request after the step was there, is new, or has moved on.
CallsForms ==
  /\ next' \in next..(MaxCalls + 1)
  /\ CallsNumbered'
  /\ \A x \in calls' : x \in Call /\ (x \in calls \/ Sent(x) \/ \E c \in calls : Moves(c, x))

\* What the fields of a request hold.
LEMMA CallFields ==
  ASSUME NEW c \in Call
  PROVE  /\ c.id \in Ids /\ c.id \in 0..MaxCalls /\ c.id \in Drafts /\ c.kind \in Kinds
         /\ c.store \in StoreOrNone /\ c.alerts \in StoreOrNone
         /\ c.order \in Drafts \cup {0} /\ c.found \in SUBSET Drafts
         /\ c.stage \in Stages /\ c.gone \in BOOLEAN
<1>1. c.id \in 0..MaxCalls
  BY ConstantsTyped DEF Call, Ids
<1>. QED
  BY <1>1 DEF Call, Drafts, Stages

\* What changes with its stage, its answer or its page.
LEMMA CallMoved ==
  ASSUME NEW c \in Call
  PROVE  /\ \A t \in Stages : \E e \in Call :
              /\ e = [c EXCEPT !.stage = t] /\ SameCall(c, e)
              /\ e.stage = t /\ e.found = c.found /\ e.gone = c.gone
         /\ \E e \in Call :
              /\ e = [c EXCEPT !.gone = TRUE] /\ SameCall(c, e)
              /\ e.stage = c.stage /\ e.found = c.found /\ e.gone
         /\ \A f \in SUBSET Drafts : \E e \in Call :
              /\ e = [c EXCEPT !.stage = "served", !.found = f] /\ SameCall(c, e)
              /\ e.stage = "served" /\ e.found = f /\ e.gone = c.gone
<1>1. ASSUME NEW t \in Stages
      PROVE  \E e \in Call : /\ e = [c EXCEPT !.stage = t] /\ SameCall(c, e)
                             /\ e.stage = t /\ e.found = c.found /\ e.gone = c.gone
  <2> DEFINE x == [c EXCEPT !.stage = t]
  <2>1. x \in Call
    BY <1>1 DEF Call, Stages
  <2>2. SameCall(c, x) /\ x.stage = t /\ x.found = c.found /\ x.gone = c.gone
    BY DEF SameCall, Call
  <2>. QED
    BY <2>1, <2>2
<1>2. \E e \in Call : /\ e = [c EXCEPT !.gone = TRUE] /\ SameCall(c, e)
                      /\ e.stage = c.stage /\ e.found = c.found /\ e.gone
  <2> DEFINE x == [c EXCEPT !.gone = TRUE]
  <2>1. x \in Call
    BY DEF Call
  <2>2. SameCall(c, x) /\ x.stage = c.stage /\ x.found = c.found /\ x.gone
    BY DEF SameCall, Call
  <2>. QED
    BY <2>1, <2>2
<1>3. ASSUME NEW f \in SUBSET Drafts
      PROVE  \E e \in Call : /\ e = [c EXCEPT !.stage = "served", !.found = f]
                             /\ SameCall(c, e)
                             /\ e.stage = "served" /\ e.found = f /\ e.gone = c.gone
  <2> DEFINE x == [c EXCEPT !.stage = "served", !.found = f]
  <2>1. x \in Call
    BY <1>3 DEF Call
  <2>2. SameCall(c, x) /\ x.stage = "served" /\ x.found = f /\ x.gone = c.gone
    BY DEF SameCall, Call
  <2>. QED
    BY <2>1, <2>2
<1>. QED
  BY <1>1, <1>2, <1>3

\* The numbers of the requests under way.
LEMMA NumbersBelow ==
  ASSUME TypeOK, CallsNumbered
  PROVE  /\ next \in Nat /\ MaxCalls \in Nat
         /\ \A c \in calls : c \in Call /\ c.id \in Nat /\ c.id < next
<1>1. next \in Nat /\ \A c \in calls : c \in Call /\ c.id < next
  BY DEF TypeOK, CallsNumbered
<1>2. \A c \in calls : c.id \in Ids
  BY <1>1, CallFields
<1>. QED
  BY <1>1, <1>2, ConstantsTyped DEF Ids

\* The page opens on a store.
LEMMA FirstVisit == Route[1] \in Stores /\ Route[1] # None /\ Route[1] \in StoreOrNone
BY ConstantsTyped DEF StoreOrNone

\* A step that sends the requests in N beside those it leaves.
LEMMA FormSent ==
  ASSUME Basics, NEW N \in SUBSET Call, next' \in next..(MaxCalls + 1),
         \A x \in N : Sent(x) /\ \A y \in N : y.id = x.id => y = x,
         calls' \subseteq calls \cup N
  PROVE  CallsForms
<1>1. next \in Nat /\ \A c \in calls : c \in Call /\ c.id \in Nat /\ c.id < next
  BY NumbersBelow DEF Basics
<1>2. \A x \in N : x.id >= next /\ x.id < next' /\ x.id \in Nat
  BY <1>1 DEF Sent
<1>3. CallsNumbered'
  BY <1>1, <1>2 DEF CallsNumbered, Basics
<1>. QED
  BY <1>1, <1>3 DEF CallsForms

\* A step that moves one request on and sends those in N.
LEMMA FormMoved ==
  ASSUME Basics, NEW N \in SUBSET Call, next' \in next..(MaxCalls + 1),
         \A x \in N : Sent(x) /\ \A y \in N : y.id = x.id => y = x,
         NEW c \in calls, NEW e \in Call, e # c, SameCall(c, e),
         calls' \subseteq (calls \ {c}) \cup {e} \cup N,
         c \notin calls' => Moves(c, e)
  PROVE  CallsForms
<1>1. next \in Nat /\ \A x \in calls : x \in Call /\ x.id \in Nat /\ x.id < next
  BY NumbersBelow DEF Basics
<1>2. \A x \in N : x.id >= next /\ x.id < next' /\ x.id \in Nat
  BY <1>1 DEF Sent
<1>3. e.id = c.id
  BY DEF SameCall
<1>4. c \notin calls'
  BY <1>1, <1>2
<1>5. CallsNumbered'
  BY <1>1, <1>2, <1>3 DEF CallsNumbered, Basics
<1>. QED
  BY <1>1, <1>4, <1>5 DEF CallsForms

\* Every step changes the requests in one of the forms above.
LEMMA CallsStep ==
  ASSUME Basics, [Next]_vars
  PROVE  CallsForms
<1>1. /\ next \in Nat /\ MaxCalls \in Nat /\ (next <= MaxCalls => next \in Ids) /\ next <= MaxCalls + 1
      /\ {"visits", "store", "board", "queue", "approveQueued", "create", "approve", "submit",
          "summary"} \subseteq Kinds
      /\ 0 \in Drafts \cup {0} /\ None \in StoreOrNone /\ Stores \subseteq StoreOrNone
      /\ selected \in StoreOrNone /\ shown \in StoreOrNone
      /\ \A c \in calls : c \in Call /\ c.id < next
  BY ConstantsTyped DEF Basics, TypeOK, CallsNumbered, StoreOrNone, Kinds, Reads, Writes, Ids
<1>2. draft.id # 0 => draft.id \in Drafts
  BY DEF Basics, DraftsExist, Known
<1>3. calls' \subseteq calls /\ next' = next => CallsForms
  <2> SUFFICES ASSUME calls' \subseteq calls, next' = next
               PROVE  CallsForms
    OBVIOUS
  <2>1. next' \in next..(MaxCalls + 1) /\ calls' \subseteq calls \cup {}
    BY <1>1
  <2>. QED
    BY <2>1, FormSent, {} \in SUBSET Call
<1>4. ASSUME NEW rest, rest \subseteq calls,
             NEW kind \in Kinds, NEW store \in StoreOrNone, NEW alerts \in StoreOrNone,
             NEW order \in Drafts \cup {0}, Send(rest, NewCall(next, kind, store, alerts, order)),
             kind \in Drafting => store = shown /\ shown # None,
             kind \in Deciding => order # 0 /\ (order = draft.id \/ order \in board.queue)
      PROVE  CallsForms
  <2>1. next \in Ids /\ next' = next + 1
    BY <1>1, <1>4 DEF Send
  <2> DEFINE w == NewCall(next, kind, store, alerts, order)
  <2>2. /\ w \in Call /\ w.id = next /\ w.kind = kind /\ w.store = store /\ w.order = order
        /\ w.found = {} /\ w.stage = "sent" /\ w.gone = FALSE
    BY <1>1, <1>4, <2>1 DEF NewCall, Call
  <2>2a. calls' = rest \cup {w}
    BY <1>4 DEF Send
  <2> HIDE DEF w
  <2>3. calls' \subseteq calls \cup {w} /\ Sent(w)
    BY <1>1, <1>4, <2>1, <2>2, <2>2a DEF Sent
  <2>4. next' \in next..(MaxCalls + 1) /\ {w} \in SUBSET Call
    BY <1>1, <2>1, <2>2 DEF Ids
  <2>. QED
    BY <2>3, <2>4, FormSent
<1>5. ASSUME NEW c \in calls, NEW e \in Call, SameCall(c, e), e # c, next' = next,
             calls' \subseteq (calls \ {c}) \cup {e}, c \notin calls' => Moves(c, e)
      PROVE  CallsForms
  <2>1. next' \in next..(MaxCalls + 1) /\ calls' \subseteq (calls \ {c}) \cup {e} \cup {}
    BY <1>1, <1>5
  <2>. QED
    BY <1>5, <2>1, FormMoved, {} \in SUBSET Call
<1>7. ASSUME NEW s \in Stores, NEW rest, rest \subseteq calls, ChangeSelection(s, rest)
      PROVE  CallsForms
  <2>1. CASE s # selected /\ role = "rep"
    BY <1>1, <1>4, <1>7, <2>1 DEF ChangeSelection, LoadStore, Drafting, Deciding, Approving
  <2>2. CASE ~(s # selected /\ role = "rep")
    BY <1>3, <1>7, <2>2 DEF ChangeSelection
  <2>. QED
    BY <2>1, <2>2
<1>8. ASSUME NEW r \in {"rep", "manager"}, NEW s \in StoreOrNone, Tap, SwitchTo(r, s)
      PROVE  CallsForms
  <2>1. CASE r = "manager"
    BY <1>1, <1>4, <1>8, <2>1 DEF SwitchTo, Drafting, Deciding, Approving
  <2>2. CASE r = "rep" /\ s = None
    BY <1>1, <1>4, <1>8, <2>2 DEF SwitchTo, Drafting, Deciding, Approving
  <2>3. CASE r = "rep" /\ s # None
    <3>1. next \in Ids /\ next + 1 \in Ids /\ next' = next + 2
      BY <1>1, <1>8, <2>3, ConstantsTyped DEF Tap, SwitchTo, Ids
    <3> DEFINE v == NewCall(next, "visits", None, None, 0)
               w == NewCall(next + 1, "store", s, None, 0)
    <3>2. /\ v \in Call /\ v.id = next /\ v.kind = "visits"
          /\ v.found = {} /\ v.stage = "sent" /\ v.gone = FALSE
      BY <1>1, <3>1 DEF NewCall, Call
    <3>3. /\ w \in Call /\ w.id = next + 1 /\ w.kind = "store"
          /\ w.found = {} /\ w.stage = "sent" /\ w.gone = FALSE
      BY <1>1, <3>1 DEF NewCall, Call
    <3>4. calls' = calls \cup {v, w}
      BY <1>8, <2>3 DEF SwitchTo, LoadStore
    <3> HIDE DEF v, w
    <3>5. Sent(v) /\ Sent(w) /\ v.id # w.id
      BY <1>1, <3>1, <3>2, <3>3 DEF Sent, Drafting, Deciding, Approving
    <3>6. next' \in next..(MaxCalls + 1)
      BY <1>1, <3>1 DEF Ids
    <3>. QED
      BY <3>2, <3>3, <3>4, <3>5, <3>6, FormSent, {v, w} \in SUBSET Call
  <2>. QED
    BY <2>1, <2>2, <2>3
<1>9. ASSUME NEW kind \in Kinds, NEW store \in StoreOrNone, NEW alerts \in StoreOrNone,
             NEW order \in Drafts \cup {0},
             TapInPane(NewCall(next, kind, store, alerts, order)),
             kind \in Drafting => store = shown,
             kind \in Deciding => order # 0 /\ order = draft.id
      PROVE  CallsForms
  BY <1>4, <1>9 DEF TapInPane, PaneOpen
<1>10. ASSUME NEW s \in Stores, SelectStore(s) \/ OpenManagerStore(s)
       PROVE  CallsForms
  BY <1>1, <1>7, <1>8, <1>10 DEF SelectStore, OpenManagerStore
<1>11. ASSUME NEW r \in {"rep", "manager"}, SwitchRole(r)
       PROVE  CallsForms
  BY <1>1, <1>8, <1>11 DEF SwitchRole
<1>12. CASE RepickRole
  BY <1>3, <1>12 DEF RepickRole
<1>13. ASSUME NEW d \in Drafts, ApproveQueued(d)
       PROVE  CallsForms
  <2>1. d # 0
    BY ConstantsTyped DEF Drafts, Ids
  <2>. QED
    BY <1>1, <1>4, <1>13, <2>1 DEF ApproveQueued, Drafting
<1>14. CASE DraftTopAlert \/ ApproveDraft \/ SubmitSandbox \/ Summarize
  <2>1. CASE DraftTopAlert
    BY <1>1, <1>9, <2>1 DEF DraftTopAlert, Drafting, Deciding, Approving
  <2>2. CASE ApproveDraft
    BY <1>1, <1>2, <1>9, <2>2 DEF ApproveDraft, Drafting, Deciding, Approving
  <2>3. CASE SubmitSandbox
    BY <1>1, <1>2, <1>9, <2>3 DEF SubmitSandbox, Drafting, Deciding, Approving
  <2>4. CASE Summarize
    BY <1>1, <1>9, <2>4 DEF Summarize, Drafting, Deciding, Approving
  <2>. QED
    BY <1>14, <2>1, <2>2, <2>3, <2>4
<1>15. ASSUME NEW kind \in Streams, RunAgent(kind)
       PROVE  CallsForms
  <2>1. kind \in Kinds /\ (kind \in Drafting => kind = "runDraft") /\ kind \notin Deciding
    BY DEF Kinds, Streams, Drafting, Deciding, Approving
  <2>. QED
    BY <1>1, <1>9, <1>15, <2>1 DEF RunAgent
<1>16. CASE Reload
  <2> DEFINE left == {x \in calls : /\ x.kind \in Drafting \cup Deciding
                                    /\ x.stage \in {"sent", "loaded"}}
             given(x) == [x EXCEPT !.gone = TRUE]
  <2>1. next \in Ids /\ next' = next + 1
    BY <1>1, <1>16 DEF Reload, Send
  <2> DEFINE first == IF role = "rep" THEN "visits" ELSE "board"
             w == NewCall(next, first, None, None, 0)
  <2>2. /\ w \in Call /\ w.id = next /\ w.kind \in {"visits", "board"}
        /\ w.found = {} /\ w.stage = "sent" /\ w.gone = FALSE
    <3>1. first \in Kinds /\ first \in {"visits", "board"}
      BY <1>1
    <3> HIDE DEF first
    <3>. QED
      BY <1>1, <2>1, <3>1 DEF NewCall, Call
  <2>3. calls' = {given(x) : x \in left} \cup {w}
    BY <1>16 DEF Reload, Send
  <2> HIDE DEF w
  <2>4. ASSUME NEW x \in calls
        PROVE  /\ given(x) \in Call /\ SameCall(x, given(x)) /\ given(x).stage = x.stage
               /\ given(x).found = x.found /\ given(x).gone
               /\ (x.gone => given(x) = x)
    <3>1. PICK y \in Call : /\ y = given(x) /\ SameCall(x, y)
                            /\ y.stage = x.stage /\ y.found = x.found /\ y.gone
      BY <1>1, CallMoved
    <3>2. x.gone => given(x) = x
      BY <1>1 DEF Call
    <3>. QED
      BY <3>1, <3>2
  <2> HIDE DEF given
  <2>5. \A z \in calls' : z = w \/ \E x \in left : z = given(x) /\ z.id = x.id /\ z.id < next
    BY <1>1, <2>3, <2>4 DEF SameCall
  <2>6. \A x \in left : x.gone \/ x \notin calls'
    BY <1>1, <2>2, <2>4, <2>5
  <2>7. Sent(w)
    BY <1>1, <2>1, <2>2 DEF Sent, Drafting, Deciding, Approving
  <2>8. orders' = orders
    BY <1>16 DEF Reload
  <2>9. ASSUME NEW z \in calls'
        PROVE  z \in Call /\ (z \in calls \/ Sent(z) \/ \E c \in calls : Moves(c, z))
    <3>1. CASE z = w
      BY <2>2, <2>7, <3>1
    <3>2. ASSUME NEW x \in left, z = given(x)
          PROVE  z \in Call /\ (z \in calls \/ Moves(x, z))
      <4>1. CASE x.gone
        BY <2>4, <3>2, <4>1
      <4>2. CASE ~x.gone
        BY <2>4, <2>6, <2>8, <3>2, <4>2 DEF Moves, SameCall
      <4>. QED
        BY <4>1, <4>2
    <3>. QED
      BY <2>5, <3>1, <3>2
  <2>10. CallsNumbered'
    <3>1. \A z \in calls' : z.id < next'
      BY <1>1, <2>1, <2>2, <2>5, NumbersBelow DEF SameCall, Basics
    <3>2. ASSUME NEW y \in calls', NEW z \in calls', z.id = y.id
          PROVE  z = y
      <4>1. CASE y = w \/ z = w
        BY <1>1, <2>2, <2>5, <3>2, <4>1
      <4>2. CASE y # w /\ z # w
        <5>1. PICK x \in left : y = given(x) /\ y.id = x.id
          BY <2>5, <4>2
        <5>2. PICK v \in left : z = given(v) /\ z.id = v.id
          BY <2>5, <4>2
        <5>3. x = v
          BY <3>2, <5>1, <5>2 DEF Basics, CallsNumbered
        <5>. QED
          BY <5>1, <5>2, <5>3
      <4>. QED
        BY <4>1, <4>2
    <3>. QED
      BY <3>1, <3>2 DEF CallsNumbered
  <2>11. next' \in next..(MaxCalls + 1)
    BY <1>1, <2>1 DEF Ids
  <2>. QED
    BY <2>9, <2>10, <2>11 DEF CallsForms
<1>17. ASSUME NEW c \in calls, VisitsAnswered(c)
       PROVE  CallsForms
  <2>1. c \in Call /\ c.kind = "visits" /\ c.stage = "sent" /\ ~c.gone
    BY <1>1, <1>17, CallFields DEF VisitsAnswered, Basics, StagesFit, Drafting, Deciding, Approving
  <2>2. PICK e \in Call : /\ e = [c EXCEPT !.stage = "caching"] /\ SameCall(c, e)
                          /\ e.stage = "caching" /\ e.found = c.found /\ e.gone = c.gone
    BY <2>1, CallMoved DEF Stages
  <2>3. ChangeSelection(Route[1], (calls \ {c}) \cup {e}) /\ e # c
    BY <1>17, <2>1, <2>2 DEF VisitsAnswered, VisitsShown, At
  <2>4. c \notin calls' => Moves(c, e)
    BY <2>1, <2>2 DEF Moves, Loads, SameCall
  <2>5. CASE Route[1] # selected /\ role = "rep"
    <3>1. Send((calls \ {c}) \cup {e}, LoadStore(Route[1], next))
      BY <2>3, <2>5 DEF ChangeSelection
    <3>2. next \in Ids /\ next' = next + 1
      BY <1>1, <3>1 DEF Send
    <3> DEFINE w == LoadStore(Route[1], next)
    <3>3. /\ w \in Call /\ w.id = next /\ w.kind = "store"
          /\ w.found = {} /\ w.stage = "sent" /\ w.gone = FALSE
      BY <1>1, <3>2, FirstVisit DEF LoadStore, NewCall, Call
    <3>3a. calls' = (calls \ {c}) \cup {e} \cup {w}
      BY <3>1 DEF Send
    <3> HIDE DEF w
    <3>4. Sent(w) /\ next' \in next..(MaxCalls + 1)
      BY <1>1, <3>2, <3>3 DEF Sent, Drafting, Deciding, Approving, Ids
    <3>5. {w} \in SUBSET Call /\ \A x \in {w} : Sent(x) /\ \A y \in {w} : y.id = x.id => y = x
      BY <3>3, <3>4
    <3>. QED
      BY <2>2, <2>3, <2>4, <3>3a, <3>4, <3>5, FormMoved
  <2>6. CASE ~(Route[1] # selected /\ role = "rep")
    <3>1. calls' = (calls \ {c}) \cup {e} /\ next' = next
      BY <2>3, <2>6 DEF ChangeSelection
    <3>. QED
      BY <1>5, <2>2, <2>3, <2>4, <3>1
  <2>. QED
    BY <2>5, <2>6
<1>18. ASSUME NEW c \in calls, VisitsFromCache(c)
       PROVE  CallsForms
  BY <1>7, <1>18, FirstVisit DEF VisitsFromCache, VisitsShown
<1>19. ASSUME NEW c \in calls, StoreAnswered(c) \/ StreamMessage(c) \/ StreamAction(c)
       PROVE  CallsForms
  <2> DEFINE t == IF StoreAnswered(c) THEN "caching" ELSE "told"
  <2>1. /\ c \in Call /\ Move(c, t) /\ c.stage # t
        /\ t = "told" => c.kind \in Streams
        /\ t = "caching" => c.kind \in Loads
    BY <1>1, <1>19 DEF StoreAnswered, StreamMessage, StreamAction, Loads, Streams
  <2>2. ~c.gone
    BY <1>1, <1>19, CallFields
       DEF StoreAnswered, StreamMessage, StreamAction, Basics, StagesFit, Drafting, Deciding,
           Approving
  <2>3. t \in Stages /\ t \in {"told", "caching"}
    BY DEF Stages
  <2> HIDE DEF t
  <2>4. PICK e \in Call : /\ e = [c EXCEPT !.stage = t] /\ SameCall(c, e)
                          /\ e.stage = t /\ e.found = c.found /\ e.gone = c.gone
    BY <1>1, <2>3, CallMoved
  <2>5. calls' = (calls \ {c}) \cup {e} /\ next' = next /\ e # c
    BY <2>1, <2>4 DEF Move, At
  <2>6. c \notin calls' => Moves(c, e)
    BY <2>1, <2>2, <2>3, <2>4 DEF Moves, SameCall
  <2>. QED
    BY <1>5, <2>4, <2>5, <2>6
<1>20. ASSUME NEW c \in calls, QueuedApproved(c)
       PROVE  CallsForms
  BY <1>1, <1>4, <1>20 DEF QueuedApproved, Drafting, Deciding, Approving
<1>21. ASSUME NEW c \in calls, \/ StoreFromCache(c) \/ Cached(c) \/ LoadFailed(c) \/ LoadLost(c)
                               \/ BoardAnswered(c) \/ BoardFailed(c) \/ QueueAnswered(c)
                               \/ DraftCreated(c) \/ DraftApproved(c) \/ DraftSubmitted(c)
                               \/ Summarized(c) \/ StreamAudit(c) \/ Vanish(c)
       PROVE  CallsForms
  <2>1. Done(c)
    BY <1>21 DEF StoreFromCache, Cached, LoadFailed, LoadLost, CatchLoad, BoardAnswered,
                 BoardFailed, QueueAnswered, DraftCreated, DraftApproved, DraftSubmitted, Answered,
                 Summarized, StreamAudit, Vanish
  <2>. QED
    BY <1>3, <2>1 DEF Done
<1>22. ASSUME NEW c \in calls, FailedUnreported(c) \/ StreamBreaks(c)
       PROVE  CallsForms
  <2>1. GiveUp(c) /\ ~c.gone /\ orders' = orders /\ c \in Call
    BY <1>1, <1>22 DEF FailedUnreported, StreamBreaks
  <2>2. CASE Done(c)
    BY <1>3, <2>2 DEF Done
  <2>3. CASE ~Done(c)
    <3>1. PICK e \in Call : /\ e = [c EXCEPT !.gone = TRUE] /\ SameCall(c, e)
                            /\ e.stage = c.stage /\ e.found = c.found /\ e.gone
      BY <2>1, CallMoved
    <3>2. /\ calls' = (calls \ {c}) \cup {e} /\ next' = next /\ e # c
          /\ c.kind \in Drafting \cup Deciding /\ c.stage \in {"sent", "loaded"}
      BY <2>1, <2>3, <3>1 DEF GiveUp
    <3>3. c \notin calls' => Moves(c, e)
      BY <2>1, <3>1, <3>2 DEF Moves, SameCall
    <3>. QED
      BY <1>5, <3>1, <3>2, <3>3
  <2>. QED
    BY <2>2, <2>3
<1>23. ASSUME NEW c \in calls, Load(c)
       PROVE  CallsForms
  <2>1. CASE Done(c)
    BY <1>3, <2>1 DEF Done
  <2>2. ASSUME NEW t \in {"loaded", "refused"}, Move(c, t), t = "refused" => ~c.gone,
               t = "loaded" /\ c.kind = "submit" => orders[c.order].status = "APPROVED"
        PROVE  CallsForms
    <3>0. t \in Stages
      BY DEF Stages
    <3>1. PICK e \in Call : /\ e = [c EXCEPT !.stage = t] /\ SameCall(c, e)
                            /\ e.stage = t /\ e.found = c.found /\ e.gone = c.gone
      BY <1>1, <3>0, CallMoved
    <3>2. calls' = (calls \ {c}) \cup {e} /\ next' = next /\ e # c
      BY <1>23, <2>2, <3>1 DEF Move, At, Load
    <3>3. c \notin calls' => Moves(c, e)
      BY <1>23, <2>2, <3>1 DEF Moves
    <3>. QED
      BY <1>5, <3>1, <3>2, <3>3
  <2>. QED
    BY <1>23, <2>1, <2>2 DEF Load
<1>24. ASSUME NEW c \in calls, Commit(c)
       PROVE  CallsForms
  <2>1. CASE c.gone
    BY <1>3, <1>24, <2>1 DEF Commit, Done
  <2>2. CASE ~c.gone
    <3>1. PICK e \in Call : /\ e = [c EXCEPT !.stage = "served"] /\ SameCall(c, e)
                            /\ e.stage = "served" /\ e.found = c.found /\ e.gone = c.gone
      BY <1>1, CallMoved DEF Stages
    <3>2. calls' = (calls \ {c}) \cup {e} /\ next' = next /\ e # c
      BY <1>24, <2>2, <3>1 DEF Commit, Move, At
    <3>3. c \notin calls' => Moves(c, e)
      BY <1>24, <2>2, <3>1 DEF Moves
    <3>. QED
      BY <1>5, <3>1, <3>2, <3>3
  <2>. QED
    BY <2>1, <2>2
<1>25. ASSUME NEW c \in calls, ReadQueue(c)
       PROVE  CallsForms
  <2>1. Pending \in SUBSET Drafts /\ ~c.gone
    BY <1>1, <1>25, CallFields DEF Pending, Known, ReadQueue, Basics, StagesFit, Drafting, Deciding,
                                   Approving
  <2>2. PICK e \in Call : /\ e = [c EXCEPT !.stage = "served", !.found = Pending]
                          /\ SameCall(c, e)
                          /\ e.stage = "served" /\ e.found = Pending /\ e.gone = c.gone
    BY <1>1, <2>1, CallMoved
  <2>3. calls' = (calls \ {c}) \cup {e} /\ next' = next /\ e # c
    BY <1>25, <2>2 DEF ReadQueue
  <2>4. c \notin calls' => Moves(c, e)
    BY <1>25, <2>1, <2>2 DEF Moves
  <2>. QED
    BY <1>5, <2>2, <2>3, <2>4
<1>26. CASE Elsewhere
  BY <1>3, <1>26 DEF Elsewhere, DraftedElsewhere, DecidedElsewhere
<1>27. CASE UNCHANGED vars
  BY <1>3, <1>27 DEF vars
<1>. QED
  BY <1>10, <1>11, <1>12, <1>13, <1>14, <1>15, <1>16, <1>17, <1>18, <1>19, <1>20, <1>21, <1>22,
     <1>23, <1>24, <1>25, <1>26, <1>27 DEF Next, User, Network, Ends, Backend

--------------------------------------------------------------------------------
(* Drafts *)

OrderRow == [store: StoreOrNone, status: Status, approved: BOOLEAN, ordered: BOOLEAN]

\* What a commit leaves in the row of its draft.
LEMMA RowFields ==
  ASSUME Basics, NEW c \in calls, c.kind \in Drafting \cup Deciding
  PROVE  /\ Names(c) \in Drafts /\ Row(c) \in OrderRow
         /\ c.kind \in Drafting => Names(c) = c.id /\ Row(c) = NewDraft(c.store)
         /\ c.kind \in Deciding =>
              /\ Names(c) = c.order /\ c.order \in Known /\ Row(c).store = orders[c.order].store
              /\ orders[c.order].approved => Row(c).approved
              /\ orders[c.order].ordered => Row(c).ordered
         /\ c.kind \in Approving => Row(c).status = "APPROVED" /\ Row(c).approved
         /\ c.kind = "submit" => Row(c).status = "SUBMITTED_SANDBOX" /\ Row(c).ordered
                                 /\ (Row(c).approved <=> orders[c.order].approved)
<1>1. c \in Call /\ c.id \in Drafts /\ c.store \in StoreOrNone
  BY CallFields DEF Basics, TypeOK
<1>2. CASE c.kind \in Drafting
  <2>1. c.kind \notin Deciding
    BY <1>2 DEF Drafting, Deciding, Approving
  <2>2. Row(c) = NewDraft(c.store) /\ Names(c) = c.id
    BY <1>2 DEF Row, Names, Drafting, Approving
  <2>3. NewDraft(c.store) \in OrderRow
    BY <1>1 DEF NewDraft, OrderRow, Status
  <2>. QED
    BY <1>1, <1>2, <2>1, <2>2, <2>3 DEF Deciding
<1>3. CASE c.kind \in Deciding
  <2>1. c.kind \notin Drafting
    BY <1>3 DEF Drafting, Deciding, Approving
  <2>2. c.order \in Known /\ c.order \in Drafts /\ Names(c) = c.order
    BY <1>3, <2>1 DEF Basics, DraftsExist, Known, Names
  <2>3. orders[c.order] \in OrderRow
    BY <2>2 DEF Basics, TypeOK, OrderRow
  <2> DEFINE row == orders[c.order]
  <2>4. CASE c.kind \in Approving
    <3>1. Row(c) = [row EXCEPT !.status = "APPROVED", !.approved = TRUE]
      BY <2>4 DEF Row, Drafting, Approving
    <3> HIDE DEF row
    <3>2. row \in OrderRow /\ row = orders[c.order]
      BY <2>3 DEF row
    <3>3. /\ Row(c) \in OrderRow /\ Row(c).store = row.store /\ Row(c).status = "APPROVED"
          /\ Row(c).approved /\ Row(c).ordered = row.ordered
      BY <3>1, <3>2 DEF OrderRow, Status
    <3>. QED
      BY <2>1, <2>2, <2>4, <3>2, <3>3 DEF Approving
  <2>5. CASE c.kind = "submit"
    <3>1. Row(c) = [row EXCEPT !.status = "SUBMITTED_SANDBOX", !.ordered = TRUE]
      BY <2>5 DEF Row, Drafting, Approving
    <3> HIDE DEF row
    <3>2. row \in OrderRow /\ row = orders[c.order]
      BY <2>3 DEF row
    <3>3. /\ Row(c) \in OrderRow /\ Row(c).store = row.store
          /\ Row(c).status = "SUBMITTED_SANDBOX"
          /\ Row(c).approved = row.approved /\ Row(c).ordered
      BY <3>1, <3>2 DEF OrderRow, Status
    <3>. QED
      BY <2>1, <2>2, <2>5, <3>2, <3>3 DEF Approving
  <2>. QED
    BY <1>3, <2>4, <2>5 DEF Deciding
<1>. QED
  BY <1>2, <1>3

\* What a commit does to the drafts.
LEMMA CommitFields ==
  ASSUME Basics, NEW c \in calls, Commit(c)
  PROVE  /\ c.kind \in Drafting \cup Deciding
         /\ orders' \in [Drafts -> OrderRow] /\ orders'[Names(c)] = Row(c)
         /\ \A d \in Drafts : d # Names(c) => orders'[d] = orders[d]
         /\ c.kind \in Drafting => c.stage = "sent" /\ c.id \notin Known /\ c.store # None
         /\ c.kind = "submit" => orders[c.order].approved
<1>1. c.kind \in Drafting \cup Deciding
  BY DEF Commit, Basics, StagesFit
<1>2. Names(c) \in Drafts /\ Row(c) \in OrderRow
  BY <1>1, RowFields
<1>3. orders \in [Drafts -> OrderRow] /\ orders' = [orders EXCEPT ![Names(c)] = Row(c)]
  BY DEF Basics, TypeOK, OrderRow, Commit
<1>4. c.kind \in Drafting => c.stage = "sent" /\ c.id \notin Known /\ c.store # None
  BY DEF Commit, Basics, DraftsExist
<1>5. c.kind = "submit" => orders[c.order].approved
  BY DEF Commit, Basics, RecordsKept, Drafting
<1>. QED
  BY <1>1, <1>2, <1>3, <1>4, <1>5

\* What a decision of another client does to the drafts.
LEMMA ElsewhereFields ==
  ASSUME Basics
  PROVE  /\ \A d \in Drafts, t \in Status : DecidedElsewhere(d, t) =>
              /\ d \in Known /\ orders' \in [Drafts -> OrderRow]
              /\ \A e \in Drafts : e # d => orders'[e] = orders[e]
              /\ orders'[d].store = orders[d].store /\ orders'[d].status = t
              /\ orders[d].approved \/ t \in {"APPROVED", "SUBMITTED_SANDBOX"} =>
                   orders'[d].approved
              /\ orders[d].ordered \/ t = "SUBMITTED_SANDBOX" => orders'[d].ordered
         /\ \A f \in Foreign, s \in Stores : DraftedElsewhere(f, s) =>
              /\ f \notin Known /\ orders' \in [Drafts -> OrderRow]
              /\ \A e \in Drafts : e # f => orders'[e] = orders[e]
              /\ orders'[f] = NewDraft(s)
<1>1. orders \in [Drafts -> OrderRow]
  BY DEF Basics, TypeOK, OrderRow
<1>2. ASSUME NEW d \in Drafts, NEW t \in Status, DecidedElsewhere(d, t)
      PROVE  /\ d \in Known /\ orders' \in [Drafts -> OrderRow]
             /\ \A e \in Drafts : e # d => orders'[e] = orders[e]
             /\ orders'[d].store = orders[d].store /\ orders'[d].status = t
             /\ orders[d].approved \/ t \in {"APPROVED", "SUBMITTED_SANDBOX"} =>
                  orders'[d].approved
             /\ orders[d].ordered \/ t = "SUBMITTED_SANDBOX" => orders'[d].ordered
  <2> DEFINE row == [orders[d] EXCEPT !.status = t, !.approved = @ \/ t = "APPROVED",
                                      !.ordered = @ \/ t = "SUBMITTED_SANDBOX"]
  <2>1. row \in OrderRow
    BY <1>1 DEF OrderRow
  <2>2. orders' = [orders EXCEPT ![d] = row]
    <3> DEFINE one == [orders EXCEPT ![d].status = t]
               two == [one EXCEPT ![d].approved = @ \/ t = "APPROVED"]
    <3>1. orders' = [two EXCEPT ![d].ordered = @ \/ t = "SUBMITTED_SANDBOX"]
      BY <1>2 DEF DecidedElsewhere
    <3>3. one = [orders EXCEPT ![d] = [orders[d] EXCEPT !.status = t]]
          /\ one[d] = [orders[d] EXCEPT !.status = t]
      BY <1>1
    <3>4. two = [orders EXCEPT ![d] = [orders[d] EXCEPT !.status = t,
                                          !.approved = @ \/ t = "APPROVED"]]
      BY <1>1, <3>3 DEF OrderRow
    <3> HIDE DEF one, two
    <3>5. orders' = [orders EXCEPT ![d] = [orders[d] EXCEPT !.status = t,
                        !.approved = @ \/ t = "APPROVED",
                        !.ordered = @ \/ t = "SUBMITTED_SANDBOX"]]
      BY <1>1, <3>1, <3>4 DEF OrderRow
    <3>. QED
      BY <3>5
  <2>3. /\ row.store = orders[d].store /\ row.status = t
        /\ row.approved = (orders[d].approved \/ t = "APPROVED")
        /\ row.ordered = (orders[d].ordered \/ t = "SUBMITTED_SANDBOX")
    BY <1>1 DEF OrderRow
  <2>4. d \in Known /\ (t = "SUBMITTED_SANDBOX" => orders[d].approved)
    BY <1>2 DEF DecidedElsewhere
  <2> HIDE DEF row
  <2>5. orders'[d] = row /\ orders' \in [Drafts -> OrderRow]
        /\ \A e \in Drafts : e # d => orders'[e] = orders[e]
    BY <1>1, <2>1, <2>2
  <2>. QED
    BY <2>3, <2>4, <2>5
<1>3. ASSUME NEW f \in Foreign, NEW s \in Stores, DraftedElsewhere(f, s)
      PROVE  /\ f \notin Known /\ orders' \in [Drafts -> OrderRow]
             /\ \A e \in Drafts : e # f => orders'[e] = orders[e]
             /\ orders'[f] = NewDraft(s)
  <2>1. NewDraft(s) \in OrderRow /\ f \in Drafts
    BY DEF NewDraft, OrderRow, Status, StoreOrNone, Drafts
  <2>2. f \notin Known /\ orders' = [orders EXCEPT ![f] = NewDraft(s)]
    BY <1>3 DEF DraftedElsewhere
  <2>. QED
    BY <1>1, <2>1, <2>2
<1>. QED
  BY <1>2, <1>3

\* The drafts change only with a commit or elsewhere.
LEMMA OrdersKept ==
  ASSUME [Next]_vars
  PROVE  \/ orders' = orders
         \/ \E c \in calls : Commit(c)
         \/ \E f \in Foreign, s \in Stores : DraftedElsewhere(f, s)
         \/ \E d \in Drafts, t \in Status : DecidedElsewhere(d, t)
<1>1. ASSUME NEW c \in calls, Ends(c)
      PROVE  orders' = orders
  BY <1>1 DEF Ends, VisitsAnswered, VisitsFromCache, VisitsShown, StoreAnswered, StoreFromCache,
     StoreShown, Cached, LoadFailed, LoadLost, CatchLoad, BoardAnswered, BoardFailed,
     QueuedApproved, QueueAnswered, DraftCreated, DraftApproved, DraftSubmitted, Answered,
     Summarized, FailedUnreported, StreamMessage, StreamAction, StreamAudit, StreamBreaks
<1>2. User => orders' = orders
  BY DEF User, SelectStore, OpenManagerStore, SwitchRole, SwitchTo, RepickRole, ApproveQueued,
         DraftTopAlert, ApproveDraft, SubmitSandbox, Summarize, RunAgent, TapInPane, Reload
<1>3. UNCHANGED vars => orders' = orders
  BY DEF vars
<1>4. ASSUME NEW c \in calls, Load(c) \/ Vanish(c) \/ ReadQueue(c)
      PROVE  orders' = orders
  BY <1>4 DEF Load, Vanish, ReadQueue
<1>. QED
  BY <1>1, <1>2, <1>3, <1>4 DEF Next, Network, Backend, Elsewhere

\* A draft stays, and so do its store and its records; one that comes to be is a
\* new draft of this page or of another client.
LEMMA OrdersStep ==
  ASSUME Basics, [Next]_vars
  PROVE  /\ orders' \in [Drafts -> OrderRow]
         /\ \A d \in Known : /\ d \in Known' /\ orders'[d].store = orders[d].store
                             /\ orders[d].approved => orders'[d].approved
                             /\ orders[d].ordered => orders'[d].ordered
         /\ \A d \in Drafts : d \in Known' /\ d \notin Known =>
              \/ d \in Foreign
              \/ \E c \in calls : Commit(c) /\ c.kind \in Drafting /\ c.id = d
         /\ \A d \in Drafts :
              /\ orders'[d].status \in {"APPROVED", "SUBMITTED_SANDBOX"} => orders'[d].approved
              /\ orders'[d].status = "SUBMITTED_SANDBOX" => orders'[d].ordered
<1>1. orders \in [Drafts -> OrderRow]
  BY DEF Basics, TypeOK, OrderRow
<1>2. \A d \in Drafts :
        /\ orders[d].status \in {"APPROVED", "SUBMITTED_SANDBOX"} => orders[d].approved
        /\ orders[d].status = "SUBMITTED_SANDBOX" => orders[d].ordered
  BY DEF Basics, RecordsKept
<1>3. CASE orders' = orders
  BY <1>1, <1>2, <1>3 DEF Known
<1>4. ASSUME NEW c \in calls, Commit(c)
      PROVE  /\ orders' \in [Drafts -> OrderRow]
             /\ \A d \in Known : /\ d \in Known' /\ orders'[d].store = orders[d].store
                                 /\ orders[d].approved => orders'[d].approved
                                 /\ orders[d].ordered => orders'[d].ordered
             /\ \A d \in Drafts : d \in Known' /\ d \notin Known =>
                  c.kind \in Drafting /\ c.id = d
             /\ \A d \in Drafts :
                  /\ orders'[d].status \in {"APPROVED", "SUBMITTED_SANDBOX"} => orders'[d].approved
                  /\ orders'[d].status = "SUBMITTED_SANDBOX" => orders'[d].ordered
  <2>1. /\ c.kind \in Drafting \cup Deciding
        /\ orders' \in [Drafts -> OrderRow] /\ orders'[Names(c)] = Row(c)
        /\ \A d \in Drafts : d # Names(c) => orders'[d] = orders[d]
        /\ c.kind \in Drafting => c.id \notin Known
        /\ c.kind = "submit" => orders[c.order].approved
    BY <1>4, CommitFields
  <2>2. /\ Names(c) \in Drafts
        /\ c.kind \in Drafting => Names(c) = c.id /\ Row(c) = NewDraft(c.store)
        /\ c.kind \in Deciding =>
              /\ Names(c) = c.order /\ c.order \in Known /\ Row(c).store = orders[c.order].store
              /\ orders[c.order].approved => Row(c).approved
              /\ orders[c.order].ordered => Row(c).ordered
        /\ c.kind \in Approving => Row(c).status = "APPROVED" /\ Row(c).approved
        /\ c.kind = "submit" => Row(c).status = "SUBMITTED_SANDBOX" /\ Row(c).ordered
                                 /\ (Row(c).approved <=> orders[c.order].approved)
    BY <2>1, RowFields
  <2>3. \A d \in Known : /\ d \in Known' /\ orders'[d].store = orders[d].store
                         /\ orders[d].approved => orders'[d].approved
                         /\ orders[d].ordered => orders'[d].ordered
    BY <2>1, <2>2 DEF Known
  <2>4. \A d \in Drafts : d \in Known' /\ d \notin Known => c.kind \in Drafting /\ c.id = d
    BY <2>1, <2>2 DEF Known
  <2>5. \A d \in Drafts :
          /\ orders'[d].status \in {"APPROVED", "SUBMITTED_SANDBOX"} => orders'[d].approved
          /\ orders'[d].status = "SUBMITTED_SANDBOX" => orders'[d].ordered
    BY <1>2, <2>1, <2>2 DEF NewDraft, Deciding
  <2>. QED
    BY <2>1, <2>3, <2>4, <2>5
<1>5. ASSUME NEW d \in Drafts, NEW t \in Status, DecidedElsewhere(d, t)
      PROVE  /\ orders' \in [Drafts -> OrderRow]
             /\ Known' = Known
             /\ \A e \in Known : /\ orders'[e].store = orders[e].store
                                 /\ orders[e].approved => orders'[e].approved
                                 /\ orders[e].ordered => orders'[e].ordered
             /\ \A e \in Drafts :
                  /\ orders'[e].status \in {"APPROVED", "SUBMITTED_SANDBOX"} => orders'[e].approved
                  /\ orders'[e].status = "SUBMITTED_SANDBOX" => orders'[e].ordered
  BY <1>2, <1>5, ElsewhereFields DEF Known
<1>6. ASSUME NEW f \in Foreign, NEW s \in Stores, DraftedElsewhere(f, s)
      PROVE  /\ orders' \in [Drafts -> OrderRow]
             /\ \A d \in Known : d \in Known' /\ orders'[d] = orders[d]
             /\ \A d \in Drafts : d \in Known' /\ d \notin Known => d \in Foreign
             /\ \A d \in Drafts :
                  /\ orders'[d].status \in {"APPROVED", "SUBMITTED_SANDBOX"} => orders'[d].approved
                  /\ orders'[d].status = "SUBMITTED_SANDBOX" => orders'[d].ordered
  <2>1. /\ f \notin Known /\ orders' \in [Drafts -> OrderRow]
        /\ \A e \in Drafts : e # f => orders'[e] = orders[e]
        /\ orders'[f] = NewDraft(s)
    BY <1>6, ElsewhereFields
  <2>2. orders'[f].status = "DRAFT"
    BY <2>1 DEF NewDraft
  <2>3. \A d \in Known : d \in Known' /\ orders'[d] = orders[d]
    BY <2>1 DEF Known
  <2>4. \A d \in Drafts : d \in Known' /\ d \notin Known => d \in Foreign
    BY <2>1 DEF Known
  <2>5. \A d \in Drafts :
          /\ orders'[d].status \in {"APPROVED", "SUBMITTED_SANDBOX"} => orders'[d].approved
          /\ orders'[d].status = "SUBMITTED_SANDBOX" => orders'[d].ordered
    BY <1>2, <2>1, <2>2
  <2>. QED
    BY <2>1, <2>3, <2>4, <2>5
<1>. QED
  BY <1>3, <1>4, <1>5, <1>6, OrdersKept

--------------------------------------------------------------------------------
(* Types, stages and records *)

\* The page with nothing on it is typed.
LEMMA Blank ==
  /\ NoDraft \in [id: 0..MaxCalls, status: Status] /\ NoDraft.id = 0
  /\ NoSummary \in [id: 0..MaxCalls, store: StoreOrNone, alerts: StoreOrNone, audit: BOOLEAN]
  /\ NoSummary.id = 0
  /\ NoBoard \in [loaded: BOOLEAN, queue: SUBSET Drafts]
  /\ NoBoard.loaded = FALSE /\ NoBoard.queue = {}
  /\ None \in StoreOrNone /\ Stores \subseteq StoreOrNone
BY ConstantsTyped DEF NoDraft, NoSummary, NoBoard, Status, StoreOrNone

\* The part of the types that is not about requests and drafts.
PageTyped ==
  /\ role \in {"rep", "manager"} /\ selected \in StoreOrNone
  /\ visits \in BOOLEAN /\ shown \in StoreOrNone
  /\ draft \in [id: 0..MaxCalls, status: Status]
  /\ approval \in Drafts \cup {0} /\ submission \in Drafts \cup {0}
  /\ summary \in [id: 0..MaxCalls, store: StoreOrNone, alerts: StoreOrNone,
                  audit: BOOLEAN]
  /\ running \in BOOLEAN
  /\ board \in [loaded: BOOLEAN, queue: SUBSET Drafts]
  /\ error \in BOOLEAN /\ cache \in SUBSET StoreOrNone
  /\ patient \in BOOLEAN /\ lastLoad \in 0..MaxCalls /\ stale \in BOOLEAN
  /\ dismissed \in BOOLEAN /\ touched \in SUBSET Drafts /\ others \in 0..MaxOthers

\* A tap keeps them.
LEMMA UserTyped == ASSUME Basics, User PROVE PageTyped'
<1> USE Blank DEF shell, panel, agent, history, loadNotes
<1>1. PageTyped
  BY DEF Basics, TypeOK, PageTyped
<1>2. ASSUME NEW s \in StoreOrNone, NEW rest, ChangeSelection(s, rest)
      PROVE  /\ selected' \in StoreOrNone
             /\ draft' \in [id: 0..MaxCalls, status: Status]
             /\ approval' \in Drafts \cup {0} /\ submission' \in Drafts \cup {0}
             /\ summary' \in [id: 0..MaxCalls, store: StoreOrNone, alerts: StoreOrNone,
                              audit: BOOLEAN]
             /\ running' \in BOOLEAN
  BY <1>1, <1>2 DEF ChangeSelection, ClearPanel, PageTyped
<1>3. ASSUME NEW r \in {"rep", "manager"}, NEW s \in StoreOrNone, SwitchTo(r, s)
      PROVE  PageTyped'
  BY <1>1, <1>3 DEF SwitchTo, ClearPanel, PageTyped
<1>4. ASSUME NEW c, TapInPane(c), UNCHANGED summary, running' \in BOOLEAN
      PROVE  PageTyped'
  BY <1>1, <1>4 DEF TapInPane, PageTyped
<1>5. running \in BOOLEAN /\ selected \in StoreOrNone
  BY <1>1 DEF PageTyped
<1>6. ASSUME NEW s \in Stores, SelectStore(s)
      PROVE  PageTyped'
  BY <1>1, <1>2, <1>6 DEF SelectStore, PageTyped
<1>7. ASSUME NEW s \in Stores, OpenManagerStore(s)
      PROVE  PageTyped'
  BY <1>3, <1>7 DEF OpenManagerStore
<1>8. ASSUME NEW r \in {"rep", "manager"}, SwitchRole(r)
      PROVE  PageTyped'
  BY <1>3, <1>5, <1>8 DEF SwitchRole
<1>9. RepickRole => PageTyped'
  BY <1>1 DEF RepickRole, PageTyped
<1>10. ASSUME NEW d, ApproveQueued(d)
       PROVE  PageTyped'
  BY <1>1, <1>10 DEF ApproveQueued, PageTyped
<1>11. DraftTopAlert \/ ApproveDraft \/ SubmitSandbox \/ Summarize => PageTyped'
  BY <1>4, <1>5 DEF DraftTopAlert, ApproveDraft, SubmitSandbox, Summarize
<1>12. ASSUME NEW k, RunAgent(k)
       PROVE  PageTyped'
  BY <1>4, <1>12 DEF RunAgent
<1>13. Reload => PageTyped'
  BY <1>1 DEF Reload, PageTyped
<1>. QED
  BY <1>6, <1>7, <1>8, <1>9, <1>10, <1>11, <1>12, <1>13 DEF User

\* So does the end of a request.
LEMMA EndsTyped == ASSUME Basics, NEW c \in calls, Ends(c) PROVE PageTyped'
<1> USE Blank DEF shell, panel, agent, history, loadNotes
<1>1. PageTyped /\ c \in Call
  BY DEF Basics, TypeOK, PageTyped
<1>2. /\ c.id \in Ids /\ c.id \in 0..MaxCalls /\ c.id \in Drafts
      /\ c.store \in StoreOrNone /\ c.alerts \in StoreOrNone
      /\ c.order \in Drafts \cup {0} /\ c.found \in SUBSET Drafts
  BY <1>1, CallFields
<1>3. CASE VisitsAnswered(c) \/ VisitsFromCache(c)
  <2>1. PICK rest : VisitsShown(rest)
    BY <1>3 DEF VisitsAnswered, VisitsFromCache
  <2>2. ChangeSelection(Route[1], rest) /\ Route[1] \in StoreOrNone
    BY <2>1, FirstVisit DEF VisitsShown
  <2>3. /\ selected' \in StoreOrNone
        /\ draft' \in [id: 0..MaxCalls, status: Status]
        /\ approval' \in Drafts \cup {0} /\ submission' \in Drafts \cup {0}
        /\ summary' \in [id: 0..MaxCalls, store: StoreOrNone, alerts: StoreOrNone,
                         audit: BOOLEAN]
        /\ running' \in BOOLEAN
    BY <1>1, <2>2 DEF ChangeSelection, ClearPanel, PageTyped
  <2>. QED
    BY <1>1, <2>1, <2>3 DEF VisitsShown, PageTyped
<1>4. ASSUME NEW b \in BOOLEAN, Note(c, b)
      PROVE  lastLoad' \in 0..MaxCalls /\ stale' \in BOOLEAN
  BY <1>1, <1>2, <1>4 DEF Note, PageTyped
<1>5. CASE StoreAnswered(c) \/ StoreFromCache(c)
  <2>1. StoreShown(c)
    BY <1>5 DEF StoreAnswered, StoreFromCache
  <2>2. lastLoad' \in 0..MaxCalls /\ stale' \in BOOLEAN
    <3>1. (c.id < lastLoad) \in BOOLEAN /\ Note(c, c.id < lastLoad)
      BY <2>1 DEF StoreShown
    <3>. QED
      BY <1>4, <3>1
  <2>. QED
    BY <1>1, <1>2, <2>1, <2>2 DEF StoreShown, PageTyped
<1>6. CASE Cached(c)
  BY <1>1, <1>2, <1>6 DEF Cached, PageTyped
<1>7. CASE LoadFailed(c) \/ LoadLost(c)
  <2>1. CatchLoad(c) /\ error' \in BOOLEAN
    BY <1>1, <1>7 DEF LoadFailed, LoadLost, PageTyped
  <2>2. lastLoad' \in 0..MaxCalls /\ stale' \in BOOLEAN
    <3>1. stale \in BOOLEAN /\ (stale \/ c.id > lastLoad) \in BOOLEAN
          /\ lastLoad \in 0..MaxCalls
      BY <1>1 DEF PageTyped
    <3>. QED
      BY <1>4, <1>7, <3>1 DEF LoadFailed, LoadLost
  <2>. QED
    BY <1>1, <2>1, <2>2 DEF CatchLoad, PageTyped
<1>8. CASE BoardAnswered(c) \/ BoardFailed(c) \/ QueueAnswered(c) \/ QueuedApproved(c)
  <2>1. board' \in [loaded: BOOLEAN, queue: SUBSET Drafts] /\ error' \in BOOLEAN
    <3>1. /\ [loaded |-> TRUE, queue |-> c.found] \in [loaded: BOOLEAN, queue: SUBSET Drafts]
          /\ [board EXCEPT !.queue = c.found] \in [loaded: BOOLEAN, queue: SUBSET Drafts]
          /\ board \in [loaded: BOOLEAN, queue: SUBSET Drafts]
      BY <1>1, <1>2 DEF PageTyped
    <3>. QED
      BY <1>1, <1>8, <3>1
         DEF BoardAnswered, BoardFailed, QueueAnswered, QueuedApproved, PageTyped
  <2>2. UNCHANGED <<shell, panel, agent, cache, history>>
    BY <1>8 DEF BoardAnswered, BoardFailed, QueueAnswered, QueuedApproved
  <2>. QED
    BY <1>1, <2>1, <2>2 DEF PageTyped
<1>9. CASE DraftCreated(c) \/ DraftApproved(c) \/ DraftSubmitted(c) \/ StreamAction(c)
  <2>1. \A t \in Status : MarkDraft(t) => draft' \in [id: 0..MaxCalls, status: Status]
    BY <1>1 DEF MarkDraft, PageTyped
  <2>2. [id |-> c.id, status |-> "DRAFT"] \in [id: 0..MaxCalls, status: Status]
    BY <1>2 DEF Status
  <2>3. draft' \in [id: 0..MaxCalls, status: Status] /\ approval' \in Drafts \cup {0}
        /\ submission' \in Drafts \cup {0}
    BY <1>1, <1>2, <1>9, <2>1, <2>2
       DEF DraftCreated, DraftApproved, DraftSubmitted, StreamAction, PageTyped, Status
  <2>4. UNCHANGED <<shell, agent, board, error, cache, history>>
    BY <1>9 DEF DraftCreated, DraftApproved, DraftSubmitted, StreamAction, Answered
  <2>. QED
    BY <1>1, <2>3, <2>4 DEF PageTyped
<1>10. CASE Summarized(c) \/ StreamMessage(c) \/ StreamAudit(c)
  <2>1. summary' \in [id: 0..MaxCalls, store: StoreOrNone, alerts: StoreOrNone, audit: BOOLEAN]
        /\ running' \in BOOLEAN
    <3>1. \A b \in BOOLEAN :
            [id |-> c.id, store |-> c.store, alerts |-> c.alerts, audit |-> b] \in
              [id: 0..MaxCalls, store: StoreOrNone, alerts: StoreOrNone, audit: BOOLEAN]
      BY <1>2
    <3>2. [summary EXCEPT !.audit = TRUE] \in
            [id: 0..MaxCalls, store: StoreOrNone, alerts: StoreOrNone, audit: BOOLEAN]
      BY <1>1 DEF PageTyped
    <3>3. running \in BOOLEAN /\ summary \in
            [id: 0..MaxCalls, store: StoreOrNone, alerts: StoreOrNone, audit: BOOLEAN]
      BY <1>1 DEF PageTyped
    <3>. QED
      BY <1>10, <3>1, <3>2, <3>3 DEF Summarized, StreamMessage, StreamAudit
  <2>2. UNCHANGED <<shell, panel, board, error, cache, history>>
    BY <1>10 DEF Summarized, StreamMessage, StreamAudit
  <2>. QED
    BY <1>1, <2>1, <2>2 DEF PageTyped
<1>11. CASE FailedUnreported(c) \/ StreamBreaks(c)
  <2>1. touched' \in SUBSET Drafts
    <3>1. GiveUp(c)
      BY <1>11 DEF FailedUnreported, StreamBreaks
    <3>2. c.stage = "served" /\ c.kind # "queue" => Names(c) \in Drafts \/ c.kind = "board"
      <4>1. c.stage = "served" /\ c.kind \notin {"queue", "board"} =>
              c.kind \in Drafting \cup Deciding
        BY DEF Basics, StagesFit
      <4>. QED
        BY <4>1, RowFields
    <3>3. c.kind # "board"
      BY <1>11 DEF FailedUnreported, StreamBreaks, Writes, Streams
    <3>. QED
      BY <1>1, <3>1, <3>2, <3>3 DEF GiveUp, Touch, Known, PageTyped
  <2>2. running' \in BOOLEAN
    BY <1>1, <1>11 DEF FailedUnreported, StreamBreaks, PageTyped
  <2>3. UNCHANGED <<shell, panel, summary, board, error, cache, patient, loadNotes, dismissed,
                    others>>
    BY <1>11 DEF FailedUnreported, StreamBreaks
  <2>. QED
    BY <1>1, <2>1, <2>2, <2>3 DEF PageTyped
<1>. QED
  BY <1>3, <1>5, <1>6, <1>7, <1>8, <1>9, <1>10, <1>11 DEF Ends

\* And what the backend and other clients do.
LEMMA BackendTyped ==
  ASSUME Basics, Elsewhere \/ \E c \in calls : Backend(c)
  PROVE  PageTyped'
<1> USE DEF shell, panel, agent, history, loadNotes, Frontend
<1>1. PageTyped
  BY DEF Basics, TypeOK, PageTyped
<1>2. ASSUME NEW c \in calls, Backend(c)
      PROVE  touched' \in SUBSET Drafts /\ UNCHANGED <<Frontend, others>>
  <2>1. CASE Commit(c)
    <3>1. Names(c) \in Drafts
      BY <2>1, CommitFields, RowFields
    <3>. QED
      BY <1>1, <2>1, <3>1 DEF Commit, Touch, PageTyped
  <2>2. CASE Load(c) \/ Vanish(c) \/ ReadQueue(c)
    BY <1>1, <2>2 DEF Load, Vanish, ReadQueue, PageTyped
  <2>. QED
    BY <1>2, <2>1, <2>2 DEF Backend
<1>3. ASSUME NEW d \in Drafts, Other, Touch({d}), UNCHANGED Frontend
      PROVE  PageTyped'
  <2>1. others' \in 0..MaxOthers
    BY <1>1, <1>3, ConstantsTyped DEF Other, PageTyped
  <2>2. touched' \in SUBSET Drafts
    BY <1>1, <1>3 DEF Touch, PageTyped
  <2>. QED
    BY <1>1, <1>3, <2>1, <2>2 DEF PageTyped
<1>4. Elsewhere => PageTyped'
  BY <1>3 DEF Elsewhere, DraftedElsewhere, DecidedElsewhere, Drafts
<1>5. (\E c \in calls : Backend(c)) => PageTyped'
  BY <1>1, <1>2 DEF PageTyped
<1>. QED
  BY <1>4, <1>5

\* Every step takes the types to themselves.
LEMMA TypeStep == ASSUME Basics, [Next]_vars PROVE TypeOK'
<1>1. CallsForms /\ orders' \in [Drafts -> OrderRow]
  BY CallsStep, OrdersStep
<1>2. calls' \in SUBSET Call /\ next' \in 1..(MaxCalls + 1)
  BY <1>1, NumbersBelow DEF CallsForms, Basics, TypeOK
<1>3. UNCHANGED vars => PageTyped'
  BY DEF Basics, TypeOK, PageTyped, vars, shell, panel, agent, history, loadNotes
<1>4. PageTyped'
  BY <1>3, UserTyped, EndsTyped, BackendTyped DEF Next, Network
<1>. QED
  BY <1>1, <1>2, <1>4 DEF TypeOK, PageTyped, OrderRow

\* Stages stay those of the kind of request.
LEMMA StagesStep == ASSUME Basics, [Next]_vars PROVE StagesFit'
<1> SUFFICES ASSUME NEW x \in calls'
             PROVE  /\ x.stage = "told" => x.kind \in Streams
                    /\ x.stage = "caching" => x.kind \in Loads
                    /\ x.stage \in {"loaded", "refused"} => x.kind \in Deciding
                    /\ x.stage = "served" =>
                         x.kind \in Drafting \cup Deciding \cup {"board", "queue"}
                    /\ x.gone => x.kind \in Drafting \cup Deciding
                                 /\ x.stage \in {"sent", "loaded"}
  BY DEF StagesFit
<1>1. CASE x \in calls
  BY <1>1 DEF Basics, StagesFit
<1>2. CASE Sent(x)
  BY <1>2 DEF Sent
<1>3. ASSUME NEW c \in calls, Moves(c, x)
      PROVE  /\ x.stage = "told" => x.kind \in Streams
             /\ x.stage = "caching" => x.kind \in Loads
             /\ x.stage \in {"loaded", "refused"} => x.kind \in Deciding
             /\ x.stage = "served" =>
                  x.kind \in Drafting \cup Deciding \cup {"board", "queue"}
             /\ x.gone => x.kind \in Drafting \cup Deciding
                          /\ x.stage \in {"sent", "loaded"}
  <2>1. x.kind = c.kind /\ (c.gone => c.kind \in Drafting \cup Deciding)
        /\ (c.stage = "loaded" => c.kind \in Deciding)
    BY <1>3 DEF Moves, SameCall, Basics, StagesFit
  <2>2. Commit(c) => c.kind \in Drafting \cup Deciding
    BY CommitFields
  <2>. QED
    BY <1>3, <2>1, <2>2 DEF Moves, Load, ReadQueue, Drafting
<1>. QED
  BY <1>1, <1>2, <1>3, CallsStep DEF CallsForms

\* A commit or a load that others wait for takes its request out of its stage.
LEMMA CommitLeaves == ASSUME Basics, NEW c \in calls, Commit(c) PROVE c \notin calls'
<1>1. c \in Call /\ c.stage \in {"sent", "loaded"}
  BY DEF Commit, Basics, TypeOK
<1>2. PICK e \in Call : e = [c EXCEPT !.stage = "served"] /\ e.stage = "served"
  BY <1>1, CallMoved DEF Stages
<1>. QED
  BY <1>1, <1>2 DEF Commit, Done, Move, At

\* Where the drafts come from that the panel and the queue show.
LEMMA NamesStep ==
  ASSUME Basics, [Next]_vars
  PROVE  /\ \/ draft'.id = 0 \/ draft'.id = draft.id
            \/ \E c \in calls : c.kind \in Drafting /\ c.stage = "served" /\ draft'.id = c.id
         /\ \/ board'.queue = {} \/ board'.queue = board.queue
            \/ \E c \in calls : board'.queue = c.found
         /\ \/ approval' = 0 \/ approval' = approval
            \/ \E c \in calls : c.kind = "approve" /\ c.stage = "served" /\ approval' = c.order
         /\ \/ submission' = 0 \/ submission' = submission
            \/ \E c \in calls : c.kind = "submit" /\ c.stage = "served" /\ submission' = c.order
<1> USE DEF shell, panel, agent, Frontend
<1>1. NoDraft.id = 0 /\ NoBoard.queue = {} /\ board \in [loaded: BOOLEAN, queue: SUBSET Drafts]
  BY Blank DEF Basics, TypeOK
<1>2. CASE User
  BY <1>1, <1>2 DEF User, SelectStore, OpenManagerStore, SwitchRole, SwitchTo, ChangeSelection,
     ClearPanel, RepickRole, ApproveQueued, DraftTopAlert, ApproveDraft, SubmitSandbox, Summarize,
     RunAgent, TapInPane, Reload
<1>3. ASSUME NEW c \in calls, VisitsAnswered(c) \/ VisitsFromCache(c)
      PROVE  /\ draft'.id = 0 \/ draft' = draft
             /\ approval' = 0 \/ approval' = approval
             /\ submission' = 0 \/ submission' = submission
             /\ board' = board
  BY <1>1, <1>3 DEF VisitsAnswered, VisitsFromCache, VisitsShown, ChangeSelection, ClearPanel
<1>4. ASSUME NEW c \in calls, BoardAnswered(c) \/ QueueAnswered(c)
      PROVE  board'.queue = c.found /\ UNCHANGED panel
  BY <1>1, <1>4 DEF BoardAnswered, QueueAnswered
<1>5. ASSUME NEW c \in calls,
             DraftCreated(c) \/ DraftApproved(c) \/ DraftSubmitted(c) \/ StreamAction(c)
      PROVE  /\ \/ draft'.id = draft.id
                \/ c.kind \in Drafting /\ c.stage = "served" /\ draft'.id = c.id
             /\ \/ approval' = 0 \/ approval' = approval
                \/ c.kind = "approve" /\ c.stage = "served" /\ approval' = c.order
             /\ \/ submission' = 0 \/ submission' = submission
                \/ c.kind = "submit" /\ c.stage = "served" /\ submission' = c.order
             /\ board' = board
  BY <1>5 DEF DraftCreated, DraftApproved, DraftSubmitted, StreamAction, Answered, MarkDraft,
              Drafting
<1>6. ASSUME NEW c \in calls,
             \/ StoreAnswered(c) \/ StoreFromCache(c) \/ Cached(c) \/ LoadFailed(c) \/ LoadLost(c)
             \/ BoardFailed(c) \/ QueuedApproved(c) \/ Summarized(c) \/ FailedUnreported(c)
             \/ StreamMessage(c) \/ StreamAudit(c) \/ StreamBreaks(c)
             \/ Load(c) \/ Commit(c) \/ Vanish(c) \/ ReadQueue(c)
      PROVE  UNCHANGED <<panel, board>>
  BY <1>6 DEF StoreAnswered, StoreFromCache, StoreShown, Cached, LoadFailed, LoadLost, CatchLoad,
     BoardFailed, QueuedApproved, Summarized, FailedUnreported, StreamMessage, StreamAudit,
     StreamBreaks, Load, Commit, Vanish, ReadQueue
<1>7. Elsewhere \/ UNCHANGED vars => UNCHANGED <<panel, board>>
  BY DEF Elsewhere, DraftedElsewhere, DecidedElsewhere, vars
<1>. QED
  BY <1>2, <1>3, <1>4, <1>5, <1>6, <1>7 DEF Next, Network, Ends, Backend

\* After every step what names a draft names one that exists.
LEMMA ExistStep == ASSUME Basics, [Next]_vars PROVE DraftsExist'
<1>1. CallsForms /\ next \in Nat /\ next' \in Nat /\ next <= next'
  BY CallsStep, NumbersBelow DEF CallsForms, Basics
<1>2. \A d \in Known : d \in Known' /\ orders'[d].store = orders[d].store
  BY OrdersStep
<1>3. \A d \in Ids : d \in Drafts /\ d \notin Foreign /\ d \in Nat
  BY ConstantsTyped DEF Ids, Drafts
<1>4. \A d \in Ids : d \in Known' /\ d \notin Known =>
        \E c \in calls : Commit(c) /\ c.kind \in Drafting /\ c.id = d
  BY <1>3, OrdersStep
<1>5. \A c \in calls : c \in Call /\ c.id \in Ids /\ c.id \in Nat /\ c.id < next
  BY NumbersBelow, CallFields DEF Basics
<1>6. \A d \in Ids : d \in Known' => d < next'
  BY <1>1, <1>3, <1>4, <1>5 DEF Basics, DraftsExist
<1>7. ASSUME NEW x \in calls'
      PROVE  /\ x.kind \in Drafting =>
                  /\ x.store # None
                  /\ x.stage = "sent" => x.id \notin Known'
                  /\ x.stage = "served" => x.id \in Known' /\ orders'[x.id].store = x.store
             /\ x.kind \in Deciding => x.order \in Known'
             /\ x.found \subseteq Known'
  <2>1. CASE x \in calls
    <3>1. x.stage = "sent" /\ x.kind \in Drafting => x.id \notin Known'
      BY <1>4, <1>5, <2>1, CommitLeaves DEF Basics, CallsNumbered, DraftsExist
    <3>. QED
      BY <1>2, <2>1, <3>1 DEF Basics, DraftsExist
  <2>2. CASE Sent(x)
    <3>1. x.id \notin Known'
      <4>1. x.id \in Ids /\ x.id >= next
        BY <1>1, <2>2, CallFields DEF Sent, CallsForms
      <4>. QED
        BY <1>1, <1>3, <1>4, <1>5, <4>1 DEF Basics, DraftsExist
    <3>2. x.kind \in Deciding => x.order \in Known
      BY <2>2 DEF Sent, Basics, DraftsExist
    <3>. QED
      BY <1>2, <2>2, <3>1, <3>2 DEF Sent
  <2>3. ASSUME NEW c \in calls, Moves(c, x)
        PROVE  /\ x.kind \in Drafting =>
                    /\ x.store # None
                    /\ x.stage = "sent" => x.id \notin Known'
                    /\ x.stage = "served" => x.id \in Known' /\ orders'[x.id].store = x.store
               /\ x.kind \in Deciding => x.order \in Known'
               /\ x.found \subseteq Known'
    <3>1. SameCall(c, x)
      BY <2>3 DEF Moves
    <3>2. x.kind \in Deciding => x.order \in Known'
      BY <1>2, <3>1 DEF SameCall, Basics, DraftsExist
    <3>3. x.found \subseteq Known'
      BY <1>2, <2>3 DEF Moves, Basics, DraftsExist, Pending
    <3>4. ASSUME x.kind \in Drafting, x.stage = "sent"
          PROVE  x.id \notin Known'
      <4>1. orders' = orders /\ x.stage = c.stage
        BY <2>3, <3>4 DEF Moves
      <4>. QED
        BY <3>1, <3>4, <4>1 DEF SameCall, Basics, DraftsExist, Known
    <3>5. ASSUME x.kind \in Drafting, x.stage = "served"
          PROVE  x.id \in Known' /\ orders'[x.id].store = x.store
      <4>1. Commit(c)
        BY <2>3, <3>1, <3>5 DEF Moves, ReadQueue, SameCall, Drafting
      <4>2. orders'[c.id] = NewDraft(c.store) /\ c.store # None /\ c.id \in Drafts
        BY <1>3, <1>5, <3>1, <3>5, <4>1, CommitFields, RowFields DEF SameCall
      <4>3. orders'[c.id].store = c.store
        BY <4>2 DEF NewDraft
      <4>. QED
        BY <3>1, <4>2, <4>3 DEF SameCall, Known
    <3>. QED
      BY <3>1, <3>2, <3>3, <3>4, <3>5 DEF SameCall, Basics, DraftsExist
  <2>. QED
    BY <1>1, <2>1, <2>2, <2>3 DEF CallsForms
<1>8. draft'.id # 0 => draft'.id \in Known'
  BY <1>2, NamesStep DEF Basics, DraftsExist
<1>9. board'.queue \subseteq Known'
  BY <1>2, NamesStep DEF Basics, DraftsExist
<1>. QED
  BY <1>6, <1>7, <1>8, <1>9 DEF DraftsExist

\* A request answered with an approval or a submission did approve or submit.
LEMMA RecordsStep == ASSUME Basics, [Next]_vars PROVE RecordsKept'
<1>1. \A d \in Known : /\ d \in Known'
                       /\ orders[d].approved => orders'[d].approved
                       /\ orders[d].ordered => orders'[d].ordered
  BY OrdersStep
<1>3. \A c \in calls : c.kind \in Deciding => c.order \in Known
  BY DEF Basics, DraftsExist
<1>4. \A d \in Drafts :
        /\ orders'[d].status \in {"APPROVED", "SUBMITTED_SANDBOX"} => orders'[d].approved
        /\ orders'[d].status = "SUBMITTED_SANDBOX" => orders'[d].ordered
  BY OrdersStep
<1>5. approval' # 0 => approval' \in Known' /\ orders'[approval'].approved
  BY <1>1, <1>3, NamesStep DEF Basics, RecordsKept, Deciding, Approving
<1>6. submission' # 0 => submission' \in Known' /\ orders'[submission'].ordered
  BY <1>1, <1>3, NamesStep DEF Basics, RecordsKept, Deciding
<1>7. ASSUME NEW x \in calls'
      PROVE  /\ x.kind \in Approving /\ x.stage = "served" => orders'[x.order].approved
             /\ x.kind = "submit" /\ x.stage \in {"loaded", "served"} => orders'[x.order].approved
             /\ x.kind = "submit" /\ x.stage = "served" => orders'[x.order].ordered
  <2> SUFFICES ASSUME x.kind \in Deciding
               PROVE  /\ x.kind \in Approving /\ x.stage = "served" => orders'[x.order].approved
                      /\ x.kind = "submit" /\ x.stage \in {"loaded", "served"} =>
                           orders'[x.order].approved
                      /\ x.kind = "submit" /\ x.stage = "served" => orders'[x.order].ordered
    BY DEF Deciding
  <2>1. CASE x \in calls
    BY <1>3, <2>1, OrdersStep DEF Basics, RecordsKept
  <2>2. CASE Sent(x)
    BY <2>2 DEF Sent
  <2>3. ASSUME NEW c \in calls, Moves(c, x)
        PROVE  /\ x.kind \in Approving /\ x.stage = "served" => orders'[x.order].approved
               /\ x.kind = "submit" /\ x.stage \in {"loaded", "served"} =>
                    orders'[x.order].approved
               /\ x.kind = "submit" /\ x.stage = "served" => orders'[x.order].ordered
    <3>1. x.kind = c.kind /\ x.order = c.order /\ c.order \in Known /\ c.order \in Drafts
      BY <1>3, <2>3 DEF Moves, SameCall, Known
    <3>2. CASE Commit(c)
      <4>1. /\ orders'[c.order] = Row(c)
            /\ c.kind \in Approving => Row(c).approved
            /\ c.kind = "submit" => Row(c).approved /\ Row(c).ordered
        BY <3>1, <3>2, CommitFields, RowFields
      <4>. QED
        BY <3>1, <4>1
    <3>3. CASE ~Commit(c)
      <4>1. x.stage # "served"
        BY <2>3, <3>1, <3>3 DEF Moves, ReadQueue, Deciding, Approving, Basics, StagesFit
      <4>2. x.kind = "submit" /\ x.stage = "loaded" => orders[c.order].approved
        BY <2>3, <3>1, <3>3 DEF Moves, Basics, RecordsKept
      <4>. QED
        BY <3>1, <4>1, <4>2, OrdersStep DEF Approving
    <3>. QED
      BY <3>2, <3>3
  <2>. QED
    BY <2>1, <2>2, <2>3, CallsStep DEF CallsForms
<1>. QED
  BY <1>4, <1>5, <1>6, <1>7 DEF RecordsKept

\* All of it.
LEMMA BasicsStep == ASSUME Basics, [Next]_vars PROVE Basics'
BY TypeStep, CallsStep, StagesStep, ExistStep, RecordsStep DEF Basics, CallsForms

\* It holds of the page that opens.
LEMMA BasicsInit == Init => Basics
<1> SUFFICES ASSUME Init
             PROVE  Basics
  OBVIOUS
<1> DEFINE c == NewCall(1, "visits", None, None, 0)
<1>1. /\ c \in Call /\ c.id = 1 /\ c.kind = "visits" /\ c.stage = "sent" /\ ~c.gone
      /\ c.found = {}
  BY ConstantsTyped DEF NewCall, Call, Ids, Kinds, Reads, StoreOrNone
<1>2. calls = {c} /\ next = 2 /\ draft.id = 0 /\ board.queue = {}
  BY Blank DEF Init
<1> HIDE DEF c
<1>3. NewDraft(None) \in OrderRow /\ NewDraft(None).store = None /\ NewDraft(None).status = "DRAFT"
  BY Blank DEF NewDraft, OrderRow, Status
<1>4. orders \in [Drafts -> OrderRow] /\ \A d \in Drafts : orders[d] = NewDraft(None)
  BY <1>3 DEF Init
<1>5. TypeOK
  <2>1. next \in 1..(MaxCalls + 1) /\ 0 \in 0..MaxCalls /\ 0 \in 0..MaxOthers
    BY <1>2, ConstantsTyped
  <2>. QED
    BY <1>1, <1>2, <1>4, <2>1, Blank DEF Init, TypeOK, OrderRow
<1>6. CallsNumbered /\ StagesFit
  BY <1>1, <1>2 DEF CallsNumbered, StagesFit
<1>7. DraftsExist
  BY <1>1, <1>2, <1>3, <1>4 DEF DraftsExist, Known, Drafting, Deciding, Approving, Drafts
<1>8. RecordsKept
  BY <1>1, <1>2, <1>3, <1>4 DEF RecordsKept, Approving, Init
<1>. QED
  BY <1>5, <1>6, <1>7, <1>8 DEF Basics

--------------------------------------------------------------------------------
(* Loads of the store *)

\* The loads under way.
StoreLoads == {c \in calls : c.kind = "store"}

\* The page shows the store it highlights, or says why not.
Follows == error \/ dismissed \/ stale \/ shown = selected

\* A step that leaves the loads and the stores of the page alone.
LEMMA LoadsKept ==
  ASSUME Basics, LoadsFollow, [Next]_vars, StoreLoads' = StoreLoads,
         UNCHANGED <<selected, shown, loadNotes>>,
         role' = "rep" /\ ~error' /\ ~dismissed' => role = "rep" /\ ~error /\ ~dismissed,
         role' = "rep" => role = "rep"
  PROVE  LoadsFollow'
<1>1. lastLoad \in Nat /\ next \in Nat /\ next' \in Nat /\ next <= next' /\ lastLoad < next
  BY NumbersBelow, CallsStep DEF CallsForms, Basics, TypeOK, LoadsFollow
<1>2. lastLoad' < next'
  BY <1>1 DEF loadNotes
<1>. QED
  BY <1>2 DEF LoadsFollow, StoreLoads, loadNotes

\* A step that sends a load of the store it selects, numbered after the others.
LEMMA LoadSent ==
  ASSUME Basics, LoadsFollow, [Next]_vars, NEW w, w \in calls', w.kind = "store",
         w.stage = "sent", w.store = selected', w.id \in next..(next' - 1),
         \A e \in calls' : e.kind = "store" =>
            e = w \/ \E c \in calls : c.id = e.id,
         lastLoad' = lastLoad, next < next'
  PROVE  LoadsFollow'
<1>1. lastLoad \in Nat /\ next \in Nat /\ next' \in Nat /\ lastLoad < next
  BY NumbersBelow, CallsStep DEF CallsForms, Basics, TypeOK, LoadsFollow
<1>2. \A c \in calls : c.id \in Nat /\ c.id < next
  BY NumbersBelow DEF Basics
<1>3. \A e \in calls' : e.kind = "store" => e.id <= w.id
  BY <1>1, <1>2
<1>. QED
  BY <1>1, <1>3 DEF LoadsFollow

\* A load is shown, is written to the cache or ends.
LEMMA LoadEnded ==
  ASSUME Basics, LoadsFollow, NEW c \in calls, c.kind = "store",
         UNCHANGED <<role, selected, next>>,
         \A e \in calls' : e.kind = "store" =>
           \/ e \in calls /\ e # c
           \/ e.id = c.id /\ e.store = c.store /\ e.stage = "caching" /\ c.stage = "sent",
         \A e \in calls : e # c => e \in calls',
         \/ lastLoad' = (IF c.id > lastLoad THEN c.id ELSE lastLoad)
         \/ lastLoad' = lastLoad /\ c.stage = "caching",
         c.stage = "sent" /\ c.store = selected /\ c.id > lastLoad => Follows',
         (c.id < lastLoad \/ c.store = selected) /\ c.id <= lastLoad /\ Follows => Follows'
  PROVE  LoadsFollow'
<1>1. lastLoad \in Nat /\ next \in Nat /\ lastLoad < next
  BY NumbersBelow DEF Basics, TypeOK, LoadsFollow
<1>2. \A e \in calls : e.id \in Nat /\ e.id < next /\ (e.id = c.id => e = c)
  BY NumbersBelow DEF CallsNumbered, Basics
<1>3. lastLoad' < next' /\ lastLoad' \in Nat
  BY <1>1, <1>2
<1>4. ASSUME role' = "rep", selected' # None
      PROVE  \/ \E n \in StoreLoads' : /\ n.stage = "sent" /\ n.store = selected'
                                       /\ n.id > lastLoad'
                                       /\ \A e \in StoreLoads' : e.id <= n.id
             \/ /\ \A e \in StoreLoads' :
                     /\ e.id <= lastLoad'
                     /\ e.id = lastLoad' => e.stage = "caching" /\ e.store = selected'
                /\ Follows'
  <2>1. /\ \A e \in StoreLoads' :
             \/ e \in StoreLoads /\ e # c
             \/ e.id = c.id /\ e.store = c.store /\ e.stage = "caching" /\ c.stage = "sent"
        /\ \A e \in StoreLoads : e # c => e \in StoreLoads'
        /\ c \in StoreLoads /\ \A e \in StoreLoads : e \in calls
    BY DEF StoreLoads
  <2>2. CASE \E n \in StoreLoads : /\ n.stage = "sent" /\ n.store = selected /\ n.id > lastLoad
                                   /\ \A e \in StoreLoads : e.id <= n.id
    <3>1. PICK n \in StoreLoads : /\ n.stage = "sent" /\ n.store = selected /\ n.id > lastLoad
                                  /\ \A e \in StoreLoads : e.id <= n.id
      BY <2>2
    <3>2. CASE n = c
      <4>1. lastLoad' = c.id /\ Follows'
        BY <1>1, <1>2, <3>1, <3>2
      <4>2. \A e \in StoreLoads' :
              /\ e.id <= lastLoad'
              /\ e.id = lastLoad' => e.stage = "caching" /\ e.store = selected'
        BY <1>2, <2>1, <3>1, <3>2, <4>1
      <4>. QED
        BY <4>1, <4>2
    <3>3. CASE n # c
      <4>1. n \in StoreLoads' /\ n.store = selected'
        BY <2>1, <3>1, <3>3
      <4>2. n.id \in Nat /\ c.id \in Nat /\ c.id < n.id /\ n.id > lastLoad'
        BY <1>1, <1>2, <2>1, <3>1, <3>3
      <4>3. \A e \in StoreLoads' : e.id <= n.id
        BY <2>1, <3>1, <4>2
      <4>. QED
        BY <3>1, <4>1, <4>2, <4>3
    <3>. QED
      BY <3>2, <3>3
  <2>3. CASE /\ \A e \in StoreLoads :
                  /\ e.id <= lastLoad
                  /\ e.id = lastLoad => e.stage = "caching" /\ e.store = selected
             /\ Follows
    <3>1. c.id \in Nat /\ c.id <= lastLoad /\ lastLoad' = lastLoad
          /\ (c.id = lastLoad => c.stage = "caching" /\ c.store = selected)
      BY <1>1, <1>2, <2>1, <2>3
    <3>2. Follows'
      BY <1>1, <2>3, <3>1
    <3>3. \A e \in StoreLoads' :
            /\ e.id <= lastLoad'
            /\ e.id = lastLoad' => e.stage = "caching" /\ e.store = selected'
      BY <1>2, <2>1, <2>3, <3>1
    <3>. QED
      BY <3>2, <3>3
  <2>. QED
    BY <1>4, <2>2, <2>3 DEF LoadsFollow, StoreLoads, Follows
<1>. QED
  BY <1>3, <1>4 DEF LoadsFollow, StoreLoads, Follows

\* Requests of other kinds come and go.
LEMMA OtherCalls ==
  ASSUME Basics, NEW c \in calls, c.kind # "store"
  PROVE  /\ calls' = calls \ {c} => StoreLoads' = StoreLoads
         /\ \A t \in Stages : calls' = At(c, t) => StoreLoads' = StoreLoads
         /\ GiveUp(c) \/ Backend(c) => StoreLoads' = StoreLoads
<1>1. c \in Call
  BY DEF Basics, TypeOK
<1>2. calls' = calls \ {c} => StoreLoads' = StoreLoads
  BY DEF StoreLoads
<1>3. ASSUME NEW e, SameCall(c, e), calls' = (calls \ {c}) \cup {e}
      PROVE  StoreLoads' = StoreLoads
  BY <1>3 DEF SameCall, StoreLoads
<1>4. ASSUME NEW t \in Stages, calls' = At(c, t)
      PROVE  StoreLoads' = StoreLoads
  BY <1>1, <1>3, <1>4, CallMoved DEF At
<1>5. ASSUME calls' = (calls \ {c}) \cup {[c EXCEPT !.gone = TRUE]}
      PROVE  StoreLoads' = StoreLoads
  BY <1>1, <1>3, <1>5, CallMoved
<1>6. GiveUp(c) => StoreLoads' = StoreLoads
  BY <1>2, <1>5 DEF GiveUp, Done
<1>7. Load(c) \/ Commit(c) \/ Vanish(c) => StoreLoads' = StoreLoads
  BY <1>2, <1>4 DEF Load, Commit, Vanish, Done, Move, Stages
<1>8. ReadQueue(c) => StoreLoads' = StoreLoads
  <2>1. Pending \in SUBSET Drafts
    BY DEF Pending, Known
  <2>2. PICK e \in Call :
           e = [c EXCEPT !.stage = "served", !.found = Pending] /\ SameCall(c, e)
    BY <1>1, <2>1, CallMoved
  <2>3. ReadQueue(c) => calls' = (calls \ {c}) \cup {e}
    BY <2>2 DEF ReadQueue
  <2>. QED
    BY <1>3, <2>2, <2>3
<1>. QED
  BY <1>2, <1>4, <1>6, <1>7, <1>8 DEF Backend

\* The store highlighted is that of the newest load, or of the page.
LEMMA LoadsStep == ASSUME Basics, LoadsFollow, [Next]_vars PROVE LoadsFollow'
<1> USE DEF shell, panel, agent, history, loadNotes, Frontend
<1>1. next \in Nat /\ lastLoad \in Nat /\ lastLoad < next
      /\ next' \in Nat /\ next <= next'
  BY NumbersBelow, CallsStep DEF CallsForms, Basics, TypeOK, LoadsFollow
<1>2. ASSUME StoreLoads' = StoreLoads, UNCHANGED <<role, selected, shown, error, dismissed, loadNotes>>
      PROVE  LoadsFollow'
  BY <1>2, LoadsKept
<1>3. ASSUME NEW s, NEW rest, ChangeSelection(s, rest),
             \A e \in rest : e \in calls \/ (e.kind # "store" /\ \E c \in calls : c.id = e.id),
             {e \in rest : e.kind = "store"} = StoreLoads,
             UNCHANGED <<role, shown, error, dismissed, loadNotes>>
      PROVE  LoadsFollow'
  <2>1. CASE s # selected /\ role = "rep"
    <3> DEFINE w == LoadStore(s, next)
    <3>1. calls' = rest \cup {w} /\ next' = next + 1 /\ selected' = s
      BY <1>3, <2>1 DEF ChangeSelection, Send
    <3>2. w.kind = "store" /\ w.store = s /\ w.id = next /\ w.stage = "sent"
      BY DEF LoadStore, NewCall
    <3> HIDE DEF w
    <3>3. \A e \in calls' : e = w \/ \E c \in calls : c.id = e.id
      BY <1>3, <3>1
    <3>. QED
      BY <1>1, <1>3, <3>1, <3>2, <3>3, LoadSent
  <2>2. CASE ~(s # selected /\ role = "rep")
    <3>1. calls' = rest /\ next' = next /\ selected' = s
      BY <1>3, <2>2 DEF ChangeSelection
    <3>2. StoreLoads' = StoreLoads
      BY <1>3, <3>1 DEF StoreLoads
    <3>3. CASE s = selected
      BY <1>2, <1>3, <3>1, <3>2, <3>3
    <3>4. CASE role # "rep"
      BY <1>1, <1>3, <3>1, <3>4 DEF LoadsFollow
    <3>. QED
      BY <2>2, <3>3, <3>4
  <2>. QED
    BY <2>1, <2>2
<1>4. ASSUME NEW r, NEW s, SwitchTo(r, s)
      PROVE  LoadsFollow'
  <2>1. role' = r /\ selected' = s /\ lastLoad' = lastLoad
    BY <1>4 DEF SwitchTo
  <2>2. CASE r = "manager" \/ s = None
    <3>1. ~(role' = "rep" /\ selected' # None) /\ lastLoad' < next'
      BY <1>1, <2>1, <2>2
    <3>. QED
      BY <3>1 DEF LoadsFollow
  <2>3. CASE ~(r = "manager" \/ s = None)
    <3> DEFINE v == NewCall(next, "visits", None, None, 0)
               w == LoadStore(s, next + 1)
    <3>1. calls' = calls \cup {v, w} /\ next' = next + 2
      BY <1>4, <2>3 DEF SwitchTo
    <3>2. /\ w.kind = "store" /\ w.store = s /\ w.id = next + 1 /\ w.stage = "sent"
          /\ v.kind = "visits"
      BY DEF LoadStore, NewCall
    <3> HIDE DEF v, w
    <3>3. \A e \in calls' : e.kind = "store" => e = w \/ \E c \in calls : c.id = e.id
      BY <3>1, <3>2
    <3>. QED
      BY <1>1, <2>1, <3>1, <3>2, <3>3, LoadSent
  <2>. QED
    BY <2>2, <2>3
<1>5. ASSUME NEW rest, NEW kind, NEW store, NEW alerts, NEW order, kind # "store",
             Send(rest, NewCall(next, kind, store, alerts, order)),
             {e \in rest : e.kind = "store"} = StoreLoads,
             UNCHANGED <<role, selected, shown, error, dismissed, loadNotes>>
      PROVE  LoadsFollow'
  <2>1. NewCall(next, kind, store, alerts, order).kind # "store"
    BY <1>5 DEF NewCall
  <2>2. StoreLoads' = StoreLoads
    BY <1>5, <2>1 DEF Send, StoreLoads
  <2>. QED
    BY <1>2, <1>5, <2>2
<1>6. StoreLoads = {e \in calls : e.kind = "store"}
  BY DEF StoreLoads
<1>7. ASSUME NEW kind, NEW store, NEW alerts, NEW order, kind # "store",
             TapInPane(NewCall(next, kind, store, alerts, order))
      PROVE  LoadsFollow'
  BY <1>5, <1>6, <1>7 DEF TapInPane
<1>8. ASSUME NEW s \in Stores, SelectStore(s) \/ OpenManagerStore(s)
      PROVE  LoadsFollow'
  BY <1>3, <1>4, <1>6, <1>8 DEF SelectStore, OpenManagerStore
<1>9. ASSUME NEW r, SwitchRole(r)
      PROVE  LoadsFollow'
  BY <1>4, <1>9 DEF SwitchRole
<1>10. CASE RepickRole
  <2>1. StoreLoads' = StoreLoads /\ UNCHANGED <<role, selected, shown, loadNotes>>
    BY <1>10 DEF RepickRole, StoreLoads
  <2>2. role' = "rep" /\ ~error' /\ ~dismissed' => ~error /\ ~dismissed
    BY <1>10 DEF RepickRole
  <2>. QED
    BY <2>1, <2>2, LoadsKept
<1>11. ASSUME NEW d, ApproveQueued(d)
       PROVE  LoadsFollow'
  BY <1>5, <1>6, <1>11 DEF ApproveQueued
<1>12. CASE DraftTopAlert \/ ApproveDraft \/ SubmitSandbox \/ Summarize
  BY <1>7, <1>12 DEF DraftTopAlert, ApproveDraft, SubmitSandbox, Summarize
<1>13. ASSUME NEW kind \in Streams, RunAgent(kind)
       PROVE  LoadsFollow'
  BY <1>7, <1>13 DEF RunAgent, Streams
<1>14. CASE Reload
  <2>1. selected' = None /\ lastLoad' = lastLoad
    BY <1>14 DEF Reload
  <2>. QED
    BY <1>1, <2>1 DEF LoadsFollow
<1>15. ASSUME NEW c \in calls, VisitsAnswered(c)
       PROVE  LoadsFollow'
  <2>1. c \in Call /\ c.kind = "visits" /\ c.stage = "sent"
    BY <1>15 DEF VisitsAnswered, Basics, TypeOK
  <2>2. PICK e \in Call : e = [c EXCEPT !.stage = "caching"] /\ SameCall(c, e)
    BY <2>1, CallMoved DEF Stages
  <2>3. ChangeSelection(Route[1], (calls \ {c}) \cup {e})
        /\ UNCHANGED <<role, shown, error, dismissed, loadNotes>>
    BY <1>15, <2>2 DEF VisitsAnswered, VisitsShown, At
  <2>4. e.kind # "store" /\ e.id = c.id
    BY <2>1, <2>2 DEF SameCall
  <2> DEFINE rest == (calls \ {c}) \cup {e}
  <2>5. {x \in rest : x.kind = "store"} = StoreLoads
    BY <2>1, <2>4 DEF StoreLoads
  <2>6. \A x \in rest : x \in calls \/ (x.kind # "store" /\ \E y \in calls : y.id = x.id)
    BY <2>4
  <2> HIDE DEF rest
  <2>7. ChangeSelection(Route[1], rest)
    BY <2>3 DEF rest
  <2>. QED
    BY <1>3, <2>3, <2>5, <2>6, <2>7
<1>16. ASSUME NEW c \in calls, VisitsFromCache(c)
       PROVE  LoadsFollow'
  <2> DEFINE rest == calls \ {c}
  <2>1. ChangeSelection(Route[1], rest) /\ UNCHANGED <<role, shown, error, dismissed, loadNotes>>
    BY <1>16 DEF VisitsFromCache, VisitsShown
  <2>2. {x \in rest : x.kind = "store"} = StoreLoads
    BY <1>16 DEF StoreLoads, VisitsFromCache
  <2>3. \A x \in rest : x \in calls
    OBVIOUS
  <2> HIDE DEF rest
  <2>. QED
    BY <1>3, <2>1, <2>2, <2>3
<1>17. ASSUME NEW c \in calls, StoreAnswered(c)
       PROVE  LoadsFollow'
  <2>1. c \in Call /\ c.kind = "store" /\ c.stage = "sent"
    BY <1>17 DEF StoreAnswered, Basics, TypeOK
  <2>2. PICK e \in Call : /\ e = [c EXCEPT !.stage = "caching"] /\ SameCall(c, e)
                          /\ e.stage = "caching"
    BY <2>1, CallMoved DEF Stages
  <2>3. calls' = (calls \ {c}) \cup {e} /\ next' = next /\ StoreShown(c)
    BY <1>17, <2>2 DEF StoreAnswered, Move, At
  <2>4. /\ UNCHANGED <<role, selected, next>> /\ shown' = c.store
        /\ lastLoad' = (IF c.id > lastLoad THEN c.id ELSE lastLoad)
        /\ stale' = (c.id < lastLoad)
    BY <2>3 DEF StoreShown, Note
  <2>5. \A x \in calls' : \/ x \in calls /\ x # c
                          \/ /\ x.id = c.id /\ x.store = c.store
                             /\ x.stage = "caching" /\ c.stage = "sent"
    <3>1. e.id = c.id /\ e.store = c.store /\ e.stage = "caching"
      BY <2>2 DEF SameCall
    <3>2. \A x \in calls' : x = e \/ (x \in calls /\ x # c)
      BY <2>3
    <3>. QED
      BY <2>1, <3>1, <3>2
  <2>6. c.store = selected \/ c.id < lastLoad => Follows'
    BY <2>4 DEF Follows
  <2>. QED
    BY <2>1, <2>3, <2>4, <2>5, <2>6, LoadEnded
<1>18. ASSUME NEW c \in calls, c.kind = "store",
              StoreFromCache(c) \/ Cached(c) \/ LoadFailed(c) \/ LoadLost(c)
       PROVE  LoadsFollow'
  <2>1. calls' = calls \ {c} /\ UNCHANGED <<role, selected, next, dismissed>>
    BY <1>18 DEF StoreFromCache, StoreShown, Cached, LoadFailed, LoadLost, CatchLoad, Done
  <2>2. c.stage \in {"sent", "caching"}
    <3>1. c.stage \in Stages
      BY CallFields DEF Basics, TypeOK
    <3>. QED
      BY <1>18, <3>1 DEF Basics, StagesFit, Stages, Streams, Drafting, Deciding, Approving
  <2>3. CASE StoreFromCache(c)
    <3>1. /\ shown' = c.store /\ stale' = (c.id < lastLoad)
          /\ lastLoad' = (IF c.id > lastLoad THEN c.id ELSE lastLoad)
      BY <2>3 DEF StoreFromCache, StoreShown, Note
    <3>2. c.store = selected \/ c.id < lastLoad => Follows'
      BY <2>1, <3>1 DEF Follows
    <3>. QED
      BY <1>18, <2>1, <3>1, <3>2, LoadEnded
  <2>4. CASE Cached(c)
    <3>1. lastLoad' = lastLoad /\ c.stage = "caching" /\ (Follows => Follows')
      BY <2>4 DEF Cached, Follows
    <3>. QED
      BY <1>18, <2>1, <3>1, LoadEnded
  <2>5. CASE LoadFailed(c)
    <3>1. lastLoad' = (IF c.id > lastLoad THEN c.id ELSE lastLoad) /\ Follows'
      BY <1>18, <2>5 DEF LoadFailed, Note, Follows
    <3>. QED
      BY <1>18, <2>1, <3>1, LoadEnded
  <2>6. CASE LoadLost(c)
    <3>1. UNCHANGED <<shown, error>>
      BY <2>6 DEF LoadLost, CatchLoad
    <3>2. CASE c.stage = "sent"
      <4>1. /\ lastLoad' = (IF c.id > lastLoad THEN c.id ELSE lastLoad)
            /\ stale' = (stale \/ c.id > lastLoad)
        BY <1>18, <2>6, <3>2 DEF LoadLost, Note
      <4>2. (c.id > lastLoad => Follows') /\ (Follows => Follows')
        BY <2>1, <3>1, <4>1 DEF Follows
      <4>. QED
        BY <1>18, <2>1, <4>1, <4>2, LoadEnded
    <3>3. CASE c.stage = "caching"
      <4>1. lastLoad' = lastLoad /\ (Follows => Follows')
        BY <2>1, <2>6, <3>1, <3>3 DEF LoadLost, Follows
      <4>. QED
        BY <1>18, <2>1, <3>3, <4>1, LoadEnded
    <3>. QED
      BY <2>2, <3>2, <3>3
  <2>. QED
    BY <1>18, <2>3, <2>4, <2>5, <2>6
<1>19. ASSUME NEW c \in calls, c.kind # "store", Cached(c) \/ LoadFailed(c) \/ LoadLost(c)
       PROVE  LoadsFollow'
  <2>1. StoreLoads' = StoreLoads
    BY <1>19, OtherCalls DEF Cached, LoadFailed, LoadLost, CatchLoad, Done
  <2>2. UNCHANGED <<role, selected, shown, dismissed, loadNotes>>
    BY <1>19 DEF Cached, LoadFailed, LoadLost, CatchLoad
  <2>3. error' = error \/ error' = TRUE
    BY <1>19 DEF Cached, LoadFailed, LoadLost, CatchLoad
  <2>. QED
    BY <2>1, <2>2, <2>3, LoadsKept
<1>20. ASSUME NEW c \in calls, QueuedApproved(c)
       PROVE  LoadsFollow'
  <2>1. {e \in calls \ {c} : e.kind = "store"} = StoreLoads
    BY <1>20 DEF StoreLoads, QueuedApproved
  <2> DEFINE rest == calls \ {c}
  <2>2. Send(rest, NewCall(next, "queue", None, None, 0))
        /\ UNCHANGED <<role, selected, shown, error, dismissed, loadNotes>>
    BY <1>20 DEF QueuedApproved
  <2>3. {e \in rest : e.kind = "store"} = StoreLoads
    BY <2>1
  <2> HIDE DEF rest
  <2>. QED
    BY <1>5, <2>2, <2>3
<1>21. ASSUME NEW c \in calls, BoardFailed(c)
       PROVE  LoadsFollow'
  <2>1. StoreLoads' = StoreLoads
    BY <1>21, OtherCalls DEF BoardFailed, Done
  <2>. QED
    BY <1>21, <2>1, LoadsKept DEF BoardFailed
<1>22. ASSUME NEW c \in calls, \/ BoardAnswered(c) \/ QueueAnswered(c) \/ DraftCreated(c)
                               \/ DraftApproved(c) \/ DraftSubmitted(c) \/ Summarized(c)
                               \/ StreamAudit(c)
       PROVE  LoadsFollow'
  <2>1. Done(c) /\ c.kind # "store"
    BY <1>22 DEF BoardAnswered, QueueAnswered, DraftCreated, DraftApproved, DraftSubmitted,
                 Answered, Summarized, StreamAudit, Basics, StagesFit, Streams
  <2>2. UNCHANGED <<role, selected, shown, error, dismissed, loadNotes>>
    BY <1>22 DEF BoardAnswered, QueueAnswered, DraftCreated, DraftApproved, DraftSubmitted,
                 Answered, Summarized, StreamAudit
  <2>. QED
    BY <1>2, <2>1, <2>2, OtherCalls DEF Done
<1>23. ASSUME NEW c \in calls, FailedUnreported(c) \/ StreamBreaks(c)
       PROVE  LoadsFollow'
  <2>1. GiveUp(c) /\ c.kind # "store"
        /\ UNCHANGED <<role, selected, shown, error, dismissed, loadNotes>>
    BY <1>23 DEF FailedUnreported, StreamBreaks, Writes, Streams
  <2>. QED
    BY <1>2, <2>1, OtherCalls
<1>24. ASSUME NEW c \in calls, StreamMessage(c) \/ StreamAction(c)
       PROVE  LoadsFollow'
  <2>1. c.kind # "store" /\ calls' = At(c, "told") /\ "told" \in Stages
        /\ UNCHANGED <<role, selected, shown, error, dismissed, loadNotes>>
    BY <1>24 DEF StreamMessage, StreamAction, Move, Stages
  <2>. QED
    BY <1>2, <2>1, OtherCalls
<1>25. ASSUME NEW c \in calls, Backend(c)
       PROVE  LoadsFollow'
  <2>1. c.kind # "store"
    <3>1. Commit(c) => c.kind \in Drafting \cup Deciding
      BY CommitFields
    <3>. QED
      BY <1>25, <3>1 DEF Backend, Load, Vanish, ReadQueue, Basics, StagesFit, Drafting, Deciding,
                         Approving
  <2>2. UNCHANGED <<role, selected, shown, error, dismissed, loadNotes>>
    BY <1>25 DEF Backend, Load, Commit, Vanish, ReadQueue
  <2>. QED
    BY <1>2, <1>25, <2>1, <2>2, OtherCalls
<1>26. CASE Elsewhere
  <2>1. calls' = calls /\ UNCHANGED <<role, selected, shown, error, dismissed, loadNotes>>
    BY <1>26 DEF Elsewhere, DraftedElsewhere, DecidedElsewhere
  <2>2. StoreLoads' = StoreLoads
    BY <2>1 DEF StoreLoads
  <2>. QED
    BY <1>2, <2>1, <2>2
<1>27. CASE UNCHANGED vars
  <2>1. StoreLoads' = StoreLoads
    BY <1>27 DEF vars, StoreLoads
  <2>. QED
    BY <1>2, <1>27, <2>1 DEF vars
<1>. QED
  BY <1>8, <1>9, <1>10, <1>11, <1>12, <1>13, <1>14, <1>15, <1>16, <1>17, <1>18, <1>19, <1>20,
     <1>21, <1>22, <1>23, <1>24, <1>25, <1>26, <1>27
     DEF Next, User, Network, Ends, StoreFromCache

--------------------------------------------------------------------------------
(* A user who waits *)

Waits == PatientWaits /\ PanelOfStore /\ DraftInStep /\ QueueInStep

\* Whether the user waits is fixed.
LEMMA PatientFixed == [Next]_vars => patient' = patient
<1> USE DEF history, Frontend
<1>1. User => patient' = patient
  BY DEF User, SelectStore, OpenManagerStore, SwitchRole, SwitchTo, RepickRole, ApproveQueued,
     DraftTopAlert, ApproveDraft, SubmitSandbox, Summarize, RunAgent, TapInPane, Reload
<1>2. ASSUME NEW c \in calls, Ends(c)
      PROVE  patient' = patient
  BY <1>2 DEF Ends, VisitsAnswered, VisitsFromCache, VisitsShown, StoreAnswered, StoreFromCache,
     StoreShown, Cached, LoadFailed, LoadLost, CatchLoad, BoardAnswered, BoardFailed,
     QueuedApproved, QueueAnswered, DraftCreated, DraftApproved, DraftSubmitted, Answered,
     Summarized, FailedUnreported, StreamMessage, StreamAction, StreamAudit, StreamBreaks
<1>3. ASSUME NEW c \in calls, Backend(c)
      PROVE  patient' = patient
  BY <1>3 DEF Backend, Load, Commit, Vanish, ReadQueue
<1>4. Elsewhere \/ UNCHANGED vars => patient' = patient
  BY DEF Elsewhere, DraftedElsewhere, DecidedElsewhere, vars
<1>. QED
  BY <1>1, <1>2, <1>3, <1>4 DEF Next, Network

\* A patient user waits for nothing beside a request that is no load.
LEMMA OnlyOne ==
  ASSUME PatientWaits, patient, NEW c \in calls, c.kind \notin Loads, ~c.gone
  PROVE  /\ Awaited = {c} /\ (c.kind \in Managing <=> role = "manager")
         /\ calls' = calls \ {c} => Awaited' = {}
         /\ \A e : calls' = (calls \ {c}) \cup {e} => Awaited' = IF e.gone THEN {} ELSE {e}
<1>1. c \in Awaited
  BY DEF Awaited
<1>2. Awaited = {c} /\ (c.kind \in Managing <=> role = "manager")
  BY <1>1 DEF PatientWaits
<1>3. \A e \in calls : e # c => e.gone
  BY <1>2 DEF Awaited
<1>. QED
  BY <1>2, <1>3 DEF Awaited

\* And a tap of theirs leaves them waiting for what it sends.
LEMMA TapSends ==
  ASSUME Awaited = {}, NEW kind, NEW store, NEW alerts, NEW order,
         NEW w, w = NewCall(next, kind, store, alerts, order), Send(calls, w)
  PROVE  /\ Awaited' = {w} /\ w.kind = kind /\ w.store = store /\ w.alerts = alerts
         /\ w.order = order /\ w.stage = "sent"
<1>1. /\ w.kind = kind /\ w.store = store /\ w.alerts = alerts /\ w.order = order
      /\ w.stage = "sent" /\ w.gone = FALSE
  BY DEF NewCall
<1>2. calls' = calls \cup {w} /\ \A e \in calls : e.gone
  BY DEF Send, Awaited
<1>. QED
  BY <1>1, <1>2 DEF Awaited

\* A tap in the detail pane, by a rep who waits.
LEMMA PaneStep ==
  ASSUME Basics, Waits, patient, patient' = patient,
         NEW kind \in {"create", "approve", "submit", "summary"} \cup Streams,
         NEW store, NEW alerts, NEW order,
         TapInPane(NewCall(next, kind, store, alerts, order)), summary' = summary,
         kind \in Drafting => store = shown,
         kind \in {"summary", "runSummary"} => store = selected /\ alerts = shown,
         kind \in {"approve", "submit"} => order = draft.id
  PROVE  Waits'
<1> DEFINE w == NewCall(next, kind, store, alerts, order)
<1>1. Awaited = {} /\ Send(calls, w) /\ PaneOpen
      /\ UNCHANGED <<role, selected, shown, draft, summary, board, orders, touched>>
  BY DEF TapInPane, Tap, shell, panel, history
<1>2. /\ Awaited' = {w} /\ w.kind = kind /\ w.store = store /\ w.alerts = alerts
      /\ w.order = order /\ w.stage = "sent"
  BY <1>1, TapSends
<1> HIDE DEF w
<1>3. role = "rep" /\ selected # None
  BY <1>1, ConstantsTyped DEF PaneOpen
<1>4. kind \notin Loads \cup Managing
  BY DEF Loads, Managing, Streams
<1>5. PatientWaits'
  BY <1>1, <1>2, <1>3, <1>4 DEF PatientWaits
<1>6. PanelOfStore'
  BY <1>1, <1>2, <1>3, <1>4 DEF PanelOfStore, Waits
<1>7. DraftInStep'
  BY <1>1, <1>2, <1>3 DEF DraftInStep, Waits
<1>8. QueueInStep'
  BY <1>1, <1>3 DEF QueueInStep
<1>. QED
  BY <1>5, <1>6, <1>7, <1>8 DEF Waits

\* A change of role, by a user who waits.
LEMMA SwitchStep ==
  ASSUME Basics, Waits, patient, patient' = patient, Awaited = {},
         NEW r \in {"rep", "manager"}, NEW s \in StoreOrNone, SwitchTo(r, s),
         s = selected \/ (r = "rep" /\ s # None)
  PROVE  Waits'
<1>1. /\ role' = r /\ selected' = s /\ board'.loaded = FALSE
      /\ UNCHANGED <<orders, shown, touched>>
  BY Blank DEF SwitchTo
<1>2. CASE r = "manager"
  <2> DEFINE w == NewCall(next, "board", None, None, 0)
  <2>1. Send(calls, w) /\ draft' = draft /\ summary' = summary /\ s = selected
    BY <1>2 DEF SwitchTo, panel, agent
  <2>2. Awaited' = {w} /\ w.kind = "board" /\ w.stage = "sent"
    BY <2>1, TapSends
  <2> HIDE DEF w
  <2>3. "board" \in Managing /\ "board" \notin Loads \cup Drafting
    BY DEF Managing, Loads, Drafting
  <2>. QED
    BY <1>1, <1>2, <2>1, <2>2, <2>3
       DEF Waits, PatientWaits, PanelOfStore, DraftInStep, QueueInStep
<1>3. CASE r = "rep" /\ s = None
  <2> DEFINE w == NewCall(next, "visits", None, None, 0)
  <2>1. Send(calls, w) /\ draft' = draft /\ summary' = summary /\ selected = None
    BY <1>3 DEF SwitchTo, panel, agent
  <2>2. Awaited' = {w} /\ w.kind = "visits" /\ w.stage = "sent"
    BY <2>1, TapSends
  <2>3. draft.id = 0 /\ summary.id = 0
    BY <2>1 DEF Waits, PanelOfStore
  <2> HIDE DEF w
  <2>4. "visits" \notin Managing \cup Drafting /\ "visits" \in Loads
    BY DEF Managing, Loads, Drafting
  <2>. QED
    BY <1>1, <1>3, <2>1, <2>2, <2>3, <2>4
       DEF Waits, PatientWaits, PanelOfStore, DraftInStep, QueueInStep
<1>4. CASE r = "rep" /\ s # None
  <2> DEFINE v == NewCall(next, "visits", None, None, 0)
             w == LoadStore(s, next + 1)
  <2>1. calls' = calls \cup {v, w} /\ draft'.id = 0 /\ summary'.id = 0
    BY <1>4, Blank DEF SwitchTo, ClearPanel
  <2>2. v.kind = "visits" /\ w.kind = "store"
    BY DEF NewCall, LoadStore
  <2> HIDE DEF v, w
  <2>3. Awaited' \subseteq {v, w}
    BY <2>1 DEF Awaited
  <2>4. {"visits", "store"} \cap (Managing \cup Drafting) = {} /\ {"visits", "store"} \subseteq Loads
    BY DEF Managing, Loads, Drafting
  <2>. QED
    BY <1>1, <1>4, <2>1, <2>2, <2>3, <2>4
       DEF Waits, PatientWaits, PanelOfStore, DraftInStep, QueueInStep
<1>. QED
  BY <1>2, <1>3, <1>4

\* Every tap of a user who waits.
LEMMA TapStep == ASSUME Basics, Waits, patient, patient' = patient, User PROVE Waits'
<1> USE DEF shell, panel, agent, history
<1>1. selected \in StoreOrNone /\ role \in {"rep", "manager"} /\ (Tap => Awaited = {})
      /\ Stores \subseteq StoreOrNone
  BY Blank DEF Basics, TypeOK, Tap
<1>2. ASSUME NEW s \in Stores, SelectStore(s)
      PROVE  Waits'
  <2> DEFINE w == NewCall(next, "store", s, None, 0)
  <2>1. /\ Awaited = {} /\ Send(calls, w) /\ role = "rep" /\ role' = role
        /\ selected' = s /\ s # None /\ draft'.id = 0 /\ summary'.id = 0
    BY <1>1, <1>2, Blank, ConstantsTyped DEF SelectStore, ChangeSelection, ClearPanel, LoadStore
  <2>2. Awaited' = {w} /\ w.kind = "store"
    BY <2>1, TapSends
  <2> HIDE DEF w
  <2>3. "store" \notin Managing \cup Drafting /\ "store" \in Loads
    BY DEF Managing, Loads, Drafting
  <2>. QED
    BY <2>1, <2>2, <2>3 DEF Waits, PatientWaits, PanelOfStore, DraftInStep, QueueInStep
<1>3. ASSUME NEW s \in Stores, OpenManagerStore(s)
      PROVE  Waits'
  BY <1>1, <1>3, SwitchStep, ConstantsTyped DEF OpenManagerStore
<1>4. ASSUME NEW r \in {"rep", "manager"}, SwitchRole(r)
      PROVE  Waits'
  BY <1>1, <1>4, SwitchStep DEF SwitchRole
<1>5. CASE RepickRole
  <2>1. /\ UNCHANGED <<role, selected, shown, draft, summary, calls, orders, touched>>
        /\ Awaited = {} /\ board'.loaded = FALSE
    BY <1>1, <1>5, Blank DEF RepickRole
  <2>2. Awaited' = {}
    BY <2>1 DEF Awaited
  <2>. QED
    BY <2>1, <2>2 DEF Waits, PatientWaits, PanelOfStore, DraftInStep, QueueInStep
<1>6. ASSUME NEW d \in Drafts, ApproveQueued(d)
      PROVE  Waits'
  <2> DEFINE w == NewCall(next, "approveQueued", None, None, d)
  <2>1. /\ Awaited = {} /\ Send(calls, w) /\ role = "manager"
        /\ UNCHANGED <<role, selected, shown, draft, summary, board, orders, touched>>
    BY <1>1, <1>6 DEF ApproveQueued
  <2>2. Awaited' = {w} /\ w.kind = "approveQueued" /\ w.stage = "sent"
    BY <2>1, TapSends
  <2> HIDE DEF w
  <2>3. "approveQueued" \in Managing /\ "approveQueued" \notin Loads \cup Drafting
    BY DEF Managing, Loads, Drafting
  <2>4. Pending' = Pending
    BY <2>1 DEF Pending, Known
  <2>. QED
    BY <2>1, <2>2, <2>3, <2>4 DEF Waits, PatientWaits, PanelOfStore, DraftInStep, QueueInStep
<1>7. CASE DraftTopAlert \/ ApproveDraft \/ SubmitSandbox \/ Summarize
  BY <1>7, PaneStep DEF DraftTopAlert, ApproveDraft, SubmitSandbox, Summarize, Drafting
<1>8. ASSUME NEW kind \in Streams, RunAgent(kind)
      PROVE  Waits'
  <2>1. TapInPane(NewCall(next, kind, IF kind = "runDraft" THEN shown ELSE selected, shown, 0))
        /\ summary' = summary
    BY <1>8 DEF RunAgent
  <2>2. /\ kind \in Drafting => kind = "runDraft"
        /\ kind \notin {"approve", "submit", "summary"}
    BY DEF Drafting, Streams
  <2>. QED
    BY <2>1, <2>2, PaneStep
<1>9. CASE Reload
  <2> DEFINE first == IF role = "rep" THEN "visits" ELSE "board"
             w == NewCall(next, first, None, None, 0)
  <2>1. w.kind = first /\ w.stage = "sent"
    BY DEF NewCall
  <2>2. Awaited' \subseteq {w}
    <3>1. \A x \in calls : [x EXCEPT !.gone = TRUE].gone
      BY DEF Basics, TypeOK, Call
    <3>. QED
      BY <1>9, <3>1 DEF Reload, Send, Awaited
  <2>3. /\ role' = role /\ draft'.id = 0 /\ summary'.id = 0 /\ board'.loaded = FALSE
    BY <1>9, Blank DEF Reload
  <2> HIDE DEF w
  <2>4. /\ first \notin Drafting \cup {"approve", "submit", "queue"}
        /\ role = "rep" => first \in Loads \ Managing
        /\ role = "manager" => first \in Managing \ Loads
    BY DEF Managing, Loads, Drafting
  <2>5. \A c \in Awaited' : c = w
    BY <2>2
  <2>6. PatientWaits'
    BY <1>1, <2>1, <2>3, <2>4, <2>5, <2>2 DEF PatientWaits
  <2>7. PanelOfStore'
    BY <1>1, <2>1, <2>3, <2>4, <2>5 DEF PanelOfStore
  <2>8. DraftInStep' /\ QueueInStep'
    BY <2>1, <2>3, <2>4, <2>5 DEF DraftInStep, QueueInStep
  <2>. QED
    BY <2>6, <2>7, <2>8 DEF Waits
<1>. QED
  BY <1>2, <1>3, <1>4, <1>5, <1>6, <1>7, <1>8, <1>9 DEF User


\* A load of a user who waits is answered, comes from the cache or fails.
LEMMA LoadStep ==
  ASSUME Basics, Waits, patient, patient' = patient, NEW c \in calls,
         \/ VisitsAnswered(c) \/ VisitsFromCache(c) \/ StoreAnswered(c) \/ StoreFromCache(c)
         \/ Cached(c) \/ LoadFailed(c) \/ LoadLost(c)
  PROVE  Waits'
<1> USE DEF shell, panel, agent, history
<1>1. c \in Call /\ c.kind \in Loads
  BY DEF VisitsAnswered, VisitsFromCache, StoreAnswered, StoreFromCache, Cached, LoadFailed,
         LoadLost, CatchLoad, Loads, Basics, TypeOK, StagesFit
<1>2. Loads \cap (Managing \cup Drafting \cup Deciding \cup {"summary", "runSummary"}) = {}
  BY DEF Loads, Managing, Drafting, Deciding, Approving
<1>3. c \in Awaited
  BY <1>1, <1>2 DEF Awaited, Basics, StagesFit
<1>4. role = "rep"
  BY <1>1, <1>2, <1>3 DEF Waits, PatientWaits, Basics, TypeOK
<1>5. \A e \in Awaited : e.kind \in Loads
  BY <1>1, <1>3 DEF Waits, PatientWaits
<1>6. draft.id = 0 /\ summary.id = 0
  BY <1>1, <1>3 DEF Waits, PanelOfStore
<1>7. PICK e \in Call : e = [c EXCEPT !.stage = "caching"] /\ SameCall(c, e)
  BY <1>1, CallMoved DEF Stages
<1>8. ASSUME NEW rest, rest = At(c, "caching") \/ rest = calls \ {c}
      PROVE  \A x \in rest : x.gone \/ x.kind \in Loads
  BY <1>1, <1>5, <1>7, <1>8 DEF At, SameCall, Awaited
<1>9. /\ role' = "rep" /\ draft'.id = 0 /\ summary'.id = 0
      /\ \A x \in Awaited' : x.kind \in Loads
  <2>1. CASE VisitsAnswered(c) \/ VisitsFromCache(c)
    <3>1. PICK rest : VisitsShown(rest) /\ (rest = At(c, "caching") \/ rest = calls \ {c})
      BY <2>1 DEF VisitsAnswered, VisitsFromCache
    <3> DEFINE w == LoadStore(Route[1], next)
    <3>2. /\ calls' = rest \/ calls' = rest \cup {w}
          /\ draft'.id = 0 /\ summary'.id = 0 /\ role' = role
      BY <1>6, <3>1, Blank DEF VisitsShown, ChangeSelection, ClearPanel, Send
    <3>3. w.kind \in Loads
      BY DEF LoadStore, NewCall, Loads
    <3> HIDE DEF w
    <3>. QED
      BY <1>4, <1>8, <3>1, <3>2, <3>3 DEF Awaited
  <2>2. CASE \/ StoreAnswered(c) \/ StoreFromCache(c) \/ Cached(c) \/ LoadFailed(c)
             \/ LoadLost(c)
    <3>1. /\ calls' = At(c, "caching") \/ calls' = calls \ {c}
          /\ role' = role /\ draft' = draft /\ summary' = summary
      BY <2>2 DEF StoreAnswered, StoreFromCache, StoreShown, Cached, LoadFailed, LoadLost,
                  CatchLoad, Move, Done
    <3>. QED
      BY <1>4, <1>6, <1>8, <3>1 DEF Awaited
  <2>. QED
    BY <2>1, <2>2
<1>10. PatientWaits' /\ PanelOfStore'
  BY <1>2, <1>9 DEF PatientWaits, PanelOfStore
<1>11. DraftInStep' /\ QueueInStep'
  <2>1. /\ \A x \in Awaited' : x.kind \notin Drafting /\ x.kind \notin {"approve", "submit"}
        /\ role' = "rep" /\ draft'.id = 0
    BY <1>2, <1>9 DEF Deciding, Approving
  <2>2. DraftInStep'
    BY <2>1 DEF DraftInStep
  <2>3. QueueInStep'
    BY <2>1 DEF QueueInStep
  <2>. QED
    BY <2>2, <2>3
<1>. QED
  BY <1>10, <1>11 DEF Waits

\* An answer on the screen of a manager who waits.
LEMMA ScreenAnswerStep ==
  ASSUME Basics, Waits, patient, patient' = patient, NEW c \in calls,
         \/ BoardAnswered(c) \/ BoardFailed(c) \/ QueuedApproved(c) \/ QueueAnswered(c)
  PROVE  Waits'
<1> USE DEF shell, panel, agent, history
<1>1. c.kind \in Managing /\ c.kind \notin Loads
      /\ (c.kind = "approveQueued" => c.stage = "served")
  BY DEF BoardAnswered, BoardFailed, QueuedApproved, QueueAnswered, Managing, Loads
<1>2. ~c.gone
  BY <1>1 DEF Basics, StagesFit, Managing, Drafting, Deciding, Approving
<1>3. /\ Awaited = {c} /\ role = "manager"
      /\ calls' = calls \ {c} => Awaited' = {}
      /\ \A e : calls' = (calls \ {c}) \cup {e} => Awaited' = IF e.gone THEN {} ELSE {e}
  BY <1>1, <1>2, OnlyOne DEF Waits
<1>4. UNCHANGED <<role, selected, shown, draft, summary, orders, touched>>
  BY DEF BoardAnswered, BoardFailed, QueuedApproved, QueueAnswered
<1>5. Pending' = Pending
  BY <1>4 DEF Pending, Known
<1>6. CASE BoardAnswered(c) \/ QueueAnswered(c)
  <2>1. Awaited' = {} /\ c.stage = "served" /\ c.kind \in {"board", "queue"}
    BY <1>3, <1>6 DEF BoardAnswered, QueueAnswered, Done
  <2>2. \A d \in Drafts \ touched : d \in c.found <=> d \in Pending
    BY <1>3, <2>1 DEF Waits, QueueInStep
  <2>3. board'.queue = c.found
    BY <1>6 DEF BoardAnswered, QueueAnswered, Basics, TypeOK
  <2>. QED
    BY <1>3, <1>4, <1>5, <2>1, <2>2, <2>3
       DEF Waits, PatientWaits, PanelOfStore, DraftInStep, QueueInStep
<1>7. CASE BoardFailed(c)
  <2>1. Awaited' = {} /\ ~board.loaded /\ board' = board
    BY <1>3, <1>7 DEF BoardFailed, Done, Waits, QueueInStep
  <2>. QED
    BY <1>3, <1>4, <2>1 DEF Waits, PatientWaits, PanelOfStore, DraftInStep, QueueInStep
<1>8. CASE QueuedApproved(c)
  <2> DEFINE e == NewCall(next, "queue", None, None, 0)
  <2>1. e.kind = "queue" /\ e.stage = "sent" /\ ~e.gone
    BY DEF NewCall
  <2>2. calls' = (calls \ {c}) \cup {e}
    BY <1>8 DEF QueuedApproved, Send
  <2> HIDE DEF e
  <2>3. Awaited' = {e}
    BY <1>3, <2>1, <2>2
  <2>4. e.kind \in Managing /\ e.kind \notin Loads \cup Drafting
    BY <2>1 DEF Managing, Loads, Drafting
  <2>. QED
    BY <1>3, <1>4, <2>1, <2>3, <2>4
       DEF Waits, PatientWaits, PanelOfStore, DraftInStep, QueueInStep
<1>. QED
  BY <1>6, <1>7, <1>8

\* An answer for the panel is never one the page has given up.
LEMMA AnswersAwaited ==
  ASSUME Basics, NEW c \in calls,
         \/ DraftCreated(c) \/ DraftApproved(c) \/ DraftSubmitted(c) \/ Summarized(c)
         \/ StreamMessage(c) \/ StreamAction(c) \/ StreamAudit(c)
  PROVE  ~c.gone
BY DEF DraftCreated, DraftApproved, DraftSubmitted, Answered, Summarized, StreamMessage,
       StreamAction, StreamAudit, Basics, StagesFit, Drafting, Deciding, Approving

\* An answer or an event in the detail pane of a rep who waits.
LEMMA PanelAnswerStep ==
  ASSUME Basics, Waits, patient, patient' = patient, NEW c \in calls,
         \/ DraftCreated(c) \/ DraftApproved(c) \/ DraftSubmitted(c) \/ Summarized(c)
         \/ StreamMessage(c) \/ StreamAction(c) \/ StreamAudit(c)
  PROVE  Waits'
<1> USE DEF shell, panel, agent, history
<1>1. c \in Call /\ c.kind \in {"create", "approve", "submit", "summary"} \cup Streams
  BY DEF DraftCreated, DraftApproved, DraftSubmitted, Answered, Summarized, StreamMessage,
         StreamAction, StreamAudit, Basics, TypeOK, StagesFit, Streams
<1>2. c.kind \notin Loads \cup Managing
  BY <1>1 DEF Loads, Managing, Streams
<1>3. /\ Awaited = {c} /\ role = "rep"
      /\ calls' = calls \ {c} => Awaited' = {}
      /\ \A e : calls' = (calls \ {c}) \cup {e} => Awaited' = IF e.gone THEN {} ELSE {e}
  BY <1>2, AnswersAwaited, OnlyOne DEF Waits, Basics, TypeOK
<1>4. selected # None
  BY <1>2, <1>3 DEF Waits, PanelOfStore
<1>5. UNCHANGED <<role, selected, shown, orders, board, touched>>
  BY DEF DraftCreated, DraftApproved, DraftSubmitted, Answered, Summarized, StreamMessage,
         StreamAction, StreamAudit
<1>6. PICK e \in Call : e = [c EXCEPT !.stage = "told"] /\ SameCall(c, e) /\ e.stage = "told"
  <2>1. c \in Call /\ "told" \in Stages
    BY <1>1 DEF Stages
  <2>2. \A t \in Stages : \E e \in Call :
          /\ e = [c EXCEPT !.stage = t] /\ SameCall(c, e)
          /\ e.stage = t /\ e.found = c.found /\ e.gone = c.gone
    BY <2>1, CallMoved
  <2>. QED
    BY <2>1, <2>2
<1>7. Awaited' = {} \/ (Awaited' \subseteq {e} /\ c.kind \in Streams)
  BY <1>3, <1>6 DEF DraftCreated, DraftApproved, DraftSubmitted, Answered, Summarized,
     StreamMessage, StreamAction, StreamAudit, Done, Move, At, Streams
<1>8. PatientWaits' /\ QueueInStep'
  <2>1. PatientWaits'
    BY <1>2, <1>3, <1>5, <1>6, <1>7 DEF PatientWaits, SameCall
  <2>2. QueueInStep'
    BY <1>3, <1>5 DEF QueueInStep
  <2>. QED
    BY <2>1, <2>2
<1>9. \/ /\ c.kind \in Drafting /\ c.stage = "served" /\ summary' = summary
         /\ draft' = [id |-> c.id, status |-> "DRAFT"]
      \/ /\ c.kind \in {"approve", "submit"} /\ c.stage = "served" /\ summary' = summary
         /\ MarkDraft(IF c.kind = "approve" THEN "APPROVED" ELSE "SUBMITTED_SANDBOX")
      \/ /\ c.kind \in {"summary", "runSummary"} /\ draft' = draft
         /\ summary'.store = c.store /\ summary'.alerts = c.alerts
      \/ /\ c.kind \in Streams /\ draft' = draft
         /\ UNCHANGED <<summary.id, summary.store, summary.alerts>>
  BY DEF DraftCreated, DraftApproved, DraftSubmitted, Answered, Summarized, StreamMessage,
         StreamAction, StreamAudit, StagesFit, Drafting, Streams, Basics, TypeOK
<1>10. PanelOfStore'
  <2>1. \A x \in Awaited' : /\ x.kind \notin Loads
                            /\ x.kind \in Drafting => x.store = shown
                            /\ x.kind \in {"summary", "runSummary"} =>
                                 x.store = selected /\ x.alerts = shown
    BY <1>2, <1>3, <1>6, <1>7 DEF Waits, PanelOfStore, SameCall
  <2>2. draft'.id # 0 => orders[draft'.id].store = shown
    <3>1. draft.id # 0 => orders[draft.id].store = shown
      BY DEF Waits, PanelOfStore
    <3>2. c.kind \in Drafting /\ c.stage = "served" => orders[c.id].store = shown
      BY <1>3 DEF Waits, PanelOfStore, Basics, DraftsExist
    <3>. QED
      BY <1>9, <3>1, <3>2 DEF MarkDraft
  <2>3. summary'.id # 0 => summary'.store = selected /\ summary'.alerts = shown
    <3>1. /\ summary.id # 0 => summary.store = selected /\ summary.alerts = shown
          /\ c.kind \in {"summary", "runSummary"} => c.store = selected /\ c.alerts = shown
      BY <1>3 DEF Waits, PanelOfStore
    <3>. QED
      BY <1>9, <3>1
  <2>. QED
    BY <1>4, <1>5, <2>1, <2>2, <2>3 DEF PanelOfStore
<1>11. DraftInStep'
  <2>1. /\ c.kind \in {"approve", "submit"} => c.order = draft.id
        /\ c.stage = "served" /\ c.kind \in Drafting /\ c.id \notin touched =>
             orders[c.id].status = "DRAFT"
        /\ c.stage = "served" /\ c.kind = "approve" /\ c.order \notin touched =>
             orders[c.order].status = "APPROVED"
        /\ c.stage = "served" /\ c.kind = "submit" /\ c.order \notin touched =>
             orders[c.order].status = "SUBMITTED_SANDBOX"
    BY <1>3 DEF Waits, DraftInStep, Names, Drafting
  <2>2. \A x \in Awaited' : x.kind \notin {"approve", "submit"} /\ x.stage # "served"
    BY <1>6, <1>7 DEF SameCall, Streams
  <2>3. CASE draft' = draft /\ c.kind \in {"summary"} \cup Streams
    <3>1. c.kind \notin {"approve", "submit"}
      BY <2>3 DEF Streams
    <3>. QED
      BY <1>3, <1>5, <2>2, <2>3, <3>1 DEF Waits, DraftInStep
  <2>4. CASE c.kind \in Drafting /\ c.stage = "served" /\ draft' = [id |-> c.id, status |-> "DRAFT"]
    BY <1>5, <2>1, <2>2, <2>4 DEF DraftInStep
  <2>5. CASE /\ c.kind \in {"approve", "submit"} /\ c.stage = "served"
             /\ MarkDraft(IF c.kind = "approve" THEN "APPROVED" ELSE "SUBMITTED_SANDBOX")
    <3>1. /\ c.kind = "approve" => orders[draft.id].approved
          /\ c.kind = "submit" => orders[draft.id].approved /\ orders[draft.id].ordered
      BY <2>1, <2>5 DEF Basics, RecordsKept, Approving
    <3>2. CASE draft.id = 0
      BY <1>5, <2>2, <2>5, <3>2 DEF DraftInStep, MarkDraft
    <3>3. CASE draft.id # 0 /\ c.kind = "approve"
      <4>1. draft' = [id |-> draft.id, status |-> "APPROVED"]
        BY <2>5, <3>3 DEF MarkDraft
      <4>. QED
        BY <1>5, <2>1, <2>2, <2>5, <3>1, <3>3, <4>1 DEF DraftInStep
    <3>4. CASE draft.id # 0 /\ c.kind = "submit"
      <4>1. draft' = [id |-> draft.id, status |-> "SUBMITTED_SANDBOX"]
        BY <2>5, <3>4 DEF MarkDraft
      <4>. QED
        BY <1>5, <2>1, <2>2, <2>5, <3>1, <3>4, <4>1 DEF DraftInStep
    <3>. QED
      BY <2>5, <3>2, <3>3, <3>4
  <2>. QED
    BY <1>9, <2>3, <2>4, <2>5 DEF Streams
<1>. QED
  BY <1>8, <1>10, <1>11 DEF Waits

\* The page gives a request of a user who waits up.
LEMMA GiveUpStep ==
  ASSUME Basics, Waits, patient, patient' = patient, NEW c \in calls,
         FailedUnreported(c) \/ StreamBreaks(c)
  PROVE  Waits'
<1> USE DEF shell, panel, agent, history
<1>1. c \in Call /\ ~c.gone /\ GiveUp(c)
      /\ c.kind \in Writes \cup {"summary", "queue"} \cup Streams
  BY DEF FailedUnreported, StreamBreaks, Basics, TypeOK
<1>2. c.kind \notin Loads
  BY <1>1 DEF Loads, Writes, Streams
<1>3. /\ Awaited = {c} /\ (c.kind \in Managing <=> role = "manager")
      /\ calls' = calls \ {c} => Awaited' = {}
      /\ \A e : calls' = (calls \ {c}) \cup {e} => Awaited' = IF e.gone THEN {} ELSE {e}
  BY <1>1, <1>2, OnlyOne DEF Waits
<1>4. UNCHANGED <<role, selected, shown, draft, summary.id, summary.store, summary.alerts,
                  orders, board>>
  BY DEF FailedUnreported, StreamBreaks
<1>5. Awaited' = {}
  <2>1. [c EXCEPT !.gone = TRUE].gone
    BY <1>1 DEF Call
  <2>. QED
    BY <1>1, <1>3, <2>1 DEF GiveUp, Done
<1>6. /\ touched \subseteq touched'
      /\ c.kind = "queue" => touched' = touched \cup Known
      /\ c.kind # "queue" /\ c.stage = "served" => Names(c) \in touched'
  <2>1. "queue" \notin Drafting \cup Deciding
    BY DEF Drafting, Deciding, Approving
  <2>. QED
    BY <1>1, <2>1 DEF GiveUp, Touch
<1>7. PatientWaits' /\ PanelOfStore'
  BY <1>4, <1>5 DEF Waits, PatientWaits, PanelOfStore
<1>8. DraftInStep'
  <2>1. c.kind \in {"approve", "submit"} => Names(c) = c.order
    BY DEF Names, Drafting
  <2>. QED
    BY <1>3, <1>4, <1>5, <1>6, <2>1 DEF Waits, DraftInStep
<1>9. QueueInStep'
  <2>1. Pending' = Pending /\ Pending \subseteq Known /\ board.queue \subseteq Known
    BY <1>4 DEF Pending, Known, Basics, DraftsExist
  <2>2. c.kind = "approveQueued" => Names(c) = c.order
    BY DEF Names, Drafting
  <2>. QED
    BY <1>3, <1>4, <1>5, <1>6, <2>1, <2>2 DEF Waits, QueueInStep
<1>. QED
  BY <1>7, <1>8, <1>9 DEF Waits

\* What a request given up commits, or another client, changes behind the page's back.
LEMMA TouchedStep ==
  ASSUME Basics, Waits, patient, patient' = patient, [Next]_vars,
         UNCHANGED <<role, selected, shown, draft, summary, board>>, Awaited' = Awaited,
         NEW d \in Drafts, touched' = touched \cup {d},
         \A e \in Drafts : e # d => orders'[e] = orders[e]
  PROVE  Waits'
<1>1. \A e \in Known : /\ orders'[e].store = orders[e].store
                       /\ orders[e].approved => orders'[e].approved
                       /\ orders[e].ordered => orders'[e].ordered
  BY OrdersStep
<1>2. draft.id # 0 => draft.id \in Known /\ draft.id \in Drafts
  BY DEF Basics, DraftsExist, Known
<1>3. \A c \in Awaited : c.stage = "served" /\ c.kind \in Drafting \cup Deciding =>
        /\ Names(c) \in Drafts
        /\ c.kind \in Drafting => Names(c) = c.id
        /\ c.kind \in Deciding => Names(c) = c.order
  BY RowFields DEF Awaited
<1>4. PatientWaits' /\ PanelOfStore'
  BY <1>1, <1>2 DEF Waits, PatientWaits, PanelOfStore
<1>5. DraftInStep'
  <2> SUFFICES ASSUME role = "rep"
               PROVE  DraftInStep'
    BY DEF DraftInStep
  <2>1. ASSUME NEW c \in Awaited
        PROVE  /\ c.kind \in {"approve", "submit"} => c.order = draft.id
               /\ c.stage = "served" /\ Names(c) \notin touched' =>
                    /\ c.kind \in Drafting => orders'[c.id].status = "DRAFT"
                    /\ c.kind = "approve" => orders'[c.order].status = "APPROVED"
                    /\ c.kind = "submit" => orders'[c.order].status = "SUBMITTED_SANDBOX"
    BY <1>3, <2>1 DEF Waits, DraftInStep, Deciding, Approving
  <2>2. draft.id # 0 =>
          /\ draft.status # "DRAFT" => orders'[draft.id].approved
          /\ draft.status = "SUBMITTED_SANDBOX" => orders'[draft.id].ordered
          /\ \/ draft.id \in touched'
             \/ \E c \in Awaited : c.kind \in {"approve", "submit"} /\ c.stage = "served"
             \/ draft.status = orders'[draft.id].status
    BY <1>1, <1>2 DEF Waits, DraftInStep
  <2>3. \A c : Names(c)' = Names(c)
    BY DEF Names
  <2>. QED
    BY <2>1, <2>2, <2>3 DEF DraftInStep
<1>6. QueueInStep'
  <2>1. \A e \in Drafts \ touched' : e \in Drafts \ touched /\ (e \in Pending' <=> e \in Pending)
    BY DEF Pending, Known
  <2>. QED
    BY <2>1 DEF Waits, QueueInStep
<1>. QED
  BY <1>4, <1>5, <1>6 DEF Waits

\* A step of the backend for a request of a user who waits, or one given up.
LEMMA BackendStep ==
  ASSUME Basics, Waits, patient, patient' = patient, [Next]_vars, NEW c \in calls, Backend(c)
  PROVE  Waits'
<1> USE DEF shell, panel, agent, history
<1>1. c \in Call /\ UNCHANGED <<role, selected, shown, draft, summary, board>>
  BY DEF Backend, Load, Commit, Vanish, ReadQueue, Frontend, Basics, TypeOK
<1>2. \A t \in Stages : \E e \in Call :
        /\ e = [c EXCEPT !.stage = t] /\ SameCall(c, e)
        /\ e.stage = t /\ e.found = c.found /\ e.gone = c.gone
  BY <1>1, CallMoved
<1>3. ASSUME c.gone, calls' = calls \ {c}
      PROVE  Awaited' = Awaited
  BY <1>3 DEF Awaited
<1>4. ASSUME c.gone, NEW t \in Stages, calls' = At(c, t)
      PROVE  Awaited' = Awaited
  BY <1>2, <1>4 DEF Awaited, At
<1>5. ASSUME c.kind \notin Loads, ~c.gone
      PROVE  /\ Awaited = {c} /\ (c.kind \in Managing <=> role = "manager")
             /\ \A e : calls' = (calls \ {c}) \cup {e} => Awaited' = IF e.gone THEN {} ELSE {e}
  BY <1>5, OnlyOne DEF Waits
<1>6. {"sent", "loaded", "refused", "served"} \subseteq Stages
  BY DEF Stages
<1>7. ASSUME UNCHANGED <<orders, touched>>, Awaited' = Awaited
      PROVE  Waits'
  <2>1. Pending' = Pending /\ \A x : Names(x)' = Names(x)
    BY <1>7 DEF Pending, Known, Names
  <2>. QED
    BY <1>1, <1>7, <2>1 DEF Waits, PatientWaits, PanelOfStore, DraftInStep, QueueInStep
<1>8. CASE Load(c)
  <2>1. c.kind \in Deciding /\ c.kind \notin Loads /\ c.stage = "sent"
        /\ UNCHANGED <<orders, touched>>
    BY <1>8 DEF Load, Deciding, Approving, Loads
  <2>2. \/ \E t \in {"loaded", "refused"} : calls' = At(c, t)
        \/ c.gone /\ calls' = calls \ {c}
    BY <1>8 DEF Load, Move, Done
  <2>3. CASE c.gone
    <3>1. Awaited' = Awaited
      BY <1>3, <1>4, <1>6, <2>2, <2>3
    <3>. QED
      BY <1>7, <2>1, <3>1
  <2>4. CASE ~c.gone
    <3>1. PICK t \in {"loaded", "refused"} : calls' = At(c, t)
      BY <2>2, <2>4
    <3>2. PICK e \in Call : /\ e = [c EXCEPT !.stage = t] /\ SameCall(c, e)
                            /\ e.stage = t /\ e.gone = c.gone
      BY <1>2, <1>6
    <3>3. Awaited = {c} /\ (c.kind \in Managing <=> role = "manager") /\ Awaited' = {e}
      BY <1>5, <2>1, <2>4, <3>1, <3>2 DEF At
    <3>4. PatientWaits' /\ PanelOfStore'
      BY <1>1, <2>1, <3>2, <3>3 DEF Waits, PatientWaits, PanelOfStore, SameCall
    <3>5. DraftInStep'
      BY <1>1, <2>1, <3>2, <3>3 DEF Waits, DraftInStep, SameCall
    <3>6. QueueInStep'
      <4>1. Pending' = Pending /\ c.kind \notin {"board", "queue"}
        BY <2>1 DEF Pending, Known, Deciding, Approving
      <4>. QED
        BY <1>1, <2>1, <3>2, <3>3, <4>1 DEF Waits, QueueInStep, SameCall
    <3>. QED
      BY <3>4, <3>5, <3>6 DEF Waits
  <2>. QED
    BY <2>3, <2>4
<1>9. CASE Vanish(c)
  <2>1. c.gone /\ calls' = calls \ {c} /\ UNCHANGED <<orders, touched>>
    BY <1>9 DEF Vanish, Done
  <2>2. Awaited' = Awaited
    BY <1>3, <2>1
  <2>. QED
    BY <1>7, <2>1, <2>2
<1>10. CASE Commit(c)
  <2>1. /\ c.kind \in Drafting \cup Deciding
        /\ orders'[Names(c)] = Row(c)
        /\ \A d \in Drafts : d # Names(c) => orders'[d] = orders[d]
        /\ c.kind \in Drafting => c.stage = "sent" /\ c.id \notin Known
    BY <1>10, CommitFields
  <2>2. /\ Names(c) \in Drafts
        /\ c.kind \in Drafting => Names(c) = c.id /\ Row(c) = NewDraft(c.store)
        /\ c.kind \in Deciding => Names(c) = c.order /\ c.order \in Known
        /\ c.kind \in Approving => Row(c).status = "APPROVED"
        /\ c.kind = "submit" => Row(c).status = "SUBMITTED_SANDBOX"
    BY <2>1, RowFields
  <2>3. c.kind \notin Loads /\ c.kind \notin {"board", "queue"} /\ c.stage # "served"
    BY <1>10, <2>1 DEF Commit, Drafting, Deciding, Approving, Loads
  <2>4. CASE c.gone
    <3>1. calls' = calls \ {c} /\ touched' = touched \cup {Names(c)}
      BY <1>10, <2>4 DEF Commit, Done, Touch
    <3>2. Awaited' = Awaited
      BY <1>3, <2>4, <3>1
    <3>. QED
      BY <1>1, <2>1, <2>2, <3>1, <3>2, TouchedStep
  <2>5. CASE ~c.gone
    <3>1. calls' = At(c, "served") /\ touched' = touched
      BY <1>10, <2>5 DEF Commit, Move
    <3>2. PICK e \in Call : /\ e = [c EXCEPT !.stage = "served"] /\ SameCall(c, e)
                            /\ e.stage = "served" /\ e.gone = c.gone
      BY <1>2, <1>6
    <3>3. Awaited = {c} /\ (c.kind \in Managing <=> role = "manager") /\ Awaited' = {e}
      BY <1>5, <2>3, <2>5, <3>1, <3>2 DEF At
    <3>4. \A d \in Known : /\ orders'[d].store = orders[d].store
                           /\ orders[d].approved => orders'[d].approved
                           /\ orders[d].ordered => orders'[d].ordered
      BY OrdersStep
    <3>5. draft.id # 0 => draft.id \in Known /\ draft.id \in Drafts
      BY DEF Basics, DraftsExist, Known
    <3>6. PatientWaits' /\ PanelOfStore'
      <4>1. PatientWaits'
        BY <1>1, <3>2, <3>3, <2>3 DEF PatientWaits, SameCall
      <4>2. PanelOfStore'
        BY <1>1, <3>2, <3>3, <3>4, <3>5 DEF Waits, PanelOfStore, SameCall
      <4>. QED
        BY <4>1, <4>2
    <3>7. DraftInStep'
      <4> SUFFICES ASSUME role = "rep"
                   PROVE  DraftInStep'
        BY <1>1 DEF DraftInStep
      <4>1. c.kind # "approveQueued"
        BY <3>3 DEF Managing
      <4>2. /\ e.kind \in {"approve", "submit"} => e.order = draft.id
            /\ e.kind \in Drafting => orders'[e.id].status = "DRAFT"
            /\ e.kind = "approve" => orders'[e.order].status = "APPROVED"
            /\ e.kind = "submit" => orders'[e.order].status = "SUBMITTED_SANDBOX"
        <5>1. c.kind \in {"approve", "submit"} => c.order = draft.id
          BY <3>3 DEF Waits, DraftInStep
        <5>2. \A s : NewDraft(s).status = "DRAFT"
          BY DEF NewDraft
        <5>. QED
          BY <2>1, <2>2, <3>2, <5>1, <5>2 DEF SameCall, Deciding, Approving
      <4>3. draft.id # 0 =>
              /\ draft.status # "DRAFT" => orders'[draft.id].approved
              /\ draft.status = "SUBMITTED_SANDBOX" => orders'[draft.id].ordered
        BY <3>4, <3>5 DEF Waits, DraftInStep
      <4>4. draft.id # 0 => \/ draft.id \in touched
                            \/ e.kind \in {"approve", "submit"}
                            \/ draft.status = orders'[draft.id].status
        <5>1. CASE c.kind \in {"approve", "submit"}
          BY <3>2, <5>1 DEF SameCall
        <5>2. CASE c.kind \in Drafting
          BY <2>1, <2>2, <2>3, <3>3, <3>5, <5>2 DEF Waits, DraftInStep
        <5>. QED
          BY <2>1, <4>1, <5>1, <5>2 DEF Deciding, Approving
      <4>. QED
        BY <1>1, <3>1, <3>2, <3>3, <4>2, <4>3, <4>4 DEF DraftInStep
    <3>8. QueueInStep'
      <4> SUFFICES ASSUME role = "manager"
                   PROVE  QueueInStep'
        BY <1>1 DEF QueueInStep
      <4>1. c.kind = "approveQueued" /\ e.kind = "approveQueued" /\ e.order = c.order
            /\ Names(c) = c.order
        BY <2>1, <2>2, <2>3, <3>2, <3>3 DEF Managing, SameCall, Deciding, Approving
      <4>2. \A d \in Drafts : d # c.order => (d \in Pending' <=> d \in Pending)
        BY <2>1, <4>1 DEF Pending, Known
      <4>3. board.loaded => \A d \in Drafts \ touched : d \in board.queue <=> d \in Pending
        BY <2>3, <3>3, <4>1 DEF Waits, QueueInStep
      <4>. QED
        BY <1>1, <3>1, <3>2, <3>3, <4>1, <4>2, <4>3 DEF QueueInStep
    <3>. QED
      BY <3>6, <3>7, <3>8 DEF Waits
  <2>. QED
    BY <2>4, <2>5
<1>11. CASE ReadQueue(c)
  <2>1. c.kind \in {"board", "queue"} /\ touched' = {} /\ orders' = orders /\ c.stage = "sent"
        /\ calls' = (calls \ {c}) \cup {[c EXCEPT !.stage = "served", !.found = Pending]}
    BY <1>11 DEF ReadQueue
  <2>2. c.kind \notin Loads /\ ~c.gone /\ c.kind \in Managing /\ c.kind \notin Drafting
    BY <2>1 DEF Loads, Managing, Basics, StagesFit, Drafting, Deciding, Approving
  <2>3. Pending \in SUBSET Drafts
    BY DEF Pending, Known
  <2>4. PICK e \in Call : /\ e = [c EXCEPT !.stage = "served", !.found = Pending]
                          /\ SameCall(c, e) /\ e.found = Pending /\ e.gone = c.gone
    <3>1. \A f \in SUBSET Drafts : \E e \in Call :
            /\ e = [c EXCEPT !.stage = "served", !.found = f] /\ SameCall(c, e)
            /\ e.stage = "served" /\ e.found = f /\ e.gone = c.gone
      BY <1>1, CallMoved
    <3>. QED
      BY <2>3, <3>1
  <2>5. Awaited = {c} /\ role = "manager" /\ Awaited' = {e}
    BY <1>5, <2>1, <2>2, <2>4
  <2>6. Pending' = Pending
    BY <2>1 DEF Pending, Known
  <2>7. PatientWaits' /\ PanelOfStore' /\ DraftInStep'
    BY <1>1, <2>1, <2>2, <2>4, <2>5
       DEF Waits, PatientWaits, PanelOfStore, DraftInStep, SameCall
  <2>8. QueueInStep'
    BY <1>1, <2>1, <2>4, <2>5, <2>6 DEF Waits, QueueInStep, SameCall
  <2>. QED
    BY <2>7, <2>8 DEF Waits
<1>. QED
  BY <1>8, <1>9, <1>10, <1>11 DEF Backend

\* What a user who waits sees stays as the invariant says.
LEMMA WaitsStep == ASSUME Basics, Waits, [Next]_vars PROVE Waits'
<1>1. patient' = patient
  BY PatientFixed
<1>2. CASE ~patient
  BY <1>1, <1>2 DEF Waits, PatientWaits, PanelOfStore, DraftInStep, QueueInStep
<1>3. CASE patient
  <2>1. CASE User
    BY <1>1, <1>3, <2>1, TapStep
  <2>2. ASSUME NEW c \in calls, Ends(c)
        PROVE  Waits'
    BY <1>1, <1>3, <2>2, LoadStep, ScreenAnswerStep, PanelAnswerStep, GiveUpStep
       DEF Ends
  <2>3. ASSUME NEW c \in calls, Backend(c)
        PROVE  Waits'
    BY <1>1, <1>3, <2>3, BackendStep
  <2>4. CASE Elsewhere
    <3>1. ASSUME NEW d \in Drafts, Touch({d}), UNCHANGED <<Frontend, calls>>,
                 \A e \in Drafts : e # d => orders'[e] = orders[e]
          PROVE  Waits'
      <4>1. touched' = touched \cup {d} /\ Awaited' = Awaited
            /\ UNCHANGED <<role, selected, shown, draft, summary, board>>
        BY <1>3, <3>1 DEF Touch, Awaited, Frontend, shell, panel, agent
      <4>. QED
        BY <1>1, <1>3, <3>1, <4>1, TouchedStep
    <3>2. ASSUME NEW f \in Foreign, NEW s \in Stores, DraftedElsewhere(f, s)
          PROVE  Waits'
      <4>1. \A e \in Drafts : e # f => orders'[e] = orders[e]
        BY <3>2, ElsewhereFields
      <4>2. f \in Drafts /\ Touch({f}) /\ UNCHANGED <<Frontend, calls>>
        BY <3>2 DEF DraftedElsewhere, Drafts
      <4>. QED
        BY <3>1, <4>1, <4>2
    <3>3. ASSUME NEW d \in Drafts, NEW t \in Status, DecidedElsewhere(d, t)
          PROVE  Waits'
      <4>1. \A e \in Drafts : e # d => orders'[e] = orders[e]
        BY <3>3, ElsewhereFields
      <4>2. Touch({d}) /\ UNCHANGED <<Frontend, calls>>
        BY <3>3 DEF DecidedElsewhere
      <4>. QED
        BY <3>1, <4>1, <4>2
    <3>. QED
      BY <2>4, <3>2, <3>3 DEF Elsewhere
  <2>5. CASE UNCHANGED vars
    <3>1. UNCHANGED <<role, selected, shown, draft, summary, board, calls, orders, touched>>
      BY <2>5 DEF vars, shell, panel, agent, history
    <3>2. Pending' = Pending /\ Awaited' = Awaited /\ \A c : Names(c)' = Names(c)
      BY <3>1 DEF Pending, Known, Awaited, Names
    <3>. QED
      BY <1>1, <3>1, <3>2 DEF Waits, PatientWaits, PanelOfStore, DraftInStep, QueueInStep
  <2>. QED
    BY <2>1, <2>2, <2>3, <2>4, <2>5 DEF Next, Network
<1>. QED
  BY <1>2, <1>3

--------------------------------------------------------------------------------
(* The theorems *)

\* The page's inductive invariant holds in every reachable state, whatever the
\* order of taps, answers and failures, of late commits and of other clients.
THEOREM WorkbenchCorrect == Spec => []WorkbenchInv
<1>1. Init => WorkbenchInv
  <2> SUFFICES ASSUME Init
               PROVE  WorkbenchInv
    OBVIOUS
  <2>1. Basics
    BY BasicsInit
  <2> DEFINE c == NewCall(1, "visits", None, None, 0)
  <2>2. c.id = 1 /\ c.kind = "visits" /\ c.stage = "sent"
    BY DEF NewCall
  <2>3. /\ calls = {c} /\ next = 2 /\ role = "rep" /\ selected = None
        /\ draft.id = 0 /\ summary.id = 0 /\ lastLoad = 0
    BY Blank DEF Init
  <2> HIDE DEF c
  <2>4. Awaited \subseteq {c}
    BY <2>3 DEF Awaited
  <2>5. c.kind \in Loads /\ c.kind \notin Managing \cup Drafting
    BY <2>2 DEF Loads, Managing, Drafting
  <2>6. LoadsFollow
    BY <2>3 DEF LoadsFollow
  <2>7. PatientWaits /\ PanelOfStore /\ DraftInStep /\ QueueInStep
    BY <2>2, <2>3, <2>4, <2>5 DEF PatientWaits, PanelOfStore, DraftInStep, QueueInStep
  <2>. QED
    BY <2>1, <2>6, <2>7 DEF WorkbenchInv, Basics
<1>2. WorkbenchInv /\ [Next]_vars => WorkbenchInv'
  <2> SUFFICES ASSUME WorkbenchInv, [Next]_vars
               PROVE  WorkbenchInv'
    OBVIOUS
  <2>1. Basics /\ LoadsFollow /\ Waits
    BY DEF WorkbenchInv, Basics, Waits
  <2>2. Basics' /\ LoadsFollow' /\ Waits'
    BY <2>1, BasicsStep, LoadsStep, WaitsStep
  <2>. QED
    BY <2>2 DEF WorkbenchInv, Basics, Waits
<1>. QED
  BY <1>1, <1>2, PTL DEF Spec

\* Every reachable state is typed.
THEOREM TypeCorrect == Spec => []TypeOK
<1>1. WorkbenchInv => TypeOK
  BY DEF WorkbenchInv
<1>. QED
  BY <1>1, WorkbenchCorrect, PTL

\* An approval or ERP order shown in the panel was recorded; what a user who waits
\* sees of the draft has its record, and at rest is the backend's unless the draft
\* changed without the page having been told.
THEOREM PanelIsTruthful == Spec => []PanelTruthful
<1>1. WorkbenchInv => PanelTruthful
  <2> SUFFICES ASSUME WorkbenchInv
               PROVE  PanelTruthful
    OBVIOUS
  <2>1. /\ approval # 0 => orders[approval].approved
        /\ submission # 0 => orders[submission].ordered
    BY DEF WorkbenchInv, RecordsKept
  <2>. QED
    BY <2>1 DEF WorkbenchInv, DraftInStep, PanelTruthful
<1>. QED
  BY <1>1, WorkbenchCorrect, PTL

\* A rep's page that loads nothing shows the store it highlights or says why not,
\* and what a user who waits sees in the panel and the summary box is about it.
THEOREM PageShowsSelection == Spec => []PageOfSelectedStore
<1>1. WorkbenchInv => PageOfSelectedStore
  <2> SUFFICES ASSUME WorkbenchInv
               PROVE  PageOfSelectedStore
    OBVIOUS
  <2>1. role = "rep" /\ selected # None /\ ~Loading /\ ~error /\ ~dismissed /\ ~stale =>
          shown = selected
    BY DEF WorkbenchInv, LoadsFollow, Loading
  <2>. QED
    BY <2>1 DEF WorkbenchInv, PanelOfStore, PageOfSelectedStore
<1>. QED
  BY <1>1, WorkbenchCorrect, PTL

\* The approval queue a manager who waits sees at rest is the backend's, but for
\* what changed behind the page's back since it was read.
THEOREM QueueIsTruthful == Spec => []QueueTruthful
<1>1. WorkbenchInv => QueueTruthful
  <2> SUFFICES ASSUME WorkbenchInv, patient, Awaited = {}, role = "manager", board.loaded,
                      NEW d \in Drafts \ touched
               PROVE  d \in board.queue <=> d \in Pending
    BY DEF QueueTruthful
  <2>. QED
    BY DEF WorkbenchInv, QueueInStep
<1>. QED
  BY <1>1, WorkbenchCorrect, PTL
===============================================================================

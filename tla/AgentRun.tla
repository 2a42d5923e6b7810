------------------------------- MODULE AgentRun -------------------------------
(***************************************************************************)
(* The assistant: POST /agent/run with its four intents, and the two       *)
(* endpoints that run one of them without a stream (POST /agent/           *)
(* osa-summary, POST /crm/visit-log-drafts).  A run does its work, commits *)
(* it, and only then streams what it did; the CRM and the memory provider  *)
(* are outside the transaction, and the model, the guardrail classifier    *)
(* and the memory provider may each fail.                                  *)
(*                                                                         *)
(* The rows, the audit sinks and the database are those of OrderHITL and   *)
(* ManagerTasks; here a run's row and event are pending until its commit.  *)
(***************************************************************************)
EXTENDS Integers, Sequences, FiniteSets

CONSTANTS
  Runs,      \* the requests
  Alerts,    \* the alerts of the user's stores
  Stores,    \* the stores of the territory
  Skus,      \* the SKUs a text may name, also such as no alert is about
  StoreOf,   \* the store of an alert
  SkuOf,     \* its SKU
  Phrase,    \* an alert id that holds a blocked phrase; no alert has it
  Top,       \* how many alerts a template summary mentions: 5 in the code
  None,      \* no store, no wish
  Configs,   \* the settings a process may run with
  Wishes     \* the requests users send, by run

Intents == {"osa_summary", "order_draft", "visit_log_draft", "manager_task"}

Config == [enabled: BOOLEAN,
           guardrail: {"pattern", "external_classifier"}, failClosed: BOOLEAN,
           provider: {"template", "anthropic"}, failOpen: BOOLEAN,
           memory: {"none", "mem0"}, crm: {"local", "external"}]

\* ids: alert_ids, or all alerts when there are none; stream: /agent/run, or the
\* endpoint of the intent alone; allowed: do the validation, role, territory and
\* store checks of its handler pass?
Wish == [intent: Intents, stream: BOOLEAN, allowed: BOOLEAN,
         store: Stores \cup {None},
         all: BOOLEAN, ids: SUBSET (Alerts \cup {Phrase})]

\* What the grounding check sees of a text: the alert, SKU and store ids in it.
\* An alert id holds the ids of its store and SKU.  Which SKU a text says is at
\* which store, and names without an id, it does not see.
Texts == {t \in [alerts: SUBSET Alerts, skus: SUBSET Skus, stores: SUBSET Stores] :
            \A a \in t.alerts : SkuOf[a] \in t.skus /\ StoreOf[a] \in t.stores}
NoText == [alerts |-> {}, skus |-> {}, stores |-> {}]

ASSUME ConstantsTyped ==
  /\ StoreOf \in [Alerts -> Stores] /\ SkuOf \in [Alerts -> Skus]
  /\ Phrase \notin Alerts /\ None \notin Stores /\ None \notin Wish
  /\ IsFiniteSet(Alerts) /\ Top \in Nat
  /\ Configs \subseteq Config /\ Wishes \in [Runs -> SUBSET Wish]

VARIABLES
  config,    \* the settings of the process
  listed,    \* the alerts the data source lists at present
  wish,      \* what a run was asked
  pc,        \* where the handler of a run is
  alerts,    \* the grounded alerts a handler holds
  text,      \* the identifiers in its summary
  event,     \* has the run an audit event, as far as its handler knows?
  rows,      \* committed: runs whose draft, visit log or task exists
  events,    \* committed: runs with an audit event
  crm,       \* runs whose visit log the CRM has
  memories,  \* runs the memory provider remembers
  prompted,  \* runs whose alerts were sent to the model
  told,      \* how much of its stream the client has seen
  client     \* what the client knows: nothing, it waits, the answer, an error

outside == <<crm, memories, prompted>>
vars == <<config, listed, wish, pc, alerts, text, event, rows, events, outside,
          told, client>>

Working == {"asked", "guarded", "grounded", "recalled", "acted", "committed"}
PC == {"idle", "refused", "failed", "answering", "over"} \cup Working

--------------------------------------------------------------------------------
(* What the code does, named *)

Init ==
  /\ config \in Configs
  /\ listed \in SUBSET Alerts
  /\ wish = [r \in Runs |-> None]
  /\ pc = [r \in Runs |-> "idle"]
  /\ alerts = [r \in Runs |-> {}] /\ text = [r \in Runs |-> NoText]
  /\ event = [r \in Runs |-> FALSE]
  /\ rows = {} /\ events = {}
  /\ crm = {} /\ memories = {} /\ prompted = {}
  /\ told = [r \in Runs |-> 0]
  /\ client = [r \in Runs |-> "away"]

Is(r, intent) == wish[r] # None /\ wish[r].intent = intent

\* A handler that answers with a status of its own (4xx), or fails (5xx).
Ends(r, how) ==
  /\ pc' = [pc EXCEPT ![r] = how]
  /\ client' = [client EXCEPT ![r] = IF @ = "waits" THEN "error" ELSE @]

\* An exception: the routes answer a ValueError, whoever raised it, with 400.
Errs(r) == Ends(r, "refused") \/ Ends(r, "failed")

Goes(r, next) == pc' = [pc EXCEPT ![r] = next] /\ UNCHANGED client

\* PatternGuardrailProvider.check of the joined alert ids.
PatternBlocks(w) == ~w.all /\ Phrase \in w.ids

\* check_guardrails; answer is what the classifier says, or "down".
Blocks(w, answer) ==
  \/ config.guardrail = "pattern" /\ PatternBlocks(w)
  \/ /\ config.guardrail = "external_classifier"
     /\ \/ answer = "block"
        \/ answer = "down" /\ (config.failClosed \/ PatternBlocks(w))

\* get_alerts_by_ids of the user's stores.
AlertsByIds(w) == {a \in listed : w.all \/ a \in w.ids}

\* The grounded set: every id that was asked for is an alert.
Grounds(w) ==
  w.all \/ Cardinality(AlertsByIds(w)) = Cardinality(w.ids)

OfStore(store, found) ==
  {a \in found : store = None \/ StoreOf[a] = store}

ScriptAuditTwice(r) ==
  <<"run_started", "supervisor_decision", "action_result">>
  \o (IF Is(r, "order_draft") THEN <<"hitl_required">> ELSE <<>>)
  \o (IF event[r] THEN <<"audit", "audit">> ELSE <<>>)
  \o <<"run_completed">>

\* The events of a run in the order of the stream.
Script(r) ==
  <<"run_started", "supervisor_decision">>
  \o (IF Is(r, "osa_summary") THEN <<"message">> ELSE <<"action_result">>)
  \o (IF Is(r, "order_draft") THEN <<"hitl_required">> ELSE <<>>)
  \o (IF event[r] THEN <<"audit">> ELSE <<>>)
  \o <<"run_completed">>

Seen(r, name) == \E i \in 1..told[r] : Script(r)[i] = name

--------------------------------------------------------------------------------
(* A request arrives *)

Ask(r, w) ==
  /\ pc[r] = "idle"
  /\ wish' = [wish EXCEPT ![r] = w]
  /\ IF w.stream /\ ~config.enabled
     THEN /\ pc' = [pc EXCEPT ![r] = "refused"]
          /\ client' = [client EXCEPT ![r] = "error"]
     ELSE /\ pc' = [pc EXCEPT ![r] = "asked"]
          /\ client' = [client EXCEPT ![r] = "waits"]
  /\ UNCHANGED <<config, listed, alerts, text, event, rows, events, outside, told>>

--------------------------------------------------------------------------------
(* create_osa_summary *)

\* The classifier is called without an await: nothing runs meanwhile.  A score
\* that is no number is an error of the request, whatever fail_closed says.
Guard(r, answer) ==
  /\ pc[r] = "asked" /\ Is(r, "osa_summary")
  /\ IF ~wish[r].allowed \/ Blocks(wish[r], answer) THEN Ends(r, "refused")
     ELSE IF config.guardrail = "external_classifier" /\ answer = "garbled"
     THEN Errs(r)
     ELSE Goes(r, "guarded")
  /\ UNCHANGED <<config, listed, wish, alerts, text, event, rows, events, outside, told>>

\* The service's own code and grounded_alerts_node, which graph mode runs, do the
\* same; the graph's summary is not used.
ReadAlerts(r) ==
  /\ pc[r] = "guarded"
  /\ IF Grounds(wish[r])
     THEN /\ alerts' = [alerts EXCEPT ![r] =
                          OfStore(wish[r].store, AlertsByIds(wish[r]))]
          /\ Goes(r, "grounded")
     ELSE UNCHANGED alerts /\ Ends(r, "refused")
  /\ UNCHANGED <<config, listed, wish, text, event, rows, events, outside, told>>

\* get_memory_adapter and get_context: with mem0 either may raise, and nothing
\* here catches it (Fail).
ReadMemory(r) ==
  /\ pc[r] = "grounded"
  /\ Goes(r, "recalled")
  /\ UNCHANGED <<config, listed, wish, alerts, text, event, rows, events, outside, told>>

SkusOf(found) == {SkuOf[a] : a \in found}
StoresOf(found) == {StoreOf[a] : a \in found}

\* validate_summary_grounding: each kind of id against its own set.
ValidatedButStores(t, found) == t.alerts \subseteq found /\ t.skus \subseteq SkusOf(found)
Validated(t, found) ==
  t.alerts \subseteq found /\ t.skus \subseteq SkusOf(found) /\ t.stores \subseteq StoresOf(found)

\* build_grounded_summary: the riskiest of the alerts, a line of each.
TopAlerts(top, found) ==
  /\ top \subseteq found
  /\ \/ top = found /\ Cardinality(found) <= Top
     \/ Cardinality(top) = Top

\* A line names the SKU in words and the store by its id.
TemplateText(top) == [NoText EXCEPT !.stores = StoresOf(top)]

HasText(r, t) ==
  /\ text' = [text EXCEPT ![r] = t]
  /\ event' = [event EXCEPT ![r] = TRUE]
  /\ Goes(r, "acted")

WriteTemplate(r, top) ==
  /\ config.provider = "template"
  /\ HasText(r, TemplateText(top))
  /\ UNCHANGED prompted

\* The model mentions what it likes.
WriteModel(r, t) ==
  /\ config.provider = "anthropic"
  /\ prompted' = prompted \cup {r}
  /\ IF Validated(t, alerts[r])
     THEN HasText(r, t)
     ELSE UNCHANGED <<text, event>> /\ Ends(r, "refused")

\* SummaryProviderError: no token, no SDK or an empty answer.  Other exceptions
\* of the model's client are not caught (Fail).
WriteFallback(r, top) ==
  /\ config.provider = "anthropic"
  /\ prompted' \in {prompted, prompted \cup {r}}
  /\ IF config.failOpen
     THEN HasText(r, TemplateText(top))
     ELSE UNCHANGED <<text, event>> /\ Ends(r, "refused")

Summarize(r) ==
  /\ pc[r] = "recalled"
  /\ \/ \E top \in SUBSET Alerts :
          TopAlerts(top, alerts[r]) /\ (WriteTemplate(r, top) \/ WriteFallback(r, top))
     \/ \E t \in Texts : WriteModel(r, t)
  /\ UNCHANGED <<config, listed, wish, alerts, rows, events, crm, memories, told>>

\* record_interaction: a failure is logged and forgotten.
Remember(r) ==
  /\ pc[r] = "committed" /\ Is(r, "osa_summary")
  /\ memories' \in {memories} \cup
       IF config.memory = "mem0" THEN {memories \cup {r}} ELSE {}
  /\ Goes(r, "answering")
  /\ UNCHANGED <<config, listed, wish, alerts, text, event, rows, events, crm,
                 prompted, told>>

--------------------------------------------------------------------------------
(* The actions of services/agent_actions.py *)

\* create_order_draft_action up to the commit.
DraftOrder(r) ==
  /\ pc[r] = "asked" /\ Is(r, "order_draft")
  /\ IF wish[r].allowed
     THEN event' = [event EXCEPT ![r] = TRUE] /\ Goes(r, "acted")
     ELSE UNCHANGED event /\ Ends(r, "refused")
  /\ UNCHANGED <<config, listed, wish, alerts, text, rows, events, outside, told>>

\* create_visit_log_draft_action: the CRM is called before there is a row.  A
\* call that times out may have been served, and so has one whose answer is no
\* JSON: response.json() raises a ValueError then, and the client hears 400.
LogVisitUnchecked(r) ==
  /\ pc[r] = "asked" /\ Is(r, "visit_log_draft")
  /\ crm' = IF config.crm = "external" THEN crm \cup {r} ELSE crm
  /\ IF wish[r].allowed
     THEN event' = [event EXCEPT ![r] = TRUE] /\ Goes(r, "acted")
     ELSE UNCHANGED event /\ Ends(r, "refused")
  /\ UNCHANGED <<config, listed, wish, alerts, text, rows, events, memories,
                 prompted, told>>

LogVisit(r) ==
  /\ pc[r] = "asked" /\ Is(r, "visit_log_draft")
  /\ IF ~wish[r].allowed
     THEN UNCHANGED <<crm, event>> /\ Ends(r, "refused")
     ELSE \/ /\ crm' = IF config.crm = "external" THEN crm \cup {r} ELSE crm
             /\ event' = [event EXCEPT ![r] = TRUE] /\ Goes(r, "acted")
          \/ /\ config.crm = "external" /\ crm' \in {crm, crm \cup {r}}
             /\ UNCHANGED event /\ Errs(r)
  /\ UNCHANGED <<config, listed, wish, alerts, text, rows, events, memories,
                 prompted, told>>

\* create_manager_task_action: an open task about the same thing is the answer,
\* without an audit event.
AssignTask(r) ==
  /\ pc[r] = "asked" /\ Is(r, "manager_task")
  /\ IF ~wish[r].allowed
     THEN UNCHANGED event /\ Ends(r, "refused")
     ELSE IF \E q \in rows : wish[q] = wish[r]
     THEN UNCHANGED event /\ Goes(r, "answering")
     ELSE event' = [event EXCEPT ![r] = TRUE] /\ Goes(r, "acted")
  /\ UNCHANGED <<config, listed, wish, alerts, text, rows, events, outside, told>>

--------------------------------------------------------------------------------
(* Commit, failure, stream *)

CommitAnswering(r) ==
  /\ pc[r] = "acted"
  /\ Goes(r, "answering")
  /\ UNCHANGED <<config, listed, wish, alerts, text, event, rows, events, outside, told>>

\* The row and the event of the run become visible together.
Commit(r) ==
  /\ pc[r] = "acted"
  /\ rows' = IF Is(r, "osa_summary") THEN rows ELSE rows \cup {r}
  /\ events' = events \cup {r}
  /\ Goes(r, "committed")
  /\ UNCHANGED <<config, listed, wish, alerts, text, event, outside, told>>

\* db.refresh, and the answer is built.
Reply(r) ==
  /\ pc[r] = "committed" /\ ~Is(r, "osa_summary")
  /\ Goes(r, "answering")
  /\ UNCHANGED <<config, listed, wish, alerts, text, event, rows, events, outside, told>>

\* An exception, a cancellation or a crash: what is not committed is rolled
\* back.  Up to the commit a ValueError of any call ends as a refusal.
Fail(r) ==
  /\ pc[r] \in Working
  /\ IF pc[r] = "committed" THEN Ends(r, "failed") ELSE Errs(r)
  /\ UNCHANGED <<config, listed, wish, alerts, text, event, rows, events, outside, told>>

Tell(r) ==
  /\ pc[r] = "answering" /\ wish[r].stream /\ client[r] = "waits"
  /\ told[r] < Len(Script(r))
  /\ told' = [told EXCEPT ![r] = @ + 1]
  /\ UNCHANGED <<config, listed, wish, pc, alerts, text, event, rows, events,
                 outside, client>>

\* The end of the stream, or the one answer of the other endpoints.
Answer(r) ==
  /\ pc[r] = "answering"
  /\ wish[r].stream /\ client[r] = "waits" => told[r] = Len(Script(r))
  /\ pc' = [pc EXCEPT ![r] = "over"]
  /\ client' = [client EXCEPT ![r] = IF @ = "waits" THEN "knows" ELSE @]
  /\ UNCHANGED <<config, listed, wish, alerts, text, event, rows, events, outside, told>>

\* The connection breaks, or the page is closed: the handler goes on.
Leave(r) ==
  /\ client[r] = "waits"
  /\ client' = [client EXCEPT ![r] = "error"]
  /\ UNCHANGED <<config, listed, wish, pc, alerts, text, event, rows, events,
                 outside, told>>

\* The data source lists other alerts from now on.
Relist(now) ==
  /\ listed' = now /\ now # listed
  /\ UNCHANGED <<config, wish, pc, alerts, text, event, rows, events, outside,
                 told, client>>

--------------------------------------------------------------------------------

Answers == {"allow", "block", "down", "garbled"}

Handler(r) ==
  \/ \E answer \in Answers : Guard(r, answer)
  \/ ReadAlerts(r) \/ ReadMemory(r) \/ Summarize(r) \/ Remember(r)
  \/ DraftOrder(r) \/ LogVisit(r) \/ AssignTask(r)
  \/ Commit(r) \/ Reply(r) \/ Fail(r)
  \/ Tell(r) \/ Answer(r)

Next ==
  \/ \E r \in Runs : Handler(r) \/ Leave(r) \/ \E w \in Wishes[r] : Ask(r, w)
  \/ \E now \in SUBSET Alerts : Relist(now)

Spec == Init /\ [][Next]_vars

--------------------------------------------------------------------------------
(* Properties *)

\* Type invariant.
TypeOK ==
  /\ config \in Configs /\ listed \in SUBSET Alerts
  /\ wish \in [Runs -> Wish \cup {None}] /\ pc \in [Runs -> PC]
  /\ alerts \in [Runs -> SUBSET Alerts] /\ text \in [Runs -> Texts]
  /\ event \in [Runs -> BOOLEAN]
  /\ rows \in SUBSET Runs /\ events \in SUBSET Runs
  /\ crm \in SUBSET Runs /\ memories \in SUBSET Runs /\ prompted \in SUBSET Runs
  /\ told \in [Runs -> 0..6]
  /\ client \in [Runs -> {"away", "waits", "knows", "error"}]

\* A client that has heard anything of a run, be it the first event of the stream
\* (api/routes/agent.py:190), is told of committed work: the run's own event and
\* row or, for a task, the open one it was given instead.  An audit event of the
\* stream is in the trail.
StreamTruthful ==
  \A r \in Runs :
    /\ told[r] > 0 \/ client[r] = "knows" =>
         \/ r \in events /\ (r \in rows \/ Is(r, "osa_summary"))
         \/ Is(r, "manager_task") /\ \E q \in rows : wish[q] = wish[r]
    /\ Seen(r, "audit") => r \in events

\* What is outside the transaction is accounted for: a refused run left nothing
\* in the database or in memory; a log of the CRM belongs to a request that was
\* allowed, and has its row unless that run is under way or has ended in an error
\* (agent_actions.py:140), which a client may read as a refusal (crm.py:44,
\* agent.py:156); a row of an external log is in the CRM; and memory holds
\* audited summaries only (agent_summary.py:121).
OutsideAccounted ==
  \A r \in Runs :
    /\ pc[r] = "refused" => r \notin rows \cup events \cup memories
    /\ r \in crm => /\ Is(r, "visit_log_draft") /\ wish[r].allowed
                    /\ r \in rows \/ pc[r] \in {"acted", "failed", "refused"}
    /\ r \in rows /\ Is(r, "visit_log_draft") /\ config.crm = "external" => r \in crm
    /\ r \in memories => r \in events

\* The alerts a summary may be about.
Asked(w) == {a \in OfStore(w.store, Alerts) : w.all \/ a \in w.ids}

\* Whatever the guardrail's settings and the model's text, a summary that reached
\* the trail has no alert, SKU or store id but those of alerts that were asked
\* for, of the store that was asked about (it may still pair the SKU of one with
\* the store of another), and a request with a blocked phrase reached neither
\* model nor memory.
SummaryGrounded ==
  \A r \in Runs : Is(r, "osa_summary") =>
    /\ r \in events => /\ text[r].alerts \subseteq Asked(wish[r])
                       /\ text[r].skus \subseteq SkusOf(Asked(wish[r]))
                       /\ text[r].stores \subseteq StoresOf(Asked(wish[r]))
    /\ PatternBlocks(wish[r]) => r \notin prompted \cup memories \cup events
================================================================================

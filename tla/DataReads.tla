------------------------------ MODULE DataReads ------------------------------
(***************************************************************************)
(* The endpoints that show data: visits of the day, store detail, alerts   *)
(* with their cursor, RGM recommendations, territory summary; and the      *)
(* admin feed of audit events, which also lists what the first four wrote  *)
(* about themselves.  The data come from the mock adapter or from          *)
(* Databricks, whose tables are refreshed while requests run and whose     *)
(* statements may take longer than the client waits.                       *)
(***************************************************************************)
EXTENDS Integers, FiniteSets, Sequences, SequencesExt

CONSTANTS
  Clients,     \* API clients; each makes one request, or follows one list
  Stores,      \* stores; a number stands for the store id
  Alerts,      \* rows the alert table may hold
  Territory,   \* the territory a store belongs to
  Reps,        \* reps
  Score,       \* the priority score of a store
  Recs,        \* the kinds of recommendation the RGM table has for a store
  None,        \* no store row, no cursor, no wish
  MaxRefreshes,\* how often a table is refreshed
  Starts       \* adapter, tables and what the clients are about to ask

Territories == {Territory[s] : s \in Stores} \cup {None}
RecKinds == {"promo", "assortment_gap", "upsell"}
Sources == {"mock", "databricks"}
Roles == {"rep", "manager", "admin"}

\* A row of osa_oos_alerts; id: its prediction row, of which a product of a store
\* may have several; sound: do its score and its freshness parse?
AlertRow == [id : Nat, store : Stores, sku : Nat, rep : Reps, risk : Nat,
             sound : BOOLEAN]

\* Role, rep and territory are the user's; territory_code is what is asked for.
Wish == [kind : {"alerts", "detail", "rgm", "visits", "territory", "feed"},
         role : Roles, rep : Reps, territory : Territories,
         store : Stores, territory_code : Territories,
         min : Nat, limit : Nat \ {0}]

ASSUME ConstantsTyped ==
  /\ Stores \subseteq Nat /\ IsFiniteSet(Stores)
  /\ Alerts \subseteq AlertRow /\ IsFiniteSet(Alerts)
  /\ Score \in [Stores -> Nat]
  /\ \A s \in Stores : Recs[s] \subseteq RecKinds \cup {"other"}
  /\ Starts \subseteq [source : Sources, alerts : SUBSET Alerts,
                      repOf : [Stores -> Reps], wish : [Clients -> Wish \cup {None}]]
  /\ MaxRefreshes \in Nat
  /\ None \notin Nat \cup Reps \cup Wish

VARIABLES
  source,    \* osa_adapter and rgm_adapter
  repOf,     \* the store table: the rep of a store, None if it has no row
  alerts,    \* the alert table
  wish,      \* what a client asks, None if it does not
  pc,        \* where its handler is
  cursor,    \* the cursor it sent
  owner,     \* the rep of the store its handler found
  page,      \* what its handler has read
  next,      \* the cursor its handler will answer with
  got,       \* what the client has been shown, page after page
  log,       \* audit events in the order of created_at: written by, count
  committed, \* those of them that are committed
  accounted, \* history: the sum of the counts of a client's committed events
  before,    \* the events that were committed when the client asked
  moved,     \* has a table changed since the client asked?
  late,      \* was a statement for it still running when its time was up?
  refreshes  \* refreshes so far

tables == <<source, repOf, alerts>>
handlers == <<wish, pc, cursor, owner, page, next>>
trail == <<log, committed, accounted>>
history == <<before, moved, late, refreshes>>
vars == <<tables, handlers, got, trail, history>>

Working == {"asked", "found", "read", "logged", "committed"}
PC == {"idle", "more", "done", "error"} \cup Working

--------------------------------------------------------------------------------
(* What the code does, named *)

\* The mock's tables are built once and are consistent, with one alert for a
\* product of a store.
Init ==
  /\ \E start \in Starts : /\ source = start.source /\ wish = start.wish
                           /\ alerts = start.alerts /\ repOf = start.repOf
  /\ source = "mock" =>
       /\ \A a \in alerts : a.sound /\ a.rep = repOf[a.store]
       /\ \A a, b \in alerts : a.store = b.store /\ a.sku = b.sku => a = b
  /\ pc = [c \in Clients |-> "idle"]
  /\ cursor = [c \in Clients |-> 0] /\ owner = [c \in Clients |-> None]
  /\ page = [c \in Clients |-> <<>>] /\ next = [c \in Clients |-> None]
  /\ got = [c \in Clients |-> <<>>]
  /\ log = <<>> /\ committed = {} /\ accounted = [c \in Clients |-> 0]
  /\ before = [c \in Clients |-> {}] /\ moved = [c \in Clients |-> FALSE]
  /\ late = [c \in Clients |-> FALSE] /\ refreshes = 0

\* SQLClient.execute: rows; none, when the statement is still running after ten
\* seconds (it is answered with 200 and no result); or an exception.
Outcomes == IF source = "mock" THEN {"rows"} ELSE {"rows", "running", "fails"}

\* assert_store_access
StoreAccess(w, rep) ==
  \/ w.role = "admin"
  \/ w.role = "manager" /\ w.territory = Territory[w.store]
  \/ w.role = "rep" /\ w.rep = rep /\ w.territory = Territory[w.store]

\* get_store_detail for a rep, get_store_detail_any for others.
StoreFound(w) ==
  repOf[w.store] # None /\ (w.role = "rep" => repOf[w.store] = w.rep)

Window(rows, offset, limit) ==
  SubSeq(rows, offset + 1, IF offset + limit < Len(rows) THEN offset + limit
                                                        ELSE Len(rows))

Sorted(S, Before(_, _)) ==
  [i \in 1..Cardinality(S) |->
     CHOOSE x \in S : Cardinality({y \in S : Before(y, x)}) = i - 1]

\* ORDER BY risk_score DESC, sku_id ASC: rows of a product may rank alike.
Riskier(a, b) == a.risk > b.risk \/ (a.risk = b.risk /\ a.sku < b.sku)

\* The lists a statement may make of the rows S; rows that rank alike come in any
\* order, which another statement need not repeat.
Listings(S) ==
  {s \in SetToSeqs(S) : \A i, j \in DOMAIN s : i < j => ~Riskier(s[j], s[i])}

\* MockOSAAdapter.get_oos_alerts
MockAlerts(w, rep, offset) ==
  IF repOf[w.store] # rep THEN {[rows |-> <<>>, next |-> None]}
  ELSE {[rows |-> Window(s, offset, w.limit),
         next |-> IF offset + w.limit < Len(s) THEN offset + w.limit ELSE None] :
        s \in Listings({a \in alerts : a.store = w.store /\ a.risk >= w.min})}

Matching(w, rep) ==
  {a \in alerts : a.store = w.store /\ a.rep = rep /\ a.risk >= w.min}

DatabricksAlertsSkipping(w, rep, offset) ==
  {[rows |-> p, next |-> IF Len(p) = w.limit THEN offset + w.limit + 1 ELSE None] :
   p \in {Window(s, offset, w.limit) : s \in Listings(Matching(w, rep))}}

\* DatabricksOSAAdapter.get_oos_alerts: a full page has a successor, so a list
\* whose length is a multiple of the limit ends with an empty page.
DatabricksAlerts(w, rep, offset) ==
  {[rows |-> p, next |-> IF Len(p) = w.limit THEN offset + w.limit ELSE None] :
   p \in {Window(s, offset, w.limit) : s \in Listings(Matching(w, rep))}}

\* get_visit_priority: ranked by the score, then by the store id.
Visits(w) ==
  Sorted({s \in Stores : repOf[s] = w.rep /\ Territory[s] = w.territory_code},
               LAMBDA s, t : Score[s] > Score[t] \/ (Score[s] = Score[t] /\ s < t))

\* get_territory_store_summaries
TerritoryStores(w) ==
  Sorted({s \in Stores : repOf[s] # None /\ Territory[s] = w.territory_code},
               LAMBDA s, t : Score[s] > Score[t] \/ (Score[s] = Score[t] /\ s < t))

\* get_recommendations: rows of another type are dropped.
Recommendations(w) ==
  SetToSeq(IF source = "mock" THEN RecKinds ELSE Recs[w.store] \cap RecKinds)

FeedExact(w, offset) ==
  LET rows == Window(Sorted(committed, LAMBDA i, j : i > j), offset, w.limit)
  IN [rows |-> rows,
      next |-> IF Len(rows) > w.limit THEN offset + w.limit ELSE None]

FeedOpenEnded(w, offset) ==
  LET rows == Window(Sorted(committed, LAMBDA i, j : i > j), offset, w.limit)
  IN [rows |-> rows, next |-> offset + Len(rows)]

\* audit_events: newest first, one row more than the page is read.
Feed(w, offset) ==
  LET rows == Window(Sorted(committed, LAMBDA i, j : i > j), offset,
                     w.limit + 1)
  IN [rows |-> Window(rows, 0, w.limit),
      next |-> IF Len(rows) > w.limit THEN offset + w.limit ELSE None]

\* What the query of a handler may return when its statement is in time.
Results(c) ==
  LET w == wish[c]
      whole(rows) == {[rows |-> rows, next |-> None]}
      rep == IF w.role = "rep" THEN w.rep ELSE owner[c]
  IN CASE w.kind = "alerts" -> IF source = "mock"
                               THEN MockAlerts(w, rep, cursor[c])
                               ELSE DatabricksAlerts(w, rep, cursor[c])
       [] w.kind = "rgm" -> whole(Recommendations(w))
       [] w.kind = "visits" -> whole(Visits(w))
       [] w.kind = "territory" -> whole(TerritoryStores(w))
       [] w.kind = "feed" -> {Feed(w, cursor[c])}

\* _alert_from_row raises on a row that does not parse.
Converts(w, rows) == w.kind = "alerts" => \A i \in DOMAIN rows : rows[i].sound

\* The role and territory checks of the handlers without a store.
Allowed(w) ==
  /\ w.kind = "territory" => w.role # "rep"
  /\ w.kind # "feed" => w.territory = w.territory_code \/ w.role = "admin"
  /\ w.kind = "feed" => w.role = "admin"

Audited(w) == w.kind \notin {"territory", "feed"}

Goes(c, to) == pc' = [pc EXCEPT ![c] = to]

--------------------------------------------------------------------------------
(* One request *)

Ask(c) ==
  /\ pc[c] = "idle" /\ wish[c] # None
  /\ Goes(c, "asked")
  /\ before' = [before EXCEPT ![c] = committed]
  /\ UNCHANGED <<tables, wish, cursor, owner, page, next, got, trail, moved, late, refreshes>>

\* The first read of a handler about a store.
FindStore(c, outcome) ==
  /\ pc[c] = "asked" /\ wish[c].kind \in {"alerts", "detail", "rgm"}
  /\ IF outcome = "rows" /\ StoreFound(wish[c])
        /\ StoreAccess(wish[c], repOf[wish[c].store])
     THEN /\ owner' = [owner EXCEPT ![c] = repOf[wish[c].store]]
          /\ page' = [page EXCEPT ![c] = IF wish[c].kind = "detail"
                                         THEN <<wish[c].store>> ELSE <<>>]
          /\ Goes(c, IF wish[c].kind = "detail" THEN "read" ELSE "found")
     ELSE UNCHANGED <<owner, page>> /\ Goes(c, "error")
  /\ UNCHANGED <<tables, wish, cursor, next, got, trail, history>>

Admit(c) ==
  /\ pc[c] = "asked" /\ wish[c].kind \in {"visits", "territory", "feed"}
  /\ Goes(c, IF Allowed(wish[c]) THEN "found" ELSE "error")
  /\ UNCHANGED <<tables, wish, cursor, owner, page, next, got, trail, history>>

\* The query of the handler; those of the mock and of the feed are in time.
Query(c, outcome) ==
  /\ pc[c] = "found"
  /\ wish[c].kind = "feed" => outcome = "rows"
  /\ \E result \in IF outcome = "rows" THEN Results(c)
                   ELSE {[rows |-> <<>>, next |-> None]} :
        IF outcome = "fails" \/ ~Converts(wish[c], result.rows)
        THEN UNCHANGED <<page, next>> /\ Goes(c, "error")
        ELSE /\ page' = [page EXCEPT ![c] = result.rows]
             /\ next' = [next EXCEPT ![c] = result.next]
             /\ Goes(c, IF Audited(wish[c]) THEN "read" ELSE "committed")
  /\ late' = [late EXCEPT ![c] = @ \/ outcome = "running"]
  /\ UNCHANGED <<tables, wish, cursor, owner, got, trail, before, moved, refreshes>>

\* log_audit_event: the row gets its created_at now and is seen after the commit.
Log(c) ==
  /\ pc[c] = "read"
  /\ log' = Append(log, [by |-> c, count |-> Len(page[c])])
  /\ Goes(c, "logged")
  /\ UNCHANGED <<tables, wish, cursor, owner, page, next, got, committed, accounted, history>>

CommitNothing(c) ==
  /\ pc[c] = "logged"
  /\ Goes(c, "committed")
  /\ UNCHANGED <<tables, wish, cursor, owner, page, next, got, trail, history>>

\* The row a handler logged last.
Logged(c) ==
  CHOOSE i \in DOMAIN log : /\ log[i].by = c
                            /\ \A j \in DOMAIN log : log[j].by = c => j <= i

Commit(c) ==
  /\ pc[c] = "logged"
  /\ committed' = committed \cup {Logged(c)}
  /\ accounted' = [accounted EXCEPT ![c] = @ + log[Logged(c)].count]
  /\ Goes(c, "committed")
  /\ UNCHANGED <<tables, wish, cursor, owner, page, next, got, log, history>>

Answer(c) ==
  /\ pc[c] = "committed"
  /\ got' = [got EXCEPT ![c] = @ \o page[c]]
  /\ Goes(c, IF next[c] = None THEN "done" ELSE "more")
  /\ UNCHANGED <<tables, wish, cursor, owner, page, next, trail, history>>

\* A client that wants the whole list sends the cursor it was given.
Follow(c) ==
  /\ pc[c] = "more"
  /\ cursor' = [cursor EXCEPT ![c] = next[c]]
  /\ Goes(c, "asked")
  /\ UNCHANGED <<tables, wish, owner, page, next, got, trail, history>>

\* An exception, a crash or a lost answer; a list that is cut is not resumed.
Fail(c) ==
  /\ pc[c] \in Working
  /\ Goes(c, "error")
  /\ UNCHANGED <<tables, wish, cursor, owner, page, next, got, trail, history>>

--------------------------------------------------------------------------------
(* The warehouse *)

Moves ==
  /\ source = "databricks" /\ refreshes < MaxRefreshes
  /\ moved' = [c \in Clients |-> moved[c] \/ pc[c] # "idle"]
  /\ refreshes' = refreshes + 1

\* A refresh replaces, adds or removes one row; larger ones are several steps.
RefreshAlert(a) ==
  /\ alerts' = IF a \in alerts THEN alerts \ {a}
               ELSE {b \in alerts : b.id # a.id} \cup {a}
  /\ Moves
  /\ UNCHANGED <<source, repOf, handlers, got, trail, before, late>>

\* A store is given to another rep, dropped or added.
RefreshStore(s, rep) ==
  /\ rep # repOf[s]
  /\ repOf' = [repOf EXCEPT ![s] = rep]
  /\ Moves
  /\ UNCHANGED <<source, alerts, handlers, got, trail, before, late>>

--------------------------------------------------------------------------------

Handler(c) ==
  \/ \E outcome \in Outcomes : FindStore(c, outcome) \/ Query(c, outcome)
  \/ Admit(c) \/ Log(c) \/ Commit(c) \/ Answer(c) \/ Fail(c)

Next ==
  \/ \E c \in Clients : Ask(c) \/ Handler(c) \/ Follow(c)
  \/ \E a \in Alerts : RefreshAlert(a)
  \/ \E s \in Stores, rep \in Reps \cup {None} : RefreshStore(s, rep)

Spec == Init /\ [][Next]_vars

\* Handlers run to their end, statements have timeouts, clients follow.
FairSpec == Spec /\ \A c \in Clients : WF_vars(Handler(c) \/ Follow(c))

--------------------------------------------------------------------------------
(* Properties *)

Items(kind) ==
  CASE kind = "alerts" -> Alerts [] kind = "rgm" -> RecKinds
    [] kind = "feed" -> DOMAIN log [] OTHER -> Stores

\* Type invariant; a cursor that is given leads on.
TypeOK ==
  /\ source \in Sources /\ alerts \subseteq Alerts
  /\ repOf \in [Stores -> Reps \cup {None}]
  /\ \A c \in Clients :
       /\ wish[c] \in Wish \cup {None} /\ pc[c] \in PC
       /\ cursor[c] \in Nat /\ next[c] \in Nat \cup {None}
       /\ owner[c] \in Reps \cup {None}
       /\ pc[c] # "idle" => got[c] \in Seq(Items(wish[c].kind))
       /\ pc[c] \in {"read", "logged", "committed", "more"} =>
            /\ page[c] \in Seq(Items(wish[c].kind))
            /\ next[c] # None => next[c] > cursor[c]
  /\ log \in Seq([by : Clients, count : Nat]) /\ committed \subseteq DOMAIN log
  /\ refreshes \in 0..MaxRefreshes

Listing(c) == pc[c] # "idle" /\ wish[c].kind = "alerts"

\* What a client that pages the alerts of a store should see in the end.
Due(c) == {a \in alerts : /\ a.store = wish[c].store /\ a.risk >= wish[c].min
                          /\ a.rep = repOf[a.store]}

\* May row a be the i-th when the rows S are listed?
InPlace(a, i, S) ==
  /\ Cardinality({b \in S : Riskier(b, a)}) < i
  /\ i <= Cardinality({b \in S : ~Riskier(a, b)})

\* While the tables stay as they are, whichever adapter answers (osa.py:203,
\* real.py:196) and whoever asks, every alert that is shown, page after page, is
\* due and at its place in the list, riskiest first, and a list that came to its
\* end without a slow statement has as many places as there are rows.  So a row
\* that ranks like no other is shown once and in its order; rows that rank alike
\* may take each other's place, one repeated and one left out, as no statement
\* (real.py:184) knows the order of the one before.
PagesInOrder ==
  \A c \in Clients : Listing(c) /\ ~moved[c] =>
    /\ \A i \in DOMAIN got[c] :
         got[c][i] \in Due(c) /\ InPlace(got[c][i], i, Due(c))
    /\ pc[c] = "done" /\ ~late[c] => Len(got[c]) = Cardinality(Due(c))

\* The feed may repeat events while others are written, also ones that get their
\* created_at first and commit later, but an admin who follows its cursors
\* (admin.py:51) has seen the newest of the events there were at the start
\* without a gap, and at the end all of them.
FeedComplete ==
  \A c \in Clients : pc[c] # "idle" /\ wish[c].kind = "feed" =>
    LET missing == before[c] \ ToSet(got[c])
    IN /\ \A i \in missing, j \in before[c] \cap ToSet(got[c]) : i < j
       /\ pc[c] = "done" => missing = {}

\* Nobody has been shown more than committed audit events say he was shown, and
\* what he was shown is his: of the store he asked for, with his rep id if he is
\* a rep, of a store his handler found in his territory (stores.py:63-76), though
\* stores change hands between the two reads of a handler.
AnswersAudited ==
  \A c \in Clients : got[c] # <<>> =>
    /\ Audited(wish[c]) =>
         /\ accounted[c] >= Len(got[c])
         /\ pc[c] = "done" => accounted[c] = Len(got[c])
    /\ wish[c].kind \in {"alerts", "detail", "rgm"} => StoreAccess(wish[c], owner[c])
    /\ Listing(c) => \A i \in DOMAIN got[c] :
         /\ got[c][i].store = wish[c].store
         /\ wish[c].role = "rep" => got[c][i].rep = wish[c].rep

\* A client that follows the cursors comes to an end.
ListingEnds ==
  \A c \in Clients : pc[c] = "asked" ~> pc[c] \in {"done", "error"}
================================================================================

----------------------------- MODULE MCDataReads -----------------------------
(* A store with up to three alerts, two of which may rank alike, and pages of  *)
(* one to three; a reader, a slower reader and an admin who pages the feed.    *)
EXTENDS DataReads

CONSTANTS c1, c2, c3, r1, r2, west

MCTerritory == [s \in {1} |-> west]
MCScore == [s \in {1} |-> 5]
MCRecs == [s \in {1} |-> {"promo", "other"}]

A(id, sku, risk, sound) ==
  [id |-> id, store |-> 1, sku |-> sku, rep |-> r1, risk |-> risk, sound |-> sound]
One == A(1, 1, 7, TRUE)
Two == A(2, 2, 9, TRUE)
Three == A(3, 3, 7, TRUE)
Again == A(3, 1, 7, TRUE)      \* the product of One, another day
Broken == A(2, 2, 9, FALSE)
MCAlerts == {One, Two, Three, Again, Broken}
Sound == {One, Two, Three}
Alike == {One, Two, Again}
Unsound == {One, Broken}

W(kind, role, limit) ==
  [kind |-> kind, role |-> role, rep |-> r1, territory |-> west, store |-> 1,
   territory_code |-> west, min |-> 7, limit |-> limit]
Start(from, rows, one, two, three) ==
  [source |-> from, alerts |-> rows, repOf |-> [s \in {1} |-> r1],
   wish |-> [c \in {c1, c2, c3} |-> IF c = c1 THEN one
                                   ELSE IF c = c2 THEN two ELSE three]]

\* The data do not matter to the feed, nor one reader to another, so readers that
\* meet the feed mostly read the mock.
MCStarts ==
  {Start("mock", Sound, W("alerts", "rep", n), None, None) : n \in 1..3} \cup
  {Start("databricks", rows, w, None, None) :
     rows \in {Sound, Alike, Unsound},
     w \in {[W("alerts", "rep", 2) EXCEPT !.min = 8], W("alerts", "manager", 2),
           W("alerts", "rep", 1), W("rgm", "manager", 1), W("visits", "rep", 1),
           W("territory", "manager", 1),
           [W("alerts", "manager", 1) EXCEPT !.territory = None],
           [W("visits", "rep", 1) EXCEPT !.territory_code = None]}} \cup
  {Start("databricks", Sound, W("detail", "rep", 1), None, W("feed", "admin", 1)),
   Start("mock", Sound, W("alerts", "rep", 2), W("detail", "rep", 1),
         W("feed", "admin", 1)),
   Start("mock", Sound, W("visits", "rep", 1), W("rgm", "manager", 1),
         W("feed", "admin", 2)),
   Start("mock", Sound, W("territory", "rep", 1), None, W("feed", "rep", 1))}
==============================================================================

---------------------------- MODULE AgentRunProofs ----------------------------
(***************************************************************************)
(* Proofs about AgentRun, for every set of requests, alerts, stores and    *)
(* settings, whatever the guardrail classifier and the model answer, with  *)
(* failures at every step and clients that leave.                          *)
(***************************************************************************)
EXTENDS AgentRun, TLAPS, FiniteSetTheorems, SequenceTheorems

--------------------------------------------------------------------------------
(* The inductive invariant: one formula per run *)

Before == {"idle", "refused", "asked", "guarded", "grounded", "recalled"}
After == {"answering", "over"}

\* The work of a run that was answered is committed; a duplicate task stands in.
Answered(r) ==
  \/ r \in events /\ (r \in rows \/ Is(r, "osa_summary"))
  \/ Is(r, "manager_task") /\ \E q \in rows : wish[q] = wish[r]

\* The alerts are among those the request asked for, of its store.
AskedFor(w, found) == found \subseteq Asked(w)

\* The identifiers of a text are those of such alerts, each kind for itself.
Fits(w, t) == Validated(t, Asked(w))

\* A request has a wish exactly when it has arrived, and reaches the model later.
Arrived(r) ==
  /\ pc[r] = "idle" <=> wish[r] = None
  /\ pc[r] = "idle" => r \notin prompted

\* A run has nothing anywhere before its commit, save its log in the CRM; an
\* error after the CRM was called may end it as a refusal.
CommitsOnce(r) ==
  /\ pc[r] \in Before => r \notin rows \cup events \cup memories
  /\ pc[r] \in Before \ {"refused"} => r \notin crm /\ ~event[r]
  /\ pc[r] = "acted" => r \notin rows \cup events \cup memories
  /\ pc[r] = "committed" => r \in events /\ (r \in rows \/ Is(r, "osa_summary"))
  /\ pc[r] \in After => Answered(r) /\ (event[r] => r \in events)

\* Only a run that is answered, or was, has told its client anything, and an
\* audit event only if there was one.
Heard(r) ==
  /\ told[r] > 0 \/ client[r] = "knows" => pc[r] \in After
  /\ Seen(r, "audit") => event[r]

\* What the CRM and memory hold.
Kept(r) ==
  /\ r \in crm => /\ Is(r, "visit_log_draft") /\ wish[r].allowed
                  /\ r \in rows \/ pc[r] \in {"acted", "failed", "refused"}
  /\ Is(r, "visit_log_draft") /\ config.crm = "external" =>
       (pc[r] = "acted" \/ r \in rows => r \in crm)
  /\ r \in memories => r \in events

\* What a summary is made of, from the grounded set to the trail.
Grounded(r) ==
  /\ pc[r] \in {"guarded", "grounded", "recalled"} => Is(r, "osa_summary")
  /\ pc[r] \in {"grounded", "recalled"} =>
       AskedFor(wish[r], alerts[r]) /\ ~PatternBlocks(wish[r])
  /\ Is(r, "osa_summary") /\ (pc[r] = "acted" \/ r \in events) =>
       Fits(wish[r], text[r]) /\ ~PatternBlocks(wish[r])
  /\ Is(r, "osa_summary") /\ r \in prompted => ~PatternBlocks(wish[r])

RunInv(r) == Arrived(r) /\ CommitsOnce(r) /\ Heard(r) /\ Kept(r) /\ Grounded(r)

AgentInv == TypeOK /\ \A r \in Runs : RunInv(r)

--------------------------------------------------------------------------------
(* Lemmas about the operators *)

\* A concatenation has the length of both parts and lacks what both lack.
LEMMA Concat ==
  ASSUME NEW S, NEW s \in Seq(S), NEW t \in Seq(S), NEW x
  PROVE  /\ s \o t \in Seq(S)
         /\ Len(s \o t) = Len(s) + Len(t)
         /\ (\A i \in 1..Len(s) : s[i] # x) /\ (\A i \in 1..Len(t) : t[i] # x)
              => \A i \in 1..Len(s \o t) : (s \o t)[i] # x
<1>1. /\ s \o t \in Seq(S) /\ Len(s \o t) = Len(s) + Len(t)
      /\ \A i \in 1..Len(s \o t) :
           (s \o t)[i] = IF i <= Len(s) THEN s[i] ELSE t[i - Len(s)]
  BY ConcatProperties
<1>2. ASSUME \A i \in 1..Len(s) : s[i] # x, \A i \in 1..Len(t) : t[i] # x,
             NEW i \in 1..Len(s \o t)
      PROVE  (s \o t)[i] # x
  <2>1. CASE i <= Len(s)
    BY <1>1, <1>2, <2>1
  <2>2. CASE ~(i <= Len(s))
    <3>1. i - Len(s) \in 1..Len(t)
      BY <1>1, <2>2
    <3>. QED
      BY <1>1, <1>2, <2>2, <3>1
  <2>. QED
    BY <2>1, <2>2
<1>. QED
  BY <1>1, <1>2

\* Sequences of one and of two elements.
LEMMA One ==
  ASSUME NEW S, NEW a \in S, NEW x
  PROVE  /\ <<a>> \in Seq(S) /\ Len(<<a>>) = 1
         /\ a # x => \A i \in 1..Len(<<a>>) : <<a>>[i] # x
<1>1. <<a>> \in Seq(S) /\ Len(<<a>>) = 1
  OBVIOUS
<1>2. ASSUME NEW i \in 1..Len(<<a>>) PROVE <<a>>[i] = a
  <2>1. i = 1
    BY <1>1
  <2>. QED
    BY <2>1
<1>. QED
  BY <1>1, <1>2

\* Two elements of a set are a sequence over it, with nothing else in it.
LEMMA Two ==
  ASSUME NEW S, NEW a \in S, NEW b \in S, NEW x
  PROVE  /\ <<a, b>> \in Seq(S) /\ Len(<<a, b>>) = 2
         /\ a # x /\ b # x => \A i \in 1..Len(<<a, b>>) : <<a, b>>[i] # x
<1>1. <<a, b>> \in Seq(S) /\ Len(<<a, b>>) = 2
  OBVIOUS
<1>2. ASSUME NEW i \in 1..Len(<<a, b>>) PROVE <<a, b>>[i] = a \/ <<a, b>>[i] = b
  <2>1. i = 1 \/ i = 2
    BY <1>1
  <2>. QED
    BY <2>1
<1>. QED
  BY <1>1, <1>2

Names == {"run_started", "supervisor_decision", "message", "action_result",
          "hitl_required", "audit", "run_completed"}

\* A stream has at most six events, and no audit event without one of the run.
LEMMA ScriptShape ==
  ASSUME NEW r \in Runs
  PROVE  /\ Len(Script(r)) \in 0..6
         /\ ~event[r] => \A i \in 1..Len(Script(r)) : Script(r)[i] # "audit"
<1> DEFINE
  A == <<"run_started", "supervisor_decision">>
  B == IF Is(r, "osa_summary") THEN <<"message">> ELSE <<"action_result">>
  C == IF Is(r, "order_draft") THEN <<"hitl_required">> ELSE <<>>
  D == IF event[r] THEN <<"audit">> ELSE <<>>
  E == <<"run_completed">>
<1>0. /\ <<>> \in Seq(Names) /\ Len(<<>>) = 0
      /\ \A i \in 1..Len(<<>>) : <<>>[i] # "audit"
  <2>1. <<>> \in Seq(Names) /\ Len(<<>>) = 0
    BY EmptySeq
  <2>2. ASSUME NEW i \in 1..Len(<<>>) PROVE FALSE
    <3>1. i \in 1..0
      BY <2>1
    <3>. QED
      BY <3>1
  <2>. QED
    BY <2>1, <2>2, Zenon
<1>1. A \in Seq(Names) /\ Len(A) = 2 /\ \A i \in 1..Len(A) : A[i] # "audit"
  <2>1. /\ "run_started" \in Names /\ "run_started" # "audit"
        /\ "supervisor_decision" \in Names /\ "supervisor_decision" # "audit"
    BY DEF Names
  <2>2. ASSUME NEW a \in Names, NEW b \in Names, a # "audit", b # "audit"
        PROVE  /\ <<a, b>> \in Seq(Names) /\ Len(<<a, b>>) = 2
               /\ \A i \in 1..Len(<<a, b>>) : <<a, b>>[i] # "audit"
    BY <2>2, Two
  <2>. QED
    BY <2>1, <2>2, Zenon
<1>2. B \in Seq(Names) /\ Len(B) = 1 /\ \A i \in 1..Len(B) : B[i] # "audit"
  <2>1. /\ "message" \in Names /\ "message" # "audit"
        /\ "action_result" \in Names /\ "action_result" # "audit"
    BY DEF Names
  <2>2. CASE Is(r, "osa_summary")
    <3>1. B = <<"message">>
      BY <2>2
    <3>. QED
      BY <2>1, <3>1, One, Zenon
  <2>3. CASE ~Is(r, "osa_summary")
    <3>1. B = <<"action_result">>
      BY <2>3
    <3>. QED
      BY <2>1, <3>1, One, Zenon
  <2>. QED
    BY <2>2, <2>3
<1>3. C \in Seq(Names) /\ Len(C) \in 0..1 /\ \A i \in 1..Len(C) : C[i] # "audit"
  <2>1. "hitl_required" \in Names /\ "hitl_required" # "audit"
    BY DEF Names
  <2>2. CASE Is(r, "order_draft")
    <3>1. C = <<"hitl_required">>
      BY <2>2
    <3>2. C \in Seq(Names) /\ Len(C) = 1 /\ \A i \in 1..Len(C) : C[i] # "audit"
      BY <2>1, <3>1, One, Zenon
    <3>. QED
      BY <3>2
  <2>3. CASE ~Is(r, "order_draft")
    BY <1>0, <2>3
  <2>. QED
    BY <2>2, <2>3
<1>4. /\ D \in Seq(Names) /\ Len(D) \in 0..1
      /\ ~event[r] => \A i \in 1..Len(D) : D[i] # "audit"
  <2>1. "audit" \in Names
    BY DEF Names
  <2>2. CASE event[r]
    <3>1. D = <<"audit">>
      BY <2>2
    <3>2. D \in Seq(Names) /\ Len(D) = 1
      BY <2>1, <3>1, One, Zenon
    <3>. QED
      BY <2>2, <3>2
  <2>3. CASE ~event[r]
    BY <1>0, <2>3
  <2>. QED
    BY <2>2, <2>3
<1>5. E \in Seq(Names) /\ Len(E) = 1 /\ \A i \in 1..Len(E) : E[i] # "audit"
  <2>1. "run_completed" \in Names /\ "run_completed" # "audit"
    BY DEF Names
  <2>. QED
    BY <2>1, One, Zenon
<1>6. Script(r) = A \o B \o C \o D \o E
  BY DEF Script
<1> HIDE DEF A, B, C, D, E
<1> DEFINE Lacks(s) == \A i \in 1..Len(s) : s[i] # "audit"
<1>7. ASSUME NEW s \in Seq(Names), NEW t \in Seq(Names)
      PROVE  /\ s \o t \in Seq(Names) /\ Len(s \o t) = Len(s) + Len(t)
             /\ Lacks(s) /\ Lacks(t) => Lacks(s \o t)
  BY Concat, Zenon
<1>8. Lacks(A) /\ Lacks(B) /\ Lacks(C) /\ (~event[r] => Lacks(D)) /\ Lacks(E)
  BY <1>1, <1>2, <1>3, <1>4, <1>5, Zenon
<1> HIDE DEF Lacks
<1>9. A \o B \in Seq(Names) /\ Len(A \o B) = 3 /\ Lacks(A \o B)
  <2>1. /\ A \o B \in Seq(Names) /\ Len(A \o B) = Len(A) + Len(B)
        /\ Lacks(A \o B)
    BY <1>1, <1>2, <1>7, <1>8, Zenon
  <2>. QED
    BY <1>1, <1>2, <2>1
<1>10. /\ A \o B \o C \in Seq(Names) /\ Len(A \o B \o C) \in 3..4
       /\ Lacks(A \o B \o C)
  <2>1. /\ A \o B \o C \in Seq(Names) /\ Len(A \o B \o C) = Len(A \o B) + Len(C)
        /\ Lacks(A \o B \o C)
    BY <1>3, <1>7, <1>8, <1>9, Zenon
  <2>. QED
    BY <1>3, <1>9, <2>1
<1>11. /\ A \o B \o C \o D \in Seq(Names) /\ Len(A \o B \o C \o D) \in 3..5
       /\ ~event[r] => Lacks(A \o B \o C \o D)
  <2>1. /\ A \o B \o C \o D \in Seq(Names)
        /\ Len(A \o B \o C \o D) = Len(A \o B \o C) + Len(D)
        /\ ~event[r] => Lacks(A \o B \o C \o D)
    BY <1>4, <1>7, <1>8, <1>10, Zenon
  <2>2. \A p \in 3..4, q \in 0..1 : p + q \in 3..5
    OBVIOUS
  <2>. QED
    BY <1>4, <1>10, <2>1, <2>2, Zenon
<1>12. /\ Len(A \o B \o C \o D \o E) \in 4..6
       /\ ~event[r] => Lacks(A \o B \o C \o D \o E)
  <2>1. /\ Len(A \o B \o C \o D \o E) = Len(A \o B \o C \o D) + Len(E)
        /\ ~event[r] => Lacks(A \o B \o C \o D \o E)
    BY <1>5, <1>7, <1>8, <1>11, Zenon
  <2>. QED
    BY <1>5, <1>11, <2>1
<1>. QED
  BY <1>6, <1>12 DEF Lacks

\* A request that grounds has asked for alerts only: a blocked phrase is none,
\* so it does not ground, and what it finds was asked for.
LEMMA GroundedIds ==
  ASSUME NEW w \in Wish, listed \in SUBSET Alerts, Grounds(w)
  PROVE  /\ ~PatternBlocks(w)
         /\ AskedFor(w, OfStore(w.store, AlertsByIds(w)))
<1>1. AskedFor(w, OfStore(w.store, AlertsByIds(w)))
  BY DEF AskedFor, Asked, OfStore, AlertsByIds
<1>2. CASE w.all
  BY <1>1, <1>2 DEF PatternBlocks
<1>3. CASE ~w.all
  <2>1. w.ids \in SUBSET (Alerts \cup {Phrase})
    BY DEF Wish
  <2>2. IsFiniteSet(w.ids)
    <3>1. IsFiniteSet(Alerts \cup {Phrase})
      BY ConstantsTyped, FS_AddElement
    <3>. QED
      BY <2>1, <3>1, FS_Subset
  <2>3. AlertsByIds(w) \subseteq w.ids
    BY <1>3 DEF AlertsByIds
  <2>4. Cardinality(AlertsByIds(w)) = Cardinality(w.ids)
    BY <1>3 DEF Grounds
  <2>5. AlertsByIds(w) = w.ids
    BY <2>2, <2>3, <2>4, FS_Subset
  <2>6. Phrase \notin w.ids
    BY <2>5, ConstantsTyped DEF AlertsByIds
  <2>. QED
    BY <1>1, <2>6 DEF PatternBlocks
<1>. QED
  BY <1>2, <1>3

\* A template names the stores of grounded alerts only.
LEMMA TemplateFits ==
  ASSUME NEW found \in SUBSET Alerts, NEW top \in SUBSET Alerts, top \subseteq found
  PROVE  TemplateText(top) \in Texts /\ Validated(TemplateText(top), found)
<1>1. TemplateText(top) = [alerts |-> {}, skus |-> {}, stores |-> StoresOf(top)]
  BY DEF TemplateText, NoText
<1>2. StoresOf(top) \subseteq StoresOf(found) /\ StoresOf(top) \subseteq Stores
  BY ConstantsTyped DEF StoresOf
<1>. QED
  BY <1>1, <1>2 DEF Texts, Validated, SkusOf

\* What is validated against some alerts is so against more of them.
LEMMA MoreFits ==
  ASSUME NEW found, NEW asked, found \subseteq asked, NEW t, Validated(t, found)
  PROVE  Validated(t, asked)
BY DEF Validated, SkusOf, StoresOf

\* The three ways to a text: it is validated against the grounded alerts, or the
\* request is refused.
LEMMA TextOf ==
  ASSUME TypeOK, NEW r \in Runs, Summarize(r)
  PROVE  /\ \E t \in Texts :
              \/ /\ Validated(t, alerts[r])
                 /\ text' = [text EXCEPT ![r] = t] /\ event' = [event EXCEPT ![r] = TRUE]
                 /\ Goes(r, "acted")
              \/ UNCHANGED <<text, event>> /\ Ends(r, "refused")
         /\ prompted' = prompted \/ prompted' = prompted \cup {r}
         /\ UNCHANGED <<config, listed, wish, alerts, rows, events, crm, memories, told>>
<1>0. NoText \in Texts
  BY DEF NoText, Texts
<1>1. CASE \E top \in SUBSET Alerts :
             TopAlerts(top, alerts[r]) /\ (WriteTemplate(r, top) \/ WriteFallback(r, top))
  <2>1. PICK top \in SUBSET Alerts :
               TopAlerts(top, alerts[r]) /\ (WriteTemplate(r, top) \/ WriteFallback(r, top))
    BY <1>1
  <2>2. alerts[r] \in SUBSET Alerts /\ top \subseteq alerts[r]
    BY <2>1 DEF TypeOK, TopAlerts
  <2>3. TemplateText(top) \in Texts /\ Validated(TemplateText(top), alerts[r])
    BY <2>2, TemplateFits
  <2>. QED
    BY <1>0, <2>1, <2>3 DEF Summarize, WriteTemplate, WriteFallback, HasText
<1>2. CASE \E t \in Texts : WriteModel(r, t)
  BY <1>2 DEF Summarize, WriteModel, HasText
<1>. QED
  BY <1>1, <1>2 DEF Summarize

--------------------------------------------------------------------------------
(* Types *)

\* Every variable keeps its type.
LEMMA TypeStep == ASSUME TypeOK, [Next]_vars PROVE TypeOK'
<1>1. CASE UNCHANGED vars
  BY <1>1 DEF TypeOK, vars, outside
<1>2. ASSUME NEW r \in Runs, Handler(r) PROVE TypeOK'
  <2> USE DEF Ends, Goes, Errs, PC, Working
  <2>1. ASSUME NEW answer \in Answers, Guard(r, answer) PROVE TypeOK'
    BY <2>1 DEF TypeOK, Guard, outside
  <2>2. CASE ReadAlerts(r)
    BY <2>2 DEF TypeOK, ReadAlerts, outside, OfStore, AlertsByIds
  <2>3. CASE ReadMemory(r)
    BY <2>3 DEF TypeOK, ReadMemory, outside
  <2>4. CASE Summarize(r)
    <3>1. PICK t \in Texts :
            \/ /\ text' = [text EXCEPT ![r] = t] /\ event' = [event EXCEPT ![r] = TRUE]
               /\ Goes(r, "acted")
            \/ UNCHANGED <<text, event>> /\ Ends(r, "refused")
      BY <2>4, TextOf
    <3>2. /\ text' = text \/ text' = [text EXCEPT ![r] = t]
          /\ event' = event \/ event' = [event EXCEPT ![r] = TRUE]
          /\ \E how \in PC : pc' = [pc EXCEPT ![r] = how]
          /\ client' = client \/ client' = [client EXCEPT ![r] = IF @ = "waits" THEN "error" ELSE @]
          /\ prompted' = prompted \/ prompted' = prompted \cup {r}
      BY <2>4, <3>1, TextOf
    <3>3. UNCHANGED <<config, listed, wish, alerts, rows, events, crm, memories, told>>
      BY <2>4 DEF Summarize
    <3>4. /\ text' \in [Runs -> Texts]
          /\ event' \in [Runs -> BOOLEAN]
          /\ prompted' \in SUBSET Runs
      <4>1. text' \in [Runs -> Texts]
        BY <3>2 DEF TypeOK
      <4>2. event' \in [Runs -> BOOLEAN]
        BY <3>2, Zenon DEF TypeOK
      <4>3. prompted' \in SUBSET Runs
        BY <3>2 DEF TypeOK
      <4>. QED
        BY <4>1, <4>2, <4>3
    <3>5. pc' \in [Runs -> PC] /\ client' \in [Runs -> {"away", "waits", "knows", "error"}]
      BY <3>2 DEF TypeOK
    <3>. QED
      BY <3>3, <3>4, <3>5 DEF TypeOK
  <2>5. CASE Remember(r)
    BY <2>5 DEF TypeOK, Remember
  <2>6. CASE DraftOrder(r)
    BY <2>6 DEF TypeOK, DraftOrder, outside
  <2>7. CASE LogVisit(r)
    <3>1. /\ crm' = crm \/ crm' = crm \cup {r}
          /\ event' = event \/ event' = [event EXCEPT ![r] = TRUE]
          /\ \E how \in PC : pc' = [pc EXCEPT ![r] = how]
          /\ client' = client \/ client' = [client EXCEPT ![r] = IF @ = "waits" THEN "error" ELSE @]
      BY <2>7 DEF LogVisit
    <3>2. UNCHANGED <<config, listed, wish, alerts, text, rows, events, memories, prompted, told>>
      BY <2>7 DEF LogVisit
    <3>. QED
      BY <3>1, <3>2 DEF TypeOK
  <2>8. CASE AssignTask(r)
    BY <2>8 DEF TypeOK, AssignTask, outside
  <2>9. CASE Commit(r)
    BY <2>9 DEF TypeOK, Commit, outside
  <2>10. CASE Reply(r)
    BY <2>10 DEF TypeOK, Reply, outside
  <2>11. CASE Fail(r)
    BY <2>11 DEF TypeOK, Fail, outside
  <2>12. CASE Tell(r)
    <3>1. told[r] + 1 \in 0..6
      <4>1. Len(Script(r)) \in 0..6 /\ told[r] \in 0..6
        BY ScriptShape DEF TypeOK
      <4>2. told[r] < Len(Script(r))
        BY <2>12 DEF Tell
      <4>3. \A m, n \in 0..6 : m < n => m + 1 \in 0..6
        OBVIOUS
      <4>. QED
        BY <4>1, <4>2, <4>3, Zenon
    <3>. QED
      BY <2>12, <3>1 DEF TypeOK, Tell, outside
  <2>13. CASE Answer(r)
    BY <2>13 DEF TypeOK, Answer, outside
  <2>. QED
    BY <1>2, <2>1, <2>2, <2>3, <2>4, <2>5, <2>6, <2>7, <2>8, <2>9, <2>10, <2>11,
       <2>12, <2>13 DEF Handler
<1>3. ASSUME NEW r \in Runs, Leave(r) PROVE TypeOK'
  BY <1>3 DEF TypeOK, Leave, outside
<1>4. ASSUME NEW r \in Runs, NEW w \in Wishes[r], Ask(r, w) PROVE TypeOK'
  BY <1>4, ConstantsTyped DEF TypeOK, Ask, outside, PC, Working
<1>5. ASSUME NEW now \in SUBSET Alerts, Relist(now) PROVE TypeOK'
  BY <1>5 DEF TypeOK, Relist, outside
<1>. QED
  BY <1>1, <1>2, <1>3, <1>4, <1>5 DEF Next

--------------------------------------------------------------------------------
(* A step of one run as the others see it *)

\* What belongs to a run stays as it is.
Keeps(q) ==
  /\ wish'[q] = wish[q] /\ pc'[q] = pc[q] /\ alerts'[q] = alerts[q]
  /\ text'[q] = text[q] /\ event'[q] = event[q] /\ told'[q] = told[q]
  /\ client'[q] = client[q]
  /\ (q \in rows') = (q \in rows) /\ (q \in events') = (q \in events)
  /\ (q \in crm') = (q \in crm) /\ (q \in memories') = (q \in memories)
  /\ (q \in prompted') = (q \in prompted)

\* The settings stay, rows stay, and a row keeps the wish it was made for.
Grows ==
  /\ config' = config /\ rows \subseteq rows'
  /\ \A q \in rows : wish'[q] = wish[q]

\* A run that is not touched keeps its invariant while rows grow.
LEMMA Untouched ==
  ASSUME TypeOK, NEW q \in Runs, RunInv(q), Keeps(q), Grows
  PROVE  RunInv(q)'
<1> USE DEF Keeps, Grows
<1>1. \A intent : Is(q, intent)' <=> Is(q, intent)
  BY DEF Is
<1>2. Arrived(q)' /\ Heard(q)'
  <2>1. Script(q)' = Script(q)
    BY <1>1 DEF Script
  <2>2. Seen(q, "audit")' <=> Seen(q, "audit")
    BY <2>1 DEF Seen
  <2>. QED
    BY <2>2 DEF RunInv, Arrived, Heard, After
<1>3. Answered(q) => Answered(q)'
  <2>1. ASSUME NEW p \in rows, wish[p] = wish[q] PROVE p \in rows' /\ wish'[p] = wish'[q]
    BY <2>1
  <2>. QED
    BY <1>1, <2>1 DEF Answered
<1>4. CommitsOnce(q)'
  BY <1>1, <1>3 DEF RunInv, CommitsOnce, Before, After
<1>5. Kept(q)'
  BY <1>1 DEF RunInv, Kept
<1>6. Grounded(q)'
  <2>1. /\ PatternBlocks(wish[q])' <=> PatternBlocks(wish[q])
        /\ AskedFor(wish[q], alerts[q])' <=> AskedFor(wish[q], alerts[q])
        /\ Fits(wish[q], text[q])' <=> Fits(wish[q], text[q])
    BY DEF PatternBlocks, AskedFor, Fits, Asked, OfStore, Validated, SkusOf, StoresOf
  <2>. QED
    BY <1>1, <2>1 DEF RunInv, Grounded
<1>. QED
  BY <1>2, <1>4, <1>5, <1>6 DEF RunInv

\* Every step is one of a single run, or of none.
LEMMA OneRun ==
  ASSUME AgentInv, Next
  PROVE  /\ Grows
         /\ \/ \A q \in Runs : Keeps(q)
            \/ \E r \in Runs :
                 /\ Handler(r) \/ Leave(r) \/ \E w \in Wishes[r] : Ask(r, w)
                 /\ \A q \in Runs \ {r} : Keeps(q)
<1> USE DEF AgentInv, TypeOK, Keeps, Grows, outside
<1>1. ASSUME NEW r \in Runs, NEW w \in Wishes[r], Ask(r, w)
      PROVE  Grows /\ \A q \in Runs \ {r} : Keeps(q)
  <2>1. r \notin rows
    BY <1>1 DEF Ask, RunInv, CommitsOnce, Before
  <2>. QED
    BY <1>1, <2>1 DEF Ask
<1>2. ASSUME NEW r \in Runs, Handler(r)
      PROVE  Grows /\ \A q \in Runs \ {r} : Keeps(q)
  <2> USE DEF Ends, Goes, Errs
  <2>1. ASSUME NEW answer \in Answers, Guard(r, answer)
        PROVE  Grows /\ \A q \in Runs \ {r} : Keeps(q)
    BY <2>1 DEF Guard
  <2>2. CASE ReadAlerts(r)
    BY <2>2 DEF ReadAlerts
  <2>3. CASE ReadMemory(r)
    BY <2>3 DEF ReadMemory
  <2>4. CASE Summarize(r)
    <3>1. /\ \E t \in Texts :
               \/ /\ text' = [text EXCEPT ![r] = t] /\ event' = [event EXCEPT ![r] = TRUE]
                  /\ Goes(r, "acted")
               \/ UNCHANGED <<text, event>> /\ Ends(r, "refused")
          /\ prompted' = prompted \/ prompted' = prompted \cup {r}
      BY <2>4, TextOf
    <3>2. ASSUME NEW q \in Runs \ {r}
          PROVE  /\ text'[q] = text[q] /\ event'[q] = event[q] /\ pc'[q] = pc[q]
                 /\ client'[q] = client[q] /\ (q \in prompted') = (q \in prompted)
      BY <3>1
    <3>3. UNCHANGED <<config, listed, wish, alerts, rows, events, crm, memories, told>>
      BY <2>4 DEF Summarize
    <3>. QED
      BY <3>2, <3>3
  <2>5. CASE Remember(r)
    BY <2>5 DEF Remember
  <2>6. CASE DraftOrder(r)
    BY <2>6 DEF DraftOrder
  <2>7. CASE LogVisit(r)
    <3>1. ASSUME NEW q \in Runs \ {r}
          PROVE  /\ event'[q] = event[q] /\ pc'[q] = pc[q]
                 /\ client'[q] = client[q] /\ (q \in crm') = (q \in crm)
      BY <2>7 DEF LogVisit
    <3>2. UNCHANGED <<config, listed, wish, alerts, text, rows, events, memories, prompted, told>>
      BY <2>7 DEF LogVisit
    <3>. QED
      BY <3>1, <3>2
  <2>8. CASE AssignTask(r)
    BY <2>8 DEF AssignTask
  <2>9. CASE Commit(r)
    BY <2>9 DEF Commit
  <2>10. CASE Reply(r)
    BY <2>10 DEF Reply
  <2>11. CASE Fail(r)
    BY <2>11 DEF Fail
  <2>12. CASE Tell(r)
    BY <2>12 DEF Tell
  <2>13. CASE Answer(r)
    BY <2>13 DEF Answer
  <2>. QED
    BY <1>2, <2>1, <2>2, <2>3, <2>4, <2>5, <2>6, <2>7, <2>8, <2>9, <2>10, <2>11,
       <2>12, <2>13 DEF Handler
<1>3. ASSUME NEW r \in Runs, Leave(r)
      PROVE  Grows /\ \A q \in Runs \ {r} : Keeps(q)
  BY <1>3 DEF Leave
<1>4. ASSUME NEW now \in SUBSET Alerts, Relist(now)
      PROVE  Grows /\ \A q \in Runs : Keeps(q)
  BY <1>4 DEF Relist
<1> HIDE DEF AgentInv, TypeOK, Keeps, Grows, outside
<1>. QED
  BY <1>1, <1>2, <1>3, <1>4 DEF Next

--------------------------------------------------------------------------------
(* A step of one run as the run itself sees it *)

\* The other rows a run may have been answered with are still there.
LEMMA StandIn ==
  ASSUME NEW r \in Runs, Grows, wish'[r] = wish[r]
  PROVE  (\E q \in rows : wish[q] = wish[r]) => \E q \in rows' : wish'[q] = wish'[r]
BY DEF Grows

\* The stream and the client change no work of the run.
LEMMA ClientOnly ==
  ASSUME TypeOK, NEW r \in Runs, Tell(r) \/ Answer(r) \/ Leave(r)
  PROVE  /\ UNCHANGED <<config, wish, alerts, text, event, rows, events, crm, memories,
                        prompted>>
         /\ pc'[r] = pc[r] \/ (pc[r] = "answering" /\ pc'[r] = "over")
<1>1. CASE Tell(r)
  BY <1>1 DEF Tell, outside
<1>2. CASE Answer(r)
  BY <1>2 DEF Answer, outside, TypeOK
<1>3. CASE Leave(r)
  BY <1>3 DEF Leave, outside
<1>. QED
  BY <1>1, <1>2, <1>3

\* A request gets its wish when it arrives, and keeps it.
LEMMA ArrivedStep ==
  ASSUME AgentInv, NEW r \in Runs, Grows,
         Handler(r) \/ Leave(r) \/ \E w \in Wishes[r] : Ask(r, w)
  PROVE  Arrived(r)'
<1> USE DEF AgentInv, RunInv, TypeOK, Arrived
<1>1. ASSUME NEW w \in Wishes[r], Ask(r, w) PROVE Arrived(r)'
  <2>1. w # None
    BY ConstantsTyped
  <2>. QED
    BY <1>1, <2>1 DEF Ask
<1>2. ASSUME NEW answer \in Answers, Guard(r, answer) PROVE Arrived(r)'
  BY <1>2 DEF Guard, Ends, Errs, Goes
<1>3. CASE Summarize(r)
  <2>1. pc[r] # "idle" /\ wish' = wish /\ pc'[r] # "idle"
    BY <1>3 DEF Summarize, WriteTemplate, WriteModel, WriteFallback, HasText, Ends, Goes
  <2>. QED
    BY <2>1
<1>4. CASE ReadAlerts(r) \/ ReadMemory(r) \/ Remember(r) \/ DraftOrder(r)
  BY <1>4 DEF ReadAlerts, ReadMemory, Remember, DraftOrder, Ends, Goes
<1>5. CASE LogVisit(r) \/ AssignTask(r) \/ Commit(r) \/ Reply(r)
  <2>1. pc[r] # "idle" /\ wish' = wish /\ pc'[r] # "idle"
    BY <1>5 DEF LogVisit, AssignTask, Commit, Reply, Ends, Errs, Goes
  <2>. QED
    BY <2>1
<1>6. CASE Fail(r)
  <2>1. pc[r] # "idle" /\ wish' = wish /\ pc'[r] # "idle"
    BY <1>6 DEF Fail, Ends, Errs, Working
  <2>. QED
    BY <2>1
<1>7. CASE Tell(r) \/ Answer(r) \/ Leave(r)
  <2>1. /\ UNCHANGED <<wish, prompted>>
        /\ pc'[r] = pc[r] \/ (pc[r] = "answering" /\ pc'[r] = "over")
    BY <1>7, ClientOnly
  <2>. QED
    BY <2>1
<1>. QED
  BY <1>1, <1>2, <1>3, <1>4, <1>5, <1>6, <1>7 DEF Handler

\* A client hears of a run only from its stream or its answer.
LEMMA HeardStep ==
  ASSUME AgentInv, NEW r \in Runs, Grows,
         Handler(r) \/ Leave(r) \/ \E w \in Wishes[r] : Ask(r, w)
  PROVE  Heard(r)'
<1> USE DEF AgentInv, RunInv, TypeOK, Heard
<1>1. ASSUME pc[r] \notin After, told' = told,
             client'[r] \in {client[r], "error", "waits"}
      PROVE  Heard(r)'
  <2>1. told'[r] = 0
    BY <1>1
  <2>2. \A i \in 1..0 : FALSE
    OBVIOUS
  <2>3. ~Seen(r, "audit")'
    BY <2>1, <2>2 DEF Seen
  <2>. QED
    BY <1>1, <2>1, <2>3
<1>2. ASSUME UNCHANGED <<wish, event>>
      PROVE  Script(r)' = Script(r)
  BY <1>2 DEF Script, Is
<1>3. ASSUME UNCHANGED <<wish, event, told>>, pc'[r] = pc[r] \/ pc'[r] \in After,
             client'[r] = client[r] \/ client'[r] = "error" \/ pc'[r] \in After
      PROVE  Heard(r)'
  <2>1. Seen(r, "audit")' <=> Seen(r, "audit")
    BY <1>2, <1>3 DEF Seen
  <2>. QED
    BY <1>3, <2>1
<1>4. ASSUME NEW w \in Wishes[r], Ask(r, w) PROVE Heard(r)'
  <2>1. /\ pc[r] \notin After /\ told' = told
        /\ client'[r] \in {client[r], "error", "waits"}
    BY <1>4 DEF Ask, After
  <2>. QED
    BY <1>1, <2>1
<1>5. ASSUME NEW answer \in Answers, Guard(r, answer) PROVE Heard(r)'
  <2>1. /\ pc[r] \notin After /\ told' = told
        /\ client'[r] \in {client[r], "error", "waits"}
    BY <1>5 DEF Guard, Ends, Errs, Goes, After
  <2>. QED
    BY <1>1, <2>1
<1>6. CASE Summarize(r)
  <2>1. /\ pc[r] \notin After /\ told' = told
        /\ client'[r] \in {client[r], "error", "waits"}
    BY <1>6 DEF Summarize, WriteTemplate, WriteModel, WriteFallback, HasText, Ends,
                Goes, After
  <2>. QED
    BY <1>1, <2>1
<1>7. CASE ReadAlerts(r) \/ ReadMemory(r) \/ Remember(r) \/ DraftOrder(r)
  <2>1. /\ pc[r] \notin After /\ told' = told
        /\ client'[r] \in {client[r], "error", "waits"}
    BY <1>7 DEF ReadAlerts, ReadMemory, Remember, DraftOrder, Ends, Goes, After
  <2>. QED
    BY <1>1, <2>1
<1>8. CASE LogVisit(r) \/ AssignTask(r) \/ Commit(r) \/ Reply(r) \/ Fail(r)
  <2>1. /\ pc[r] \notin After /\ told' = told
        /\ client'[r] \in {client[r], "error", "waits"}
    BY <1>8 DEF LogVisit, AssignTask, Commit, Reply, Fail, Ends, Errs, Goes, Working, After
  <2>. QED
    BY <1>1, <2>1
<1>9. CASE Tell(r)
  <2>1. /\ UNCHANGED <<wish, event, pc>> /\ pc[r] \in After
        /\ told'[r] = told[r] + 1 /\ told[r] < Len(Script(r))
    BY <1>9 DEF Tell, After
  <2>2. /\ Len(Script(r)) \in 0..6 /\ told[r] \in 0..6
        /\ ~event[r] => \A i \in 1..Len(Script(r)) : Script(r)[i] # "audit"
    BY ScriptShape
  <2>3. 1..told'[r] \subseteq 1..Len(Script(r))
    <3>1. \A m, n \in 0..6 : m < n => 1..(m + 1) \subseteq 1..n
      OBVIOUS
    <3>. QED
      BY <2>1, <2>2, <3>1, Zenon
  <2>4. Seen(r, "audit")' => event[r]
    BY <1>2, <2>1, <2>2, <2>3, Zenon DEF Seen
  <2>. QED
    BY <2>1, <2>4
<1>10. CASE Answer(r)
  <2>1. /\ UNCHANGED <<wish, event, told>> /\ pc'[r] \in After
    BY <1>10 DEF Answer, After
  <2>. QED
    BY <1>3, <2>1
<1>11. CASE Leave(r)
  <2>1. /\ UNCHANGED <<wish, event, told>> /\ pc'[r] = pc[r] /\ client'[r] = "error"
    BY <1>11 DEF Leave
  <2>. QED
    BY <1>3, <2>1
<1> HIDE DEF AgentInv, RunInv, TypeOK, Heard
<1>. QED
  BY <1>4, <1>5, <1>6, <1>7, <1>8, <1>9, <1>10, <1>11 DEF Handler

\* Before the commit there is nothing to see; the commit makes all of it visible.
LEMMA CommitsOnceStep ==
  ASSUME AgentInv, NEW r \in Runs, Grows,
         Handler(r) \/ Leave(r) \/ \E w \in Wishes[r] : Ask(r, w)
  PROVE  CommitsOnce(r)'
<1> USE DEF AgentInv, RunInv, TypeOK, CommitsOnce, Before, After, outside
<1>1. ASSUME NEW w \in Wishes[r], Ask(r, w) PROVE CommitsOnce(r)'
  BY <1>1 DEF Ask
<1>2. ASSUME NEW answer \in Answers, Guard(r, answer) PROVE CommitsOnce(r)'
  BY <1>2 DEF Guard, Ends, Errs, Goes
<1>3. CASE ReadAlerts(r)
  BY <1>3 DEF ReadAlerts, Ends, Goes
<1>4. CASE ReadMemory(r)
  BY <1>4 DEF ReadMemory, Goes
<1>5. CASE Summarize(r)
  <2>1. /\ pc[r] = "recalled"
        /\ \/ pc'[r] = "acted"
           \/ pc'[r] = "refused" /\ event' = event
        /\ UNCHANGED <<rows, events, crm, memories>>
    BY <1>5 DEF Summarize, WriteTemplate, WriteModel, WriteFallback, HasText, Ends, Goes
  <2>. QED
    BY <2>1
<1>6. CASE Remember(r)
  <2>1. /\ r \in events /\ pc'[r] = "answering" /\ Is(r, "osa_summary")
        /\ UNCHANGED <<wish, rows, events>>
    BY <1>6 DEF Remember, Goes
  <2>2. Answered(r)'
    BY <2>1 DEF Answered, Is
  <2>. QED
    BY <2>1, <2>2
<1>7. CASE DraftOrder(r)
  BY <1>7 DEF DraftOrder, Ends, Goes
<1>8. CASE LogVisit(r)
  <2>1. /\ pc[r] = "asked" /\ UNCHANGED <<rows, events, memories>>
        /\ pc'[r] \in {"acted", "failed", "refused"}
    BY <1>8 DEF LogVisit, Ends, Errs, Goes
  <2>. QED
    BY <2>1
<1>9. CASE AssignTask(r)
  <2>1. /\ pc[r] = "asked" /\ UNCHANGED <<wish, rows, events, crm, memories>>
        /\ \/ pc'[r] = "acted"
           \/ pc'[r] = "refused" /\ event' = event
           \/ pc'[r] = "answering" /\ event' = event /\ \E q \in rows : wish[q] = wish[r]
    BY <1>9 DEF AssignTask, Ends, Goes
  <2>2. ASSUME \E q \in rows : wish[q] = wish[r] PROVE Answered(r)'
    BY <1>9, <2>1, <2>2 DEF AssignTask, Answered, Is
  <2>. QED
    BY <2>1, <2>2
<1>10. CASE Commit(r)
  BY <1>10 DEF Commit, Goes, Is
<1>11. CASE Reply(r)
  <2>1. /\ r \in events /\ r \in rows /\ pc'[r] = "answering"
        /\ UNCHANGED <<wish, rows, events>>
    BY <1>11 DEF Reply, Goes
  <2>2. Answered(r)'
    BY <2>1 DEF Answered
  <2>. QED
    BY <2>1, <2>2
<1>12. CASE Fail(r)
  <2>1. /\ pc[r] \in Working /\ UNCHANGED <<wish, event, rows, events, crm, memories>>
        /\ \/ pc'[r] = "failed"
           \/ pc[r] # "committed" /\ pc'[r] = "refused"
    BY <1>12 DEF Fail, Ends, Errs, outside
  <2>. QED
    BY <2>1 DEF Working
<1>13. CASE Tell(r) \/ Answer(r) \/ Leave(r)
  <2>1. /\ UNCHANGED <<wish, event, rows, events, crm, memories>>
        /\ pc'[r] = pc[r] \/ (pc[r] = "answering" /\ pc'[r] = "over")
    BY <1>13, ClientOnly
  <2>2. Is(r, "osa_summary")' <=> Is(r, "osa_summary")
    BY <2>1 DEF Is
  <2>3. Answered(r) => Answered(r)'
    BY <2>1 DEF Answered, Is
  <2>. QED
    BY <2>1, <2>2, <2>3
<1>. QED
  BY <1>1, <1>2, <1>3, <1>4, <1>5, <1>6, <1>7, <1>8, <1>9, <1>10, <1>11, <1>12,
     <1>13 DEF Handler

\* The CRM is called by visit logs alone, memory after the commit alone.
LEMMA KeptStep ==
  ASSUME AgentInv, NEW r \in Runs, Grows,
         Handler(r) \/ Leave(r) \/ \E w \in Wishes[r] : Ask(r, w)
  PROVE  Kept(r)'
<1> USE DEF AgentInv, RunInv, TypeOK, CommitsOnce, Kept, Before, outside
<1>1. ASSUME NEW w \in Wishes[r], Ask(r, w) PROVE Kept(r)'
  BY <1>1 DEF Ask
<1>2. CASE LogVisit(r)
  <2>1. /\ pc[r] = "asked" /\ Is(r, "visit_log_draft")
        /\ UNCHANGED <<config, wish, rows, events, memories>>
        /\ \/ pc'[r] = "refused" /\ crm' = crm
           \/ pc'[r] \in {"failed", "refused"} /\ wish[r].allowed
                /\ crm' \in {crm, crm \cup {r}}
           \/ pc'[r] = "acted" /\ wish[r].allowed /\ crm' = IF config.crm = "external" THEN crm \cup {r} ELSE crm
    BY <1>2 DEF LogVisit, Ends, Errs, Goes
  <2>2. \A intent : Is(r, intent)' <=> Is(r, intent)
    BY <2>1 DEF Is
  <2>. QED
    BY <2>1, <2>2
<1>3. CASE Commit(r)
  <2>1. /\ pc[r] = "acted" /\ pc'[r] = "committed" /\ r \in events'
        /\ UNCHANGED <<config, wish, crm, memories>>
        /\ rows' = IF Is(r, "osa_summary") THEN rows ELSE rows \cup {r}
    BY <1>3 DEF Commit, Goes
  <2>2. \A intent : Is(r, intent)' <=> Is(r, intent)
    BY <2>1 DEF Is
  <2>3. Is(r, "visit_log_draft") => ~Is(r, "osa_summary")
    BY DEF Is
  <2>. QED
    BY <2>1, <2>2, <2>3
<1>4. CASE Remember(r)
  <2>1. /\ pc[r] = "committed" /\ pc'[r] = "answering" /\ r \in events
        /\ UNCHANGED <<config, wish, rows, events, crm>>
    BY <1>4 DEF Remember, Goes
  <2>2. \A intent : Is(r, intent)' <=> Is(r, intent)
    BY <2>1 DEF Is
  <2>. QED
    BY <2>1, <2>2
<1>5. ASSUME UNCHANGED <<config, wish, rows, events, crm, memories>>,
             \/ pc'[r] = pc[r]
             \/ pc'[r] = "acted" /\ ~Is(r, "visit_log_draft")
             \/ pc'[r] # "acted" /\ pc[r] \notin {"acted", "failed", "refused"}
             \/ pc'[r] \in {"failed", "refused"}
      PROVE  Kept(r)'
  <2>1. \A intent : Is(r, intent)' <=> Is(r, intent)
    BY <1>5 DEF Is
  <2>. QED
    BY <1>5, <2>1
<1>6. CASE Summarize(r)
  <2>1. /\ UNCHANGED <<config, wish, rows, events, crm, memories>>
        /\ pc[r] = "recalled"
        /\ pc'[r] \in {"acted", "refused"}
    BY <1>6 DEF Summarize, WriteTemplate, WriteModel, WriteFallback, HasText, Ends, Goes
  <2>2. ~Is(r, "visit_log_draft")
    BY <2>1 DEF Grounded, Is
  <2>. QED
    BY <1>5, <2>1, <2>2
<1>7. ASSUME NEW answer \in Answers, Guard(r, answer) PROVE Kept(r)'
  <2>1. /\ UNCHANGED <<config, wish, rows, events, crm, memories>>
        /\ pc[r] \notin {"acted", "failed", "refused"} /\ pc'[r] # "acted"
    BY <1>7 DEF Guard, Ends, Errs, Goes
  <2>. QED
    BY <1>5, <2>1
<1>8. CASE ReadAlerts(r) \/ ReadMemory(r) \/ Reply(r) \/ Answer(r)
  <2>1. /\ UNCHANGED <<config, wish, rows, events, crm, memories>>
        /\ pc[r] \notin {"acted", "failed", "refused"} /\ pc'[r] # "acted"
    BY <1>8 DEF ReadAlerts, ReadMemory, Reply, Answer, Ends, Goes
  <2>. QED
    BY <1>5, <2>1
<1>9. CASE DraftOrder(r) \/ AssignTask(r)
  <2>1. UNCHANGED <<config, wish, rows, events, crm, memories>> /\ pc[r] = "asked"
    BY <1>9 DEF DraftOrder, AssignTask
  <2>2. ~Is(r, "visit_log_draft")
    BY <1>9 DEF DraftOrder, AssignTask, Is
  <2>. QED
    BY <1>5, <2>1, <2>2
<1>10. CASE Fail(r)
  <2>1. UNCHANGED <<config, wish, rows, events, crm, memories>> /\ pc'[r] \in {"failed", "refused"}
    BY <1>10 DEF Fail, Ends, Errs
  <2>. QED
    BY <1>5, <2>1
<1>11. CASE Tell(r) \/ Leave(r)
  <2>1. UNCHANGED <<config, wish, rows, events, crm, memories>> /\ pc'[r] = pc[r]
    BY <1>11 DEF Tell, Leave
  <2>. QED
    BY <1>5, <2>1
<1> HIDE DEF AgentInv, RunInv, TypeOK, CommitsOnce, Kept, Before, outside
<1>. QED
  BY <1>1, <1>2, <1>3, <1>4, <1>6, <1>7, <1>8, <1>9, <1>10, <1>11 DEF Handler

\* The alerts of a summary are grounded before the text is written.
LEMMA GroundedStep ==
  ASSUME AgentInv, NEW r \in Runs, Grows,
         Handler(r) \/ Leave(r) \/ \E w \in Wishes[r] : Ask(r, w)
  PROVE  Grounded(r)'
<1> DEFINE ForSummary == Is(r, "osa_summary")
           Fit(found) == AskedFor(wish[r], found)
           Clean == ~PatternBlocks(wish[r])
<1> USE DEF AgentInv, RunInv, TypeOK, CommitsOnce, Grounded, Before, outside
<1>1. ASSUME NEW w \in Wishes[r], Ask(r, w) PROVE Grounded(r)'
  <2>1. /\ r \notin prompted \cup events
        /\ pc'[r] \in {"refused", "asked"}
        /\ prompted' = prompted /\ events' = events
    BY <1>1 DEF Ask, Arrived
  <2>. QED
    BY <2>1
<1>2. ASSUME wish' = wish
      PROVE  /\ Is(r, "osa_summary")' <=> ForSummary
             /\ PatternBlocks(wish[r])' <=> ~Clean
             /\ AskedFor(wish[r], alerts[r])' <=> Fit(alerts'[r])
             /\ Fits(wish[r], text[r])' <=> Fits(wish[r], text'[r])
  BY <1>2 DEF Is, PatternBlocks, AskedFor, Fits, Asked, OfStore, Validated, SkusOf, StoresOf
<1>3. ASSUME NEW answer \in Answers, Guard(r, answer) PROVE Grounded(r)'
  <2>1. /\ wish' = wish /\ pc[r] = "asked" /\ ForSummary
        /\ pc'[r] \in {"refused", "failed", "guarded"}
        /\ UNCHANGED <<events, prompted>>
    BY <1>3 DEF Guard, Ends, Errs, Goes
  <2>. QED
    BY <1>2, <2>1
<1>4. CASE ReadAlerts(r)
  <2>1. /\ wish' = wish /\ pc[r] = "guarded" /\ UNCHANGED <<text, events, prompted>>
        /\ \/ pc'[r] = "refused"
           \/ /\ pc'[r] = "grounded" /\ Grounds(wish[r])
              /\ alerts'[r] = OfStore(wish[r].store, AlertsByIds(wish[r]))
    BY <1>4 DEF ReadAlerts, Ends, Goes
  <2>2. wish[r] \in Wish
    BY <2>1 DEF Is
  <2>3. Grounds(wish[r]) =>
          Clean /\ Fit(OfStore(wish[r].store, AlertsByIds(wish[r])))
    BY <2>2, GroundedIds
  <2>. QED
    BY <1>2, <2>1, <2>3
<1>5. CASE ReadMemory(r)
  BY <1>2, <1>5 DEF ReadMemory, Goes
<1>6. CASE Summarize(r)
  <2>1. PICK t \in Texts :
          \/ /\ Validated(t, alerts[r])
             /\ text' = [text EXCEPT ![r] = t] /\ event' = [event EXCEPT ![r] = TRUE]
             /\ Goes(r, "acted")
          \/ UNCHANGED <<text, event>> /\ Ends(r, "refused")
    BY <1>6, TextOf
  <2>2. /\ wish' = wish /\ pc[r] = "recalled" /\ events' = events
    BY <1>6 DEF Summarize
  <2>3. \/ pc'[r] = "acted" /\ text'[r] = t /\ Validated(t, alerts[r])
        \/ pc'[r] = "refused" /\ text' = text
    BY <2>1 DEF Ends, Goes
  <2>4. /\ Fit(alerts[r]) /\ Clean /\ r \notin events
    BY <2>2
  <2>5. Validated(t, alerts[r]) => Fits(wish[r], t)
    BY <2>4, MoreFits DEF AskedFor, Fits
  <2>. QED
    BY <1>2, <2>2, <2>3, <2>4, <2>5
<1>7. ASSUME UNCHANGED <<wish, text, prompted>>,
             pc'[r] \notin {"guarded", "grounded", "recalled"},
             \/ events' = events /\ (pc'[r] = "acted" => pc[r] = "acted" \/ ~ForSummary)
             \/ events' = events \cup {r} /\ pc[r] = "acted" /\ pc'[r] # "acted"
      PROVE  Grounded(r)'
  BY <1>2, <1>7
<1>8. CASE DraftOrder(r) \/ LogVisit(r) \/ AssignTask(r)
  <2>1. /\ UNCHANGED <<wish, text, prompted, events>>
        /\ pc'[r] \notin {"guarded", "grounded", "recalled"}
    BY <1>8 DEF DraftOrder, LogVisit, AssignTask, Ends, Errs, Goes
  <2>2. ~ForSummary
    BY <1>8 DEF DraftOrder, LogVisit, AssignTask, Is
  <2>. QED
    BY <1>7, <2>1, <2>2
<1>9. CASE Commit(r)
  <2>1. /\ UNCHANGED <<wish, text, prompted>> /\ events' = events \cup {r}
        /\ pc[r] = "acted" /\ pc'[r] = "committed"
    BY <1>9 DEF Commit, Goes
  <2>. QED
    BY <1>7, <2>1
<1>10. CASE Remember(r) \/ Reply(r) \/ Fail(r) \/ Answer(r)
  <2>1. /\ UNCHANGED <<wish, text, prompted, events>>
        /\ pc'[r] \notin {"guarded", "grounded", "recalled", "acted"}
    BY <1>10 DEF Remember, Reply, Fail, Answer, Ends, Errs, Goes
  <2>. QED
    BY <1>7, <2>1
<1>11. CASE Tell(r) \/ Leave(r)
  <2>1. UNCHANGED <<wish, alerts, text, prompted, events>> /\ pc'[r] = pc[r]
    BY <1>11 DEF Tell, Leave
  <2>. QED
    BY <1>2, <2>1
<1> HIDE DEF AgentInv, RunInv, TypeOK, CommitsOnce, Grounded, Before, outside
<1>. QED
  BY <1>1, <1>3, <1>4, <1>5, <1>6, <1>8, <1>9, <1>10, <1>11 DEF Handler

--------------------------------------------------------------------------------
(* Theorems *)

\* The invariant holds at the start, when no request has arrived.
LEMMA AgentInit == Init => AgentInv
<1>. SUFFICES ASSUME Init PROVE AgentInv
  OBVIOUS
<1>1. TypeOK
  BY ConstantsTyped DEF Init, TypeOK, PC, Texts, NoText
<1>2. ASSUME NEW r \in Runs PROVE RunInv(r)
  <2>1. /\ pc[r] = "idle" /\ wish[r] = None /\ event[r] = FALSE
        /\ told[r] = 0 /\ client[r] = "away"
        /\ r \notin rows /\ r \notin events /\ r \notin crm
        /\ r \notin memories /\ r \notin prompted
    BY DEF Init
  <2>2. ~Seen(r, "audit")
    <3>1. \A i \in 1..0 : FALSE
      OBVIOUS
    <3>. QED
      BY <2>1, <3>1 DEF Seen
  <2>. QED
    BY <2>1, <2>2 DEF RunInv, Arrived, CommitsOnce, Heard, Kept, Grounded, Before, After
<1>. QED
  BY <1>1, <1>2 DEF AgentInv

\* Every step keeps it, for the run that moves and for the others.
LEMMA AgentStep == ASSUME AgentInv, [Next]_vars PROVE AgentInv'
<1>1. TypeOK'
  BY TypeStep DEF AgentInv
<1>2. CASE UNCHANGED vars
  <2>1. Grows /\ \A q \in Runs : Keeps(q)
    BY <1>2 DEF Grows, Keeps, vars, outside
  <2>. QED
    BY <1>1, <2>1, Untouched DEF AgentInv
<1>3. CASE Next
  <2>1. Grows
    BY <1>3, OneRun
  <2>2. ASSUME NEW q \in Runs, Keeps(q) PROVE RunInv(q)'
    BY <2>1, <2>2, Untouched DEF AgentInv
  <2>3. CASE \A q \in Runs : Keeps(q)
    BY <1>1, <2>2, <2>3 DEF AgentInv
  <2>4. ASSUME NEW r \in Runs,
               Handler(r) \/ Leave(r) \/ \E w \in Wishes[r] : Ask(r, w),
               \A q \in Runs \ {r} : Keeps(q)
        PROVE  AgentInv'
    <3>1. RunInv(r)'
      BY <2>1, <2>4, ArrivedStep, CommitsOnceStep, HeardStep, KeptStep, GroundedStep
         DEF RunInv
    <3>. QED
      BY <1>1, <2>2, <2>4, <3>1 DEF AgentInv
  <2>. QED
    BY <1>3, <2>3, <2>4, OneRun
<1>. QED
  BY <1>2, <1>3

\* The inductive invariant: what a run has outside its transaction, what its
\* commit made visible, what its client has heard and what its summary may say.
THEOREM RunsCorrect == Spec => []AgentInv
<1>1. Init => AgentInv
  BY AgentInit
<1>2. AgentInv /\ [Next]_vars => AgentInv'
  BY AgentStep
<1>. QED
  BY <1>1, <1>2, PTL DEF Spec

\* Every variable of the assistant keeps its type.
THEOREM RunTypeCorrect == Spec => []TypeOK
<1>1. AgentInv => TypeOK
  BY DEF AgentInv
<1>. QED
  BY <1>1, RunsCorrect, PTL

\* What the stream of /agent/run and the answers of the other endpoints tell is
\* committed, whatever fails and however often clients leave and ask again.
THEOREM StreamIsTrue == Spec => []StreamTruthful
<1>1. ASSUME AgentInv, NEW r \in Runs
      PROVE  /\ told[r] > 0 \/ client[r] = "knows" => Answered(r)
             /\ Seen(r, "audit") => r \in events
  <2>1. /\ told[r] > 0 \/ client[r] = "knows" => pc[r] \in After
        /\ Seen(r, "audit") => event[r]
        /\ pc[r] \in After => Answered(r) /\ (event[r] => r \in events)
    BY <1>1 DEF AgentInv, RunInv, Heard, CommitsOnce
  <2>2. Seen(r, "audit") => told[r] > 0
    <3>1. told[r] \in 0..6
      BY <1>1 DEF AgentInv, TypeOK
    <3>2. ASSUME NEW i \in 1..told[r] PROVE told[r] > 0
      BY <3>1
    <3>. QED
      BY <3>2 DEF Seen
  <2>. QED
    BY <2>1, <2>2
<1>2. AgentInv => StreamTruthful
  BY <1>1 DEF StreamTruthful, Answered
<1>. QED
  BY <1>2, RunsCorrect, PTL

\* Nothing a run left in the CRM, in memory or in its tables is unaccounted for.
THEOREM OutsideIsAccounted == Spec => []OutsideAccounted
<1>1. AgentInv => OutsideAccounted
  BY DEF AgentInv, RunInv, CommitsOnce, Kept, OutsideAccounted, Before
<1>. QED
  BY <1>1, RunsCorrect, PTL

\* A summary on record holds no alert, SKU or store id but those of alerts that
\* were asked for, and a blocked phrase
\* reaches neither the model nor memory, whatever the guardrail is set to.
THEOREM SummaryIsGrounded == Spec => []SummaryGrounded
<1>1. ASSUME AgentInv, NEW r \in Runs, Is(r, "osa_summary")
      PROVE  /\ r \in events =>
                  /\ text[r].alerts \subseteq Asked(wish[r])
                  /\ text[r].skus \subseteq SkusOf(Asked(wish[r]))
                  /\ text[r].stores \subseteq StoresOf(Asked(wish[r]))
             /\ PatternBlocks(wish[r]) => r \notin prompted \cup memories \cup events
  <2>1. RunInv(r)
    BY <1>1 DEF AgentInv
  <2>. QED
    BY <1>1, <2>1 DEF RunInv, Kept, Grounded, Fits, Validated
<1>2. AgentInv => SummaryGrounded
  BY <1>1 DEF SummaryGrounded
<1>. QED
  BY <1>2, RunsCorrect, PTL

================================================================================

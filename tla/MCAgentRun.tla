------------------------------ MODULE MCAgentRun ------------------------------
(* Two alerts of two stores and SKUs, and a SKU of none; settings that differ *)
(* from the default in turn.                                                  *)
EXTENDS AgentRun

CONSTANTS a1, a2, k1, k2, k3, s1, s2, r1, r2

MCAlerts == {a1, a2}
MCStores == {s1, s2}
MCSkus == {k1, k2, k3}
MCSkuOf == [a \in MCAlerts |-> IF a = a1 THEN k1 ELSE k2]
MCStoreOf == [a \in MCAlerts |-> IF a = a1 THEN s1 ELSE s2]

Default == [enabled |-> TRUE, guardrail |-> "pattern", failClosed |-> TRUE,
            provider |-> "template", failOpen |-> FALSE,
            memory |-> "none", crm |-> "local"]
External == [Default EXCEPT !.guardrail = "external_classifier",
                            !.provider = "anthropic", !.memory = "mem0",
                            !.crm = "external"]
MCConfigs == {[Default EXCEPT !.enabled = FALSE],
              [Default EXCEPT !.provider = "anthropic", !.failOpen = TRUE],
              External,
              [External EXCEPT !.failClosed = FALSE, !.failOpen = TRUE]}

Summary(stream, all, ids, store) ==
  [intent |-> "osa_summary", stream |-> stream, allowed |-> TRUE, store |-> store,
   all |-> all, ids |-> ids]
Action(intent, stream, allowed) ==
  [intent |-> intent, stream |-> stream, allowed |-> allowed, store |-> s1,
   all |-> FALSE, ids |-> {a1}]

\* Only tasks meet another run's work, so the second run asks for a task.
MCWishes == [r \in {r1, r2} |-> IF r = r2 THEN {Action("manager_task", TRUE, TRUE)} ELSE
            {Summary(TRUE, FALSE, {a1, a2}, s1), Summary(FALSE, TRUE, {}, None),
             Summary(TRUE, FALSE, {a1, Phrase}, None),
             [Summary(FALSE, TRUE, {}, None) EXCEPT !.allowed = FALSE],
             Action("order_draft", TRUE, TRUE),
             Action("visit_log_draft", FALSE, TRUE),
             Action("visit_log_draft", TRUE, FALSE),
             Action("manager_task", TRUE, TRUE)}]
================================================================================

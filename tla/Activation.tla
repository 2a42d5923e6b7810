------------------------------ MODULE Activation ------------------------------
(* Taking the scaffold to a pilot: the operator edits the settings, runs the  *)
(* scripts that produce evidence, records what they wrote, starts the backend *)
(* and asks it, or a consolidated check, whether a target is ready.           *)
(*                                                                            *)
(* Settings are read once per process (config.get_settings is cached), so the *)
(* backend answers from the settings of its start while every script reads    *)
(* the settings of today.                                                     *)
EXTENDS LiveContracts, Naturals

CONSTANTS
    Settings,    \* the settings a configuration may hold
    Starts,      \* the configurations the operator begins with
    ViewStarts,  \* the states the external views may be in
    Editable,    \* the settings the operator edits by hand
    Samples,     \* the sets of contracts the operator has validated at once
    MaxSteps,    \* bound: edits, scripts and recordings of the operator
    None         \* no file, no refusal, no check

\* The flags of the evidence manifests; times and summaries gate nothing.
Evidence == {"ai_demo_eval_validated", "live_data_contract_validated"}
EvidenceKeys == build_evidence_manifest("pilot")
Kinds == {"report", "bundle", "snapshot", "handoff", "suite", "verification"}

ASSUME ConstantsTyped ==
    /\ Starts \subseteq SUBSET Settings
    /\ EvidenceKeys \subseteq Settings
    /\ Editable \subseteq Settings \ Evidence
    /\ Samples \subseteq SUBSET Contracts
    /\ MaxSteps \in Nat
    /\ None \notin Ports /\ None \notin BOOLEAN

VARIABLES
    env,        \* the settings as they are written down now
    server,     \* the backend process: up, and the settings it has read
    refusal,    \* the last port this process refused because of its settings
    unread,     \* the last live read of this process its view could not answer
    views,      \* the external views
    evalFile,   \* osa_eval_results.json: None, or whether the eval passed and
                \* whether the approved model answered in it
    aiEnv,      \* ai_demo_eval_env.json: None, or the value it gives the flag
    liveEnv,    \* readiness_env.json: None, or the value it gives the flag; both
                \* files give a time and a summary with it
    snippet,    \* pilot_validation.env.snippet: the keys it sets, and how
    check,      \* what a consolidated check has just said of which settings
    steps,      \* operator steps so far
    proven,     \* history: evidence some run has really established
    sampled     \* history: contracts the last validation found valid

files == <<evalFile, aiEnv, liveEnv, snippet>>
process == <<server, refusal, unread>>
history == <<proven, sampled>>
vars == <<env, process, views, files, check, steps, history>>

EvalResults == [passed : BOOLEAN, anthropic : BOOLEAN]
Checks == [kind : Kinds, target : Targets, cfg : SUBSET Settings, evaluated : BOOLEAN,
           passed : BOOLEAN]
Snippets == UNION {[keys -> BOOLEAN] : keys \in SUBSET EvidenceKeys}

Init ==
    /\ env \in Starts
    /\ server = [up |-> FALSE, cfg |-> {}]
    /\ refusal = None /\ unread = None
    /\ views \in ViewStarts
    /\ evalFile = None /\ aiEnv = None /\ liveEnv = None
    /\ snippet = [k \in {} |-> FALSE]
    /\ check = None
    /\ steps = 0
    /\ proven = env \cap Evidence  \* recorded earlier, taken as established
    /\ sampled = {}

-----------------------------------------------------------------------------
(* The operator and the backend process                                       *)

OperatorStep ==
    /\ steps < MaxSteps
    /\ steps' = steps + 1
    /\ check' = None

Edit(s) ==
    /\ OperatorStep
    /\ env' = IF s \in env THEN env \ {s} ELSE env \cup {s}
    /\ UNCHANGED <<process, views, files, history>>

\* No port is opened at the start: a configuration no port accepts starts too.
Start ==
    /\ server' = [up |-> TRUE, cfg |-> env]
    /\ refusal' = None /\ unread' = None /\ check' = None
    /\ UNCHANGED <<env, views, files, steps, history>>

\* A refused port is asked anew by every request: failures are not cached.
Use(p) ==
    /\ server.up
    /\ ~Serves(server.cfg)[p]
    /\ refusal' = p
    /\ UNCHANGED <<env, server, unread, views, files, check, steps, history>>

\* A live read whose statement the view cannot run fails the request.
Read(r) ==
    /\ server.up
    /\ LiveReads[r].switch \in server.cfg
    /\ Serves(server.cfg)[LiveReads[r].port]
    /\ ~Readable(r, views)
    /\ unread' = r
    /\ UNCHANGED <<env, server, refusal, views, files, check, steps, history>>

-----------------------------------------------------------------------------
(* The scripts that produce evidence                                          *)

\* Requests of a script carry the tokens of the mock identity provider and go
\* through the ports, and the views, the settings select.
Answers(ports, reads, cfg) ==
    /\ "auth_provider" \notin cfg
    /\ \A p \in ports : Serves(cfg)[p]
    /\ \A r \in reads : LiveReads[r].switch \in cfg => Readable(r, views)

\* Any eval may fail on latency, cost or grounding.  One that passes has met
\* the model, or the template throughout; with summary_fail_open the template
\* answers for a model that fails, case by case.  Every case reads its trace back
\* from the database, where the Unity Catalog sink alone stores nothing.
run_eval(cfg, required) ==
    [passed : {FALSE}, anthropic : BOOLEAN] \cup
    {e \in [passed : {TRUE}, anthropic : BOOLEAN] :
        /\ Answers({"osa", "audit", "memory", "guardrail", "exporter", "summary"},
                   {"visits", "store_detail", "alerts", "alerts_by_ids"}, cfg)
        /\ "audit_sink" \notin cfg
        /\ IF e.anthropic THEN ModelConfigured(cfg)
           ELSE "summary_provider" \notin cfg \/ "summary_fail_open" \in cfg
        /\ required => e.anthropic}

\* scripts/run_eval.py --require-provider anthropic: failed results are written too.
RunEval ==
    /\ OperatorStep
    /\ \E e \in run_eval(env, TRUE) :
        /\ evalFile' = e
        /\ proven' = IF e.passed THEN proven \cup {"ai_demo_eval_validated"} ELSE proven
    /\ UNCHANGED <<env, process, views, aiEnv, liveEnv, snippet, sampled>>

evidence_from_eval_resultUnread(e) == e.anthropic
evidence_from_eval_result(e) == e.passed /\ e.anthropic

\* scripts/ai_demo_eval_evidence.py, written before the script fails on it.
WriteEvidence ==
    /\ OperatorStep
    /\ evalFile # None
    /\ aiEnv' = evidence_from_eval_result(evalFile)
    /\ UNCHANGED <<env, process, views, evalFile, liveEnv, snippet, history>>

\* scripts/validate_live_data_contracts.py: an operator may name some of the
\* contracts, and the value written speaks for those.
RunLive(names) ==
    /\ OperatorStep
    /\ \E reached \in BOOLEAN :
        LET valid == {c \in names :
                        reached /\ ContractClient(c, env) /\ validate_contract(views[c], c)}
        IN  /\ liveEnv' = (valid = names)
            /\ sampled' = valid
            /\ proven' = IF valid = names THEN proven \cup {"live_data_contract_validated"}
                         ELSE proven
    /\ UNCHANGED <<env, process, views, evalFile, aiEnv, snippet>>

\* scripts/pilot_env_handoff.py: the snippet is written whether or not it is
\* complete, and completeness is about keys, not about their values.
EnvValue(k) ==
    CASE k = "ai_demo_eval_validated"       -> aiEnv
      [] k = "live_data_contract_validated" -> liveEnv
      [] OTHER                              -> TRUE
EnvKeys ==
    (IF aiEnv = None THEN {} ELSE AI_DEMO_EVAL_ENV_MANIFEST)
        \cup (IF liveEnv = None THEN {} ELSE LIVE_DATA_READINESS_ENV_MANIFEST)

build_handoffOfEvery == [k \in EvidenceKeys |-> EnvValue(k)]
build_handoff == [k \in EnvKeys |-> EnvValue(k)]

Handoff ==
    /\ OperatorStep
    /\ snippet' = build_handoff
    /\ UNCHANGED <<env, process, views, evalFile, aiEnv, liveEnv, history>>

\* The operator records what a file gives, each flag with its time and summary:
\* the merged snippet, or one of the two files it is merged from.
RecordFlags(flags) ==
    /\ OperatorStep
    /\ env' = (env \ DOMAIN flags) \cup {k \in DOMAIN flags : flags[k]}
    /\ UNCHANGED <<process, views, files, history>>

Record ==
    \/ RecordFlags(snippet)
    \/ aiEnv # None /\ RecordFlags([k \in AI_DEMO_EVAL_ENV_MANIFEST |-> EnvValue(k)])
    \/ liveEnv # None /\ RecordFlags([k \in LIVE_DATA_READINESS_ENV_MANIFEST |-> EnvValue(k)])

-----------------------------------------------------------------------------
(* The consolidated checks                                                    *)

\* The order, shelf image and manager task smokes of the report.
run_scaffold_smoke(cfg) ==
    IF Answers({"osa", "erp", "audit", "shelf_image", "exporter"},
               {"store_detail", "alerts", "alerts_by_ids"}, cfg)
    THEN BOOLEAN ELSE {FALSE}

\* The gates of the readiness report: hand-written, beside the activation
\* targets it also prints.
report_gates(t, cfg, e, smoke, rest) == [
    eval                    |-> e.passed,
    real_ai                 |-> t = "local" \/ e.anthropic,
    ai_demo_eval_evidence   |-> t = "local" \/ (e.passed /\ e.anthropic),
    discovery               |-> readiness_blockers(cfg) = {},
    live_data_contract      |-> t = "pilot" => "live_data_contract_validated" \in cfg,
    summary_provider_config |-> t = "local" \/ "summary_provider" \in cfg,
    agent_stream            |-> t = "local" \/ "agent_run_enabled" \in cfg,
    audit_sink              |-> audit_sink_status(cfg) = {} /\ (t = "pilot" => unity_selected(cfg)),
    scaffold_smoke          |-> smoke,
    mcp_smoke               |-> rest,
    memory_provider         |-> memory_status(cfg) = {},
    action_providers        |-> action_provider_status(cfg) = {},
    data_platform           |-> data_platform_status(cfg) = {},
    auth_provider           |-> auth_status(cfg) = {},
    shelf_image_provider    |-> shelf_image_status(cfg) = {},
    observability           |-> observability_status(cfg) = {}]

build_reportUnobserved(t, cfg, e, smoke, rest) ==
    LET gates == report_gates(t, cfg, e, smoke, rest)
    IN  \A g \in DOMAIN gates \ {"observability"} : gates[g]
build_report(t, cfg, e, smoke, rest) ==
    LET gates == report_gates(t, cfg, e, smoke, rest)
    IN  \A g \in DOMAIN gates : gates[g]

\* Each consolidated check adds its own parts to the one below it.  "rest" is
\* the outcome of the parts that look at no setting: MCP and API contracts,
\* demo data, API smoke, decision guard, safety scan, lint, tests and builds.
build_bundle(report, rest) == report /\ rest
build_snapshot(bundle, rest) == bundle /\ rest
build_local_handoff(bundle, rest) == bundle /\ build_snapshot(bundle, rest) /\ rest
build_suite(bundle, rest) == build_local_handoff(bundle, rest)
run_plan(eval, report, bundle, rest) == eval /\ report /\ build_suite(bundle, rest) /\ rest

\* What a check says of the settings cfg when its eval, smokes and other parts
\* end in these outcomes; the verification runs eval and report once more.
Outcome(kind, t, cfg, e, again, smoke, rest) ==
    LET report == build_report(t, cfg, e, smoke, rest)
        bundle == build_bundle(report, rest)
    IN  [kind |-> kind, target |-> t, cfg |-> cfg,
         evaluated |-> IF t = "local" THEN Evaluated(cfg) ELSE e.passed /\ e.anthropic,
         passed |-> CASE kind = "report"       -> report
                      [] kind = "bundle"       -> bundle
                      [] kind = "snapshot"     -> build_snapshot(bundle, rest)
                      [] kind = "handoff"      -> build_local_handoff(bundle, rest)
                      [] kind = "suite"        -> build_suite(bundle, rest)
                      [] kind = "verification" ->
                            run_plan(again.passed, build_report(t, cfg, again, smoke, rest),
                                     bundle, rest)]

\* A check reads the settings of today and asks nothing of the running backend;
\* the verification is the local target's only.
Check(kind, t) ==
    /\ check = None /\ ~server.up
    /\ kind = "verification" => t = "local"
    /\ \E e \in run_eval(env, t # "local"), smoke \in run_scaffold_smoke(env), rest \in BOOLEAN :
       \E again \in IF kind = "verification" THEN run_eval(env, FALSE) ELSE {e} :
          check' = Outcome(kind, t, env, e, again, smoke, rest)
    /\ UNCHANGED <<env, process, views, files, steps, history>>

-----------------------------------------------------------------------------
Next ==
    \/ \E s \in Editable : Edit(s)
    \/ Start
    \/ \E p \in Ports : Use(p)
    \/ \E r \in Reads : Read(r)
    \/ RunEval \/ WriteEvidence \/ Handoff \/ Record
    \/ \E names \in Samples : RunLive(names)
    \/ \E kind \in Kinds, t \in Targets : Check(kind, t)

Spec == Init /\ [][Next]_vars

-----------------------------------------------------------------------------
(* Properties                                                                 *)

\* Every variable stays in its set.
TypeOK ==
    /\ env \in SUBSET Settings
    /\ server \in [up : BOOLEAN, cfg : SUBSET Settings]
    /\ refusal \in Ports \cup {None}
    /\ unread \in Reads \cup {None}
    /\ views \in ViewStarts
    /\ evalFile \in EvalResults \cup {None}
    /\ aiEnv \in BOOLEAN \cup {None}
    /\ liveEnv \in BOOLEAN \cup {None}
    /\ snippet \in Snippets
    /\ check \in Checks \cup {None}
    /\ steps \in 0 .. MaxSteps
    /\ proven \subseteq Evidence
    /\ sampled \subseteq Contracts

\* A backend that answers "ready" on /integrations/readiness refuses no port
\* for its settings, save the summary provider, which the AI-demo target
\* accounts for: the statuses, written by hand, foretell the factories,
\* adapters and clients, written by hand elsewhere.
ReadyRuns ==
    server.up =>
        /\ refusal \notin {None, "summary"} => ~integration_readiness(server.cfg)
        /\ refusal # None => activation_context(server.cfg)["ai-demo"] # {}

\* A consolidated check passes only on settings whose activation target has
\* no blocker left, whatever the check was: the gates of the report and the
\* targets it prints beside them are separate code.  The blockers of the
\* offline agent are the one exception: no gate of the report looks at it.
PassedChecksReady ==
    (check # None /\ check.passed) =>
        \A b \in build_activation_targets(check.cfg, check.evaluated)[check.target] :
            b[1] = "offline_agent"

\* The pages of one running backend tell one story: the final phase of the
\* runbook is ready only when every earlier phase but the offline one is past
\* its blockers; a ready target has the flags of its evidence manifest set (the
\* manifest's times and summaries gate nothing, so a target may be ready
\* without them); the AI-demo pack, given the local target, is ready when the
\* AI-demo target is, and then fails no configuration check but those on
\* summary_fail_open and the model's name, which no target looks at; every
\* blocker has a command to run; and the pilot packet, which selects gates by a
\* list of modes of its own, has every gate that blocks.
PagesAgree ==
    server.up =>
        LET cfg == server.cfg
            targets == activation_context(cfg)
            phases == build_activation_runbook(cfg)
            pack == build_ai_demo_activation_pack(cfg)
        IN  /\ phases.phase_6 = "ready" =>
                 \A p \in DOMAIN phases \ {"phase_5"} : phases[p] # "blocked"
            /\ \A t \in Targets : targets[t] = {} =>
                 build_evidence_manifest(t) \cap Evidence \subseteq cfg
            /\ targets["local"] = {} =>
                 (targets["ai-demo"] = {} <=> pack.blockers = {})
            /\ pack.blockers = {} =>
                 pack.unready \subseteq {"summary_fail_open", "anthropic_model"}
            /\ \A g \in build_gap_report(cfg) : g.commands # {}
            /\ readiness_blockers(cfg) \subseteq build_discovery_packet("pilot", cfg)

\* A validation flag in the settings rests on a run that established it, as
\* long as the operator records what the scripts write: an eval that passed
\* with the approved model, contracts found valid in the external views.
EvidenceBacked == env \cap Evidence \subseteq proven

\* docs/pilot-activation-runbook.md, phase 2: the contracts prove that the
\* selected views match before a pilot user sees live data.  A backend that
\* reports the pilot target ready, on views that satisfied every contract and
\* have not changed since, therefore answers its live reads.
ValidatedViewsServe ==
    (/\ server.up
     /\ activation_context(server.cfg)["pilot"] = {}
     /\ sampled = Contracts) => unread = None
=============================================================================

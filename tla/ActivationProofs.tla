--------------------------- MODULE ActivationProofs ---------------------------
(* Proofs about Activation, for every set of settings, of configurations the  *)
(* operator begins with, of external views and of contracts validated at      *)
(* once, and for any number of operator steps.                                *)
EXTENDS Activation, TLAPS

-----------------------------------------------------------------------------
(* What a configuration reported ready can be relied on for                   *)

\* A configuration without a provider blocker has none from any provider but
\* the offline agent, which is passed over unless it is asked for.
LEMMA NoBlocker ==
    ASSUME NEW cfg, integration_readiness(cfg)
    PROVE  /\ assert_discovery_ready(cfg)
           /\ auth_status(cfg) = {} /\ data_platform_status(cfg) = {}
           /\ action_provider_status(cfg) = {} /\ shelf_image_status(cfg) = {}
           /\ memory_status(cfg) = {} /\ audit_sink_status(cfg) = {}
           /\ guardrail_status(cfg) = {} /\ observability_status(cfg) = {}
<1> DEFINE status == provider_readiness(cfg)
<1>1. /\ readiness_blockers(cfg) = {} /\ flatten_provider_blockers(cfg) = {}
    BY DEF integration_readiness
<1>2. ASSUME NEW p \in DOMAIN status, p # "offline_agent" PROVE status[p] = {}
    <2>1. \A b \in status[p] :
              <<p, b>> \in flatten_provider_blockers(cfg)
        BY <1>2 DEF flatten_provider_blockers
    <2>. QED
        BY <1>1, <2>1
<1>3. DOMAIN status = {"auth", "data_platform", "action_providers", "shelf_image", "memory",
                       "audit", "guardrails", "offline_agent", "observability"}
    BY DEF provider_readiness
<1>4. /\ status["auth"] = {} /\ status["data_platform"] = {}
      /\ status["action_providers"] = {} /\ status["shelf_image"] = {}
      /\ status["memory"] = {} /\ status["audit"] = {}
      /\ status["guardrails"] = {} /\ status["observability"] = {}
    BY <1>2, <1>3
<1>. QED
    BY <1>1, <1>4 DEF assert_discovery_ready, provider_readiness

\* A live port opens when the gates are answered and the status of a provider
\* that shares its switches lacks none of the settings the port needs.
LEMMA StatusOpens ==
    ASSUME NEW cfg, NEW switches, NEW needed, NEW mine \in SUBSET switches,
           NEW asked \in SUBSET needed,
           assert_discovery_ready(cfg), Lacks(switches, needed, cfg) = {}
    PROVE  Opens(mine, asked, cfg)
BY DEF Opens, Lacks, Selects

\* The statuses foretell the ports: a backend that calls itself ready opens
\* every port but, perhaps, the summary provider.
LEMMA ReadyServes ==
    ASSUME NEW cfg, integration_readiness(cfg), NEW p \in Ports \ {"summary"}
    PROVE  Serves(cfg)[p]
<1>1. /\ assert_discovery_ready(cfg)
      /\ auth_status(cfg) = {} /\ data_platform_status(cfg) = {}
      /\ action_provider_status(cfg) = {} /\ shelf_image_status(cfg) = {}
      /\ memory_status(cfg) = {} /\ audit_sink_status(cfg) = {}
      /\ guardrail_status(cfg) = {} /\ observability_status(cfg) = {}
    BY NoBlocker
<1>2. OsaPort(cfg) /\ RgmPort(cfg)
    <2>1. Lacks({"osa_adapter", "rgm_adapter"},
                DatabricksKeys \cup SharingKeys \cup {"live_data_contract_validated"}, cfg) = {}
        BY <1>1 DEF data_platform_status, databricks_status
    <2>. QED
        BY <1>1, <2>1, StatusOpens DEF OsaPort, RgmPort
<1>3. StoreMasterPort(cfg)
    <2>1. Lacks({"store_master_adapter"},
                SnowflakeKeys \cup SharingKeys \cup {"live_data_contract_validated"}, cfg) = {}
        BY <1>1 DEF data_platform_status, snowflake_status
    <2>. QED
        BY <1>1, <2>1, StatusOpens DEF StoreMasterPort
<1>4. CrmPort(cfg) /\ ErpPort(cfg)
    <2>1. crm_status(cfg) = {} /\ erp_status(cfg) = {}
        BY <1>1 DEF action_provider_status
    <2>. QED
        BY <1>1, <2>1, StatusOpens DEF crm_status, erp_status, CrmPort, ErpPort
<1>5. ShelfImagePort(cfg)
    BY <1>1, StatusOpens DEF shelf_image_status, ShelfImagePort
<1>6. MemoryPort(cfg)
    BY <1>1, StatusOpens DEF memory_status, MemoryPort
<1>7. AuthProvider(cfg)
    BY <1>1, StatusOpens DEF auth_status, AuthProvider
<1>8. AuditSink(cfg)
    <2>1. /\ "audit_unity_catalog_table" \in cfg
          /\ Lacks({"audit_sink", "audit_dual_write_enabled"}, DatabricksKeys \cup SharingKeys,
                   cfg) = {}
        BY <1>1 DEF audit_sink_status
    <2>2. Selects({"audit_sink", "audit_dual_write_enabled"}, cfg) => DatabricksKeys \subseteq cfg
        BY <2>1 DEF Lacks
    <2>. QED
        BY <1>1, <2>1, <2>2 DEF AuditSink, Opens
<1>9. GuardrailProvider(cfg)
    BY <1>1 DEF guardrail_status, Lacks, Selects, GuardrailProvider
<1>10. Exporter(cfg)
    BY <1>1 DEF observability_status, Lacks, Selects, Exporter
<1>11. p \in {"osa", "rgm", "crm", "store_master", "erp", "shelf_image", "memory", "auth",
              "audit", "guardrail", "exporter"}
    BY DEF Ports
<1>. QED
    BY <1>2, <1>3, <1>4, <1>5, <1>6, <1>7, <1>8, <1>9, <1>10, <1>11 DEF Serves

\* The local target and the integrations page have the same blockers.
LEMMA LocalReady ==
    ASSUME NEW cfg, LocalBlockers(cfg) = {}
    PROVE  integration_readiness(cfg)
<1>1. \A b \in readiness_blockers(cfg) : <<"discovery", b>> \in LocalBlockers(cfg)
    BY DEF LocalBlockers
<1>2. flatten_provider_blockers(cfg) \subseteq LocalBlockers(cfg)
    BY DEF LocalBlockers
<1>3. readiness_blockers(cfg) = {} /\ flatten_provider_blockers(cfg) = {}
    BY <1>1, <1>2
<1>. QED
    BY <1>3 DEF integration_readiness

\* With the AI-demo target ready the summary provider answers too.
LEMMA AiDemoServes ==
    ASSUME NEW cfg, activation_context(cfg)["ai-demo"] = {}, NEW p \in Ports
    PROVE  Serves(cfg)[p]
<1>1. LocalBlockers(cfg) = {} /\ AiDemoBlockers(cfg, Evaluated(cfg)) = {}
    BY DEF activation_context, build_activation_targets, Targets
<1>2. integration_readiness(cfg)
    BY <1>1, LocalReady
<1>3. SummaryProvider(cfg)
    <2>1. \A b \in summary_blockers(cfg, Evaluated(cfg)) :
              <<"summary", b>> \in AiDemoBlockers(cfg, Evaluated(cfg))
        BY DEF AiDemoBlockers
    <2>2. summary_blockers(cfg, Evaluated(cfg)) = {}
        BY <1>1, <2>1
    <2>. QED
        BY <2>2 DEF summary_blockers, SummaryProvider, ModelConfigured
<1>4. CASE p = "summary"
    BY <1>3, <1>4 DEF Serves
<1>5. CASE p # "summary"
    BY <1>2, <1>5, ReadyServes
<1>. QED
    BY <1>4, <1>5

-----------------------------------------------------------------------------
(* The pages of a running backend, for any configuration                      *)

\* Every blocker has a command, whatever its wording.
LEMMA CommandsKnown ==
    ASSUME NEW b
    PROVE  command_names_for_blocker(b) \cap UNION {runtime_validation_commands(t) : t \in Targets}
              # {}
<1> DEFINE known == UNION {runtime_validation_commands(t) : t \in Targets}
<1>1. {"ai_summary_eval", "pilot_readiness", "validation_suite"} \subseteq known
    <2>1. {"ai_summary_eval", "pilot_readiness", "validation_suite"}
              \subseteq runtime_validation_commands("pilot")
        BY DEF runtime_validation_commands
    <2>. QED
        BY <2>1 DEF Targets
<1>2. \/ "ai_summary_eval" \in command_names_for_blocker(b)
      \/ "pilot_readiness" \in command_names_for_blocker(b)
      \/ "validation_suite" \in command_names_for_blocker(b)
    BY DEF command_names_for_blocker
<1>. QED
    BY <1>1, <1>2

\* The pages agree on every configuration.
LEMMA PagesOf ==
    ASSUME NEW cfg
    PROVE  LET targets == activation_context(cfg)
               phases == build_activation_runbook(cfg)
               pack == build_ai_demo_activation_pack(cfg)
           IN  /\ phases.phase_6 = "ready" =>
                    \A p \in DOMAIN phases \ {"phase_5"} : phases[p] # "blocked"
               /\ \A t \in Targets : targets[t] = {} =>
                    build_evidence_manifest(t) \cap Evidence \subseteq cfg
               /\ targets["local"] = {} =>
                    (targets["ai-demo"] = {} <=> pack.blockers = {})
               /\ pack.blockers = {} =>
                    pack.unready \subseteq {"summary_fail_open", "anthropic_model"}
               /\ \A g \in build_gap_report(cfg) : g.commands # {}
               /\ readiness_blockers(cfg) \subseteq build_discovery_packet("pilot", cfg)
<1> DEFINE targets == activation_context(cfg)
           phases == build_activation_runbook(cfg)
           pack == build_ai_demo_activation_pack(cfg)
<1>1. /\ targets["local"] = LocalBlockers(cfg)
      /\ targets["ai-demo"] = LocalBlockers(cfg) \cup AiDemoBlockers(cfg, Evaluated(cfg))
      /\ targets["pilot"] = LocalBlockers(cfg) \cup AiDemoBlockers(cfg, Evaluated(cfg))
                                               \cup PilotBlockers(cfg)
    BY DEF activation_context, build_activation_targets, Targets
<1>2. pack.blockers = AiDemoBlockers(cfg, Evaluated(cfg))
    BY DEF AiDemoBlockers, build_ai_demo_activation_pack
<1>9. ASSUME targets["local"] = {} PROVE targets["ai-demo"] = {} <=> pack.blockers = {}
    BY <1>1, <1>2, <1>9
<1>3. ASSUME AiDemoBlockers(cfg, Evaluated(cfg)) = {} PROVE "ai_demo_eval_validated" \in cfg
    <2>1. \A b \in summary_blockers(cfg, Evaluated(cfg)) :
              <<"summary", b>> \in AiDemoBlockers(cfg, Evaluated(cfg))
        BY DEF AiDemoBlockers
    <2>2. summary_blockers(cfg, Evaluated(cfg)) = {}
        BY <1>3, <2>1
    <2>. QED
        BY <2>2 DEF summary_blockers, Evaluated
<1>10. ASSUME pack.blockers = {}
      PROVE  pack.unready \subseteq {"summary_fail_open", "anthropic_model"}
    <2>1. \A b \in summary_blockers(cfg, Evaluated(cfg)) : <<"summary", b>> \in pack.blockers
        BY DEF build_ai_demo_activation_pack
    <2>2. \A b \in {"agent_run_enabled"} \ cfg : <<"target", b>> \in pack.blockers
        BY DEF build_ai_demo_activation_pack
    <2>3. {"summary_provider", "anthropic_token_ref", "ai_demo_eval_validated",
           "agent_run_enabled"} \subseteq cfg
        BY <1>10, <2>1, <2>2 DEF summary_blockers, Evaluated
    <2>. QED
        BY <2>3 DEF build_ai_demo_activation_pack
<1>4. ASSUME PilotBlockers(cfg) = {}
      PROVE  "live_data_contract_validated" \in cfg /\ unity_selected(cfg)
    <2>1. <<"target", "live_data_contract_validated">> \notin PilotBlockers(cfg)
          /\ <<"target", "unity_catalog">> \notin PilotBlockers(cfg)
        BY <1>4
    <2>. QED
        BY <2>1 DEF PilotBlockers
<1>5. ASSUME NEW t \in Targets, targets[t] = {}
      PROVE  build_evidence_manifest(t) \cap Evidence \subseteq cfg
    <2>1. t = "local" \/ t = "ai-demo" \/ t = "pilot"
        BY DEF Targets
    <2>2. t # "local" => AiDemoBlockers(cfg, Evaluated(cfg)) = {}
        BY <1>1, <1>5, <2>1
    <2>3. t = "pilot" => PilotBlockers(cfg) = {}
        BY <1>1, <1>5
    <2>. QED
        BY <1>3, <1>4, <2>1, <2>2, <2>3
           DEF build_evidence_manifest, Evidence, AI_DEMO_EVAL_ENV_MANIFEST,
               LIVE_DATA_READINESS_ENV_MANIFEST
<1>6. ASSUME NEW g \in build_gap_report(cfg) PROVE g.commands # {}
    <2>1. PICK b : g.commands = command_names_for_blocker(b)
                      \cap UNION {runtime_validation_commands(t) : t \in Targets}
        BY <1>6 DEF build_gap_report
    <2>. QED
        BY <2>1, CommandsKnown
<1>7. readiness_blockers(cfg) \subseteq build_discovery_packet("pilot", cfg)
    <2>1. readiness_blockers(cfg) \subseteq MissingGates(cfg)
        BY DEF readiness_blockers
    <2>2. target_gates("pilot") = DOMAIN discovery_gates
        BY DEF target_gates, discovery_gates, PILOT_REQUIRED_MODES
    <2>. QED
        BY <2>1, <2>2 DEF build_discovery_packet, MissingGates
<1>8. ASSUME phases.phase_6 = "ready", NEW p \in DOMAIN phases \ {"phase_5"}
      PROVE  phases[p] # "blocked"
    <2>1. targets["pilot"] = {}
        BY <1>8 DEF build_activation_runbook
    <2>2. /\ LocalBlockers(cfg) = {} /\ AiDemoBlockers(cfg, Evaluated(cfg)) = {}
          /\ PilotBlockers(cfg) = {}
        BY <1>1, <2>1
    <2>3. targets["local"] = {} /\ targets["ai-demo"] = {}
        BY <1>1, <2>2
    <2>4. integration_readiness(cfg)
        BY <2>2, LocalReady
    <2>5. LET of(names) == combined_provider_status(names, cfg)
          IN  /\ of({"data_platform"}) = {} /\ of({"auth", "audit", "guardrails"}) = {}
              /\ of({"action_providers"}) = {} /\ of({"shelf_image"}) = {}
        BY <2>4, NoBlocker DEF combined_provider_status, provider_readiness
    <2>6. /\ phases.phase_0 = "ready" /\ phases.phase_1 = "ready"
          /\ phases.phase_2 = "ready" /\ phases.phase_3 = "ready"
          /\ phases.phase_4 = "ready" /\ phases.phase_5b = "ready"
        BY <1>4, <2>2, <2>3, <2>5 DEF build_activation_runbook, provider_phase
    <2>7. p \in {"phase_0", "phase_1", "phase_2", "phase_3", "phase_4", "phase_5b", "phase_6"}
        BY <1>8 DEF build_activation_runbook
    <2>. QED
        BY <1>8, <2>6, <2>7
<1> HIDE DEF targets, phases, pack
<1>. QED
    BY <1>5, <1>6, <1>7, <1>8, <1>9, <1>10 DEF targets, phases, pack

-----------------------------------------------------------------------------
(* The consolidated checks, for any configuration                             *)

\* The gates of the readiness report leave no blocker but the offline agent's.
LEMMA GatesCover ==
    ASSUME NEW cfg, NEW t \in Targets, NEW e \in EvalResults, NEW smoke \in BOOLEAN,
           NEW rest \in BOOLEAN, build_report(t, cfg, e, smoke, rest),
           e.passed /\ e.anthropic => ModelConfigured(cfg),
           NEW evaluated, t # "local" => evaluated = (e.passed /\ e.anthropic),
           NEW b \in build_activation_targets(cfg, evaluated)[t]
    PROVE  b[1] = "offline_agent"
<1> DEFINE gates == report_gates(t, cfg, e, smoke, rest)
<1>1. /\ readiness_blockers(cfg) = {} /\ audit_sink_status(cfg) = {}
      /\ memory_status(cfg) = {} /\ action_provider_status(cfg) = {}
      /\ data_platform_status(cfg) = {} /\ auth_status(cfg) = {}
      /\ shelf_image_status(cfg) = {} /\ observability_status(cfg) = {}
      /\ t # "local" => /\ e.passed /\ e.anthropic /\ "agent_run_enabled" \in cfg
      /\ t = "pilot" => "live_data_contract_validated" \in cfg /\ unity_selected(cfg)
    <2>1. \A g \in DOMAIN gates : gates[g]
        BY DEF build_report
    <2>. QED
        BY <2>1 DEF report_gates
<1>2. guardrail_status(cfg) = {}
    <2>1. "guardrail_provider" \in cfg => "guardrail_classifier_endpoint" \in cfg
        BY <1>1 DEF readiness_blockers, selected_live_modes, SwitchesOf, Selects,
                    MissingGates, discovery_gates
    <2>. QED
        BY <2>1 DEF guardrail_status, Lacks, Selects
<1>3. ASSUME b \in LocalBlockers(cfg) PROVE b[1] = "offline_agent"
    <2>1. b \in flatten_provider_blockers(cfg)
        BY <1>1, <1>3 DEF LocalBlockers
    <2>2. PICK p \in DOMAIN provider_readiness(cfg) :
              \E x \in provider_readiness(cfg)[p] : b = <<p, x>>
        BY <2>1 DEF flatten_provider_blockers
    <2>3. p = "offline_agent"
        BY <1>1, <1>2, <2>2 DEF provider_readiness
    <2>. QED
        BY <2>2, <2>3
<1>4. ASSUME t # "local" PROVE AiDemoBlockers(cfg, evaluated) = {}
    <2>1. evaluated
        BY <1>1, <1>4
    <2>2. {"summary_provider", "anthropic_token_ref", "anthropic_sdk", "agent_run_enabled"}
              \subseteq cfg
        BY <1>1, <1>4 DEF ModelConfigured
    <2>3. summary_blockers(cfg, evaluated) = {}
        BY <2>1, <2>2 DEF summary_blockers
    <2>. QED
        BY <2>2, <2>3 DEF AiDemoBlockers
<1>5. ASSUME t = "pilot" PROVE PilotBlockers(cfg) = {}
    <2>1. selected_live_modes(cfg) # {}
        <3>1. "unity_catalog" \in selected_live_modes(cfg)
            BY <1>1, <1>5 DEF unity_selected, selected_live_modes, SwitchesOf
        <3>. QED
            BY <3>1
    <2>. QED
        BY <1>1, <1>5, <2>1 DEF PilotBlockers
<1>6. \/ t = "local" /\ b \in LocalBlockers(cfg)
      \/ t = "ai-demo" /\ b \in LocalBlockers(cfg) \cup AiDemoBlockers(cfg, evaluated)
      \/ t = "pilot" /\ b \in LocalBlockers(cfg) \cup AiDemoBlockers(cfg, evaluated)
                                \cup PilotBlockers(cfg)
    BY DEF build_activation_targets, Targets
<1>. QED
    BY <1>3, <1>4, <1>5, <1>6

\* What an eval that passed with the model says of the settings it ran on.
LEMMA EvalTells ==
    ASSUME NEW cfg, NEW required, NEW e \in run_eval(cfg, required)
    PROVE  /\ e \in EvalResults
           /\ e.passed /\ e.anthropic => ModelConfigured(cfg)
<1>1. CASE e \in [passed : {FALSE}, anthropic : BOOLEAN]
    BY <1>1 DEF EvalResults
<1>2. CASE e \notin [passed : {FALSE}, anthropic : BOOLEAN]
    BY <1>2 DEF run_eval, EvalResults
<1>. QED
    BY <1>1, <1>2

\* Every check contains the readiness report.
LEMMA ChecksReport ==
    ASSUME NEW kind \in Kinds, NEW t, NEW cfg, NEW e, NEW again, NEW smoke, NEW rest,
           Outcome(kind, t, cfg, e, again, smoke, rest).passed
    PROVE  build_report(t, cfg, e, smoke, rest)
<1>1. CASE kind = "report"
    BY <1>1 DEF Outcome
<1>2. CASE kind = "bundle"
    BY <1>2 DEF Outcome, build_bundle
<1>3. CASE kind = "snapshot"
    BY <1>3 DEF Outcome, build_bundle, build_snapshot
<1>4. CASE kind = "handoff"
    BY <1>4 DEF Outcome, build_bundle, build_local_handoff
<1>5. CASE kind = "suite"
    BY <1>5 DEF Outcome, build_bundle, build_local_handoff, build_suite
<1>6. CASE kind = "verification"
    BY <1>6 DEF Outcome, build_bundle, build_local_handoff, build_suite, run_plan
<1>. QED
    BY <1>1, <1>2, <1>3, <1>4, <1>5, <1>6 DEF Kinds

-----------------------------------------------------------------------------
(* The inductive invariant                                                    *)

\* A refusal is of a port the running process does not open.
Refused ==
    refusal # None => server.up /\ refusal \in Ports /\ ~Serves(server.cfg)[refusal]

\* A flag that is TRUE, in the settings or in a file, was established by a run.
Backed ==
    /\ env \cap Evidence \subseteq proven
    /\ evalFile # None /\ evalFile.passed => "ai_demo_eval_validated" \in proven
    /\ aiEnv = TRUE => "ai_demo_eval_validated" \in proven
    /\ liveEnv = TRUE => "live_data_contract_validated" \in proven
    /\ DOMAIN snippet \subseteq EvidenceKeys
    /\ \A k \in Evidence \cap DOMAIN snippet : snippet[k] = TRUE => k \in proven

\* A script or a recording leaves the running process as it is.
LEMMA RefusedStep == ASSUME Refused, [Next]_vars PROVE Refused'
<1>1. ASSUME UNCHANGED process PROVE Refused'
    BY <1>1 DEF Refused, process
<1>2. CASE Start
    BY <1>2 DEF Start, Refused
<1>3. ASSUME NEW p \in Ports, Use(p) PROVE Refused'
    BY <1>3 DEF Use, Refused
<1>4. ASSUME NEW r \in Reads, Read(r) PROVE Refused'
    BY <1>4 DEF Read, Refused
<1>5. ASSUME NEW s \in Editable, Edit(s) PROVE UNCHANGED process
    BY <1>5 DEF Edit
<1>6. CASE RunEval \/ WriteEvidence \/ Handoff
    BY <1>1, <1>6 DEF RunEval, WriteEvidence, Handoff
<1>7. CASE Record
    BY <1>1, <1>7 DEF Record, RecordFlags
<1>8. ASSUME NEW names \in Samples, RunLive(names) PROVE UNCHANGED process
    BY <1>8 DEF RunLive
<1>9. ASSUME NEW kind \in Kinds, NEW t \in Targets, Check(kind, t) PROVE UNCHANGED process
    BY <1>9 DEF Check
<1>10. CASE UNCHANGED vars
    BY <1>1, <1>10 DEF vars
<1>. QED
    BY <1>1, <1>2, <1>3, <1>4, <1>5, <1>6, <1>7, <1>8, <1>9, <1>10 DEF Next

\* The keys the files give are those of the manifests, and their values are
\* flags once the files are there.
LEMMA EnvKeysKnown ==
    /\ EnvKeys \subseteq EvidenceKeys
    /\ TypeOK => \A k \in EnvKeys : EnvValue(k) \in BOOLEAN
<1>1. EnvKeys \subseteq EvidenceKeys
    BY DEF EnvKeys, EvidenceKeys, build_evidence_manifest
<1>2. ASSUME TypeOK, NEW k \in EnvKeys PROVE EnvValue(k) \in BOOLEAN
    <2>1. /\ k = "ai_demo_eval_validated" => aiEnv # None
          /\ k = "live_data_contract_validated" => liveEnv # None
        BY <1>2 DEF EnvKeys, AI_DEMO_EVAL_ENV_MANIFEST, LIVE_DATA_READINESS_ENV_MANIFEST
    <2>2. CASE k = "ai_demo_eval_validated"
        BY <1>2, <2>1, <2>2 DEF TypeOK, EnvValue
    <2>3. CASE k = "live_data_contract_validated"
        BY <1>2, <2>1, <2>3 DEF TypeOK, EnvValue
    <2>4. CASE k \notin {"ai_demo_eval_validated", "live_data_contract_validated"}
        BY <2>4 DEF EnvValue
    <2>. QED
        BY <2>2, <2>3, <2>4
<1>. QED
    BY <1>1, <1>2

\* What the files say of a flag is backed.
LEMMA EnvValueBacked ==
    ASSUME Backed, NEW k \in Evidence, EnvValue(k) = TRUE PROVE k \in proven
BY DEF Backed, EnvValue, Evidence

\* Recording flags that are backed keeps the settings backed.
LEMMA RecordBacked ==
    ASSUME Backed, NEW flags, RecordFlags(flags),
           \A k \in Evidence \cap DOMAIN flags : flags[k] = TRUE => k \in proven,
           \A k \in DOMAIN flags : flags[k] \in BOOLEAN
    PROVE  Backed'
<1>1. env' \cap Evidence \subseteq proven
    BY DEF RecordFlags, Backed
<1>. QED
    BY <1>1 DEF RecordFlags, Backed, files, history

\* The flags of every file stay backed, whatever is written over what.
LEMMA BackedStep == ASSUME TypeOK, Backed, [Next]_vars PROVE Backed'
<1>1. ASSUME env' \cap Evidence \subseteq env \cap Evidence, UNCHANGED <<files, proven>>
      PROVE  Backed'
    BY <1>1 DEF Backed, files
<1>2. ASSUME NEW s \in Editable, Edit(s) PROVE Backed'
    <2>1. s \notin Evidence
        BY ConstantsTyped
    <2>2. env' \cap Evidence \subseteq env \cap Evidence
        BY <1>2, <2>1 DEF Edit
    <2>. QED
        BY <1>1, <1>2, <2>2 DEF Edit, history
<1>3. CASE Start
    BY <1>1, <1>3 DEF Start, history
<1>4. ASSUME NEW p \in Ports, Use(p) PROVE Backed'
    BY <1>1, <1>4 DEF Use, history
<1>5. ASSUME NEW r \in Reads, Read(r) PROVE Backed'
    BY <1>1, <1>5 DEF Read, history
<1>6. CASE RunEval
    <2>1. PICK e \in run_eval(env, TRUE) :
              /\ evalFile' = e
              /\ proven' = IF e.passed THEN proven \cup {"ai_demo_eval_validated"} ELSE proven
        BY <1>6 DEF RunEval
    <2>. QED
        BY <1>6, <2>1 DEF RunEval, Backed
<1>7. CASE WriteEvidence
    <2>1. /\ evalFile # None /\ aiEnv' = (evalFile.passed /\ evalFile.anthropic)
          /\ UNCHANGED <<env, evalFile, liveEnv, snippet, proven>>
        BY <1>7 DEF WriteEvidence, evidence_from_eval_result, history
    <2>2. aiEnv' = TRUE => evalFile.passed
        BY <2>1
    <2>. QED
        BY <2>1, <2>2 DEF Backed
<1>8. CASE Handoff
    <2>1. /\ UNCHANGED <<env, evalFile, aiEnv, liveEnv, proven>> /\ snippet' = build_handoff
        BY <1>8 DEF Handoff, history
    <2>2. /\ DOMAIN build_handoff = EnvKeys /\ EnvKeys \subseteq EvidenceKeys
          /\ \A k \in EnvKeys : build_handoff[k] = EnvValue(k)
        BY EnvKeysKnown DEF build_handoff
    <2>3. \A k \in Evidence \cap EnvKeys : EnvValue(k) = TRUE => k \in proven
        BY EnvValueBacked
    <2>. QED
        BY <2>1, <2>2, <2>3 DEF Backed
<1>9. CASE Record
    <2>1. CASE RecordFlags(snippet)
        <3>1. \A k \in DOMAIN snippet : snippet[k] \in BOOLEAN
            BY DEF TypeOK, Snippets
        <3>. QED
            BY <2>1, <3>1, RecordBacked DEF Backed
    <2>2. CASE aiEnv # None
                /\ RecordFlags([k \in AI_DEMO_EVAL_ENV_MANIFEST |-> EnvValue(k)])
        <3>1. AI_DEMO_EVAL_ENV_MANIFEST \subseteq EnvKeys
            BY <2>2 DEF EnvKeys
        <3>. QED
            BY <2>2, <3>1, EnvValueBacked, EnvKeysKnown, RecordBacked
    <2>3. CASE liveEnv # None
                /\ RecordFlags([k \in LIVE_DATA_READINESS_ENV_MANIFEST |-> EnvValue(k)])
        <3>1. LIVE_DATA_READINESS_ENV_MANIFEST \subseteq EnvKeys
            BY <2>3 DEF EnvKeys
        <3>. QED
            BY <2>3, <3>1, EnvValueBacked, EnvKeysKnown, RecordBacked
    <2>. QED
        BY <1>9, <2>1, <2>2, <2>3 DEF Record
<1>10. ASSUME NEW names \in Samples, RunLive(names) PROVE Backed'
    <2>1. PICK valid : /\ liveEnv' = (valid = names)
                       /\ proven' = IF valid = names
                                    THEN proven \cup {"live_data_contract_validated"} ELSE proven
        BY <1>10 DEF RunLive
    <2>2. UNCHANGED <<env, evalFile, aiEnv, snippet>>
        BY <1>10 DEF RunLive
    <2>3. /\ proven \subseteq proven'
          /\ liveEnv' = TRUE => "live_data_contract_validated" \in proven'
        BY <2>1
    <2>. QED
        BY <2>2, <2>3 DEF Backed
<1>11. ASSUME NEW kind \in Kinds, NEW t \in Targets, Check(kind, t) PROVE Backed'
    BY <1>1, <1>11 DEF Check, history
<1>12. CASE UNCHANGED vars
    BY <1>1, <1>12 DEF vars, history
<1>. QED
    BY <1>2, <1>3, <1>4, <1>5, <1>6, <1>7, <1>8, <1>9, <1>10, <1>11, <1>12 DEF Next

\* A check that has passed leaves only the offline agent's blockers.
LEMMA CheckStep == ASSUME PassedChecksReady, [Next]_vars PROVE PassedChecksReady'
<1>1. ASSUME check' = check PROVE PassedChecksReady'
    BY <1>1 DEF PassedChecksReady
<1>2. ASSUME check' = None PROVE PassedChecksReady'
    BY <1>2 DEF PassedChecksReady
<1>3. ASSUME NEW kind \in Kinds, NEW t \in Targets, Check(kind, t) PROVE PassedChecksReady'
    <2>1. PICK e \in run_eval(env, t # "local"), smoke \in run_scaffold_smoke(env),
              rest \in BOOLEAN :
                \E again : check' = Outcome(kind, t, env, e, again, smoke, rest)
        BY <1>3 DEF Check
    <2>2. PICK again : check' = Outcome(kind, t, env, e, again, smoke, rest)
        BY <2>1
    <2>3. /\ check'.target = t /\ check'.cfg = env
          /\ t # "local" => check'.evaluated = (e.passed /\ e.anthropic)
        BY <2>2 DEF Outcome
    <2>4. smoke \in BOOLEAN
        BY <2>1 DEF run_scaffold_smoke
    <2>5. ASSUME check'.passed,
                 NEW b \in build_activation_targets(check'.cfg, check'.evaluated)[check'.target]
          PROVE  b[1] = "offline_agent"
        <3>1. build_report(t, env, e, smoke, rest)
            BY <2>2, <2>5, ChecksReport
        <3>2. e \in EvalResults /\ (e.passed /\ e.anthropic => ModelConfigured(env))
            BY EvalTells
        <3>3. b \in build_activation_targets(env, check'.evaluated)[t]
            BY <2>3, <2>5
        <3>. QED
            BY <2>3, <2>4, <3>1, <3>2, <3>3, GatesCover
    <2>. QED
        BY <2>5 DEF PassedChecksReady
<1>4. CASE \/ \E s \in Editable : Edit(s)
           \/ Start \/ RunEval \/ WriteEvidence \/ Handoff \/ Record
           \/ \E names \in Samples : RunLive(names)
    BY <1>2, <1>4 DEF Edit, Start, RunEval, WriteEvidence, Handoff, Record, RecordFlags,
                      RunLive, OperatorStep
<1>5. CASE (\E p \in Ports : Use(p)) \/ (\E r \in Reads : Read(r))
    BY <1>1, <1>5 DEF Use, Read
<1>6. CASE UNCHANGED vars
    BY <1>1, <1>6 DEF vars
<1>. QED
    BY <1>3, <1>4, <1>5, <1>6 DEF Next

-----------------------------------------------------------------------------
(* Types                                                                      *)

\* What a check says is typed, whatever it was made of.
LEMMA OutcomeTyped ==
    ASSUME NEW kind \in Kinds, NEW t \in Targets, NEW cfg \in SUBSET Settings,
           NEW e, NEW again, NEW smoke, NEW rest \in BOOLEAN
    PROVE  Outcome(kind, t, cfg, e, again, smoke, rest) \in Checks
<1> DEFINE o == Outcome(kind, t, cfg, e, again, smoke, rest)
<1>1. PICK evaluated, passed :
          o = [kind |-> kind, target |-> t, cfg |-> cfg, evaluated |-> evaluated,
               passed |-> passed]
    BY Zenon DEF Outcome
<1>2. o.evaluated \in BOOLEAN
    <2>1. CASE t = "local"
        BY <2>1 DEF Outcome, Evaluated
    <2>2. CASE t # "local"
        <3>1. o.evaluated = (e.passed /\ e.anthropic)
            BY <2>2 DEF Outcome
        <3>. QED
            BY <3>1, Zenon
    <2>. QED
        BY <2>1, <2>2
<1>3. o.passed \in BOOLEAN
    <2>1. build_report(t, cfg, e, smoke, rest) \in BOOLEAN
          /\ build_report(t, cfg, again, smoke, rest) \in BOOLEAN
        BY DEF build_report
    <2>2. CASE kind = "report"
        BY <2>1, <2>2 DEF Outcome
    <2>3. CASE kind = "bundle"
        BY <2>3 DEF Outcome, build_bundle
    <2>4. CASE kind = "snapshot"
        BY <2>4 DEF Outcome, build_snapshot
    <2>5. CASE kind = "handoff"
        BY <2>5 DEF Outcome, build_local_handoff
    <2>6. CASE kind = "suite"
        BY <2>6 DEF Outcome, build_suite, build_local_handoff
    <2>7. CASE kind = "verification"
        BY <2>7 DEF Outcome, run_plan
    <2>. QED
        BY <2>2, <2>3, <2>4, <2>5, <2>6, <2>7 DEF Kinds
<1> HIDE DEF o
<1>4. o.evaluated = evaluated /\ o.passed = passed
    BY <1>1
<1>5. evaluated \in BOOLEAN /\ passed \in BOOLEAN
    BY <1>2, <1>3, <1>4
<1>6. o \in Checks
    BY <1>1, <1>5 DEF Checks
<1>. QED
    BY <1>6 DEF o

\* The merged snippet sets flags, and sets them to what the files say.
LEMMA HandoffTyped == ASSUME TypeOK PROVE build_handoff \in Snippets
<1>1. build_handoff \in [EnvKeys -> BOOLEAN] /\ EnvKeys \in SUBSET EvidenceKeys
    BY EnvKeysKnown DEF build_handoff
<1>. QED
    BY <1>1 DEF Snippets

\* Every variable stays in its set.
LEMMA TypeStep == ASSUME TypeOK, [Next]_vars PROVE TypeOK'
<1> USE DEF process, files, history
<1>1. CASE UNCHANGED vars
    BY <1>1 DEF vars, TypeOK
<1>2. ASSUME OperatorStep PROVE steps' \in 0 .. MaxSteps /\ check' = None
    BY <1>2, ConstantsTyped DEF OperatorStep, TypeOK
<1>3. ASSUME NEW s \in Editable, Edit(s) PROVE TypeOK'
    BY <1>2, <1>3, ConstantsTyped DEF Edit, TypeOK
<1>4. CASE Start
    BY <1>4 DEF Start, TypeOK
<1>5. ASSUME NEW p \in Ports, Use(p) PROVE TypeOK'
    BY <1>5 DEF Use, TypeOK
<1>6. ASSUME NEW r \in Reads, Read(r) PROVE TypeOK'
    BY <1>6 DEF Read, TypeOK
<1>7. CASE RunEval
    <2>1. evalFile' \in EvalResults /\ proven' \subseteq Evidence
        BY <1>7, EvalTells DEF RunEval, TypeOK, Evidence
    <2>. QED
        BY <1>2, <1>7, <2>1 DEF RunEval, TypeOK
<1>8. CASE WriteEvidence
    <2>1. aiEnv' \in BOOLEAN
        <3>1. aiEnv' = (evalFile.passed /\ evalFile.anthropic)
            BY <1>8 DEF WriteEvidence, evidence_from_eval_result
        <3>. QED
            BY <3>1, Zenon
    <2>. QED
        BY <1>2, <1>8, <2>1 DEF WriteEvidence, TypeOK
<1>9. CASE Handoff
    <2>1. snippet' \in Snippets
        BY <1>9, HandoffTyped DEF Handoff
    <2>. QED
        BY <1>2, <1>9, <2>1 DEF Handoff, TypeOK
<1>10. ASSUME NEW flags, RecordFlags(flags), DOMAIN flags \subseteq EvidenceKeys PROVE TypeOK'
    <2>1. env' \in SUBSET Settings
        BY <1>10, ConstantsTyped DEF RecordFlags, TypeOK
    <2>. QED
        BY <1>2, <1>10, <2>1 DEF RecordFlags, TypeOK
<1>11. CASE Record
    <2>1. DOMAIN snippet \subseteq EvidenceKeys
        BY DEF TypeOK, Snippets
    <2>2. /\ AI_DEMO_EVAL_ENV_MANIFEST \subseteq EvidenceKeys
          /\ LIVE_DATA_READINESS_ENV_MANIFEST \subseteq EvidenceKeys
        BY DEF EvidenceKeys, build_evidence_manifest
    <2>. QED
        BY <1>10, <1>11, <2>1, <2>2 DEF Record
<1>12. ASSUME NEW names \in Samples, RunLive(names) PROVE TypeOK'
    <2>1. PICK reached \in BOOLEAN :
            LET valid == {c \in names :
                            reached /\ ContractClient(c, env) /\ validate_contract(views[c], c)}
            IN  /\ liveEnv' = (valid = names)
                /\ sampled' = valid
                /\ proven' = IF valid = names THEN proven \cup {"live_data_contract_validated"}
                             ELSE proven
        BY <1>12 DEF RunLive
    <2>2. liveEnv' \in BOOLEAN /\ sampled' \subseteq names /\ proven' \subseteq Evidence
        BY <2>1 DEF TypeOK, Evidence
    <2>3. names \subseteq Contracts
        BY ConstantsTyped
    <2>. QED
        BY <1>2, <1>12, <2>2, <2>3 DEF RunLive, TypeOK
<1>13. ASSUME NEW kind \in Kinds, NEW t \in Targets, Check(kind, t) PROVE TypeOK'
    <2>1. check' \in Checks
        BY <1>13, OutcomeTyped DEF Check, TypeOK
    <2>. QED
        BY <1>13, <2>1 DEF Check, TypeOK
<1>. QED
    BY <1>1, <1>3, <1>4, <1>5, <1>6, <1>7, <1>8, <1>9, <1>11, <1>12, <1>13 DEF Next

-----------------------------------------------------------------------------
(* Theorems                                                                   *)

\* Every variable of the activation keeps its type.
THEOREM ActivationTypeCorrect == Spec => []TypeOK
<1>1. Init => TypeOK
    <2>. SUFFICES ASSUME Init PROVE TypeOK
        OBVIOUS
    <2>1. snippet \in Snippets
        <3>1. snippet \in [{} -> BOOLEAN] /\ {} \in SUBSET EvidenceKeys
            BY DEF Init
        <3>. QED
            BY <3>1 DEF Snippets
    <2>. QED
        BY <2>1, ConstantsTyped DEF Init, TypeOK
<1>2. TypeOK /\ [Next]_vars => TypeOK'
    BY TypeStep
<1>. QED
    BY <1>1, <1>2, PTL DEF Spec

\* Readiness foretells the ports, for every set of settings: the hand-written
\* statuses and targets never call ready what a factory refuses.
THEOREM ReadyIsOpen == Spec => []ReadyRuns
<1>1. Init => Refused
    BY DEF Init, Refused
<1>2. Refused /\ [Next]_vars => Refused'
    BY RefusedStep
<1>3. Refused => ReadyRuns
    BY ReadyServes, AiDemoServes DEF Refused, ReadyRuns
<1>. QED
    BY <1>1, <1>2, <1>3, PTL DEF Spec

\* A consolidated check that passes leaves no blocker but the offline agent's.
THEOREM PassedIsReady == Spec => []PassedChecksReady
<1>1. Init => PassedChecksReady
    BY DEF Init, PassedChecksReady
<1>2. PassedChecksReady /\ [Next]_vars => PassedChecksReady'
    BY CheckStep
<1>. QED
    BY <1>1, <1>2, PTL DEF Spec

\* The operator's pages never contradict one another, on any configuration.
THEOREM PagesAreOneStory == Spec => []PagesAgree
<1>1. PagesAgree
    BY PagesOf DEF PagesAgree
<1>. QED
    BY <1>1, PTL

\* An operator who records what the scripts write never records a validation
\* that did not take place, in whatever order files and settings change.
THEOREM EvidenceIsBacked == Spec => []EvidenceBacked
<1>1. Init => Backed
    BY ConstantsTyped DEF Init, Backed
<1>2. TypeOK /\ Backed /\ [Next]_vars => Backed'
    BY BackedStep
<1>3. Backed => EvidenceBacked
    BY DEF Backed, EvidenceBacked
<1>. QED
    BY <1>1, <1>2, <1>3, ActivationTypeCorrect, PTL DEF Spec

=============================================================================

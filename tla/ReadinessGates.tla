--------------------------- MODULE ReadinessGates ---------------------------
(* What the backend says of its own configuration, and what it then does with *)
(* it.  A configuration is the set of the settings that are given: a switch   *)
(* is in the set when it selects the live provider, a value when it is not    *)
(* empty, a threshold when it is met.  The two settings whose default allows  *)
(* everything and whose presence blocks keep that reading: the offline        *)
(* agent's kill switch and summary_fail_open are in the set when they are on. *)
(*                                                                            *)
(* Five families of hand-written functions read the same settings: discovery  *)
(* gates, provider statuses, activation targets, operator pages (runbook, gap *)
(* report, packet, AI-demo pack) and the factories that open the ports.  Each *)
(* is translated on its own; Activation states how they must agree.           *)

-----------------------------------------------------------------------------
(* Discovery gates                                                            *)

DatabricksKeys == {"databricks_host", "databricks_token", "databricks_sql_warehouse_id"}
SnowflakeKeys == {"snowflake_account", "snowflake_user", "snowflake_token",
                  "snowflake_warehouse", "snowflake_database", "snowflake_schema"}
SharingKeys == {"discovery_data_sharing_model", "discovery_data_residency"}

\* The switches that select a live mode: any one of them selects it.
SwitchesOf == [
    external_jwt         |-> {"auth_provider"},
    databricks           |-> {"osa_adapter", "rgm_adapter"},
    snowflake            |-> {"store_master_adapter"},
    unity_catalog        |-> {"audit_sink", "audit_dual_write_enabled"},
    crm_writeback        |-> {"crm_adapter"},
    erp_submit           |-> {"erp_adapter"},
    mem0                 |-> {"memory_provider"},
    shelf_image          |-> {"shelf_image_adapter"},
    offline_agent        |-> {"offline_agent_enabled", "offline_agent_provider"},
    guardrail_classifier |-> {"guardrail_provider"}]

Selects(switches, cfg) == switches \cap cfg # {}

selected_live_modes(cfg) == {m \in DOMAIN SwitchesOf : Selects(SwitchesOf[m], cfg)}

\* The modes each answer is required for; the rep device is asked for twice.
discovery_gates == [
    discovery_data_sharing_model      |-> {"databricks", "snowflake", "unity_catalog"},
    discovery_crm_platform            |-> {"crm_writeback"},
    discovery_erp_sandbox             |-> {"erp_submit"},
    discovery_pilot_territory         |-> {"all_live_modes"},
    discovery_rep_device              |-> {"offline", "offline_agent", "shelf_image"},
    discovery_sso_provider            |-> {"external_jwt"},
    discovery_data_residency          |-> {"databricks", "snowflake", "unity_catalog",
                                           "shelf_image", "guardrail_classifier"},
    guardrail_classifier_endpoint     |-> {"guardrail_classifier"},
    discovery_offline_sync_policy     |-> {"offline", "offline_agent"},
    discovery_memory_retention_policy |-> {"mem0"},
    discovery_memory_scopes           |-> {"mem0"}]

MissingGates(cfg) == DOMAIN discovery_gates \ cfg

readiness_blockers(cfg) ==
    IF selected_live_modes(cfg) = {} THEN {}
    ELSE {s \in MissingGates(cfg) :
            \/ "all_live_modes" \in discovery_gates[s]
            \/ discovery_gates[s] \cap selected_live_modes(cfg) # {}}

\* One missing gate refuses every mode, not only the mode it is required for.
assert_discovery_ready(cfg) == readiness_blockers(cfg) = {}

-----------------------------------------------------------------------------
(* Provider statuses: each lists the settings its provider still lacks        *)

Lacks(switches, needed, cfg) == IF Selects(switches, cfg) THEN needed \ cfg ELSE {}

databricks_status(cfg) ==
    Lacks({"osa_adapter", "rgm_adapter"},
          DatabricksKeys \cup SharingKeys \cup {"live_data_contract_validated"}, cfg)
snowflake_status(cfg) ==
    Lacks({"store_master_adapter"},
          SnowflakeKeys \cup SharingKeys \cup {"live_data_contract_validated"}, cfg)
data_platform_status(cfg) == databricks_status(cfg) \cup snowflake_status(cfg)

crm_statusWithoutToken(cfg) ==
    Lacks({"crm_adapter"}, {"crm_endpoint", "discovery_crm_platform"}, cfg)
crm_status(cfg) ==
    Lacks({"crm_adapter"}, {"crm_endpoint", "crm_token_ref", "discovery_crm_platform"}, cfg)
erp_status(cfg) ==
    Lacks({"erp_adapter"}, {"erp_endpoint", "erp_token_ref", "discovery_erp_sandbox"}, cfg)
action_provider_status(cfg) == crm_status(cfg) \cup erp_status(cfg)

shelf_image_status(cfg) ==
    Lacks({"shelf_image_adapter"}, {"shelf_image_endpoint", "shelf_image_token_ref",
                                    "discovery_rep_device", "discovery_data_residency"}, cfg)

memory_status(cfg) ==
    Lacks({"memory_provider"}, {"mem0_token_ref", "discovery_memory_retention_policy",
                                "discovery_memory_scopes"}, cfg)

auth_status(cfg) ==
    Lacks({"auth_provider"}, {"discovery_sso_provider", "external_jwt_issuer",
                              "external_jwt_audience", "external_jwt_algorithms"}, cfg)

unity_selected(cfg) == Selects({"audit_sink", "audit_dual_write_enabled"}, cfg)

audit_sink_status(cfg) ==
    ({"audit_unity_catalog_table"} \ cfg)
        \cup Lacks({"audit_sink", "audit_dual_write_enabled"}, DatabricksKeys \cup SharingKeys, cfg)

guardrail_status(cfg) ==
    Lacks({"guardrail_provider"}, {"guardrail_classifier_endpoint"}, cfg)

observability_status(cfg) ==
    Lacks({"observability_provider"}, {"otel_exporter_otlp_endpoint", "otel_service_name"}, cfg)

offline_agent_status(cfg) ==
    ({"offline_agent_enabled", "offline_agent_provider", "offline_agent_min_device_ram_gb",
      "offline_agent_max_latency_ms", "offline_agent_min_tool_accuracy"} \ cfg)
        \cup ({"offline_agent_kill_switch"} \cap cfg)

provider_readiness(cfg) == [
    auth             |-> auth_status(cfg),
    data_platform    |-> data_platform_status(cfg),
    action_providers |-> action_provider_status(cfg),
    shelf_image      |-> shelf_image_status(cfg),
    memory           |-> memory_status(cfg),
    audit            |-> audit_sink_status(cfg),
    guardrails       |-> guardrail_status(cfg),
    offline_agent    |-> offline_agent_status(cfg),
    observability    |-> observability_status(cfg)]

\* The offline agent is passed over as long as nobody asked for it.
flatten_provider_blockers(cfg) ==
    LET asked == Selects({"offline_agent_enabled", "offline_agent_provider"}, cfg)
        status == provider_readiness(cfg)
        read == {p \in DOMAIN status : p = "offline_agent" => asked}
    IN  UNION {{<<p, b>> : b \in status[p]} : p \in read}

\* The "ready" of GET /integrations/readiness.
integration_readiness(cfg) ==
    readiness_blockers(cfg) = {} /\ flatten_provider_blockers(cfg) = {}

-----------------------------------------------------------------------------
(* Activation targets                                                         *)

Targets == {"local", "ai-demo", "pilot"}

\* The model's settings; "evaluated" is the eval evidence the caller goes by:
\* the recorded setting, or the eval a report has just run.
summary_blockers(cfg, evaluated) ==
    ({"summary_provider", "anthropic_token_ref", "anthropic_sdk"} \ cfg)
        \cup (IF evaluated THEN {} ELSE {"ai_demo_eval_validated"})

Evaluated(cfg) == "ai_demo_eval_validated" \in cfg

LocalBlockers(cfg) ==
    {<<"discovery", b>> : b \in readiness_blockers(cfg)} \cup flatten_provider_blockers(cfg)
AiDemoBlockers(cfg, evaluated) ==
    {<<"summary", b>> : b \in summary_blockers(cfg, evaluated)}
        \cup {<<"target", b>> : b \in {"agent_run_enabled"} \ cfg}
PilotBlockers(cfg) ==
    {<<"target", b>> : b \in {"live_data_contract_validated"} \ cfg}
        \cup (IF selected_live_modes(cfg) = {} THEN {<<"target", "live_mode">>} ELSE {})
        \cup (IF unity_selected(cfg) THEN {} ELSE {<<"target", "unity_catalog">>})

build_activation_targets(cfg, evaluated) == [t \in Targets |->
    CASE t = "local"   -> LocalBlockers(cfg)
      [] t = "ai-demo" -> LocalBlockers(cfg) \cup AiDemoBlockers(cfg, evaluated)
      [] t = "pilot"   -> LocalBlockers(cfg) \cup AiDemoBlockers(cfg, evaluated)
                                             \cup PilotBlockers(cfg)]

\* The targets as a running backend reports them.
activation_context(cfg) == build_activation_targets(cfg, Evaluated(cfg))

-----------------------------------------------------------------------------
(* Operator pages                                                             *)

runtime_validation_commands(t) ==
    {"public_safety_scan", "spec_decision_guard", "local_readiness", "api_contract",
     "demo_seed", "discovery_packet", "final_api_smoke", "local_dev_smoke",
     "local_verification", "pilot_status_snapshot", "pilot_gap_report",
     "pilot_activation_runbook", "validation_suite"}
    \cup (IF t = "local" THEN {} ELSE
            {"ai_demo_activation_pack", "ai_summary_eval", "mlflow_handoff_dry_run",
             "ai_demo_eval_evidence", "ai_demo_readiness", "summary_load_test"})
    \cup (IF t # "pilot" THEN {} ELSE
            {"live_data_contracts", "unity_audit_smoke", "action_provider_smoke",
             "guardrail_classifier_smoke", "memory_provider_smoke", "pilot_env_handoff",
             "pilot_readiness"})

\* The settings that carry the evidence a target is accepted on: each kind of
\* evidence is a flag with the time and the summary of its validation.
AI_DEMO_EVAL_ENV_MANIFEST ==
    {"ai_demo_eval_validated", "ai_demo_eval_last_validation_at",
     "ai_demo_eval_validation_summary"}
LIVE_DATA_READINESS_ENV_MANIFEST ==
    {"live_data_contract_validated", "live_data_contract_last_validation_at",
     "live_data_contract_validation_summary"}

build_evidence_manifest(t) ==
    (IF t = "local" THEN {} ELSE AI_DEMO_EVAL_ENV_MANIFEST)
        \cup (IF t = "pilot" THEN LIVE_DATA_READINESS_ENV_MANIFEST ELSE {})

\* The commands the gap report recommends for a blocker, found by its wording.
command_names_for_blockerOfTarget(b) ==
    IF b[1] = "target" THEN {"live_data_contracts", "unity_audit_smoke", "pilot_readiness"}
    ELSE {}
command_names_for_blocker(b) ==
    CASE b[1] = "summary" \/ b = <<"target", "agent_run_enabled">> ->
            {"ai_summary_eval", "ai_demo_eval_evidence", "ai_demo_readiness", "summary_load_test"}
      [] b = <<"target", "live_data_contract_validated">> ->
            {"live_data_contracts", "pilot_env_handoff", "pilot_readiness"}
      [] b = <<"target", "live_mode">> ->
            {"action_provider_smoke", "pilot_env_handoff", "pilot_readiness"}
      [] b = <<"target", "unity_catalog">> -> {"unity_audit_smoke", "pilot_readiness"}
      [] OTHER -> {"validation_suite"}

build_gap_report(cfg) ==
    LET targets == activation_context(cfg)
        known == UNION {runtime_validation_commands(t) : t \in Targets}
        gap(t, b) == [target |-> t, blocker |-> b,
                      commands |-> command_names_for_blocker(b) \cap known]
    IN  UNION {{gap(t, b) : b \in targets[t]} : t \in Targets}

\* The modes of the pilot packet, written beside those of the gates.
PILOT_REQUIRED_MODES ==
    {"all_live_modes", "databricks", "snowflake", "unity_catalog", "crm_writeback",
     "erp_submit", "external_jwt", "offline", "offline_agent", "mem0", "shelf_image",
     "guardrail_classifier"}

\* The local packet lists the gates answered by their default: none is missing.
target_gates(t) ==
    {s \in DOMAIN discovery_gates :
        CASE t = "local"   -> FALSE
          [] t = "ai-demo" -> discovery_gates[s] \cap {"all_live_modes", "external_jwt"} # {}
          [] t = "pilot"   -> discovery_gates[s] \cap PILOT_REQUIRED_MODES # {}}

build_discovery_packet(t, cfg) == target_gates(t) \cap MissingGates(cfg)

\* The pack is ready without blockers; its list of configuration checks is a
\* second judgement, and "unready" holds the checks that fail.
build_ai_demo_activation_pack(cfg) == [
    blockers |-> {<<"summary", b>> : b \in summary_blockers(cfg, Evaluated(cfg))}
                    \cup {<<"target", b>> : b \in {"agent_run_enabled"} \ cfg},
    unready  |-> ({"summary_provider", "anthropic_token_ref", "anthropic_model",
                   "agent_run_enabled", "ai_demo_eval_validated"} \ cfg)
                    \cup ({"summary_fail_open"} \cap cfg)]

provider_phase(blockers, ready, default) ==
    CASE blockers # {} \/ (default = "blocked" /\ ~ready) -> "blocked"
      [] blockers = {} /\ ready -> "ready"
      [] OTHER -> default

combined_provider_status(names, cfg) == UNION {provider_readiness(cfg)[p] : p \in names}

build_activation_runbook(cfg) ==
    LET targets == activation_context(cfg)
        phase(t) == IF targets[t] = {} THEN "ready" ELSE "blocked"
        of(names) == combined_provider_status(names, cfg)
    IN  [phase_0 |-> phase("local"),
         phase_1 |-> phase("ai-demo"),
         phase_2 |-> provider_phase(of({"data_platform"}),
                        /\ "live_data_contract_validated" \in cfg
                        /\ of({"data_platform"}) = {}, "blocked"),
         phase_3 |-> provider_phase(of({"auth", "audit", "guardrails"}),
                        of({"auth", "audit", "guardrails"}) = {} /\ unity_selected(cfg), "blocked"),
         phase_4 |-> provider_phase(of({"action_providers"}),
                        of({"action_providers"}) = {}, "scaffolded"),
         phase_5 |-> provider_phase(of({"memory", "offline_agent"}),
                        of({"memory", "offline_agent"}) = {}, "scaffolded"),
         phase_5b |-> provider_phase(of({"shelf_image"}), of({"shelf_image"}) = {}, "scaffolded"),
         phase_6 |-> phase("pilot")]

-----------------------------------------------------------------------------
(* Ports: what the factories, adapters and clients do with the settings       *)

\* A port of the scaffold always opens; a live one asks the discovery gates,
\* then its own settings.
Opens(switches, needed, cfg) ==
    Selects(switches, cfg) => assert_discovery_ready(cfg) /\ needed \subseteq cfg

OsaPort(cfg) == Opens({"osa_adapter"}, DatabricksKeys, cfg)
RgmPort(cfg) == Opens({"rgm_adapter"}, DatabricksKeys, cfg)
StoreMasterPort(cfg) == Opens({"store_master_adapter"}, SnowflakeKeys, cfg)
CrmPort(cfg) == Opens({"crm_adapter"}, {"crm_endpoint", "crm_token_ref"}, cfg)
ErpPort(cfg) == Opens({"erp_adapter"}, {"erp_endpoint", "erp_token_ref"}, cfg)
ShelfImagePort(cfg) ==
    Opens({"shelf_image_adapter"}, {"shelf_image_endpoint", "shelf_image_token_ref"}, cfg)
MemoryPort(cfg) == Opens({"memory_provider"}, {"mem0_token_ref"}, cfg)
AuthProvider(cfg) ==
    Opens({"auth_provider"},
          {"external_jwt_issuer", "external_jwt_audience", "external_jwt_algorithms"}, cfg)

\* The mirror of a fail-open dual write may lack its warehouse: its errors are
\* swallowed, but not those of the gates and of the table name.
AuditSink(cfg) ==
    Opens({"audit_sink", "audit_dual_write_enabled"},
          {"audit_unity_catalog_table"}
            \cup (IF Selects({"audit_sink", "audit_dual_write_fail_closed"}, cfg)
                  THEN DatabricksKeys ELSE {}), cfg)

\* Without its endpoint a fail-closed classifier blocks every text, and a
\* fail-closed exporter fails every request.
GuardrailProvider(cfg) ==
    {"guardrail_provider", "guardrail_fail_closed"} \subseteq cfg
        => "guardrail_classifier_endpoint" \in cfg
Exporter(cfg) ==
    {"observability_provider", "otel_fail_closed"} \subseteq cfg
        => "otel_exporter_otlp_endpoint" \in cfg

ModelConfigured(cfg) == {"summary_provider", "anthropic_token_ref", "anthropic_sdk"} \subseteq cfg
SummaryProvider(cfg) ==
    "summary_provider" \in cfg => ModelConfigured(cfg) \/ "summary_fail_open" \in cfg

Serves(cfg) == [
    osa         |-> OsaPort(cfg),        rgm         |-> RgmPort(cfg),
    crm         |-> CrmPort(cfg),        store_master |-> StoreMasterPort(cfg),
    erp         |-> ErpPort(cfg),        shelf_image |-> ShelfImagePort(cfg),
    memory      |-> MemoryPort(cfg),     auth        |-> AuthProvider(cfg),
    audit       |-> AuditSink(cfg),      guardrail   |-> GuardrailProvider(cfg),
    exporter    |-> Exporter(cfg),       summary     |-> SummaryProvider(cfg)]

Ports == {"osa", "rgm", "crm", "store_master", "erp", "shelf_image", "memory", "auth",
          "audit", "guardrail", "exporter", "summary"}
=============================================================================

----------------------------- MODULE MCActivation -----------------------------
(* Configurations for model checking: the shipped defaults, the AI-demo       *)
(* scaffold, the full pilot, and each of these with one setting taken away or *)
(* the whole of one provider switched on.                                     *)
EXTENDS Activation

\* The values the code or .env.example gives without anyone's answer.
Defaults ==
    {"discovery_pilot_territory", "discovery_rep_device", "discovery_offline_sync_policy",
     "external_jwt_algorithms", "otel_service_name", "audit_unity_catalog_table",
     "audit_dual_write_fail_closed", "guardrail_fail_closed", "anthropic_sdk", "anthropic_model",
     "offline_agent_kill_switch", "offline_agent_min_device_ram_gb",
     "offline_agent_max_latency_ms", "offline_agent_min_tool_accuracy"}

Switches == UNION {SwitchesOf[m] : m \in DOMAIN SwitchesOf}
                \cup {"summary_provider", "observability_provider"}

Values ==
    DatabricksKeys \cup SnowflakeKeys \cup DOMAIN discovery_gates \cup
    {"crm_endpoint", "crm_token_ref", "erp_endpoint", "erp_token_ref",
     "shelf_image_endpoint", "shelf_image_token_ref", "mem0_token_ref",
     "external_jwt_issuer", "external_jwt_audience", "anthropic_token_ref",
     "otel_exporter_otlp_endpoint", "agent_run_enabled"}

MCSettings == Defaults \cup Switches \cup Values \cup EvidenceKeys
                \cup {"summary_fail_open", "otel_fail_closed"}

AiDemo == Defaults \cup {"summary_provider", "anthropic_token_ref", "agent_run_enabled"}

\* The answers and credentials are in, the audit trail is mirrored, and the
\* data adapters are still the mock ones: the end of phase 1 of the runbook.
Prepared == AiDemo \cup Values \cup {"audit_dual_write_enabled"}

\* Every live provider but the offline agent; with the mock identity provider,
\* the only one under which the scripts' own tokens are accepted.
Offline == {"offline_agent_enabled", "offline_agent_provider"}
Pilot == Prepared \cup (Switches \ (Offline \cup {"auth_provider", "audit_sink"}))
Governed == Pilot \cup {"auth_provider", "otel_fail_closed", "otel_exporter_otlp_endpoint"}
WithAgent == (Pilot \cup Offline) \ {"offline_agent_kill_switch"}

Without(cfg, lost) == {cfg \ {s} : s \in lost \cap cfg}

\* The settings one of which may be missing; of those that are asked for
\* together, such as the six keys of Snowflake, one stands for all, and two
\* for the switches.
Alike == SnowflakeKeys \cup Defaults \cup
         (Switches \ {"summary_provider", "audit_dual_write_enabled"}) \cup
         {"databricks_host", "databricks_sql_warehouse_id", "crm_endpoint", "erp_endpoint",
          "shelf_image_endpoint", "discovery_memory_scopes", "external_jwt_issuer"}
Lost == (Governed \ Alike) \cup {"snowflake_token", "discovery_pilot_territory",
                                 "discovery_rep_device", "external_jwt_algorithms",
                                 "otel_service_name", "audit_unity_catalog_table",
                                 "audit_dual_write_fail_closed"}

\* Fresh configurations, and some whose evidence has been recorded before.
MCStarts ==
    {Defaults, AiDemo, AiDemo \cup {"summary_fail_open"}, Pilot}
        \cup {Defaults \cup {s} : s \in Switches \ Offline}
        \cup {Pilot \cup Evidence, Pilot \cup Offline \cup Evidence}
        \cup {Governed \cup Evidence, WithAgent \cup Evidence}
        \cup Without(Governed \cup Evidence, Lost)
        \cup Without(WithAgent \cup Evidence, Offline \cup {"offline_agent_max_latency_ms", "discovery_rep_device"})

MCEditable == {"guardrail_provider"}

\* The views as the contracts describe them, with sound rows; and with the
\* columns the adapters need besides, but for the recommendations, which lack
\* them still.
ColumnsOf(v) ==
    UNION {LiveReads[r].columns : r \in {r \in Reads : LiveReads[r].view = v}}
Required(v) == IF v \in Contracts THEN live_data_contracts[v] ELSE ColumnsOf(v)

AsContracted == [v \in Views |-> [columns |-> Required(v), rows |-> "sound"]]
Extended == [v \in Views |->
    IF v = "rgm_recommendations" THEN AsContracted[v]
    ELSE [columns |-> ColumnsOf(v) \cup Required(v), rows |-> "sound"]]
MCViews == {Extended}
MCSamples == {Contracts}

\* One pilot-to-be: its AI evidence was collected on the mock data adapters and
\* the live ones are switched on afterwards, in the order of the runbook.
PhasedStarts == {Prepared \cup {"ai_demo_eval_validated"}}
PhasedEdits == {"osa_adapter", "rgm_adapter"}
PhasedViews == {AsContracted}
PhasedSamples == {Contracts, {"store_master"}}
=============================================================================

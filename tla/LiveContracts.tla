---------------------------- MODULE LiveContracts ----------------------------
(* The external views behind the live adapters: what the data contracts check *)
(* of them (governance/live_contracts.py) and what the adapters then ask of   *)
(* them (adapters/real.py).  A view is the set of its columns and whether its *)
(* rows satisfy the contract's row rules.                                     *)
EXTENDS ReadinessGates

RowKinds == {"sound", "empty", "unsound"}

\* One contract per view that has one, with the columns it requires.
live_data_contracts == [
    osa_oos_alerts |->
        {"store_id", "store_name", "retailer_name", "territory_code", "rep_id", "sku_id",
         "sku_name", "category", "prediction_date", "risk_score", "is_phantom_inventory",
         "root_cause_label", "data_freshness_ts", "prediction_source_row_id", "model_version"},
    rgm_recommendations |->
        {"store_id", "territory_code", "rep_id", "recommendation_id", "recommendation_type",
         "sku_id", "sku_name", "title", "rationale", "expected_value_eur",
         "confidence_score", "data_freshness_ts", "model_version"},
    store_master |->
        {"store_id", "store_name", "retailer_name", "address", "store_tier", "territory_code",
         "rep_id", "last_visit_date", "next_visit_date", "units_sold_30d", "revenue_30d",
         "promo_compliance_rate", "revenue_opportunity_score", "oos_sku_count",
         "data_freshness_ts"}]

Contracts == DOMAIN live_data_contracts

\* The sample query names every required column, so a view that lacks one
\* fails the query, and an empty sample is a violation.
validate_contract(view, c) ==
    live_data_contracts[c] \subseteq view.columns /\ view.rows = "sound"

\* The switch of the clients the contract is sampled with is not looked at:
\* only their credentials are.
ContractClient(c, cfg) ==
    IF c = "store_master" THEN SnowflakeKeys \subseteq cfg ELSE DatabricksKeys \subseteq cfg

StoreColumns == live_data_contracts.store_master

\* The columns each live read selects or filters by, and the switch and port it
\* goes through.  Three of the views read have no contract.
LiveReads == [
    visits |-> [view |-> "osa_visit_priority", switch |-> "osa_adapter", port |-> "osa",
        columns |-> {"store_id", "store_name", "address", "avg_oos_risk_score",
                     "promo_compliance_rate", "revenue_opportunity_score",
                     "days_since_last_visit", "oos_sku_count", "data_freshness_ts",
                     "rep_id", "territory_code", "visit_date", "priority_score"}],
    store_detail |-> [view |-> "osa_store_detail", switch |-> "osa_adapter", port |-> "osa",
        columns |-> StoreColumns],
    territory |-> [view |-> "osa_territory_store_summary", switch |-> "osa_adapter",
        port |-> "osa",
        columns |-> {"store_id", "store_name", "rep_id", "priority_score", "oos_sku_count",
                     "confirmed_feedback_count", "false_positive_count", "open_draft_count",
                     "data_freshness_ts", "territory_code", "visit_date"}],
    alerts |-> [view |-> "osa_oos_alerts", switch |-> "osa_adapter", port |-> "osa",
        columns |-> {"prediction_row_id", "store_id", "sku_id", "sku_name", "category",
                     "risk_score", "is_phantom_inventory", "predicted_stockout_date",
                     "root_cause_label", "data_freshness_ts", "rep_id"}],
    alerts_by_ids |-> [view |-> "osa_oos_alerts", switch |-> "osa_adapter", port |-> "osa",
        columns |-> {"prediction_row_id", "store_id", "sku_id", "sku_name", "category",
                     "risk_score", "is_phantom_inventory", "predicted_stockout_date",
                     "root_cause_label", "data_freshness_ts", "rep_id", "territory_code",
                     "alert_id"}],
    recommendations |-> [view |-> "rgm_recommendations", switch |-> "rgm_adapter", port |-> "rgm",
        columns |-> {"recommendation_type", "recommendation_id", "store_id", "sku_id",
                     "sku_name", "category", "promo_name", "expected_lift", "margin_impact",
                     "estimated_revenue_opportunity", "estimated_value", "reason",
                     "confidence_label"}],
    store |-> [view |-> "store_master", switch |-> "store_master_adapter",
        port |-> "store_master", columns |-> StoreColumns]]

Reads == DOMAIN LiveReads
Views == {LiveReads[r].view : r \in Reads}

\* Whether the statement of a read can run on the views at all.
Readable(r, views) == LiveReads[r].columns \subseteq views[LiveReads[r].view].columns
=============================================================================

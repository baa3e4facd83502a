------------------------------ MODULE Catalogue ------------------------------
(***************************************************************************)
(* Stage 11's dashboards as dashboards.py declares them: a card is a query  *)
(* of one view, a dashboard shows cards. How they look and are laid out, and *)
(* what their SQL selects, is left out, but for the language model's words, *)
(* which only one dashboard may show.                                       *)
(***************************************************************************)
EXTENDS Integers, Sequences, FiniteSets, SequencesExt

NoTag == "none"

\* A card, and one that the incident date filters.
Card(key, name, view)  == [key |-> key, name |-> name, view |-> view, tag |-> NoTag]
Dated(key, name, view) == [Card(key, name, view) EXCEPT !.tag = "incident_date"]

-----------------------------------------------------------------------------
HeadlineCards ==
    <<Card("exec_kpi_revenue", "Net revenue", "exec_headline_kpis"),
      Card("exec_kpi_orders", "Orders", "exec_headline_kpis"),
      Card("exec_kpi_aov", "Average order value", "exec_headline_kpis"),
      Card("exec_kpi_refund_rate", "Refund rate", "exec_headline_kpis"),
      Card("exec_headline", "How each figure compares", "exec_headline_kpis")>>

SeriesCards ==
    <<Card("exec_revenue_vs_baseline", "Net revenue against its baseline", "exec_kpi_daily"),
      Card("exec_orders", "Orders per day, last 60 days", "exec_kpi_daily"),
      Card("exec_aov", "Average order value, last 60 days", "exec_kpi_daily"),
      Card("exec_refund_rate", "Refund rate, last 60 days", "exec_kpi_daily")>>

AnomalyCards ==
    <<Card("exec_severity", "Anomalies by severity", "exec_anomaly_severity_summary"),
      Card("exec_actionable", "Actionable anomalies", "exec_actionable_anomalies"),
      Card("exec_needs_review", "Critical and major anomalies awaiting a human", "exec_actionable_anomalies")>>

ResponseCards ==
    <<Card("exec_notifications", "Notification delivery", "exec_notification_status"),
      Card("exec_reviews", "Review queue", "exec_review_status"),
      Card("exec_remediation", "Remediation", "exec_remediation_status"),
      Card("exec_health", "Pipeline health", "exec_pipeline_health"),
      Card("exec_attention", "Waiting on someone", "ops_attention_items"),
      Card("exec_timeline", "Recent anomaly timeline", "exec_anomaly_timeline"),
      Card("exec_layers", "The eight layers, in reading order", "presentation_layers")>>

InvestigationCards ==
    <<Dated("inv_chain", "The chain, in order", "incident_timeline"),
      Dated("inv_evidence", "Evidence, in reading order", "anomaly_investigation_detail"),
      Dated("inv_decision", "Deterministic decision and reason codes", "anomaly_investigation"),
      Dated("inv_hypothesis", "LLM hypothesis - unverified", "anomaly_investigation"),
      Dated("inv_audit", "Audit history for this incident", "audit_event_stream"),
      Card("inv_picker", "Pick an incident", "anomaly_investigation")>>

OperationalCards ==
    <<Card("ops_runs", "Pipeline runs", "ops_pipeline_runs"),
      Card("ops_health", "Health by component", "exec_pipeline_health"),
      Card("ops_stale", "Stale, failed and overdue", "ops_attention_items"),
      Card("ops_replays", "Ingestion replays", "ingestion_replays"),
      Card("ops_review_ageing", "Review ageing", "review_ageing"),
      Card("ops_unknown", "Executions with an unknown outcome", "remediation_actions"),
      Card("ops_events", "Recent operational events", "audit_event_stream")>>

AuditCards ==
    <<Card("audit_stream", "Every recorded event", "audit_event_stream"),
      Card("audit_counts", "Events by stream", "audit_event_stream"),
      Card("audit_actors", "Who did what", "audit_event_stream")>>

CARDS ==
    HeadlineCards \o SeriesCards \o AnomalyCards \o ResponseCards
    \o InvestigationCards \o OperationalCards \o AuditCards

\* The view whose rows hold the words themselves, as one value among many, and the one
\* card that selects the columns that hold them (LLM_TEXT_COLUMNS).
ModelText(card) == card.view = "anomaly_investigation_detail" \/ card.key = "inv_hypothesis"

-----------------------------------------------------------------------------
\* A dashboard: the cards on its tabs, and those of them whose rows lead, when clicked,
\* to the investigation of the row's date (TO_INVESTIGATION). Where a card sits on the
\* grid, and the texts between the cards, is left out.
Dashboard(key, name, tag, cards, linked) ==
    [key |-> key, name |-> name, parameter_tag |-> tag, cards |-> cards \cup linked, linked |-> linked]

ExecutiveOverview ==
    Dashboard("executive", "Executive Overview", NoTag,
        {"exec_kpi_revenue", "exec_kpi_orders", "exec_kpi_aov", "exec_kpi_refund_rate",
         "exec_revenue_vs_baseline", "exec_orders", "exec_aov", "exec_refund_rate", "exec_headline",
         "exec_severity", "exec_reviews", "exec_notifications", "exec_remediation",
         "exec_health", "exec_attention", "exec_layers"},
        {"exec_timeline", "exec_actionable", "exec_needs_review"})

AnomalyInvestigation ==
    Dashboard("investigation", "Anomaly Investigation", "incident_date",
        {"inv_chain", "inv_decision", "inv_evidence", "inv_hypothesis", "inv_audit", "inv_picker"}, {})

OperationalHealth ==
    Dashboard("operational", "Operational Health", NoTag,
        {"ops_health", "ops_runs", "ops_stale", "ops_replays", "ops_review_ageing", "ops_unknown",
         "ops_events"}, {})

AuditTrail ==
    Dashboard("audit", "Audit Trail", NoTag, {"audit_counts", "audit_actors", "audit_stream"}, {})

DASHBOARDS == <<ExecutiveOverview, AnomalyInvestigation, OperationalHealth, AuditTrail>>

\* dashboard_cards, of all its tabs.
CardsOf(board) == board.cards
LinksOf(board) == IF board.linked # {} THEN {"investigation"} ELSE {}

CardOf(key) == CHOOSE c \in ToSet(CARDS) : c.key = key

\* What the provisioner takes for granted: names tell cards and dashboards apart.
ASSUME NamesAreUnique ==
    /\ \A i, j \in DOMAIN CARDS : CARDS[i].key = CARDS[j].key \/ CARDS[i].name = CARDS[j].name => i = j
    /\ \A b, c \in ToSet(DASHBOARDS) : b.key = c.key \/ b.name = c.name => b = c

\* Every card is on one dashboard, and a dated one on one that has the filter.
ASSUME EveryCardIsPlaced ==
    /\ \A c \in ToSet(CARDS) : \E b \in ToSet(DASHBOARDS) :
          /\ c.key \in CardsOf(b) /\ c.tag \in {NoTag, b.parameter_tag}
          /\ \A d \in ToSet(DASHBOARDS) \ {b} : c.key \notin CardsOf(d)
    /\ \A b \in ToSet(DASHBOARDS) : CardsOf(b) \subseteq {c.key : c \in ToSet(CARDS)}

\* The investigation is the only place for what a language model wrote.
ASSUME ModelTextInItsPlace ==
    \A b \in ToSet(DASHBOARDS) \ {AnomalyInvestigation} : \A key \in CardsOf(b) : ~ModelText(CardOf(key))
==============================================================================

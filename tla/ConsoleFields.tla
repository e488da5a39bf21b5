---------------------------- MODULE ConsoleFields ----------------------------
(* The tabs of the admin console and, for each, the configuration paths it edits and the kind of  *)
(* input that edits them: the tables TAB_SECTIONS and the inputs built by hand for logging and    *)
(* notifications.  A path is the sequence of its keys, as getByPath splits it.                    *)
(*   number, checkbox     an input of that type                                                   *)
(*   word                 an <input type="text"> for a plain string                               *)
(*   line, lines          a list of strings, in an <input type="text"> or in a <textarea>         *)
(*   json                 a <textarea> that holds a JSON value                                    *)
(*   countries, csv       a country multiselect for a list of codes, or for one string of them    *)
EXTENDS Sequences, FiniteSets

Kinds == {"number", "checkbox", "word", "line", "lines", "json", "countries", "csv"}

Under(section, keys) == {section \o <<key>> : key \in keys}
All(kind, paths) == [path \in paths |-> kind]

\* Both functions, the first where both are defined.
f ++ g == [x \in DOMAIN f \cup DOMAIN g |-> IF x \in DOMAIN f THEN f[x] ELSE g[x]]

DecisionFields ==
  All("number", Under(<<"decision_thresholds">>, {"challenge", "high", "block"}))
  ++ All("lines", {<<"critical_signals">>})

OperatorFields ==
  All("word", {<<"operator", "platform_name">>})
  ++ All("csv", {<<"operator", "licensed_markets">>})

IpIntelFields ==
  All("checkbox", Under(<<"ip_intel">>, {"enabled", "fail_open"}))
  ++ All("number", Under(<<"ip_intel">>, {"cache_ttl_seconds", "timeout_seconds"}))

AmlFields ==
  All("number", Under(<<"aml">>,
    {"single_deposit_threshold", "large_deposit_threshold", "withdrawal_review_threshold",
     "structuring_threshold", "micro_deposit_max", "high_stake_bet_threshold"}))

BlocklistFields ==
  All("checkbox", Under(<<"aml", "blocklist">>,
    {"enabled", "crypto_enabled", "bank_enabled", "ewallet_enabled", "card_enabled",
     "country_enabled", "sync_ofac_crypto_enabled", "sync_ofac_countries_enabled", "fail_open",
     "use_lists_sanctioned_countries"}))
  ++ All("number", Under(<<"aml", "blocklist">>,
       {"sync_interval_hours", "crypto_hit_score", "country_hit_score"}))
  ++ All("lines", Under(<<"aml", "blocklist">>,
       {"manual_crypto_wallets", "manual_bank_accounts", "manual_ewallet_accounts",
        "manual_card_accounts"}))
  ++ All("countries", {<<"aml", "blocklist", "manual_countries">>})

WithdrawalMethodFields ==
  All("checkbox", {<<"withdrawal_method", "enabled">>})
  ++ All("number", Under(<<"withdrawal_method">>,
       {"distinct_users_medium", "distinct_users_high", "distinct_users_critical",
        "medium_score", "high_score", "critical_score"}))

BettingPatternFields ==
  All("checkbox", {<<"betting_patterns", "enabled">>})
  ++ All("number", Under(<<"betting_patterns">>,
       {"burst_window_seconds",
        "game_bet_burst_medium", "game_bet_burst_high", "game_bet_burst_critical",
        "wallet_bet_burst_medium", "wallet_bet_burst_high", "wallet_bet_burst_critical",
        "wallet_win_burst_medium", "wallet_win_burst_high", "wallet_win_burst_critical",
        "win_rate_min_bets", "win_rate_high_ratio", "win_rate_critical_ratio"}))

HedgeBettingFields ==
  All("checkbox", Under(<<"hedge_betting">>,
    {"enabled", "require_round_id", "volume_washing_enabled"}))
  ++ All("number", Under(<<"hedge_betting">>,
       {"window_seconds", "round_leg_ttl_seconds", "time_pair_window_seconds",
        "amount_match_tolerance_percent", "opposite_side_same_round_score",
        "hedged_round_medium", "hedged_round_high", "hedged_round_critical",
        "min_gross_volume", "min_hedged_gross_ratio", "volume_washing_score"}))
  ++ All("json", {<<"hedge_betting", "opposite_selection_groups">>})

StepUpFields ==
  All("checkbox", Under(<<"step_up_verification">>, {"enabled", "downgrade_challenge_to_allow"}))
  ++ All("number", Under(<<"step_up_verification">>,
       {"grant_ttl_days", "max_verified_age_minutes"}))
  ++ All("lines", Under(<<"step_up_verification">>,
       {"allowed_hostnames", "applicable_event_types"}))

\* The one list that is edited in a single-line input.
FingerprintFields ==
  All("line", {<<"fingerprint", "required_channels">>})
  ++ All("number", Under(<<"fingerprint">>, {"min_length", "max_length"}))
  ++ All("lines", {<<"fingerprint", "suspicious_values">>})

ListFields ==
  All("lines", Under(<<"lists">>,
    {"disposable_domains", "generic_names", "role_based_email_locals", "suspicious_email_tlds",
     "suspicious_email_local_tokens", "bot_user_agent_tokens", "emulator_ua_tokens",
     "suspicious_referrers", "bonus_abuse_referrer_tokens"}))
  ++ All("countries", Under(<<"lists">>, {"high_risk_countries", "sanctioned_countries"}))

VelocityFields == All("json", {<<"velocity_thresholds">>})

FeatureFields ==
  All("checkbox", Under(<<"features">>,
    {"sync_publish_audit", "redis_enabled", "rabbitmq_enabled", "rabbitmq_publish_results"}))
  ++ All("number", Under(<<"features">>,
       {"decision_cache_ttl_seconds", "redis_velocity_ip_ttl", "redis_velocity_domain_ttl",
        "rabbitmq_prefetch"}))
  ++ All("word", Under(<<"features">>,
       {"rabbitmq_events_exchange", "rabbitmq_events_exchange_type", "rabbitmq_events_queue",
        "rabbitmq_events_binding_key", "rabbitmq_results_queue"}))

LoggingFields == All("checkbox", Under(<<"logging">>, {"sync_enabled", "async_enabled"}))

DashboardFields ==
  All("checkbox", Under(<<"dashboard">>,
    {"notifications_enabled", "notify_on_block", "notify_on_critical"}))
  ++ All("number", {<<"dashboard", "poll_interval_seconds">>})

\* The tabs in their order: the dashboard, TAB_SECTIONS, the log viewer.
Sections == <<"dashboard", "decision", "operator", "ip_intel", "aml", "withdrawal_method",
              "betting_patterns", "hedge_betting", "step_up", "fingerprint", "lists", "velocity",
              "features", "logs">>

FieldsOf(section) ==
  CASE section = "dashboard" -> DashboardFields
    [] section = "decision" -> DecisionFields
    [] section = "operator" -> OperatorFields
    [] section = "ip_intel" -> IpIntelFields
    [] section = "aml" -> AmlFields ++ BlocklistFields
    [] section = "withdrawal_method" -> WithdrawalMethodFields
    [] section = "betting_patterns" -> BettingPatternFields
    [] section = "hedge_betting" -> HedgeBettingFields
    [] section = "step_up" -> StepUpFields
    [] section = "fingerprint" -> FingerprintFields
    [] section = "lists" -> ListFields
    [] section = "velocity" -> VelocityFields
    [] section = "features" -> FeatureFields
    [] section = "logs" -> LoggingFields

TabIds == {Sections[i] : i \in DOMAIN Sections}
FormPaths == UNION {DOMAIN FieldsOf(section) : section \in TabIds}
FieldKind == [path \in FormPaths |->
               FieldsOf(CHOOSE section \in TabIds : path \in DOMAIN FieldsOf(section))[path]]
=============================================================================

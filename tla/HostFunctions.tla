--------------------------- MODULE HostFunctions ---------------------------
(***************************************************************************)
(* functions/api.rs: the API functions a rule can import, whether one      *)
(* returns a code or fills a buffer of the rule (buffer), and whether a    *)
(* rule in test mode may call it (dry).  The functions for storage, cache, *)
(* logbacks and responses are in the modules of those components.          *)
(***************************************************************************)
EXTENDS Sequences

\* impl_new_function(_with_error_buffer), impl_new_sub_module_function(...):
\* code, codeDry: the ones without a buffer that are disallowed and allowed
\* in test mode; data, dataDry: the ones with a buffer.
Functions(api, code, codeDry, data, dataDry) ==
    {[name |-> api \o "_" \o fn, api |-> api, buffer |-> fn \in data \cup dataDry, dry |-> fn \in codeDry \cup dataDry] :
        fn \in code \cup codeDry \cup data \cup dataDry}

general == Functions("general",
    {"simple_json_post_request"},
    {},
    {},
    {"make_named_request", "retrieve_tls_certificate_with_sni"})
github == Functions("github",
    {"add_user_to_repo", "remove_user_from_repo", "add_user_to_team", "remove_user_from_team",
     "update_branch_protection_rule", "create_environment_for_repo", "configure_secret",
     "create_deployment_branch_protection_rule", "trigger_repo_dispatch",
     "remove_outside_collaborator_from_org", "delete_deploy_key", "require_signed_commits", "add_repo_to_team",
     "remove_repo_from_team", "comment_on_pull_request", "pull_request_request_reviewers",
     "submit_pull_request_review", "create_reference", "add_labels", "add_repo_to_org_secret",
     "remove_repo_from_org_secret", "grant_repo_access_to_org_installation",
     "remove_repo_access_from_org_installation", "review_fpat_requests_for_org"},
    {"check_org_membership_of_user"},
    {"create_deploy_key", "add_users_to_org_copilot", "remove_users_from_org_copilot", "create_pull_request",
     "create_file"},
    {"get_repo_teams", "make_graphql_query", "make_advanced_graphql_query", "fetch_commit", "list_files",
     "fetch_file_with_custom_media_type", "get_branch_protection_rules", "get_branch_protection_ruleset",
     "get_repository_collaborators", "search_code", "list_seats_in_org_copilot", "get_custom_properties_values",
     "check_codeowners_file", "get_repo_sbom", "get_weekly_commit_count", "get_reference", "get_pull_requests",
     "get_user_id_from_username", "get_username_from_user_id", "get_repo_id_from_repo_name",
     "get_repo_name_from_repo_id", "list_org_secrets_for_repo", "get_enterprise_license_status",
     "list_fpat_requests_for_org", "get_repos_for_fpat"})
cryptography == Functions("cryptography", {}, {}, {}, {"aes_128_cbc_encrypt", "aes_128_cbc_decrypt"})
jira == Functions("jira",
    {"update_issue", "post_comment"},
    {},
    {"create_issue"},
    {"get_issue", "get_user", "search_issues"})
aws_kms == Functions("aws_kms", {"verify_mac"}, {}, {"generate_mac", "sign_arbitrary_message"}, {"get_public_key"})
aws_dynamodb == Functions("aws_dynamodb", {}, {}, {"put_item", "delete_item"}, {"query"})
aws_s3 == Functions("aws_s3",
    {"delete_object", "put_object"},
    {},
    {"put_object_tags"},
    {"get_object_attributes", "get_object", "list_objects", "list_object_versions"})
gcp_google_docs == Functions("gcp_google_docs",
    {},
    {},
    {"upload_file", "copy_file", "create_folder", "create_doc_from_markdown", "create_sheet_from_csv"},
    {})
gcp_bigquery == Functions("gcp_bigquery", {}, {}, {}, {"query_table"})
npm == Functions("npm",
    {},
    {},
    {"publish_empty_stub", "set_team_permission_on_package", "create_granular_token_for_packages",
     "delete_granular_token", "delete_package", "add_user_to_team", "remove_user_from_team",
     "remove_user_from_organization", "invite_user_to_organization"},
    {"list_granular_tokens", "get_org_user_list", "get_org_users_without_2fa",
     "list_packages_with_team_permission", "get_token_details"})
okta == Functions("okta", {"remove_user_from_group"}, {}, {}, {"get_user_data"})
pagerduty == Functions("pagerduty", {"trigger_incident"}, {}, {}, {"get_incident_alerts"})
rustica == Functions("rustica", {}, {}, {"new_mtls_cert"}, {})
slack == Functions("slack",
    {"invite_to_channel", "remove_from_channel"},
    {"views_open", "post_to_arbitrary_webhook", "post_to_named_webhook"},
    {"create_channel"},
    {"post_message", "update_message", "schedule_message", "delete_scheduled_message", "conversations_history",
     "get_id_from_email", "get_presence", "get_dnd", "user_info"})
splunk == Functions("splunk", {}, {"post_hec"}, {}, {})
yubikey == Functions("yubikey", {}, {}, {}, {"verify_otp"})
web == Functions("web", {}, {}, {"issue_jwt"}, {})
blockchain_evm == Functions("blockchain_evm",
    {},
    {},
    {"send_raw_transaction"},
    {"get_transaction_by_hash", "get_transaction_receipt", "get_transaction_count", "get_balance",
     "estimate_gas", "eth_call", "gas_price", "get_logs", "get_block", "get_fee_history"})
blockchain_solana == Functions("blockchain_solana",
    {},
    {},
    {"send_signed_transaction"},
    {"get_balance", "get_account_info", "get_slot", "get_latest_blockhash", "get_transaction_count",
     "get_transaction", "get_signature_statuses", "get_block", "get_multiple_accounts", "get_program_accounts",
     "get_token_accounts_by_owner", "get_token_account_balance", "get_token_supply",
     "get_minimum_balance_for_rent_exemption", "get_fee_for_message", "get_recent_prioritization_fees",
     "simulate_transaction", "get_signatures_for_address"})
bloom_filter == Functions("bloom_filter", {}, {}, {}, {"build_with_items"})

\* to_api_function: what the loader finds for the import of a rule.
to_api_function == general \cup github \cup cryptography \cup jira \cup aws_kms \cup aws_dynamodb \cup aws_s3
    \cup gcp_google_docs \cup gcp_bigquery \cup npm \cup okta \cup pagerduty \cup rustica \cup slack \cup
    splunk \cup yubikey \cup web \cup blockchain_evm \cup blockchain_solana \cup bloom_filter

\* link_functions_to_module: a rule with an unknown import cannot be run.
link_functions_to_module(imports) == imports \subseteq {f.name : f \in to_api_function}

\* functions/memory.rs: how reading the parameters from the rule's memory and
\* writing the result to it may fail.
safely_get_string == {"ParametersNotUtf8"}
safely_write_data_back == {"ReturnBufferTooSmall", "CouldNotGetAdequateMemory", "FailedToWriteGuestMemory"}

\* FunctionErrors: the codes of the functions of this table.
FunctionErrors == {"ApiNotConfigured", "InternalApiError", "TestMode"} \cup safely_get_string \cup safely_write_data_back
=============================================================================

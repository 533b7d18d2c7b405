----------------------------- MODULE OtherApis -----------------------------
(***************************************************************************)
(* The smaller APIs: general (network), Jira, Okta, PagerDuty, Splunk,     *)
(* Yubikey, and those that contact nobody: web (JWT), Rustica,             *)
(* cryptography and the Bloom filter.                                      *)
(***************************************************************************)
EXTENDS Calls

\* general/network.rs.  The status of the answer is the function's result.
simple_json_post_request ==
    Op("general_simple_json_post_request", {"json", "url", "body"},
       <<OrElse(Post(Success2xx, "ignored"), Statuses \ Success2xx)>>)
\* The configuration says who may use a named request, with which verb,
\* whether it is available in test mode, and which parts of the answer the
\* rule gets; a body beyond max_response_size is an error.
make_named_request_check_permissions == {"request_configured", "rule_allowed", "available_in_test_mode"}
make_named_request ==
    OpCases("general_make_named_request", {"json", "headers", "verb"} \cup make_named_request_check_permissions,
            {<<Request(verb, Statuses, body)>> : verb \in Mutating \cup {"GET"}, body \in {"ignored", "read"}})
get_peer_certificate_with_sni == <<Get({200}, "decoded")>>
retrieve_tls_certificate_with_sni ==
    Op("general_retrieve_tls_certificate_with_sni", {"json"}, get_peer_certificate_with_sni)

\* jira/mod.rs: the rule must be allowed to use the project of the issue.
validate_module_permission == {"rule_may_use_project"}
create_issue == Op("jira_create_issue", {"json"} \cup validate_module_permission, <<Post({201}, "decoded")>>)
get_issue == Op("jira_get_issue", {"issue_id"} \cup validate_module_permission, <<Get({200}, "decoded")>>)
update_issue ==
    Op("jira_update_issue", {"json", "issue_id", "payload"} \cup validate_module_permission, <<Put({200, 204}, "ignored")>>)
get_user == Op("jira_get_user", {"email"}, <<Get({200}, "decoded")>>)
post_comment == Op("jira_post_comment", {"json", "issue_id"} \cup validate_module_permission, <<Post({201}, "ignored")>>)
search_issues == Op("jira_search_issues", {"json"}, <<Paged(Get({200}, "decoded"))>>)

\* okta: with an application as authentication every call gets a new token.
get_access_token == <<Local, Query({200}, "decoded")>>
get_authorization_header(steps) == {steps, get_access_token \o steps}
remove_user_from_group ==
    OpCases("okta_remove_user_from_group", {"json", "user_id", "group_id"},
            get_authorization_header(<<Delete({204}, "ignored")>>))
get_user_data == OpCases("okta_get_user_data", {}, get_authorization_header(<<Get({200}, "read")>>))

\* pagerduty: a failed trigger is an answer (BadRequest, UnknownService,
\* TriggerFailed), only an error of the network is an error.
trigger_incident ==
    Op("pagerduty_trigger_incident", {"answer: json", "answer: service"},
       <<OrElse(Post(Success2xx, "ignored"), Statuses \ Success2xx)>>)
config_for_get_incident_alerts == {"alerts_configured", "rule_allowed"}
get_incident_alerts ==
    Op("pagerduty_get_incident_alerts", {"json", "incident_id"} \cup config_for_get_incident_alerts,
       <<Get(Success2xx, "decoded")>>)

post_hec == Op("splunk_post_hec", {"json", "hec_name", "log", "hec_configured", "log_json"}, <<Post({200}, "ignored")>>)

\* yubikey/otp.rs: the status of HTTP is not looked at; the body must be
\* signed with the shared key and repeat the nonce of the request.
verify_otp == Op("yubikey_verify_otp", {}, <<Local, Get(Statuses, "decoded")>>)

\* Functions that contact nobody.
issue_jwt ==
    Op("web_issue_jwt", {"json", "kid", "rule_allowed", "aud", "exp", "extra_fields", "enforced_claims", "extra_headers"}, <<Local>>)
generate_server_configuration == <<Local>>
new_mtls_cert ==
    Op("rustica_new_mtls_cert", {"json", "environment", "identity", "environment_configured"}, generate_server_configuration)
get_aes_key_for_action == {"aes_configured", "key", "action_allowed"}
aes_128_cbc_encrypt == Op("cryptography_aes_128_cbc_encrypt", {"json"} \cup get_aes_key_for_action, <<Local>>)
aes_128_cbc_decrypt == Op("cryptography_aes_128_cbc_decrypt", {"json"} \cup get_aes_key_for_action, <<Local>>)
build_with_items == Op("bloom_filter_build_with_items", {"json"}, <<Local>>)

Ops == {
    simple_json_post_request, make_named_request, retrieve_tls_certificate_with_sni, create_issue, get_issue,
    update_issue, get_user, post_comment, search_issues, remove_user_from_group, get_user_data,
    trigger_incident, get_incident_alerts, post_hec, verify_otp, issue_jwt, new_mtls_cert,
    aes_128_cbc_encrypt, aes_128_cbc_decrypt, build_with_items}
=============================================================================

------------------------------ MODULE StlOther ------------------------------
(***************************************************************************)
(* The functions of the standard library for the smaller APIs.             *)
(***************************************************************************)
EXTENDS Calls

\* jira/mod.rs
create_issue == Wrapper("jira_create_issue", "trap")
get_issue == Wrapper("jira_get_issue", "trap")
update_issue == Wrapper("jira_update_issue", "zero")
get_user == Wrapper("jira_get_user", "trap")
post_comment == Wrapper("jira_post_comment", "zero")
search_issues == Wrapper("jira_search_issues", "trap")
\* network/mod.rs
simple_json_post_request == Wrapper("general_simple_json_post_request", "code")
make_named_request_with_buf_size == Wrapper("general_make_named_request", "json")
retrieve_tls_certificate_with_sni == Wrapper("general_retrieve_tls_certificate_with_sni", "text")
make_named_request == make_named_request_with_buf_size
make_named_request_binary == make_named_request_with_buf_size
make_named_request_with_headers == make_named_request_with_buf_size
\* okta/mod.rs
get_user_data == Wrapper("okta_get_user_data", "text")
remove_user_from_group == Wrapper("okta_remove_user_from_group", "zero")
\* pagerduty/mod.rs
trigger_incident_detailed == Wrapper("pagerduty_trigger_incident", "code")
get_incident_alerts == Wrapper("pagerduty_get_incident_alerts", "json")
trigger_incident == Wrapper("pagerduty_trigger_incident", "zero")
\* rustica/mod.rs
new_mtls_cert == Wrapper("rustica_new_mtls_cert", "text")
\* splunk/mod.rs
post_log == Wrapper("splunk_post_hec", "unit")
\* web/mod.rs
issue_jwt == Wrapper("web_issue_jwt", "text")
\* yubikey/mod.rs
verify_otp == Wrapper("yubikey_verify_otp", "otp")
verify_otp_detailed == Wrapper("yubikey_verify_otp", "text")
\* cryptography/mod.rs
aes_128_cbc_encrypt == Wrapper("cryptography_aes_128_cbc_encrypt", "text")
aes_128_cbc_decrypt == Wrapper("cryptography_aes_128_cbc_decrypt", "text")
\* bloom_filter/mod.rs
build_with_items == Wrapper("bloom_filter_build_with_items", "trap")

Wrappers == {create_issue, get_issue, update_issue, get_user, post_comment, search_issues,
    simple_json_post_request, make_named_request_with_buf_size, retrieve_tls_certificate_with_sni,
    make_named_request, make_named_request_binary, make_named_request_with_headers, get_user_data,
    remove_user_from_group, trigger_incident_detailed, get_incident_alerts, trigger_incident, new_mtls_cert,
    post_log, issue_jwt, verify_otp, verify_otp_detailed, aes_128_cbc_encrypt, aes_128_cbc_decrypt,
    build_with_items}
=============================================================================

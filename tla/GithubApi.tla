----------------------------- MODULE GithubApi -----------------------------
(***************************************************************************)
(* The host functions of apis/github: what each validates and requests.    *)
(* Every one decodes its parameters first and, with its first request,     *)
(* looks the named client up (make_generic_*_request).                     *)
(***************************************************************************)
EXTENDS Calls

\* github/mod.rs: every request goes through one of the generic functions,
\* which refuse an unknown client_id before they send anything.
Github(fn, checks, steps) ==
    Op("github_" \o fn, checks \cup {"json", "client_id"}, steps)

UserRepo == {"username", "repository_name"}
OrgRepo == {"org", "repository_name"}

\* repos.rs
remove_user_from_repo == Github("remove_user_from_repo", UserRepo, <<Delete({204}, "ignored")>>)
add_user_to_repo == Github("add_user_to_repo", UserRepo, <<Put({201, 204}, "ignored")>>)
fetch_commit == Github("fetch_commit", UserRepo \cup {"commit_hash"}, <<Get({200}, "read")>>)
list_files == Github("list_files", OrgRepo \cup {"pull_request", "page"}, <<Get({200}, "read")>>)
fetch_file_with_custom_media_type ==
    Github("fetch_file_with_custom_media_type", OrgRepo \cup {"file_path", "reference"}, <<Get({200}, "read")>>)
get_branch_protection_rules == Github("get_branch_protection_rules", UserRepo \cup {"branch"}, <<Get({200}, "read")>>)
get_branch_protection_ruleset == Github("get_branch_protection_ruleset", UserRepo \cup {"branch"}, <<Get({200}, "read")>>)
get_repository_collaborators ==
    Github("get_repository_collaborators", UserRepo \cup {"affiliation", "per_page"}, <<Get({200}, "read")>>)
update_branch_protection_rule ==
    Github("update_branch_protection_rule", UserRepo \cup {"branch", "body"}, <<Put({200}, "ignored")>>)
require_signed_commits ==
    [Github("require_signed_commits", UserRepo \cup {"branch"}, <<>>) EXCEPT
        !.plans = {<<Post({200}, "ignored")>>, <<Delete({204}, "ignored")>>}]
get_weekly_commit_count == Github("get_weekly_commit_count", UserRepo, <<Get({200}, "read")>>)
comment_on_pull_request == Github("comment_on_pull_request", UserRepo \cup {"pull_request"}, <<Post({200}, "ignored")>>)
get_custom_properties_values == Github("get_custom_properties_values", UserRepo, <<Get({200}, "read")>>)
check_codeowners_file == Github("check_codeowners_file", UserRepo, <<OrElse(Get({200}, "decoded"), {404})>>)
create_file == Github("create_file", OrgRepo \cup {"file_path", "sha"}, <<Put({200, 201}, "read")>>)
get_repo_sbom == Github("get_repo_sbom", UserRepo, <<Get({200}, "read")>>)
get_repo_id_from_repo_name_internal == Get({200}, "decoded")
get_repo_id_from_repo_name == Github("get_repo_id_from_repo_name", UserRepo, <<get_repo_id_from_repo_name_internal>>)
get_repo_name_from_repo_id == Github("get_repo_name_from_repo_id", {"repo_id"}, <<Get({200}, "decoded")>>)

\* actions.rs, code.rs, copilot.rs, deploy_keys.rs
trigger_repo_dispatch == Github("trigger_repo_dispatch", UserRepo \cup {"event_type"}, <<Post({204}, "read")>>)
search_code ==
    Github("search_code", OrgRepo \cup {"file_content", "filename", "extension", "path", "per_page"}, <<Get({200}, "read")>>)
list_seats_in_org_copilot == Github("list_seats_in_org_copilot", {"org"}, <<Get({200}, "read")>>)
add_users_to_org_copilot == Github("add_users_to_org_copilot", {"org", "username"}, <<Post({201}, "read")>>)
remove_users_from_org_copilot == Github("remove_users_from_org_copilot", {"org", "username"}, <<Delete({200}, "read")>>)
delete_deploy_key == Github("delete_deploy_key", UserRepo, <<Delete({204}, "read")>>)
create_deploy_key == Github("create_deploy_key", UserRepo, <<Post({201}, "decoded")>>)

\* enterprise.rs, environments.rs
grant_repo_access_to_org_installation ==
    Github("grant_repo_access_to_org_installation", OrgRepo \cup {"enterprise"}, <<Patch({200}, "ignored")>>)
remove_repo_access_from_org_installation ==
    Github("remove_repo_access_from_org_installation", OrgRepo \cup {"enterprise"}, <<Patch({200}, "ignored")>>)
get_enterprise_license_status == Github("get_enterprise_license_status", {"enterprise"}, <<Get({200}, "decoded")>>)
create_environment_for_repo ==
    Github("create_environment_for_repo", UserRepo \cup {"environment_name"}, <<Put({200}, "ignored")>>)
create_deployment_branch_protection_rule ==
    Github("create_deployment_branch_protection_rule", UserRepo \cup {"environment_name", "branch"}, <<Post({200}, "ignored")>>)

\* graphql.rs: the query is the operator's own, selected by its name; it may
\* be a mutation.
make_gql_request == Post({200}, "read")
make_graphql_query == Github("make_graphql_query", {"query_name"}, <<make_gql_request>>)
make_advanced_graphql_query == Github("make_advanced_graphql_query", {"query_name"}, <<make_gql_request>>)

\* members.rs, pats.rs
check_org_membership_of_user ==
    Github("check_org_membership_of_user", {"org", "username"}, <<OrElse(Get({204}, "read"), {404})>>)
remove_outside_collaborator_from_org ==
    Github("remove_outside_collaborator_from_org", {"org", "username"}, <<Delete({204}, "read")>>)
get_user_id_from_username == Github("get_user_id_from_username", {"username"}, <<Get({200}, "decoded")>>)
get_username_from_user_id == Github("get_username_from_user_id", {"user_id"}, <<Get({200}, "decoded")>>)
list_fpat_requests_for_org == Github("list_fpat_requests_for_org", {"org"}, <<Get({200}, "read")>>)
get_repos_for_fpat == Github("get_repos_for_fpat", {"org"}, <<Get({200}, "read")>>)
review_fpat_requests_for_org == Github("review_fpat_requests_for_org", {"org", "action"}, <<Post({202}, "read")>>)

\* pull_requests.rs, refs.rs
pull_request_request_reviewers ==
    Github("pull_request_request_reviewers", OrgRepo \cup {"username", "team_slug"}, <<OrElse(Post({201}, "read"), {404, 422})>>)
submit_pull_request_review == Github("submit_pull_request_review", OrgRepo \cup {"review_body"}, <<Post({200}, "read")>>)
create_pull_request == Github("create_pull_request", OrgRepo, <<Post({201}, "read")>>)
get_pull_requests == Github("get_pull_requests", OrgRepo \cup {"per_page"}, <<Get({200}, "read")>>)
add_labels == Github("add_labels", OrgRepo, <<Post({200}, "read")>>)
get_reference == Github("get_reference", UserRepo \cup {"branch"}, <<OrElse(Get({200}, "read"), {404})>>)
create_reference == Github("create_reference", UserRepo \cup {"sha", "commit_hash"}, <<Post({201}, "read")>>)

\* secrets.rs: the key is fetched, the secret sealed under it, and the
\* ciphertext stored; an organisation's secret names the repository by its id.
get_pub_key_for_secret_encryption == Get({200}, "decoded")
configure_secret ==
    Github("configure_secret", UserRepo \cup {"environment_name", "secret_name", "secret_size"},
           <<get_pub_key_for_secret_encryption, Local, Put({201, 204}, "ignored")>>)
execute_org_secret_action(fn, action) ==
    Github(fn, OrgRepo \cup {"secret_name"}, <<get_repo_id_from_repo_name_internal, action>>)
add_repo_to_org_secret == execute_org_secret_action("add_repo_to_org_secret", Put({204}, "ignored"))
remove_repo_from_org_secret == execute_org_secret_action("remove_repo_from_org_secret", Delete({204}, "ignored"))
list_org_secrets_for_repo == Github("list_org_secrets_for_repo", OrgRepo, <<Get({200}, "read")>>)

\* teams.rs
remove_user_from_team == Github("remove_user_from_team", {"org", "team_slug", "username"}, <<Delete({204}, "ignored")>>)
add_user_to_team == Github("add_user_to_team", {"org", "team_slug", "username"}, <<Put({204}, "ignored")>>)
add_repo_to_team == Github("add_repo_to_team", OrgRepo \cup {"team_slug", "permission"}, <<Put({204}, "ignored")>>)
remove_repo_from_team == Github("remove_repo_from_team", OrgRepo \cup {"team_slug"}, <<Delete({204}, "ignored")>>)
get_repo_teams == Github("get_repo_teams", OrgRepo, <<Get({200}, "read")>>)

Ops == {
    remove_user_from_repo, add_user_to_repo, fetch_commit, list_files, fetch_file_with_custom_media_type,
    get_branch_protection_rules, get_branch_protection_ruleset, get_repository_collaborators,
    update_branch_protection_rule, require_signed_commits, get_weekly_commit_count, comment_on_pull_request,
    get_custom_properties_values, check_codeowners_file, create_file, get_repo_sbom,
    get_repo_id_from_repo_name, get_repo_name_from_repo_id, trigger_repo_dispatch, search_code,
    list_seats_in_org_copilot, add_users_to_org_copilot, remove_users_from_org_copilot, delete_deploy_key,
    create_deploy_key, grant_repo_access_to_org_installation, remove_repo_access_from_org_installation,
    get_enterprise_license_status, create_environment_for_repo, create_deployment_branch_protection_rule,
    make_graphql_query, make_advanced_graphql_query, check_org_membership_of_user,
    remove_outside_collaborator_from_org, get_user_id_from_username, get_username_from_user_id,
    list_fpat_requests_for_org, get_repos_for_fpat, review_fpat_requests_for_org,
    pull_request_request_reviewers, submit_pull_request_review, create_pull_request, get_pull_requests,
    add_labels, get_reference, create_reference, configure_secret, add_repo_to_org_secret,
    remove_repo_from_org_secret, list_org_secrets_for_repo, remove_user_from_team, add_user_to_team,
    add_repo_to_team, remove_repo_from_team, get_repo_teams}
=============================================================================

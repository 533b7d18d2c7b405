----------------------------- MODULE StlGithub ------------------------------
(***************************************************************************)
(* The functions of the standard library for plaid-stl/src/github.         *)
(***************************************************************************)
EXTENDS Calls

\* github/actions.rs
trigger_repo_dispatch == Wrapper("github_trigger_repo_dispatch", "unit")
\* github/copilot.rs
list_copilot_subscription_seats_by_page == Wrapper("github_list_seats_in_org_copilot", "json")
add_user_to_copilot_subscription == Wrapper("github_add_users_to_org_copilot", "json")
remove_user_from_copilot_subscription == Wrapper("github_remove_users_from_org_copilot", "json")
remove_users_from_copilot_subscription == Wrapper("github_remove_users_from_org_copilot", "json")
list_all_copilot_subscription_seats == Pages("github_list_seats_in_org_copilot", "json")
\* github/deploy_keys.rs
delete_deploy_key == Wrapper("github_delete_deploy_key", "unit")
create_deploy_key == Wrapper("github_create_deploy_key", "json")
\* github/enterprise.rs
grant_repo_access_to_org_installation == Wrapper("github_grant_repo_access_to_org_installation", "unit")
remove_repo_access_from_org_installation == Wrapper("github_remove_repo_access_from_org_installation", "unit")
get_enterprise_license_status == Wrapper("github_get_enterprise_license_status", "trap")
\* github/fpat.rs
list_fpat_requests_for_org == Wrapper("github_list_fpat_requests_for_org", "text")
review_fpat_requests_for_org == Wrapper("github_review_fpat_requests_for_org", "zero")
get_repos_for_fpat == Wrapper("github_get_repos_for_fpat", "text")
\* github/graphql.rs
make_graphql_query == Wrapper("github_make_graphql_query", "text")
make_advanced_graphql_query == Wrapper("github_make_advanced_graphql_query", "text")
\* github/members.rs
get_user_id_from_username == Wrapper("github_get_user_id_from_username", "text")
get_username_from_user_id == Wrapper("github_get_username_from_user_id", "text")
remove_outside_collaborator_from_org == Wrapper("github_remove_outside_collaborator_from_org", "unit")
\* github/org.rs
check_org_membership_of_user == Wrapper("github_check_org_membership_of_user", "member")
\* github/protection.rs
get_branch_protection_rules == Wrapper("github_get_branch_protection_rules", "text")
get_branch_protection_ruleset == Wrapper("github_get_branch_protection_ruleset", "text")
update_branch_protection_rule == Wrapper("github_update_branch_protection_rule", "unit")
create_environment_for_repo == Wrapper("github_create_environment_for_repo", "zero")
create_deployment_branch_protection_rule == Wrapper("github_create_deployment_branch_protection_rule", "zero")
require_signed_commits == Wrapper("github_require_signed_commits", "unit")
configure_secret == Wrapper("github_configure_secret", "zero")
check_codeowners_file == Wrapper("github_check_codeowners_file", "json")
\* github/pull_request.rs
list_files == Wrapper("github_list_files", "text")
comment_on_pull_request == Wrapper("github_comment_on_pull_request", "unit")
pull_request_request_reviewers == Wrapper("github_pull_request_request_reviewers", "unit")
submit_pull_request_review == Wrapper("github_submit_pull_request_review", "unit")
get_pull_requests == Pages("github_get_pull_requests", "json")
create_pull_request == Wrapper("github_create_pull_request", "json")
add_labels == Wrapper("github_add_labels", "unit")
approve_pull_request == submit_pull_request_review
\* github/reference.rs
get_reference == Wrapper("github_get_reference", "json")
create_reference == Wrapper("github_create_reference", "unit")
\* github/repo.rs
remove_user_from_repo_detailed == Wrapper("github_remove_user_from_repo", "unit")
add_user_to_repo_detailed == Wrapper("github_add_user_to_repo", "unit")
get_repository_collaborators == Wrapper("github_get_repository_collaborators", "text")
get_all_repository_collaborators_detailed == Pages("github_get_repository_collaborators", "json")
get_custom_properties_values == Wrapper("github_get_custom_properties_values", "json")
get_repo_sbom == Wrapper("github_get_repo_sbom", "json")
fetch_file_with_custom_media_type == Wrapper("github_fetch_file_with_custom_media_type", "text")
fetch_commit == Wrapper("github_fetch_commit", "text")
create_file == Wrapper("github_create_file", "text")
update_file == Wrapper("github_create_file", "text")
get_repo_id_from_repo_name == Wrapper("github_get_repo_id_from_repo_name", "trap")
get_repo_name_from_repo_id == Wrapper("github_get_repo_name_from_repo_id", "text")
remove_user_from_repo == remove_user_from_repo_detailed
add_user_to_repo == add_user_to_repo_detailed
get_all_repository_collaborators == get_all_repository_collaborators_detailed
get_all_repository_collaborators_direct_access == get_all_repository_collaborators_detailed
fetch_file == fetch_file_with_custom_media_type
\* github/search.rs
search_code == Pages("github_search_code", "json")
\* github/secrets.rs
add_repo_to_org_secret == Wrapper("github_add_repo_to_org_secret", "unit")
remove_repo_from_org_secret == Wrapper("github_remove_repo_from_org_secret", "unit")
list_org_secrets_for_repo == Pages("github_list_org_secrets_for_repo", "json")
\* github/stats.rs
get_weekly_commit_count == Wrapper("github_get_weekly_commit_count", "json")
\* github/team.rs
add_user_to_team_detailed == Wrapper("github_add_user_to_team", "unit")
remove_user_from_team_detailed == Wrapper("github_remove_user_from_team", "unit")
add_repo_to_team == Wrapper("github_add_repo_to_team", "unit")
remove_repo_from_team == Wrapper("github_remove_repo_from_team", "unit")
get_repo_teams == Pages("github_get_repo_teams", "json")
add_user_to_team == add_user_to_team_detailed
remove_user_from_team == remove_user_from_team_detailed

Wrappers == {trigger_repo_dispatch, list_copilot_subscription_seats_by_page, add_user_to_copilot_subscription,
    remove_user_from_copilot_subscription, remove_users_from_copilot_subscription,
    list_all_copilot_subscription_seats, delete_deploy_key, create_deploy_key,
    grant_repo_access_to_org_installation, remove_repo_access_from_org_installation,
    get_enterprise_license_status, list_fpat_requests_for_org, review_fpat_requests_for_org,
    get_repos_for_fpat, make_graphql_query, make_advanced_graphql_query, get_user_id_from_username,
    get_username_from_user_id, remove_outside_collaborator_from_org, check_org_membership_of_user,
    get_branch_protection_rules, get_branch_protection_ruleset, update_branch_protection_rule,
    create_environment_for_repo, create_deployment_branch_protection_rule, require_signed_commits,
    configure_secret, check_codeowners_file, list_files, comment_on_pull_request,
    pull_request_request_reviewers, submit_pull_request_review, get_pull_requests, create_pull_request,
    add_labels, approve_pull_request, get_reference, create_reference, remove_user_from_repo_detailed,
    add_user_to_repo_detailed, get_repository_collaborators, get_all_repository_collaborators_detailed,
    get_custom_properties_values, get_repo_sbom, fetch_file_with_custom_media_type, fetch_commit, create_file,
    update_file, get_repo_id_from_repo_name, get_repo_name_from_repo_id, remove_user_from_repo,
    add_user_to_repo, get_all_repository_collaborators, get_all_repository_collaborators_direct_access,
    fetch_file, search_code, add_repo_to_org_secret, remove_repo_from_org_secret, list_org_secrets_for_repo,
    get_weekly_commit_count, add_user_to_team_detailed, remove_user_from_team_detailed, add_repo_to_team,
    remove_repo_from_team, get_repo_teams, add_user_to_team, remove_user_from_team}
=============================================================================

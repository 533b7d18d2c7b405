------------------------------- MODULE StlNpm -------------------------------
(***************************************************************************)
(* The functions of the standard library for plaid-stl/src/npm             *)
(* (process_runtime_string).                                               *)
(***************************************************************************)
EXTENDS Calls

get_org_user_list == Wrapper("npm_get_org_user_list", "npm")
get_org_users_without_2fa == Wrapper("npm_get_org_users_without_2fa", "npm")
invite_user_to_organization == Wrapper("npm_invite_user_to_organization", "npm")
remove_user_from_organization == Wrapper("npm_remove_user_from_organization", "npm")
create_granular_token_for_packages == Wrapper("npm_create_granular_token_for_packages", "npm")
delete_granular_token == Wrapper("npm_delete_granular_token", "npm")
list_granular_tokens == Wrapper("npm_list_granular_tokens", "npm")
add_user_to_team == Wrapper("npm_add_user_to_team", "npm")
remove_user_from_team == Wrapper("npm_remove_user_from_team", "npm")
publish_empty_stub == Wrapper("npm_publish_empty_stub", "npm")
set_team_permission_on_package == Wrapper("npm_set_team_permission_on_package", "npm")
delete_package == Wrapper("npm_delete_package", "npm")
list_packages_with_team_permission == Wrapper("npm_list_packages_with_team_permission", "npm")
get_details == Wrapper("npm_get_token_details", "npm")
create_granular_token_for_packages_simple == create_granular_token_for_packages
renew_granular_token ==
    list_granular_tokens \o get_details \o delete_granular_token \o create_granular_token_for_packages_simple

Wrappers == {get_org_user_list, get_org_users_without_2fa, invite_user_to_organization,
    remove_user_from_organization, create_granular_token_for_packages, delete_granular_token,
    list_granular_tokens, add_user_to_team, remove_user_from_team, publish_empty_stub,
    set_team_permission_on_package, delete_package, list_packages_with_team_permission, get_details,
    create_granular_token_for_packages_simple, renew_granular_token}
=============================================================================

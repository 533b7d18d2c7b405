------------------------------- MODULE NpmApi -------------------------------
(***************************************************************************)
(* The host functions of apis/npm.  All but publish_empty_stub use the npm *)
(* website with one shared client: each starts with a login (HostCall      *)
(* models what that does to the shared cookies); most look at their        *)
(* parameters only then.  A status other than the expected one is handed   *)
(* to the rule as an error of npm inside a successful answer.              *)
(***************************************************************************)
EXTENDS Calls

Npm(fn, checks, steps) == Op("npm_" \o fn, checks, steps)
\* bad_response_to_error
handle_bad_response(r) == OrElse(r, Statuses \ r.ok)

\* npm_cli_client.rs: the registry is used with a token; the status of its
\* answer is not looked at.
publish_empty_stub ==
    Npm("publish_empty_stub", {"json", "package", "repository"}, <<Local, Put(Statuses, "ignored")>>)

\* npm_web_client.rs
Change(post) == <<Login, Validate, Csrf, handle_bad_response(post)>>
set_team_permission_on_package == Npm("set_team_permission_on_package", {}, Change(Post({200}, "ignored")))
create_granular_token_for_packages == Npm("create_granular_token_for_packages", {}, Change(Post({200}, "decoded")))
delete_granular_token == Npm("delete_granular_token", {}, Change(Post({200}, "ignored")))
add_user_to_team == Npm("add_user_to_team", {}, Change(Post({200}, "ignored")))
remove_user_from_team == Npm("remove_user_from_team", {}, Change(Post({200}, "ignored")))
invite_user_to_organization == Npm("invite_user_to_organization", {}, Change(Post({200}, "ignored")))
remove_user_from_organization ==
    Npm("remove_user_from_organization", {"user"}, <<Login, Csrf, handle_bad_response(Post({200}, "ignored"))>>)
\* The page with the form is read for the hash the form needs (Validate).
delete_package ==
    Npm("delete_package", {"package"},
        <<Login, handle_bad_response(Get({200}, "read")), Validate, Csrf, Post({302}, "ignored")>>)

\* The number of items first, then the items, page by page.
Listing == <<Login, handle_bad_response(Get({200}, "decoded")), List>>
list_granular_tokens == Npm("list_granular_tokens", {}, Listing)
get_org_user_list == Npm("get_org_user_list", {}, Listing)
get_org_users_without_2fa == Npm("get_org_users_without_2fa", {}, Listing)
list_packages_with_team_permission == Npm("list_packages_with_team_permission", {"json", "team"}, Listing)
get_token_details ==
    Npm("get_token_details", {"json", "token_id"}, <<Login, handle_bad_response(Get({200}, "decoded"))>>)

Ops == {
    publish_empty_stub, set_team_permission_on_package, create_granular_token_for_packages,
    delete_granular_token, add_user_to_team, remove_user_from_team, invite_user_to_organization,
    remove_user_from_organization, delete_package, list_granular_tokens, get_org_user_list,
    get_org_users_without_2fa, list_packages_with_team_permission, get_token_details}
=============================================================================

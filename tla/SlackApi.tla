------------------------------ MODULE SlackApi ------------------------------
(***************************************************************************)
(* The host functions of apis/slack.  Each decodes its parameters and      *)
(* looks up the token of the named bot (get_token), then makes one request *)
(* (call_slack); Slack answers 200 and says in the body whether it did it. *)
(***************************************************************************)
EXTENDS Calls

call_slack(verb, body) == <<Request(verb, {200}, body)>>
Slack(fn, steps) == Op("slack_" \o fn, {"json", "bot"}, steps)

\* webhook.rs: an address the rule gives, or one the configuration names.
post_to_arbitrary_webhook ==
    Op("slack_post_to_arbitrary_webhook", {"json", "hook", "body"}, <<Post({200}, "ignored")>>)
post_to_named_webhook ==
    Op("slack_post_to_named_webhook", {"json", "hook_name", "body", "hook_configured"}, <<Post({200}, "ignored")>>)

\* api.rs
views_open == Slack("views_open", call_slack("POST", "flag"))
\* A rule may ask to see the answer of a rate limit instead of an error.
post_message ==
    [Slack("post_message", <<>>) EXCEPT
        !.plans = {call_slack("POST", "flag"), <<OrElse(Post({200}, "flag"), {429})>>}]
\* The answer goes to the rule whether or not it says ok.
schedule_message == Slack("schedule_message", call_slack("POST", "report"))
delete_scheduled_message == Slack("delete_scheduled_message", call_slack("POST", "report"))
conversations_history == Slack("conversations_history", call_slack("QUERY", "flag"))
update_message == Slack("update_message", call_slack("POST", "flag"))
get_id_from_email == Slack("get_id_from_email", call_slack("GET", "flag"))
get_presence == Slack("get_presence", call_slack("GET", "flag"))
get_dnd == Slack("get_dnd", call_slack("GET", "flag"))
user_info == Slack("user_info", call_slack("GET", "flag"))
create_channel == Slack("create_channel", call_slack("POST", "flag"))
invite_to_channel == Slack("invite_to_channel", call_slack("POST", "flag"))
remove_from_channel == Slack("remove_from_channel", call_slack("POST", "flag"))

Ops == {
    post_to_arbitrary_webhook, post_to_named_webhook, views_open, post_message, schedule_message,
    delete_scheduled_message, conversations_history, update_message, get_id_from_email, get_presence,
    get_dnd, user_info, create_channel, invite_to_channel, remove_from_channel}
=============================================================================

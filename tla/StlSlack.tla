------------------------------ MODULE StlSlack ------------------------------
(***************************************************************************)
(* The functions of the standard library for plaid-stl/src/slack.          *)
(***************************************************************************)
EXTENDS Calls

post_text_to_arbitrary_webhook == Wrapper("slack_post_to_arbitrary_webhook", "unit")
post_text_to_webhook == Wrapper("slack_post_to_named_webhook", "unit")
post_raw_text_to_webhook == Wrapper("slack_post_to_named_webhook", "unit")
post_message_detailed == Wrapper("slack_post_message", "text")
post_message_with_blocks_detailed == Wrapper("slack_post_message", "text")
post_message_with_blocks_and_attachments_unfurl == Wrapper("slack_post_message", "json")
post_message_with_blocks_in_thread == Wrapper("slack_post_message", "json")
views_open == Wrapper("slack_views_open", "unit")
get_id_from_email == Wrapper("slack_get_id_from_email", "text")
get_presence == Wrapper("slack_get_presence", "json")
get_dnd == Wrapper("slack_get_dnd", "json")
user_info == Wrapper("slack_user_info", "json")
create_channel == Wrapper("slack_create_channel", "json")
invite_to_channel == Wrapper("slack_invite_to_channel", "unit")
update_message_with_blocks == Wrapper("slack_update_message", "json")
update_message_with_blocks_and_attachments_unfurl == Wrapper("slack_update_message", "json")
remove_from_channel == Wrapper("slack_remove_from_channel", "unit")
post_message_with_options == Wrapper("slack_post_message", "json")
schedule_message == Wrapper("slack_schedule_message", "report")
delete_scheduled_message == Wrapper("slack_delete_scheduled_message", "report")
conversations_history == Wrapper("slack_conversations_history", "json")
post_message == post_message_detailed
post_message_with_blocks == post_message_with_blocks_detailed
post_message_with_blocks_and_attachments == post_message_with_blocks_and_attachments_unfurl
update_message_with_blocks_and_attachments == update_message_with_blocks_and_attachments_unfurl

Wrappers == {post_text_to_arbitrary_webhook, post_text_to_webhook, post_raw_text_to_webhook,
    post_message_detailed, post_message_with_blocks_detailed, post_message_with_blocks_and_attachments_unfurl,
    post_message_with_blocks_in_thread, views_open, get_id_from_email, get_presence, get_dnd, user_info,
    create_channel, invite_to_channel, update_message_with_blocks,
    update_message_with_blocks_and_attachments_unfurl, remove_from_channel, post_message_with_options,
    schedule_message, delete_scheduled_message, conversations_history, post_message, post_message_with_blocks,
    post_message_with_blocks_and_attachments, update_message_with_blocks_and_attachments}
=============================================================================

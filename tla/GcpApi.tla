------------------------------- MODULE GcpApi -------------------------------
(***************************************************************************)
(* The host functions of apis/gcp (BigQuery, Google Docs).                 *)
(***************************************************************************)
EXTENDS Calls

Gcp(fn, checks, plans) == OpCases("gcp_" \o fn, checks \cup {"json"}, plans)

\* bigquery.rs: everything that can be wrong with a query is found while its
\* text and parameters are built, before the client is used.
is_valid_identifier(what) == {"identifier of " \o what}
check_module_permission == {"rule_may_read_table"}
push_value_param == {"finite_float"}
build_condition_sql == push_value_param
build_filter_sql ==
    {"filter_depth", "filter_has_children", "filter_children"} \cup is_valid_identifier("filter") \cup build_condition_sql
build_query_string == {"columns", "aggregate_alone"} \cup is_valid_identifier("column") \cup build_filter_sql
build_query_request ==
    is_valid_identifier("dataset") \cup is_valid_identifier("table") \cup check_module_permission \cup build_query_string
\* The query, then the rows, page by page, each column decoded by its type
\* (decode_column); the rows may not exceed max_response_size.
query_table ==
    Gcp("bigquery_query_table", build_query_request, {<<Query({200}, "decoded"), Paged(Get({200}, "decoded")), Local>>})

\* google_docs.rs.  The access token is kept until a minute before it
\* expires; a call that finds none, or a stale one, refreshes it first.
refresh_access_token(steps) == {<<Query(Success2xx, "decoded")>> \o steps, steps}
check_module_permissions(write) == {IF write THEN "rule_in_rw" ELSE "rule_in_r_or_rw"}
create_folder ==
    Gcp("google_docs_create_folder", check_module_permissions(TRUE), refresh_access_token(<<Post(Success2xx, "decoded")>>))
copy_file ==
    Gcp("google_docs_copy_file", check_module_permissions(FALSE) \cup check_module_permissions(TRUE),
        refresh_access_token(<<Post(Success2xx, "decoded")>>))
upload_file ==
    Gcp("google_docs_upload_file", check_module_permissions(TRUE), refresh_access_token(<<Local, Post(Success2xx, "decoded")>>))
create_doc_from_markdown == [upload_file EXCEPT !.name = "gcp_google_docs_create_doc_from_markdown"]
create_sheet_from_csv == [upload_file EXCEPT !.name = "gcp_google_docs_create_sheet_from_csv"]

Ops == {query_table, create_folder, copy_file, upload_file, create_doc_from_markdown, create_sheet_from_csv}
=============================================================================

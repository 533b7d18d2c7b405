------------------------------ MODULE StlCloud ------------------------------
(***************************************************************************)
(* The functions of the standard library for plaid-stl/src/aws and         *)
(* plaid-stl/src/gcp.                                                      *)
(***************************************************************************)
EXTENDS Calls

\* aws/dynamodb.rs
put_item == Wrapper("aws_dynamodb_put_item", "json")
delete_item == Wrapper("aws_dynamodb_delete_item", "json")
query == Wrapper("aws_dynamodb_query", "json")
\* aws/kms.rs
verify_mac == Wrapper("aws_kms_verify_mac", "unit")
generate_mac == Wrapper("aws_kms_generate_mac", "text")
sign_arbitrary_message == Wrapper("aws_kms_sign_arbitrary_message", "json")
\* These two do not look at the code: after an error the buffer is still all
\* zeros, which is no JSON, so that they return an error all the same.
get_public_key == Wrapper("aws_kms_get_public_key", "json")
get_key_policy == Wrapper("aws_kms_get_key_policy", "json")
\* aws/s3.rs
delete_object == Wrapper("aws_s3_delete_object", "unit")
list_object_versions == Wrapper("aws_s3_list_object_versions", "json")
put_object == Wrapper("aws_s3_put_object", "unit")
put_object_tags == Wrapper("aws_s3_put_object_tags", "json")
get_object_attributes == Wrapper("aws_s3_get_object_attributes", "json")
get_object == Wrapper("aws_s3_get_object", "json")
list_objects == Wrapper("aws_s3_list_objects", "json")
\* gcp/bigquery.rs
query_table == Wrapper("gcp_bigquery_query_table", "json")
\* gcp/google_docs.rs
upload_file == Wrapper("gcp_google_docs_upload_file", "json")
copy_file == Wrapper("gcp_google_docs_copy_file", "json")
create_folder == Wrapper("gcp_google_docs_create_folder", "json")
create_doc_from_markdown == Wrapper("gcp_google_docs_create_doc_from_markdown", "json")
create_sheet_from_csv == Wrapper("gcp_google_docs_create_sheet_from_csv", "json")

Wrappers == {put_item, delete_item, query, verify_mac, generate_mac, sign_arbitrary_message, get_public_key,
    get_key_policy, delete_object, list_object_versions, put_object, put_object_tags, get_object_attributes,
    get_object, list_objects, query_table, upload_file, copy_file, create_folder, create_doc_from_markdown,
    create_sheet_from_csv}
=============================================================================

------------------------------- MODULE AwsApi -------------------------------
(***************************************************************************)
(* The host functions of apis/aws (KMS, S3, DynamoDB).  Each decodes its   *)
(* parameters, then asks the configuration whether the calling rule may    *)
(* use the key, bucket or table, and makes one call of the AWS SDK, whose  *)
(* success is written as status 200.                                       *)
(***************************************************************************)
EXTENDS Calls

Aws(fn, checks, steps) == Op("aws_" \o fn, checks \cup {"json"}, steps)

\* kms.rs: fetch_key_configuration and the list of rules of the key.
KeyAccess == {"key_configured", "rule_allowed"}
generate_mac == Aws("kms_generate_mac", KeyAccess, <<Query({200}, "decoded")>>)
verify_mac == Aws("kms_verify_mac", KeyAccess, <<Query({200}, "ignored")>>)
sign_arbitrary_message == Aws("kms_sign_arbitrary_message", KeyAccess, <<Query({200}, "read")>>)
get_public_key == Aws("kms_get_public_key", KeyAccess \cup {"key_id"}, <<Get({200}, "read")>>)
\* Written, but no host function of the runtime leads to it (functions/api.rs).
get_key_policy == Aws("kms_get_key_policy", KeyAccess, <<Get({200}, "decoded")>>)

\* s3.rs: can_rule_access_bucket, for reading or for writing; a reader is a
\* rule of r or of rw, a writer one of rw.
can_rule_access_bucket(write) == {"bucket_configured", IF write THEN "rule_in_rw" ELSE "rule_in_r_or_rw"}
delete_object == Aws("s3_delete_object", can_rule_access_bucket(TRUE), <<Delete({200}, "ignored")>>)
get_object_attributes == Aws("s3_get_object_attributes", can_rule_access_bucket(FALSE), <<Get({200}, "read")>>)
list_object_versions == Aws("s3_list_object_versions", can_rule_access_bucket(FALSE), <<Get({200}, "read")>>)
list_objects == Aws("s3_list_objects", can_rule_access_bucket(FALSE), <<Get({200}, "read")>>)
\* The object itself when it is not too large (Local), or a presigned address.
get_object ==
    [Aws("s3_get_object", can_rule_access_bucket(FALSE), <<>>) EXCEPT
        !.plans = {<<Get({200}, "ignored"), Local, Get({200}, "read")>>, <<Local>>}]
put_object == Aws("s3_put_object", can_rule_access_bucket(TRUE), <<Put({200}, "ignored")>>)
put_object_tags == Aws("s3_put_object_tags", can_rule_access_bucket(TRUE) \cup {"tags"}, <<Put({200}, "ignored")>>)

\* dynamodb.rs: check_module_permissions refuses the reserved tables first.
check_module_permissions(write) == {"table_not_reserved", IF write THEN "rule_in_rw" ELSE "rule_in_r_or_rw"}
put_item ==
    Aws("dynamodb_put_item", check_module_permissions(TRUE) \cup {"item", "values", "return_values"}, <<Put({200}, "decoded")>>)
delete_item ==
    Aws("dynamodb_delete_item", check_module_permissions(TRUE) \cup {"key", "values", "return_values"}, <<Delete({200}, "decoded")>>)
query == Aws("dynamodb_query", check_module_permissions(FALSE) \cup {"values"}, <<Get({200}, "decoded")>>)

Ops == {
    generate_mac, verify_mac, sign_arbitrary_message, get_public_key, get_key_policy, delete_object, get_object_attributes,
    list_object_versions, list_objects, get_object, put_object, put_object_tags, put_item, delete_item, query}
=============================================================================

----------------------------- MODULE StlSolana ------------------------------
(***************************************************************************)
(* The functions of the standard library for                               *)
(* plaid-stl/src/blockchain/solana (finish); the rule then parses the      *)
(* envelope with parse_rpc_response.                                       *)
(***************************************************************************)
EXTENDS Calls

send_signed_transaction == Wrapper("blockchain_solana_send_signed_transaction", "rpc")
get_balance == Wrapper("blockchain_solana_get_balance", "rpc")
get_account_info == Wrapper("blockchain_solana_get_account_info", "rpc")
get_slot == Wrapper("blockchain_solana_get_slot", "rpc")
get_latest_blockhash == Wrapper("blockchain_solana_get_latest_blockhash", "rpc")
get_transaction_count == Wrapper("blockchain_solana_get_transaction_count", "rpc")
get_transaction == Wrapper("blockchain_solana_get_transaction", "rpc")
get_signature_statuses == Wrapper("blockchain_solana_get_signature_statuses", "rpc")
get_block == Wrapper("blockchain_solana_get_block", "rpc")
get_multiple_accounts == Wrapper("blockchain_solana_get_multiple_accounts", "rpc")
get_program_accounts == Wrapper("blockchain_solana_get_program_accounts", "rpc")
get_token_accounts_by_owner == Wrapper("blockchain_solana_get_token_accounts_by_owner", "rpc")
get_token_account_balance == Wrapper("blockchain_solana_get_token_account_balance", "rpc")
get_token_supply == Wrapper("blockchain_solana_get_token_supply", "rpc")
get_minimum_balance_for_rent_exemption == Wrapper("blockchain_solana_get_minimum_balance_for_rent_exemption", "rpc")
get_fee_for_message == Wrapper("blockchain_solana_get_fee_for_message", "rpc")
get_recent_prioritization_fees == Wrapper("blockchain_solana_get_recent_prioritization_fees", "rpc")
simulate_transaction == Wrapper("blockchain_solana_simulate_transaction", "rpc")
get_signatures_for_address == Wrapper("blockchain_solana_get_signatures_for_address", "rpc")

Wrappers == {send_signed_transaction, get_balance, get_account_info, get_slot, get_latest_blockhash,
    get_transaction_count, get_transaction, get_signature_statuses, get_block, get_multiple_accounts,
    get_program_accounts, get_token_accounts_by_owner, get_token_account_balance, get_token_supply,
    get_minimum_balance_for_rent_exemption, get_fee_for_message, get_recent_prioritization_fees,
    simulate_transaction, get_signatures_for_address}
=============================================================================

----------------------------- MODULE SolanaApi -----------------------------
(***************************************************************************)
(* The host functions of apis/blockchain/solana.  Each decodes its         *)
(* parameters, finds the cluster they name, and makes one JSON-RPC call    *)
(* through the nodes of that cluster; the commitment each adds from the    *)
(* configuration is left out.                                              *)
(***************************************************************************)
EXTENDS Calls

Solana(fn, rpc) == Op("blockchain_solana_" \o fn, {"json", "cluster"}, <<rpc>>)

send_signed_transaction == Solana("send_signed_transaction", RpcSend)
get_balance == Solana("get_balance", Rpc)
get_account_info == Solana("get_account_info", Rpc)
get_slot == Solana("get_slot", Rpc)
get_latest_blockhash == Solana("get_latest_blockhash", Rpc)
get_transaction_count == Solana("get_transaction_count", Rpc)
get_transaction == Solana("get_transaction", Rpc)
get_signature_statuses == Solana("get_signature_statuses", Rpc)
get_block == Solana("get_block", Rpc)
get_multiple_accounts == Solana("get_multiple_accounts", Rpc)
get_program_accounts == Solana("get_program_accounts", Rpc)
get_token_accounts_by_owner == Solana("get_token_accounts_by_owner", Rpc)
get_token_account_balance == Solana("get_token_account_balance", Rpc)
get_token_supply == Solana("get_token_supply", Rpc)
get_minimum_balance_for_rent_exemption == Solana("get_minimum_balance_for_rent_exemption", Rpc)
get_fee_for_message == Solana("get_fee_for_message", Rpc)
get_recent_prioritization_fees == Solana("get_recent_prioritization_fees", Rpc)
simulate_transaction == Solana("simulate_transaction", Rpc)
get_signatures_for_address == Solana("get_signatures_for_address", Rpc)

Ops == {
    send_signed_transaction, get_balance, get_account_info, get_slot, get_latest_blockhash,
    get_transaction_count, get_transaction, get_signature_statuses, get_block, get_multiple_accounts,
    get_program_accounts, get_token_accounts_by_owner, get_token_account_balance, get_token_supply,
    get_minimum_balance_for_rent_exemption, get_fee_for_message, get_recent_prioritization_fees,
    simulate_transaction, get_signatures_for_address}
=============================================================================

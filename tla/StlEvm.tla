------------------------------- MODULE StlEvm -------------------------------
(***************************************************************************)
(* The functions of the standard library for plaid-stl/src/blockchain/evm; *)
(* the rule then parses the envelope with parse_basic_ or                  *)
(* parse_detailed_rpc_response.                                            *)
(***************************************************************************)
EXTENDS Calls

get_transaction_by_hash == Wrapper("blockchain_evm_get_transaction_by_hash", "rpc")
get_transaction_receipt == Wrapper("blockchain_evm_get_transaction_receipt", "rpc")
send_raw_transaction == Wrapper("blockchain_evm_send_raw_transaction", "rpc")
get_transaction_count == Wrapper("blockchain_evm_get_transaction_count", "rpc")
get_balance == Wrapper("blockchain_evm_get_balance", "rpc")
estimate_gas == Wrapper("blockchain_evm_estimate_gas", "rpc")
eth_call == Wrapper("blockchain_evm_eth_call", "rpc")
gas_price == Wrapper("blockchain_evm_gas_price", "rpc")
get_logs == Wrapper("blockchain_evm_get_logs", "rpc")
get_block == Wrapper("blockchain_evm_get_block", "rpc")
get_fee_history == Wrapper("blockchain_evm_get_fee_history", "rpc")

Wrappers == {get_transaction_by_hash, get_transaction_receipt, send_raw_transaction, get_transaction_count,
    get_balance, estimate_gas, eth_call, gas_price, get_logs, get_block, get_fee_history}
=============================================================================

------------------------------- MODULE EvmApi -------------------------------
(***************************************************************************)
(* The host functions of apis/blockchain/evm.  Each decodes its parameters,*)
(* finds the chain they name, and makes one JSON-RPC call through the      *)
(* nodes of that chain.                                                    *)
(***************************************************************************)
EXTENDS Calls

Evm(fn, checks, rpc) == Op("blockchain_evm_" \o fn, checks \cup {"json", "chain"}, <<rpc>>)

get_transaction_by_hash == Evm("get_transaction_by_hash", {}, Rpc)
get_transaction_receipt == Evm("get_transaction_receipt", {}, Rpc)
send_raw_transaction == Evm("send_raw_transaction", {}, RpcSend)
get_transaction_count == Evm("get_transaction_count", {}, Rpc)
get_balance == Evm("get_balance", {}, Rpc)
estimate_gas == Evm("estimate_gas", {}, Rpc)
eth_call == Evm("eth_call", {}, Rpc)
gas_price == Evm("gas_price", {}, Rpc)
get_logs == Evm("get_logs", {}, Rpc)
get_block == Evm("get_block", {}, Rpc)
get_fee_history == Evm("get_fee_history", {}, Rpc)

Ops == {
    get_transaction_by_hash, get_transaction_receipt, send_raw_transaction, get_transaction_count,
    get_balance, estimate_gas, eth_call, gas_price, get_logs, get_block, get_fee_history}
=============================================================================

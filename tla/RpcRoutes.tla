------------------------------ MODULE RpcRoutes ------------------------------
(***************************************************************************)
(* register_routes of the v0.8 JSON-RPC API: RpcRouter::builder(V08)       *)
(* followed by one `.register(method, handler)` per line, in order.  A     *)
(* handler is named by the item passed to register: a function of          *)
(* crate::method or crate::pathfinder::methods, a subscription type, or    *)
(* the closure that answers specVersion.  The builder itself is outside    *)
(* this repository; it is taken to be a map from method name to handler.   *)
(***************************************************************************)
EXTENDS Naturals, Sequences

\* The registrations of register_routes, in source order.
Registrations == <<
  <<"starknet_addDeclareTransaction", "method::add_declare_transaction">>,
  <<"starknet_addDeployAccountTransaction", "method::add_deploy_account_transaction">>,
  <<"starknet_addInvokeTransaction", "method::add_invoke_transaction">>,
  <<"starknet_blockHashAndNumber", "method::block_hash_and_number">>,
  <<"starknet_blockNumber", "method::block_number">>,
  <<"starknet_call", "method::call">>,
  <<"starknet_chainId", "method::chain_id">>,
  <<"starknet_estimateFee", "method::estimate_fee">>,
  <<"starknet_estimateMessageFee", "method::estimate_fee">>,
  <<"starknet_getBlockTransactionCount", "method::get_block_transaction_count">>,
  <<"starknet_getBlockWithTxHashes", "method::get_block_with_tx_hashes">>,
  <<"starknet_getBlockWithTxs", "method::get_block_with_txs">>,
  <<"starknet_getClass", "method::get_class">>,
  <<"starknet_getClassAt", "method::get_class_at">>,
  <<"starknet_getClassHashAt", "method::get_class_hash_at">>,
  <<"starknet_getEvents", "method::get_events">>,
  <<"starknet_getMessagesStatus", "method::get_messages_status">>,
  <<"starknet_getNonce", "method::get_nonce">>,
  <<"starknet_getStateUpdate", "method::get_state_update">>,
  <<"starknet_getStorageAt", "method::get_storage_at">>,
  <<"starknet_getStorageProof", "method::get_storage_proof">>,
  <<"starknet_getTransactionByBlockIdAndIndex", "method::get_transaction_by_block_id_and_index">>,
  <<"starknet_getTransactionByHash", "method::get_transaction_by_hash">>,
  <<"starknet_getTransactionStatus", "method::get_transaction_status">>,
  <<"starknet_simulateTransactions", "method::simulate_transactions">>,
  <<"starknet_subscribeNewHeads", "SubscribeNewHeads">>,
  <<"starknet_subscribePendingTransactions", "SubscribePendingTransactions">>,
  <<"starknet_subscribeEvents", "SubscribeEvents">>,
  <<"starknet_subscribeTransactionStatus", "SubscribeTransactionStatus">>,
  <<"starknet_specVersion", "closure returning 0.8.0-rc0">>,
  <<"starknet_syncing", "method::syncing">>,
  <<"starknet_traceBlockTransactions", "method::trace_block_transactions">>,
  <<"starknet_traceTransaction", "method::trace_transaction">>,
  <<"pathfinder_getProof", "pathfinder::methods::get_proof">>
>>

VARIABLES
  registered,  \* the registrations applied so far
  routes       \* the builder's table: method name -> handler

vars == <<registered, routes>>

Init ==
  /\ registered = 0
  /\ routes = <<>>

\* One `.register(method, handler)` call of the chain.
Register ==
  /\ registered < Len(Registrations)
  /\ LET m == Registrations[registered + 1][1]
         h == Registrations[registered + 1][2]
     IN routes' = [x \in DOMAIN routes \cup {m} |-> IF x = m THEN h ELSE routes[x]]
  /\ registered' = registered + 1

\* register_routes has returned the builder.
Built ==
  /\ registered = Len(Registrations)
  /\ UNCHANGED vars

Next == Register \/ Built

Spec == Init /\ [][Next]_vars

-----------------------------------------------------------------------------
\* Each JSON-RPC method is served by a handler of its own: the methods of
\* the API take different parameters (estimateMessageFee takes an L1
\* message, estimateFee a list of transactions), so no two method names
\* dispatch to the same handler.
HandlerPerMethod ==
  \A m1, m2 \in DOMAIN routes : m1 # m2 => routes[m1] # routes[m2]
=============================================================================

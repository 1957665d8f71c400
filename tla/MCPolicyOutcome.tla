--------------------------- MODULE MCPolicyOutcome --------------------------
(* A small instance: two tokens, two roles, every rule type and one unknown. *)
EXTENDS PolicyOutcome

Approval(n, roles) ==
    [type |-> "require_approval", approverCount |-> n, approverRoleIds |-> roles]

EveryRule ==
    {[type |-> "token_allowlist", addresses |-> {"usdc"}],
     [type |-> "wallet_allowlist", walletIds |-> {"treasury"}],
     [type |-> "action_allowlist", actions |-> {"transfer"}],
     [type |-> "max_usd_per_transaction", maxUsd |-> 2],
     [type |-> "max_usd_per_day", maxUsd |-> 3],
     [type |-> "max_transactions_per_hour", maxCount |-> 1],
     [type |-> "unregistered"],
     Approval(1, {}), Approval(2, {"finance"}), Approval(1, {"finance", "ops"})}

\* A deployment moves no value: IntentService.create passes amountNative "0".
EveryContext ==
    [tokenAddress : {"usdc", "eth"}, walletId : {"treasury", "payroll"},
     intentAction : {"transfer"}, amountKnown : {TRUE}, amountUsd : 0 .. 3,
     dailyUsdSpent : {0, 2}, txCountLastHour : {0, 1}]
    \union
    [tokenAddress : {"usdc"}, walletId : {"treasury"}, intentAction : {"transfer"},
     amountKnown : {FALSE}, amountUsd : {0}, dailyUsdSpent : {0}, txCountLastHour : {0}]
    \union
    [tokenAddress : {"eth"}, walletId : {"treasury"}, intentAction : {"deploy"},
     amountKnown : {TRUE}, amountUsd : {0}, dailyUsdSpent : {0, 2}, txCountLastHour : {0, 1}]
=============================================================================

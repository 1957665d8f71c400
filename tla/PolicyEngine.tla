---------------------------- MODULE PolicyEngine ----------------------------
(***************************************************************************)
(* The policy engine (packages/policy-engine): pure functions that decide  *)
(* a requested transfer under the rules of every active policy of the      *)
(* member's roles.                                                         *)
(*                                                                         *)
(* Addresses are taken up to letter case, amounts in whole dollars, and an *)
(* absent approverRoleIds is the empty set (the schema refuses an empty    *)
(* array).  Reasons and messages are left out.                             *)
(***************************************************************************)
EXTENDS Integers, Sequences, SequencesExt

-----------------------------------------------------------------------------
(* Results *)

NoApproval == [approverCount |-> 0, approverRoleIds |-> {}]

Allow == [decision |-> "ALLOW", approval |-> NoApproval]

Deny == [decision |-> "DENY", approval |-> NoApproval]

RequireApproval(approval) == [decision |-> "REQUIRE_APPROVAL", approval |-> approval]
-----------------------------------------------------------------------------
(* The rule handlers: each looks at one rule alone, and all but the last either *)
(* deny or let the request pass.                                                *)

TokenAllowlist(ctx, rule) == ctx.tokenAddress \in rule.addresses

WalletAllowlist(ctx, rule) == ctx.walletId \in rule.walletIds

ActionAllowlist(ctx, rule) == ctx.intentAction \in rule.actions

\* An amount that is unknown (not a finite number) is over every cap.
MaxUsdPerTransaction(ctx, rule) == ctx.amountKnown /\ ctx.amountUsd <= rule.maxUsd

MaxUsdPerDay(ctx, rule) ==
    ctx.amountKnown /\ ctx.dailyUsdSpent + ctx.amountUsd <= rule.maxUsd

MaxTransactionsPerHour(ctx, rule) == ctx.txCountLastHour < rule.maxCount

\* Nothing to approve where no value moves, or none that is known.
NeedsApproval(ctx) == ctx.amountKnown /\ ctx.amountUsd > 0

\* The registry's lookup by type; a rule whose type has no handler denies.
Passes(ctx, rule) ==
    \/ rule.type = "token_allowlist" /\ TokenAllowlist(ctx, rule)
    \/ rule.type = "wallet_allowlist" /\ WalletAllowlist(ctx, rule)
    \/ rule.type = "action_allowlist" /\ ActionAllowlist(ctx, rule)
    \/ rule.type = "max_usd_per_transaction" /\ MaxUsdPerTransaction(ctx, rule)
    \/ rule.type = "max_usd_per_day" /\ MaxUsdPerDay(ctx, rule)
    \/ rule.type = "max_transactions_per_hour" /\ MaxTransactionsPerHour(ctx, rule)
    \/ rule.type = "require_approval"

evaluateRule(ctx, rule) ==
    IF ~ Passes(ctx, rule) THEN Deny
    ELSE IF rule.type = "require_approval" /\ NeedsApproval(ctx)
         THEN RequireApproval([approverCount   |-> rule.approverCount,
                               approverRoleIds |-> rule.approverRoleIds])
         ELSE Allow
-----------------------------------------------------------------------------
(* Merging *)

\* Mutation: the later requirement replaces the earlier one.
pickStricterApproval_Latest(current, next) == next

\* The counts are compared; the role ids are those of the later requirement
\* that names any.
pickStricterApproval(current, next) ==
    [approverCount   |-> IF current.approverCount > next.approverCount
                         THEN current.approverCount ELSE next.approverCount,
     approverRoleIds |-> IF next.approverRoleIds # {}
                         THEN next.approverRoleIds ELSE current.approverRoleIds]

Returned(results, decision) == \E k \in DOMAIN results : results[k].decision = decision

\* Only a rule that requires approval has a requirement to contribute.
mergedApproval(results) ==
    FoldLeft(pickStricterApproval, NoApproval,
             [k \in DOMAIN results |-> results[k].approval])

\* Mutation: the last rule that does not simply allow decides.
mergeResults_LastDecides(results) ==
    LET deciding == SelectSeq(results, LAMBDA r : r.decision # "ALLOW")
    IN  IF deciding = <<>> THEN Allow ELSE deciding[Len(deciding)]

mergeResults(results) ==
    IF Returned(results, "DENY") THEN Deny
    ELSE IF Returned(results, "REQUIRE_APPROVAL") THEN RequireApproval(mergedApproval(results))
    ELSE Allow

\* No rules at all: allowed.
evaluate(ctx, ruleSeq) ==
    IF ruleSeq = <<>> THEN Allow
    ELSE mergeResults([k \in DOMAIN ruleSeq |-> evaluateRule(ctx, ruleSeq[k])])
=============================================================================

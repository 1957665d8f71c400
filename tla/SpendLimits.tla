----------------------------- MODULE SpendLimits ----------------------------
(***************************************************************************)
(* How IntentService.create keeps the daily dollar cap and the hourly      *)
(* count of one member: PolicyEvaluationService prices the amount, reads   *)
(* the counters from Redis and asks the engine; the intent is priced again *)
(* and stored, and only then, if the policy allowed it, counted.  Each     *)
(* line of that is an await, the counters are under no lock, the price     *)
(* moves, and the keys of the counters change at midnight and on the hour. *)
(***************************************************************************)
EXTENDS PolicyEngine, FiniteSets, FiniteSetsExt

CONSTANTS
    Calls,          \* create requests that may be in flight at once
    Amounts,        \* native amounts of transfers
    Prices,         \* dollar prices of the token
    MaxUsd,         \* maxUsd of the member's max_usd_per_day rule
    MaxCount,       \* maxCount of the member's max_transactions_per_hour rule
    Approvers,      \* approverCounts of the approval rules that come and go
    MaxMissed,      \* bound: how many dollars, and transactions, may be missed
    Outages         \* whether the oracle may be unavailable

ASSUME SpendAssumption ==
    /\ IsFiniteSet(Calls)
    /\ Amounts \subseteq Nat
    /\ Prices \subseteq Nat \ {0}
    /\ MaxUsd \in Nat \ {0}
    /\ MaxCount \in Nat \ {0}
    /\ Approvers \subseteq Nat \ {0}
    /\ MaxMissed \in Nat
    /\ Outages \in BOOLEAN

VARIABLES
    price,      \* what getUsdPrice answers now; 0 when it throws
    counter,    \* Redis: dollars of the day's key, transactions of the hour's
    stored,     \* allowed transaction_intents: the known dollars of the day, the number of the hour
    missed,     \* of those, what was never counted: no price, or the call ended too early
    call        \* the create requests

spendVars == <<price, counter, stored, missed, call>>
-----------------------------------------------------------------------------
Unavailable == 0

Idle == [pc |-> "idle"]

Requests ==
    [intentAction : {"transfer"}, native : Amounts]
    \union [intentAction : {"deploy"}, native : {0}]

Limits ==
    <<[type |-> "max_usd_per_day", maxUsd |-> MaxUsd],
      [type |-> "max_transactions_per_hour", maxCount |-> MaxCount]>>

\* The limits, with or without a rule of another role that requires approval.
RuleSets ==
    {Limits} \union
    {Append(Limits, [type |-> "require_approval", approverCount |-> n, approverRoleIds |-> {}]) :
        n \in Approvers}

CallRecords ==
    {Idle}
    \union [pc : {"read_usd", "evaluate"}, request : Requests, rules : RuleSets,
            usd : Nat, spent : Nat]
    \union [pc : {"price_again"}, native : Amounts]
    \union [pc : {"insert_unpriced"}]
    \union [pc : {"insert", "count_usd", "count_tx"}, usd : Nat]

Sums == [usd : Nat, tx : Nat]

SpendTypeOK ==
    /\ price \in Prices \union {Unavailable}
    /\ counter \in Sums
    /\ stored \in Sums
    /\ missed \in Sums
    /\ call \in [Calls -> CallRecords]

At(c, step) == call[c].pc = step

Goto(c, step) == call' = [call EXCEPT ![c].pc = step]

Return(c) == call' = [call EXCEPT ![c] = Idle]
-----------------------------------------------------------------------------
(* PolicyEvaluationService.evaluateIntent *)

\* The rules, and the price; without one the answer is DENY.  A denied intent is
\* stored too, but nothing of it is counted.
BeginCreate(c, request, rules) ==
    /\ call[c] = Idle
    /\ price # Unavailable
    /\ call' = [call EXCEPT ![c] =
                  [pc |-> "read_usd", request |-> request, rules |-> rules,
                   usd |-> request.native * price, spent |-> 0]]
    /\ UNCHANGED <<price, counter, stored, missed>>

\* Mutation: the counters are not read.
ReadUsd_Nothing(c) ==
    /\ At(c, "read_usd")
    /\ Goto(c, "evaluate")
    /\ UNCHANGED <<price, counter, stored, missed>>

\* The two gets are sent together, and answered one after the other.
ReadUsd(c) ==
    /\ At(c, "read_usd")
    /\ call' = [call EXCEPT ![c].pc = "evaluate", ![c].spent = counter.usd]
    /\ UNCHANGED <<price, counter, stored, missed>>

Context(c) ==
    [intentAction |-> call[c].request.intentAction,
     amountKnown |-> TRUE, amountUsd |-> call[c].usd,
     dailyUsdSpent |-> call[c].spent, txCountLastHour |-> counter.tx]

\* Only an intent the policy allows goes on to be counted.
Evaluate(c) ==
    /\ At(c, "evaluate")
    /\ IF evaluate(Context(c), call[c].rules).decision = "ALLOW"
       THEN call' = [call EXCEPT ![c] =
                       IF @.request.intentAction = "deploy"
                       THEN [pc |-> "insert", usd |-> 0]
                       ELSE [pc |-> "price_again", native |-> @.request.native]]
       ELSE Return(c)
    /\ UNCHANGED <<price, counter, stored, missed>>
-----------------------------------------------------------------------------
(* The rest of IntentService.create *)

\* resolveAmountUsd: without a price the amount is null.
PriceAgain(c) ==
    /\ At(c, "price_again")
    /\ call' = [call EXCEPT ![c] =
                  IF price = Unavailable
                  THEN [pc |-> "insert_unpriced"]
                  ELSE [pc |-> "insert", usd |-> @.native * price]]
    /\ UNCHANGED <<price, counter, stored, missed>>

InsertIntent(c) ==
    /\ At(c, "insert")
    /\ stored' = [usd |-> stored.usd + call[c].usd, tx |-> stored.tx + 1]
    /\ Goto(c, "count_usd")
    /\ UNCHANGED <<price, counter, missed>>

\* An intent the policy allowed, of no known amount, is never counted.
InsertUnpriced(c) ==
    /\ At(c, "insert_unpriced")
    /\ missed.tx < MaxMissed
    /\ stored' = [stored EXCEPT !.tx = @ + 1]
    /\ missed' = [missed EXCEPT !.tx = @ + 1]
    /\ Return(c)
    /\ UNCHANGED <<price, counter>>

\* Mutation: a transaction is counted in place of its dollars.
IncrementDailyUsd_One(c) ==
    /\ At(c, "count_usd")
    /\ counter' = [counter EXCEPT !.usd = @ + 1]
    /\ Goto(c, "count_tx")
    /\ UNCHANGED <<price, stored, missed>>

IncrementDailyUsd(c) ==
    /\ At(c, "count_usd")
    /\ counter' = [counter EXCEPT !.usd = @ + call[c].usd]
    /\ Goto(c, "count_tx")
    /\ UNCHANGED <<price, stored, missed>>

\* Mutation: the hour's count is never raised.
IncrementHourlyTx_Not(c) ==
    /\ At(c, "count_tx")
    /\ Return(c)
    /\ UNCHANGED <<price, counter, stored, missed>>

IncrementHourlyTx(c) ==
    /\ At(c, "count_tx")
    /\ counter' = [counter EXCEPT !.tx = @ + 1]
    /\ Return(c)
    /\ UNCHANGED <<price, stored, missed>>

\* An await rejects or the process dies: before the insert nothing has happened,
\* after it the intent stays stored and what was still to be counted is missed.
CallFails(c) ==
    /\ \/ At(c, "count_usd")
          /\ missed' = [usd |-> missed.usd + call[c].usd, tx |-> missed.tx + 1]
       \/ At(c, "count_tx")
          /\ missed' = [missed EXCEPT !.tx = @ + 1]
       \/ call[c].pc \notin {"idle", "count_usd", "count_tx"}
          /\ missed' = missed
    /\ missed'.usd <= MaxMissed /\ missed'.tx <= MaxMissed
    /\ Return(c)
    /\ UNCHANGED <<price, counter, stored>>
-----------------------------------------------------------------------------
(* The oracle and the clock *)

PriceMoves ==
    /\ price' \in Prices \union (IF Outages THEN {Unavailable} ELSE {})
    /\ price' # price
    /\ UNCHANGED <<counter, stored, missed, call>>

\* The keys carry the date and the hour: the counters start again from nothing.
NewHour ==
    /\ counter' = [counter EXCEPT !.tx = 0]
    /\ stored' = [stored EXCEPT !.tx = 0]
    /\ missed' = [missed EXCEPT !.tx = 0]
    /\ UNCHANGED <<price, call>>

NewDay ==
    /\ counter' = [usd |-> 0, tx |-> 0]
    /\ stored' = [usd |-> 0, tx |-> 0]
    /\ missed' = [usd |-> 0, tx |-> 0]
    /\ UNCHANGED <<price, call>>
-----------------------------------------------------------------------------
SpendInit ==
    /\ price \in Prices
    /\ counter = [usd |-> 0, tx |-> 0]
    /\ stored = [usd |-> 0, tx |-> 0]
    /\ missed = [usd |-> 0, tx |-> 0]
    /\ call = [c \in Calls |-> Idle]

Create(c) ==
    \/ \E request \in Requests, rules \in RuleSets : BeginCreate(c, request, rules)
    \/ ReadUsd(c) \/ Evaluate(c)
    \/ PriceAgain(c) \/ InsertIntent(c) \/ InsertUnpriced(c)
    \/ IncrementDailyUsd(c) \/ IncrementHourlyTx(c) \/ CallFails(c)

SpendNext ==
    \/ \E c \in Calls : Create(c)
    \/ PriceMoves \/ NewHour \/ NewDay

SpendSpec == SpendInit /\ [][SpendNext]_spendVars
-----------------------------------------------------------------------------
(* Properties *)

InStep(steps) == {c \in Calls : call[c].pc \in steps}

\* Calls that have stored an intent which is still to be counted.
Uncounted == InStep({"count_usd", "count_tx"})

\* Calls whose intent the policy has allowed, and that are still to store it.
Passed == InStep({"price_again", "insert", "insert_unpriced"})

UncountedUsd == MapThenSumSet(LAMBDA c : call[c].usd, InStep({"count_usd"}))

TxCounted == stored.tx <= counter.tx + Cardinality(Uncounted) + missed.tx

\* Whatever the policy allowed and stored is counted, about to be counted by its
\* call, or missed for want of a price or because that call ended: nothing is counted too low or lost
\* between two calls, at midnight or on the hour.
AllCounted ==
    /\ stored.usd <= counter.usd + UncountedUsd + missed.usd
    /\ TxCounted

Largest == Max(Amounts) * Max(Prices)

Drift == Max(Amounts) * (Max(Prices) - Min(Prices))

\* The cap is checked before it is counted, so it can be overshot, but only by
\* what the other calls in flight had already passed, by the price's movement
\* between the two lookups, and by what was never counted; one call at a time,
\* at a steady price, keeps it exactly.
DailyOvershootBounded ==
    stored.usd <= MaxUsd + (Cardinality(Calls) - 1) * Largest + Drift + missed.usd

\* The same of the hourly count, which the calls in flight alone can overshoot.
HourlyOvershootBounded ==
    stored.tx <= MaxCount + (Cardinality(Calls) - 1) + missed.tx

\* Why: what is stored is no more than counted, uncounted and missed together, a
\* call passes only below the cap, and it is one call itself.
HourlyInv ==
    /\ SpendTypeOK
    /\ TxCounted
    /\ stored.tx + Cardinality(Passed) <= MaxCount + (Cardinality(Calls) - 1) + missed.tx
=============================================================================

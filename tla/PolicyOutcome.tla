---------------------------- MODULE PolicyOutcome ---------------------------
(***************************************************************************)
(* The engine's decision on one request while the member's rules change:   *)
(* they reach it in the order the database returns the policies, and come  *)
(* and go with the member's roles and the policies' versions.              *)
(***************************************************************************)
EXTENDS PolicyEngine

CONSTANTS
    Rules,      \* policy rules, of known types or not
    Contexts,   \* evaluation contexts
    MaxRules    \* bound: how many rules a member collects

VARIABLES
    rules,      \* the rules getApplicablePolicies returns
    context     \* the request, with the counters read for it

outcomeVars == <<rules, context>>
-----------------------------------------------------------------------------
OutcomeInit ==
    /\ rules = <<>>
    /\ context \in Contexts

\* findMany names no order: a policy's rules may come anywhere among the others.
AddRule(rule) ==
    /\ Len(rules) < MaxRules
    /\ \E k \in 1 .. Len(rules) + 1 : rules' = InsertAt(rules, k, rule)
    /\ UNCHANGED context

\* A role expires or is revoked, or a policy is archived.
DropRule(k) ==
    /\ rules' = RemoveAt(rules, k)
    /\ UNCHANGED context

OutcomeNext ==
    \/ \E rule \in Rules : AddRule(rule)
    \/ \E k \in DOMAIN rules : DropRule(k)

OutcomeSpec == OutcomeInit /\ [][OutcomeNext]_outcomeVars
-----------------------------------------------------------------------------
(* Properties *)

Severity == [ALLOW |-> 0, REQUIRE_APPROVAL |-> 1, DENY |-> 2]

Outcome == evaluate(context, rules)

\* What each rule would ask for on its own.
Alone == {evaluate(context, <<rules[k]>>) : k \in DOMAIN rules}

\* The reference: the merge is as severe as the severest rule alone, asks for
\* the highest number of approvers any rule alone asks for, and for at least
\* one when it requires approval (so createForIntent's check of the count never
\* leaves a pending intent without a request), whatever the order of the rules.
StrictestRuleWins ==
    /\ \A r \in Alone : Severity[r.decision] <= Severity[Outcome.decision]
    /\ rules # <<>> => \E r \in Alone : r.decision = Outcome.decision
    /\ Outcome.decision = "REQUIRE_APPROVAL" =>
          /\ \A r \in Alone : r.approval.approverCount <= Outcome.approval.approverCount
          /\ \E r \in Alone : r.approval.approverCount = Outcome.approval.approverCount
          /\ Outcome.approval.approverCount > 0

Within(rs, ss) == \A k \in DOMAIN rs : \E j \in DOMAIN ss : ss[j] = rs[k]

\* Rules only ever restrict: one more, wherever it lands and whatever its type,
\* never opens what was closed, and one less never closes what was open.
RulesOnlyRestrict ==
    [][/\ Within(rules, rules') => Severity[Outcome.decision] <= Severity[Outcome'.decision]
       /\ Within(rules', rules) => Severity[Outcome'.decision] <= Severity[Outcome.decision]]_outcomeVars

\* a demands all that b does: as many approvers, from no wider a set of roles.
AsStrict(a, b) ==
    /\ a.approverCount >= b.approverCount
    /\ b.approverRoleIds # {} =>
          a.approverRoleIds # {} /\ a.approverRoleIds \subseteq b.approverRoleIds

Asked == {r.approval : r \in {r \in Alone : r.decision = "REQUIRE_APPROVAL"}}

\* docs/adr/004: "Most restrictive merge when multiple roles apply".  Where one
\* requirement is as strict as every other, the merged one is as strict as it.
MostRestrictiveMerge ==
    Outcome.decision = "REQUIRE_APPROVAL" =>
       \A a \in Asked :
          (\A b \in Asked : AsStrict(a, b)) => AsStrict(Outcome.approval, a)
=============================================================================

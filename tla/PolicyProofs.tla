----------------------------- MODULE PolicyProofs -----------------------------
(* The policies: what one rule more does to a decision, for any rules and   *)
(* contexts, that the strictest rule wins, and which rows of a policy are   *)
(* in force, for any number of writers.                                     *)
EXTENDS PolicyOutcome, PolicyVersions, FoldTheorems

(***************************************************************************)
(* The decision is monotone in the rules: from the definitions of the      *)
(* merge alone.                                                            *)
(***************************************************************************)
\* What each rule of a sequence returns, in order.
Results(ctx, rs) == [k \in DOMAIN rs |-> evaluateRule(ctx, rs[k])]

\* The early return for no rules agrees with merging no results, so the decision
\* is the merge's whatever the rules.
LEMMA DecisionIsMerged ==
    ASSUME NEW ctx, NEW rs
    PROVE  evaluate(ctx, rs).decision =
              IF Returned(Results(ctx, rs), "DENY") THEN "DENY"
              ELSE IF Returned(Results(ctx, rs), "REQUIRE_APPROVAL") THEN "REQUIRE_APPROVAL"
              ELSE "ALLOW"
<1>1. CASE rs = <<>>
  <2>1. DOMAIN rs = {}
    BY <1>1
  <2>2. \A d : ~ Returned(Results(ctx, rs), d)
    BY <2>1 DEF Returned, Results
  <2>3. evaluate(ctx, rs) = Allow
    BY <1>1 DEF evaluate
  <2> QED
    BY <2>2, <2>3 DEF Allow
<1>2. CASE rs # <<>>
  <2>1. evaluate(ctx, rs) = mergeResults(Results(ctx, rs))
    BY <1>2 DEF evaluate, Results
  <2> QED
    BY <2>1 DEF mergeResults, Allow, Deny, RequireApproval
<1> QED
  BY <1>1, <1>2

\* What some rule of rs returns, some rule of ss does too.
LEMMA ReturnedCarriesOver ==
    ASSUME NEW ctx, NEW rs, NEW ss, NEW d,
           Within(rs, ss), Returned(Results(ctx, rs), d)
    PROVE  Returned(Results(ctx, ss), d)
<1>1. PICK k \in DOMAIN rs : evaluateRule(ctx, rs[k]).decision = d
  BY DEF Returned, Results
<1>2. PICK j \in DOMAIN ss : ss[j] = rs[k]
  BY <1>1 DEF Within
<1>3. Results(ctx, ss)[j].decision = d
  BY <1>1, <1>2 DEF Results
<1> QED
  BY <1>2, <1>3 DEF Returned, Results

\* More rules decide at least as severely.
LEMMA MoreRulesAsSevere ==
    ASSUME NEW ctx, NEW rs, NEW ss, Within(rs, ss)
    PROVE  Severity[evaluate(ctx, rs).decision] <= Severity[evaluate(ctx, ss).decision]
<1> DEFINE Some(ts, d) == Returned(Results(ctx, ts), d)
<1>1. /\ Some(rs, "DENY") => Some(ss, "DENY")
      /\ Some(rs, "REQUIRE_APPROVAL") => Some(ss, "REQUIRE_APPROVAL")
  BY ReturnedCarriesOver
<1>2. \A ts \in {rs, ss} :
         Severity[evaluate(ctx, ts).decision] =
            IF Some(ts, "DENY") THEN 2 ELSE IF Some(ts, "REQUIRE_APPROVAL") THEN 1 ELSE 0
  BY DecisionIsMerged DEF Severity
<1> HIDE DEF Some
<1> QED
  BY <1>1, <1>2

\* Rules only ever restrict: as roles and policies come and go, in whatever
\* order their rules reach the engine, one more never opens what was closed and
\* one less never closes what was open.
THEOREM OnlyRestrict == OutcomeSpec => RulesOnlyRestrict
<1> DEFINE Step == /\ Within(rules, rules') => Severity[Outcome.decision] <= Severity[Outcome'.decision]
                   /\ Within(rules', rules) => Severity[Outcome'.decision] <= Severity[Outcome.decision]
<1>1. ASSUME [OutcomeNext]_outcomeVars
      PROVE  [Step]_outcomeVars
  <2>1. context' = context
    BY <1>1 DEF OutcomeNext, AddRule, DropRule, outcomeVars
  <2>2. Outcome = evaluate(context, rules) /\ Outcome' = evaluate(context, rules')
    BY <2>1 DEF Outcome
  <2>3. Step
    BY <2>2, MoreRulesAsSevere
  <2> QED
    BY <2>3
<1> QED
  BY <1>1, PTL DEF OutcomeSpec, RulesOnlyRestrict
-----------------------------------------------------------------------------
(***************************************************************************)
(* Policies.  Rows are added in the order of their numbers and never come  *)
(* back into force, so the active rows that an evaluation did not see are  *)
(* newer than every row there was; and a scope gains an active row only    *)
(* when it had none, when one is archived for it, or by a stale write.     *)
(***************************************************************************)
PolicyRecords == [status : {"active", "archived"}, scope : Scopes, version : Nat]

PolicyRowsOK ==
    /\ policy \in [Policies -> {NoPolicy} \union PolicyRecords]
    /\ Existing = 1 .. Cardinality(Existing) /\ Cardinality(Existing) \in Nat
    /\ stale \in Nat

EditingOK ==
    /\ DOMAIN editing = Editors
    /\ \A e \in Editors :
          /\ editing[e].pc \in {"update", "archive"} => editing[e].policy \in Existing
          /\ editing[e].pc = "create" => editing[e].scope \in Scopes

CreatingOK ==
    /\ creating \in [pc : {"evaluate", "snapshot", "stored"}, evaluated : SUBSET Policies,
                     last : 0 .. MaxPolicies, recorded : 0 .. MaxPolicies]
    /\ creating.pc # "evaluate" =>
          /\ creating.last <= Cardinality(Existing)
          /\ \A p \in ActivePolicies : p <= creating.last => p \in creating.evaluated
    /\ creating.pc # "stored" => creating.recorded = 0

PoliciesInv ==
    /\ PolicyRowsOK /\ EditingOK /\ CreatingOK
    /\ OneActivePolicy /\ SnapshotSeenOrNewer

\* The rows of a scope are finitely many.
LEMMA ActiveFinite ==
    /\ IsFiniteSet(Policies)
    /\ \A scope : IsFiniteSet(ActiveOf(scope)) /\ Cardinality(ActiveOf(scope)) \in Nat
<1>1. IsFiniteSet(Policies)
  BY PolicyVersionsAssumption, FS_Interval DEF Policies
<1>2. ASSUME NEW scope
      PROVE  IsFiniteSet(ActiveOf(scope)) /\ Cardinality(ActiveOf(scope)) \in Nat
  <2>1. ActiveOf(scope) \subseteq Policies
    BY DEF ActiveOf, ActivePolicies
  <2> QED
    BY <1>1, <2>1, FS_Subset, FS_CardinalityType
<1> QED
  BY <1>1, <1>2

\* A row has its fields exactly if it exists.
LEMMA RowShape ==
    ASSUME PolicyRowsOK, NEW p \in Policies
    PROVE  /\ p \in Existing <=> policy[p] \in PolicyRecords
           /\ p \in ActivePolicies => p \in Existing
<1>1. policy[p] \in {NoPolicy} \union PolicyRecords
  BY DEF PolicyRowsOK
<1>2. NoPolicy \notin PolicyRecords /\ NoPolicy.status = "absent"
  BY DEF NoPolicy, PolicyRecords
<1> QED
  BY <1>1, <1>2 DEF Existing, ActivePolicies

\* A row is archived, or one more is added: its scope has the one it had for it,
\* or the write was stale.
LEMMA RowsChange ==
    ASSUME PoliciesInv, NEW e \in Editors, editing[e].pc \in {"create", "update", "archive"},
           editing' = [editing EXCEPT ![e] = NotEditing], creating' = creating,
           policy' \in [Policies -> {NoPolicy} \union PolicyRecords], stale' \in Nat,
           NEW more \in SUBSET {NextPolicy}, Existing' = Existing \union more,
           ActivePolicies' \subseteq ActivePolicies \union more,
           OneActivePolicy'
    PROVE  PoliciesInv'
<1> DEFINE n == Cardinality(Existing)
<1>1. n \in Nat /\ Existing = 1 .. n /\ NextPolicy = n + 1
  BY DEF PoliciesInv, PolicyRowsOK, NextPolicy
<1>2. PICK m \in {n, n + 1} : Existing' = 1 .. m
  <2>1. CASE more = {}
    BY <1>1, <2>1
  <2>2. CASE more = {n + 1}
    <3>1. Existing' = (1 .. n) \union {n + 1}
      BY <1>1, <2>2
    <3>2. (1 .. n) \union {n + 1} = 1 .. (n + 1)
      BY <1>1
    <3> QED
      BY <3>1, <3>2
  <2> QED
    BY <1>1, <2>1, <2>2
<1>3. m \in Nat /\ n <= m /\ Cardinality(Existing') = m
  <2>1. m \in Nat /\ n <= m
    BY <1>1
  <2>2. Cardinality(1 .. m) = m
    BY <2>1, FS_Interval
  <2> QED
    BY <1>2, <2>1, <2>2
<1>4. Cardinality(Existing)' = m
  BY <1>3
<1>5. PolicyRowsOK'
  BY <1>2, <1>3, <1>4 DEF PolicyRowsOK
<1>6. EditingOK'
  <2>1. NotEditing.pc = "idle"
    BY DEF NotEditing
  <2>2. Existing \subseteq Existing'
    OBVIOUS
  <2>3. DOMAIN editing' = Editors /\ editing'[e] = NotEditing
        /\ \A d \in Editors : d # e => editing'[d] = editing[d]
    BY DEF PoliciesInv, EditingOK
  <2> QED
    BY <2>1, <2>2, <2>3 DEF PoliciesInv, EditingOK
<1>7. CreatingOK'
  <2>1. creating.last \in Nat
    BY PolicyVersionsAssumption DEF PoliciesInv, CreatingOK
  <2>2. creating.pc # "evaluate" => creating.last <= m /\ creating.last < n + 1
    BY <1>1, <1>3, <2>1 DEF PoliciesInv, CreatingOK
  <2>3. \A p \in ActivePolicies' : p \in ActivePolicies \/ p = n + 1
    BY <1>1
  <2>4. ASSUME creating.pc # "evaluate", NEW p \in ActivePolicies', p <= creating.last
        PROVE  p \in creating.evaluated
    <3>1. p # n + 1
      BY <1>1, <2>1, <2>2, <2>4
    <3> QED
      BY <2>3, <2>4, <3>1 DEF PoliciesInv, CreatingOK
  <2> QED
    BY <1>4, <2>2, <2>4 DEF PoliciesInv, CreatingOK
<1> QED
  BY <1>5, <1>6, <1>7 DEF PoliciesInv, SnapshotSeenOrNewer

LEMMA CreateActiveKeeps ==
    ASSUME PoliciesInv, NEW e \in Editors, CreateActive(e)
    PROVE  PoliciesInv'
<1> DEFINE scope == editing[e].scope
           row == NewPolicy(scope, 1)
           n == NextPolicy
<1>1. /\ editing[e].pc = "create" /\ n \in Policies
      /\ policy' = [policy EXCEPT ![n] = row]
      /\ stale' = IF ActiveOf(scope) = {} THEN stale ELSE stale + 1
      /\ editing' = [editing EXCEPT ![e] = NotEditing] /\ creating' = creating
  BY DEF CreateActive, Edit
<1>2. PolicyRowsOK /\ stale \in Nat /\ scope \in Scopes
  BY <1>1 DEF PoliciesInv, PolicyRowsOK, EditingOK
<1>3. row \in PolicyRecords /\ row.status = "active" /\ row.scope = scope
  BY <1>2 DEF NewPolicy, PolicyRecords
<1> HIDE DEF row, n
<1>4. /\ policy' \in [Policies -> {NoPolicy} \union PolicyRecords]
      /\ policy'[n] = row /\ \A p \in Policies : p # n => policy'[p] = policy[p]
  BY <1>1, <1>2, <1>3 DEF PolicyRowsOK
<1>5. n \notin Existing /\ n \notin ActivePolicies
  <2>1. n \notin Existing
    BY <1>2 DEF n, NextPolicy, PolicyRowsOK
  <2> QED
    BY <1>1, <1>2, <2>1, RowShape
<1>6. row # NoPolicy
  BY <1>3 DEF NoPolicy
<1>7. Existing' = Existing \union {n}
  BY <1>1, <1>4, <1>6 DEF Existing
<1>8. ActivePolicies' \subseteq ActivePolicies \union {n}
  BY <1>4 DEF ActivePolicies
<1>9. stale' \in Nat /\ stale <= stale'
  BY <1>1, <1>2
<1>10. ASSUME NEW s \in Scopes
       PROVE  Cardinality(ActiveOf(s)') <= 1 + stale'
  <2>1. IsFiniteSet(ActiveOf(s)) /\ Cardinality(ActiveOf(s)) \in Nat
        /\ Cardinality(ActiveOf(s)) <= 1 + stale
    BY ActiveFinite DEF PoliciesInv, OneActivePolicy
  <2>2. CASE s # scope
    <3>1. ActiveOf(s)' \subseteq ActiveOf(s)
      BY <1>3, <1>4, <1>8, <2>2 DEF ActiveOf, ActivePolicies
    <3>2. Cardinality(ActiveOf(s)') <= Cardinality(ActiveOf(s)) /\ IsFiniteSet(ActiveOf(s)')
      BY <2>1, <3>1, FS_Subset
    <3>3. Cardinality(ActiveOf(s)') \in Nat
      BY <3>2, FS_CardinalityType
    <3> QED
      BY <1>2, <1>9, <2>1, <3>2, <3>3
  <2>3. CASE s = scope
    <3>1. ActiveOf(s)' \subseteq ActiveOf(s) \union {n} /\ n \notin ActiveOf(s)
      BY <1>4, <1>5, <1>8 DEF ActiveOf, ActivePolicies
    <3>2. /\ IsFiniteSet(ActiveOf(s) \union {n})
          /\ Cardinality(ActiveOf(s) \union {n}) = Cardinality(ActiveOf(s)) + 1
      BY <2>1, <3>1, FS_AddElement
    <3>3. Cardinality(ActiveOf(s)') <= Cardinality(ActiveOf(s)) + 1 /\ IsFiniteSet(ActiveOf(s)')
      BY <3>1, <3>2, FS_Subset
    <3>4. Cardinality(ActiveOf(s)') \in Nat
      BY <3>3, FS_CardinalityType
    <3>5. ActiveOf(s) = {} => Cardinality(ActiveOf(s)) = 0
      BY FS_EmptySet
    <3>6. CASE ActiveOf(s) = {}
      BY <1>2, <1>9, <3>3, <3>4, <3>5, <3>6
    <3>7. CASE ActiveOf(s) # {}
      <4>1. stale' = stale + 1
        BY <1>1, <2>3, <3>7
      <4> QED
        BY <1>2, <2>1, <3>3, <3>4, <4>1
    <3> QED
      BY <3>6, <3>7
  <2> QED
    BY <2>2, <2>3
<1>11. OneActivePolicy'
  BY <1>10 DEF OneActivePolicy
<1> QED
  BY <1>1, <1>4, <1>7, <1>8, <1>9, <1>11, RowsChange DEF n

\* The version that is replaced is archived, and another takes its place.
LEMMA UpdateKeeps ==
    ASSUME PoliciesInv, NEW e \in Editors, ArchiveAndCreateVersion(e)
    PROVE  PoliciesInv'
<1> DEFINE old == editing[e].policy
           n == NextPolicy
           row == NewPolicy(policy[old].scope, policy[old].version + 1)
           gone == [policy[old] EXCEPT !.status = "archived"]
<1>1. /\ editing[e].pc = "update" /\ n \in Policies
      /\ stale' = IF old \in ActivePolicies THEN stale ELSE stale + 1
      /\ editing' = [editing EXCEPT ![e] = NotEditing] /\ creating' = creating
  BY DEF ArchiveAndCreateVersion, Edit
<1>2. /\ PolicyRowsOK /\ stale \in Nat /\ old \in Existing /\ old \in Policies
      /\ policy[old] \in PolicyRecords
  <2>1. PolicyRowsOK /\ stale \in Nat /\ old \in Existing
    BY <1>1 DEF PoliciesInv, PolicyRowsOK, EditingOK
  <2>2. old \in Policies
    BY <2>1 DEF Existing
  <2> QED
    BY <2>1, <2>2, RowShape
<1>3. policy[old].scope \in Scopes /\ policy[old].version + 1 \in Nat
  BY <1>2 DEF PolicyRecords
<1>4. row \in PolicyRecords /\ row.status = "active" /\ row.scope = policy[old].scope
  BY <1>3 DEF NewPolicy, PolicyRecords
<1>5. gone \in PolicyRecords /\ gone.status = "archived" /\ gone.scope = policy[old].scope
  BY <1>2 DEF PolicyRecords
<1>6. n \notin Existing /\ n \notin ActivePolicies /\ n # old
  <2>1. n \notin Existing
    BY <1>2 DEF NextPolicy, PolicyRowsOK
  <2> QED
    BY <1>1, <1>2, <2>1, RowShape
<1>7. /\ policy'[n] = row /\ policy'[old] = gone
      /\ \A p \in Policies : p \notin {n, old} => policy'[p] = policy[p]
      /\ policy' \in [Policies -> {NoPolicy} \union PolicyRecords]
  <2>1. policy' = [policy EXCEPT ![old] = gone, ![n] = row]
    BY <1>2 DEF ArchiveAndCreateVersion, PolicyRowsOK
  <2> HIDE DEF row, gone, n, old
  <2>2. policy \in [Policies -> {NoPolicy} \union PolicyRecords]
    BY <1>2 DEF PolicyRowsOK
  <2> QED
    BY <1>1, <1>2, <1>4, <1>5, <1>6, <2>1, <2>2
<1> HIDE DEF row, gone, n, old
<1>8. row # NoPolicy /\ gone # NoPolicy
  BY <1>4, <1>5 DEF NoPolicy
<1>9. Existing' = Existing \union {n}
  BY <1>1, <1>2, <1>7, <1>8 DEF Existing
<1>10. ActivePolicies' \subseteq (ActivePolicies \ {old}) \union {n}
  BY <1>5, <1>7 DEF ActivePolicies
<1>11. stale' \in Nat /\ stale <= stale'
  BY <1>1, <1>2
<1>12. ASSUME NEW s \in Scopes
       PROVE  Cardinality(ActiveOf(s)') <= 1 + stale'
  <2>1. IsFiniteSet(ActiveOf(s)) /\ Cardinality(ActiveOf(s)) \in Nat
        /\ Cardinality(ActiveOf(s)) <= 1 + stale
    BY ActiveFinite DEF PoliciesInv, OneActivePolicy
  <2> DEFINE rest == ActiveOf(s) \ {old}
  <2>2. /\ IsFiniteSet(rest) /\ Cardinality(rest) \in Nat
        /\ Cardinality(rest) <= Cardinality(ActiveOf(s))
        /\ old \in ActiveOf(s) => Cardinality(rest) = Cardinality(ActiveOf(s)) - 1
    BY <2>1, FS_Subset, FS_RemoveElement, FS_CardinalityType
  <2>3. CASE s # policy[old].scope
    <3>1. ActiveOf(s)' \subseteq ActiveOf(s)
      BY <1>4, <1>7, <1>10, <2>3 DEF ActiveOf, ActivePolicies
    <3>2. Cardinality(ActiveOf(s)') <= Cardinality(ActiveOf(s)) /\ IsFiniteSet(ActiveOf(s)')
      BY <2>1, <3>1, FS_Subset
    <3>3. Cardinality(ActiveOf(s)') \in Nat
      BY <3>2, FS_CardinalityType
    <3> QED
      BY <1>2, <1>11, <2>1, <3>2, <3>3
  <2>4. CASE s = policy[old].scope
    <3>1. ActiveOf(s)' \subseteq rest \union {n} /\ n \notin rest
      BY <1>6, <1>7, <1>10 DEF ActiveOf, ActivePolicies
    <3>2. /\ IsFiniteSet(rest \union {n}) /\ Cardinality(rest \union {n}) = Cardinality(rest) + 1
      BY <2>2, <3>1, FS_AddElement
    <3>3. Cardinality(ActiveOf(s)') <= Cardinality(rest) + 1 /\ IsFiniteSet(ActiveOf(s)')
      BY <3>1, <3>2, FS_Subset
    <3>4. Cardinality(ActiveOf(s)') \in Nat
      BY <3>3, FS_CardinalityType
    <3>5. old \in ActivePolicies => old \in ActiveOf(s)
      BY <2>4 DEF ActiveOf
    <3>6. CASE old \in ActivePolicies
      <4>1. Cardinality(rest) = Cardinality(ActiveOf(s)) - 1
        BY <2>2, <3>5, <3>6
      <4> HIDE DEF rest
      <4> QED
        BY <1>2, <1>11, <2>1, <2>2, <3>3, <3>4, <4>1
    <3>7. CASE old \notin ActivePolicies
      <4>1. stale' = stale + 1
        BY <1>1, <3>7
      <4> HIDE DEF rest
      <4> QED
        BY <1>2, <2>1, <2>2, <3>3, <3>4, <4>1
    <3> QED
      BY <3>6, <3>7
  <2> QED
    BY <2>3, <2>4
<1>13. OneActivePolicy'
  BY <1>12 DEF OneActivePolicy
<1> QED
  BY <1>1, <1>7, <1>9, <1>10, <1>11, <1>13, RowsChange DEF n

LEMMA ArchiveKeeps ==
    ASSUME PoliciesInv, NEW e \in Editors, ArchiveById(e)
    PROVE  PoliciesInv'
<1> DEFINE old == editing[e].policy
           gone == [policy[old] EXCEPT !.status = "archived"]
<1>1. /\ editing[e].pc = "archive" /\ creating' = creating /\ stale' = stale
      /\ editing' = [editing EXCEPT ![e] = NotEditing]
      /\ policy' = [policy EXCEPT ![old] = gone]
  BY DEF ArchiveById, Edit
<1>2. /\ PolicyRowsOK /\ stale \in Nat /\ old \in Existing /\ old \in Policies
      /\ policy[old] \in PolicyRecords
  <2>1. PolicyRowsOK /\ stale \in Nat /\ old \in Existing
    BY <1>1 DEF PoliciesInv, PolicyRowsOK, EditingOK
  <2>2. old \in Policies
    BY <2>1 DEF Existing
  <2> QED
    BY <2>1, <2>2, RowShape
<1>3. gone \in PolicyRecords /\ gone.status = "archived" /\ gone.scope = policy[old].scope
  BY <1>2 DEF PolicyRecords
<1> HIDE DEF gone, old
<1>4. /\ policy'[old] = gone
      /\ \A p \in Policies : p # old => policy'[p] = policy[p]
      /\ policy' \in [Policies -> {NoPolicy} \union PolicyRecords]
  BY <1>1, <1>2, <1>3 DEF PolicyRowsOK
<1>5. gone # NoPolicy
  BY <1>3 DEF NoPolicy
<1>6. Existing' = Existing \union {}
  BY <1>2, <1>4, <1>5 DEF Existing
<1>7. ActivePolicies' \subseteq ActivePolicies \union {}
  BY <1>3, <1>4 DEF ActivePolicies
<1>8. ASSUME NEW s \in Scopes
      PROVE  Cardinality(ActiveOf(s)') <= 1 + stale
  <2>1. IsFiniteSet(ActiveOf(s)) /\ Cardinality(ActiveOf(s)) \in Nat
        /\ Cardinality(ActiveOf(s)) <= 1 + stale
    BY ActiveFinite DEF PoliciesInv, OneActivePolicy
  <2>2. ActiveOf(s)' \subseteq ActiveOf(s)
    BY <1>3, <1>4, <1>7 DEF ActiveOf, ActivePolicies
  <2>3. Cardinality(ActiveOf(s)') <= Cardinality(ActiveOf(s)) /\ IsFiniteSet(ActiveOf(s)')
    BY <2>1, <2>2, FS_Subset
  <2>4. Cardinality(ActiveOf(s)') \in Nat
    BY <2>3, FS_CardinalityType
  <2> QED
    BY <1>2, <2>1, <2>3, <2>4
<1>9. OneActivePolicy'
  BY <1>1, <1>8 DEF OneActivePolicy
<1>10. {} \in SUBSET {NextPolicy}
  OBVIOUS
<1> QED
  BY <1>1, <1>2, <1>4, <1>6, <1>7, <1>9, <1>10, RowsChange

\* The edits before they write, and those that fail.
LEMMA EditSteps ==
    ASSUME PoliciesInv, NEW e \in Editors,
           \/ \E role \in Roles : HandleSubmit(e, role)
           \/ ListPolicies(e)
           \/ \E scope \in Scopes : BeginCreatePolicy(e, scope)
           \/ \E p \in Policies : BeginUpdatePolicy(e, p) \/ BeginArchivePolicy(e, p)
           \/ EditFails(e)
    PROVE  PoliciesInv'
<1>1. PolicyRowsOK /\ EditingOK /\ UNCHANGED <<policy, creating, stale>>
  BY DEF PoliciesInv, HandleSubmit, ListPolicies, BeginCreatePolicy, BeginUpdatePolicy,
         BeginArchivePolicy, EditFails
<1>2. /\ DOMAIN editing' = Editors /\ \A d \in Editors : d # e => editing'[d] = editing[d]
      /\ editing'[e].pc \in {"update", "archive"} => editing'[e].policy \in Existing
      /\ editing'[e].pc = "create" => editing'[e].scope \in Scopes
  <2>1. CASE \E role \in Roles : HandleSubmit(e, role)
    BY <1>1, <2>1 DEF HandleSubmit, Edit, EditingOK
  <2>2. CASE ListPolicies(e)
    BY <1>1, <2>2 DEF ListPolicies, Edit, EditingOK
  <2>3. CASE \E scope \in Scopes : BeginCreatePolicy(e, scope)
    BY <1>1, <2>3 DEF BeginCreatePolicy, Edit, EditingOK
  <2>4. CASE \E p \in Policies : BeginUpdatePolicy(e, p) \/ BeginArchivePolicy(e, p)
    BY <1>1, <2>4, RowShape DEF BeginUpdatePolicy, BeginArchivePolicy, Edit, EditingOK
  <2>5. CASE EditFails(e)
    BY <1>1, <2>5 DEF EditFails, Edit, NotEditing, EditingOK
  <2> QED
    BY <2>1, <2>2, <2>3, <2>4, <2>5
<1>3. EditingOK'
  BY <1>1, <1>2 DEF EditingOK, Existing
<1>4. PolicyRowsOK' /\ CreatingOK' /\ OneActivePolicy' /\ SnapshotSeenOrNewer'
  BY <1>1 DEF PoliciesInv, PolicyRowsOK, CreatingOK, OneActivePolicy, SnapshotSeenOrNewer,
              Existing, ActivePolicies, ActiveOf
<1> QED
  BY <1>3, <1>4 DEF PoliciesInv

\* The intent is evaluated, and later one policy is stored with it.
LEMMA CreatingSteps ==
    ASSUME PoliciesInv, EvaluatePolicies \/ ResolvePolicyVersionId
    PROVE  PoliciesInv'
<1>1. PolicyRowsOK /\ CreatingOK /\ UNCHANGED <<policy, editing, stale>> /\ MaxPolicies \in Nat
  BY PolicyVersionsAssumption DEF PoliciesInv, EvaluatePolicies, ResolvePolicyVersionId
<1>2. PolicyRowsOK' /\ EditingOK' /\ OneActivePolicy'
  BY <1>1 DEF PoliciesInv, PolicyRowsOK, EditingOK, OneActivePolicy, Existing, ActivePolicies, ActiveOf
<1>3. ActivePolicies' = ActivePolicies /\ Cardinality(Existing)' = Cardinality(Existing)
      /\ ActivePolicies \subseteq Policies
  BY <1>1 DEF ActivePolicies, Existing
<1>4. CASE EvaluatePolicies
  <2> DEFINE n == Cardinality(Existing)
  <2>1. /\ creating.pc = "evaluate"
        /\ creating' = [creating EXCEPT !.pc = "snapshot", !.evaluated = ActivePolicies, !.last = n]
    BY <1>4 DEF EvaluatePolicies
  <2>2. n \in 0 .. MaxPolicies
    <3>1. n \in Nat /\ Existing = 1 .. n /\ Existing \subseteq 1 .. MaxPolicies
      BY <1>1 DEF PolicyRowsOK, Existing, Policies
    <3>2. n = 0 \/ n \in 1 .. n
      BY <3>1
    <3>3. n = 0 \/ n \in 1 .. MaxPolicies
      BY <3>1, <3>2
    <3> QED
      BY <1>1, <3>1, <3>3
  <2> HIDE DEF n
  <2>3. /\ creating' \in [pc : {"evaluate", "snapshot", "stored"}, evaluated : SUBSET Policies,
                          last : 0 .. MaxPolicies, recorded : 0 .. MaxPolicies]
        /\ creating'.pc = "snapshot" /\ creating'.evaluated = ActivePolicies
        /\ creating'.last = n /\ creating'.recorded = creating.recorded
    BY <1>1, <1>3, <2>1, <2>2 DEF CreatingOK
  <2>4. creating.recorded = 0 /\ n <= n
    BY <1>1, <2>1, <2>2 DEF CreatingOK
  <2>5. CreatingOK'
    BY <1>3, <2>3, <2>4 DEF CreatingOK, n
  <2> QED
    BY <1>2, <2>3, <2>4, <2>5 DEF PoliciesInv, SnapshotSeenOrNewer
<1>5. CASE ResolvePolicyVersionId
  <2>1. PICK p \in 0 .. MaxPolicies :
          /\ p \in ActivePolicies \/ (p = 0 /\ ActivePolicies = {})
          /\ creating' = [creating EXCEPT !.pc = "stored", !.recorded = p]
    BY <1>5 DEF ResolvePolicyVersionId
  <2>2. creating.pc = "snapshot"
    BY <1>5 DEF ResolvePolicyVersionId
  <2>3. /\ creating' \in [pc : {"evaluate", "snapshot", "stored"}, evaluated : SUBSET Policies,
                          last : 0 .. MaxPolicies, recorded : 0 .. MaxPolicies]
        /\ creating'.pc = "stored" /\ creating'.evaluated = creating.evaluated
        /\ creating'.last = creating.last /\ creating'.recorded = p
    BY <1>1, <2>1 DEF CreatingOK
  <2>4. CreatingOK'
    BY <1>1, <1>3, <2>2, <2>3 DEF CreatingOK
  <2>5. p # 0 => p \in creating.evaluated \/ p > creating.last
    <3>1. creating.last \in Nat
      BY <1>1 DEF CreatingOK
    <3> QED
      BY <1>1, <2>1, <2>2, <3>1 DEF CreatingOK
  <2>6. SnapshotSeenOrNewer'
    BY <2>3, <2>5 DEF SnapshotSeenOrNewer
  <2> QED
    BY <1>2, <2>4, <2>6 DEF PoliciesInv
<1> QED
  BY <1>4, <1>5

LEMMA PoliciesKept == PoliciesInv /\ [PolicyVersionsNext]_policyVars => PoliciesInv'
<1> SUFFICES ASSUME PoliciesInv, [PolicyVersionsNext]_policyVars
             PROVE  PoliciesInv'
  OBVIOUS
<1>1. CASE UNCHANGED policyVars
  BY <1>1 DEF policyVars, PoliciesInv, PolicyRowsOK, EditingOK, CreatingOK, OneActivePolicy,
              SnapshotSeenOrNewer, Existing, ActivePolicies, ActiveOf
<1>2. CASE PolicyVersionsNext
  BY <1>2, EditSteps, CreateActiveKeeps, UpdateKeeps, ArchiveKeeps, CreatingSteps DEF PolicyVersionsNext
<1> QED
  BY <1>1, <1>2

LEMMA PoliciesStart == PolicyVersionsInit => PoliciesInv
<1> SUFFICES ASSUME PolicyVersionsInit
             PROVE  PoliciesInv
  OBVIOUS
<1>1. NoPolicy.status = "absent" /\ NotEditing.pc = "idle" /\ MaxPolicies \in Nat
  BY PolicyVersionsAssumption DEF NoPolicy, NotEditing
<1>2. Existing = {} /\ ActivePolicies = {} /\ Cardinality({}) = 0 /\ {} = 1 .. 0
  BY <1>1, FS_EmptySet DEF PolicyVersionsInit, Existing, ActivePolicies
<1>3. PolicyRowsOK
  BY <1>2 DEF PolicyRowsOK, PolicyVersionsInit
<1>4. EditingOK
  BY <1>1 DEF EditingOK, PolicyVersionsInit
<1>5. CreatingOK /\ SnapshotSeenOrNewer
  BY <1>1, <1>2 DEF CreatingOK, SnapshotSeenOrNewer, PolicyVersionsInit
<1>6. OneActivePolicy
  <2>1. \A scope : ActiveOf(scope) = {}
    BY <1>2 DEF ActiveOf
  <2> QED
    BY <1>2, <2>1 DEF OneActivePolicy, PolicyVersionsInit
<1> QED
  BY <1>3, <1>4, <1>5, <1>6 DEF PoliciesInv

(***************************************************************************)
(* A role has one active policy in a scope, and one more for each write on *)
(* a row that had changed since it was read.                               *)
(***************************************************************************)
THEOREM FewActive == PolicyVersionsSpec => []OneActivePolicy
<1>1. PoliciesInv => OneActivePolicy
  BY DEF PoliciesInv
<1> QED
  BY <1>1, PoliciesStart, PoliciesKept, PTL DEF PolicyVersionsSpec

(***************************************************************************)
(* The policy stored with an intent is one it was evaluated under, or one  *)
(* put in force after that.                                                *)
(***************************************************************************)
THEOREM SnapshotIsSound == PolicyVersionsSpec => []SnapshotSeenOrNewer
<1>1. PoliciesInv => SnapshotSeenOrNewer
  BY DEF PoliciesInv
<1> QED
  BY <1>1, PoliciesStart, PoliciesKept, PTL DEF PolicyVersionsSpec
-----------------------------------------------------------------------------
(***************************************************************************)
(* The merged decision is that of the strictest rule: the fold over the    *)
(* rules' requirements returns the largest number of approvers, whatever   *)
(* their order.                                                            *)
(***************************************************************************)
\* The fold over the results returns the largest count of approvers there is, or none.
LEMMA MostApprovers ==
    ASSUME NEW results, IsFiniteSet(DOMAIN results), DOMAIN results \subseteq Nat,
           \A k \in DOMAIN results : results[k].approval.approverCount \in Nat
    PROVE  /\ mergedApproval(results).approverCount \in Nat
           /\ \A k \in DOMAIN results :
                 results[k].approval.approverCount <= mergedApproval(results).approverCount
           /\ \/ mergedApproval(results).approverCount = 0
              \/ \E k \in DOMAIN results :
                    results[k].approval.approverCount = mergedApproval(results).approverCount
<1> DEFINE D == DOMAIN results
           asked == [k \in D |-> results[k].approval]
           Rec(it) == it = [s \in SUBSET D |->
                              IF s = {} THEN NoApproval
                              ELSE pickStricterApproval(it[s \ {Max(s)}], asked[Max(s)])]
           fold == CHOOSE it : Rec(it)
           Ids == {{}} \union {asked[k].approverRoleIds : k \in D}
           V == [approverCount : Nat, approverRoleIds : Ids]
           pick == [s \in SUBSET D |-> Max(s)]
           next == [p \in D \X V |-> pickStricterApproval(p[2], asked[p[1]])]
<1>1. mergedApproval(results) = fold[D]
  BY DEF mergedApproval, FoldLeft, MapThenFoldSet, Max
<1>2. \A s \in SUBSET D : s # {} => Max(s) \in s
  BY FS_Subset, Extremes
<1>3. \A k \in D : asked[k].approverCount \in Nat /\ asked[k].approverRoleIds \in Ids
  OBVIOUS
<1>4. NoApproval \in V
  BY DEF NoApproval
<1>5. \A k \in D : \A a \in V : pickStricterApproval(a, asked[k]) \in V
  BY <1>3 DEF pickStricterApproval
<1>6. /\ next \in [D \X V -> V]
      /\ \A k \in D : \A a \in V : next[<<k, a>>] = pickStricterApproval(a, asked[k])
  BY <1>5
<1>7. \A s \in SUBSET D : pick[s] = Max(s)
  OBVIOUS
<1>8. \E it : Rec(it)
  <2> HIDE DEF D, V, pick, next
  <2>1. PICK it \in [SUBSET D -> V] : Folds(it, D, NoApproval, pick, next)
    <3>1. IsFiniteSet(D)
      BY DEF D
    <3>2. \A s \in SUBSET D : s # {} => pick[s] \in s
      BY <1>2, <1>7
    <3> QED
      BY <1>4, <1>6, <3>1, <3>2, FoldExists
  <2>2. \A s \in SUBSET D :
           it[s] = IF s = {} THEN NoApproval
                   ELSE pickStricterApproval(it[s \ {Max(s)}], asked[Max(s)])
    <3>1. ASSUME NEW s \in SUBSET D, s # {}
          PROVE  it[s] = pickStricterApproval(it[s \ {Max(s)}], asked[Max(s)])
      <4>1. Max(s) \in D /\ s \ {Max(s)} \in SUBSET D
        BY <1>2, <3>1
      <4>2. it[s] = next[<<Max(s), it[s \ {Max(s)}]>>]
        BY <1>7, <2>1, <3>1 DEF Folds
      <4> QED
        BY <1>6, <2>1, <4>1, <4>2
    <3>2. it[{}] = NoApproval
      BY <2>1 DEF Folds
    <3> QED
      BY <3>1, <3>2
  <2>3. Rec(it)
    BY <2>2
  <2> QED
    BY <2>3
<1>9. Rec(fold)
  BY <1>8
<1> HIDE DEF fold, asked, V, pick, next
<1>10. /\ fold[{}] = NoApproval
       /\ \A s \in SUBSET D : s # {} =>
             fold[s] = pickStricterApproval(fold[s \ {Max(s)}], asked[Max(s)])
  <2>1. \A s \in SUBSET D :
           fold[s] = IF s = {} THEN NoApproval
                     ELSE pickStricterApproval(fold[s \ {Max(s)}], asked[Max(s)])
    BY <1>9
  <2> QED
    BY <2>1
<1> DEFINE n(s) == fold[s].approverCount
           G == {s \in SUBSET D :
                   /\ n(s) \in Nat
                   /\ \A k \in s : asked[k].approverCount <= n(s)
                   /\ n(s) = 0 \/ \E k \in s : asked[k].approverCount = n(s)}
<1>11. ASSUME NEW s \in SUBSET D, \A t \in SUBSET s : t # s => t \in G
       PROVE  s \in G
  <2>1. CASE s = {}
    BY <1>10, <2>1 DEF NoApproval
  <2>2. CASE s # {}
    <3>1. PICK m : m = Max(s)
      OBVIOUS
    <3>2. m \in s /\ m \in D /\ s \ {m} \in G
      BY <1>2, <1>11, <2>2, <3>1
    <3>3. n(s) = IF n(s \ {m}) > asked[m].approverCount THEN n(s \ {m})
                 ELSE asked[m].approverCount
      <4>1. fold[s] = pickStricterApproval(fold[s \ {m}], asked[m])
        BY <1>10, <2>2, <3>1
      <4>2. \A a, b : pickStricterApproval(a, b).approverCount =
                        IF a.approverCount > b.approverCount THEN a.approverCount
                        ELSE b.approverCount
        BY DEF pickStricterApproval
      <4> QED
        BY <4>1, <4>2
    <3>4. asked[m].approverCount \in Nat /\ \A k \in s : asked[k].approverCount \in Nat
      BY <1>3, <3>2
    <3>5. /\ n(s \ {m}) \in Nat
          /\ \A k \in s \ {m} : asked[k].approverCount <= n(s \ {m})
          /\ n(s \ {m}) = 0 \/ \E k \in s \ {m} : asked[k].approverCount = n(s \ {m})
      BY <3>2
    <3> HIDE DEF n
    <3>6. n(s) \in Nat /\ \A k \in s : asked[k].approverCount <= n(s)
      <4>1. n(s \ {m}) <= n(s) /\ asked[m].approverCount <= n(s) /\ n(s) \in Nat
        BY <3>2, <3>3, <3>4, <3>5
      <4>2. ASSUME NEW k \in s
            PROVE  asked[k].approverCount <= n(s)
        <5>1. CASE k = m
          BY <4>1, <5>1
        <5>2. CASE k # m
          <6>1. asked[k].approverCount <= n(s \ {m}) /\ asked[k].approverCount \in Nat
            BY <3>4, <3>5, <5>2
          <6> QED
            BY <3>5, <4>1, <6>1
        <5> QED
          BY <5>1, <5>2
      <4> QED
        BY <4>1, <4>2
    <3>7. n(s) = 0 \/ \E k \in s : asked[k].approverCount = n(s)
      BY <3>2, <3>3, <3>4, <3>5
    <3> QED
      BY <3>6, <3>7
  <2> QED
    BY <2>1, <2>2
<1> HIDE DEF G
<1>12. D \in G
  BY <1>11, SubsetInduction
<1>13. \A k \in D : asked[k].approverCount = results[k].approval.approverCount
  BY DEF asked
<1> QED
  BY <1>1, <1>12, <1>13 DEF G

\* The policy schema refuses a rule that requires approval by nobody.
RequirementsAskForSome ==
    \A r \in Rules : r.type = "require_approval" => r.approverCount \in Nat \ {0}

\* What one rule returns: a requirement of some approvers, or of none.
LEMMA OneResult ==
    ASSUME RequirementsAskForSome, NEW ctx, NEW rule \in Rules
    PROVE  /\ evaluateRule(ctx, rule).decision \in {"ALLOW", "REQUIRE_APPROVAL", "DENY"}
           /\ evaluateRule(ctx, rule).approval.approverCount \in Nat
           /\ evaluateRule(ctx, rule).decision = "REQUIRE_APPROVAL" <=>
                 evaluateRule(ctx, rule).approval.approverCount > 0
<1>1. CASE ~ Passes(ctx, rule)
  <2>1. evaluateRule(ctx, rule) = Deny
    BY <1>1 DEF evaluateRule
  <2> QED
    BY <2>1 DEF Deny, NoApproval
<1>2. CASE Passes(ctx, rule) /\ rule.type = "require_approval" /\ NeedsApproval(ctx)
  <2>1. evaluateRule(ctx, rule) =
           RequireApproval([approverCount   |-> rule.approverCount,
                            approverRoleIds |-> rule.approverRoleIds])
    BY <1>2 DEF evaluateRule
  <2>2. rule.approverCount \in Nat \ {0}
    BY <1>2 DEF RequirementsAskForSome
  <2> QED
    BY <2>1, <2>2 DEF RequireApproval
<1>3. CASE Passes(ctx, rule) /\ ~ (rule.type = "require_approval" /\ NeedsApproval(ctx))
  <2>1. evaluateRule(ctx, rule) = Allow
    BY <1>3 DEF evaluateRule
  <2> QED
    BY <2>1 DEF Allow, NoApproval
<1> QED
  BY <1>1, <1>2, <1>3

\* What a sequence of rules returns: the largest count of its results, if it
\* requires approval.
LEMMA MergedCount ==
    ASSUME RequirementsAskForSome, NEW ctx, NEW rs \in Seq(Rules),
           evaluate(ctx, rs).decision = "REQUIRE_APPROVAL"
    PROVE  LET n == evaluate(ctx, rs).approval.approverCount
           IN  /\ n \in Nat \ {0}
               /\ \A k \in DOMAIN rs : evaluateRule(ctx, rs[k]).approval.approverCount <= n
               /\ \E k \in DOMAIN rs : evaluateRule(ctx, rs[k]).approval.approverCount = n
<1> DEFINE results == Results(ctx, rs)
           merged == mergedApproval(results).approverCount
<1>1. DOMAIN results = DOMAIN rs /\ \A k \in DOMAIN rs : results[k] = evaluateRule(ctx, rs[k])
  BY DEF Results
<1>2. IsFiniteSet(DOMAIN rs) /\ DOMAIN rs \subseteq Nat
  <2>1. DOMAIN rs = 1 .. Len(rs) /\ Len(rs) \in Nat
    OBVIOUS
  <2> QED
    BY <2>1, FS_Interval
<1>3. \A k \in DOMAIN rs : rs[k] \in Rules
  OBVIOUS
<1>4. \A k \in DOMAIN rs :
         /\ results[k].approval.approverCount \in Nat
         /\ results[k].decision = "REQUIRE_APPROVAL" <=> results[k].approval.approverCount > 0
  BY <1>1, <1>3, OneResult
<1>5. evaluate(ctx, rs) = RequireApproval(mergedApproval(results))
  <2>1. rs # <<>> /\ ~ Returned(results, "DENY") /\ Returned(results, "REQUIRE_APPROVAL")
    BY DecisionIsMerged DEF evaluate, Allow
  <2> QED
    BY <2>1 DEF evaluate, mergeResults, Results
<1>6. evaluate(ctx, rs).approval.approverCount = merged
  BY <1>5 DEF RequireApproval
<1>7. PICK j \in DOMAIN rs : results[j].decision = "REQUIRE_APPROVAL"
  BY <1>1, DecisionIsMerged DEF Returned
<1> HIDE DEF results
<1>8. /\ merged \in Nat
      /\ \A k \in DOMAIN rs : results[k].approval.approverCount <= merged
      /\ \/ merged = 0
         \/ \E k \in DOMAIN rs : results[k].approval.approverCount = merged
  BY <1>1, <1>2, <1>4, MostApprovers
<1> HIDE DEF merged
<1>9. results[j].approval.approverCount > 0 /\ results[j].approval.approverCount \in Nat
  BY <1>4, <1>7
<1>10. merged # 0
  BY <1>7, <1>8, <1>9
<1> QED
  BY <1>1, <1>6, <1>8, <1>10

\* Alone, a rule decides what it returns, and asks for as many approvers.
LEMMA AloneIsItsResult ==
    ASSUME RequirementsAskForSome, NEW ctx, NEW rule \in Rules
    PROVE  /\ evaluate(ctx, <<rule>>).decision = evaluateRule(ctx, rule).decision
           /\ evaluate(ctx, <<rule>>).approval.approverCount =
                 evaluateRule(ctx, rule).approval.approverCount
<1> DEFINE rs == <<rule>>
<1>1. rs \in Seq(Rules) /\ DOMAIN rs = {1} /\ rs[1] = rule /\ rs # <<>>
  OBVIOUS
<1>2. /\ evaluateRule(ctx, rule).decision \in {"ALLOW", "REQUIRE_APPROVAL", "DENY"}
      /\ evaluateRule(ctx, rule).approval.approverCount \in Nat
      /\ evaluateRule(ctx, rule).decision = "REQUIRE_APPROVAL" <=>
            evaluateRule(ctx, rule).approval.approverCount > 0
  BY OneResult
<1> HIDE DEF rs
<1>3. \A d : Returned(Results(ctx, rs), d) <=> evaluateRule(ctx, rule).decision = d
  BY <1>1 DEF Returned, Results
<1>4. evaluate(ctx, rs).decision = evaluateRule(ctx, rule).decision
  BY <1>2, <1>3, DecisionIsMerged
<1>5. CASE evaluate(ctx, rs).decision = "REQUIRE_APPROVAL"
  <2>1. \E k \in DOMAIN rs :
           evaluateRule(ctx, rs[k]).approval.approverCount =
              evaluate(ctx, rs).approval.approverCount
    BY <1>1, <1>5, MergedCount
  <2> QED
    BY <1>1, <1>4, <2>1 DEF rs
<1>6. CASE evaluate(ctx, rs).decision # "REQUIRE_APPROVAL"
  <2>1. evaluateRule(ctx, rule).approval.approverCount = 0
    BY <1>2, <1>4, <1>6
  <2>2. evaluate(ctx, rs) \in {Allow, Deny}
    BY <1>6 DEF evaluate, mergeResults, RequireApproval
  <2>3. evaluate(ctx, rs).approval.approverCount = 0
    BY <2>2 DEF Allow, Deny, NoApproval
  <2> QED
    BY <1>4, <2>1, <2>3 DEF rs
<1> QED
  BY <1>5, <1>6

\* Whatever rules a member collects, and in whatever order: the decision is the
\* severest any of them would take alone, and the approvers are as many as the
\* strictest would ask for, never none.  Of the rules only the schema's minimum is used.
THEOREM StrictestWins ==
    ASSUME RequirementsAskForSome
    PROVE  OutcomeSpec => []StrictestRuleWins
<1>1. OutcomeInit => rules \in Seq(Rules)
  BY DEF OutcomeInit
<1>2. rules \in Seq(Rules) /\ [OutcomeNext]_outcomeVars => (rules \in Seq(Rules))'
  <2> SUFFICES ASSUME rules \in Seq(Rules), [OutcomeNext]_outcomeVars
               PROVE  rules' \in Seq(Rules)
    OBVIOUS
  <2>1. ASSUME NEW rule \in Rules, AddRule(rule)
        PROVE  rules' \in Seq(Rules)
    <3>1. PICK k \in 1 .. Len(rules) + 1 : rules' = InsertAt(rules, k, rule)
      BY <2>1 DEF AddRule
    <3>2. SubSeq(rules, 1, k - 1) \in Seq(Rules) /\ SubSeq(rules, k, Len(rules)) \in Seq(Rules)
      OBVIOUS
    <3>3. <<rule>> \in Seq(Rules)
      OBVIOUS
    <3> QED
      BY <3>1, <3>2, <3>3 DEF InsertAt
  <2>2. ASSUME NEW k \in DOMAIN rules, DropRule(k)
        PROVE  rules' \in Seq(Rules)
    <3>1. SubSeq(rules, 1, k - 1) \in Seq(Rules) /\ SubSeq(rules, k + 1, Len(rules)) \in Seq(Rules)
      OBVIOUS
    <3> QED
      BY <2>2, <3>1 DEF DropRule, RemoveAt
  <2> QED
    BY <2>1, <2>2 DEF OutcomeNext, outcomeVars
<1>3. rules \in Seq(Rules) => StrictestRuleWins
  <2> SUFFICES ASSUME rules \in Seq(Rules)
               PROVE  StrictestRuleWins
    OBVIOUS
  <2> DEFINE result(k) == evaluateRule(context, rules[k])
             alone(k) == evaluate(context, <<rules[k]>>)
  <2>1. \A k \in DOMAIN rules :
           /\ rules[k] \in Rules
           /\ alone(k).decision = result(k).decision
           /\ alone(k).approval.approverCount = result(k).approval.approverCount
           /\ result(k).decision \in {"ALLOW", "REQUIRE_APPROVAL", "DENY"}
    <3>1. \A k \in DOMAIN rules : rules[k] \in Rules
      OBVIOUS
    <3> QED
      BY <3>1, AloneIsItsResult, OneResult
  <2>2. \A d : Returned(Results(context, rules), d) <=>
                  \E k \in DOMAIN rules : result(k).decision = d
    BY DEF Returned, Results
  <2> HIDE DEF result, alone
  <2>3. Alone = {alone(k) : k \in DOMAIN rules}
    BY DEF Alone, alone
  <2>4. Outcome.decision =
           IF \E k \in DOMAIN rules : result(k).decision = "DENY" THEN "DENY"
           ELSE IF \E k \in DOMAIN rules : result(k).decision = "REQUIRE_APPROVAL"
           THEN "REQUIRE_APPROVAL" ELSE "ALLOW"
    BY <2>2, DecisionIsMerged DEF Outcome
  <2>5. ASSUME NEW r \in Alone
        PROVE  Severity[r.decision] <= Severity[Outcome.decision]
    <3>1. PICK k \in DOMAIN rules : r = alone(k)
      BY <2>3
    <3> QED
      BY <2>1, <2>4, <3>1 DEF Severity
  <2>6. ASSUME rules # <<>>
        PROVE  \E r \in Alone : r.decision = Outcome.decision
    <3>1. 1 \in DOMAIN rules
      BY <2>6
    <3>2. \E k \in DOMAIN rules : result(k).decision = Outcome.decision
      BY <2>1, <2>4, <3>1
    <3> QED
      BY <2>1, <2>3, <3>2
  <2>7. ASSUME Outcome.decision = "REQUIRE_APPROVAL"
        PROVE  /\ \A r \in Alone : r.approval.approverCount <= Outcome.approval.approverCount
               /\ \E r \in Alone : r.approval.approverCount = Outcome.approval.approverCount
               /\ Outcome.approval.approverCount > 0
    <3>1. /\ Outcome.approval.approverCount \in Nat \ {0}
          /\ \A k \in DOMAIN rules :
                result(k).approval.approverCount <= Outcome.approval.approverCount
          /\ \E k \in DOMAIN rules :
                result(k).approval.approverCount = Outcome.approval.approverCount
      BY <2>7, MergedCount DEF Outcome, result
    <3> QED
      BY <2>1, <2>3, <3>1
  <2> QED
    BY <2>5, <2>6, <2>7 DEF StrictestRuleWins
<1> QED
  BY <1>1, <1>2, <1>3, PTL DEF OutcomeSpec
=============================================================================

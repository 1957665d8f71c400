--------------------------- MODULE PolicyVersions ---------------------------
(***************************************************************************)
(* The policies that apply to one member.  A policy is changed by          *)
(* archiving its row and adding another with the next version, in one      *)
(* transaction, but on the strength of a row read earlier.  Creating an    *)
(* intent reads the active policies to evaluate them, and later reads one  *)
(* of them again to store its id with the intent.                          *)
(***************************************************************************)
EXTENDS Naturals, FiniteSets

CONSTANTS
    Scopes,         \* a role of the member, with this wallet or with all of them
    RoleOf,         \* the role in each
    Unscoped,       \* those with all wallets
    Editors,        \* admin requests that may be in flight at once
    MaxPolicies     \* bound: rows of policies, numbered in the order of updatedAt

ASSUME PolicyVersionsAssumption == MaxPolicies \in Nat /\ Unscoped \subseteq Scopes

VARIABLES
    policy,     \* the policies rows
    editing,    \* the admin requests
    creating,   \* the creation of one intent
    stale       \* history: writes on the strength of a row that had changed

policyVars == <<policy, editing, creating, stale>>
-----------------------------------------------------------------------------
Policies == 1 .. MaxPolicies

NoPolicy == [status |-> "absent"]

NotEditing == [pc |-> "idle"]

Roles == {RoleOf[scope] : scope \in Scopes}

PolicyVersionsTypeOK ==
    /\ policy \in [Policies -> {NoPolicy} \union
          [status : {"active", "archived"}, scope : Scopes, version : Policies]]
    /\ editing \in [Editors ->
          {NotEditing}
          \union [pc : {"list"}, role : Roles]
          \union [pc : {"ask_create", "create"}, scope : Scopes]
          \union [pc : {"ask_update", "update", "archive"}, policy : Policies]]
    /\ creating \in [pc : {"evaluate", "snapshot", "stored"}, evaluated : SUBSET Policies,
                     last : 0 .. MaxPolicies, recorded : 0 .. MaxPolicies]
    /\ stale \in Nat

ActivePolicies == {p \in Policies : policy[p].status = "active"}

ActiveOf(scope) == {p \in ActivePolicies : policy[p].scope = scope}

Existing == {p \in Policies : policy[p] # NoPolicy}

NextPolicy == Cardinality(Existing) + 1

Edit(e, frame) == editing' = [editing EXCEPT ![e] = frame]

NewPolicy(scope, version) == [status |-> "active", scope |-> scope, version |-> version]
-----------------------------------------------------------------------------
(* The edit page; other clients begin with the request they mean *)

\* handleSubmit does not wait for the page's earlier submits.
HandleSubmit(e, role) ==
    /\ editing[e] = NotEditing
    /\ Edit(e, [pc |-> "list", role |-> role])
    /\ UNCHANGED <<policy, creating, stale>>

\* The page updates the role's latest active policy, whichever wallet that is for,
\* and creates one for all wallets if there is none.
ListPolicies(e) ==
    /\ editing[e].pc = "list"
    /\ LET listed == {p \in ActivePolicies : RoleOf[policy[p].scope] = editing[e].role}
       IN  \/ \E p \in listed :
                 /\ \A q \in listed : policy[q].version <= policy[p].version
                 /\ Edit(e, [pc |-> "ask_update", policy |-> p])
           \/ /\ listed = {}
              /\ \E scope \in Unscoped : /\ RoleOf[scope] = editing[e].role
                                         /\ Edit(e, [pc |-> "ask_create", scope |-> scope])
    /\ UNCHANGED <<policy, creating, stale>>
-----------------------------------------------------------------------------
(* PolicyService.createForRole *)

BeginCreatePolicy(e, scope) ==
    /\ editing[e] \in {NotEditing, [pc |-> "ask_create", scope |-> scope]}
    /\ ActiveOf(scope) = {}
    /\ Edit(e, [pc |-> "create", scope |-> scope])
    /\ UNCHANGED <<policy, creating, stale>>

CreateActive(e) ==
    /\ editing[e].pc = "create"
    /\ NextPolicy \in Policies
    /\ policy' = [policy EXCEPT ![NextPolicy] = NewPolicy(editing[e].scope, 1)]
    /\ stale' = IF ActiveOf(editing[e].scope) = {} THEN stale ELSE stale + 1
    /\ Edit(e, NotEditing)
    /\ UNCHANGED creating
-----------------------------------------------------------------------------
(* PolicyService.updatePolicy, archivePolicy *)

\* The row is read twice, for its organization and for its status; the first time
\* its status is not looked at.
BeginUpdatePolicy(e, p) ==
    /\ editing[e] \in {NotEditing, [pc |-> "ask_update", policy |-> p]}
    /\ p \in ActivePolicies
    /\ Edit(e, [pc |-> "update", policy |-> p])
    /\ UNCHANGED <<policy, creating, stale>>

\* Mutation: the version that is replaced stays active.
ArchiveAndCreateVersion_Add(e) ==
    /\ editing[e].pc = "update"
    /\ NextPolicy \in Policies
    /\ LET p == editing[e].policy
       IN  /\ policy' = [policy EXCEPT
                 ![NextPolicy] = NewPolicy(policy[p].scope, policy[p].version + 1)]
           /\ stale' = IF p \in ActivePolicies THEN stale ELSE stale + 1
    /\ Edit(e, NotEditing)
    /\ UNCHANGED creating

\* Mutation: the next number is taken from the rows there are as well.
ArchiveAndCreateVersion_Skip(e) ==
    /\ editing[e].pc = "update"
    /\ NextPolicy \in Policies
    /\ LET p == editing[e].policy
       IN  /\ policy' = [policy EXCEPT
                 ![p].status = "archived",
                 ![NextPolicy] = NewPolicy(policy[p].scope, policy[p].version + NextPolicy)]
           /\ stale' = IF p \in ActivePolicies THEN stale ELSE stale + 1
    /\ Edit(e, NotEditing)
    /\ UNCHANGED creating

\* Archived again if it was archived meanwhile, and a version added all the same.
ArchiveAndCreateVersion(e) ==
    /\ editing[e].pc = "update"
    /\ NextPolicy \in Policies
    /\ LET p == editing[e].policy
       IN  /\ policy' = [policy EXCEPT
                 ![p].status = "archived",
                 ![NextPolicy] = NewPolicy(policy[p].scope, policy[p].version + 1)]
           /\ stale' = IF p \in ActivePolicies THEN stale ELSE stale + 1
    /\ Edit(e, NotEditing)
    /\ UNCHANGED creating

\* One that is archived already is answered as it is (EditFails).
BeginArchivePolicy(e, p) ==
    /\ editing[e] = NotEditing
    /\ p \in ActivePolicies
    /\ Edit(e, [pc |-> "archive", policy |-> p])
    /\ UNCHANGED <<policy, creating, stale>>

ArchiveById(e) ==
    /\ editing[e].pc = "archive"
    /\ policy' = [policy EXCEPT ![editing[e].policy].status = "archived"]
    /\ Edit(e, NotEditing)
    /\ UNCHANGED <<creating, stale>>

\* POLICY_ALREADY_EXISTS, POLICY_NOT_ACTIVE, a caller who is no admin, an await that
\* rejects, or the end of the process.
EditFails(e) ==
    /\ editing[e] # NotEditing
    /\ Edit(e, NotEditing)
    /\ UNCHANGED <<policy, creating, stale>>
-----------------------------------------------------------------------------
(* IntentService.create *)

EvaluatePolicies ==
    /\ creating.pc = "evaluate"
    /\ creating' = [creating EXCEPT !.pc = "snapshot", !.evaluated = ActivePolicies,
                                    !.last = Cardinality(Existing)]
    /\ UNCHANGED <<policy, editing, stale>>

\* Mutation: the latest row, whatever its status.
ResolvePolicyVersionId_Any ==
    /\ creating.pc = "snapshot"
    /\ creating' = [creating EXCEPT !.pc = "stored", !.recorded = Cardinality(Existing)]
    /\ UNCHANGED <<policy, editing, stale>>

\* The most recently updated active one, or none.
ResolvePolicyVersionId ==
    /\ creating.pc = "snapshot"
    /\ \E p \in 0 .. MaxPolicies :
          /\ p \in ActivePolicies \/ (p = 0 /\ ActivePolicies = {})
          /\ \A q \in ActivePolicies : q <= p
          /\ creating' = [creating EXCEPT !.pc = "stored", !.recorded = p]
    /\ UNCHANGED <<policy, editing, stale>>
-----------------------------------------------------------------------------
PolicyVersionsInit ==
    /\ policy = [p \in Policies |-> NoPolicy]
    /\ editing = [e \in Editors |-> NotEditing]
    /\ creating = [pc |-> "evaluate", evaluated |-> {}, last |-> 0, recorded |-> 0]
    /\ stale = 0

PolicyVersionsNext ==
    \/ \E e \in Editors :
          \/ \E role \in Roles : HandleSubmit(e, role)
          \/ ListPolicies(e)
          \/ \E scope \in Scopes : BeginCreatePolicy(e, scope)
          \/ \E p \in Policies : BeginUpdatePolicy(e, p) \/ BeginArchivePolicy(e, p)
          \/ CreateActive(e) \/ ArchiveAndCreateVersion(e) \/ ArchiveById(e) \/ EditFails(e)
    \/ EvaluatePolicies \/ ResolvePolicyVersionId

PolicyVersionsSpec == PolicyVersionsInit /\ [][PolicyVersionsNext]_policyVars
-----------------------------------------------------------------------------
(* Properties *)

\* POLICY_ALREADY_EXISTS: a role has one active policy in a scope, and one more
\* for each write made on a row that had changed since it was read.
OneActivePolicy ==
    \A scope \in Scopes : Cardinality(ActiveOf(scope)) <= 1 + stale

\* The policy stored with an intent is one it was evaluated under, or was put in
\* force after that: an edit in between may replace it, but nothing older is stored.
SnapshotSeenOrNewer ==
    creating.recorded # 0 =>
        creating.recorded \in creating.evaluated \/ creating.recorded > creating.last
=============================================================================

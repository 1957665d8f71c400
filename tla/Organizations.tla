---------------------------- MODULE Organizations ---------------------------
(***************************************************************************)
(* How a user comes by an organization.  useActiveOrg lists the user's     *)
(* organizations and creates one if there is none; an effect that is run   *)
(* again, or a page that is left, does not stop the run before; the team   *)
(* page does the same, and again after it deactivated a member.  Creating  *)
(* is one transaction, but for the audit event, which is inserted on a     *)
(* connection of its own while the transaction is open.  One user, who is  *)
(* in no organization but their own.                                       *)
(***************************************************************************)
EXTENDS Naturals, FiniteSets

CONSTANTS
    Runs,       \* runs of the effect and loads of the team page, in all tabs
    Orgs,       \* organization ids
    Templates,  \* DEFAULT_ROLE_TEMPLATES
    Fixtures    \* the templates that have a fixture of policies

ASSUME OrgsAssumption ==
    /\ IsFiniteSet(Runs)
    /\ Fixtures \subseteq Templates

VARIABLES
    run,        \* the runs, each with the request it waits for
    org,        \* the organizations that are committed, and what belongs to each
    deactivated,    \* the organizations in which the user's row is deactivated
    orgCreated, \* organizations with an org.created event
    behind      \* history: runs that had found none when the user last came by a first one

orgVars == <<run, org, deactivated, orgCreated, behind>>
-----------------------------------------------------------------------------
NotRun == [pc |-> "unmounted"]

OrgRecords == [admin : BOOLEAN, roles : SUBSET Templates, policies : SUBSET Templates]

NewOrg == [admin |-> TRUE, roles |-> {}, policies |-> {}]

RunRecords ==
    {NotRun}
    \union [pc : {"list", "post", "failed"}, cancelled : BOOLEAN]
    \union [pc : {"seed_roles", "seed_policies", "audit", "commit"}, cancelled : BOOLEAN,
            id : Orgs, org : OrgRecords]
    \union [pc : {"done"}, cancelled : BOOLEAN, shown : Orgs \union {"none"}]

Committed == DOMAIN org

\* Those the user is an active member of.
Mine == Committed \ deactivated

OrgsTypeOK ==
    /\ run \in [Runs -> RunRecords]
    /\ Committed \subseteq Orgs
    /\ \A o \in Committed : org[o] \in OrgRecords
    /\ deactivated \subseteq Committed
    /\ orgCreated \subseteq Orgs
    /\ behind \subseteq Runs

RunAt(r, step) == run[r].pc = step

\* In a transaction that is open.
InTransaction == {r \in Runs : run[r].pc \in {"seed_roles", "seed_policies", "audit", "commit"}}
-----------------------------------------------------------------------------
(* useActiveOrg *)

MountOrgHook(r) ==
    /\ run[r] = NotRun
    /\ run' = [run EXCEPT ![r] = [pc |-> "list", cancelled |-> FALSE]]
    /\ UNCHANGED <<org, deactivated, orgCreated, behind>>

\* The answers of a cancelled run are not shown, but its requests go on.
CancelRun(r) ==
    /\ run[r] # NotRun
    /\ ~ run[r].cancelled
    /\ run' = [run EXCEPT ![r].cancelled = TRUE]
    /\ UNCHANGED <<org, deactivated, orgCreated, behind>>

EndRun(r, o) ==
    run' = [run EXCEPT ![r] = [pc |-> "done", cancelled |-> @.cancelled,
                               shown |-> IF @.cancelled THEN "none" ELSE o]]

\* Mutation: a run that was cancelled, or follows one, creates without looking.
ListForUser_Once(r) ==
    /\ RunAt(r, "list")
    /\ run' = [run EXCEPT ![r].pc = "post"]
    /\ UNCHANGED <<org, deactivated, orgCreated, behind>>

\* The newest comes first; which one that is is left open.
ListForUser(r) ==
    /\ RunAt(r, "list")
    /\ \/ /\ Mine = {}
          /\ run' = [run EXCEPT ![r].pc = "post"]
       \/ \E o \in Mine : EndRun(r, o)
    /\ UNCHANGED <<org, deactivated, orgCreated, behind>>

RunFails(r) ==
    /\ RunAt(r, "list") \/ RunAt(r, "post") \/ r \in InTransaction
    /\ run' = [run EXCEPT ![r] = [pc |-> "failed", cancelled |-> @.cancelled]]
    /\ UNCHANGED <<org, deactivated, orgCreated, behind>>
-----------------------------------------------------------------------------
(* OrgService.createOrganization; what a transaction has written is its own *)
(* until it commits, and gone when it fails                                 *)

CreateOrganization(r, o) ==
    /\ RunAt(r, "post")
    /\ o \notin Committed \union orgCreated \union {run[q].id : q \in InTransaction}
    /\ run' = [run EXCEPT ![r] = [pc |-> "seed_roles", cancelled |-> @.cancelled,
                                  id |-> o, org |-> NewOrg]]
    /\ UNCHANGED <<org, deactivated, orgCreated, behind>>

SeedRoles(r) ==
    /\ RunAt(r, "seed_roles")
    /\ run' = [run EXCEPT ![r].pc = "seed_policies", ![r].org.roles = Templates]
    /\ UNCHANGED <<org, deactivated, orgCreated, behind>>

\* Mutation: the event is left to be appended after the transaction.
SeedPolicies_EventLater(r) ==
    /\ RunAt(r, "seed_policies")
    /\ run' = [run EXCEPT ![r].pc = "commit", ![r].org.policies = Fixtures \intersect run[r].org.roles]
    /\ UNCHANGED <<org, deactivated, orgCreated, behind>>

\* Fixture by fixture, for the roles that are there.
SeedPolicies(r) ==
    /\ RunAt(r, "seed_policies")
    /\ run' = [run EXCEPT ![r].pc = "audit", ![r].org.policies = Fixtures \intersect run[r].org.roles]
    /\ UNCHANGED <<org, deactivated, orgCreated, behind>>

AppendOrgCreated(r) ==
    /\ RunAt(r, "audit")
    /\ orgCreated' = orgCreated \union {run[r].id}
    /\ run' = [run EXCEPT ![r].pc = "commit"]
    /\ UNCHANGED <<org, deactivated, behind>>

Commit(r) ==
    /\ RunAt(r, "commit")
    /\ org' = [o \in Committed \union {run[r].id} |->
                  IF o = run[r].id THEN run[r].org ELSE org[o]]
    /\ EndRun(r, run[r].id)
    /\ behind' = IF Mine = {} THEN {q \in Runs \ {r} : RunAt(q, "post") \/ q \in InTransaction}
                 ELSE behind
    /\ UNCHANGED <<deactivated, orgCreated>>
-----------------------------------------------------------------------------
\* InviteController.deactivate: any member may, themselves included.
DeactivateUser(o) ==
    /\ o \in Mine
    /\ deactivated' = deactivated \union {o}
    /\ UNCHANGED <<run, org, orgCreated, behind>>

OrgsInit ==
    /\ run = [r \in Runs |-> NotRun]
    /\ org = [o \in {} |-> NewOrg]
    /\ deactivated = {}
    /\ orgCreated = {}
    /\ behind = {}

OrgsNext ==
    \/ \E r \in Runs :
          \/ MountOrgHook(r) \/ CancelRun(r) \/ ListForUser(r) \/ RunFails(r)
          \/ \E o \in Orgs : CreateOrganization(r, o)
          \/ SeedRoles(r) \/ SeedPolicies(r) \/ AppendOrgCreated(r) \/ Commit(r)
    \/ \E o \in Orgs : DeactivateUser(o)

OrgsSpec == OrgsInit /\ [][OrgsNext]_orgVars
-----------------------------------------------------------------------------
(* Properties *)

\* An organization is never half made: with the first row that is seen of it there
\* are its admin, every role, a policy for each fixture and its audit event, though
\* the event is inserted outside the transaction (and may outlive one that fails).
\* And a user gets no second one from coming back: only the runs that had found none
\* when the first was committed can still add theirs.
OneCompleteOrg ==
    /\ \A o \in Committed :
          /\ org[o].admin /\ org[o].roles = Templates /\ org[o].policies = Fixtures
          /\ o \in orgCreated
    /\ Cardinality(Mine) <= 1 + Cardinality({r \in behind : RunAt(r, "done")})
=============================================================================

---------------------------- MODULE RequestGuards ---------------------------
(***************************************************************************)
(* What stands between a request and its handler: the guards its route     *)
(* declares, the controller's before the method's, each with reads of its  *)
(* own, while other requests deactivate members, end their roles and       *)
(* revoke API keys.  A guard that passes leaves a member on the request,   *)
(* and the handler acts as that member without looking again.              *)
(***************************************************************************)
EXTENDS Integers, Sequences, FiniteSets

CONSTANTS
    Orgs,       \* organizations
    Members,    \* member rows, numbered in the order of their role assignments
    MemberOrg,  \* the organization of each
    Admins,     \* the members that are org admins
    Keys,       \* API keys, of one role
    Guarded     \* requests that may be in flight at once

ASSUME GuardsAssumption ==
    /\ Members \subseteq Nat \ {0}
    /\ MemberOrg \in [Members -> Orgs]
    /\ IsFiniteSet(Guarded)
    /\ Keys \intersect Members = {}
    /\ 0 \notin Keys

VARIABLES
    active,     \* members whose row is active
    holders,    \* members with an active assignment of the keys' role
    key,        \* the api_keys rows
    request,    \* the requests
    ended,      \* history: members deactivated and keys revoked
    overtaken   \* history: how many requests were bound to each at that moment, less
                \* those handled since

guardVars == <<active, holders, key, request, ended, overtaken>>
-----------------------------------------------------------------------------
Routes == {"create_policy", "deactivate", "create_key", "revoke_key", "list_intents",
           "create_intent", "create_intent_by_method"}

\* As the controllers declare them.  The last is the intent route by the guards
\* of its method alone: the class puts JwtAuthGuard in front of them.
GuardsOf(route) ==
    CASE route = "create_policy"           -> <<"jwt", "org_member", "org_admin">>
      [] route = "create_intent"           -> <<"jwt", "jwt_or_api_key", "org_member">>
      [] route = "create_intent_by_method" -> <<"jwt_or_api_key", "org_member">>
      [] OTHER                             -> <<"jwt", "org_member">>

NoRequest == [pc |-> "idle"]

Subjects == Members \union Keys

GuardNames == {"jwt", "jwt_or_api_key", "org_member", "org_admin"}

\* key and member are the ones the request is bound to so far, 0 for none.
RequestRecords ==
    {NoRequest}
    \union [pc : {"guards", "key_touched", "handle"}, route : Routes, left : Seq(GuardNames),
            org : Orgs, bearer : Subjects, key : Keys \union {0}, member : Members \union {0}]
    \union [pc : {"revoke_row"}, target : Keys, key : {0}, member : Members]

KeyRows == [state : {"absent"}] \union [state : {"live", "revoked"}, org : Orgs]

GuardsTypeOK ==
    /\ active \subseteq Members
    /\ holders \subseteq Members
    /\ key \in [Keys -> KeyRows]
    /\ request \in [Guarded -> RequestRecords]
    /\ ended \subseteq Subjects
    /\ overtaken \in [Subjects -> Int]

Bound(x) == {c \in Guarded : request[c] # NoRequest /\ x \in {request[c].key, request[c].member}}

Serves(c, route) == request[c].pc = "handle" /\ request[c].route = route

\* The next guard of c.
Faces(c, guard) ==
    /\ request[c].pc = "guards"
    /\ request[c].left # <<>>
    /\ Head(request[c].left) = guard

PastGuard(r) == [r EXCEPT !.left = Tail(@), !.pc = IF Len(r.left) = 1 THEN "handle" ELSE "guards"]
-----------------------------------------------------------------------------
(* The guards *)

\* The bearer is an access token of a member's user, or an API key.
Receive(c, route, o, b) ==
    /\ request[c] = NoRequest
    /\ b \in Keys => key[b].state # "absent"
    /\ request' = [request EXCEPT ![c] =
          [pc |-> "guards", route |-> route, left |-> GuardsOf(route), org |-> o,
           bearer |-> b, key |-> 0, member |-> 0]]
    /\ UNCHANGED <<active, holders, key, ended, overtaken>>

\* The token's user is found; an API key is no JWT, and ends as Refused.
JwtAuthGuard(c) ==
    /\ Faces(c, "jwt") \/ Faces(c, "jwt_or_api_key")
    /\ request[c].bearer \in Members
    /\ request' = [request EXCEPT ![c] = PastGuard(@)]
    /\ UNCHANGED <<active, holders, key, ended, overtaken>>

\* Mutation: revoked keys are found as well.
ValidateBearerToken_Revoked(c) ==
    /\ Faces(c, "jwt_or_api_key")
    /\ request[c].bearer \in Keys
    /\ request' = [request EXCEPT ![c].pc = "key_touched", ![c].key = request[c].bearer]
    /\ UNCHANGED <<active, holders, key, ended, overtaken>>

\* The key is found by its prefix among those not revoked; verifying its hash and
\* writing lastUsedAt are awaits that come after.
ValidateBearerToken(c) ==
    /\ Faces(c, "jwt_or_api_key")
    /\ request[c].bearer \in Keys
    /\ key[request[c].bearer].state = "live"
    /\ request' = [request EXCEPT ![c].pc = "key_touched", ![c].key = request[c].bearer]
    /\ UNCHANGED <<active, holders, key, ended, overtaken>>

\* The rest of ApiKeyAuthGuard: the key's organization, and the first member that
\* holds its role.  Its rate window is in RateLimits.
ApiKeyAuthGuard(c) ==
    /\ request[c].pc = "key_touched"
    /\ LET k == request[c].key
       IN  /\ key[k].org = request[c].org
           /\ \E m \in holders \intersect active :
                 /\ MemberOrg[m] = key[k].org
                 /\ \A n \in holders \intersect active : MemberOrg[n] = key[k].org => m <= n
                 /\ request' = [request EXCEPT ![c] = [PastGuard(@) EXCEPT !.member = m]]
    /\ UNCHANGED <<active, holders, key, ended, overtaken>>

\* A member bound by a key is taken as it is.
OrgMemberGuard(c) ==
    /\ Faces(c, "org_member")
    /\ LET r == request[c]
       IN  \/ /\ r.key # 0 /\ key[r.key].org = r.org
              /\ request' = [request EXCEPT ![c] = PastGuard(r)]
           \/ /\ r.key = 0 /\ r.bearer \in active /\ MemberOrg[r.bearer] = r.org
              /\ request' = [request EXCEPT ![c] = [PastGuard(r) EXCEPT !.member = r.bearer]]
    /\ UNCHANGED <<active, holders, key, ended, overtaken>>

OrgAdminGuard(c) ==
    /\ Faces(c, "org_admin")
    /\ request[c].bearer \in active \intersect Admins
    /\ MemberOrg[request[c].bearer] = request[c].org
    /\ request' = [request EXCEPT ![c] = PastGuard(@)]
    /\ UNCHANGED <<active, holders, key, ended, overtaken>>

\* A guard refuses, an await rejects or the process dies.
Refused(c) ==
    /\ request[c] # NoRequest
    /\ request' = [request EXCEPT ![c] = NoRequest]
    /\ UNCHANGED <<active, holders, key, ended, overtaken>>
-----------------------------------------------------------------------------
(* The handlers *)

Handled(c) ==
    /\ request' = [request EXCEPT ![c] = NoRequest]
    /\ overtaken' = [x \in Subjects |->
                        IF x \in ended /\ c \in Bound(x) THEN overtaken[x] - 1 ELSE overtaken[x]]

\* As Handled, and x is ended by it.
HandledEnding(c, x) ==
    /\ request' = [request EXCEPT ![c] = NoRequest]
    /\ ended' = ended \union {x}
    /\ overtaken' = [y \in Subjects |->
                        IF y = x /\ x \notin ended THEN Cardinality(Bound(x) \ {c})
                        ELSE IF y \in ended /\ c \in Bound(y) THEN overtaken[y] - 1
                        ELSE overtaken[y]]

\* Intents and policies have modules of their own.
HandleElsewhere(c) ==
    /\ \E route \in {"create_policy", "list_intents", "create_intent", "create_intent_by_method"} :
          Serves(c, route)
    /\ Handled(c)
    /\ UNCHANGED <<active, holders, key, ended>>

CreateKey(c, k) ==
    /\ Serves(c, "create_key")
    /\ key[k].state = "absent"
    /\ key' = [key EXCEPT ![k] = [state |-> "live", org |-> request[c].org]]
    /\ Handled(c)
    /\ UNCHANGED <<active, holders, ended>>

\* ApiKeysService.revoke finds the row, and then updates it by its id.
FindKey(c, k) ==
    /\ Serves(c, "revoke_key")
    /\ key[k].state = "live" /\ key[k].org = request[c].org
    /\ request' = [request EXCEPT ![c] =
          [pc |-> "revoke_row", target |-> k, key |-> 0, member |-> request[c].member]]
    /\ UNCHANGED <<active, holders, key, ended, overtaken>>

RevokeKey(c) ==
    /\ request[c].pc = "revoke_row"
    /\ key' = [key EXCEPT ![request[c].target].state = "revoked"]
    /\ HandledEnding(c, request[c].target)
    /\ UNCHANGED <<active, holders>>

\* Any member of the organization may deactivate any other, and itself.
DeactivateMember(c, m) ==
    /\ Serves(c, "deactivate")
    /\ MemberOrg[m] = request[c].org
    /\ active' = active \ {m}
    /\ HandledEnding(c, m)
    /\ UNCHANGED <<holders, key>>

RoleGiven(m) ==
    /\ m \notin holders
    /\ holders' = holders \union {m}
    /\ UNCHANGED <<active, key, request, ended, overtaken>>

RoleEnds(m) ==
    /\ m \in holders
    /\ holders' = holders \ {m}
    /\ UNCHANGED <<active, key, request, ended, overtaken>>
-----------------------------------------------------------------------------
GuardsInit ==
    /\ active = Members
    /\ holders = {}
    /\ key = [k \in Keys |-> [state |-> "absent"]]
    /\ request = [c \in Guarded |-> NoRequest]
    /\ ended = {}
    /\ overtaken = [x \in Subjects |-> 0]

Guard(c) ==
    \/ \E route \in Routes, o \in Orgs, b \in Subjects : Receive(c, route, o, b)
    \/ JwtAuthGuard(c) \/ ValidateBearerToken(c) \/ ApiKeyAuthGuard(c)
    \/ OrgMemberGuard(c) \/ OrgAdminGuard(c) \/ Refused(c)

Serve(c) ==
    \/ HandleElsewhere(c)
    \/ \E k \in Keys : CreateKey(c, k) \/ FindKey(c, k)
    \/ RevokeKey(c)
    \/ \E m \in Members : DeactivateMember(c, m)

GuardsNext ==
    \/ \E c \in Guarded : Guard(c) \/ Serve(c)
    \/ \E m \in Members : RoleGiven(m) \/ RoleEnds(m)

GuardsSpec == GuardsInit /\ [][GuardsNext]_guardVars
-----------------------------------------------------------------------------
(* Properties *)

\* A revoked key or a deactivated member stops: after that moment it is handled
\* in no more requests than had by then passed the read of it, whether it is
\* revoked again, its slots are used again, or its role passes to another.
EndedStops ==
    \A x \in ended : Cardinality(Bound(x)) <= overtaken[x]

\* intent.controller: "Create a transfer or deploy intent (JWT or API key)": a
\* key that is good, or can be, is not refused before its guard looks at it.
KeysReachTheirGuard ==
    \A c \in Guarded :
        /\ request[c].pc = "guards"
        /\ request[c].route = "create_intent"
        /\ request[c].bearer \in Keys
        => ~ Faces(c, "jwt")
=============================================================================

-------------------------- MODULE MCServicesProofs ---------------------------
(***************************************************************************)
(* The services side by side: what is proved of each of them holds in the  *)
(* run that picks one, because a behaviour of the run is a behaviour of    *)
(* every part, one that does nothing for those that were not picked.       *)
(***************************************************************************)
EXTENDS MCServices, AccessControlProofs, BrowserProofs, PolicyProofs, ServicesProofs

\* A step of the run is a step of any one part, or leaves its state.  First sessions
\* and role assignments, which also run together.
LEMMA AccessParts ==
    ASSUME [Next]_servicesVars
    PROVE  [UserNext \/ RevokeByUser]_sessionVars /\ [AssignmentsNext]_roleVars
<1>1. CASE service = "access" /\ AccessStep
  BY <1>1, AccessSteps DEF AccessStep
<1>2. CASE service = "assignments" /\ AssignmentsStep
  BY <1>2 DEF AssignmentsStep
<1>3. CASE service = "sessions" /\ SessionsStep
  BY <1>3 DEF SessionsStep
<1>4. CASE UNCHANGED accessVars
  BY <1>4 DEF accessVars
<1> QED
  BY <1>1, <1>2, <1>3, <1>4 DEF Next, servicesVars

\* The services that keep rows, and the state of the API.
LEMMA ServicesParts ==
    ASSUME [Next]_servicesVars
    PROVE  /\ [AccountsNext]_accountVars
           /\ [OrgsNext]_orgVars
           /\ [InvitationsNext]_inviteVars
           /\ [WalletsNext]_walletVars
           /\ [PolicyVersionsNext]_policyVars
           /\ [AuditNext]_auditVars
           /\ [AuditExportsNext]_exportVars
           /\ [IdempotencyNext]_idempotencyVars
           /\ [RemindersNext]_reminderVars
           /\ [LockoutNext]_lockoutVars
BY DEF Next, servicesVars, OrgsStep, PoliciesStep, AuditStep, ExportsStep

\* The pages of the web application.
LEMMA PagesParts ==
    ASSUME [Next]_servicesVars
    PROVE  /\ [InboxNext]_inboxVars
           /\ [WebNext]_webVars
           /\ [IntentPageNext]_intentPageVars
BY DEF Next, servicesVars, InboxStep, PageStep

\* Roles and sessions together, in the behaviours that run them.
LEMMA AccessPart ==
    ASSUME service = "access", [Next]_servicesVars
    PROVE  service' = "access" /\ [AccessNext]_accessVars
BY DEF Next, servicesVars, AccessStep
-----------------------------------------------------------------------------
\* Everything proved of the specification of a part is true of the run, whose bounds
\* take steps away from the part and never add one.
THEOREM RunsOfServices ==
    Spec => /\ AssignmentsSpec /\ SessionsSpec
            /\ AccountsSpec /\ LockoutSpec
            /\ OrgsSpec /\ InvitationsSpec
            /\ WalletsSpec /\ PolicyVersionsSpec
            /\ AuditSpec /\ AuditExportsSpec
            /\ IdempotencySpec /\ RemindersSpec
            /\ WebSpec /\ InboxSpec /\ IntentPageSpec
<1>1. Init => /\ AssignmentsInit /\ SessionsInit
              /\ AccountsInit /\ LockoutInit
              /\ OrgsInit /\ InvitationsInit
              /\ WalletsInit /\ PolicyVersionsInit
              /\ AuditInit /\ AuditExportsInit
              /\ IdempotencyInit /\ RemindersInit
              /\ WebInit /\ InboxInit /\ IntentPageInit
  BY DEF Init, AccessInit
<1> QED
  BY <1>1, AccessParts, ServicesParts, PagesParts, PTL
  DEF Spec, AssignmentsSpec, SessionsSpec, AccountsSpec, LockoutSpec, OrgsSpec,
      InvitationsSpec, WalletsSpec, PolicyVersionsSpec, AuditSpec, AuditExportsSpec,
      IdempotencySpec, RemindersSpec, WebSpec, InboxSpec, IntentPageSpec

\* When roles and sessions are the part that runs, they run as AccessControl says,
\* so sessions end with access there.
THEOREM RunOfAccess == Spec /\ service = "access" => AccessSpec
<1>1. Init => AccessInit
  BY DEF Init
<1>2. service = "access" /\ [Next]_servicesVars => (service = "access")' /\ [AccessNext]_accessVars
  BY AccessPart
<1> QED
  BY <1>1, <1>2, PTL DEF Spec, AccessSpec
-----------------------------------------------------------------------------
(***************************************************************************)
(* The types of the parts.  Most are a conjunct of what was proved of the  *)
(* part; the rest needs to know a little more of it.                       *)
(***************************************************************************)
\* A transaction appends org.created for the organization it creates.
LEMMA OrgsTyped == OrgsSpec => []OrgsTypeOK
<1> DEFINE Ids == orgCreated \subseteq Orgs
<1>1. OrgsInit => Ids
  BY DEF OrgsInit
<1>2. OrgsInv /\ Ids /\ [OrgsNext]_orgVars => Ids'
  <2> SUFFICES ASSUME OrgsInv, Ids, [OrgsNext]_orgVars
               PROVE  Ids'
    OBVIOUS
  <2>1. CASE \E r \in Runs : AppendOrgCreated(r)
    <3>1. PICK r \in Runs : AppendOrgCreated(r)
      BY <2>1
    <3>2. run[r] \in RunRecords /\ run[r].pc = "audit"
      BY <3>1 DEF AppendOrgCreated, RunAt, OrgsInv
    <3>3. run[r].id \in Orgs
      BY <3>2 DEF RunRecords, NotRun
    <3> QED
      BY <3>1, <3>3 DEF AppendOrgCreated
  <2>2. CASE UNCHANGED orgCreated
    BY <2>2
  <2> QED
    BY <2>1, <2>2 DEF OrgsNext, orgVars, MountOrgHook, CancelRun, ListForUser, RunFails,
       CreateOrganization, SeedRoles, SeedPolicies, Commit, DeactivateUser
<1>3. OrgsInv /\ Ids => OrgsTypeOK
  BY DEF OrgsInv, OrgsTypeOK
<1> HIDE DEF Ids
<1> QED
  BY <1>1, <1>2, <1>3, OrgsAlways, PTL DEF OrgsSpec

\* Queries, pages and the list are for filters the page has.
FiltersUsed ==
    /\ view.filter \in Filters /\ listing.filter \in Filters
    /\ \A l \in Loads : load[l] # NoLoad => load[l].filter \in Filters

\* A query keeps the filter it was sent with, and the list takes that of its answer.
LEMMA FiltersKept ==
    ASSUME AuditInv, FiltersUsed, [AuditNext]_auditVars
    PROVE  FiltersUsed'
<1> USE DEF FiltersUsed
<1>1. /\ view = [view EXCEPT !.filter = view.filter] /\ AuditShape
  BY DEF AuditInv, AuditShape
<1>2. ASSUME NEW l \in Loads, NEW filter \in Filters, ChangeFilter(l, filter)
      PROVE  FiltersUsed'
  BY <1>1, <1>2 DEF ChangeFilter, Send, AuditShape, NoLoad
<1>3. ASSUME NEW l \in Loads, LoadMore(l)
      PROVE  FiltersUsed'
  BY <1>1, <1>3 DEF LoadMore, Send, AuditShape, NoLoad
<1>4. ASSUME NEW l \in Loads, Query(l)
      PROVE  FiltersUsed'
  <2>1. load[l] # NoLoad /\ load \in [Loads -> AnyLoad]
    BY <1>1, <1>4 DEF Query, NoLoad, AuditShape
  <2>2. \E answer : /\ load' = [load EXCEPT ![l] = answer]
                    /\ answer.filter = load[l].filter
    <3>1. PICK s \in Orders({e \in From(load[l].cursor) : EventType[e] \in load[l].filter}) :
             Query(l)!2!(s)
      BY <1>4 DEF Query
    <3> DEFINE found == SubSeq(s, 1 + Skip(load[l].cursor), Len(s))
               page == IF Len(found) > PageLimit THEN SubSeq(found, 1, PageLimit) ELSE found
               after == IF Len(found) > PageLimit THEN Last(page) ELSE 0
               matched == {e \in Inserted : EventType[e] \in load[l].filter}
               answer == [pc |-> "answered", filter |-> load[l].filter, append |-> load[l].append,
                          cursor |-> load[l].cursor, rows |-> page, next |-> after,
                          base |-> matched]
    <3>2. load' = [load EXCEPT ![l] = answer]
      BY <3>1
    <3>3. answer.filter = load[l].filter
      OBVIOUS
    <3> HIDE DEF answer
    <3> QED
      BY <3>2, <3>3
  <2> QED
    BY <2>1, <2>2, <1>4 DEF Query
<1>5. ASSUME NEW l \in Loads, ShowPage(l)
      PROVE  FiltersUsed'
  BY <1>1, <1>5 DEF ShowPage, AuditShape, NoLoad
<1>6. ASSUME NEW l \in Loads, LoadFails(l)
      PROVE  FiltersUsed'
  BY <1>1, <1>6 DEF LoadFails, AuditShape, NoLoad
<1>7. CASE UNCHANGED <<view, load, listing>>
  BY <1>7
<1> QED
  BY <1>2, <1>3, <1>4, <1>5, <1>6, <1>7 DEF AuditNext, auditVars, AppendRow

\* The types of the audit log and its page.
LEMMA AuditTyped == AuditSpec => []AuditTypeOK
<1>1. AuditInit => FiltersUsed
  BY AuditAssumption DEF AuditInit, FiltersUsed, NoLoad
<1>2. AuditInv /\ FiltersUsed /\ [AuditNext]_auditVars => FiltersUsed'
  BY FiltersKept
<1>3. AuditInv /\ FiltersUsed => AuditTypeOK
  <2> SUFFICES ASSUME AuditInv, FiltersUsed
               PROVE  AuditTypeOK
    OBVIOUS
  <2>1. AuditShape
    BY DEF AuditInv
  <2>2. \A l \in Loads : load[l] \in LoadRecords
    BY <2>1 DEF AuditShape, AnyLoad, LoadRecords, FiltersUsed
  <2>3. load \in [Loads -> LoadRecords]
    BY <2>1, <2>2 DEF AuditShape
  <2> QED
    BY <2>1, <2>3 DEF AuditShape, AuditTypeOK, FiltersUsed
<1> QED
  BY <1>1, <1>2, <1>3, AuditInvariant, PTL DEF AuditSpec
-----------------------------------------------------------------------------
\* A version is numbered no higher than its row: each row adds one at most.
VersionsNumbered == \A p \in Existing : policy[p].version \in 1 .. p

EditFrames ==
    {NotEditing}
    \union [pc : {"list"}, role : Roles]
    \union [pc : {"ask_create", "create"}, scope : Scopes]
    \union [pc : {"ask_update", "update", "archive"}, policy : Policies]

PolicyFrames == VersionsNumbered /\ editing \in [Editors -> EditFrames]

\* A row with the next number, of a version no higher than that.
LEMMA NextNumbered ==
    ASSUME PoliciesInv, VersionsNumbered, NextPolicy \in Policies,
           NEW scope \in Scopes, NEW v \in 1 .. NextPolicy, NEW before,
           before = policy \/ \E p \in Existing : before = [policy EXCEPT ![p].status = "archived"],
           policy' = [before EXCEPT ![NextPolicy] = NewPolicy(scope, v)]
    PROVE  VersionsNumbered'
<1>1. /\ policy \in [Policies -> {NoPolicy} \union PolicyRecords]
      /\ DOMAIN before = Policies
      /\ \A p \in Policies : before[p] = NoPolicy <=> policy[p] = NoPolicy
      /\ \A p \in Existing : before[p].version = policy[p].version
  BY DEF PoliciesInv, PolicyRowsOK, Existing, NoPolicy, PolicyRecords
<1>2. \A p \in Policies : policy'[p] = IF p = NextPolicy THEN NewPolicy(scope, v) ELSE before[p]
  BY <1>1
<1>3. NewPolicy(scope, v).version = v
  BY DEF NewPolicy
<1>4. \A p \in Existing' : p # NextPolicy =>
         p \in Existing /\ policy'[p].version = policy[p].version
  BY <1>1, <1>2 DEF Existing
<1> QED
  BY <1>1, <1>2, <1>3, <1>4 DEF VersionsNumbered, Existing

\* An update adds one to the version of a row that is there, in a row after it.
LEMMA PolicyFramesKept ==
    ASSUME PoliciesInv, PolicyFrames, [PolicyVersionsNext]_policyVars
    PROVE  PolicyFrames'
<1>1. /\ policy \in [Policies -> {NoPolicy} \union PolicyRecords]
      /\ editing \in [Editors -> EditFrames] /\ VersionsNumbered
      /\ \A e \in Editors :
            /\ editing[e].pc \in {"update", "archive"} => editing[e].policy \in Existing
            /\ editing[e].pc = "create" => editing[e].scope \in Scopes
      /\ Existing = 1 .. Cardinality(Existing) /\ Cardinality(Existing) \in Nat
      /\ ActivePolicies \subseteq Existing
  BY DEF PoliciesInv, PolicyRowsOK, EditingOK, PolicyFrames, ActivePolicies, Existing, NoPolicy
<1>2. NotEditing \in EditFrames
  BY DEF EditFrames
<1>3. ASSUME NEW e \in Editors, NEW role \in Roles, HandleSubmit(e, role)
      PROVE  PolicyFrames'
  <2>1. [pc |-> "list", role |-> role] \in EditFrames
    BY DEF EditFrames
  <2> QED
    BY <1>1, <1>3, <2>1 DEF HandleSubmit, Edit, PolicyFrames, VersionsNumbered, Existing
<1>4. ASSUME NEW e \in Editors, ListPolicies(e)
      PROVE  PolicyFrames'
  <2>1. \A p \in Policies : [pc |-> "ask_update", policy |-> p] \in EditFrames
    BY DEF EditFrames
  <2>2. \A scope \in Unscoped : [pc |-> "ask_create", scope |-> scope] \in EditFrames
    BY PolicyVersionsAssumption DEF EditFrames
  <2>3. PICK frame \in EditFrames : Edit(e, frame)
    <3>1. CASE \E p \in ActivePolicies : Edit(e, [pc |-> "ask_update", policy |-> p])
      BY <2>1, <3>1 DEF ActivePolicies
    <3>2. CASE \E scope \in Unscoped : Edit(e, [pc |-> "ask_create", scope |-> scope])
      BY <2>2, <3>2
    <3> QED
      BY <1>4, <3>1, <3>2 DEF ListPolicies
  <2> QED
    BY <1>1, <1>4, <2>3 DEF ListPolicies, Edit, PolicyFrames, VersionsNumbered, Existing
<1>5. ASSUME NEW e \in Editors, NEW scope \in Scopes, BeginCreatePolicy(e, scope)
      PROVE  PolicyFrames'
  <2>1. [pc |-> "create", scope |-> scope] \in EditFrames
    BY DEF EditFrames
  <2> QED
    BY <1>1, <1>5, <2>1 DEF BeginCreatePolicy, Edit, PolicyFrames, VersionsNumbered, Existing
<1>6. ASSUME NEW e \in Editors, NEW p \in Policies,
             BeginUpdatePolicy(e, p) \/ BeginArchivePolicy(e, p)
      PROVE  PolicyFrames'
  <2>1. PICK frame \in EditFrames : Edit(e, frame) /\ UNCHANGED policy
    BY <1>6 DEF BeginUpdatePolicy, BeginArchivePolicy, EditFrames
  <2> QED
    BY <1>1, <2>1 DEF Edit, PolicyFrames, VersionsNumbered, Existing
<1>7. ASSUME NEW e \in Editors, CreateActive(e)
      PROVE  PolicyFrames'
  <2>1. 1 \in 1 .. NextPolicy
    BY <1>1 DEF NextPolicy
  <2>2. VersionsNumbered'
    BY <1>1, <1>7, <2>1, NextNumbered DEF CreateActive
  <2> QED
    BY <1>1, <1>2, <1>7, <2>2 DEF CreateActive, Edit, PolicyFrames
<1>8. ASSUME NEW e \in Editors, ArchiveAndCreateVersion(e)
      PROVE  PolicyFrames'
  <2> DEFINE p == editing[e].policy
             archived == [policy EXCEPT ![p].status = "archived"]
  <2>1. p \in Existing /\ policy[p] \in PolicyRecords /\ p <= Cardinality(Existing)
    BY <1>1, <1>8 DEF ArchiveAndCreateVersion, Existing
  <2>2. policy[p].version + 1 \in 1 .. NextPolicy /\ policy[p].scope \in Scopes
    BY <1>1, <2>1 DEF VersionsNumbered, NextPolicy, PolicyRecords
  <2>3. NextPolicy # p
    BY <1>1, <2>1 DEF NextPolicy
  <2>4. policy' = [archived EXCEPT
           ![NextPolicy] = NewPolicy(policy[p].scope, policy[p].version + 1)]
    BY <1>8 DEF ArchiveAndCreateVersion
  <2>5. VersionsNumbered'
    BY <1>1, <1>8, <2>1, <2>2, <2>4, NextNumbered DEF ArchiveAndCreateVersion
  <2> QED
    BY <1>1, <1>2, <1>8, <2>5 DEF ArchiveAndCreateVersion, Edit, PolicyFrames
<1>9. ASSUME NEW e \in Editors, ArchiveById(e)
      PROVE  PolicyFrames'
  <2> DEFINE p == editing[e].policy
  <2>1. p \in Existing /\ policy[p] \in PolicyRecords
    BY <1>1, <1>9 DEF ArchiveById, Existing
  <2>2. /\ policy' = [policy EXCEPT ![p].status = "archived"] /\ Edit(e, NotEditing)
    BY <1>9 DEF ArchiveById
  <2>3. \A q \in Existing' : q \in Existing /\ policy'[q].version = policy[q].version
    BY <1>1, <2>1, <2>2 DEF Existing, PolicyRecords
  <2>4. VersionsNumbered'
    BY <1>1, <2>3 DEF VersionsNumbered
  <2> QED
    BY <1>1, <1>2, <2>2, <2>4 DEF Edit, PolicyFrames
<1>10. ASSUME NEW e \in Editors, EditFails(e)
       PROVE  PolicyFrames'
  BY <1>1, <1>2, <1>10 DEF EditFails, Edit, PolicyFrames, VersionsNumbered, Existing
<1>11. CASE UNCHANGED <<policy, editing>>
  BY <1>11 DEF PolicyFrames, VersionsNumbered, Existing
<1> QED
  BY <1>3, <1>4, <1>5, <1>6, <1>7, <1>8, <1>9, <1>10, <1>11
  DEF PolicyVersionsNext, policyVars, EvaluatePolicies, ResolvePolicyVersionId

\* The types of policies, their editors and the intent that is created.
LEMMA PoliciesTyped == PolicyVersionsSpec => []PolicyVersionsTypeOK
<1>1. PolicyVersionsInit => PolicyFrames
  BY DEF PolicyVersionsInit, PolicyFrames, VersionsNumbered, Existing, EditFrames
<1>2. PoliciesInv /\ PolicyFrames /\ [PolicyVersionsNext]_policyVars => PolicyFrames'
  BY PolicyFramesKept
<1>3. PoliciesInv /\ PolicyFrames => PolicyVersionsTypeOK
  <2> SUFFICES ASSUME PoliciesInv, PolicyFrames
               PROVE  PolicyVersionsTypeOK
    OBVIOUS
  <2>1. \A p \in Policies : policy[p] # NoPolicy =>
           policy[p] \in [status : {"active", "archived"}, scope : Scopes, version : Policies]
    BY PolicyVersionsAssumption
    DEF PoliciesInv, PolicyRowsOK, PolicyRecords, PolicyFrames, VersionsNumbered, Existing, Policies
  <2> QED
    BY <2>1 DEF PoliciesInv, PolicyRowsOK, CreatingOK, PolicyFrames, EditFrames,
       PolicyVersionsTypeOK
<1> QED
  BY <1>1, <1>2, <1>3, PoliciesStart, PoliciesKept, PTL DEF PolicyVersionsSpec
-----------------------------------------------------------------------------
\* A form that asks for a signature has a challenge; a request that verifies one
\* names it, and deletes none that was never issued; a job is tried again only while
\* attempts are left.
FormsSign == \A f \in Forms : form[f].step = "sign" => form[f].challenge \in Challenges

ChallengeRecords == [state : {"unissued"}] \union [state : {"live", "gone"}, safe : Safes]

ChallengesNamed ==
    /\ challenge \in [Challenges -> ChallengeRecords]
    /\ \A c \in Connects :
          /\ connect[c].pc \in {"verify", "delete_challenge"} => connect[c].challenge \in Challenges
          /\ connect[c].pc = "delete_challenge" =>
                challenge[connect[c].challenge].state # "unissued"

JobsBounded ==
    /\ unqueued \subseteq Safes
    /\ \A s \in Safes : /\ syncJob[s].failures <= MaxAttempts
                        /\ syncJob[s].state # "failed" => syncJob[s].failures < MaxAttempts

WalletFrames == FormsSign /\ ChallengesNamed /\ JobsBounded

\* One request moves, and no challenge becomes unissued again.
LEMMA RequestNames ==
    ASSUME WalletsInv, ChallengesNamed, NEW c \in Connects, NEW r,
           connect' = [connect EXCEPT ![c] = r],
           r.pc \in {"verify", "delete_challenge"} => r.challenge \in Challenges,
           r.pc = "delete_challenge" => challenge'[r.challenge].state # "unissued",
           challenge' \in [Challenges -> ChallengeRecords],
           \A h \in Challenges : challenge[h].state # "unissued" => challenge'[h].state # "unissued"
    PROVE  ChallengesNamed'
<1>1. \A d \in Connects : connect'[d] = IF d = c THEN r ELSE connect[d]
  BY DEF WalletsInv, WalletsShape
<1> QED
  BY <1>1 DEF ChallengesNamed

\* An answer asks for a signature only with a challenge to sign.
LEMMA AnswerSigns ==
    ASSUME WalletsInv, FormsSign, NEW f, NEW c, NEW new, Answered(f, c, new),
           new.step = "sign" => new.challenge \in Challenges
    PROVE  FormsSign'
<1>1. DOMAIN form = Forms
  BY DEF WalletsInv, WalletsShape
<1> QED
  BY <1>1 DEF FormsSign, Answered

\* A form that stops waiting stays at its step.
LEMMA NotAwaitingSigns ==
    ASSUME WalletsInv, FormsSign, NEW f \in Forms
    PROVE  NotAwaiting(f).step = "sign" => NotAwaiting(f).challenge \in Challenges
<1>1. form[f] \in FormRecords
  BY DEF WalletsInv, WalletsShape
<1> QED
  BY <1>1 DEF NotAwaiting, FormsSign, FormRecords

\* The form names its own challenge in the request it sends.
LEMMA FormsKeepFrames ==
    ASSUME WalletsInv, WalletFrames, NEW f \in Forms,
           \/ \E c \in Connects, s \in Safes : HandleConnect(f, c, s) \/ SignWithWallet(f, c, s)
           \/ AnswerLost(f) \/ Reload(f)
    PROVE  WalletFrames'
<1>1. form \in [Forms -> FormRecords] /\ FormsSign /\ ChallengesNamed /\ JobsBounded
  BY DEF WalletsInv, WalletsShape, WalletFrames
<1>2. UNCHANGED <<challenge, syncJob, unqueued>>
  BY DEF HandleConnect, SignWithWallet, AnswerLost, Reload
<1>3. JobsBounded'
  BY <1>1, <1>2 DEF JobsBounded
<1>4. FormsSign'
  <2>1. NewForm.step # "sign"
    BY DEF NewForm
  <2>2. PICK new : /\ form' = [form EXCEPT ![f] = new]
                   /\ new.step = "sign" => new.challenge \in Challenges
    <3>1. CASE \E c \in Connects, s \in Safes : HandleConnect(f, c, s) \/ SignWithWallet(f, c, s)
      <4>1. PICK c \in Connects : form' = [form EXCEPT ![f] = [form[f] EXCEPT !.awaits = c]]
        BY <3>1 DEF HandleConnect, SignWithWallet
      <4>2. LET new == [form[f] EXCEPT !.awaits = c]
            IN  new.step = form[f].step /\ new.challenge = form[f].challenge
        BY <1>1 DEF FormRecords
      <4> QED
        BY <1>1, <4>1, <4>2 DEF FormsSign
    <3>2. CASE AnswerLost(f) \/ Reload(f)
      BY <1>1, <2>1, <3>2, NotAwaitingSigns DEF AnswerLost, Reload
    <3> QED
      BY <3>1, <3>2
  <2> QED
    BY <1>1, <2>2 DEF FormsSign
<1>5. ChallengesNamed'
  <2>1. CASE UNCHANGED connect
    BY <1>1, <1>2, <2>1 DEF ChallengesNamed
  <2>2. ASSUME NEW c \in Connects, NEW s \in Safes, HandleConnect(f, c, s)
        PROVE  ChallengesNamed'
    <3> DEFINE r == [pc |-> "connect", form |-> f, safe |-> s]
    <3>1. connect' = [connect EXCEPT ![c] = r] /\ r.pc = "connect"
      BY <2>2 DEF HandleConnect
    <3> HIDE DEF r
    <3> QED
      BY <1>1, <1>2, <3>1, RequestNames DEF ChallengesNamed
  <2>3. ASSUME NEW c \in Connects, NEW s \in Safes, SignWithWallet(f, c, s)
        PROVE  ChallengesNamed'
    <3> DEFINE r == [pc |-> "verify", form |-> f, safe |-> s, challenge |-> form[f].challenge]
    <3>1. connect' = [connect EXCEPT ![c] = r] /\ form[f].step = "sign"
          /\ r.pc = "verify" /\ r.challenge = form[f].challenge
      BY <2>3 DEF SignWithWallet
    <3>2. r.challenge \in Challenges
      BY <1>1, <3>1 DEF FormsSign
    <3> HIDE DEF r
    <3> QED
      BY <1>1, <1>2, <3>1, <3>2, RequestNames DEF ChallengesNamed
  <2> QED
    BY <2>1, <2>2, <2>3 DEF AnswerLost, Reload
<1> QED
  BY <1>3, <1>4, <1>5 DEF WalletFrames

\* The requests: each ends, goes on, issues its challenge or deletes it.
LEMMA RequestsKeepFrames ==
    ASSUME WalletsInv, WalletFrames, NEW c \in Connects,
           ConnectProceeds(c) \/ ConnectFails(c)
    PROVE  WalletFrames'
<1>1. /\ form \in [Forms -> FormRecords] /\ connect \in [Connects -> ConnectShapes]
      /\ syncJob \in [Safes -> JobRecords]
      /\ connect[c] \in ConnectShapes /\ FormsSign /\ ChallengesNamed /\ JobsBounded
  BY DEF WalletsInv, WalletsShape, WalletFrames
<1>2. /\ connect[c].pc # "idle" => connect[c].safe \in Safes /\ connect[c].form \in Forms
      /\ connect[c] = NotConnecting <=> connect[c].pc = "idle"
      /\ NotConnecting.pc = "idle"
  BY <1>1, ConnectShape DEF NotConnecting
<1> DEFINE f == connect[c].form
<1>3. connect[c].pc # "idle" /\ NotAwaiting(f).step = "sign"
         => NotAwaiting(f).challenge \in Challenges
  BY <1>1, <1>2, NotAwaitingSigns
<1> HIDE DEF f
\* Requests that end, and the form that is answered.
<1>4. ASSUME connect[c].pc # "idle", EndConnect(c), Answered(f, c, NotAwaiting(f)),
             \/ challenge' = challenge
             \/ \E h \in Challenges : /\ challenge' = [challenge EXCEPT ![h].state = "gone"]
                                     /\ challenge[h].state # "unissued"
      PROVE  FormsSign' /\ ChallengesNamed'
  <2>1. FormsSign'
    BY <1>1, <1>3, <1>4, AnswerSigns
  <2>2. /\ challenge' \in [Challenges -> ChallengeRecords]
        /\ \A h \in Challenges : challenge[h].state # "unissued" => challenge'[h].state # "unissued"
    BY <1>1, <1>4 DEF ChallengesNamed, ChallengeRecords
  <2>3. ChallengesNamed'
    BY <1>1, <1>2, <1>4, <2>2, RequestNames DEF EndConnect
  <2> QED
    BY <2>1, <2>3
\* Requests that go on to a step that names no challenge, or the one they name.
<1>5. ASSUME NEW pc, connect' = [connect EXCEPT ![c].pc = pc], UNCHANGED <<form, challenge>>,
             pc \in {"verify", "delete_challenge"} => connect[c].challenge \in Challenges,
             pc = "delete_challenge" => challenge[connect[c].challenge].state # "unissued"
      PROVE  FormsSign' /\ ChallengesNamed'
  <2> DEFINE r == [connect[c] EXCEPT !.pc = pc]
  <2>1. connect' = [connect EXCEPT ![c] = r]
    BY <1>5
  <2>2. r.pc = pc /\ (pc \in {"verify", "delete_challenge"} => r.challenge = connect[c].challenge)
    <3>1. CASE connect[c].pc = "idle"
      BY <1>1, <3>1 DEF ConnectShapes, NotConnecting
    <3>2. CASE connect[c].pc # "idle"
      BY <1>1, <3>2 DEF ConnectShapes, NotConnecting
    <3> QED
      BY <3>1, <3>2
  <2> HIDE DEF r
  <2>3. ChallengesNamed'
    BY <1>1, <1>5, <2>1, <2>2, RequestNames DEF ChallengesNamed
  <2> QED
    BY <1>1, <1>5, <2>3 DEF FormsSign
<1>6. CASE StartConnect(c)
  BY <1>1, <1>5, <1>6 DEF StartConnect, WalletFrames, JobsBounded
<1>7. CASE VerifySigner(c)
  <2>1. connect[c].challenge \in Challenges /\ challenge[connect[c].challenge].state # "unissued"
    BY <1>1, <1>7 DEF VerifySigner, ConnectAt, ChallengesNamed
  <2> QED
    BY <1>1, <1>5, <1>7, <2>1 DEF VerifySigner, WalletFrames, JobsBounded
<1>8. CASE EnqueueWalletSync(c)
  <2>1. FormsSign' /\ ChallengesNamed'
    BY <1>5, <1>8 DEF EnqueueWalletSync
  <2>2. \A s \in Safes : syncJob'[s].failures = syncJob[s].failures
                         /\ (syncJob'[s].state # "failed" => syncJob[s].state # "failed")
    BY <1>1, <1>8 DEF EnqueueWalletSync, NoJob, JobRecords
  <2> QED
    BY <1>1, <1>8, <2>1, <2>2 DEF EnqueueWalletSync, WalletFrames, JobsBounded
<1>9. ASSUME NEW h \in Challenges, CreateChallenge(c, h)
      PROVE  WalletFrames'
  <2> DEFINE new == [step |-> "sign", challenge |-> h, awaits |-> "none"]
             live == [state |-> "live", safe |-> connect[c].safe]
  <2>1. /\ Answered(f, c, new) /\ EndConnect(c) /\ challenge' = [challenge EXCEPT ![h] = live]
        /\ connect[c].pc = "issue" /\ UNCHANGED <<syncJob, unqueued>>
    BY <1>9 DEF CreateChallenge, ConnectAt, f
  <2>2. live \in ChallengeRecords /\ live.state # "unissued" /\ new.challenge \in Challenges
    BY <1>2, <2>1 DEF ChallengeRecords
  <2> HIDE DEF new, live
  <2>3. FormsSign'
    BY <1>1, <2>1, <2>2, AnswerSigns
  <2>4. ChallengesNamed'
    BY <1>1, <1>2, <2>1, <2>2, RequestNames DEF EndConnect, ChallengesNamed
  <2> QED
    BY <1>1, <2>1, <2>3, <2>4 DEF WalletFrames, JobsBounded
<1>10. CASE DeleteChallenge(c)
  <2> DEFINE h == connect[c].challenge
             r == [pc |-> "create_wallet", form |-> connect[c].form, safe |-> connect[c].safe]
  <2>1. /\ connect[c].pc = "delete_challenge" /\ challenge' = [challenge EXCEPT ![h].state = "gone"]
        /\ UNCHANGED <<syncJob, unqueued>>
    BY <1>10 DEF DeleteChallenge, ConnectAt
  <2>2. h \in Challenges /\ challenge[h].state # "unissued"
    BY <1>1, <2>1 DEF ChallengesNamed
  <2>3. CASE connect' = [connect EXCEPT ![c] = r] /\ UNCHANGED form
    <3>1. /\ challenge' \in [Challenges -> ChallengeRecords]
          /\ \A k \in Challenges :
                challenge[k].state # "unissued" => challenge'[k].state # "unissued"
      BY <1>1, <2>1, <2>2 DEF ChallengesNamed, ChallengeRecords
    <3>2. r.pc = "create_wallet"
      OBVIOUS
    <3> HIDE DEF r, h
    <3>3. ChallengesNamed'
      BY <1>1, <2>3, <3>1, <3>2, RequestNames
    <3> QED
      BY <1>1, <2>1, <2>3, <3>3 DEF WalletFrames, FormsSign, JobsBounded
  <2>4. CASE Answered(f, c, NotAwaiting(f)) /\ EndConnect(c)
    <3> HIDE DEF h
    <3>1. FormsSign' /\ ChallengesNamed'
      BY <1>4, <2>1, <2>2, <2>4
    <3> QED
      BY <1>1, <2>1, <3>1 DEF WalletFrames, JobsBounded
  <2> QED
    BY <1>10, <2>3, <2>4 DEF DeleteChallenge, f
<1>11. CASE CreateWallet(c)
  <2>1. connect[c].pc = "create_wallet" /\ UNCHANGED <<challenge, syncJob, unqueued>>
    BY <1>11 DEF CreateWallet, ConnectAt
  <2>2. FormsSign' /\ ChallengesNamed'
    BY <1>4, <1>5, <1>11, <2>1 DEF CreateWallet, f
  <2> QED
    BY <1>1, <2>1, <2>2 DEF WalletFrames, JobsBounded
<1>12. CASE AppendWalletConnected(c)
  <2>1. connect[c].pc = "audit" /\ UNCHANGED <<challenge, syncJob, unqueued>>
    BY <1>12 DEF AppendWalletConnected, ConnectAt
  <2>2. FormsSign' /\ ChallengesNamed'
    BY <1>4, <1>12, <2>1 DEF AppendWalletConnected, f
  <2> QED
    BY <1>1, <2>1, <2>2 DEF WalletFrames, JobsBounded
<1>13. CASE ConnectFails(c)
  <2>1. connect[c].pc # "idle" /\ UNCHANGED <<challenge, syncJob>>
    BY <1>2, <1>13 DEF ConnectFails
  <2>2. FormsSign' /\ ChallengesNamed'
    BY <1>4, <1>13, <2>1 DEF ConnectFails, f
  <2>3. unqueued' \subseteq Safes
    BY <1>1, <1>2, <1>13, <2>1 DEF ConnectFails, JobsBounded
  <2> QED
    BY <1>1, <2>1, <2>2, <2>3 DEF WalletFrames, JobsBounded
<1> QED
  BY <1>6, <1>7, <1>8, <1>9, <1>10, <1>11, <1>12, <1>13 DEF ConnectProceeds

\* The worker: only a run that throws counts as a failure.
LEMMA WorkKeepsFrames ==
    ASSUME WalletsInv, WalletFrames, NEW s \in Safes, Work(s) \/ WorkerDies(s)
    PROVE  WalletFrames'
<1>1. /\ syncJob \in [Safes -> JobRecords] /\ MaxAttempts \in Nat \ {0}
      /\ UNCHANGED <<form, connect, challenge, unqueued>>
  BY WalletsAssumption DEF WalletsInv, WalletsShape, Work, WorkerDies, TakeJob, SyncWalletById,
     JobCompletes, SyncThrows
<1>2. \A t \in Safes : t # s => syncJob'[t] = syncJob[t]
  BY <1>1 DEF Work, WorkerDies, TakeJob, SyncWalletById, JobCompletes, SyncThrows, Job
<1>3. /\ syncJob'[s].failures <= MaxAttempts
      /\ syncJob'[s].state # "failed" => syncJob'[s].failures < MaxAttempts
  <2>1. syncJob[s].failures < MaxAttempts \/ syncJob[s].state = "failed"
    BY DEF WalletFrames, JobsBounded
  <2>2. CASE SyncThrows(s)
    BY <1>1, <2>1, <2>2 DEF SyncThrows, JobRecords
  <2>3. CASE \E to : Job(s, "waiting", to) \/ Job(s, "active", to) \/ Job(s, "updated", to)
    BY <1>1, <2>1, <2>3 DEF Job, JobRecords
  <2> QED
    BY <2>2, <2>3 DEF Work, WorkerDies, TakeJob, SyncWalletById, JobCompletes
<1>4. JobsBounded'
  BY <1>1, <1>2, <1>3 DEF WalletFrames, JobsBounded
<1> QED
  BY <1>1, <1>4 DEF WalletFrames, FormsSign, ChallengesNamed

\* The types of forms, requests, challenges, wallets and jobs.
LEMMA WalletsTyped == WalletsSpec => []WalletsTypeOK
<1>1. WalletsInit => WalletFrames
  BY WalletsAssumption DEF WalletsInit, WalletFrames, FormsSign, ChallengesNamed, JobsBounded,
     NewForm, NotConnecting, NoJob, ChallengeRecords
<1>2. WalletsInv /\ WalletFrames /\ [WalletsNext]_walletVars => WalletFrames'
  <2> SUFFICES ASSUME WalletsInv, WalletFrames, [WalletsNext]_walletVars
               PROVE  WalletFrames'
    OBVIOUS
  <2>1. CASE UNCHANGED walletVars
    BY <2>1 DEF walletVars, WalletFrames, FormsSign, ChallengesNamed, JobsBounded
  <2>2. ASSUME NEW h \in Challenges, ChallengeLapses(h)
        PROVE  WalletFrames'
    BY <2>2 DEF ChallengeLapses, WalletFrames, FormsSign, ChallengesNamed, JobsBounded,
       ChallengeRecords
  <2> QED
    BY <2>1, <2>2, FormsKeepFrames, RequestsKeepFrames, WorkKeepsFrames DEF WalletsNext
<1>3. WalletsInv /\ WalletFrames => WalletsTypeOK
  <2> SUFFICES ASSUME WalletsInv, WalletFrames
               PROVE  WalletsTypeOK
    OBVIOUS
  <2>1. WalletsShape /\ FormsSign /\ ChallengesNamed /\ JobsBounded
    BY DEF WalletsInv, WalletFrames
  <2>2. \A c \in Connects : connect[c] \in ConnectRecords
    BY <2>1 DEF WalletsShape, ConnectShapes, ConnectRecords, ChallengesNamed
  <2>3. connect \in [Connects -> ConnectRecords]
    BY <2>1, <2>2 DEF WalletsShape
  <2>4. \A s \in Safes : syncJob[s] \in
           [state : {"none", "waiting", "active", "updated", "completed", "failed"},
            failures : 0 .. MaxAttempts]
    BY <2>1, WalletsAssumption DEF WalletsShape, JobRecords, JobsBounded
  <2> QED
    BY <2>1, <2>3, <2>4
    DEF WalletsShape, FormRecords, WalletsTypeOK, ChallengesNamed, ChallengeRecords, JobsBounded
<1> QED
  BY <1>1, <1>2, <1>3, WalletsAlways, PTL DEF WalletsSpec
-----------------------------------------------------------------------------
\* Every part keeps its types in the run, whichever runs: rows, requests in flight
\* and pages hold what their step needs, a policy's version is no higher than its
\* row, and a request verifies a challenge that was issued.
THEOREM ServiceTypes == Spec => []ServicesTypeOK
<1>1. SessionsInv => SessionsTypeOK
  BY DEF SessionsInv
<1>2. AssignmentsInv => AssignmentsTypeOK
  BY DEF AssignmentsInv
<1>3. MfaInv => AccountsTypeOK
  BY DEF MfaInv
<1>4. LockoutInv => LockoutTypeOK
  BY DEF LockoutInv
<1>5. InvitationsInv => InvitationsTypeOK
  BY DEF InvitationsInv
<1>6. ExportsInv => AuditExportsTypeOK
  BY DEF ExportsInv
<1>7. RepeatsInv => IdempotencyTypeOK
  BY DEF RepeatsInv
<1>8. RemindersInv => RemindersTypeOK
  BY DEF RemindersInv
<1>9. PagesOK /\ BrowserOK => WebTypeOK
  BY Parts
<1>10. InboxInv => InboxTypeOK
  BY DEF InboxInv
<1>11. PageInv => IntentPageTypeOK
  BY DEF PageInv
<1> DEFINE Typed ==
      /\ AssignmentsTypeOK /\ SessionsTypeOK /\ AccountsTypeOK /\ LockoutTypeOK
      /\ OrgsTypeOK /\ InvitationsTypeOK /\ WalletsTypeOK /\ PolicyVersionsTypeOK
      /\ AuditTypeOK /\ AuditExportsTypeOK /\ IdempotencyTypeOK /\ RemindersTypeOK
      /\ WebTypeOK /\ InboxTypeOK /\ IntentPageTypeOK
<1>12. Spec => []Typed
  BY <1>1, <1>2, <1>3, <1>4, <1>5, <1>6, <1>7, <1>8, <1>9, <1>10, <1>11, RunsOfServices,
     SessionsAlways, AssignmentsAlways, MfaAlways, LockoutAlways, OrgsTyped, InvitationsAlways,
     WalletsTyped, PoliciesTyped, AuditTyped, ExportsAlways, RepeatsAlways, RemindersAlways,
     WebAlways, InboxAlways, PageAlways, PTL
<1>13. Typed => ServicesTypeOK
  BY DEF ServicesTypeOK
<1> HIDE DEF Typed
<1> QED
  BY <1>12, <1>13, PTL
=============================================================================

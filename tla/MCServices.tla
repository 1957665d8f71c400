----------------------------- MODULE MCServices -----------------------------
(***************************************************************************)
(* The smaller services side by side.  They share no state with each       *)
(* other, so each behaviour runs one of them, and the states to explore    *)
(* add up instead of multiplying; access is role assignments and sessions  *)
(* together.                                                               *)
(***************************************************************************)
EXTENDS AccessControl, Accounts, Organizations, Invitations, WalletConnections,
        PolicyVersions, ApprovalInbox, AuditLog, AuditExports, IdempotentRequests,
        ApprovalReminders, LoginLockout, WebSession,
        IntentPage

VARIABLE service    \* the one that runs

servicesVars == <<accessVars, accountVars, orgVars, inviteVars, walletVars, policyVars,
                  inboxVars, auditVars, exportVars, idempotencyVars, reminderVars,
                  lockoutVars, webVars, intentPageVars, service>>

Services == {"access", "assignments", "sessions", "accounts", "organizations",
             "invitations", "wallets", "policies", "inbox", "audit", "exports",
             "idempotency", "reminders", "lockout", "browser", "page"}

Org == [s \in Safes |-> s]

TokenUsers == [t \in Tokens |-> IF t = CHOOSE x \in Tokens : TRUE THEN "u1" ELSE "u2"]

OneRoleOf == [scope \in Scopes |-> "founder"]

AuditedTypes == [e \in Events |-> IF e = 2 THEN "wallet.connected" ELSE "intent.created"]

AuditFilters == {EventTypes, {"intent.created"}}

\* Bounds: roles and sessions apart are explored with all rows, tokens and calls;
\* together with one row that starts at once, one refresher and one token less.
AccessRow == CHOOSE r \in Rows : TRUE

AccessRefresher == CHOOSE c \in Refreshers : TRUE

SpareToken == CHOOSE t \in Tokens : TRUE

AccessBound ==
    /\ Open \union Ended \subseteq {AccessRow}
    /\ \A c \in Refreshers : refreshing[c] # NotRefreshing => c = AccessRefresher
    /\ session[SpareToken] = "unissued"
    /\ \A c \in Admins : changing[c].pc = "find_overlap" => changing[c].window.starts = 0

Init ==
    /\ service \in Services
    /\ AccessInit
    /\ AccountsInit
    /\ OrgsInit
    /\ InvitationsInit
    /\ WalletsInit
    /\ PolicyVersionsInit
    /\ InboxInit
    /\ AuditInit
    /\ AuditExportsInit
    /\ IdempotencyInit
    /\ RemindersInit
    /\ LockoutInit
    /\ WebInit
    /\ IntentPageInit

AccessStep == AccessNext /\ AccessBound'

AssignmentsStep == AssignmentsNext /\ UNCHANGED <<sessionVars, held>>

SessionsStep == (UserNext \/ RevokeByUser) /\ UNCHANGED <<roleVars, held>>

\* Slots are all alike: the first is taken if it is free.
FirstFree(slots, at, free) ==
    LET first == CHOOSE x \in slots : TRUE
    IN  \A x \in slots \ {first} :
            at[x] = free /\ at[x]' # free => at[first] # free

PageEditor == CHOOSE e \in Editors : TRUE

\* Bounds.  Runs of the hook begin in their order, and organizations are created in
\* one.  One of the editors is the page, the other calls the API, and nothing follows
\* once the intent is stored.  Two requests of the approvals page, and three of the
\* intent page, are in flight.  Events are inserted in the order of their ids, the
\* filter stays once there are two, and nothing follows once a page was appended that
\* does not follow the last.  Exports are queued or answered directly, not both.
OrgsUsed == Committed \union orgCreated \union {run[r].id : r \in InTransaction}

OrgsStep ==
    /\ OrgsNext
    /\ (\A r, q \in Runs : q < r /\ run[r] # NotRun => run[q] # NotRun)'
    /\ \A o \in OrgsUsed' \ OrgsUsed : o = CHOOSE p \in Orgs \ OrgsUsed : TRUE

PoliciesStep ==
    /\ creating.pc # "stored"
    /\ PolicyVersionsNext
    /\ \A e \in Editors :
          editing[e] = NotEditing => (editing'[e].pc = "list" <=> e = PageEditor /\ editing'[e] # NotEditing)

InboxStep ==
    /\ InboxNext
    /\ FirstFree(Fetches, fetch, NoFetch) /\ FirstFree(Decides, decide, NotDeciding)
    /\ (Cardinality({l \in Fetches : fetch[l] # NoFetch})
          + Cardinality({d \in Decides : decide[d] # NotDeciding}) <= 2)'

PageStep ==
    /\ IntentPageNext
    /\ FirstFree(Polls, poll, NoPoll) /\ FirstFree(Proposals, proposing, NotProposing)
    /\ (Cardinality({q \in Polls : poll[q] # NoPoll})
          + Cardinality({p \in Proposals : proposing[p] # NotProposing}) <= 3)'

ExportsStep == AuditExportsNext /\ (requesting = "idle" \/ direct.pc = "idle")'

AuditStep ==
    /\ AuditNext
    /\ ~ listing.mixed
    /\ FirstFree(Loads, load, NoLoad)
    /\ Cardinality(Inserted) >= 2 => view.filter' = view.filter
    /\ (\A e \in Inserted, d \in Events : d < e => d \in Inserted)'

Next ==
    /\ UNCHANGED service
    /\ \/ /\ \/ service = "access" /\ AccessStep
             \/ service = "assignments" /\ AssignmentsStep
             \/ service = "sessions" /\ SessionsStep
          /\ UNCHANGED <<accountVars, orgVars, inviteVars, walletVars, policyVars,
                         inboxVars, auditVars, exportVars, idempotencyVars, reminderVars,
                         lockoutVars, webVars, intentPageVars>>
       \/ /\ service = "accounts" /\ AccountsNext
          /\ UNCHANGED <<accessVars, orgVars, inviteVars, walletVars, policyVars,
                         inboxVars, auditVars, exportVars, idempotencyVars, reminderVars,
                         lockoutVars, webVars, intentPageVars>>
       \/ /\ service = "organizations" /\ OrgsStep
          /\ UNCHANGED <<accessVars, accountVars, inviteVars, walletVars, policyVars,
                         inboxVars, auditVars, exportVars, idempotencyVars, reminderVars,
                         lockoutVars, webVars, intentPageVars>>
       \/ /\ service = "invitations" /\ InvitationsNext
          /\ UNCHANGED <<accessVars, accountVars, orgVars, walletVars, policyVars,
                         inboxVars, auditVars, exportVars, idempotencyVars, reminderVars,
                         lockoutVars, webVars, intentPageVars>>
       \/ /\ service = "wallets" /\ WalletsNext
          /\ UNCHANGED <<accessVars, accountVars, orgVars, inviteVars, policyVars,
                         inboxVars, auditVars, exportVars, idempotencyVars, reminderVars,
                         lockoutVars, webVars, intentPageVars>>
       \/ /\ service = "policies" /\ PoliciesStep
          /\ UNCHANGED <<accessVars, accountVars, orgVars, inviteVars, walletVars,
                         inboxVars, auditVars, exportVars, idempotencyVars, reminderVars,
                         lockoutVars, webVars, intentPageVars>>
       \/ /\ service = "inbox" /\ InboxStep
          /\ UNCHANGED <<accessVars, accountVars, orgVars, inviteVars, walletVars,
                         policyVars, auditVars, exportVars, idempotencyVars,
                         reminderVars, lockoutVars, webVars, intentPageVars>>
       \/ /\ service = "audit" /\ AuditStep
          /\ UNCHANGED <<accessVars, accountVars, orgVars, inviteVars, walletVars,
                         policyVars, inboxVars, exportVars, idempotencyVars,
                         reminderVars, lockoutVars, webVars, intentPageVars>>
       \/ /\ service = "exports" /\ ExportsStep
          /\ UNCHANGED <<accessVars, accountVars, orgVars, inviteVars, walletVars,
                         policyVars, inboxVars, auditVars, idempotencyVars, reminderVars,
                         lockoutVars, webVars, intentPageVars>>
       \/ /\ service = "idempotency" /\ IdempotencyNext
          /\ UNCHANGED <<accessVars, accountVars, orgVars, inviteVars, walletVars,
                         policyVars, inboxVars, auditVars, exportVars, reminderVars,
                         lockoutVars, webVars, intentPageVars>>
       \/ /\ service = "reminders" /\ RemindersNext
          /\ UNCHANGED <<accessVars, accountVars, orgVars, inviteVars, walletVars,
                         policyVars, inboxVars, auditVars, exportVars, idempotencyVars,
                         lockoutVars, webVars, intentPageVars>>
       \/ /\ service = "lockout" /\ LockoutNext
          /\ UNCHANGED <<accessVars, accountVars, orgVars, inviteVars, walletVars,
                         policyVars, inboxVars, auditVars, exportVars, idempotencyVars,
                         reminderVars, webVars, intentPageVars>>
       \/ /\ service = "browser" /\ WebNext
          /\ UNCHANGED <<accessVars, accountVars, orgVars, inviteVars, walletVars,
                         policyVars, inboxVars, auditVars, exportVars, idempotencyVars,
                         reminderVars, lockoutVars, intentPageVars>>
       \/ /\ service = "page" /\ PageStep
          /\ UNCHANGED <<accessVars, accountVars, orgVars, inviteVars, walletVars,
                         policyVars, inboxVars, auditVars, exportVars, idempotencyVars,
                         reminderVars, lockoutVars, webVars>>

Spec == Init /\ [][Next]_servicesVars

\* The part that runs keeps its types; the others stay as they began.
ServicesTypeOK ==
    /\ service \in {"access", "assignments"} => AssignmentsTypeOK
    /\ service \in {"access", "sessions"} => SessionsTypeOK
    /\ service = "accounts" => AccountsTypeOK
    /\ service = "organizations" => OrgsTypeOK
    /\ service = "invitations" => InvitationsTypeOK
    /\ service = "wallets" => WalletsTypeOK
    /\ service = "policies" => PolicyVersionsTypeOK
    /\ service = "inbox" => InboxTypeOK
    /\ service = "audit" => AuditTypeOK
    /\ service = "exports" => AuditExportsTypeOK
    /\ service = "idempotency" => IdempotencyTypeOK
    /\ service = "reminders" => RemindersTypeOK
    /\ service = "lockout" => LockoutTypeOK
    /\ service = "browser" => WebTypeOK
    /\ service = "page" => IntentPageTypeOK
=============================================================================

---------------------------- MODULE IntentStatus ----------------------------
(***************************************************************************)
(* The status machine of a transaction intent                              *)
(* (packages/shared/src/intent/intent-state-machine.ts): a pure table and  *)
(* the function that looks an event up in it.  Nothing in the program      *)
(* stores the table; the services call transitionIntentStatus with the     *)
(* status they believe the intent to have and write the result.            *)
(***************************************************************************)

PolicyDecisions == {"ALLOW", "DENY", "REQUIRE_APPROVAL"}

IntentStatuses ==
    {"draft", "policy_evaluated", "denied", "pending_approval",
     "ready_to_sign", "submitted", "executed", "failed", "cancelled"}

NoEvents == [e \in {} |-> "draft"]

AfterPolicy == [POLICY_ALLOW            |-> "ready_to_sign",
                POLICY_REQUIRE_APPROVAL |-> "pending_approval",
                POLICY_DENY             |-> "denied"]

TRANSITIONS ==
    [draft            |-> AfterPolicy,
     policy_evaluated |-> AfterPolicy,
     denied           |-> NoEvents,
     pending_approval |-> [APPROVAL_COMPLETED |-> "ready_to_sign",
                           APPROVAL_REJECTED  |-> "cancelled",
                           APPROVAL_EXPIRED   |-> "cancelled",
                           CANCELLED          |-> "cancelled"],
     ready_to_sign    |-> [PROPOSED  |-> "submitted",
                           CANCELLED |-> "cancelled"],
     submitted        |-> [ONCHAIN_SUCCESS |-> "executed",
                           ONCHAIN_FAILED  |-> "failed"],
     executed         |-> NoEvents,
     failed           |-> NoEvents,
     cancelled        |-> NoEvents]

\* The lookup; the source throws where the event is not in the row's domain,
\* which no caller reaches: each passes a literal status and event.
transitionIntentStatus(current, event) == TRANSITIONS[current][event]

policyEventFromDecision(decision) ==
    IF decision = "ALLOW" THEN "POLICY_ALLOW"
    ELSE IF decision = "DENY" THEN "POLICY_DENY"
    ELSE "POLICY_REQUIRE_APPROVAL"

\* The moves the table admits, as a relation between statuses.
LegalMove(from, to) ==
    \E e \in DOMAIN TRANSITIONS[from] : TRANSITIONS[from][e] = to
=============================================================================

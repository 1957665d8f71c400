--------------------------- MODULE IntentLifecycle --------------------------
(***************************************************************************)
(* The life of transaction intents: creation under a policy decision, the  *)
(* approval request and its votes, the expiry sweep, revocation of the     *)
(* creator's access, the proposal to the Safe Transaction Service, and the *)
(* tx-status job that follows the transfer.                                *)
(*                                                                         *)
(* The API keeps its state in PostgreSQL and Redis and almost never in a   *)
(* transaction, so every await of a handler is a point where the others    *)
(* run.  A call in flight is a record whose pc names the statement it will *)
(* run next and whose other fields are the locals the handler still uses;  *)
(* any number of handlers interleave, and (with Failures) a call may end   *)
(* at any await, leaving behind what it has written.                       *)
(***************************************************************************)
EXTENDS IntentStatus, Naturals, FiniteSets

CONSTANTS
    Intents,        \* intent ids
    Members,        \* members of the organisation
    Owner,          \* the member who creates each intent
    Payloads,       \* Safe transactions, up to equality of what is signed
    PayloadOf,      \* the Safe transaction an intent builds
    Calls,          \* handler invocations that may be in flight at once
    Revocable,      \* members whose access may be revoked
    MaxApprovers,   \* bound: the largest approverCount of a rule
    MaxAttempts,    \* attempts of a tx-status job (60 in the source)
    Failures        \* whether a call may fail or its process die

ASSUME LifecycleAssumption ==
    /\ IsFiniteSet(Members)
    /\ Owner \in [Intents -> Members]
    /\ PayloadOf \in [Intents -> Payloads]
    /\ Revocable \subseteq Members
    /\ MaxApprovers \in Nat \ {0}
    /\ MaxAttempts \in Nat \ {0}
    /\ Failures \in BOOLEAN

VARIABLES
    status,     \* transaction_intents.status, "absent" before the insert
    decision,   \* transaction_intents.policyDecisionJson.decision
    request,    \* the approval_requests row of an intent
    vote,       \* approval_decisions: one row per (request, member)
    eligible,   \* members resolveEligibleApproverMemberIds returns now
    call,       \* the handler invocations
    safe,       \* what the Safe service knows of a payload (external)
    job         \* the tx-status job of an intent, by its jobId

vars == <<status, decision, request, vote, eligible, call, safe, job>>
-----------------------------------------------------------------------------
(* Types *)

RequestStatuses == {"none", "pending", "fulfilled", "rejected", "expired"}

RequestRows == [status : RequestStatuses, required : 0 .. MaxApprovers]

NoRequest == [status |-> "none", required |-> 0]

Votes == {"approved", "rejected"}

Idle == [pc |-> "idle"]

IntentSteps ==
    {"create_request", "mark_pending",
     "count", "fulfil_request", "mark_ready", "reject_request", "mark_rejected",
     "expire_request", "mark_expired",
     "post", "mark_submitted", "enqueue", "mark_failed"}

CallRecords ==
    {Idle}
    \union [pc : {"insert"}, intent : Intents, decision : PolicyDecisions]
    \union [pc : {"check_eligible", "decide"},
            intent : Intents, member : Members, vote : Votes]
    \union [pc : IntentSteps, intent : Intents]
    \union [pc : {"cancel_intents"}, member : Members]

JobStates == {"none", "waiting", "polling", "executed", "failed", "giving_up", "done"}

JobRows == [state : JobStates, attempt : 0 .. MaxAttempts]

NoJob == [state |-> "none", attempt |-> 0]

TypeOK ==
    /\ status \in [Intents -> IntentStatuses \union {"absent"}]
    /\ decision \in [Intents -> PolicyDecisions \union {"none"}]
    /\ request \in [Intents -> RequestRows]
    /\ vote \in [Intents -> [Members -> Votes \union {"none"}]]
    /\ eligible \subseteq Members
    /\ call \in [Calls -> CallRecords]
    /\ safe \in [Payloads -> {"absent", "awaiting", "executed", "failed"}]
    /\ job \in [Intents -> JobRows]
-----------------------------------------------------------------------------
(* Calls *)

At(c, step) == call[c].pc = step

Start(c, frame) ==
    /\ call[c] = Idle
    /\ call' = [call EXCEPT ![c] = frame]

Goto(c, step) == call' = [call EXCEPT ![c] = [pc |-> step, intent |-> call[c].intent]]

Return(c) == call' = [call EXCEPT ![c] = Idle]

\* Every status write of the services is an update by id with no condition on
\* the status the row has by then.
UpdateStatus(i, new) == status' = [status EXCEPT ![i] = new]

UpdateRequest(i, new) == request' = [request EXCEPT ![i].status = new]

Approvals(i) == {m \in Members : vote[i][m] = "approved"}

isQuorumMet_Strict(approvalCount, requiredCount) == approvalCount > requiredCount

isQuorumMet(approvalCount, requiredCount) == approvalCount >= requiredCount
-----------------------------------------------------------------------------
(* IntentService.create and ApprovalService.createForIntent *)

\* The policy has been evaluated; the insert is still to come.
BeginCreate(c, i, d) ==
    /\ status[i] = "absent"
    /\ \A other \in Calls : At(other, "insert") => call[other].intent # i
    /\ Start(c, [pc |-> "insert", intent |-> i, decision |-> d])
    /\ UNCHANGED <<status, decision, request, vote, eligible, safe, job>>

\* Mutation: createForIntent without its check of the decision.
InsertIntent_RequestAlways(c) ==
    /\ At(c, "insert")
    /\ LET i == call[c].intent
           d == call[c].decision
       IN  /\ UpdateStatus(i, transitionIntentStatus("draft", policyEventFromDecision(d)))
           /\ decision' = [decision EXCEPT ![i] = d]
           /\ Goto(c, "create_request")
    /\ UNCHANGED <<request, vote, eligible, safe, job>>

\* A denied intent is stored too; the handler then answers with the denial.
InsertIntent(c) ==
    /\ At(c, "insert")
    /\ LET i == call[c].intent
           d == call[c].decision
       IN  /\ UpdateStatus(i, transitionIntentStatus("draft", policyEventFromDecision(d)))
           /\ decision' = [decision EXCEPT ![i] = d]
           /\ IF d = "REQUIRE_APPROVAL" THEN Goto(c, "create_request") ELSE Return(c)
    /\ UNCHANGED <<request, vote, eligible, safe, job>>

CreateRequest(c) ==
    /\ At(c, "create_request")
    /\ \E n \in 1 .. MaxApprovers :
          request' = [request EXCEPT ![call[c].intent] = [status |-> "pending", required |-> n]]
    /\ Goto(c, "mark_pending")
    /\ UNCHANGED <<status, decision, vote, eligible, safe, job>>

\* The intent was inserted as pending_approval and is written so again, over
\* whatever happened since the request became visible to the approvers.
MarkPending(c) ==
    /\ At(c, "mark_pending")
    /\ UpdateStatus(call[c].intent, "pending_approval")
    /\ Return(c)
    /\ UNCHANGED <<decision, request, vote, eligible, safe, job>>
-----------------------------------------------------------------------------
(* ApprovalService.recordDecision *)

\* Mutation: the check that the request is pending is dropped.
BeginDecide_AnyRequest(c, i, m, v) ==
    /\ request[i].status # "none"
    /\ Start(c, [pc |-> "check_eligible", intent |-> i, member |-> m, vote |-> v])
    /\ UNCHANGED <<status, decision, request, vote, eligible, safe, job>>

BeginDecide(c, i, m, v) ==
    /\ request[i].status = "pending"
    /\ Start(c, [pc |-> "check_eligible", intent |-> i, member |-> m, vote |-> v])
    /\ UNCHANGED <<status, decision, request, vote, eligible, safe, job>>

CheckEligible(c) ==
    /\ At(c, "check_eligible")
    /\ IF call[c].member \in eligible
       THEN call' = [call EXCEPT ![c].pc = "decide"]
       ELSE Return(c)
    /\ UNCHANGED <<status, decision, request, vote, eligible, safe, job>>

\* Mutation: an upsert instead of a create, with no unique index.
CreateDecision_Upsert(c) ==
    /\ At(c, "decide")
    /\ vote' = [vote EXCEPT ![call[c].intent][call[c].member] = call[c].vote]
    /\ Goto(c, IF call[c].vote = "rejected" THEN "reject_request" ELSE "count")
    /\ UNCHANGED <<status, decision, request, eligible, safe, job>>

\* hasMemberDecision and createDecision: the lookup only picks the error a
\* second vote gets, the unique (requestId, memberId) index is what refuses it.
CreateDecision(c) ==
    /\ At(c, "decide")
    /\ LET i == call[c].intent
           m == call[c].member
           v == call[c].vote
       IN  \/ /\ vote[i][m] = "none"
              /\ vote' = [vote EXCEPT ![i][m] = v]
              /\ Goto(c, IF v = "rejected" THEN "reject_request" ELSE "count")
           \/ /\ vote[i][m] # "none"
              /\ Return(c)
              /\ UNCHANGED vote
    /\ UNCHANGED <<status, decision, request, eligible, safe, job>>

\* Mutation: the intent is forgotten.
RejectRequest_Only(c) ==
    /\ At(c, "reject_request")
    /\ UpdateRequest(call[c].intent, "rejected")
    /\ Return(c)
    /\ UNCHANGED <<status, decision, vote, eligible, safe, job>>

RejectRequest(c) ==
    /\ At(c, "reject_request")
    /\ UpdateRequest(call[c].intent, "rejected")
    /\ Goto(c, "mark_rejected")
    /\ UNCHANGED <<status, decision, vote, eligible, safe, job>>

MarkRejected(c) ==
    /\ At(c, "mark_rejected")
    /\ UpdateStatus(call[c].intent,
                    transitionIntentStatus("pending_approval", "APPROVAL_REJECTED"))
    /\ Return(c)
    /\ UNCHANGED <<decision, request, vote, eligible, safe, job>>

\* Mutation: every decision counts, whatever it says.
CountApprovals_AnyVote(c) ==
    /\ At(c, "count")
    /\ LET i == call[c].intent
           decided == {m \in Members : vote[i][m] # "none"}
       IN  IF isQuorumMet(Cardinality(decided), request[i].required)
           THEN Goto(c, "fulfil_request")
           ELSE Return(c)
    /\ UNCHANGED <<status, decision, request, vote, eligible, safe, job>>

CountApprovals(c) ==
    /\ At(c, "count")
    /\ LET i == call[c].intent
       IN  IF isQuorumMet(Cardinality(Approvals(i)), request[i].required)
           THEN Goto(c, "fulfil_request")
           ELSE Return(c)
    /\ UNCHANGED <<status, decision, request, vote, eligible, safe, job>>

FulfilRequest(c) ==
    /\ At(c, "fulfil_request")
    /\ UpdateRequest(call[c].intent, "fulfilled")
    /\ Goto(c, "mark_ready")
    /\ UNCHANGED <<status, decision, vote, eligible, safe, job>>

MarkReady(c) ==
    /\ At(c, "mark_ready")
    /\ UpdateStatus(call[c].intent,
                    transitionIntentStatus("pending_approval", "APPROVAL_COMPLETED"))
    /\ Return(c)
    /\ UNCHANGED <<decision, request, vote, eligible, safe, job>>
-----------------------------------------------------------------------------
(* ApprovalService.expireRequest, run by the expiry sweep for the requests    *)
(* whose 72 hours are over; the model lets them run out at any moment.        *)

BeginExpire(c, i) ==
    /\ request[i].status = "pending"
    /\ Start(c, [pc |-> "expire_request", intent |-> i])
    /\ UNCHANGED <<status, decision, request, vote, eligible, safe, job>>

ExpireRequest(c) ==
    /\ At(c, "expire_request")
    /\ UpdateRequest(call[c].intent, "expired")
    /\ Goto(c, "mark_expired")
    /\ UNCHANGED <<status, decision, vote, eligible, safe, job>>

MarkExpired(c) ==
    /\ At(c, "mark_expired")
    /\ UpdateStatus(call[c].intent,
                    transitionIntentStatus("pending_approval", "APPROVAL_EXPIRED"))
    /\ Return(c)
    /\ UNCHANGED <<decision, request, vote, eligible, safe, job>>
-----------------------------------------------------------------------------
(* Access: assignments come and go, and a revocation (by an admin, or by the  *)
(* sweep at the end of an access window) cancels the member's open intents.   *)

GainRole(m) ==
    /\ eligible' = eligible \union {m}
    /\ UNCHANGED <<status, decision, request, vote, call, safe, job>>

LoseRole(m) ==
    /\ eligible' = eligible \ {m}
    /\ UNCHANGED <<status, decision, request, vote, call, safe, job>>

\* The assignment taken away may or may not be the one that made m an approver.
BeginRevoke(c, m) ==
    /\ m \in Revocable
    /\ eligible' \in {eligible, eligible \ {m}}
    /\ Start(c, [pc |-> "cancel_intents", member |-> m])
    /\ UNCHANGED <<status, decision, request, vote, safe, job>>

Cancellable == {"pending_approval", "ready_to_sign", "policy_evaluated"}

CancelByMember(c) ==
    /\ At(c, "cancel_intents")
    /\ status' = [i \in Intents |->
                     IF Owner[i] = call[c].member /\ status[i] \in Cancellable
                     THEN "cancelled" ELSE status[i]]
    /\ Return(c)
    /\ UNCHANGED <<decision, request, vote, eligible, safe, job>>
-----------------------------------------------------------------------------
(* IntentExecutionService.propose *)

\* Mutation: an intent awaiting approval can be proposed.
BeginPropose_Pending(c, i) ==
    /\ status[i] \in {"pending_approval", "ready_to_sign"}
    /\ Start(c, [pc |-> "post", intent |-> i])
    /\ UNCHANGED <<status, decision, request, vote, eligible, safe, job>>

BeginPropose(c, i) ==
    /\ status[i] = "ready_to_sign"
    /\ Start(c, [pc |-> "post", intent |-> i])
    /\ UNCHANGED <<status, decision, request, vote, eligible, safe, job>>

\* The Safe service takes the transaction, or answers 409 with the hash of one
\* it already holds, which the client passes on as a success.
Accept(p) == safe' = [safe EXCEPT ![p] = IF @ = "absent" THEN "awaiting" ELSE @]

ProposeAccepted(c) ==
    /\ At(c, "post")
    /\ Accept(PayloadOf[call[c].intent])
    /\ Goto(c, "mark_submitted")
    /\ UNCHANGED <<status, decision, request, vote, eligible, job>>

\* 429 and 503 are answered with a 503 and leave the intent as it is; any other
\* error of the service fails it.
ProposeRefused(c) ==
    /\ At(c, "post")
    /\ Return(c) \/ Goto(c, "mark_failed")
    /\ UNCHANGED <<status, decision, request, vote, eligible, safe, job>>

\* The service recorded the transaction but the API saw an error.
ProposeAnswerLost(c) ==
    /\ Failures
    /\ At(c, "post")
    /\ Accept(PayloadOf[call[c].intent])
    /\ Return(c) \/ Goto(c, "mark_failed")
    /\ UNCHANGED <<status, decision, request, vote, eligible, job>>

\* Mutation: no job follows the submission.
MarkSubmitted_NoJob(c) ==
    /\ At(c, "mark_submitted")
    /\ UpdateStatus(call[c].intent, transitionIntentStatus("ready_to_sign", "PROPOSED"))
    /\ Return(c)
    /\ UNCHANGED <<decision, request, vote, eligible, safe, job>>

MarkSubmitted(c) ==
    /\ At(c, "mark_submitted")
    /\ UpdateStatus(call[c].intent, transitionIntentStatus("ready_to_sign", "PROPOSED"))
    /\ Goto(c, "enqueue")
    /\ UNCHANGED <<decision, request, vote, eligible, safe, job>>

\* BullMQ ignores an add whose jobId exists; a completed job keeps its id until
\* removeOnComplete evicts it.
Enqueue(c) ==
    /\ At(c, "enqueue")
    /\ LET i == call[c].intent
           queued == [job EXCEPT ![i] = [state |-> "waiting", attempt |-> 1]]
       IN  \/ job[i].state \in {"none", "done"} /\ job' = queued
           \/ job[i].state # "none" /\ UNCHANGED job
    /\ Return(c)
    /\ UNCHANGED <<status, decision, request, vote, eligible, safe>>

MarkFailed(c) ==
    /\ At(c, "mark_failed")
    /\ UpdateStatus(call[c].intent, "failed")
    /\ Return(c)
    /\ UNCHANGED <<decision, request, vote, eligible, safe, job>>
-----------------------------------------------------------------------------
(* TxStatusProcessor.handle: one delivery of the job of intent i *)

SetJob(i, state) == job' = [job EXCEPT ![i].state = state]

\* The processor's catch: a retryable error is thrown back to BullMQ, which
\* delivers the job again, until the attempts are used up.
PollError(i) ==
    /\ Failures
    /\ \/ job[i].attempt < MaxAttempts
          /\ job' = [job EXCEPT ![i] = [state |-> "waiting", attempt |-> @.attempt + 1]]
       \/ job[i].attempt >= MaxAttempts /\ SetJob(i, "giving_up")

\* Mutation: the attempts are not bounded.
PollThrows_Unbounded(i) ==
    /\ Failures
    /\ job[i].state \in {"waiting", "giving_up"}
    /\ job' = [job EXCEPT ![i] = [state |-> "waiting", attempt |-> @.attempt + 1]]
    /\ UNCHANGED <<status, decision, request, vote, eligible, call, safe>>

\* Outside the try (the first read, the write that gives up) an error goes
\* straight to BullMQ, which drops the job after its last attempt.
PollThrows(i) ==
    /\ Failures
    /\ job[i].state \in {"waiting", "giving_up"}
    /\ job' = [job EXCEPT ![i] = IF @.attempt < MaxAttempts
                                 THEN [state |-> "waiting", attempt |-> @.attempt + 1]
                                 ELSE [@ EXCEPT !.state = "done"]]
    /\ UNCHANGED <<status, decision, request, vote, eligible, call, safe>>

PollStart(i) ==
    /\ job[i].state = "waiting"
    /\ SetJob(i, IF status[i] = "submitted" THEN "polling" ELSE "done")
    /\ UNCHANGED <<status, decision, request, vote, eligible, call, safe>>

\* Mutation: a transfer awaiting execution is taken for an executed one.
PollAnswer_Hasty(i) ==
    /\ job[i].state = "polling"
    /\ safe[PayloadOf[i]] \in {"awaiting", "executed"} /\ SetJob(i, "executed")
    /\ UNCHANGED <<status, decision, request, vote, eligible, call, safe>>

\* A transfer that is still awaiting confirmations (or executed, with no txHash
\* yet) ends the delivery normally, so BullMQ completes the job.
PollAnswer(i) ==
    /\ job[i].state = "polling"
    /\ \/ safe[PayloadOf[i]] = "executed" /\ SetJob(i, "executed")
       \/ safe[PayloadOf[i]] = "failed" /\ SetJob(i, "failed")
       \/ /\ safe[PayloadOf[i]] \in {"awaiting", "executed"}
          /\ SetJob(i, IF job[i].attempt >= MaxAttempts THEN "giving_up" ELSE "done")
       \/ Failures /\ SetJob(i, "giving_up")     \* an error that is not retryable
       \/ PollError(i)
    /\ UNCHANGED <<status, decision, request, vote, eligible, call, safe>>

\* The outcome is written and audited inside the try: when the write, or the
\* audit after it, fails, the catch runs.
PollRecord(i, state, new) ==
    /\ job[i].state = state
    /\ \/ UpdateStatus(i, new) /\ (SetJob(i, "done") \/ PollError(i))
       \/ UNCHANGED status /\ PollError(i)
    /\ UNCHANGED <<decision, request, vote, eligible, call, safe>>

PollExecuted(i) ==
    PollRecord(i, "executed", transitionIntentStatus("submitted", "ONCHAIN_SUCCESS"))

PollFailed(i) ==
    PollRecord(i, "failed", transitionIntentStatus("submitted", "ONCHAIN_FAILED"))

PollGiveUp(i) ==
    /\ job[i].state = "giving_up"
    /\ UpdateStatus(i, "failed")
    /\ SetJob(i, "done")
    /\ UNCHANGED <<decision, request, vote, eligible, call, safe>>

\* The worker dies; BullMQ hands the stalled job out again.
PollStalled(i) ==
    /\ Failures
    /\ job[i].state \in {"polling", "executed", "failed", "giving_up"}
    /\ SetJob(i, "waiting")
    /\ UNCHANGED <<status, decision, request, vote, eligible, call, safe>>
-----------------------------------------------------------------------------
(* Environment *)

\* The owners sign and execute, or cancel or fail, a transfer on the Safe.
SafeSettles(p) ==
    /\ safe[p] = "awaiting"
    /\ safe' \in {[safe EXCEPT ![p] = "executed"], [safe EXCEPT ![p] = "failed"]}
    /\ UNCHANGED <<status, decision, request, vote, eligible, call, job>>

\* An await rejects or the process dies: nothing written is undone.
CallFails(c) ==
    /\ Failures
    /\ call[c] # Idle
    /\ Return(c)
    /\ UNCHANGED <<status, decision, request, vote, eligible, safe, job>>
-----------------------------------------------------------------------------
Init ==
    /\ status = [i \in Intents |-> "absent"]
    /\ decision = [i \in Intents |-> "none"]
    /\ request = [i \in Intents |-> NoRequest]
    /\ vote = [i \in Intents |-> [m \in Members |-> "none"]]
    /\ eligible \in SUBSET Members
    /\ call = [c \in Calls |-> Idle]
    /\ safe = [p \in Payloads |-> "absent"]
    /\ job = [i \in Intents |-> NoJob]

Begin(c) ==
    \/ \E i \in Intents :
          \/ \E d \in PolicyDecisions : BeginCreate(c, i, d)
          \/ \E m \in Members, v \in Votes : BeginDecide(c, i, m, v)
          \/ BeginExpire(c, i)
          \/ BeginPropose(c, i)
    \/ \E m \in Members : BeginRevoke(c, m)

Continue(c) ==
    \/ InsertIntent(c) \/ CreateRequest(c) \/ MarkPending(c)
    \/ CheckEligible(c) \/ CreateDecision(c)
    \/ RejectRequest(c) \/ MarkRejected(c)
    \/ CountApprovals(c) \/ FulfilRequest(c) \/ MarkReady(c)
    \/ ExpireRequest(c) \/ MarkExpired(c)
    \/ CancelByMember(c)
    \/ ProposeAccepted(c) \/ ProposeRefused(c) \/ ProposeAnswerLost(c)
    \/ MarkSubmitted(c) \/ Enqueue(c) \/ MarkFailed(c)

Poll(i) ==
    \/ PollStart(i) \/ PollAnswer(i) \/ PollExecuted(i) \/ PollFailed(i) \/ PollGiveUp(i)
    \/ PollThrows(i) \/ PollStalled(i)

Next ==
    \/ \E c \in Calls : Begin(c) \/ Continue(c) \/ CallFails(c)
    \/ \E i \in Intents : Poll(i)
    \/ \E m \in Members : GainRole(m) \/ LoseRole(m)
    \/ \E p \in Payloads : SafeSettles(p)

Spec == Init /\ [][Next]_vars
-----------------------------------------------------------------------------
(* What must hold however the handlers interleave and wherever they stop *)

Quorum(i) ==
    /\ request[i].status # "none"
    /\ Cardinality(Approvals(i)) >= request[i].required

\* The policy allowed the intent, or required approval and its quorum approved.
Authorised(i) ==
    \/ decision[i] = "ALLOW"
    \/ decision[i] = "REQUIRE_APPROVAL" /\ Quorum(i)

AuthorisedIntents == {i \in Intents : Authorised(i)}

\* No intent is ready to sign, submitted, executed or failed, and no transfer
\* is on the Safe, unless the policy allowed it or the required number of
\* distinct members approved it: recordDecision counts and only then writes,
\* and propose posts on a status it read some awaits before.
OnlyAuthorisedMoves ==
    /\ \A i \in Intents :
          status[i] \in {"ready_to_sign", "submitted", "executed", "failed"} => Authorised(i)
    /\ \A p \in Payloads :
          safe[p] # "absent" => \E i \in Intents : PayloadOf[i] = p /\ Authorised(i)

\* A request is fulfilled only with its quorum of approvals behind it.
FulfilledByQuorum ==
    \A i \in Intents : request[i].status = "fulfilled" => Quorum(i)

\* An intent is executed in the database only when the Safe executed its
\* transfer, whatever answer the tx-status job holds while others write.
ExecutedOnSafe ==
    \A i \in Intents : status[i] = "executed" => safe[PayloadOf[i]] = "executed"

\* What the policy denied stays denied: no request, revocation, sweep or retry
\* writes the row again.
DeniedIsFinal ==
    \A i \in Intents :
       decision[i] = "DENY" => status[i] = "denied" /\ request[i].status = "none"

\* The lifecycle implements the abstract promise.
Abstract == INSTANCE AuthorisedTransfers WITH
    authorised <- AuthorisedIntents,
    onSafe     <- {p \in Payloads : safe[p] # "absent"},
    executedOn <- {p \in Payloads : safe[p] = "executed"},
    recorded   <- {i \in Intents : status[i] = "executed"}

ImplementsAbstract == Abstract!Spec
-----------------------------------------------------------------------------
(* The inductive invariant.  OnlyAuthorisedMoves and its companions speak of  *)
(* rows alone; a step of a call in flight is only as good as what the call    *)
(* checked before, so the invariant also says what every call and every job   *)
(* still has behind it.                                                       *)

\* Steps a call reaches only after the intent was authorised.
AuthorisedSteps ==
    {"fulfil_request", "mark_ready", "post", "mark_submitted", "enqueue", "mark_failed"}

\* Steps of a call that has seen the approval request.
RequestSteps ==
    {"mark_pending", "check_eligible", "decide", "count", "fulfil_request", "mark_ready",
     "reject_request", "mark_rejected", "expire_request", "mark_expired"}

\* A call never acts on an authorisation, or a request, that has gone away.
CallBacked(c) ==
    /\ call[c].pc \in AuthorisedSteps => call[c].intent \in AuthorisedIntents
    /\ call[c].pc \in RequestSteps => request[call[c].intent].status # "none"

CallsBacked == \A c \in Calls : CallBacked(c)

\* The call that creates an intent is the only one to, until its request is there.
CreatorsAlone ==
    /\ \A c \in Calls :
          /\ At(c, "insert") => status[call[c].intent] = "absent"
          /\ At(c, "create_request") =>
                /\ decision[call[c].intent] = "REQUIRE_APPROVAL"
                /\ request[call[c].intent].status = "none"
    /\ \A c, other \in Calls :
          /\ call[c].pc \in {"insert", "create_request"}
          /\ call[other].pc = call[c].pc
          /\ call[other].intent = call[c].intent
          => other = c

\* The intent row has its decision, and only a decision to require approval
\* gives it a request.
RowsAgree ==
    \A i \in Intents :
       /\ status[i] = "absent" <=> decision[i] = "none"
       /\ request[i].status # "none" => decision[i] = "REQUIRE_APPROVAL"

\* Only authorised intents have jobs, and a job that is about to record an
\* execution has seen it on the Safe.
JobsBacked ==
    \A i \in Intents :
       /\ job[i].state # "none" => Authorised(i)
       /\ job[i].state = "executed" => safe[PayloadOf[i]] = "executed"

\* What a handler or a job goes on with stays true of the rows until it writes,
\* however many awaits lie between the check and the write.
Backing == CallsBacked /\ CreatorsAlone /\ RowsAgree /\ JobsBacked

IInv ==
    /\ TypeOK /\ Backing
    /\ OnlyAuthorisedMoves /\ FulfilledByQuorum /\ ExecutedOnSafe /\ DeniedIsFinal
-----------------------------------------------------------------------------
(* What must hold as long as no call fails half-way *)

\* A quorum is never missed: when the approvals suffice and the request is
\* still pending, the call that will close it is under way.  Two approvers who
\* vote together both count after writing, so at least one sees the total.
QuorumNotMissed ==
    \A i \in Intents :
       Quorum(i) /\ request[i].status = "pending" =>
          \E c \in Calls :
             call[c].pc \in {"count", "fulfil_request"} /\ call[c].intent = i

\* And it is acted on: a request does not stay pending on a met quorum.
QuorumCloses ==
    \A i \in Intents : Quorum(i) ~> request[i].status # "pending"

\* A submitted intent has a tx-status job, or the call that will add it.
SubmittedIsTracked ==
    \A i \in Intents :
       status[i] = "submitted" =>
          \/ job[i].state # "none"
          \/ \E c \in Calls : At(c, "enqueue") /\ call[c].intent = i
-----------------------------------------------------------------------------
(* What must hold when, besides, calls do not overlap *)

\* Every status change is one of the table's, or the failure of an intent
\* whose proposal the Safe service refused.
StatusFollowsTable ==
    [][\A i \in Intents :
          status'[i] # status[i] =>
             \/ status[i] = "absent"
             \/ LegalMove(status[i], status'[i])
             \/ status[i] = "ready_to_sign" /\ status'[i] = "failed"]_status

Resting == \A c \in Calls : call[c] = Idle

\* Between calls, a rejection has cancelled the intent (approval.service.spec:
\* "rejects intent on single rejection") and a pending intent has a request
\* still open to be decided.
RequestAndIntentAgree ==
    Resting =>
       \A i \in Intents :
          /\ (\E m \in Members : vote[i][m] = "rejected") => status[i] = "cancelled"
          /\ status[i] = "pending_approval" => request[i].status = "pending"
-----------------------------------------------------------------------------
(* Statements of the repository that the code does not keep *)

\* TRANSITIONS gives cancelled no outgoing event.
CancelledIsFinal ==
    [][\A i \in Intents : status[i] = "cancelled" => status'[i] = "cancelled"]_status

\* approval.service.spec: "rejects intent on single rejection".
SingleRejectionRejects ==
    Resting =>
       \A i \in Intents :
          (\E m \in Members : vote[i][m] = "rejected") =>
             status[i] \notin {"ready_to_sign", "submitted", "executed"}

Running == \A c \in Calls : WF_vars(Continue(c))

\* The processor keeps being run, and the owners act on what is on the Safe.
Tracking == (\A i \in Intents : WF_vars(Poll(i))) /\ (\A p \in Payloads : WF_vars(SafeSettles(p)))

FairSpec == Spec /\ Running /\ Tracking

\* docs/user-guide.md: "When quorum is met, the intent moves to ready to sign".
QuorumLeavesPending ==
    \A i \in Intents : Quorum(i) ~> status[i] # "pending_approval"

\* docs/user-guide.md: the transaction is "tracked until executed on-chain".
SubmittedSettles ==
    \A i \in Intents : status[i] = "submitted" ~> status[i] # "submitted"
=============================================================================

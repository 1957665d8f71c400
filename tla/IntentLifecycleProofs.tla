------------------------ MODULE IntentLifecycleProofs -----------------------
(***************************************************************************)
(* Proofs about IntentLifecycle, for every value of its constants; at the  *)
(* end, that it implements AuthorisedTransfers.                            *)
(***************************************************************************)
EXTENDS IntentLifecycle, FiniteSetTheorems, TLAPS

-----------------------------------------------------------------------------
(* Types *)

\* The locals a call holds at each step have the types its handler gave them.
LEMMA CallFields ==
    ASSUME NEW c \in Calls, TypeOK
    PROVE  /\ call[c].pc = "insert" =>
                 call[c].intent \in Intents /\ call[c].decision \in PolicyDecisions
           /\ call[c].pc \in {"check_eligible", "decide"} =>
                 /\ call[c].intent \in Intents
                 /\ call[c].member \in Members
                 /\ call[c].vote \in Votes
           /\ call[c].pc \in IntentSteps => call[c].intent \in Intents
           /\ call[c].pc = "cancel_intents" => call[c].member \in Members
<1>1. call[c] \in CallRecords
  BY DEF TypeOK
<1>2. QED
  BY <1>1 DEF CallRecords, Idle, IntentSteps

\* Going to another step of the handler keeps the call typed.
LEMMA GotoTyped ==
    ASSUME NEW c \in Calls, TypeOK, NEW step \in IntentSteps,
           call[c].intent \in Intents, Goto(c, step)
    PROVE  call' \in [Calls -> CallRecords]
<1>1. [pc |-> step, intent |-> call[c].intent] \in CallRecords
  BY DEF CallRecords
<1>2. QED
  BY <1>1 DEF Goto, TypeOK

\* Returning to the caller keeps the call typed.
LEMMA ReturnTyped ==
    ASSUME NEW c \in Calls, TypeOK, Return(c)
    PROVE  call' \in [Calls -> CallRecords]
  BY DEF Return, TypeOK, CallRecords

\* A call that starts with a typed frame is typed.
LEMMA StartTyped ==
    ASSUME NEW c \in Calls, TypeOK, NEW frame \in CallRecords, Start(c, frame)
    PROVE  call' \in [Calls -> CallRecords]
  BY DEF Start, TypeOK

\* Setting one column of a row keeps the row typed.
LEMMA UpdateRequestTyped ==
    ASSUME TypeOK, NEW i \in Intents, NEW new \in RequestStatuses, UpdateRequest(i, new)
    PROVE  request' \in [Intents -> RequestRows]
<1>1. request[i] \in RequestRows
  BY DEF TypeOK
<1>2. [request[i] EXCEPT !.status = new] \in RequestRows
  BY <1>1 DEF RequestRows
<1>3. QED
  BY <1>2 DEF UpdateRequest, TypeOK

\* Writing the state of a job keeps the jobs typed.
LEMMA SetJobTyped ==
    ASSUME TypeOK, NEW i \in Intents, NEW state \in JobStates, SetJob(i, state)
    PROVE  job' \in [Intents -> JobRows]
<1>1. job[i] \in JobRows
  BY DEF TypeOK
<1>2. [job[i] EXCEPT !.state = state] \in JobRows
  BY <1>1 DEF JobRows
<1>3. QED
  BY <1>2 DEF SetJob, TypeOK

\* The processor's catch keeps the attempts within their bound, and the jobs typed.
LEMMA PollErrorTyped ==
    ASSUME TypeOK, NEW i \in Intents, PollError(i)
    PROVE  job' \in [Intents -> JobRows]
<1>1. CASE job' = [job EXCEPT ![i] = [state |-> "waiting", attempt |-> @.attempt + 1]]
           /\ job[i].attempt < MaxAttempts
  <2>1. job[i] \in JobRows
    BY DEF TypeOK
  <2>2. [state |-> "waiting", attempt |-> job[i].attempt + 1] \in JobRows
    BY <1>1, <2>1, LifecycleAssumption DEF JobRows, JobStates
  <2>3. QED
    BY <1>1, <2>2 DEF TypeOK
<1>2. CASE SetJob(i, "giving_up")
  BY <1>2, SetJobTyped DEF JobStates
<1>3. QED
  BY <1>1, <1>2 DEF PollError

\* The status the table gives for each event the services name.
LEMMA TableEntries ==
    /\ \A d \in PolicyDecisions :
          transitionIntentStatus("draft", policyEventFromDecision(d)) =
             IF d = "ALLOW" THEN "ready_to_sign"
             ELSE IF d = "DENY" THEN "denied" ELSE "pending_approval"
    /\ transitionIntentStatus("pending_approval", "APPROVAL_COMPLETED") = "ready_to_sign"
    /\ transitionIntentStatus("pending_approval", "APPROVAL_REJECTED") = "cancelled"
    /\ transitionIntentStatus("pending_approval", "APPROVAL_EXPIRED") = "cancelled"
    /\ transitionIntentStatus("ready_to_sign", "PROPOSED") = "submitted"
    /\ transitionIntentStatus("submitted", "ONCHAIN_SUCCESS") = "executed"
    /\ transitionIntentStatus("submitted", "ONCHAIN_FAILED") = "failed"
  BY DEF transitionIntentStatus, TRANSITIONS, AfterPolicy, policyEventFromDecision,
         PolicyDecisions

\* Every frame a call can start with is typed.
LEMMA StartFrames ==
    ASSUME NEW i \in Intents, NEW m \in Members
    PROVE  /\ \A d \in PolicyDecisions :
                 [pc |-> "insert", intent |-> i, decision |-> d] \in CallRecords
           /\ \A v \in Votes :
                 [pc |-> "check_eligible", intent |-> i, member |-> m, vote |-> v]
                    \in CallRecords
           /\ [pc |-> "expire_request", intent |-> i] \in CallRecords
           /\ [pc |-> "post", intent |-> i] \in CallRecords
           /\ [pc |-> "cancel_intents", member |-> m] \in CallRecords
  BY DEF CallRecords, IntentSteps

\* Starting a handler keeps the state typed.
LEMMA TypeBegin ==
    ASSUME TypeOK, NEW c \in Calls, Begin(c)
    PROVE  TypeOK'
<1> USE DEF TypeOK
<1>1. ASSUME NEW i \in Intents, NEW d \in PolicyDecisions, BeginCreate(c, i, d)
      PROVE  TypeOK'
  <2>1. [pc |-> "insert", intent |-> i, decision |-> d] \in CallRecords
    BY <1>1 DEF CallRecords
  <2>2. QED
    BY <1>1, <2>1 DEF BeginCreate, Start
<1>2. ASSUME NEW i \in Intents, NEW m \in Members, NEW v \in Votes, BeginDecide(c, i, m, v)
      PROVE  TypeOK'
  BY <1>2, StartFrames DEF BeginDecide, Start
<1>3. ASSUME NEW i \in Intents, BeginExpire(c, i)
      PROVE  TypeOK'
  <2>1. [pc |-> "expire_request", intent |-> i] \in CallRecords
    BY DEF CallRecords, IntentSteps
  <2>2. QED
    BY <1>3, <2>1 DEF BeginExpire, Start
<1>4. ASSUME NEW i \in Intents, BeginPropose(c, i)
      PROVE  TypeOK'
  <2>1. [pc |-> "post", intent |-> i] \in CallRecords
    BY DEF CallRecords, IntentSteps
  <2>2. QED
    BY <1>4, <2>1 DEF BeginPropose, Start
<1>5. ASSUME NEW m \in Members, BeginRevoke(c, m)
      PROVE  TypeOK'
  <2>1. [pc |-> "cancel_intents", member |-> m] \in CallRecords
    BY DEF CallRecords
  <2>2. QED
    BY <1>5, <2>1 DEF BeginRevoke, Start
<1>6. QED
  BY <1>1, <1>2, <1>3, <1>4, <1>5 DEF Begin

\* Every step of a handler keeps the state typed.
LEMMA TypeContinue ==
    ASSUME TypeOK, NEW c \in Calls, Continue(c)
    PROVE  TypeOK'
<1> USE LifecycleAssumption DEF TypeOK
<1>1. CASE InsertIntent(c)
  <2>1. call[c].intent \in Intents /\ call[c].decision \in PolicyDecisions
    BY <1>1, CallFields DEF InsertIntent, At
  <2>2. call' \in [Calls -> CallRecords]
    BY <1>1, <2>1, GotoTyped, ReturnTyped DEF InsertIntent, IntentSteps
  <2>3. QED
    BY <1>1, <2>1, <2>2, TableEntries
    DEF InsertIntent, UpdateStatus, IntentStatuses, PolicyDecisions
<1>2. CASE CreateRequest(c)
  <2>1. call[c].intent \in Intents
    BY <1>2, CallFields DEF CreateRequest, At, IntentSteps
  <2>2. call' \in [Calls -> CallRecords]
    BY <1>2, <2>1, GotoTyped DEF CreateRequest, IntentSteps
  <2>3. QED
    BY <1>2, <2>1, <2>2 DEF CreateRequest, RequestRows, RequestStatuses
<1>3. CASE CheckEligible(c)
  <2>1. call[c] \in CallRecords /\ call[c].pc = "check_eligible"
    BY <1>3 DEF CheckEligible, At
  <2>2. call[c] \in [pc : {"check_eligible", "decide"},
                     intent : Intents, member : Members, vote : Votes]
    BY <2>1 DEF CallRecords, Idle, IntentSteps
  <2>3. [call[c] EXCEPT !.pc = "decide"] \in
           [pc : {"check_eligible", "decide"},
            intent : Intents, member : Members, vote : Votes]
    BY <2>2
  <2>4. [call[c] EXCEPT !.pc = "decide"] \in CallRecords
    BY <2>3 DEF CallRecords
  <2>5. QED
    BY <1>3, <2>4, ReturnTyped DEF CheckEligible
<1>4. CASE CreateDecision(c)
  <2>1. /\ call[c].intent \in Intents
        /\ call[c].member \in Members
        /\ call[c].vote \in Votes
    BY <1>4, CallFields DEF CreateDecision, At
  <2>2. call' \in [Calls -> CallRecords]
    BY <1>4, <2>1, GotoTyped, ReturnTyped DEF CreateDecision, IntentSteps
  <2>3. vote' \in [Intents -> [Members -> Votes \union {"none"}]]
    <3>1. [vote[call[c].intent] EXCEPT ![call[c].member] = call[c].vote]
             \in [Members -> Votes \union {"none"}]
      BY <2>1
    <3>2. QED
      BY <1>4, <2>1, <3>1 DEF CreateDecision
  <2>4. QED
    BY <1>4, <2>2, <2>3 DEF CreateDecision
<1>5. CASE CountApprovals(c)
  <2>1. call[c].intent \in Intents
    BY <1>5, CallFields DEF CountApprovals, At, IntentSteps
  <2>2. call' \in [Calls -> CallRecords]
    BY <1>5, <2>1, GotoTyped, ReturnTyped DEF CountApprovals, IntentSteps
  <2>3. QED
    BY <1>5, <2>2 DEF CountApprovals
<1>6. CASE RejectRequest(c) \/ FulfilRequest(c) \/ ExpireRequest(c)
  <2>1. call[c].intent \in Intents
    BY <1>6, CallFields DEF RejectRequest, FulfilRequest, ExpireRequest, At, IntentSteps
  <2>2. call' \in [Calls -> CallRecords]
    BY <1>6, <2>1, GotoTyped DEF RejectRequest, FulfilRequest, ExpireRequest, IntentSteps
  <2>3. QED
    <3>1. request' \in [Intents -> RequestRows]
      BY <1>6, <2>1, UpdateRequestTyped
      DEF RejectRequest, FulfilRequest, ExpireRequest, RequestStatuses
    <3>2. QED
      BY <1>6, <2>2, <3>1 DEF RejectRequest, FulfilRequest, ExpireRequest
<1>7. CASE MarkPending(c) \/ MarkRejected(c) \/ MarkReady(c) \/ MarkExpired(c) \/ MarkFailed(c)
  <2>1. call[c].intent \in Intents
    BY <1>7, CallFields
    DEF MarkPending, MarkRejected, MarkReady, MarkExpired, MarkFailed, At, IntentSteps
  <2>2. call' \in [Calls -> CallRecords]
    BY <1>7, ReturnTyped DEF MarkPending, MarkRejected, MarkReady, MarkExpired, MarkFailed
  <2>3. QED
    BY <1>7, <2>1, <2>2, TableEntries
    DEF MarkPending, MarkRejected, MarkReady, MarkExpired, MarkFailed, UpdateStatus,
        IntentStatuses
<1>8. CASE CancelByMember(c)
  <2>1. status' \in [Intents -> IntentStatuses \union {"absent"}]
    BY <1>8 DEF CancelByMember, IntentStatuses
  <2>2. QED
    BY <1>8, <2>1, ReturnTyped DEF CancelByMember
<1>9. CASE ProposeAccepted(c) \/ ProposeRefused(c) \/ ProposeAnswerLost(c)
  <2>1. call[c].intent \in Intents
    BY <1>9, CallFields
    DEF ProposeAccepted, ProposeRefused, ProposeAnswerLost, At, IntentSteps
  <2>2. call' \in [Calls -> CallRecords]
    BY <1>9, <2>1, GotoTyped, ReturnTyped
    DEF ProposeAccepted, ProposeRefused, ProposeAnswerLost, IntentSteps
  <2>3. safe' \in [Payloads -> {"absent", "awaiting", "executed", "failed"}]
    BY <1>9, <2>1 DEF ProposeAccepted, ProposeRefused, ProposeAnswerLost, Accept
  <2>4. QED
    BY <1>9, <2>2, <2>3 DEF ProposeAccepted, ProposeRefused, ProposeAnswerLost
<1>10. CASE MarkSubmitted(c)
  <2>1. call[c].intent \in Intents
    BY <1>10, CallFields DEF MarkSubmitted, At, IntentSteps
  <2>2. call' \in [Calls -> CallRecords]
    BY <1>10, <2>1, GotoTyped DEF MarkSubmitted, IntentSteps
  <2>3. QED
    BY <1>10, <2>1, <2>2, TableEntries DEF MarkSubmitted, UpdateStatus, IntentStatuses
<1>11. CASE Enqueue(c)
  <2>1. call[c].intent \in Intents
    BY <1>11, CallFields DEF Enqueue, At, IntentSteps
  <2>2. job' \in [Intents -> JobRows]
    <3>1. [state |-> "waiting", attempt |-> 1] \in JobRows
      BY DEF JobRows, JobStates
    <3>2. QED
      BY <1>11, <2>1, <3>1 DEF Enqueue
  <2>3. QED
    BY <1>11, <2>2, ReturnTyped DEF Enqueue
<1>12. QED
  BY <1>1, <1>2, <1>3, <1>4, <1>5, <1>6, <1>7, <1>8, <1>9, <1>10, <1>11 DEF Continue

\* Every step of the tx-status job keeps the state typed.
LEMMA TypePoll ==
    ASSUME TypeOK, NEW i \in Intents, Poll(i)
    PROVE  TypeOK'
<1> USE LifecycleAssumption DEF TypeOK
<1>1. \A state \in JobStates : SetJob(i, state) => job' \in [Intents -> JobRows]
  BY SetJobTyped
<1>2. PollError(i) => job' \in [Intents -> JobRows]
  BY PollErrorTyped
<1>3. CASE PollThrows(i)
  <2>1. job[i] \in JobRows
    OBVIOUS
  <2>2. [job[i] EXCEPT !.state = "done"] \in JobRows
    BY <2>1 DEF JobRows, JobStates
  <2>3. job[i].attempt < MaxAttempts =>
           [state |-> "waiting", attempt |-> job[i].attempt + 1] \in JobRows
    BY <2>1 DEF JobRows, JobStates
  <2>4. job' \in [Intents -> JobRows]
    BY <1>3, <2>2, <2>3 DEF PollThrows
  <2>5. QED
    BY <1>3, <2>4 DEF PollThrows
<1>4. CASE PollStart(i)
  BY <1>1, <1>4 DEF PollStart, JobStates
<1>5. CASE PollAnswer(i)
  BY <1>1, <1>2, <1>5 DEF PollAnswer, JobStates
<1>6. CASE PollExecuted(i) \/ PollFailed(i)
  <2>1. status' \in [Intents -> IntentStatuses \union {"absent"}]
    BY <1>6, TableEntries
    DEF PollExecuted, PollFailed, PollRecord, UpdateStatus, IntentStatuses
  <2>2. job' \in [Intents -> JobRows]
    BY <1>1, <1>2, <1>6 DEF PollExecuted, PollFailed, PollRecord, JobStates
  <2>3. QED
    BY <1>6, <2>1, <2>2 DEF PollExecuted, PollFailed, PollRecord
<1>7. CASE PollGiveUp(i)
  BY <1>1, <1>7 DEF PollGiveUp, UpdateStatus, JobStates, IntentStatuses
<1>8. CASE PollStalled(i)
  BY <1>1, <1>8 DEF PollStalled, JobStates
<1>9. QED
  BY <1>3, <1>4, <1>5, <1>6, <1>7, <1>8 DEF Poll

\* Every step keeps the state typed.
LEMMA TypeStep ==
    ASSUME TypeOK, [Next]_vars
    PROVE  TypeOK'
<1>1. ASSUME NEW c \in Calls, Begin(c) PROVE TypeOK'
  BY <1>1, TypeBegin
<1>2. ASSUME NEW c \in Calls, Continue(c) PROVE TypeOK'
  BY <1>2, TypeContinue
<1>3. ASSUME NEW c \in Calls, CallFails(c) PROVE TypeOK'
  BY <1>3, ReturnTyped DEF CallFails, TypeOK
<1>4. ASSUME NEW i \in Intents, Poll(i) PROVE TypeOK'
  BY <1>4, TypePoll
<1>5. ASSUME NEW m \in Members, GainRole(m) \/ LoseRole(m) PROVE TypeOK'
  BY <1>5 DEF GainRole, LoseRole, TypeOK
<1>6. ASSUME NEW p \in Payloads, SafeSettles(p) PROVE TypeOK'
  BY <1>6 DEF SafeSettles, TypeOK
<1>7. CASE UNCHANGED vars
  BY <1>7 DEF vars, TypeOK
<1>8. QED
  BY <1>1, <1>2, <1>3, <1>4, <1>5, <1>6, <1>7 DEF Next

\* The rows, the calls in flight, the jobs and the Safe keep their types, so
\* no update of the handlers writes outside what the schema and the queue hold.
THEOREM TypeCorrect == Spec => []TypeOK
<1>1. Init => TypeOK
  BY LifecycleAssumption
  DEF Init, TypeOK, RequestRows, NoRequest, RequestStatuses, JobRows, Votes, CallRecords,
      NoJob, JobStates
<1>2. TypeOK /\ [Next]_vars => TypeOK'
  BY TypeStep
<1>3. QED
  BY <1>1, <1>2, PTL DEF Spec

-----------------------------------------------------------------------------
(* What was authorised stays authorised *)

\* The rows only grow: a decision, an approval and a request, once stored, stay,
\* and a request keeps its required count.
RowsGrow ==
    \A i \in Intents :
       /\ decision[i] # "none" => decision'[i] = decision[i]
       /\ \A m \in Members : vote[i][m] = "approved" => vote'[i][m] = "approved"
       /\ request[i].status # "none" =>
             /\ request'[i].status # "none"
             /\ request'[i].required = request[i].required

\* Rows that only grow keep a quorum a quorum and an authorisation standing:
\* the approvals are a finite set that can only get larger.
LEMMA GrowthKeeps ==
    ASSUME RowsGrow, TypeOK, TypeOK', NEW i \in Intents
    PROVE  /\ Quorum(i) => Quorum(i)'
           /\ Authorised(i) => Authorised(i)'
<1>1. Quorum(i) => Quorum(i)'
  <2> SUFFICES ASSUME Quorum(i) PROVE Quorum(i)'
    OBVIOUS
  <2>1. Approvals(i) \subseteq Approvals(i)'
    BY DEF RowsGrow, Approvals
  <2>2. IsFiniteSet(Approvals(i)') /\ IsFiniteSet(Approvals(i))
    BY FS_Subset, LifecycleAssumption DEF Approvals
  <2>3. Cardinality(Approvals(i)) <= Cardinality(Approvals(i)')
    BY <2>1, <2>2, FS_Subset
  <2>4. Cardinality(Approvals(i)) \in Nat /\ Cardinality(Approvals(i)') \in Nat
    BY <2>2, FS_CardinalityType
  <2>5. request[i] \in RequestRows /\ request'[i] \in RequestRows
    BY DEF TypeOK
  <2>6. request[i].required \in Nat /\ request'[i].required = request[i].required
    BY <2>5 DEF RequestRows, Quorum, RowsGrow
  <2>7. Cardinality(Approvals(i)') >= request'[i].required
    BY <2>3, <2>4, <2>6 DEF Quorum
  <2>8. QED
    BY <2>7 DEF Quorum, RowsGrow
<1>2. QED
  BY <1>1 DEF RowsGrow, Authorised

\* Every step lets the rows grow.
LEMMA StepsGrow ==
    ASSUME IInv, [Next]_vars
    PROVE  RowsGrow
<1> USE DEF RowsGrow
<1>1. TypeOK /\ Backing
  BY DEF IInv
<1>2. ASSUME NEW c \in Calls, Begin(c) PROVE RowsGrow
  BY <1>2 DEF Begin, BeginCreate, BeginDecide, BeginExpire, BeginPropose, BeginRevoke
<1>3. ASSUME NEW c \in Calls, Continue(c) PROVE RowsGrow
  <2>1. CASE InsertIntent(c)
    <3>1. call[c].intent \in Intents /\ decision[call[c].intent] = "none"
      BY <1>1, <2>1, CallFields
      DEF InsertIntent, At, Backing, CreatorsAlone, RowsAgree
    <3>2. QED
      BY <1>1, <2>1, <3>1 DEF InsertIntent, TypeOK
  <2>2. CASE CreateRequest(c)
    <3>1. call[c].intent \in Intents /\ request[call[c].intent].status = "none"
      BY <1>1, <2>2, CallFields
      DEF CreateRequest, At, Backing, CreatorsAlone, IntentSteps
    <3>2. QED
      BY <1>1, <2>2, <3>1 DEF CreateRequest, TypeOK
  <2>3. CASE CreateDecision(c)
    <3>1. call[c].intent \in Intents /\ call[c].member \in Members
      BY <1>1, <2>3, CallFields DEF CreateDecision, At
    <3>2. UNCHANGED <<decision, request>>
      BY <2>3 DEF CreateDecision
    <3>3. CASE UNCHANGED vote
      BY <3>2, <3>3
    <3>4. CASE /\ vote[call[c].intent][call[c].member] = "none"
               /\ vote' = [vote EXCEPT ![call[c].intent][call[c].member] = call[c].vote]
      <4>1. ASSUME NEW i \in Intents, NEW m \in Members, vote[i][m] = "approved"
            PROVE  vote'[i][m] = "approved"
        <5>1. vote \in [Intents -> [Members -> Votes \union {"none"}]]
          BY <1>1 DEF TypeOK
        <5>2. i # call[c].intent \/ m # call[c].member
          BY <3>4, <4>1
        <5>3. QED
          BY <3>1, <3>4, <4>1, <5>1, <5>2
      <4>2. QED
        BY <3>2, <4>1
    <3>5. QED
      BY <2>3, <3>3, <3>4 DEF CreateDecision
  <2>4. CASE RejectRequest(c) \/ FulfilRequest(c) \/ ExpireRequest(c)
    <3>1. call[c].intent \in Intents
      BY <1>1, <2>4, CallFields
      DEF RejectRequest, FulfilRequest, ExpireRequest, At, IntentSteps
    <3>2. PICK new \in {"rejected", "fulfilled", "expired"} :
             UpdateRequest(call[c].intent, new)
      BY <2>4 DEF RejectRequest, FulfilRequest, ExpireRequest
    <3>3. \A i \in Intents : request[i] \in RequestRows
      BY <1>1 DEF TypeOK
    <3>4. \A i \in Intents :
             request[i].status # "none" =>
                request'[i].status # "none" /\ request'[i].required = request[i].required
      BY <1>1, <3>1, <3>2, <3>3 DEF UpdateRequest, TypeOK, RequestRows
    <3>5. QED
      BY <2>4, <3>4 DEF RejectRequest, FulfilRequest, ExpireRequest
  <2>5. CASE UNCHANGED <<decision, vote, request>>
    BY <2>5
  <2>6. QED
    BY <1>3, <2>1, <2>2, <2>3, <2>4, <2>5
    DEF Continue, MarkPending, CheckEligible, MarkRejected, CountApprovals, MarkReady,
        MarkExpired, CancelByMember, ProposeAccepted, ProposeRefused, ProposeAnswerLost,
        MarkSubmitted, Enqueue, MarkFailed
<1>4. ASSUME NEW i \in Intents, Poll(i) PROVE RowsGrow
  BY <1>4 DEF Poll, PollStart, PollAnswer, PollExecuted, PollFailed, PollRecord, PollGiveUp,
              PollThrows, PollStalled
<1>5. QED
  BY <1>2, <1>3, <1>4
  DEF Next, CallFails, GainRole, LoseRole, SafeSettles, vars

-----------------------------------------------------------------------------
(* What a step may do to the rows, whatever the handler *)

\* A status changes only where the intent exists and was not denied, and to a
\* status it is entitled to.
StatusSound ==
    \A i \in Intents :
       \/ status'[i] = status[i]
       \/ /\ status[i] # "absent" /\ decision[i] # "DENY" /\ status'[i] # "absent"
          /\ status'[i] \in {"ready_to_sign", "submitted", "executed", "failed"} => Authorised(i)
          /\ status'[i] = "executed" => safe[PayloadOf[i]] = "executed"

\* Requests are fulfilled by a quorum, and none appears.
RequestSound ==
    \A i \in Intents :
       /\ request[i].status = "none" => request'[i].status = "none"
       /\ request'[i].status = "fulfilled" => request[i].status = "fulfilled" \/ Quorum(i)

\* Only an authorised transfer reaches the Safe, where an executed one stays.
SafeSound ==
    \A p \in Payloads :
       /\ safe[p] = "executed" => safe'[p] = "executed"
       /\ safe'[p] # "absent" =>
             \/ safe[p] # "absent"
             \/ \E i \in Intents : PayloadOf[i] = p /\ Authorised(i)

\* Only an authorised intent gets a job, which records what the Safe says.
JobSound ==
    \A i \in Intents :
       /\ job'[i].state # "none" => job[i].state # "none" \/ Authorised(i)
       /\ job'[i].state = "executed" =>
             job[i].state = "executed" \/ safe[PayloadOf[i]] = "executed"

Sound == UNCHANGED decision /\ StatusSound /\ RequestSound /\ SafeSound /\ JobSound

\* The part of the invariant that speaks of rows and jobs only.
RowsInv ==
    /\ RowsAgree /\ JobsBacked
    /\ OnlyAuthorisedMoves /\ FulfilledByQuorum /\ ExecutedOnSafe /\ DeniedIsFinal

\* A sound step keeps that part.
LEMMA SoundKeeps ==
    ASSUME IInv, TypeOK', RowsGrow, Sound
    PROVE  RowsInv'
<1> USE DEF Sound
<1>1. RowsInv /\ TypeOK
  BY DEF IInv, Backing, RowsInv
<1>2. \A i \in Intents : (Quorum(i) => Quorum(i)') /\ (Authorised(i) => Authorised(i)')
  BY <1>1, GrowthKeeps
<1>3. PayloadOf \in [Intents -> Payloads]
  BY LifecycleAssumption
<1>4. RowsAgree'
  BY <1>1 DEF RowsInv, RowsAgree, StatusSound, RequestSound
<1>5. JobsBacked'
  BY <1>1, <1>2, <1>3 DEF RowsInv, JobsBacked, JobSound, SafeSound
<1>6. OnlyAuthorisedMoves'
  <2>1. \A i \in Intents :
           status'[i] \in {"ready_to_sign", "submitted", "executed", "failed"} => Authorised(i)'
    BY <1>1, <1>2 DEF RowsInv, OnlyAuthorisedMoves, StatusSound
  <2>2. \A p \in Payloads :
           safe'[p] # "absent" => \E i \in Intents : PayloadOf[i] = p /\ Authorised(i)'
    BY <1>1, <1>2 DEF RowsInv, OnlyAuthorisedMoves, SafeSound
  <2>3. QED
    BY <2>1, <2>2 DEF OnlyAuthorisedMoves
<1>7. FulfilledByQuorum'
  BY <1>1, <1>2 DEF RowsInv, FulfilledByQuorum, RequestSound
<1>8. ExecutedOnSafe'
  BY <1>1, <1>3 DEF RowsInv, ExecutedOnSafe, StatusSound, SafeSound
<1>9. DeniedIsFinal'
  BY <1>1 DEF RowsInv, DeniedIsFinal, StatusSound, RequestSound
<1>10. QED
  BY <1>4, <1>5, <1>6, <1>7, <1>8, <1>9 DEF RowsInv

\* A call whose step keeps it backed leaves all calls backed.
LEMMA CallsKept ==
    ASSUME IInv, TypeOK', RowsGrow, NEW c \in Calls,
           \A other \in Calls \ {c} : call'[other] = call[other],
           CallBacked(c)'
    PROVE  CallsBacked'
<1>1. TypeOK /\ CallsBacked
  BY DEF IInv, Backing
<1>2. SUFFICES ASSUME NEW other \in Calls \ {c} PROVE CallBacked(other)'
  BY DEF CallsBacked
<1>3. call'[other] = call[other] /\ CallBacked(other)
  BY <1>1 DEF CallsBacked
<1>4. call[other].pc \in AuthorisedSteps \union RequestSteps => call[other].intent \in Intents
  BY <1>1, CallFields DEF AuthorisedSteps, RequestSteps, IntentSteps
<1>5. AuthorisedIntents \subseteq AuthorisedIntents'
  BY <1>1, GrowthKeeps DEF AuthorisedIntents
<1>6. QED
  BY <1>3, <1>4, <1>5 DEF CallBacked, RowsGrow

\* A step that creates nothing, and starts no creation, leaves creators alone.
LEMMA CreatorsKept ==
    ASSUME IInv, Sound, NEW c \in Calls,
           \A other \in Calls \ {c} : call'[other] = call[other],
           call'[c].pc \notin {"insert", "create_request"}
    PROVE  CreatorsAlone'
<1>1. TypeOK /\ CreatorsAlone
  BY DEF IInv, Backing
<1>2. \A other \in Calls :
         call'[other].pc \in {"insert", "create_request"} =>
            /\ call'[other] = call[other]
            /\ call[other].intent \in Intents
  BY <1>1, CallFields DEF IntentSteps
<1>3. \A i \in Intents : status[i] = "absent" => status'[i] = "absent"
  BY DEF Sound, StatusSound
<1>4. QED
  BY <1>1, <1>2, <1>3 DEF CreatorsAlone, At, Sound, RequestSound

\* Returning leaves no call without backing.
LEMMA ReturnKeeps ==
    ASSUME IInv, TypeOK', RowsGrow, Sound, NEW c \in Calls, Return(c)
    PROVE  CallsBacked' /\ CreatorsAlone'
<1>1. call \in [Calls -> CallRecords]
  BY DEF IInv, TypeOK
<1>2. /\ call'[c].pc = "idle"
      /\ \A other \in Calls \ {c} : call'[other] = call[other]
  BY <1>1 DEF Return, Idle
<1>3. CallBacked(c)'
  BY <1>2 DEF CallBacked, AuthorisedSteps, RequestSteps
<1>4. QED
  BY <1>2, <1>3, CallsKept, CreatorsKept

\* Nor does going on to a step that the rows back.
LEMMA GotoKeeps ==
    ASSUME IInv, TypeOK', RowsGrow, Sound, NEW c \in Calls, call[c].intent \in Intents,
           NEW step, Goto(c, step), step \notin {"insert", "create_request"},
           step \in AuthorisedSteps => call[c].intent \in AuthorisedIntents,
           step \in RequestSteps => request[call[c].intent].status # "none"
    PROVE  CallsBacked' /\ CreatorsAlone'
<1>1. call \in [Calls -> CallRecords] /\ TypeOK
  BY DEF IInv, TypeOK
<1>2. /\ call'[c].pc = step
      /\ call'[c].intent = call[c].intent
      /\ \A other \in Calls \ {c} : call'[other] = call[other]
  BY <1>1 DEF Goto
<1>3. AuthorisedIntents \subseteq AuthorisedIntents'
  BY <1>1, GrowthKeeps DEF AuthorisedIntents
<1>4. CallBacked(c)'
  BY <1>2, <1>3 DEF CallBacked, RowsGrow
<1>5. QED
  BY <1>2, <1>4, CallsKept, CreatorsKept

\* The invariant is its parts.
LEMMA Assemble ==
    ASSUME TypeOK', RowsInv', CallsBacked' /\ CreatorsAlone'
    PROVE  IInv'
  BY DEF IInv, RowsInv, Backing

\* An authorised intent, or one with a request, exists and was not denied.
LEMMA KnownIntents ==
    ASSUME RowsAgree, NEW i \in Intents,
           i \in AuthorisedIntents \/ request[i].status # "none"
    PROVE  status[i] # "absent" /\ decision[i] # "DENY"
  BY DEF RowsAgree, AuthorisedIntents, Authorised

\* Starting a handler keeps the invariant: only BeginCreate starts a creation,
\* of an intent nobody else is creating.
LEMMA BeginKeeps ==
    ASSUME IInv, TypeOK', RowsGrow, NEW c \in Calls, Begin(c)
    PROVE  IInv'
<1>1. TypeOK /\ CallsBacked /\ CreatorsAlone /\ RowsAgree /\ OnlyAuthorisedMoves
  BY DEF IInv, Backing
<1>2. UNCHANGED <<status, decision, request, vote, safe, job>>
  BY DEF Begin, BeginCreate, BeginDecide, BeginExpire, BeginPropose, BeginRevoke
<1>3. Sound
  BY <1>2 DEF Sound, StatusSound, RequestSound, SafeSound, JobSound
<1>4. AuthorisedIntents \subseteq AuthorisedIntents'
  BY <1>1, GrowthKeeps DEF AuthorisedIntents
<1>5. ASSUME NEW frame \in CallRecords, Start(c, frame),
             frame.pc \in RequestSteps => request[frame.intent].status # "none",
             frame.pc \in AuthorisedSteps => frame.intent \in AuthorisedIntents
      PROVE  CallsBacked'
  <2>1. /\ call'[c] = frame
        /\ \A other \in Calls \ {c} : call'[other] = call[other]
    BY <1>1, <1>5 DEF Start, TypeOK
  <2>2. CallBacked(c)'
    BY <1>2, <1>4, <1>5, <2>1 DEF CallBacked
  <2>3. QED
    BY <2>1, <2>2, CallsKept
<1>6. ASSUME NEW frame \in CallRecords, Start(c, frame),
             frame.pc \notin {"insert", "create_request"}
      PROVE  CreatorsAlone'
  <2>1. /\ call'[c] = frame
        /\ \A other \in Calls \ {c} : call'[other] = call[other]
    BY <1>1, <1>6 DEF Start, TypeOK
  <2>2. QED
    BY <1>3, <1>6, <2>1, CreatorsKept
<1>7. ASSUME NEW i \in Intents, NEW d \in PolicyDecisions, BeginCreate(c, i, d)
      PROVE  CallsBacked' /\ CreatorsAlone'
  <2>1. [pc |-> "insert", intent |-> i, decision |-> d] \in CallRecords
    BY DEF CallRecords
  <2>2. CallsBacked'
    BY <1>5, <1>7, <2>1 DEF BeginCreate, RequestSteps, AuthorisedSteps
  <2>3. /\ call'[c].pc = "insert" /\ call'[c].intent = i
        /\ \A other \in Calls \ {c} : call'[other] = call[other]
    BY <1>1, <1>7 DEF BeginCreate, Start, TypeOK
  <2>4. CreatorsAlone'
    BY <1>1, <1>2, <1>7, <2>3 DEF CreatorsAlone, At, BeginCreate
  <2>5. QED
    BY <2>2, <2>4
<1>8. ASSUME NEW i \in Intents, NEW m \in Members, NEW v \in Votes, BeginDecide(c, i, m, v)
      PROVE  CallsBacked' /\ CreatorsAlone'
  <2>1. [pc |-> "check_eligible", intent |-> i, member |-> m, vote |-> v] \in CallRecords
    BY DEF CallRecords
  <2>2. QED
    BY <1>5, <1>6, <1>8, <2>1 DEF BeginDecide, RequestSteps, AuthorisedSteps
<1>9. ASSUME NEW i \in Intents, BeginExpire(c, i)
      PROVE  CallsBacked' /\ CreatorsAlone'
  <2>1. [pc |-> "expire_request", intent |-> i] \in CallRecords
    BY DEF CallRecords, IntentSteps
  <2>2. QED
    BY <1>5, <1>6, <1>9, <2>1 DEF BeginExpire, RequestSteps, AuthorisedSteps
<1>10. ASSUME NEW i \in Intents, BeginPropose(c, i)
       PROVE  CallsBacked' /\ CreatorsAlone'
  <2>1. [pc |-> "post", intent |-> i] \in CallRecords
    BY DEF CallRecords, IntentSteps
  <2>2. i \in AuthorisedIntents
    BY <1>1, <1>10 DEF BeginPropose, OnlyAuthorisedMoves, AuthorisedIntents
  <2>3. QED
    BY <1>5, <1>6, <1>10, <2>1, <2>2 DEF BeginPropose, RequestSteps, AuthorisedSteps
<1>11. ASSUME NEW m \in Members, BeginRevoke(c, m)
       PROVE  CallsBacked' /\ CreatorsAlone'
  <2>1. [pc |-> "cancel_intents", member |-> m] \in CallRecords
    BY DEF CallRecords
  <2>2. QED
    BY <1>5, <1>6, <1>11, <2>1 DEF BeginRevoke, RequestSteps, AuthorisedSteps
<1>12. CallsBacked' /\ CreatorsAlone'
  BY <1>7, <1>8, <1>9, <1>10, <1>11 DEF Begin
<1>13. QED
  BY <1>3, <1>12, SoundKeeps, Assemble

\* The insert keeps the invariant: the row was absent, so nothing spoke of it.
LEMMA InsertKeeps ==
    ASSUME IInv, TypeOK', RowsGrow, NEW c \in Calls, InsertIntent(c)
    PROVE  IInv'
<1> DEFINE i == call[c].intent
           d == call[c].decision
<1>1. TypeOK /\ CallsBacked /\ CreatorsAlone /\ RowsInv
  BY DEF IInv, Backing, RowsInv
<1>2. i \in Intents /\ d \in PolicyDecisions
  BY <1>1, CallFields DEF InsertIntent, At
<1>3. status[i] = "absent" /\ decision[i] = "none" /\ request[i].status = "none"
  BY <1>1, <1>2 DEF InsertIntent, At, CreatorsAlone, RowsInv, RowsAgree
<1>4. /\ status' = [status EXCEPT ![i] = IF d = "ALLOW" THEN "ready_to_sign"
                                         ELSE IF d = "DENY" THEN "denied"
                                         ELSE "pending_approval"]
      /\ decision' = [decision EXCEPT ![i] = d]
      /\ UNCHANGED <<request, safe, job>>
  BY <1>2, TableEntries DEF InsertIntent, UpdateStatus
<1>5. \A k \in Intents : (Quorum(k) => Quorum(k)') /\ (Authorised(k) => Authorised(k)')
  BY <1>1, GrowthKeeps
<1>6. status \in [Intents -> IntentStatuses \union {"absent"}]
      /\ decision \in [Intents -> PolicyDecisions \union {"none"}]
  BY <1>1 DEF TypeOK
<1>7. RowsInv'
  <2>1. RowsAgree'
    BY <1>1, <1>2, <1>3, <1>4, <1>6 DEF RowsInv, RowsAgree, PolicyDecisions
  <2>2. JobsBacked'
    BY <1>1, <1>4, <1>5 DEF RowsInv, JobsBacked
  <2>3. OnlyAuthorisedMoves'
    <3>1. ASSUME NEW k \in Intents,
                 status'[k] \in {"ready_to_sign", "submitted", "executed", "failed"}
          PROVE  Authorised(k)'
      <4>1. CASE k = i
        BY <1>2, <1>4, <1>6, <3>1, <4>1 DEF Authorised
      <4>2. CASE k # i
        BY <1>1, <1>4, <1>5, <1>6, <3>1, <4>2 DEF RowsInv, OnlyAuthorisedMoves
      <4>3. QED
        BY <4>1, <4>2
    <3>2. ASSUME NEW p \in Payloads, safe'[p] # "absent"
          PROVE  \E k \in Intents : PayloadOf[k] = p /\ Authorised(k)'
      BY <1>1, <1>4, <1>5, <3>2 DEF RowsInv, OnlyAuthorisedMoves
    <3>3. QED
      BY <3>1, <3>2 DEF OnlyAuthorisedMoves
  <2>4. FulfilledByQuorum'
    BY <1>1, <1>4, <1>5 DEF RowsInv, FulfilledByQuorum
  <2>5. ExecutedOnSafe'
    BY <1>1, <1>2, <1>4, <1>6 DEF RowsInv, ExecutedOnSafe
  <2>6. DeniedIsFinal'
    BY <1>1, <1>2, <1>3, <1>4, <1>6 DEF RowsInv, DeniedIsFinal
  <2>7. QED
    BY <2>1, <2>2, <2>3, <2>4, <2>5, <2>6 DEF RowsInv
<1>8. \A other \in Calls \ {c} : call'[other] = call[other]
  BY <1>1 DEF InsertIntent, Goto, Return, TypeOK
<1>9. \/ call'[c].pc = "idle"
      \/ call'[c].pc = "create_request" /\ call'[c].intent = i /\ d = "REQUIRE_APPROVAL"
  BY <1>1 DEF InsertIntent, Goto, Return, Idle, TypeOK
<1>10. CallsBacked'
  <2>1. CallBacked(c)'
    BY <1>9 DEF CallBacked, AuthorisedSteps, RequestSteps
  <2>2. QED
    BY <1>8, <2>1, CallsKept
<1>11. CreatorsAlone'
  <2>1. \A other \in Calls \ {c} :
           call[other].pc \in {"insert", "create_request"} =>
              call[other].intent \in Intents /\ call[other].intent # i
    BY <1>1, <1>2, <1>3, CallFields
    DEF CreatorsAlone, InsertIntent, At, IntentSteps
  <2>2. QED
    BY <1>1, <1>2, <1>3, <1>4, <1>6, <1>8, <1>9, <2>1 DEF CreatorsAlone, At
<1>12. QED
  BY <1>7, <1>10, <1>11, Assemble

\* So does storing the request, of an intent that had none and needs one.
LEMMA CreateRequestKeeps ==
    ASSUME IInv, TypeOK', RowsGrow, NEW c \in Calls, CreateRequest(c)
    PROVE  IInv'
<1> DEFINE i == call[c].intent
<1>1. TypeOK /\ CallsBacked /\ CreatorsAlone /\ RowsInv
  BY DEF IInv, Backing, RowsInv
<1>2. i \in Intents
  BY <1>1, CallFields DEF CreateRequest, At, IntentSteps
<1>3. decision[i] = "REQUIRE_APPROVAL" /\ request[i].status = "none"
  BY <1>1 DEF CreateRequest, At, CreatorsAlone
<1>4. /\ request'[i].status = "pending"
      /\ \A k \in Intents \ {i} : request'[k] = request[k]
      /\ UNCHANGED <<status, decision, vote, safe, job>>
  BY <1>1, <1>2 DEF CreateRequest, TypeOK
<1>5. \A k \in Intents : (Quorum(k) => Quorum(k)') /\ (Authorised(k) => Authorised(k)')
  BY <1>1, GrowthKeeps
<1>6. RowsInv'
  <2>1. RowsAgree'
    BY <1>1, <1>3, <1>4 DEF RowsInv, RowsAgree
  <2>2. JobsBacked'
    BY <1>1, <1>4, <1>5 DEF RowsInv, JobsBacked
  <2>3. OnlyAuthorisedMoves'
    BY <1>1, <1>4, <1>5 DEF RowsInv, OnlyAuthorisedMoves
  <2>4. FulfilledByQuorum'
    BY <1>1, <1>4, <1>5 DEF RowsInv, FulfilledByQuorum
  <2>5. ExecutedOnSafe'
    BY <1>1, <1>4 DEF RowsInv, ExecutedOnSafe
  <2>6. DeniedIsFinal'
    BY <1>1, <1>3, <1>4 DEF RowsInv, DeniedIsFinal
  <2>7. QED
    BY <2>1, <2>2, <2>3, <2>4, <2>5, <2>6 DEF RowsInv
<1>7. /\ call'[c].pc = "mark_pending"
      /\ call'[c].intent = i
      /\ \A other \in Calls \ {c} : call'[other] = call[other]
  BY <1>1 DEF CreateRequest, Goto, TypeOK
<1>8. CallsBacked'
  <2>1. CallBacked(c)'
    BY <1>2, <1>4, <1>7 DEF CallBacked, AuthorisedSteps, RequestSteps
  <2>2. QED
    BY <1>7, <2>1, CallsKept
<1>9. CreatorsAlone'
  <2>1. \A other \in Calls \ {c} :
           call[other].pc = "create_request" =>
              call[other].intent \in Intents /\ call[other].intent # i
    BY <1>1, CallFields DEF CreatorsAlone, CreateRequest, At, IntentSteps
  <2>2. QED
    BY <1>1, <1>2, <1>4, <1>7, <2>1 DEF CreatorsAlone, At
<1>10. QED
  BY <1>6, <1>8, <1>9, Assemble

\* Every other step of a handler is sound, and leaves its call backed.
LEMMA ContinueKeeps ==
    ASSUME IInv, TypeOK', RowsGrow, NEW c \in Calls, Continue(c)
    PROVE  IInv'
<1> DEFINE i == call[c].intent
<1>1. /\ TypeOK /\ CallsBacked /\ CreatorsAlone /\ RowsAgree
      /\ OnlyAuthorisedMoves /\ DeniedIsFinal
  BY DEF IInv, Backing
<1>2. \A k \in Intents :
         k \in AuthorisedIntents \/ request[k].status # "none" =>
            status[k] # "absent" /\ decision[k] # "DENY"
  BY <1>1, KnownIntents
<1>3. call[c].pc \in IntentSteps => i \in Intents
  BY <1>1, CallFields
<1>4. ASSUME Sound, CallsBacked' /\ CreatorsAlone' PROVE IInv'
  BY <1>4, SoundKeeps, Assemble
<1>5. CallBacked(c)
  BY <1>1 DEF CallsBacked
<1>6. status \in [Intents -> IntentStatuses \union {"absent"}]
  BY <1>1 DEF TypeOK
<1>7. CASE InsertIntent(c)
  BY <1>7, InsertKeeps
<1>8. CASE CreateRequest(c)
  BY <1>8, CreateRequestKeeps
<1>9. CASE CheckEligible(c)
  <2>1. Sound
    BY <1>9 DEF CheckEligible, Sound, StatusSound, RequestSound, SafeSound, JobSound
  <2>2. CASE Return(c)
    BY <1>4, <2>1, <2>2, ReturnKeeps
  <2>3. CASE call' = [call EXCEPT ![c].pc = "decide"]
    <3>1. call[c] \in [pc : {"check_eligible", "decide"},
                       intent : Intents, member : Members, vote : Votes]
      BY <1>1, <1>9 DEF CheckEligible, At, TypeOK, CallRecords, Idle, IntentSteps
    <3>2. call' = [call EXCEPT ![c] = [call[c] EXCEPT !.pc = "decide"]]
      BY <2>3
    <3>3. /\ [call[c] EXCEPT !.pc = "decide"].pc = "decide"
          /\ [call[c] EXCEPT !.pc = "decide"].intent = i
      BY <3>1
    <3>4. /\ call'[c].pc = "decide"
          /\ call'[c].intent = i
          /\ \A other \in Calls \ {c} : call'[other] = call[other]
      BY <1>1, <3>2, <3>3 DEF TypeOK
    <3>5. CallBacked(c)'
      BY <1>5, <1>9, <3>1, <3>4
      DEF CallBacked, CheckEligible, At, AuthorisedSteps, RequestSteps, RowsGrow
    <3>6. QED
      BY <1>4, <2>1, <3>4, <3>5, CallsKept, CreatorsKept
  <2>4. QED
    BY <1>9, <2>2, <2>3 DEF CheckEligible
<1>10. CASE CreateDecision(c)
  <2>1. Sound
    BY <1>10 DEF CreateDecision, Sound, StatusSound, RequestSound, SafeSound, JobSound
  <2>2. i \in Intents /\ request[i].status # "none"
    BY <1>1, <1>5, <1>10, CallFields DEF CreateDecision, At, CallBacked, RequestSteps
  <2>3. Return(c) \/ Goto(c, "reject_request") \/ Goto(c, "count")
    BY <1>10 DEF CreateDecision
  <2>4. QED
    BY <1>4, <2>1, <2>2, <2>3, ReturnKeeps, GotoKeeps DEF AuthorisedSteps
<1>11. CASE CountApprovals(c)
  <2>1. Sound
    BY <1>11 DEF CountApprovals, Sound, StatusSound, RequestSound, SafeSound, JobSound
  <2>2. i \in Intents /\ request[i].status # "none"
    BY <1>3, <1>5, <1>11 DEF CountApprovals, At, CallBacked, RequestSteps, IntentSteps
  <2>3. CASE Return(c)
    BY <1>4, <2>1, <2>3, ReturnKeeps
  <2>4. CASE Goto(c, "fulfil_request") /\ Cardinality(Approvals(i)) >= request[i].required
    <3>1. i \in AuthorisedIntents
      BY <1>1, <2>2, <2>4 DEF AuthorisedIntents, Authorised, Quorum, RowsAgree
    <3>2. QED
      BY <1>4, <2>1, <2>2, <2>4, <3>1, GotoKeeps
  <2>5. QED
    BY <1>11, <2>3, <2>4 DEF CountApprovals, isQuorumMet
<1>12. CASE RejectRequest(c) \/ ExpireRequest(c)
  <2>1. i \in Intents /\ request[i].status # "none"
    BY <1>3, <1>5, <1>12
    DEF RejectRequest, ExpireRequest, At, CallBacked, RequestSteps, IntentSteps
  <2>2. PICK new \in {"rejected", "expired"} : UpdateRequest(i, new)
    BY <1>12 DEF RejectRequest, ExpireRequest
  <2>3. RequestSound
    <3>1. request[i] \in RequestRows /\ request \in [Intents -> RequestRows]
      BY <1>1, <2>1 DEF TypeOK
    <3>2. request'[i].status = new /\ \A k \in Intents \ {i} : request'[k] = request[k]
      BY <2>1, <2>2, <3>1 DEF UpdateRequest, RequestRows
    <3>3. QED
      BY <2>1, <2>2, <3>2 DEF RequestSound
  <2>4. Sound
    BY <1>12, <2>3
    DEF RejectRequest, ExpireRequest, Sound, StatusSound, SafeSound, JobSound
  <2>5. Goto(c, "mark_rejected") \/ Goto(c, "mark_expired")
    BY <1>12 DEF RejectRequest, ExpireRequest
  <2>6. QED
    BY <1>4, <2>1, <2>4, <2>5, GotoKeeps DEF AuthorisedSteps
<1>13. CASE FulfilRequest(c)
  <2>1. i \in AuthorisedIntents /\ request[i].status # "none"
    BY <1>5, <1>13 DEF FulfilRequest, At, CallBacked, RequestSteps, AuthorisedSteps
  <2>2. i \in Intents /\ Quorum(i)
    BY <1>1, <2>1 DEF AuthorisedIntents, Authorised, RowsAgree
  <2>3. RequestSound
    <3>1. request[i] \in RequestRows /\ request \in [Intents -> RequestRows]
      BY <1>1, <2>2 DEF TypeOK
    <3>2. request'[i].status = "fulfilled" /\ \A k \in Intents \ {i} : request'[k] = request[k]
      BY <1>13, <2>2, <3>1 DEF FulfilRequest, UpdateRequest, RequestRows
    <3>3. QED
      BY <2>1, <2>2, <3>2 DEF RequestSound
  <2>4. Sound
    BY <1>13, <2>3 DEF FulfilRequest, Sound, StatusSound, SafeSound, JobSound
  <2>5. QED
    BY <1>4, <1>13, <2>1, <2>2, <2>4, GotoKeeps DEF FulfilRequest
<1>14. CASE MarkPending(c) \/ MarkRejected(c) \/ MarkReady(c) \/ MarkExpired(c) \/ MarkFailed(c)
  <2>1. i \in Intents
    BY <1>3, <1>14
    DEF MarkPending, MarkRejected, MarkReady, MarkExpired, MarkFailed, At, IntentSteps
  <2>2. status[i] # "absent" /\ decision[i] # "DENY"
    BY <1>2, <1>5, <1>14, <2>1
    DEF MarkPending, MarkRejected, MarkReady, MarkExpired, MarkFailed, At,
        CallBacked, RequestSteps, AuthorisedSteps
  <2>3. \/ status' = [status EXCEPT ![i] = "pending_approval"]
        \/ status' = [status EXCEPT ![i] = "cancelled"]
        \/ /\ status' = [status EXCEPT ![i] = "ready_to_sign"]
              \/ status' = [status EXCEPT ![i] = "failed"]
           /\ Authorised(i)
    BY <1>5, <1>14, <2>1, TableEntries
    DEF MarkPending, MarkRejected, MarkReady, MarkExpired, MarkFailed, UpdateStatus, At,
        CallBacked, AuthorisedSteps, AuthorisedIntents
  <2>4. StatusSound
    BY <1>6, <2>1, <2>2, <2>3 DEF StatusSound
  <2>5. Sound
    BY <1>14, <2>4
    DEF MarkPending, MarkRejected, MarkReady, MarkExpired, MarkFailed, Sound,
        RequestSound, SafeSound, JobSound
  <2>6. QED
    BY <1>4, <1>14, <2>5, ReturnKeeps
    DEF MarkPending, MarkRejected, MarkReady, MarkExpired, MarkFailed
<1>15. CASE CancelByMember(c)
  <2>1. StatusSound
    BY <1>1, <1>15 DEF CancelByMember, StatusSound, Cancellable, DeniedIsFinal
  <2>2. Sound
    BY <1>15, <2>1 DEF CancelByMember, Sound, RequestSound, SafeSound, JobSound
  <2>3. QED
    BY <1>4, <1>15, <2>2, ReturnKeeps DEF CancelByMember
<1>16. CASE ProposeAccepted(c) \/ ProposeRefused(c) \/ ProposeAnswerLost(c)
  <2>1. i \in Intents /\ i \in AuthorisedIntents
    BY <1>3, <1>5, <1>16
    DEF ProposeAccepted, ProposeRefused, ProposeAnswerLost, At, CallBacked,
        AuthorisedSteps, IntentSteps
  <2>2. SafeSound
    <3>1. safe \in [Payloads -> {"absent", "awaiting", "executed", "failed"}]
      BY <1>1 DEF TypeOK
    <3>2. Authorised(i)
      BY <2>1 DEF AuthorisedIntents
    <3>3. QED
      BY <1>16, <2>1, <3>1, <3>2
      DEF ProposeAccepted, ProposeRefused, ProposeAnswerLost, Accept, SafeSound
  <2>3. Sound
    BY <1>16, <2>2
    DEF ProposeAccepted, ProposeRefused, ProposeAnswerLost, Sound, StatusSound,
        RequestSound, JobSound
  <2>4. Return(c) \/ Goto(c, "mark_submitted") \/ Goto(c, "mark_failed")
    BY <1>16 DEF ProposeAccepted, ProposeRefused, ProposeAnswerLost
  <2>5. QED
    BY <1>4, <2>1, <2>3, <2>4, GotoKeeps, ReturnKeeps DEF RequestSteps
<1>17. CASE MarkSubmitted(c)
  <2>1. i \in Intents /\ i \in AuthorisedIntents
    BY <1>3, <1>5, <1>17 DEF MarkSubmitted, At, CallBacked, AuthorisedSteps, IntentSteps
  <2>2. status' = [status EXCEPT ![i] = "submitted"]
    BY <1>17, TableEntries DEF MarkSubmitted, UpdateStatus
  <2>3. StatusSound
    BY <1>2, <1>6, <2>1, <2>2 DEF StatusSound, AuthorisedIntents
  <2>4. Sound
    BY <1>17, <2>3 DEF MarkSubmitted, Sound, RequestSound, SafeSound, JobSound
  <2>5. QED
    BY <1>4, <1>17, <2>1, <2>4, GotoKeeps DEF MarkSubmitted, RequestSteps
<1>18. CASE Enqueue(c)
  <2>1. i \in Intents /\ Authorised(i)
    BY <1>3, <1>5, <1>18
    DEF Enqueue, At, CallBacked, AuthorisedSteps, IntentSteps, AuthorisedIntents
  <2>2. JobSound
    <3>1. /\ job \in [Intents -> JobRows]
          /\ UNCHANGED job \/ job' = [job EXCEPT ![i] = [state |-> "waiting", attempt |-> 1]]
      BY <1>1, <1>18 DEF Enqueue, TypeOK
    <3>2. /\ job'[i] = job[i] \/ job'[i].state = "waiting"
          /\ \A k \in Intents \ {i} : job'[k] = job[k]
      BY <2>1, <3>1
    <3>3. QED
      BY <2>1, <3>2 DEF JobSound
  <2>3. Sound
    BY <1>18, <2>2 DEF Enqueue, Sound, StatusSound, RequestSound, SafeSound
  <2>4. QED
    BY <1>4, <1>18, <2>3, ReturnKeeps DEF Enqueue
<1>19. QED
  BY <1>7, <1>8, <1>9, <1>10, <1>11, <1>12, <1>13, <1>14, <1>15, <1>16, <1>17, <1>18
  DEF Continue

\* A job writes only what it has seen on the Safe, or gives up on an intent that
\* had been authorised.
LEMMA PollKeeps ==
    ASSUME IInv, TypeOK', RowsGrow, NEW i \in Intents, Poll(i)
    PROVE  IInv'
<1>1. TypeOK /\ CallsBacked /\ CreatorsAlone /\ RowsAgree /\ JobsBacked
  BY DEF IInv, Backing
<1>2. UNCHANGED <<decision, request, vote, call, safe>>
  BY DEF Poll, PollStart, PollAnswer, PollExecuted, PollFailed, PollRecord, PollGiveUp,
         PollThrows, PollStalled
<1>3. job \in [Intents -> JobRows] /\ status \in [Intents -> IntentStatuses \union {"absent"}]
  BY <1>1 DEF TypeOK
<1>4. job[i].state # "none" => Authorised(i) /\ status[i] # "absent" /\ decision[i] # "DENY"
  BY <1>1 DEF JobsBacked, RowsAgree, Authorised
<1>5. job[i].state # "none"
  BY DEF Poll, PollStart, PollAnswer, PollExecuted, PollFailed, PollRecord, PollGiveUp,
         PollThrows, PollStalled
<1>6. /\ \A k \in Intents \ {i} : job'[k] = job[k]
      /\ job'[i].state = "executed" =>
            job[i].state = "executed" \/ safe[PayloadOf[i]] = "executed"
  <2>1. job[i] \in JobRows
    BY <1>3
  <2>2. ASSUME NEW state, SetJob(i, state)
        PROVE  /\ \A k \in Intents \ {i} : job'[k] = job[k]
               /\ job'[i].state = state
    BY <1>3, <2>1, <2>2 DEF SetJob, JobRows
  <2>3. ASSUME PollError(i)
        PROVE  /\ \A k \in Intents \ {i} : job'[k] = job[k]
               /\ job'[i].state # "executed"
    <3>1. CASE job' = [job EXCEPT ![i] = [state |-> "waiting", attempt |-> @.attempt + 1]]
      BY <1>3, <3>1
    <3>2. CASE SetJob(i, "giving_up")
      BY <2>2, <3>2
    <3>3. QED
      BY <2>3, <3>1, <3>2 DEF PollError
  <2>4. CASE PollStart(i)
    BY <2>2, <2>4 DEF PollStart
  <2>5. CASE PollAnswer(i)
    BY <2>2, <2>3, <2>5 DEF PollAnswer
  <2>6. CASE PollExecuted(i) \/ PollFailed(i)
    BY <2>2, <2>3, <2>6 DEF PollExecuted, PollFailed, PollRecord
  <2>7. CASE PollGiveUp(i)
    BY <2>2, <2>7 DEF PollGiveUp
  <2>8. CASE PollThrows(i)
    <3>1. [job[i] EXCEPT !.state = "done"].state = "done"
      BY <2>1 DEF JobRows
    <3>2. QED
      BY <1>3, <2>8, <3>1 DEF PollThrows
  <2>9. CASE PollStalled(i)
    BY <2>2, <2>9 DEF PollStalled
  <2>10. QED
    BY <2>4, <2>5, <2>6, <2>7, <2>8, <2>9 DEF Poll
<1>7. JobSound
  BY <1>4, <1>5, <1>6 DEF JobSound
<1>8. StatusSound
  <2>1. CASE UNCHANGED status
    BY <2>1 DEF StatusSound
  <2>2. CASE PollExecuted(i) /\ status' = [status EXCEPT ![i] = "executed"]
    <3>1. safe[PayloadOf[i]] = "executed"
      BY <1>1, <2>2 DEF PollExecuted, PollRecord, JobsBacked
    <3>2. QED
      BY <1>3, <1>4, <1>5, <2>2, <3>1 DEF StatusSound
  <2>3. CASE status' = [status EXCEPT ![i] = "failed"]
    BY <1>3, <1>4, <1>5, <2>3 DEF StatusSound
  <2>4. QED
    BY <2>1, <2>2, <2>3, TableEntries
    DEF Poll, PollStart, PollAnswer, PollExecuted, PollFailed, PollRecord, PollGiveUp,
        PollThrows, PollStalled, UpdateStatus
<1>9. Sound
  BY <1>2, <1>7, <1>8 DEF Sound, RequestSound, SafeSound
<1>10. CallsBacked' /\ CreatorsAlone'
  <2>1. AuthorisedIntents \subseteq AuthorisedIntents'
    BY <1>1, GrowthKeeps DEF AuthorisedIntents
  <2>2. CallsBacked'
    BY <1>1, <1>2, <2>1 DEF CallsBacked, CallBacked
  <2>3. CreatorsAlone'
    <3>1. \A c \in Calls : call[c].pc = "insert" => call[c].intent \in Intents
      BY <1>1, CallFields
    <3>2. \A k \in Intents : status[k] = "absent" => status'[k] = "absent"
      BY <1>8 DEF StatusSound
    <3>3. QED
      BY <1>1, <1>2, <3>1, <3>2 DEF CreatorsAlone, At
  <2>4. QED
    BY <2>2, <2>3
<1>11. QED
  BY <1>9, <1>10, SoundKeeps, Assemble

\* The invariant is inductive.
LEMMA Inductive ==
    ASSUME IInv, [Next]_vars
    PROVE  IInv'
<1>1. TypeOK' /\ RowsGrow
  BY TypeStep, StepsGrow DEF IInv
<1>2. TypeOK /\ CallsBacked /\ CreatorsAlone
  BY DEF IInv, Backing
<1>3. AuthorisedIntents \subseteq AuthorisedIntents'
  BY <1>1, <1>2, GrowthKeeps DEF AuthorisedIntents
<1>4. ASSUME NEW c \in Calls, Begin(c) PROVE IInv'
  BY <1>1, <1>4, BeginKeeps
<1>5. ASSUME NEW c \in Calls, Continue(c) PROVE IInv'
  BY <1>1, <1>5, ContinueKeeps
<1>6. ASSUME NEW i \in Intents, Poll(i) PROVE IInv'
  BY <1>1, <1>6, PollKeeps
<1>7. ASSUME NEW c \in Calls, CallFails(c) PROVE IInv'
  <2>1. Sound
    BY <1>7 DEF CallFails, Sound, StatusSound, RequestSound, SafeSound, JobSound
  <2>2. CallsBacked' /\ CreatorsAlone'
    BY <1>1, <1>7, <2>1, ReturnKeeps DEF CallFails
  <2>3. QED
    BY <1>1, <2>1, <2>2, SoundKeeps, Assemble
<1>8. ASSUME UNCHANGED <<status, decision, request, vote, call, job>>, SafeSound
      PROVE  IInv'
  <2>1. Sound
    BY <1>8 DEF Sound, StatusSound, RequestSound, JobSound
  <2>2. CallsBacked' /\ CreatorsAlone'
    BY <1>2, <1>3, <1>8 DEF CallsBacked, CallBacked, CreatorsAlone, At
  <2>3. QED
    BY <1>1, <2>1, <2>2, SoundKeeps, Assemble
<1>9. ASSUME NEW m \in Members, GainRole(m) \/ LoseRole(m) PROVE IInv'
  BY <1>8, <1>9 DEF GainRole, LoseRole, SafeSound
<1>10. ASSUME NEW p \in Payloads, SafeSettles(p) PROVE IInv'
  BY <1>2, <1>8, <1>10 DEF SafeSettles, SafeSound, TypeOK
<1>11. CASE UNCHANGED vars
  BY <1>8, <1>11 DEF vars, SafeSound
<1>12. QED
  BY <1>4, <1>5, <1>6, <1>7, <1>9, <1>10, <1>11 DEF Next

\* It holds of the empty database.
LEMMA InitInv ==
    ASSUME Init
    PROVE  IInv
<1>1. TypeOK
  BY LifecycleAssumption
  DEF Init, TypeOK, RequestRows, NoRequest, RequestStatuses, JobRows, Votes, CallRecords,
      NoJob, JobStates
<1>2. CallsBacked /\ CreatorsAlone /\ RowsAgree /\ JobsBacked
  BY DEF Init, CallsBacked, CallBacked, CreatorsAlone, At, RowsAgree, JobsBacked, Idle,
         NoRequest, NoJob, AuthorisedSteps, RequestSteps
<1>3. OnlyAuthorisedMoves /\ FulfilledByQuorum /\ ExecutedOnSafe /\ DeniedIsFinal
  BY DEF Init, OnlyAuthorisedMoves, FulfilledByQuorum, ExecutedOnSafe, DeniedIsFinal,
         NoRequest
<1>4. QED
  BY <1>1, <1>2, <1>3 DEF IInv, Backing

\* Whatever handlers interleave and wherever they stop, the invariant holds.
THEOREM Invariant == Spec => []IInv
<1>1. IInv /\ [Next]_vars => IInv'
  BY Inductive
<1>2. QED
  BY <1>1, InitInv, PTL DEF Spec

\* No intent moves, and no transfer reaches the Safe, unauthorised.
THEOREM OnlyAuthorised == Spec => []OnlyAuthorisedMoves
<1>1. IInv => OnlyAuthorisedMoves
  BY DEF IInv
<1>2. QED
  BY <1>1, Invariant, PTL

\* A fulfilled request has its quorum of distinct approving members.
THEOREM QuorumBehindFulfilment == Spec => []FulfilledByQuorum
<1>1. IInv => FulfilledByQuorum
  BY DEF IInv
<1>2. QED
  BY <1>1, Invariant, PTL

\* The database calls executed only what the Safe executed.
THEOREM ExecutionIsReal == Spec => []ExecutedOnSafe
<1>1. IInv => ExecutedOnSafe
  BY DEF IInv
<1>2. QED
  BY <1>1, Invariant, PTL

\* No handler revives a denied intent.
THEOREM DenialIsFinal == Spec => []DeniedIsFinal
<1>1. IInv => DeniedIsFinal
  BY DEF IInv
<1>2. QED
  BY <1>1, Invariant, PTL

\* Every call and every job still has behind it what it checked.
THEOREM AlwaysBacked == Spec => []Backing
<1>1. IInv => Backing
  BY DEF IInv
<1>2. QED
  BY <1>1, Invariant, PTL

-----------------------------------------------------------------------------
(* As long as no call fails half-way *)

\* Every vote was cast on a request.
VotesRequested ==
    \A i \in Intents : \A m \in Members :
       vote[i][m] # "none" => request[i].status # "none"

\* The call that will close a request whose quorum is met is under way.
ClosingUnderWay(i) ==
    \E c \in Calls : call[c].pc \in {"count", "fulfil_request"} /\ call[c].intent = i

\* Reading QuorumNotMissed and SubmittedIsTracked from one step to the next
\* takes, besides IInv, only that a request starts without votes.
FollowedThrough == VotesRequested /\ QuorumNotMissed /\ SubmittedIsTracked

\* The rows that Quorum reads are what it depends on.
LEMMA QuorumReads ==
    ASSUME TypeOK, NEW i \in Intents, vote'[i] = vote[i],
           request'[i].status = "none" <=> request[i].status = "none",
           request'[i].required = request[i].required
    PROVE  Quorum(i)' <=> Quorum(i)
  BY DEF Quorum, Approvals

\* A call that is at neither closing step, nor about to add a job, may go
\* anywhere: nothing was waiting for it.
LEMMA OthersFollow ==
    ASSUME FollowedThrough, TypeOK, NEW c \in Calls,
           \A other \in Calls \ {c} : call'[other] = call[other],
           call[c].pc \notin {"count", "fulfil_request", "enqueue"},
           vote' = vote,
           \A i \in Intents :
              request'[i] = request[i] \/ request'[i].status \notin {"none", "pending"},
           \A i \in Intents : status'[i] = "submitted" => status[i] = "submitted",
           job' = job
    PROVE  FollowedThrough'
<1>1. VotesRequested'
  BY DEF FollowedThrough, VotesRequested
<1>2. QuorumNotMissed'
  <2> SUFFICES ASSUME NEW i \in Intents, Quorum(i)', request'[i].status = "pending"
               PROVE  ClosingUnderWay(i)'
    BY DEF QuorumNotMissed, ClosingUnderWay
  <2>1. request'[i] = request[i]
    OBVIOUS
  <2>2. Quorum(i)
    BY <2>1, QuorumReads
  <2>3. PICK d \in Calls : call[d].pc \in {"count", "fulfil_request"} /\ call[d].intent = i
    BY <2>1, <2>2 DEF FollowedThrough, QuorumNotMissed
  <2>4. call'[d] = call[d]
    BY <2>3
  <2>5. QED
    BY <2>3, <2>4 DEF ClosingUnderWay
<1>3. SubmittedIsTracked'
  <2> SUFFICES ASSUME NEW i \in Intents, status'[i] = "submitted", job'[i].state = "none"
               PROVE  \E d \in Calls : At(d, "enqueue")' /\ call'[d].intent = i
    BY DEF SubmittedIsTracked
  <2>1. PICK d \in Calls : At(d, "enqueue") /\ call[d].intent = i
    BY DEF FollowedThrough, SubmittedIsTracked
  <2>2. call'[d] = call[d]
    BY <2>1 DEF At
  <2>3. QED
    BY <2>1, <2>2 DEF At
<1>4. QED
  BY <1>1, <1>2, <1>3 DEF FollowedThrough

\* Starting a handler leaves what is under way under way.
LEMMA BeginFollows ==
    ASSUME FollowedThrough, TypeOK, NEW c \in Calls, Begin(c)
    PROVE  FollowedThrough'
<1>1. call[c] = Idle /\ \A other \in Calls \ {c} : call'[other] = call[other]
  BY DEF TypeOK, Begin, BeginCreate, BeginDecide, BeginExpire, BeginPropose, BeginRevoke, Start
<1>2. UNCHANGED <<status, request, vote, job>>
  BY DEF Begin, BeginCreate, BeginDecide, BeginExpire, BeginPropose, BeginRevoke
<1>3. call[c].pc = "idle"
  BY <1>1 DEF Idle
<1>4. QED
  BY <1>1, <1>2, <1>3, OthersFollow

\* A call goes on in no other call's frame.
LEMMA OnlyOwnFrame ==
    ASSUME TypeOK, NEW c \in Calls, Continue(c)
    PROVE  \A other \in Calls \ {c} : call'[other] = call[other]
  BY DEF TypeOK, Continue, InsertIntent, CreateRequest, MarkPending, CheckEligible,
         CreateDecision, RejectRequest, MarkRejected, CountApprovals, FulfilRequest, MarkReady,
         ExpireRequest, MarkExpired, CancelByMember, ProposeAccepted, ProposeRefused,
         ProposeAnswerLost, MarkSubmitted, Enqueue, MarkFailed, Goto, Return

\* An approval is counted after it is written, and the count is acted on: so
\* every step of a call leaves no quorum, and no submission, behind.
LEMMA ContinueFollows ==
    ASSUME FollowedThrough, IInv, TypeOK', NEW c \in Calls, Continue(c)
    PROVE  FollowedThrough'
<1>0. PICK i : i = call[c].intent
  OBVIOUS
<1>1. TypeOK /\ Backing
  BY DEF IInv
<1>2. \A other \in Calls \ {c} : call'[other] = call[other]
  BY <1>1, OnlyOwnFrame
<1>3. call \in [Calls -> CallRecords]
  BY <1>1 DEF TypeOK
<1>4. CASE CreateRequest(c)
  <2>1. i \in Intents /\ request[i].status = "none" /\ call[c].pc = "create_request"
    BY <1>0, <1>1, <1>4, CallFields DEF CreateRequest, At, Backing, CreatorsAlone, IntentSteps
  <2>2. Approvals(i)' = {}
    BY <1>4, <2>1 DEF CreateRequest, FollowedThrough, VotesRequested, Approvals
  <2>3. request'[i] = [status |-> "pending", required |-> request'[i].required]
        /\ request'[i].required \in 1 .. MaxApprovers
    BY <1>0, <1>1, <1>4, <2>1 DEF CreateRequest, TypeOK
  <2>4. ~ Quorum(i)'
    <3>1. Cardinality(Approvals(i)') = 0
      BY <2>2, FS_EmptySet
    <3>2. PICK n \in 1 .. MaxApprovers : request'[i].required = n
      BY <2>3
    <3>3. QED
      BY <3>1, <3>2, LifecycleAssumption DEF Quorum
  <2>5. \A j \in Intents : j # i => request'[j] = request[j]
    BY <1>0, <1>1, <1>4 DEF CreateRequest, TypeOK
  <2>6. UNCHANGED <<status, vote, job>>
    BY <1>4 DEF CreateRequest
  <2>7. VotesRequested'
    BY <2>3, <2>5, <2>6 DEF FollowedThrough, VotesRequested
  <2>8. QuorumNotMissed'
    <3> SUFFICES ASSUME NEW j \in Intents, Quorum(j)', request'[j].status = "pending"
                 PROVE  ClosingUnderWay(j)'
      BY DEF QuorumNotMissed, ClosingUnderWay
    <3>1. j # i
      BY <2>4
    <3>2. Quorum(j) /\ request[j].status = "pending"
      BY <1>1, <2>5, <2>6, <3>1, QuorumReads
    <3>3. PICK d \in Calls : call[d].pc \in {"count", "fulfil_request"} /\ call[d].intent = j
      BY <3>2 DEF FollowedThrough, QuorumNotMissed
    <3>4. call'[d] = call[d]
      BY <1>2, <2>1, <3>3
    <3>5. QED
      BY <3>3, <3>4 DEF ClosingUnderWay
  <2>9. SubmittedIsTracked'
    BY <1>2, <2>1, <2>6 DEF FollowedThrough, SubmittedIsTracked, At
  <2>10. QED
    BY <2>7, <2>8, <2>9 DEF FollowedThrough
<1>5. CASE CreateDecision(c)
  <2>1. i \in Intents /\ call[c].member \in Members /\ call[c].vote \in Votes
        /\ call[c].pc = "decide" /\ request[i].status # "none"
    BY <1>0, <1>1, <1>5, CallFields
    DEF CreateDecision, At, Backing, CallsBacked, CallBacked, RequestSteps
  <2>2. UNCHANGED <<status, request, job>>
    BY <1>5 DEF CreateDecision
  <2>3. SubmittedIsTracked'
    BY <1>2, <2>1, <2>2 DEF FollowedThrough, SubmittedIsTracked, At
  <2>4. \A j \in Intents : j # i => vote'[j] = vote[j]
    BY <1>0, <1>1, <1>5 DEF CreateDecision, TypeOK
  <2>5. VotesRequested'
    BY <2>1, <2>2, <2>4 DEF FollowedThrough, VotesRequested
  <2>6. \/ Approvals(i)' = Approvals(i)
        \/ call'[c].pc = "count" /\ call'[c].intent = i
    <3>1. CASE UNCHANGED vote
      BY <3>1 DEF Approvals
    <3>2. CASE /\ vote' = [vote EXCEPT ![i][call[c].member] = call[c].vote]
               /\ vote[i][call[c].member] = "none"
               /\ Goto(c, IF call[c].vote = "rejected" THEN "reject_request" ELSE "count")
      <4>1. CASE call[c].vote = "rejected"
        BY <1>1, <2>1, <3>2, <4>1 DEF TypeOK, Approvals
      <4>2. CASE call[c].vote # "rejected"
        BY <1>0, <1>3, <3>2, <4>2 DEF Goto
      <4>3. QED
        BY <4>1, <4>2
    <3>3. QED
      BY <1>0, <1>5, <3>1, <3>2 DEF CreateDecision
  <2>7. QuorumNotMissed'
    <3> SUFFICES ASSUME NEW j \in Intents, Quorum(j)', request'[j].status = "pending"
                 PROVE  ClosingUnderWay(j)'
      BY DEF QuorumNotMissed, ClosingUnderWay
    <3>1. CASE j = i /\ call'[c].pc = "count" /\ call'[c].intent = i
      BY <3>1 DEF ClosingUnderWay
    <3>2. CASE Approvals(j)' = Approvals(j)
      <4>1. Quorum(j)
        BY <2>2, <3>2 DEF Quorum
      <4>2. PICK d \in Calls : call[d].pc \in {"count", "fulfil_request"} /\ call[d].intent = j
        BY <2>2, <4>1 DEF FollowedThrough, QuorumNotMissed
      <4>3. call'[d] = call[d]
        BY <1>2, <2>1, <4>2
      <4>4. QED
        BY <4>2, <4>3 DEF ClosingUnderWay
    <3>3. QED
      BY <2>4, <2>6, <3>1, <3>2 DEF Approvals
  <2>8. QED
    BY <2>3, <2>5, <2>7 DEF FollowedThrough
<1>6. CASE CountApprovals(c)
  <2>1. call[c].pc = "count" /\ UNCHANGED <<status, request, vote, job>>
    BY <1>6 DEF CountApprovals, At
  <2>2. \/ Cardinality(Approvals(i)) >= request[i].required
           /\ call'[c].pc = "fulfil_request" /\ call'[c].intent = i
        \/ ~ (Cardinality(Approvals(i)) >= request[i].required)
    BY <1>0, <1>3, <1>6 DEF CountApprovals, isQuorumMet, Goto
  <2>3. VotesRequested'
    BY <2>1 DEF FollowedThrough, VotesRequested
  <2>4. SubmittedIsTracked'
    BY <1>2, <2>1 DEF FollowedThrough, SubmittedIsTracked, At
  <2>5. QuorumNotMissed'
    <3> SUFFICES ASSUME NEW j \in Intents, Quorum(j)', request'[j].status = "pending"
                 PROVE  ClosingUnderWay(j)'
      BY DEF QuorumNotMissed, ClosingUnderWay
    <3>1. Quorum(j) /\ request[j].status = "pending"
      BY <2>1 DEF Quorum, Approvals
    <3>2. PICK d \in Calls : call[d].pc \in {"count", "fulfil_request"} /\ call[d].intent = j
      BY <3>1 DEF FollowedThrough, QuorumNotMissed
    <3>3. CASE d = c
      BY <1>0, <2>2, <3>1, <3>2, <3>3 DEF Quorum, ClosingUnderWay
    <3>4. CASE d # c
      BY <1>2, <3>2, <3>4 DEF ClosingUnderWay
    <3>5. QED
      BY <3>3, <3>4
  <2>6. QED
    BY <2>3, <2>4, <2>5 DEF FollowedThrough
<1>7. CASE FulfilRequest(c)
  <2>1. call[c].pc = "fulfil_request" /\ i \in Intents /\ UNCHANGED <<status, vote, job>>
    BY <1>0, <1>1, <1>7, CallFields DEF FulfilRequest, At, IntentSteps
  <2>2. /\ request'[i].status = "fulfilled"
        /\ \A j \in Intents : j # i => request'[j] = request[j]
    <3>1. request[i] \in RequestRows
      BY <1>1, <2>1 DEF TypeOK
    <3>2. QED
      BY <1>0, <1>1, <1>7, <2>1, <3>1 DEF FulfilRequest, UpdateRequest, TypeOK, RequestRows
  <2>3. VotesRequested'
    BY <2>1, <2>2 DEF FollowedThrough, VotesRequested
  <2>4. SubmittedIsTracked'
    BY <1>2, <2>1 DEF FollowedThrough, SubmittedIsTracked, At
  <2>5. QuorumNotMissed'
    <3> SUFFICES ASSUME NEW j \in Intents, Quorum(j)', request'[j].status = "pending"
                 PROVE  ClosingUnderWay(j)'
      BY DEF QuorumNotMissed, ClosingUnderWay
    <3>1. j # i /\ request'[j] = request[j]
      BY <2>2
    <3>2. Quorum(j)
      BY <1>1, <2>1, <3>1, QuorumReads
    <3>3. PICK d \in Calls : call[d].pc \in {"count", "fulfil_request"} /\ call[d].intent = j
      BY <3>1, <3>2 DEF FollowedThrough, QuorumNotMissed
    <3>4. QED
      BY <1>0, <1>2, <3>1, <3>3 DEF ClosingUnderWay
  <2>6. QED
    BY <2>3, <2>4, <2>5 DEF FollowedThrough
<1>8. CASE Enqueue(c)
  <2>1. call[c].pc = "enqueue" /\ i \in Intents /\ UNCHANGED <<status, request, vote>>
    BY <1>0, <1>1, <1>8, CallFields DEF Enqueue, At, IntentSteps
  <2>2. /\ job'[i].state # "none"
        /\ \A j \in Intents : j # i => job'[j] = job[j]
    BY <1>0, <1>1, <1>8, <2>1 DEF Enqueue, TypeOK
  <2>3. SubmittedIsTracked'
    BY <1>0, <1>2, <2>1, <2>2 DEF FollowedThrough, SubmittedIsTracked, At
  <2>4. VotesRequested'
    BY <2>1 DEF FollowedThrough, VotesRequested
  <2>5. QuorumNotMissed'
    BY <1>2, <2>1 DEF FollowedThrough, QuorumNotMissed, Quorum, Approvals
  <2>6. QED
    BY <2>3, <2>4, <2>5 DEF FollowedThrough
<1>9. CASE MarkSubmitted(c)
  <2>1. call[c].pc = "mark_submitted" /\ UNCHANGED <<request, vote, job>>
    BY <1>9 DEF MarkSubmitted, At
  <2>2. /\ call'[c].pc = "enqueue" /\ call'[c].intent = i
        /\ \A j \in Intents : j # i => status'[j] = status[j]
    BY <1>0, <1>1, <1>3, <1>9 DEF MarkSubmitted, UpdateStatus, Goto, TypeOK
  <2>3. SubmittedIsTracked'
    BY <1>2, <2>1, <2>2 DEF FollowedThrough, SubmittedIsTracked, At
  <2>4. VotesRequested'
    BY <2>1 DEF FollowedThrough, VotesRequested
  <2>5. QuorumNotMissed'
    BY <1>2, <2>1 DEF FollowedThrough, QuorumNotMissed, Quorum, Approvals
  <2>6. QED
    BY <2>3, <2>4, <2>5 DEF FollowedThrough
<1>10. CASE RejectRequest(c) \/ ExpireRequest(c)
  <2>1. call[c].pc \in {"reject_request", "expire_request"} /\ i \in Intents
        /\ UNCHANGED <<status, vote, job>>
    BY <1>0, <1>1, <1>10, CallFields DEF RejectRequest, ExpireRequest, At, IntentSteps
  <2>2. request[i] \in RequestRows
    BY <1>1, <2>1 DEF TypeOK
  <2>3. \A j \in Intents :
           request'[j] = request[j] \/ request'[j].status \notin {"none", "pending"}
    BY <1>1, <1>10, <2>1, <2>2 DEF RejectRequest, ExpireRequest, UpdateRequest, TypeOK, RequestRows
  <2>4. QED
    BY <1>1, <1>2, <2>1, <2>3, OthersFollow
<1>11. ASSUME UNCHANGED <<request, vote, job>>,
              call[c].pc \notin {"count", "fulfil_request", "enqueue"},
              \A j \in Intents : status'[j] = "submitted" => status[j] = "submitted"
       PROVE  FollowedThrough'
  BY <1>1, <1>2, <1>11, OthersFollow
<1>12. CASE InsertIntent(c) \/ MarkPending(c) \/ MarkRejected(c) \/ MarkReady(c) \/ MarkExpired(c)
            \/ MarkFailed(c) \/ CancelByMember(c)
  <2>1. /\ UNCHANGED <<request, vote, job>>
        /\ call[c].pc \notin {"count", "fulfil_request", "enqueue"}
    BY <1>12 DEF InsertIntent, MarkPending, MarkRejected, MarkReady, MarkExpired, MarkFailed,
                 CancelByMember, At
  <2>2. CASE CancelByMember(c)
    BY <1>11, <2>1, <2>2 DEF CancelByMember
  <2>3. CASE ~ CancelByMember(c)
    <3>1. call[c].decision \in PolicyDecisions \/ ~ InsertIntent(c)
      BY <1>1, CallFields DEF InsertIntent, At
    <3>2. PICK new : UpdateStatus(i, new) /\ new # "submitted"
      BY <1>0, <1>12, <2>3, <3>1, TableEntries
      DEF InsertIntent, MarkPending, MarkRejected, MarkReady, MarkExpired, MarkFailed
    <3>3. QED
      BY <1>1, <1>11, <2>1, <3>2 DEF UpdateStatus, TypeOK
  <2>4. QED
    BY <2>2, <2>3
<1>13. CASE CheckEligible(c) \/ ProposeAccepted(c) \/ ProposeRefused(c) \/ ProposeAnswerLost(c)
  BY <1>11, <1>13 DEF CheckEligible, ProposeAccepted, ProposeRefused, ProposeAnswerLost, At
<1>14. QED
  BY <1>4, <1>5, <1>6, <1>7, <1>8, <1>9, <1>10, <1>12, <1>13 DEF Continue

\* The processor takes no job away, and submits nothing.
LEMMA PollFollows ==
    ASSUME FollowedThrough, TypeOK, NEW i \in Intents, Poll(i)
    PROVE  FollowedThrough'
<1>1. UNCHANGED <<request, vote, call>>
  BY DEF Poll, PollStart, PollAnswer, PollExecuted, PollFailed, PollRecord, PollGiveUp,
         PollThrows, PollStalled
<1>2. \A j \in Intents : job'[j].state = "none" => job[j].state = "none"
  <2>1. \A j \in Intents : j # i => job'[j] = job[j]
    BY DEF TypeOK, Poll, PollStart, PollAnswer, PollExecuted, PollFailed, PollRecord,
           PollGiveUp, PollThrows, PollStalled, PollError, SetJob
  <2>2. job[i] \in JobRows
    BY DEF TypeOK
  <2>3. job'[i].state # "none"
    BY <2>2 DEF TypeOK, JobRows, Poll, PollStart, PollAnswer, PollExecuted, PollFailed, PollRecord,
           PollGiveUp, PollThrows, PollStalled, PollError, SetJob
  <2>4. QED
    BY <2>1, <2>3
<1>3. \A j \in Intents : status'[j] = "submitted" => status[j] = "submitted"
  BY TableEntries
  DEF TypeOK, Poll, PollStart, PollAnswer, PollExecuted, PollFailed, PollRecord, PollGiveUp,
      PollThrows, PollStalled, UpdateStatus
<1>4. QED
  BY <1>1, <1>2, <1>3
  DEF FollowedThrough, VotesRequested, QuorumNotMissed, SubmittedIsTracked, Quorum, Approvals, At

\* Without failures every step follows through.
LEMMA FollowsStep ==
    ASSUME Failures = FALSE, IInv, FollowedThrough, [Next]_vars
    PROVE  FollowedThrough'
<1>1. TypeOK /\ TypeOK'
  BY TypeStep DEF IInv
<1>2. ASSUME NEW c \in Calls, Begin(c) \/ Continue(c) \/ CallFails(c)
      PROVE  FollowedThrough'
  BY <1>1, <1>2, BeginFollows, ContinueFollows DEF CallFails
<1>3. ASSUME NEW i \in Intents, Poll(i) PROVE FollowedThrough'
  BY <1>1, <1>3, PollFollows
<1>4. ASSUME UNCHANGED <<status, request, vote, call, job>> PROVE FollowedThrough'
  BY <1>4
  DEF FollowedThrough, VotesRequested, QuorumNotMissed, SubmittedIsTracked, Quorum, Approvals, At
<1>5. QED
  BY <1>2, <1>3, <1>4 DEF Next, GainRole, LoseRole, SafeSettles, vars

\* As long as no call fails, every approval that completes a quorum is acted
\* on, and every submission gets its job, however the calls interleave.
THEOREM FollowsThrough ==
    ASSUME Failures = FALSE
    PROVE  Spec => []FollowedThrough
<1>1. Init => FollowedThrough
  BY DEF Init, FollowedThrough, VotesRequested, QuorumNotMissed, SubmittedIsTracked, Quorum,
         NoRequest
<1>2. IInv /\ FollowedThrough /\ [Next]_vars => FollowedThrough'
  BY FollowsStep
<1>3. QED
  BY <1>1, <1>2, Invariant, PTL DEF Spec

\* No quorum is missed.
THEOREM NoQuorumMissed ==
    ASSUME Failures = FALSE
    PROVE  Spec => []QuorumNotMissed
<1>1. FollowedThrough => QuorumNotMissed
  BY DEF FollowedThrough
<1>2. QED
  BY <1>1, FollowsThrough, PTL

\* No submission goes untracked.
THEOREM SubmissionsTracked ==
    ASSUME Failures = FALSE
    PROVE  Spec => []SubmittedIsTracked
<1>1. FollowedThrough => SubmittedIsTracked
  BY DEF FollowedThrough
<1>2. QED
  BY <1>1, FollowsThrough, PTL

-----------------------------------------------------------------------------
(* When, besides, calls do not overlap and nobody is revoked *)

\* Steps of a call between its check that the request is pending and the write
\* that closes it.
OpenSteps ==
    {"mark_pending", "check_eligible", "decide", "count", "fulfil_request",
     "reject_request", "expire_request"}

\* Steps of a call that has written the request and not yet the status.
ClosingSteps == {"create_request", "mark_ready", "mark_rejected", "mark_expired"}

ProposalSteps == {"post", "mark_submitted", "mark_failed"}

RejectionSteps == {"reject_request", "mark_rejected"}

\* A call still finds the rows as its checks left them.
CallInStep(c) ==
    /\ call[c].pc \in OpenSteps => request[call[c].intent].status = "pending"
    /\ call[c].pc \in ClosingSteps =>
          /\ status[call[c].intent] = "pending_approval"
          /\ request[call[c].intent].status # "pending"
    /\ call[c].pc \in ProposalSteps => status[call[c].intent] = "ready_to_sign"
    /\ call[c].pc # "cancel_intents"

\* The request, the votes and the job of an intent say what its status says,
\* but for what the call under way has still to write.
RowInStep(i) ==
    /\ request[i].status = "pending" => status[i] = "pending_approval"
    /\ status[i] = "pending_approval" =>
          \/ request[i].status = "pending"
          \/ \E c \in Calls : call[c].pc \in ClosingSteps /\ call[c].intent = i
    /\ \A m \in Members :
          vote[i][m] = "rejected" =>
             \/ status[i] = "cancelled"
             \/ \E c \in Calls : call[c].pc \in RejectionSteps /\ call[c].intent = i
    /\ job[i].state \in {"polling", "executed", "failed", "giving_up"} =>
          status[i] = "submitted"

InStep == (\A c \in Calls : CallInStep(c)) /\ (\A i \in Intents : RowInStep(i))

\* One handler at a time, that never fails; no revocation.
Undisturbed ==
    /\ Failures = FALSE
    /\ Revocable = {}
    /\ \A c, other \in Calls : c = other

\* What StatusFollowsTable allows of one intent.
ByTheTable(i) ==
    status'[i] # status[i] =>
       \/ status[i] = "absent"
       \/ LegalMove(status[i], status'[i])
       \/ status[i] = "ready_to_sign" /\ status'[i] = "failed"

\* The moves the services make are in the table.
LEMMA TableMoves ==
    /\ LegalMove("pending_approval", "ready_to_sign")
    /\ LegalMove("pending_approval", "cancelled")
    /\ LegalMove("ready_to_sign", "submitted")
    /\ LegalMove("submitted", "executed")
    /\ LegalMove("submitted", "failed")
  BY DEF LegalMove, TRANSITIONS

\* An intent the call is not about stays in step when its rows stay.
LEMMA OtherRows ==
    ASSUME NEW c \in Calls, \A other \in Calls : other = c,
           NEW j \in Intents, RowInStep(j),
           ~ (call[c].pc \in ClosingSteps \union RejectionSteps /\ call[c].intent = j),
           status'[j] = status[j], request'[j] = request[j], vote'[j] = vote[j],
           job'[j] = job[j]
    PROVE  RowInStep(j)'
  BY DEF RowInStep

\* Starting a handler, the only one, from rows in step.
LEMMA BeginInStep ==
    ASSUME Undisturbed, InStep, IInv, NEW c \in Calls, Begin(c)
    PROVE  InStep' /\ UNCHANGED status
<1>1. UNCHANGED <<status, request, vote, job>>
  BY DEF Begin, BeginCreate, BeginDecide, BeginExpire, BeginPropose, BeginRevoke
<1>2. call \in [Calls -> CallRecords] /\ \A other \in Calls : other = c
  BY DEF IInv, TypeOK, Undisturbed
<1>3. call[c] = Idle
  BY DEF Begin, BeginCreate, BeginDecide, BeginExpire, BeginPropose, BeginRevoke, Start
<1>4. \A j \in Intents : RowInStep(j)'
  BY <1>1, <1>2, <1>3, OtherRows DEF InStep, Idle, ClosingSteps, RejectionSteps
<1>5. CallInStep(c)'
  <2>1. ASSUME NEW i \in Intents, NEW d \in PolicyDecisions, BeginCreate(c, i, d)
        PROVE  CallInStep(c)'
    BY <1>2, <2>1
    DEF BeginCreate, Start, CallInStep, OpenSteps, ClosingSteps, ProposalSteps
  <2>2. ASSUME NEW i \in Intents, NEW m \in Members, NEW v \in Votes, BeginDecide(c, i, m, v)
        PROVE  CallInStep(c)'
    BY <1>1, <1>2, <2>2
    DEF BeginDecide, Start, CallInStep, OpenSteps, ClosingSteps, ProposalSteps
  <2>3. ASSUME NEW i \in Intents, BeginExpire(c, i) PROVE CallInStep(c)'
    BY <1>1, <1>2, <2>3
    DEF BeginExpire, Start, CallInStep, OpenSteps, ClosingSteps, ProposalSteps
  <2>4. ASSUME NEW i \in Intents, BeginPropose(c, i) PROVE CallInStep(c)'
    BY <1>1, <1>2, <2>4
    DEF BeginPropose, Start, CallInStep, OpenSteps, ClosingSteps, ProposalSteps
  <2>5. QED
    BY <2>1, <2>2, <2>3, <2>4 DEF Begin, BeginRevoke, Undisturbed
<1>6. QED
  BY <1>1, <1>2, <1>4, <1>5 DEF InStep

\* The one call's step: its intent's rows and frame in step, the others as they were.
LEMMA AssembleInStep ==
    ASSUME InStep, NEW c \in Calls, \A other \in Calls : other = c,
           NEW i \in Intents, call[c].intent = i,
           RowInStep(i)', CallInStep(c)',
           \A j \in Intents : j # i =>
              /\ status'[j] = status[j] /\ request'[j] = request[j]
              /\ vote'[j] = vote[j] /\ job'[j] = job[j]
    PROVE  InStep'
<1>1. ASSUME NEW j \in Intents, j # i PROVE RowInStep(j)'
  BY <1>1, OtherRows DEF InStep
<1>2. QED
  BY <1>1 DEF InStep

\* A step of the only call finds the status it writes over.
LEMMA ContinueInStep ==
    ASSUME Undisturbed, InStep, IInv, TypeOK', NEW c \in Calls, Continue(c)
    PROVE  InStep' /\ \A j \in Intents : ByTheTable(j)
<1>0. PICK i : i = call[c].intent
  OBVIOUS
<1>1. TypeOK /\ Backing /\ call \in [Calls -> CallRecords] /\ \A other \in Calls : other = c
  BY DEF IInv, TypeOK, Undisturbed
<1>2. CallInStep(c) /\ \A j \in Intents : RowInStep(j)
  BY DEF InStep
<1> USE DEF OpenSteps, ClosingSteps, ProposalSteps, RejectionSteps
<1>3. ASSUME UNCHANGED <<request, vote, job>>, i \in Intents, NEW new,
             UpdateStatus(i, new), Return(c),
             RowInStep(i)'
      PROVE  InStep' /\ \A j \in Intents : status'[j] = IF j = i THEN new ELSE status[j]
  <2>1. status'[i] = new /\ \A j \in Intents : j # i => status'[j] = status[j]
    BY <1>1, <1>3 DEF UpdateStatus, TypeOK
  <2>2. CallInStep(c)'
    BY <1>1, <1>3 DEF CallInStep, Return, Idle
  <2>3. QED
    BY <1>0, <1>1, <1>3, <2>1, <2>2, AssembleInStep
<1>4. CASE InsertIntent(c)
  <2>1. /\ call[c].pc = "insert" /\ i \in Intents /\ call[c].decision \in PolicyDecisions
        /\ status[i] = "absent" /\ request[i].status = "none"
        /\ UNCHANGED <<request, vote, job>>
    <3>1. /\ call[c].pc = "insert" /\ i \in Intents /\ call[c].decision \in PolicyDecisions
          /\ UNCHANGED <<request, vote, job>>
      BY <1>0, <1>1, <1>4, CallFields DEF InsertIntent, At
    <3>2. status[i] = "absent"
      BY <1>0, <1>1, <3>1 DEF Backing, CreatorsAlone, At
    <3>3. QED
      BY <1>1, <3>1, <3>2 DEF Backing, RowsAgree
  <2>2. PICK d : d = call[c].decision
    OBVIOUS
  <2>3. /\ status'[i] = IF d = "ALLOW" THEN "ready_to_sign"
                        ELSE IF d = "DENY" THEN "denied" ELSE "pending_approval"
        /\ \A j \in Intents : j # i => status'[j] = status[j]
    BY <1>0, <1>1, <1>4, <2>1, <2>2, TableEntries DEF InsertIntent, UpdateStatus, TypeOK
  <2>4. \/ d = "REQUIRE_APPROVAL" /\ call'[c] = [pc |-> "create_request", intent |-> i]
        \/ d # "REQUIRE_APPROVAL" /\ call'[c] = Idle
    BY <1>0, <1>1, <1>4, <2>2 DEF InsertIntent, Goto, Return
  <2>5. CallInStep(c)'
    BY <2>1, <2>3, <2>4 DEF CallInStep, Idle
  <2>6. \A m \in Members : vote[i][m] # "rejected"
    BY <1>0, <1>1, <1>2, <2>1 DEF RowInStep
  <2>7. job[i].state \notin {"polling", "executed", "failed", "giving_up"}
    BY <1>2, <2>1 DEF RowInStep
  <2>8. RowInStep(i)'
    BY <2>1, <2>2, <2>3, <2>4, <2>6, <2>7 DEF RowInStep, PolicyDecisions
  <2>9. InStep'
    BY <1>0, <1>1, <2>1, <2>3, <2>5, <2>8, AssembleInStep
  <2>10. QED
    BY <2>1, <2>3, <2>9 DEF ByTheTable
<1>5. CASE CreateRequest(c)
  <2>1. /\ call[c].pc = "create_request" /\ i \in Intents /\ status[i] = "pending_approval"
        /\ UNCHANGED <<status, vote, job>>
    BY <1>0, <1>1, <1>2, <1>5, CallFields DEF CreateRequest, At, IntentSteps, CallInStep
  <2>2. /\ request'[i].status = "pending"
        /\ \A j \in Intents : j # i => request'[j] = request[j]
    BY <1>0, <1>1, <1>5, <2>1 DEF CreateRequest, TypeOK
  <2>3. call'[c].pc = "mark_pending" /\ call'[c].intent = i
    BY <1>0, <1>1, <1>5 DEF CreateRequest, Goto
  <2>4. CallInStep(c)'
    BY <2>2, <2>3 DEF CallInStep
  <2>5. RowInStep(i)'
    BY <1>0, <1>1, <1>2, <2>1, <2>2 DEF RowInStep
  <2>6. InStep'
    BY <1>0, <1>1, <2>1, <2>2, <2>4, <2>5, AssembleInStep
  <2>7. QED
    BY <2>1, <2>6 DEF ByTheTable
<1>6. CASE MarkPending(c)
  <2>1. /\ call[c].pc = "mark_pending" /\ i \in Intents /\ request[i].status = "pending"
        /\ UNCHANGED <<request, vote, job>> /\ UpdateStatus(i, "pending_approval") /\ Return(c)
    BY <1>0, <1>1, <1>2, <1>6, CallFields DEF MarkPending, At, IntentSteps, CallInStep
  <2>2. status[i] = "pending_approval"
    BY <1>2, <2>1 DEF RowInStep
  <2>3. status' = status
    BY <1>1, <2>1, <2>2 DEF UpdateStatus, TypeOK
  <2>4. RowInStep(i)'
    BY <1>0, <1>1, <1>2, <2>1, <2>3, OtherRows
  <2>5. QED
    BY <1>0, <1>1, <2>1, <2>3, <2>4, AssembleInStep DEF ByTheTable, CallInStep, Return, Idle
<1>7. CASE CheckEligible(c)
  <2>1. /\ call[c].pc = "check_eligible" /\ i \in Intents
        /\ UNCHANGED <<status, request, vote, job>>
    BY <1>0, <1>1, <1>7, CallFields DEF CheckEligible, At
  <2>2. CallInStep(c)'
    <3>1. CASE call' = [call EXCEPT ![c].pc = "decide"]
      <4>1. call[c] \in CallRecords
        BY <1>1
      <4>2. call'[c].pc = "decide" /\ call'[c].intent = call[c].intent
        BY <1>1, <2>1, <3>1, <4>1 DEF CallRecords, IntentSteps, Idle
      <4>3. QED
        BY <1>2, <2>1, <4>2 DEF CallInStep
    <3>2. CASE Return(c)
      BY <1>1, <3>2 DEF Return, CallInStep, Idle
    <3>3. QED
      BY <1>7, <3>1, <3>2 DEF CheckEligible
  <2>3. RowInStep(i)'
    BY <1>1, <1>2, <2>1, OtherRows
  <2>4. QED
    BY <1>0, <1>1, <2>1, <2>2, <2>3, AssembleInStep DEF ByTheTable
<1>8. CASE CreateDecision(c)
  <2>1. /\ call[c].pc = "decide" /\ i \in Intents /\ call[c].member \in Members
        /\ call[c].vote \in Votes /\ request[i].status = "pending"
        /\ UNCHANGED <<status, request, job>>
    BY <1>0, <1>1, <1>2, <1>8, CallFields DEF CreateDecision, At, CallInStep
  <2>2. \A j \in Intents : j # i => vote'[j] = vote[j]
    BY <1>0, <1>1, <1>8 DEF CreateDecision, TypeOK
  <2>3. \/ UNCHANGED vote /\ call'[c] = Idle
        \/ /\ vote' = [vote EXCEPT ![i][call[c].member] = call[c].vote]
           /\ call'[c] = [pc |-> IF call[c].vote = "rejected" THEN "reject_request" ELSE "count",
                          intent |-> i]
    BY <1>0, <1>1, <1>8 DEF CreateDecision, Return, Goto
  <2>4. CallInStep(c)'
    BY <2>1, <2>3 DEF CallInStep, Idle
  <2>5. \A m \in Members : vote[i][m] # "rejected"
    BY <1>0, <1>1, <1>2, <2>1 DEF RowInStep
  <2>6. \A m \in Members : vote'[i][m] = "rejected" => call'[c].pc = "reject_request"
                                                        /\ call'[c].intent = i
    BY <1>1, <2>1, <2>3, <2>5 DEF TypeOK
  <2>7. RowInStep(i)'
    BY <1>0, <1>1, <1>2, <2>1, <2>6 DEF RowInStep
  <2>8. QED
    BY <1>0, <1>1, <2>1, <2>2, <2>4, <2>7, AssembleInStep DEF ByTheTable
<1>9. CASE CountApprovals(c)
  <2>1. /\ call[c].pc = "count" /\ i \in Intents /\ request[i].status = "pending"
        /\ UNCHANGED <<status, request, vote, job>>
    BY <1>0, <1>1, <1>2, <1>9, CallFields DEF CountApprovals, At, IntentSteps, CallInStep
  <2>2. call'[c] = Idle \/ call'[c] = [pc |-> "fulfil_request", intent |-> i]
    BY <1>0, <1>1, <1>9 DEF CountApprovals, Return, Goto
  <2>3. CallInStep(c)'
    BY <2>1, <2>2 DEF CallInStep, Idle
  <2>4. RowInStep(i)'
    BY <1>1, <1>2, <2>1, OtherRows
  <2>5. QED
    BY <1>0, <1>1, <2>1, <2>3, <2>4, AssembleInStep DEF ByTheTable
<1>10. CASE RejectRequest(c) \/ FulfilRequest(c) \/ ExpireRequest(c)
  <2>1. /\ call[c].pc \in {"reject_request", "fulfil_request", "expire_request"}
        /\ i \in Intents /\ request[i].status = "pending" /\ status[i] = "pending_approval"
        /\ UNCHANGED <<status, vote, job>>
    BY <1>0, <1>1, <1>2, <1>10, CallFields
    DEF RejectRequest, FulfilRequest, ExpireRequest, At, IntentSteps, CallInStep, RowInStep
  <2>2. /\ request'[i].status # "pending"
        /\ \A j \in Intents : j # i => request'[j] = request[j]
    <3>1. request[i] \in RequestRows
      BY <1>1, <2>1 DEF TypeOK
    <3>2. QED
      BY <1>0, <1>1, <1>10, <2>1, <3>1
      DEF RejectRequest, FulfilRequest, ExpireRequest, UpdateRequest, TypeOK, RequestRows
  <2>3. /\ call'[c].intent = i
        /\ call'[c].pc = IF call[c].pc = "reject_request" THEN "mark_rejected"
                         ELSE IF call[c].pc = "fulfil_request" THEN "mark_ready"
                         ELSE "mark_expired"
    BY <1>0, <1>1, <1>10 DEF RejectRequest, FulfilRequest, ExpireRequest, At, Goto
  <2>4. CallInStep(c)'
    BY <2>1, <2>2, <2>3 DEF CallInStep
  <2>5. RowInStep(i)'
    BY <1>0, <1>1, <1>2, <2>1, <2>2, <2>3 DEF RowInStep
  <2>6. QED
    BY <1>0, <1>1, <2>1, <2>2, <2>4, <2>5, AssembleInStep DEF ByTheTable
<1>11. CASE MarkRejected(c) \/ MarkReady(c) \/ MarkExpired(c)
  <2>1. /\ call[c].pc \in {"mark_rejected", "mark_ready", "mark_expired"}
        /\ i \in Intents /\ status[i] = "pending_approval" /\ request[i].status # "pending"
        /\ UNCHANGED <<request, vote, job>> /\ Return(c)
    BY <1>0, <1>1, <1>2, <1>11, CallFields
    DEF MarkRejected, MarkReady, MarkExpired, At, IntentSteps, CallInStep
  <2>2. PICK new : UpdateStatus(i, new) /\ new = IF call[c].pc = "mark_ready" THEN "ready_to_sign"
                                                 ELSE "cancelled"
    BY <1>0, <1>11, TableEntries DEF MarkRejected, MarkReady, MarkExpired, At
  <2>3. status'[i] = new
    BY <1>1, <2>1, <2>2 DEF UpdateStatus, TypeOK
  <2>4. RowInStep(i)'
    BY <1>0, <1>1, <1>2, <2>1, <2>2, <2>3 DEF RowInStep
  <2>5. LegalMove(status[i], new)
    BY <2>1, <2>2, TableMoves
  <2>6. InStep' /\ \A j \in Intents : status'[j] = IF j = i THEN new ELSE status[j]
    BY <1>3, <2>1, <2>2, <2>4
  <2>7. QED
    BY <2>3, <2>5, <2>6 DEF ByTheTable
<1>12. CASE ProposeAccepted(c) \/ ProposeRefused(c)
  <2>1. /\ call[c].pc = "post" /\ i \in Intents /\ status[i] = "ready_to_sign"
        /\ UNCHANGED <<status, request, vote, job>>
    BY <1>0, <1>1, <1>2, <1>12, CallFields
    DEF ProposeAccepted, ProposeRefused, At, IntentSteps, CallInStep
  <2>2. \/ call'[c] = Idle
        \/ call'[c].pc \in {"mark_submitted", "mark_failed"} /\ call'[c].intent = i
    BY <1>0, <1>1, <1>12 DEF ProposeAccepted, ProposeRefused, Return, Goto
  <2>3. CallInStep(c)'
    BY <2>1, <2>2 DEF CallInStep, Idle
  <2>4. RowInStep(i)'
    BY <1>1, <1>2, <2>1, OtherRows
  <2>5. QED
    BY <1>0, <1>1, <2>1, <2>3, <2>4, AssembleInStep DEF ByTheTable
<1>13. CASE MarkSubmitted(c)
  <2>1. /\ call[c].pc = "mark_submitted" /\ i \in Intents /\ status[i] = "ready_to_sign"
        /\ UNCHANGED <<request, vote, job>>
    BY <1>0, <1>1, <1>2, <1>13, CallFields DEF MarkSubmitted, At, IntentSteps, CallInStep
  <2>2. /\ status'[i] = "submitted"
        /\ \A j \in Intents : j # i => status'[j] = status[j]
    BY <1>0, <1>1, <1>13, <2>1, TableEntries DEF MarkSubmitted, UpdateStatus, TypeOK
  <2>3. call'[c].pc = "enqueue"
    BY <1>1, <1>13 DEF MarkSubmitted, Goto
  <2>4. CallInStep(c)'
    BY <2>3 DEF CallInStep
  <2>5. RowInStep(i)'
    BY <1>0, <1>1, <1>2, <2>1, <2>2 DEF RowInStep
  <2>6. QED
    BY <1>0, <1>1, <2>1, <2>2, <2>4, <2>5, AssembleInStep, TableMoves DEF ByTheTable
<1>14. CASE Enqueue(c)
  <2>1. /\ call[c].pc = "enqueue" /\ i \in Intents
        /\ UNCHANGED <<status, request, vote>> /\ Return(c)
    BY <1>0, <1>1, <1>14, CallFields DEF Enqueue, At, IntentSteps
  <2>2. /\ job'[i] = job[i] \/ job'[i].state = "waiting"
        /\ \A j \in Intents : j # i => job'[j] = job[j]
    BY <1>0, <1>1, <1>14, <2>1 DEF Enqueue, TypeOK
  <2>3. CallInStep(c)'
    BY <1>1, <2>1 DEF CallInStep, Return, Idle
  <2>4. RowInStep(i)'
    BY <1>0, <1>1, <1>2, <2>1, <2>2 DEF RowInStep
  <2>5. QED
    BY <1>0, <1>1, <2>1, <2>2, <2>3, <2>4, AssembleInStep DEF ByTheTable
<1>15. CASE MarkFailed(c)
  <2>1. /\ call[c].pc = "mark_failed" /\ i \in Intents /\ status[i] = "ready_to_sign"
        /\ UNCHANGED <<request, vote, job>> /\ UpdateStatus(i, "failed") /\ Return(c)
    BY <1>0, <1>1, <1>2, <1>15, CallFields DEF MarkFailed, At, IntentSteps, CallInStep
  <2>2. status'[i] = "failed"
    BY <1>1, <2>1 DEF UpdateStatus, TypeOK
  <2>3. RowInStep(i)'
    BY <1>0, <1>1, <1>2, <2>1, <2>2 DEF RowInStep
  <2>4. InStep' /\ \A j \in Intents : status'[j] = IF j = i THEN "failed" ELSE status[j]
    BY <1>3, <2>1, <2>3
  <2>5. QED
    BY <2>1, <2>4 DEF ByTheTable
<1>16. ~ CancelByMember(c) /\ ~ ProposeAnswerLost(c)
  BY <1>2 DEF CancelByMember, ProposeAnswerLost, At, CallInStep, Undisturbed
<1>17. QED
  BY <1>4, <1>5, <1>6, <1>7, <1>8, <1>9, <1>10, <1>11, <1>12, <1>13, <1>14, <1>15, <1>16
  DEF Continue

\* The processor records an outcome over the submission it saw.
LEMMA PollInStep ==
    ASSUME Undisturbed, InStep, TypeOK, NEW i \in Intents, Poll(i)
    PROVE  InStep' /\ \A j \in Intents : ByTheTable(j)
<1>1. UNCHANGED <<request, vote, call>>
  BY DEF Poll, PollStart, PollAnswer, PollExecuted, PollFailed, PollRecord, PollGiveUp,
         PollThrows, PollStalled
<1>2. \A j \in Intents : j # i => status'[j] = status[j] /\ job'[j] = job[j]
  BY DEF TypeOK, Poll, PollStart, PollAnswer, PollExecuted, PollFailed, PollRecord, PollGiveUp,
         PollThrows, PollStalled, PollError, SetJob, UpdateStatus
<1>3. \/ status'[i] = status[i] /\ (job'[i].state = "done" \/ status[i] = "submitted")
      \/ /\ status[i] = "submitted" /\ status'[i] \in {"executed", "failed"}
         /\ job'[i].state = "done"
  <2>1. job[i] \in JobRows /\ Failures = FALSE /\ ~ PollError(i)
    BY DEF TypeOK, Undisturbed, PollError
  <2>2. CASE PollStart(i)
    BY <2>1, <2>2 DEF PollStart, SetJob, TypeOK, JobRows
  <2>3. CASE PollAnswer(i)
    BY <2>1, <2>3 DEF PollAnswer, InStep, RowInStep
  <2>4. ASSUME NEW state \in {"executed", "failed"}, PollRecord(i, state, state)
        PROVE  /\ status[i] = "submitted" /\ status'[i] \in {"executed", "failed"}
               /\ job'[i].state = "done"
    BY <2>1, <2>4 DEF PollRecord, UpdateStatus, SetJob, InStep, RowInStep, TypeOK, JobRows
  <2>5. CASE PollGiveUp(i)
    BY <2>1, <2>5 DEF PollGiveUp, UpdateStatus, SetJob, InStep, RowInStep, TypeOK, JobRows
  <2>6. QED
    BY <2>1, <2>2, <2>3, <2>4, <2>5, TableEntries
    DEF Poll, PollExecuted, PollFailed, PollThrows, PollStalled
<1>4. \A c \in Calls : CallInStep(c)'
  <2>1. \A c \in Calls : call[c].pc \in IntentSteps => call[c].intent \in Intents
    BY CallFields
  <2>2. QED
    BY <1>1, <1>2, <1>3, <2>1
    DEF InStep, CallInStep, ProposalSteps, ClosingSteps, IntentSteps
<1>5. \A j \in Intents : RowInStep(j)'
  BY <1>1, <1>2, <1>3 DEF InStep, RowInStep
<1>6. \A j \in Intents : ByTheTable(j)
  BY <1>2, <1>3, TableMoves DEF ByTheTable
<1>7. QED
  BY <1>4, <1>5, <1>6 DEF InStep

\* Undisturbed, every step keeps rows and calls in step and follows the table.
LEMMA StepsInStep ==
    ASSUME Undisturbed, InStep, IInv, [Next]_vars
    PROVE  InStep' /\ \A j \in Intents : ByTheTable(j)
<1>1. TypeOK /\ TypeOK'
  BY TypeStep DEF IInv
<1>2. ASSUME NEW c \in Calls, Begin(c) \/ Continue(c) \/ CallFails(c)
      PROVE  InStep' /\ \A j \in Intents : ByTheTable(j)
  BY <1>1, <1>2, BeginInStep, ContinueInStep DEF CallFails, Undisturbed, ByTheTable
<1>3. ASSUME NEW i \in Intents, Poll(i)
      PROVE  InStep' /\ \A j \in Intents : ByTheTable(j)
  BY <1>1, <1>3, PollInStep
<1>4. ASSUME UNCHANGED <<status, request, vote, call, job>>
      PROVE  InStep' /\ \A j \in Intents : ByTheTable(j)
  BY <1>4 DEF InStep, CallInStep, RowInStep, ByTheTable
<1>5. QED
  BY <1>2, <1>3, <1>4 DEF Next, GainRole, LoseRole, SafeSettles, vars

\* Handlers that run one after the other, none failing and nobody revoked,
\* leave rows and calls in step.
THEOREM StaysInStep ==
    ASSUME Undisturbed
    PROVE  Spec => []InStep
<1>1. Init => InStep
  BY DEF Init, InStep, CallInStep, RowInStep, Idle, NoRequest, NoJob, OpenSteps, ClosingSteps,
         ProposalSteps
<1>2. IInv /\ InStep /\ [Next]_vars => InStep'
  BY StepsInStep
<1>3. QED
  BY <1>1, <1>2, Invariant, PTL DEF Spec

\* Between handlers the request, the votes and the status of an intent agree.
THEOREM SerialAgreement ==
    ASSUME Undisturbed
    PROVE  Spec => []RequestAndIntentAgree
<1>1. InStep => RequestAndIntentAgree
  BY DEF InStep, RowInStep, RequestAndIntentAgree, Resting, Idle, ClosingSteps, RejectionSteps
<1>2. QED
  BY <1>1, StaysInStep, PTL

\* And every status change is one of the table's.
THEOREM SerialFollowsTable ==
    ASSUME Undisturbed
    PROVE  Spec => StatusFollowsTable
<1>1. IInv /\ InStep /\ [Next]_vars =>
         [\A i \in Intents :
             status'[i] # status[i] =>
                \/ status[i] = "absent"
                \/ LegalMove(status[i], status'[i])
                \/ status[i] = "ready_to_sign" /\ status'[i] = "failed"]_status
  BY StepsInStep DEF ByTheTable
<1>2. QED
  BY <1>1, StaysInStep, Invariant, PTL DEF Spec, StatusFollowsTable
-----------------------------------------------------------------------------
(***************************************************************************)
(* IntentLifecycle implements AuthorisedTransfers: under the mapping that  *)
(* Abstract states, the initial state maps to the initial state, and every *)
(* step of a handler, a job or the environment to one abstract step or to  *)
(* none.                                                                   *)
(***************************************************************************)

\* The abstract variables, as the mapping gives them.
OnSafe == {p \in Payloads : safe[p] # "absent"}
ExecutedOn == {p \in Payloads : safe[p] = "executed"}
Recorded == {i \in Intents : status[i] = "executed"}

AbstractStep == [Abstract!Next]_(Abstract!vars)

\* A step that leaves the mapped values as they are is a stutter.
LEMMA Stutters ==
    ASSUME UNCHANGED <<AuthorisedIntents, OnSafe, ExecutedOn, Recorded>>
    PROVE  AbstractStep
  BY DEF AbstractStep, Abstract!vars, OnSafe, ExecutedOn, Recorded

\* Authorisation depends on the decision, the votes, and of the request only on
\* whether it exists and how many approvals it wants.
LEMMA SameAuthorised ==
    ASSUME UNCHANGED <<decision, vote>>,
           \A i \in Intents :
              /\ request'[i].required = request[i].required
              /\ request'[i].status = "none" <=> request[i].status = "none"
    PROVE  AuthorisedIntents' = AuthorisedIntents
<1>1. \A i \in Intents : Approvals(i)' = Approvals(i)
  BY DEF Approvals
<1>2. \A i \in Intents : Quorum(i)' <=> Quorum(i)
  BY <1>1 DEF Quorum
<1>3. QED
  BY <1>2 DEF AuthorisedIntents, Authorised

\* When only intent k can have been authorised by a step, and nothing else the
\* mapping reads has changed, the step is Authorise(k) or a stutter.
LEMMA Authorises ==
    ASSUME NEW k \in Intents,
           AuthorisedIntents \subseteq AuthorisedIntents',
           AuthorisedIntents' \subseteq AuthorisedIntents \union {k},
           UNCHANGED <<OnSafe, ExecutedOn, Recorded>>
    PROVE  AbstractStep
<1>1. CASE AuthorisedIntents' = AuthorisedIntents
  BY <1>1, Stutters
<1>2. CASE AuthorisedIntents' = AuthorisedIntents \union {k}
  <2>1. Abstract!Authorise(k)
    BY <1>2 DEF Abstract!Authorise, OnSafe, ExecutedOn, Recorded
  <2>2. QED
    BY <2>1 DEF AbstractStep, Abstract!Next
<1>3. QED
  BY <1>1, <1>2

\* A status write that does not say executed loses at most one record.
LEMMA LosesRecord ==
    ASSUME TypeOK, NEW k \in Intents, NEW new, new # "executed",
           status' = [status EXCEPT ![k] = new],
           UNCHANGED <<decision, vote, request, safe>>
    PROVE  AbstractStep
<1>1. AuthorisedIntents' = AuthorisedIntents
  BY SameAuthorised
<1>2. UNCHANGED <<OnSafe, ExecutedOn>>
  BY DEF OnSafe, ExecutedOn
<1>3. Recorded' = Recorded \ {k}
  BY DEF Recorded, TypeOK
<1>4. Abstract!LoseRecord(k)
  BY <1>1, <1>2, <1>3 DEF Abstract!LoseRecord, OnSafe, ExecutedOn, Recorded
<1>5. QED
  BY <1>4 DEF AbstractStep, Abstract!Next

\* A step that writes only calls, jobs and eligibility is a stutter.
LEMMA RowsUntouched ==
    ASSUME UNCHANGED <<status, decision, vote, request, safe>>
    PROVE  AbstractStep
<1>1. AuthorisedIntents' = AuthorisedIntents
  BY SameAuthorised
<1>2. QED
  BY <1>1, Stutters DEF OnSafe, ExecutedOn, Recorded

\* Each step of a handler implements the abstract step it stands for.
LEMMA ContinueRefines ==
    ASSUME IInv, [Next]_vars, NEW c \in Calls, Continue(c)
    PROVE  AbstractStep
<1> DEFINE i == call[c].intent
<1>1. TypeOK /\ CallsBacked /\ CreatorsAlone /\ RowsAgree
  BY DEF IInv, Backing
<1>2. AuthorisedIntents \subseteq AuthorisedIntents'
  BY <1>1, TypeStep, StepsGrow, GrowthKeeps DEF AuthorisedIntents
<1>3. call[c].pc \in IntentSteps => i \in Intents
  BY <1>1, CallFields
<1>4. CASE InsertIntent(c)
  <2>1. i \in Intents /\ status[i] = "absent" /\ call[c].decision \in PolicyDecisions
    BY <1>1, <1>4, CallFields DEF InsertIntent, At, CreatorsAlone
  <2>2. /\ \A k \in Intents \ {i} : status'[k] = status[k] /\ decision'[k] = decision[k]
        /\ status'[i] \in {"ready_to_sign", "denied", "pending_approval"}
        /\ UNCHANGED <<request, vote, safe>>
    BY <1>1, <1>4, <2>1, TableEntries DEF InsertIntent, UpdateStatus, TypeOK
  <2>3. \A k \in Intents : Quorum(k)' <=> Quorum(k)
    BY <2>2 DEF Quorum, Approvals
  <2>4. AuthorisedIntents' \subseteq AuthorisedIntents \union {i}
    BY <2>2, <2>3 DEF AuthorisedIntents, Authorised
  <2>5. UNCHANGED <<OnSafe, ExecutedOn, Recorded>>
    BY <2>1, <2>2 DEF OnSafe, ExecutedOn, Recorded
  <2>6. QED
    BY <1>2, <2>1, <2>4, <2>5, Authorises
<1>5. CASE CreateRequest(c)
  <2>1. i \in Intents
    BY <1>3, <1>5 DEF CreateRequest, At, IntentSteps
  <2>2. /\ \A k \in Intents \ {i} : request'[k] = request[k]
        /\ UNCHANGED <<status, decision, vote, safe>>
    BY <1>1, <1>5, <2>1 DEF CreateRequest, TypeOK
  <2>3. \A k \in Intents \ {i} : Quorum(k)' <=> Quorum(k)
    BY <2>2 DEF Quorum, Approvals
  <2>4. AuthorisedIntents' \subseteq AuthorisedIntents \union {i}
    BY <2>2, <2>3 DEF AuthorisedIntents, Authorised
  <2>5. UNCHANGED <<OnSafe, ExecutedOn, Recorded>>
    BY <2>2 DEF OnSafe, ExecutedOn, Recorded
  <2>6. QED
    BY <1>2, <2>1, <2>4, <2>5, Authorises
<1>6. CASE CreateDecision(c)
  <2>1. i \in Intents /\ call[c].member \in Members
    BY <1>1, <1>6, CallFields DEF CreateDecision, At
  <2>2. /\ \A k \in Intents \ {i} : vote'[k] = vote[k]
        /\ UNCHANGED <<status, decision, request, safe>>
    BY <1>1, <1>6, <2>1 DEF CreateDecision, TypeOK
  <2>3. \A k \in Intents \ {i} : Quorum(k)' <=> Quorum(k)
    <3>1. \A k \in Intents \ {i} : Approvals(k)' = Approvals(k)
      BY <2>2 DEF Approvals
    <3>2. QED
      BY <2>2, <3>1 DEF Quorum
  <2>4. AuthorisedIntents' \subseteq AuthorisedIntents \union {i}
    BY <2>2, <2>3 DEF AuthorisedIntents, Authorised
  <2>5. UNCHANGED <<OnSafe, ExecutedOn, Recorded>>
    BY <2>2 DEF OnSafe, ExecutedOn, Recorded
  <2>6. QED
    BY <1>2, <2>1, <2>4, <2>5, Authorises
<1>7. CASE CheckEligible(c) \/ CountApprovals(c) \/ ProposeRefused(c) \/ Enqueue(c)
  BY <1>7, RowsUntouched DEF CheckEligible, CountApprovals, ProposeRefused, Enqueue
<1>8. CASE RejectRequest(c) \/ FulfilRequest(c) \/ ExpireRequest(c)
  <2>1. i \in Intents /\ request[i].status # "none"
    BY <1>1, <1>3, <1>8
    DEF RejectRequest, FulfilRequest, ExpireRequest, At, IntentSteps, CallsBacked,
        CallBacked, RequestSteps
  <2>2. PICK new \in {"rejected", "fulfilled", "expired"} : UpdateRequest(i, new)
    BY <1>8 DEF RejectRequest, FulfilRequest, ExpireRequest
  <2>3. request[i] \in RequestRows /\ request \in [Intents -> RequestRows]
    BY <1>1, <2>1 DEF TypeOK
  <2>4. /\ request'[i].status = new
        /\ request'[i].required = request[i].required
        /\ \A k \in Intents \ {i} : request'[k] = request[k]
    BY <2>1, <2>2, <2>3 DEF UpdateRequest, RequestRows
  <2>5. UNCHANGED <<status, decision, vote, safe>>
    BY <1>8 DEF RejectRequest, FulfilRequest, ExpireRequest
  <2>6. AuthorisedIntents' = AuthorisedIntents
    BY <2>1, <2>4, <2>5, SameAuthorised
  <2>7. QED
    BY <2>5, <2>6, Stutters DEF OnSafe, ExecutedOn, Recorded
<1>9. CASE MarkPending(c) \/ MarkRejected(c) \/ MarkReady(c) \/ MarkExpired(c)
           \/ MarkSubmitted(c) \/ MarkFailed(c)
  <2>1. i \in Intents
    BY <1>3, <1>9
    DEF MarkPending, MarkRejected, MarkReady, MarkExpired, MarkSubmitted, MarkFailed, At,
        IntentSteps
  <2>2. PICK new \in {"pending_approval", "cancelled", "ready_to_sign", "submitted", "failed"} :
           status' = [status EXCEPT ![i] = new]
    BY <1>9, TableEntries
    DEF MarkPending, MarkRejected, MarkReady, MarkExpired, MarkSubmitted, MarkFailed,
        UpdateStatus
  <2>3. UNCHANGED <<decision, vote, request, safe>>
    BY <1>9 DEF MarkPending, MarkRejected, MarkReady, MarkExpired, MarkSubmitted, MarkFailed
  <2>4. QED
    BY <1>1, <2>1, <2>2, <2>3, LosesRecord
<1>10. CASE CancelByMember(c)
  <2>1. UNCHANGED <<decision, vote, request, safe>>
    BY <1>10 DEF CancelByMember
  <2>2. Recorded' = Recorded
    BY <1>10 DEF CancelByMember, Cancellable, Recorded
  <2>3. QED
    BY <2>1, <2>2, SameAuthorised, Stutters DEF OnSafe, ExecutedOn
<1>11. CASE ProposeAccepted(c) \/ ProposeAnswerLost(c)
  <2>1. i \in Intents /\ i \in AuthorisedIntents
    BY <1>1, <1>3, <1>11
    DEF ProposeAccepted, ProposeAnswerLost, At, IntentSteps, CallsBacked, CallBacked,
        AuthorisedSteps
  <2>2. UNCHANGED <<status, decision, vote, request>> /\ Accept(PayloadOf[i])
    BY <1>11 DEF ProposeAccepted, ProposeAnswerLost
  <2>3. PayloadOf[i] \in Payloads
    BY <2>1, LifecycleAssumption
  <2>4. OnSafe' = OnSafe \union {PayloadOf[i]} /\ ExecutedOn' = ExecutedOn
    <3>1. /\ \A p \in Payloads \ {PayloadOf[i]} : safe'[p] = safe[p]
          /\ safe'[PayloadOf[i]] # "absent"
          /\ safe'[PayloadOf[i]] = "executed" <=> safe[PayloadOf[i]] = "executed"
      BY <1>1, <2>2, <2>3 DEF Accept, TypeOK
    <3>2. OnSafe' = OnSafe \union {PayloadOf[i]}
      BY <2>3, <3>1 DEF OnSafe
    <3>3. ExecutedOn' = ExecutedOn
      BY <3>1 DEF ExecutedOn
    <3>4. QED
      BY <3>2, <3>3
  <2>5. AuthorisedIntents' = AuthorisedIntents /\ Recorded' = Recorded
    BY <2>2, SameAuthorised DEF Recorded
  <2>6. \E k \in Intents : Abstract!Propose(k)
    BY <2>1, <2>4, <2>5 DEF Abstract!Propose, OnSafe, ExecutedOn, Recorded
  <2>7. QED
    BY <2>6 DEF AbstractStep, Abstract!Next
<1>12. QED
  BY <1>4, <1>5, <1>6, <1>7, <1>8, <1>9, <1>10, <1>11 DEF Continue

\* A poll records an execution the Safe has performed, or loses a record, or
\* changes nothing the promise speaks of.
LEMMA PollRefines ==
    ASSUME IInv, NEW i \in Intents, Poll(i)
    PROVE  AbstractStep
<1>1. TypeOK /\ JobsBacked
  BY DEF IInv, Backing
<1>2. UNCHANGED <<decision, request, vote, safe>>
  BY DEF Poll, PollStart, PollAnswer, PollExecuted, PollFailed, PollRecord, PollGiveUp,
         PollThrows, PollStalled
<1>3. \/ UNCHANGED status
      \/ status' = [status EXCEPT ![i] = "failed"]
      \/ job[i].state = "executed" /\ status' = [status EXCEPT ![i] = "executed"]
  BY TableEntries
  DEF Poll, PollStart, PollAnswer, PollExecuted, PollFailed, PollRecord, PollGiveUp,
      PollThrows, PollStalled, UpdateStatus
<1>4. CASE UNCHANGED status
  BY <1>2, <1>4, RowsUntouched
<1>5. CASE status' = [status EXCEPT ![i] = "failed"]
  BY <1>1, <1>2, <1>5, LosesRecord
<1>6. CASE job[i].state = "executed" /\ status' = [status EXCEPT ![i] = "executed"]
  <2>1. i \in AuthorisedIntents /\ safe[PayloadOf[i]] = "executed"
    BY <1>1, <1>6 DEF JobsBacked, AuthorisedIntents
  <2>2. PayloadOf[i] \in ExecutedOn
    BY <2>1, LifecycleAssumption DEF ExecutedOn
  <2>3. Recorded' = Recorded \union {i}
    BY <1>1, <1>6 DEF Recorded, TypeOK
  <2>4. AuthorisedIntents' = AuthorisedIntents
    BY <1>2, SameAuthorised
  <2>5. UNCHANGED <<OnSafe, ExecutedOn>>
    BY <1>2 DEF OnSafe, ExecutedOn
  <2>6. Abstract!RecordExecuted(i)
    BY <2>1, <2>2, <2>3, <2>4, <2>5
    DEF Abstract!RecordExecuted, OnSafe, ExecutedOn, Recorded
  <2>7. QED
    BY <2>6 DEF AbstractStep, Abstract!Next
<1>7. QED
  BY <1>3, <1>4, <1>5, <1>6

\* The Safe executes a transfer it holds, or the transfer fails there.
LEMMA SettlingRefines ==
    ASSUME TypeOK, NEW p \in Payloads, SafeSettles(p)
    PROVE  AbstractStep
<1>1. UNCHANGED <<status, decision, request, vote>>
  BY DEF SafeSettles
<1>2. AuthorisedIntents' = AuthorisedIntents /\ Recorded' = Recorded
  BY <1>1, SameAuthorised DEF Recorded
<1>3. OnSafe' = OnSafe /\ p \in OnSafe
  BY DEF SafeSettles, OnSafe, TypeOK
<1>4. CASE safe' = [safe EXCEPT ![p] = "executed"]
  <2>1. ExecutedOn' = ExecutedOn \union {p}
    BY <1>4 DEF ExecutedOn, TypeOK
  <2>2. Abstract!Execute(p)
    BY <1>2, <1>3, <2>1 DEF Abstract!Execute, OnSafe, ExecutedOn, Recorded
  <2>3. QED
    BY <2>2 DEF AbstractStep, Abstract!Next
<1>5. CASE safe' = [safe EXCEPT ![p] = "failed"]
  <2>1. ExecutedOn' = ExecutedOn
    BY <1>5 DEF ExecutedOn, SafeSettles, TypeOK
  <2>2. QED
    BY <1>2, <1>3, <2>1, Stutters
<1>6. QED
  BY <1>4, <1>5 DEF SafeSettles

\* Every step of the system is an abstract step or a stutter.
LEMMA StepRefines ==
    ASSUME IInv, [Next]_vars
    PROVE  AbstractStep
<1>1. ASSUME NEW c \in Calls, Begin(c) \/ CallFails(c) PROVE AbstractStep
  BY <1>1, RowsUntouched
  DEF Begin, BeginCreate, BeginDecide, BeginExpire, BeginPropose, BeginRevoke, CallFails
<1>2. ASSUME NEW c \in Calls, Continue(c) PROVE AbstractStep
  BY <1>2, ContinueRefines
<1>3. ASSUME NEW i \in Intents, Poll(i) PROVE AbstractStep
  BY <1>3, PollRefines
<1>4. ASSUME NEW m \in Members, GainRole(m) \/ LoseRole(m) PROVE AbstractStep
  BY <1>4, RowsUntouched DEF GainRole, LoseRole
<1>5. ASSUME NEW p \in Payloads, SafeSettles(p) PROVE AbstractStep
  BY <1>5, SettlingRefines DEF IInv
<1>6. CASE UNCHANGED vars
  BY <1>6, RowsUntouched DEF vars
<1>7. QED
  BY <1>1, <1>2, <1>3, <1>4, <1>5, <1>6 DEF Next

\* The lifecycle keeps the promise of AuthorisedTransfers: authorisations are
\* never taken back, only authorised transfers reach the Safe, and executions
\* are recorded after they have happened.
THEOREM Refinement == Spec => ImplementsAbstract
<1>1. Init => Abstract!Init
  BY DEF Init, Abstract!Init, AuthorisedIntents, Authorised
<1>2. IInv /\ [Next]_vars => [Abstract!Next]_(Abstract!vars)
  BY StepRefines DEF AbstractStep
<1>3. QED
  BY <1>1, <1>2, Invariant, PTL DEF Spec, ImplementsAbstract, Abstract!Spec

=============================================================================

---------------------------- MODULE ApprovalInbox ---------------------------
(***************************************************************************)
(* The approvals page of one approver.  Nothing on it is disabled while a  *)
(* decision is sent, so the same request can be decided again before the   *)
(* answer comes; every list that was asked for is shown when it arrives,   *)
(* whichever tab is open by then.  How a decision closes its request, and  *)
(* what becomes of the intent, is in IntentLifecycle.                      *)
(***************************************************************************)
EXTENDS Naturals, FiniteSets

CONSTANTS
    Tabs,       \* "pending" and the others
    Inbox,      \* the approval requests of the organization
    Fetches,    \* queries for the list that may be in flight at once
    Decides     \* decisions that may be in flight at once

ASSUME InboxAssumption == "pending" \in Tabs /\ "none" \notin Inbox

VARIABLES
    open,       \* requests that are pending
    decision,   \* this member's approval_decisions row of each request
    inbox,      \* the page: tab, rows, loading, the selected request, the dialog
    fetch,      \* the queries
    decide,     \* the decisions on their way
    acked       \* history: the decisions the page was told were recorded

inboxVars == <<open, decision, inbox, fetch, decide, acked>>
-----------------------------------------------------------------------------
Decisions == {"approved", "rejected"}

NoFetch == [pc |-> "idle"]

NotDeciding == [pc |-> "idle"]

InboxTypeOK ==
    /\ open \subseteq Inbox
    /\ decision \in [Inbox -> Decisions \union {"none"}]
    /\ inbox \in [tab : Tabs, items : SUBSET Inbox, loading : BOOLEAN,
                  selected : Inbox \union {"none"}, modal : Decisions \union {"none"}]
    /\ fetch \in [Fetches -> {NoFetch} \union [pc : {"sent"}, status : Tabs]
                                       \union [pc : {"answered"}, rows : SUBSET Inbox]]
    /\ decide \in [Decides -> {NotDeciding} \union
          [pc : {"asked", "insert", "settle", "answer"}, request : Inbox,
           decision : Decisions]]
    /\ acked \in [Inbox -> SUBSET Decisions]

DecideAt(d, step) == decide[d].pc = step

EndDecide(d) == decide' = [decide EXCEPT ![d] = NotDeciding]

\* refresh of useApprovals
RefreshList(l, status) ==
    /\ fetch[l] = NoFetch
    /\ fetch' = [fetch EXCEPT ![l] = [pc |-> "sent", status |-> status]]
-----------------------------------------------------------------------------
(* The page *)

\* An effect asks for the list of another tab; the tab that is open only deselects.
ChooseTab(tab) ==
    /\ inbox.modal = "none"
    /\ \/ /\ tab # inbox.tab
          /\ \E l \in Fetches : RefreshList(l, tab)
          /\ inbox' = [inbox EXCEPT !.tab = tab, !.selected = "none", !.loading = TRUE]
       \/ /\ tab = inbox.tab
          /\ inbox' = [inbox EXCEPT !.selected = "none"]
          /\ UNCHANGED fetch
    /\ UNCHANGED <<open, decision, decide, acked>>

SelectRow(r) ==
    /\ inbox.modal = "none" /\ ~ inbox.loading
    /\ r \in inbox.items
    /\ inbox' = [inbox EXCEPT !.selected = r]
    /\ UNCHANGED <<open, decision, fetch, decide, acked>>

\* Approve, Reject
OpenModal(choice) ==
    /\ inbox.tab = "pending" /\ inbox.selected # "none" /\ inbox.modal = "none"
    /\ inbox' = [inbox EXCEPT !.modal = choice]
    /\ UNCHANGED <<open, decision, fetch, decide, acked>>

CancelModal ==
    /\ inbox.modal # "none"
    /\ inbox' = [inbox EXCEPT !.modal = "none"]
    /\ UNCHANGED <<open, decision, fetch, decide, acked>>

\* The dialog stays, and its button works, until an answer closes it.
Submit(d) ==
    /\ inbox.modal # "none"
    /\ decide[d] = NotDeciding
    /\ decide' = [decide EXCEPT ![d] = [pc |-> "asked", request |-> inbox.selected,
                                        decision |-> inbox.modal]]
    /\ UNCHANGED <<open, decision, inbox, fetch, acked>>

\* onDone: whatever is selected by now is deselected, and the pending requests are
\* asked for again, whichever tab is open.
OnDone(d) ==
    /\ DecideAt(d, "answer")
    /\ \E l \in Fetches : RefreshList(l, "pending")
    /\ inbox' = [inbox EXCEPT !.selected = "none", !.modal = "none", !.loading = TRUE]
    /\ acked' = [acked EXCEPT ![decide[d].request] = @ \union {decide[d].decision}]
    /\ EndDecide(d)
    /\ UNCHANGED <<open, decision>>

ShowList(l) ==
    /\ fetch[l].pc = "answered"
    /\ inbox' = [inbox EXCEPT !.items = fetch[l].rows, !.loading = FALSE]
    /\ fetch' = [fetch EXCEPT ![l] = NoFetch]
    /\ UNCHANGED <<open, decision, decide, acked>>

\* The rows stay.
FetchListFails(l) ==
    /\ fetch[l] # NoFetch
    /\ inbox' = [inbox EXCEPT !.loading = FALSE]
    /\ fetch' = [fetch EXCEPT ![l] = NoFetch]
    /\ UNCHANGED <<open, decision, decide, acked>>
-----------------------------------------------------------------------------
(* ApprovalController *)

\* The other tabs' lists are empty.
ListApprovals(l) ==
    /\ fetch[l].pc = "sent"
    /\ fetch' = [fetch EXCEPT ![l] =
          [pc |-> "answered", rows |-> IF fetch[l].status = "pending" THEN open ELSE {}]]
    /\ UNCHANGED <<open, decision, inbox, decide, acked>>

\* Pending, and the member is one of its approvers; otherwise DecideFails.
FindPendingRequest(d) ==
    /\ DecideAt(d, "asked")
    /\ decide[d].request \in open
    /\ decide' = [decide EXCEPT ![d].pc = "insert"]
    /\ UNCHANGED <<open, decision, inbox, fetch, acked>>

\* Mutation: the member's row is written again.
InsertDecision_Upsert(d) ==
    /\ DecideAt(d, "insert")
    /\ decision' = [decision EXCEPT ![decide[d].request] = decide[d].decision]
    /\ decide' = [decide EXCEPT ![d].pc = "settle"]
    /\ UNCHANGED <<open, inbox, fetch, acked>>

\* hasMemberDecision, and the unique index when two calls have passed it: there is
\* no second row, and the request may have closed since it was read.
InsertDecision(d) ==
    /\ DecideAt(d, "insert")
    /\ decision[decide[d].request] = "none"
    /\ decision' = [decision EXCEPT ![decide[d].request] = decide[d].decision]
    /\ decide' = [decide EXCEPT ![d].pc = "settle"]
    /\ UNCHANGED <<open, inbox, fetch, acked>>

\* A rejection closes the request, and an approval does if it meets the quorum.
Settle(d) ==
    /\ DecideAt(d, "settle")
    /\ \/ open' = open \ {decide[d].request}
       \/ decide[d].decision = "approved" /\ UNCHANGED open
    /\ decide' = [decide EXCEPT ![d].pc = "answer"]
    /\ UNCHANGED <<decision, inbox, fetch, acked>>

\* Refused, a rejected await, the end of the process, or an answer that is lost: the
\* page shows an error, and the dialog stays.
DecideFails(d) ==
    /\ decide[d] # NotDeciding
    /\ EndDecide(d)
    /\ UNCHANGED <<open, decision, inbox, fetch, acked>>

\* By others' decisions or the expiry sweep.
CloseElsewhere(r) ==
    /\ r \in open
    /\ open' = open \ {r}
    /\ UNCHANGED <<decision, inbox, fetch, decide, acked>>
-----------------------------------------------------------------------------
InboxInit ==
    /\ open = Inbox
    /\ decision = [r \in Inbox |-> "none"]
    /\ inbox = [tab |-> "pending", items |-> {}, loading |-> TRUE,
                selected |-> "none", modal |-> "none"]
    /\ fetch = [l \in Fetches |-> IF l # CHOOSE k \in Fetches : TRUE THEN NoFetch ELSE
                   [pc |-> "sent", status |-> "pending"]]
    /\ decide = [d \in Decides |-> NotDeciding]
    /\ acked = [r \in Inbox |-> {}]

InboxNext ==
    \/ \E tab \in Tabs : ChooseTab(tab)
    \/ \E r \in Inbox : SelectRow(r) \/ CloseElsewhere(r)
    \/ (\E choice \in Decisions : OpenModal(choice)) \/ CancelModal
    \/ \E l \in Fetches : ListApprovals(l) \/ ShowList(l) \/ FetchListFails(l)
    \/ \E d \in Decides :
          \/ Submit(d) \/ OnDone(d)
          \/ FindPendingRequest(d) \/ InsertDecision(d) \/ Settle(d) \/ DecideFails(d)

InboxSpec == InboxInit /\ [][InboxNext]_inboxVars
-----------------------------------------------------------------------------
(* Properties *)

\* Whatever decision the page was told is recorded is the one that stands, however
\* often the dialog was confirmed, with one choice or with both, and whichever
\* request was selected meanwhile; and a rejection it was told of closed its request.
AckedDecisionStands ==
    \A r \in Inbox :
        /\ acked[r] \subseteq {decision[r]}
        /\ "rejected" \in acked[r] => r \notin open
=============================================================================

----------------------------- MODULE IntentPage -----------------------------
(***************************************************************************)
(* The page of one intent, which polls its status and offers to sign it,   *)
(* with the requests the API handles for it.  A poll does not wait for the *)
(* one before, and a failing one replaces the page by its error: the sign  *)
(* button goes, and the next answer brings a new one.                      *)
(***************************************************************************)
EXTENDS Naturals, FiniteSets

CONSTANTS
    Polls,      \* polls that may be in flight at once
    Proposals,  \* proposals that may be in flight at once
    MaxProposed \* bound: proposals the Safe service has accepted

ASSUME IntentPageAssumption ==
    IsFiniteSet(Polls) /\ IsFiniteSet(Proposals) /\ MaxProposed \in Nat

VARIABLES
    row,        \* the status of the intent
    poll,       \* the polls
    detail,     \* the page: what it shows, and whether its button is loading
    proposing,  \* the proposals
    proposed,   \* history: proposals the Safe service accepted
    excused     \* history: lost answers of the Safe service, and buttons that went with
                \* their proposal in flight, counted up to MaxProposed

intentPageVars == <<row, poll, detail, proposing, proposed, excused>>
-----------------------------------------------------------------------------
RowStatuses ==
    {"pending_approval", "ready_to_sign", "submitted", "executed", "failed", "cancelled"}

NoPoll == [pc |-> "idle"]

NotProposing == [pc |-> "idle"]

IntentPageTypeOK ==
    /\ row \in RowStatuses
    /\ poll \in [Polls -> [pc : {"idle", "asked", "failed"}]
                          \union [pc : {"answered"}, status : RowStatuses]]
    /\ detail \in [status : RowStatuses \union {"none"}, error : BOOLEAN, loading : BOOLEAN]
    /\ proposing \in [Proposals -> {NotProposing}
          \union [pc : {"check", "safe", "accepted", "refused"}, mounted : BOOLEAN]]
    /\ {proposed, excused} \subseteq 0 .. MaxProposed

\* canSign, on a page that shows no error: a submitted intent keeps its button.
CanSign(page) == ~ page.error /\ page.status \in {"ready_to_sign", "submitted"}

Excuse == excused' = IF excused < MaxProposed THEN excused + 1 ELSE excused

\* A button that goes takes its state along; its proposal goes on without it.
Show(page) ==
    IF CanSign(detail) /\ ~ CanSign(page)
    THEN /\ detail' = [page EXCEPT !.loading = FALSE]
         /\ proposing' = [p \in Proposals |-> IF proposing[p] = NotProposing THEN NotProposing
                                              ELSE [proposing[p] EXCEPT !.mounted = FALSE]]
         /\ IF detail.loading THEN Excuse ELSE UNCHANGED excused
    ELSE detail' = page /\ UNCHANGED <<proposing, excused>>

PollGoto(q, frame) == poll' = [poll EXCEPT ![q] = frame]

ProposalGoto(p, step) == proposing' = [proposing EXCEPT ![p].pc = step]
-----------------------------------------------------------------------------
(* useIntentStatus *)

\* Every interval, whatever is in flight.
Poll(q) ==
    /\ poll[q] = NoPoll
    /\ PollGoto(q, [pc |-> "asked"])
    /\ UNCHANGED <<row, detail, proposing, proposed, excused>>

\* IntentService.getById
ReadIntent(q) ==
    /\ poll[q].pc = "asked"
    /\ PollGoto(q, [pc |-> "answered", status |-> row])
    /\ UNCHANGED <<row, detail, proposing, proposed, excused>>

PollRefused(q) ==
    /\ poll[q].pc \in {"asked", "answered"}
    /\ PollGoto(q, [pc |-> "failed"])
    /\ UNCHANGED <<row, detail, proposing, proposed, excused>>

\* Answers are shown as they come, the older one last if it comes last.
ShowAnswer(q) ==
    /\ poll[q].pc = "answered"
    /\ Show([detail EXCEPT !.status = poll[q].status, !.error = FALSE])
    /\ PollGoto(q, NoPoll)
    /\ UNCHANGED <<row, proposed>>

ShowError(q) ==
    /\ poll[q].pc = "failed"
    /\ Show([detail EXCEPT !.error = TRUE])
    /\ PollGoto(q, NoPoll)
    /\ UNCHANGED <<row, proposed>>
-----------------------------------------------------------------------------
(* SignTransactionButton, and the proposal it sends *)

\* Mutation: the button is not disabled while it loads.
HandleSign_Again(p) ==
    /\ proposing[p] = NotProposing
    /\ CanSign(detail)
    /\ proposing' = [proposing EXCEPT ![p] = [pc |-> "check", mounted |-> TRUE]]
    /\ detail' = [detail EXCEPT !.loading = TRUE]
    /\ UNCHANGED <<row, poll, proposed, excused>>

HandleSign(p) ==
    /\ proposing[p] = NotProposing
    /\ CanSign(detail) /\ ~ detail.loading
    /\ proposing' = [proposing EXCEPT ![p] = [pc |-> "check", mounted |-> TRUE]]
    /\ detail' = [detail EXCEPT !.loading = TRUE]
    /\ UNCHANGED <<row, poll, proposed, excused>>

\* INTENT_NOT_READY if the status is another one by now.
CheckReady(p) ==
    /\ proposing[p].pc = "check"
    /\ ProposalGoto(p, IF row = "ready_to_sign" THEN "safe" ELSE "refused")
    /\ UNCHANGED <<row, poll, detail, proposed, excused>>

\* Recorded over whatever the status has become; what follows may still throw.
SafeAccepts(p) ==
    /\ proposing[p].pc = "safe"
    /\ proposed < MaxProposed
    /\ proposed' = proposed + 1
    /\ \/ row' = "submitted" /\ UNCHANGED excused
       \/ UNCHANGED row /\ Excuse
    /\ \E step \in {"accepted", "refused"} :
          /\ row' # "submitted" => step = "refused"
          /\ ProposalGoto(p, step)
    /\ UNCHANGED <<poll, detail>>

\* For good, or not: SAFE_API_RETRYABLE leaves the intent as it is.
SafeRefuses(p) ==
    /\ proposing[p].pc = "safe"
    /\ row' \in {row, "failed"}
    /\ ProposalGoto(p, "refused")
    /\ UNCHANGED <<poll, detail, proposed, excused>>

\* The request is refused earlier, or lost.
ProposalLost(p) ==
    /\ proposing[p].pc \in {"check", "accepted"}
    /\ ProposalGoto(p, "refused")
    /\ UNCHANGED <<row, poll, detail, proposed, excused>>

\* finally: the state of a button that is gone is not set.
ButtonDone(p) ==
    /\ detail' = [detail EXCEPT !.loading = @ /\ ~ proposing[p].mounted]
    /\ proposing' = [proposing EXCEPT ![p] = NotProposing]

\* onProposed polls at once, from a button that is gone as well.
OnProposed(p, q) ==
    /\ proposing[p].pc = "accepted"
    /\ poll[q] = NoPoll
    /\ PollGoto(q, [pc |-> "asked"])
    /\ ButtonDone(p)
    /\ UNCHANGED <<row, proposed, excused>>

ProposeFailed(p) ==
    /\ proposing[p].pc = "refused"
    /\ ButtonDone(p)
    /\ UNCHANGED <<row, poll, proposed, excused>>
-----------------------------------------------------------------------------
\* Approvers, revocations and the transaction status worker.
StatusMoves ==
    /\ \E to \in RowStatuses :
          /\ <<row, to>> \in {<<"pending_approval", "ready_to_sign">>,
                <<"pending_approval", "cancelled">>, <<"ready_to_sign", "cancelled">>,
                <<"submitted", "executed">>, <<"submitted", "failed">>}
          /\ row' = to
    /\ UNCHANGED <<poll, detail, proposing, proposed, excused>>

IntentPageInit ==
    /\ row = "pending_approval"
    /\ poll = [q \in Polls |-> NoPoll]
    /\ detail = [status |-> "none", error |-> FALSE, loading |-> FALSE]
    /\ proposing = [p \in Proposals |-> NotProposing]
    /\ proposed = 0 /\ excused = 0

IntentPageNext ==
    \/ \E q \in Polls :
          Poll(q) \/ ReadIntent(q) \/ PollRefused(q) \/ ShowAnswer(q) \/ ShowError(q)
    \/ \E p \in Proposals :
          \/ HandleSign(p) \/ CheckReady(p) \/ SafeAccepts(p) \/ SafeRefuses(p)
          \/ ProposalLost(p) \/ ProposeFailed(p)
          \/ \E q \in Polls : OnProposed(p, q)
    \/ StatusMoves

IntentPageSpec == IntentPageInit /\ [][IntentPageNext]_intentPageVars
-----------------------------------------------------------------------------
(* Properties *)

\* A transfer is proposed to the Safe a second time only for an answer that was lost,
\* or for a button that a failing poll (or a late answer) took away under its
\* proposal: however the answers come, a button has one proposal in flight, and
\* one for an intent the page still offers to sign is refused.
ProposedAgainAccounted == proposed <= 1 + excused
=============================================================================

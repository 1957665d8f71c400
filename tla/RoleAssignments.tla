--------------------------- MODULE RoleAssignments --------------------------
(***************************************************************************)
(* The assignments of one role, in one wallet scope, to one member: they   *)
(* are made, wait for their window, are revoked by an admin or expired by  *)
(* the sweep that runs every minute.  Checks and writes are separate       *)
(* calls, and all but the promotion write by id, whatever the row has      *)
(* become.  What ending an assignment does to the member's sessions is     *)
(* AccessControl's; what it does to intents is IntentLifecycle's.          *)
(***************************************************************************)
EXTENDS Naturals, FiniteSets

CONSTANTS
    Rows,       \* rows of role_assignments
    Admins,     \* admin requests and sweeps that may be in flight at once
    MaxTime     \* bound: the last moment of the clock

ASSUME AssignmentsAssumption ==
    IsFiniteSet(Rows) /\ IsFiniteSet(Admins) /\ MaxTime \in Nat

VARIABLES
    now,        \* the clock
    assignment, \* the rows
    changing    \* the admin requests and sweeps

roleVars == <<now, assignment, changing>>
-----------------------------------------------------------------------------
Never == MaxTime + 1        \* endsAt null

Absent == [status |-> "absent"]

NotChanging == [pc |-> "idle"]

Windows == {w \in [starts : 0 .. MaxTime, ends : 0 .. Never] : w.ends > w.starts}

AssignmentRows ==
    {Absent}
    \union [status : {"scheduled", "active", "expired", "revoked"},
            starts : 0 .. MaxTime, ends : 0 .. Never]

ChangeRecords ==
    {NotChanging}
    \union [pc : {"find_overlap", "create"}, window : Windows]
    \union [pc : {"mark_revoked", "end_sessions", "cancel_intents"}, row : Rows, due : SUBSET Rows]
    \union [pc : {"list_due"}]
    \union [pc : {"expire"}, due : SUBSET Rows]

AssignmentsTypeOK ==
    /\ now \in 0 .. MaxTime
    /\ assignment \in [Rows -> AssignmentRows]
    /\ changing \in [Admins -> ChangeRecords]

Status(r) == assignment[r].status

Open == {r \in Rows : Status(r) \in {"scheduled", "active"}}

Ended == {r \in Rows : Status(r) \in {"expired", "revoked"}}

Change(c, frame) == changing' = [changing EXCEPT ![c] = frame]
-----------------------------------------------------------------------------
(* RoleAssignmentService.assign *)

BeginAssign(c, window) ==
    /\ changing[c] = NotChanging
    /\ Change(c, [pc |-> "find_overlap", window |-> window])
    /\ UNCHANGED <<now, assignment>>

\* Mutation: the check forgets the assignments still to start.
FindOverlap_Active(c) ==
    /\ changing[c].pc = "find_overlap"
    /\ IF \E r \in Rows : Status(r) = "active"
       THEN Change(c, NotChanging)
       ELSE changing' = [changing EXCEPT ![c].pc = "create"]
    /\ UNCHANGED <<now, assignment>>

FindOverlap(c) ==
    /\ changing[c].pc = "find_overlap"
    /\ IF Open # {}
       THEN Change(c, NotChanging)
       ELSE changing' = [changing EXCEPT ![c].pc = "create"]
    /\ UNCHANGED <<now, assignment>>

CreateAssignment(c) ==
    /\ changing[c].pc = "create"
    /\ LET window == changing[c].window
       IN  \E r \in Rows :
              /\ Status(r) = "absent"
              /\ assignment' = [assignment EXCEPT ![r] =
                    [status |-> IF window.starts > now THEN "scheduled" ELSE "active",
                     starts |-> window.starts, ends |-> window.ends]]
    /\ Change(c, NotChanging)
    /\ UNCHANGED now
-----------------------------------------------------------------------------
(* RoleAssignmentService.revoke *)

BeginRevoke(c, r) ==
    /\ changing[c] = NotChanging
    /\ r \in Open
    /\ Change(c, [pc |-> "mark_revoked", row |-> r, due |-> {}])
    /\ UNCHANGED <<now, assignment>>

\* An update by id: the row may have expired meanwhile.
MarkRevoked(c) ==
    /\ changing[c].pc = "mark_revoked"
    /\ assignment' = [assignment EXCEPT ![changing[c].row].status = "revoked",
                                        ![changing[c].row].ends = now]
    /\ changing' = [changing EXCEPT ![c].pc = "end_sessions"]
    /\ UNCHANGED now
-----------------------------------------------------------------------------
(* AccessExpiryProcessor.handle *)

\* Mutation: the promotion lists nothing, and takes over every row with a start.
PromoteScheduled_Any(c) ==
    /\ changing[c] = NotChanging
    /\ assignment' = [r \in Rows |->
          IF Status(r) \in {"scheduled", "revoked"} /\ assignment[r].starts <= now
          THEN [assignment[r] EXCEPT !.status = "active"] ELSE assignment[r]]
    /\ Change(c, [pc |-> "list_due"])
    /\ UNCHANGED now

\* One updateMany that tests the status as it writes.
PromoteScheduled(c) ==
    /\ changing[c] = NotChanging
    /\ assignment' = [r \in Rows |->
          IF Status(r) = "scheduled" /\ assignment[r].starts <= now
          THEN [assignment[r] EXCEPT !.status = "active"] ELSE assignment[r]]
    /\ Change(c, [pc |-> "list_due"])
    /\ UNCHANGED now

\* The rest of the sweep goes by this list.
ListDue(c) ==
    /\ changing[c].pc = "list_due"
    /\ LET due == {r \in Rows : Status(r) = "active" /\ assignment[r].ends <= now}
       IN  Change(c, IF due = {} THEN NotChanging ELSE [pc |-> "expire", due |-> due])
    /\ UNCHANGED <<now, assignment>>

\* Mutation: the sweep leaves the sessions of the member alone.
ExpireNext_KeepSessions(c) ==
    /\ changing[c].pc = "expire"
    /\ \E r \in changing[c].due :
          /\ assignment' = [assignment EXCEPT ![r].status = "expired"]
          /\ Change(c, [pc |-> "cancel_intents", row |-> r, due |-> changing[c].due \ {r}])
    /\ UNCHANGED now

\* An update by id: the row may have been revoked since it was listed.
ExpireNext(c) ==
    /\ changing[c].pc = "expire"
    /\ \E r \in changing[c].due :
          /\ assignment' = [assignment EXCEPT ![r].status = "expired"]
          /\ Change(c, [pc |-> "end_sessions", row |-> r, due |-> changing[c].due \ {r}])
    /\ UNCHANGED now
-----------------------------------------------------------------------------
(* Both go on to end the member's sessions, and then to cancel the intents. *)

SessionsEnded(c) ==
    /\ changing[c].pc = "end_sessions"
    /\ changing' = [changing EXCEPT ![c].pc = "cancel_intents"]
    /\ UNCHANGED <<now, assignment>>

IntentsCancelled(c) ==
    /\ changing[c].pc = "cancel_intents"
    /\ Change(c, IF changing[c].due = {} THEN NotChanging
                 ELSE [pc |-> "expire", due |-> changing[c].due])
    /\ UNCHANGED <<now, assignment>>

\* An await rejects or the process dies, and what was still to do is not done.
ChangeFails(c) ==
    /\ changing[c] # NotChanging
    /\ Change(c, NotChanging)
    /\ UNCHANGED <<now, assignment>>

Tick ==
    /\ now < MaxTime
    /\ now' = now + 1
    /\ UNCHANGED <<assignment, changing>>
-----------------------------------------------------------------------------
AssignmentsInit ==
    /\ now = 0
    /\ assignment = [r \in Rows |-> Absent]
    /\ changing = [c \in Admins |-> NotChanging]

\* The steps that end an assignment, whose history AccessControl keeps.
Ending(c) == MarkRevoked(c) \/ ExpireNext(c)

\* The steps that only touch the assignments.
OtherChange(c) ==
    \/ \E window \in Windows : BeginAssign(c, window)
    \/ FindOverlap(c) \/ CreateAssignment(c)
    \/ \E r \in Rows : BeginRevoke(c, r)
    \/ PromoteScheduled(c) \/ ListDue(c) \/ IntentsCancelled(c)

AssignmentsNext ==
    \/ \E c \in Admins : Ending(c) \/ OtherChange(c) \/ SessionsEnded(c) \/ ChangeFails(c)
    \/ Tick

AssignmentsSpec == AssignmentsInit /\ [][AssignmentsNext]_roleVars
-----------------------------------------------------------------------------
(* Properties *)

\* Revoked or expired access never comes back, although the sweep works from an
\* old list: it can only relabel a revoked row as expired.
EndedStaysEnded ==
    [][\A r \in Ended : assignment'[r].status \in {"expired", "revoked"}]_assignment

Assigning == {c \in Admins : changing[c].pc = "create"}

\* One assignment of a role at a time, but for the requests that overlapped: as
\* many assignments are open as requests passed one check, and no more.
OverlapBounded ==
    Cardinality(Open) + Cardinality(Assigning) <= Cardinality(Admins)
=============================================================================

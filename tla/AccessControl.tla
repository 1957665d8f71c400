---------------------------- MODULE AccessControl ---------------------------
(***************************************************************************)
(* A member's role assignments and sessions together: revoking or expiring *)
(* an assignment ends every session of the user, while those sessions are  *)
(* being refreshed.                                                        *)
(***************************************************************************)
EXTENDS RoleAssignments, Sessions

VARIABLE held   \* history: the sessions there were when an assignment ended

accessVars == <<roleVars, sessionVars, held>>
-----------------------------------------------------------------------------
AccessInit ==
    /\ AssignmentsInit
    /\ SessionsInit
    /\ held = [r \in Rows |-> {}]

EndAssignment(c) ==
    /\ Ending(c)
    /\ held' = [r \in Rows |->
          IF assignment'[r] # assignment[r] THEN Stored ELSE held[r]]
    /\ UNCHANGED sessionVars

\* sessions.revokeByUser
EndSessions(c) ==
    /\ SessionsEnded(c)
    /\ RevokeByUser
    /\ UNCHANGED held

\* A call that fails before it has ended the sessions leaves them, and since the
\* assignment is no longer active no later sweep comes back for them.
FailChange(c) ==
    /\ ChangeFails(c)
    /\ held' = [r \in Rows |->
          IF changing[c].pc = "end_sessions" /\ changing[c].row = r THEN {} ELSE held[r]]
    /\ UNCHANGED sessionVars

AccessNext ==
    \/ UserNext /\ UNCHANGED <<roleVars, held>>
    \/ \E c \in Admins :
          \/ OtherChange(c) /\ UNCHANGED <<sessionVars, held>>
          \/ EndAssignment(c) \/ EndSessions(c) \/ FailChange(c)
    \/ Tick /\ UNCHANGED <<sessionVars, held>>

AccessSpec == AccessInit /\ [][AccessNext]_accessVars
-----------------------------------------------------------------------------
(* Properties *)

EndingSessionsOf(r) ==
    \E c \in Admins : changing[c].pc = "end_sessions" /\ changing[c].row = r

\* The sessions a user had when an assignment ended do not outlive it: once the
\* call that ended it has moved on they are gone, and no refresh, sweep or second
\* revocation brings one back.
SessionsEndWithAccess ==
    \A r \in Ended : ~EndingSessionsOf(r) => held[r] \intersect Stored = {}
=============================================================================

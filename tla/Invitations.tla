----------------------------- MODULE Invitations ----------------------------
(***************************************************************************)
(* How users become members of one organization: its creator at once, the  *)
(* others by accepting an invitation.  Inviting checks and then writes;    *)
(* accepting reads the invitation, and then makes the member and closes    *)
(* the invitation in one transaction, under the unique index of members.   *)
(***************************************************************************)
EXTENDS Naturals, FiniteSets

CONSTANTS
    Users,      \* users, each with one email address
    Founder,    \* the user who created the organization
    Invites,    \* rows of invites
    Requests    \* requests that may be in flight at once

ASSUME InvitationsAssumption ==
    Founder \in Users /\ IsFiniteSet(Invites) /\ IsFiniteSet(Requests)

VARIABLES
    member,     \* the members row of each user
    invite,     \* the invites rows
    late,       \* invitations past their expiresAt
    request     \* the requests

inviteVars == <<member, invite, late, request>>
-----------------------------------------------------------------------------
NoMember == [status |-> "none"]

NotInvited == [status |-> "absent"]

InviteRows ==
    {NotInvited}
    \union [status : {"pending", "accepted", "expired"}, user : Users, admin : BOOLEAN]

NoRequest == [pc |-> "idle"]

InvitationsTypeOK ==
    /\ member \in [Users -> {NoMember} \union [status : {"active", "deactivated"}, admin : BOOLEAN]]
    /\ invite \in [Invites -> InviteRows]
    /\ late \subseteq Invites
    /\ request \in [Requests ->
          {NoRequest}
          \union [pc : {"find_pending", "create"}, user : Users, admin : BOOLEAN]
          \union [pc : {"accept", "expire"}, invite : Invites]]

IsMember(u) == member[u] # NoMember

IsActiveAdmin(u) == IsMember(u) /\ member[u] = [status |-> "active", admin |-> TRUE]

Pending(u) == {i \in Invites : invite[i].status = "pending" /\ invite[i].user = u}

Accepted(u) == {i \in Invites : invite[i].status = "accepted" /\ invite[i].user = u}

Do(c, frame) == request' = [request EXCEPT ![c] = frame]
-----------------------------------------------------------------------------
(* InviteService.createInvite *)

BeginInvite(c, u, admin) ==
    /\ request[c] = NoRequest
    /\ \E inviter \in Users : IsActiveAdmin(inviter)
    /\ Do(c, [pc |-> "find_pending", user |-> u, admin |-> admin])
    /\ UNCHANGED <<member, invite, late>>

\* Late invitations count as pending until someone presents them.
FindPending(c) ==
    /\ request[c].pc = "find_pending"
    /\ Do(c, IF Pending(request[c].user) # {} THEN NoRequest
             ELSE [request[c] EXCEPT !.pc = "create"])
    /\ UNCHANGED <<member, invite, late>>

CreateInvite(c) ==
    /\ request[c].pc = "create"
    /\ \E i \in Invites :
          /\ invite[i] = NotInvited
          /\ invite' = [invite EXCEPT ![i] = [status |-> "pending", user |-> request[c].user,
                                              admin |-> request[c].admin]]
    /\ Do(c, NoRequest)
    /\ UNCHANGED <<member, late>>
-----------------------------------------------------------------------------
(* InviteService.acceptInvite, by the user with the invited address *)

BeginAccept(c, i) ==
    /\ request[c] = NoRequest
    /\ invite[i].status = "pending"
    /\ Do(c, [pc |-> IF i \in late THEN "expire" ELSE "accept", invite |-> i])
    /\ UNCHANGED <<member, invite, late>>

\* By id, whatever has become of the invitation.
ExpireInvite(c) ==
    /\ request[c].pc = "expire"
    /\ invite' = [invite EXCEPT ![request[c].invite].status = "expired"]
    /\ Do(c, NoRequest)
    /\ UNCHANGED <<member, late>>

\* Mutation: the two writes are not one transaction.
AcceptInvite_Apart(c) ==
    /\ request[c].pc = "accept"
    /\ LET i == request[c].invite
           u == invite[i].user
       IN  /\ member' = IF IsMember(u) THEN member
                        ELSE [member EXCEPT ![u] = [status |-> "active", admin |-> invite[i].admin]]
           /\ invite' = [invite EXCEPT ![i].status = "accepted"]
    /\ Do(c, NoRequest)
    /\ UNCHANGED late

\* The transaction: the unique index refuses a second row for the user, and
\* the invitation is then left as it is.
AcceptInvite(c) ==
    /\ request[c].pc = "accept"
    /\ LET i == request[c].invite
           u == invite[i].user
       IN  \/ /\ ~IsMember(u)
              /\ member' = [member EXCEPT ![u] = [status |-> "active", admin |-> invite[i].admin]]
              /\ invite' = [invite EXCEPT ![i].status = "accepted"]
           \/ IsMember(u) /\ UNCHANGED <<member, invite>>
    /\ Do(c, NoRequest)
    /\ UNCHANGED late
-----------------------------------------------------------------------------
\* One updateMany; it may be of anyone, the last admin included.
Deactivate(u) ==
    /\ IsMember(u)
    /\ member[u].status = "active"
    /\ member' = [member EXCEPT ![u].status = "deactivated"]
    /\ UNCHANGED <<invite, late, request>>

\* expiresAt passes.
InviteLapses(i) ==
    /\ invite[i].status = "pending"
    /\ i \notin late
    /\ late' = late \union {i}
    /\ UNCHANGED <<member, invite, request>>

\* An await rejects or the process dies.
RequestFails(c) ==
    /\ request[c] # NoRequest
    /\ Do(c, NoRequest)
    /\ UNCHANGED <<member, invite, late>>
-----------------------------------------------------------------------------
\* createOrganization makes its creator an admin in one transaction.
InvitationsInit ==
    /\ member = [u \in Users |-> IF u = Founder THEN [status |-> "active", admin |-> TRUE]
                                 ELSE NoMember]
    /\ invite = [i \in Invites |-> NotInvited]
    /\ late = {}
    /\ request = [c \in Requests |-> NoRequest]

InvitationsNext ==
    \/ \E c \in Requests :
          \/ \E u \in Users, admin \in BOOLEAN : BeginInvite(c, u, admin)
          \/ FindPending(c) \/ CreateInvite(c)
          \/ \E i \in Invites : BeginAccept(c, i)
          \/ ExpireInvite(c) \/ AcceptInvite(c) \/ RequestFails(c)
    \/ \E u \in Users : Deactivate(u)
    \/ \E i \in Invites : InviteLapses(i)

InvitationsSpec == InvitationsInit /\ [][InvitationsNext]_inviteVars
-----------------------------------------------------------------------------
(* Properties *)

\* An invitation is accepted by making its user a member, and makes one member:
\* however many invitations a user has and however many requests accept them,
\* one is accepted at most, none by a user who was a member already.
AcceptedOnce ==
    \A u \in Users :
        /\ Accepted(u) # {} => IsMember(u) /\ u # Founder
        /\ Cardinality(Accepted(u)) <= 1
=============================================================================

------------------------------ MODULE Sessions ------------------------------
(***************************************************************************)
(* The refresh tokens of one user.  A session is a row found by the hash   *)
(* of its token; refreshing deletes the row and issues another token, in   *)
(* separate calls to the database, while other requests refresh, log in,   *)
(* log out, or end every session of the user.  Access tokens are signed    *)
(* and not stored: they run out by themselves and are left out.            *)
(***************************************************************************)
EXTENDS Naturals, FiniteSets

CONSTANTS
    Tokens,     \* refresh tokens, random and never issued twice
    Refreshers  \* refresh requests that may be in flight at once

ASSUME SessionsAssumption ==
    IsFiniteSet(Tokens) /\ IsFiniteSet(Refreshers) /\ {"none", "login"} \intersect Tokens = {}

VARIABLES
    session,    \* the sessions row of each token
    from,       \* history: the token each was issued for, or "login"
    old,        \* history: tokens that go back to a login before the last revocation
    escaped,    \* history: refreshes that were past their delete at that revocation
    refreshing  \* the refresh requests

sessionVars == <<session, from, old, escaped, refreshing>>
-----------------------------------------------------------------------------
NotRefreshing == [pc |-> "idle"]

RefreshRecords ==
    {NotRefreshing}
    \union [pc : {"delete_session", "find_stale", "revoke_stale", "refused"}, token : Tokens]
    \union [pc : {"issue"}, token : Tokens, old : BOOLEAN]

SessionsTypeOK ==
    /\ session \in [Tokens -> {"unissued", "live", "expired", "gone"}]
    /\ from \in [Tokens -> Tokens \union {"none", "login"}]
    /\ old \subseteq Tokens
    /\ escaped \in Nat
    /\ refreshing \in [Refreshers -> RefreshRecords]

\* Tokens that have a row, past its expiresAt or not.
Stored == {t \in Tokens : session[t] \in {"live", "expired"}}

Issuing == {c \in Refreshers : refreshing[c].pc = "issue"}

RefreshGoto(c, step) == refreshing' = [refreshing EXCEPT ![c].pc = step]

RefreshReturn(c) == refreshing' = [refreshing EXCEPT ![c] = NotRefreshing]
-----------------------------------------------------------------------------
\* issueTokens for a new, verified login.
Login(t) ==
    /\ session[t] = "unissued"
    /\ session' = [session EXCEPT ![t] = "live"]
    /\ from' = [from EXCEPT ![t] = "login"]
    /\ UNCHANGED <<old, escaped, refreshing>>

Logout(t) ==
    /\ t \in Stored
    /\ session' = [session EXCEPT ![t] = "gone"]
    /\ UNCHANGED <<from, old, escaped, refreshing>>

\* expiresAt passes; nothing deletes the row.
SessionExpires(t) ==
    /\ session[t] = "live"
    /\ session' = [session EXCEPT ![t] = "expired"]
    /\ UNCHANGED <<from, old, escaped, refreshing>>

\* The effect of a deleteMany by user.
DeleteAll ==
    /\ session' = [t \in Tokens |-> IF t \in Stored THEN "gone" ELSE session[t]]
    /\ old' = {t \in Tokens : session'[t] \in {"live", "expired"}}
    /\ escaped' = Cardinality(Issuing)

\* A refresh past its delete has no row any more, and is not stopped.
Overtaken(r) == [c \in Refreshers |-> IF c \in Issuing THEN [r[c] EXCEPT !.old = TRUE] ELSE r[c]]

RevokeByUser ==
    /\ DeleteAll
    /\ refreshing' = Overtaken(refreshing)
    /\ UNCHANGED from
-----------------------------------------------------------------------------
(* AuthService.refresh *)

BeginRefresh(c, t) ==
    /\ refreshing[c] = NotRefreshing
    /\ session[t] # "unissued"
    /\ refreshing' = [refreshing EXCEPT ![c] =
                        [pc |-> IF session[t] = "live" THEN "delete_session" ELSE "find_stale",
                         token |-> t]]
    /\ UNCHANGED <<session, from, old, escaped>>

\* Only an expired token still has a row to be found here.
FindStale(c) ==
    /\ refreshing[c].pc = "find_stale"
    /\ RefreshGoto(c, IF refreshing[c].token \in Stored THEN "revoke_stale" ELSE "refused")
    /\ UNCHANGED <<session, from, old, escaped>>

RevokeStale(c) ==
    /\ refreshing[c].pc = "revoke_stale"
    /\ DeleteAll
    /\ refreshing' = [Overtaken(refreshing) EXCEPT ![c].pc = "refused"]
    /\ UNCHANGED from

\* Mutation: deleteMany in place of delete, which does not mind a missing row.
DeleteSession_Lenient(c) ==
    /\ refreshing[c].pc = "delete_session"
    /\ LET t == refreshing[c].token
       IN  /\ session' = [session EXCEPT ![t] = "gone"]
           /\ refreshing' = [refreshing EXCEPT ![c] =
                               [pc |-> "issue", token |-> t, old |-> t \in old]]
    /\ UNCHANGED <<from, old, escaped>>

\* delete by id throws when the row is gone.
DeleteSession(c) ==
    /\ refreshing[c].pc = "delete_session"
    /\ LET t == refreshing[c].token
       IN  \/ /\ t \in Stored
              /\ session' = [session EXCEPT ![t] = "gone"]
              /\ refreshing' = [refreshing EXCEPT ![c] =
                                  [pc |-> "issue", token |-> t, old |-> t \in old]]
           \/ /\ t \notin Stored
              /\ RefreshReturn(c)
              /\ UNCHANGED session
    /\ UNCHANGED <<from, old, escaped>>

IssueTokens(c, t) ==
    /\ refreshing[c].pc = "issue"
    /\ session[t] = "unissued"
    /\ session' = [session EXCEPT ![t] = "live"]
    /\ from' = [from EXCEPT ![t] = refreshing[c].token]
    /\ old' = IF refreshing[c].old THEN old \union {t} ELSE old
    /\ RefreshReturn(c)
    /\ UNCHANGED escaped

\* An await rejects, the process dies, or the refusal is answered.
EndRefresh(c) ==
    /\ refreshing[c] # NotRefreshing
    /\ RefreshReturn(c)
    /\ UNCHANGED <<session, from, old, escaped>>
-----------------------------------------------------------------------------
SessionsInit ==
    /\ session = [t \in Tokens |-> "unissued"]
    /\ from = [t \in Tokens |-> "none"]
    /\ old = {}
    /\ escaped = 0
    /\ refreshing = [c \in Refreshers |-> NotRefreshing]

Refresh(c) ==
    \/ \E t \in Tokens : BeginRefresh(c, t) \/ IssueTokens(c, t)
    \/ FindStale(c) \/ RevokeStale(c) \/ DeleteSession(c) \/ EndRefresh(c)

\* Everything but the revocation, which others call.
UserNext ==
    \/ \E t \in Tokens : Login(t) \/ Logout(t) \/ SessionExpires(t)
    \/ \E c \in Refreshers : Refresh(c)

SessionsSpec == SessionsInit /\ [][UserNext \/ RevokeByUser]_sessionVars
-----------------------------------------------------------------------------
(* Properties *)

\* A refresh token is good for one successor, however many requests present it
\* at once: they all find the row, but only one can delete it.
TokenWorksOnce ==
    /\ \A s, t \in Tokens : s # t /\ from[s] \in Tokens => from[s] # from[t]
    /\ \A c, d \in Issuing : c # d => refreshing[c].token # refreshing[d].token
    /\ \A c \in Issuing, t \in Tokens : from[t] # refreshing[c].token

\* Ending a user's sessions ends all but those of refreshes already past their
\* delete: a lineage from before it goes on in no more sessions than that.
EscapeBounded ==
    Cardinality(old \intersect Stored) + Cardinality({c \in Issuing : refreshing[c].old})
        <= escaped

\* auth.service.refresh.spec: "revokes all sessions when a rotated refresh
\* token is reused".
ReuseEndsSessions ==
    [][\A c \in Refreshers :
          /\ refreshing[c].pc \in {"find_stale", "revoke_stale"}
          /\ refreshing'[c].pc = "refused"
          /\ \E t \in Tokens : from[t] = refreshing[c].token
          => Stored' = {}]_sessionVars
=============================================================================

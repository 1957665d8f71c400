------------------------- MODULE AccessControlProofs -------------------------
(* Sessions, role assignments, and both together, for any number of tokens,    *)
(* rows and concurrent requests.                                               *)
EXTENDS AccessControl, FiniteSetTheorems, TLAPS

(***************************************************************************)
(* Counting: two finite sets that have no more than n elements together.   *)
(***************************************************************************)
FitsIn(A, B, n) ==
    /\ IsFiniteSet(A) /\ IsFiniteSet(B) /\ n \in Nat
    /\ Cardinality(A) + Cardinality(B) <= n

\* Smaller sets have no more.
LEMMA Shrink ==
    ASSUME NEW A, NEW B, NEW n, FitsIn(A, B, n), NEW C \in SUBSET A, NEW D \in SUBSET B
    PROVE  FitsIn(C, D, n)
<1>1. /\ IsFiniteSet(C) /\ Cardinality(C) <= Cardinality(A)
      /\ IsFiniteSet(D) /\ Cardinality(D) <= Cardinality(B)
  BY FS_Subset DEF FitsIn
<1>2. \A S \in {A, B, C, D} : Cardinality(S) \in Nat
  BY <1>1, FS_CardinalityType DEF FitsIn
<1> QED
  BY <1>1, <1>2 DEF FitsIn

\* What leaves one may join the other.
LEMMA Move ==
    ASSUME NEW A, NEW B, NEW n, FitsIn(A, B, n), NEW x, NEW y
    PROVE  /\ x \in A => FitsIn(A \ {x}, B \union {y}, n)
           /\ y \in B => FitsIn(A \union {x}, B \ {y}, n)
<1>1. /\ IsFiniteSet(A \ {x}) /\ IsFiniteSet(B \ {y})
      /\ IsFiniteSet(A \union {x}) /\ IsFiniteSet(B \union {y})
  BY FS_AddElement, FS_RemoveElement DEF FitsIn
<1>2. /\ x \in A => Cardinality(A \ {x}) = Cardinality(A) - 1
      /\ y \in B => Cardinality(B \ {y}) = Cardinality(B) - 1
  BY FS_RemoveElement DEF FitsIn
<1>3. /\ Cardinality(A \union {x}) \in {Cardinality(A), Cardinality(A) + 1}
      /\ Cardinality(B \union {y}) \in {Cardinality(B), Cardinality(B) + 1}
  BY FS_AddElement DEF FitsIn
<1>4. Cardinality(A) \in Nat /\ Cardinality(B) \in Nat
  BY FS_CardinalityType DEF FitsIn
<1> QED
  BY <1>1, <1>2, <1>3, <1>4 DEF FitsIn

\* One of them empty, and the other part of a set of that many.
LEMMA Part ==
    ASSUME NEW S, IsFiniteSet(S), NEW B \in SUBSET S
    PROVE  FitsIn({}, B, Cardinality(S))
<1>1. IsFiniteSet(B) /\ Cardinality(B) <= Cardinality(S)
  BY FS_Subset
<1>2. IsFiniteSet({}) /\ Cardinality({}) = 0
  BY FS_EmptySet
<1>3. Cardinality(S) \in Nat /\ Cardinality(B) \in Nat
  BY <1>1, FS_CardinalityType
<1> QED
  BY <1>1, <1>2, <1>3 DEF FitsIn
-----------------------------------------------------------------------------
(***************************************************************************)
(* Sessions.  A token that has been traded in has no row, and a row that   *)
(* is gone stays gone: so at most one refresh gets past the delete.        *)
(***************************************************************************)
Lineage ==
    /\ \A t \in Tokens : session[t] = "unissued" => from[t] = "none" /\ t \notin old
    /\ \A t \in Tokens : from[t] \in Tokens => session[from[t]] = "gone"
    /\ \A c \in Issuing : session[refreshing[c].token] = "gone"

SessionsInv == SessionsTypeOK /\ Lineage /\ TokenWorksOnce

Escaping == {c \in Issuing : refreshing[c].old}

EscapeInv == FitsIn(old \intersect Stored, Escaping, escaped)

SessionStep == UserNext \/ RevokeByUser

\* What is known of a request, and of the requests past their delete.
LEMMA RefreshShape ==
    ASSUME SessionsTypeOK
    PROVE  /\ \A c \in Refreshers :
              /\ refreshing[c].pc = "idle" <=> refreshing[c] = NotRefreshing
              /\ refreshing[c].pc # "idle" => refreshing[c].token \in Tokens
              /\ refreshing[c].pc \notin {"idle", "issue"}
                    => refreshing[c] = [pc |-> refreshing[c].pc, token |-> refreshing[c].token]
           /\ \A c \in Issuing :
              /\ refreshing[c].pc = "issue"
              /\ refreshing[c].token \in Tokens /\ refreshing[c].old \in BOOLEAN
<1>1. \A c \in Refreshers : refreshing[c] \in RefreshRecords
  BY DEF SessionsTypeOK
<1>2. \A r \in RefreshRecords :
         /\ r.pc = "idle" <=> r = NotRefreshing
         /\ r.pc # "idle" => r.token \in Tokens
         /\ r.pc \notin {"idle", "issue"} => r = [pc |-> r.pc, token |-> r.token]
         /\ r.pc = "issue" => r.old \in BOOLEAN
  BY DEF RefreshRecords, NotRefreshing
<1> QED
  BY <1>1, <1>2 DEF Issuing

\* The revocations: what they leave of the requests.
LEMMA Overtaking ==
    ASSUME SessionsTypeOK
    PROVE  /\ Overtaken(refreshing) \in [Refreshers -> RefreshRecords]
           /\ \A c \in Issuing : /\ Overtaken(refreshing)[c].pc = "issue"
                                /\ Overtaken(refreshing)[c].token = refreshing[c].token
           /\ \A c \in Refreshers \ Issuing : Overtaken(refreshing)[c] = refreshing[c]
<1> DEFINE Past == [pc : {"issue"}, token : Tokens, old : BOOLEAN]
<1>1. \A r \in Past : LET o == [r EXCEPT !.old = TRUE]
                     IN  o \in Past /\ o.pc = "issue" /\ o.token = r.token
  OBVIOUS
<1>2. Past \subseteq RefreshRecords
  BY DEF RefreshRecords
<1>3. \A c \in Refreshers : refreshing[c] \in RefreshRecords
  BY DEF SessionsTypeOK
<1>4. \A c \in Issuing : refreshing[c] \in Past
  BY <1>3 DEF Issuing, RefreshRecords, NotRefreshing
<1> HIDE DEF Past
<1>5. \A c \in Refreshers : Overtaken(refreshing)[c] =
            IF c \in Issuing THEN [refreshing[c] EXCEPT !.old = TRUE] ELSE refreshing[c]
  BY DEF Overtaken
<1>6. \A c \in Refreshers : Overtaken(refreshing)[c] \in RefreshRecords
  BY <1>1, <1>2, <1>3, <1>4, <1>5
<1>7. \A c \in Issuing : c \in Refreshers
  BY DEF Issuing
<1> QED
  BY <1>1, <1>4, <1>5, <1>6, <1>7 DEF Overtaken

\* Both revocations end every session, and only mark the requests they overtook.
LEMMA Revocation ==
    ASSUME SessionsTypeOK, RevokeByUser \/ \E c \in Refreshers : RevokeStale(c)
    PROVE  /\ SessionsTypeOK'
           /\ session' = [t \in Tokens |-> IF t \in Stored THEN "gone" ELSE session[t]]
           /\ from' = from /\ old' = {} /\ escaped' = Cardinality(Issuing)
           /\ Issuing' = Issuing
           /\ \A c \in Issuing : refreshing'[c].token = refreshing[c].token
           /\ Stored' = {}
<1>1. DeleteAll /\ from' = from
  BY DEF RevokeByUser, RevokeStale
<1>2. /\ session' = [t \in Tokens |-> IF t \in Stored THEN "gone" ELSE session[t]]
      /\ old' = {t \in Tokens : session'[t] \in {"live", "expired"}}
      /\ escaped' = Cardinality(Issuing)
  BY <1>1 DEF DeleteAll
<1>3. \A t \in Tokens : session'[t] \notin {"live", "expired"}
  BY <1>2 DEF Stored
<1>4. Stored' = {} /\ old' = {}
  BY <1>2, <1>3 DEF Stored
<1>5. session' \in [Tokens -> {"unissued", "live", "expired", "gone"}]
  BY <1>2 DEF SessionsTypeOK, Stored
<1>6. escaped' \in Nat
  BY <1>2, SessionsAssumption, FS_Subset, FS_CardinalityType DEF Issuing
<1>7. /\ refreshing' \in [Refreshers -> RefreshRecords]
      /\ \A c \in Issuing : /\ refreshing'[c].pc = "issue"
                           /\ refreshing'[c].token = refreshing[c].token
      /\ \A c \in Refreshers \ Issuing : refreshing'[c].pc # "issue"
  <2>1. CASE RevokeByUser
    BY <2>1, Overtaking DEF RevokeByUser, Issuing
  <2>2. ASSUME NEW d \in Refreshers, RevokeStale(d)
        PROVE  <1>7
    <3>1. /\ d \notin Issuing
          /\ refreshing[d] = [pc |-> "revoke_stale", token |-> refreshing[d].token]
          /\ refreshing[d].token \in Tokens
      BY <2>2, RefreshShape DEF RevokeStale, Issuing
    <3>2. refreshing' = [Overtaken(refreshing) EXCEPT ![d] =
                            [pc |-> "refused", token |-> refreshing[d].token]]
      <4>1. Overtaken(refreshing)[d] = [pc |-> "revoke_stale", token |-> refreshing[d].token]
        BY <3>1, Overtaking
      <4>2. [Overtaken(refreshing)[d] EXCEPT !.pc = "refused"] =
                [pc |-> "refused", token |-> refreshing[d].token]
        BY <4>1
      <4> QED
        BY <2>2, <4>2 DEF RevokeStale
    <3>3. [pc |-> "refused", token |-> refreshing[d].token] \in RefreshRecords
      BY <3>1 DEF RefreshRecords
    <3> QED
      BY <3>1, <3>2, <3>3, Overtaking DEF Issuing
  <2> QED
    BY <2>1, <2>2
<1>8. Issuing' = Issuing
  BY <1>7 DEF Issuing
<1>9. SessionsTypeOK'
  BY <1>1, <1>4, <1>5, <1>6, <1>7 DEF SessionsTypeOK
<1>10. \A c \in Issuing : refreshing'[c].token = refreshing[c].token
  BY <1>7
<1> QED
  BY <1>1, <1>2, <1>4, <1>8, <1>9, <1>10

\* No row comes back, and only an unissued token gets one.
Moved ==
    \A t \in Tokens :
       /\ session[t] = "gone" => session'[t] = "gone"
       /\ session[t] # "unissued" => session'[t] # "unissued"
       /\ t \in Stored' => t \in Stored \/ session[t] = "unissued"

Kept == SessionsInv' /\ EscapeInv' /\ Moved

LEMMA RevocationKeeps ==
    ASSUME SessionsInv, RevokeByUser \/ \E c \in Refreshers : RevokeStale(c)
    PROVE  Kept
<1>1. SessionsTypeOK
  BY DEF SessionsInv
<1>2. /\ SessionsTypeOK'
      /\ session' = [t \in Tokens |-> IF t \in Stored THEN "gone" ELSE session[t]]
      /\ from' = from /\ old' = {} /\ escaped' = Cardinality(Issuing)
      /\ Issuing' = Issuing
      /\ \A c \in Issuing : refreshing'[c].token = refreshing[c].token
      /\ Stored' = {}
  BY <1>1, Revocation
<1>3. \A t \in Tokens : /\ session'[t] = "unissued" <=> session[t] = "unissued"
                        /\ session[t] = "gone" => session'[t] = "gone"
  BY <1>1, <1>2 DEF Stored
<1>4. Moved
  BY <1>2, <1>3 DEF Moved
<1>5. Lineage'
  <2>1. \A t \in Tokens : session'[t] = "unissued" => from'[t] = "none" /\ t \notin old'
    BY <1>2, <1>3 DEF SessionsInv, Lineage
  <2>2. \A t \in Tokens : from'[t] \in Tokens => session'[from'[t]] = "gone"
    BY <1>2, <1>3 DEF SessionsInv, Lineage
  <2>3. \A c \in Issuing' : session'[refreshing'[c].token] = "gone"
    <3>1. \A c \in Issuing : /\ refreshing[c].token \in Tokens
                            /\ session[refreshing[c].token] = "gone"
      BY <1>1, RefreshShape DEF SessionsInv, Lineage
    <3> QED
      BY <1>2, <1>3, <3>1
  <2> QED
    BY <2>1, <2>2, <2>3 DEF Lineage
<1>6. TokenWorksOnce'
  BY <1>2 DEF SessionsInv, TokenWorksOnce
<1>7. EscapeInv'
  <2>1. IsFiniteSet(Issuing)
    BY SessionsAssumption, FS_Subset DEF Issuing
  <2>2. FitsIn({}, Escaping', Cardinality(Issuing))
    BY <1>2, <2>1, Part DEF Escaping
  <2> QED
    BY <1>2, <2>2 DEF EscapeInv
<1> QED
  BY <1>2, <1>4, <1>5, <1>6, <1>7 DEF Kept, SessionsInv

\* Logging in, logging out, and running out.
LEMMA RowKeeps ==
    ASSUME SessionsInv, EscapeInv, NEW t \in Tokens, Login(t) \/ Logout(t) \/ SessionExpires(t)
    PROVE  Kept
<1> USE DEF SessionsInv, SessionsTypeOK
<1>1. SessionsTypeOK' /\ Moved
  BY DEF Login, Logout, SessionExpires, Stored, Moved
<1>2. refreshing' = refreshing /\ Issuing' = Issuing /\ old' = old /\ escaped' = escaped
  BY DEF Login, Logout, SessionExpires, Issuing
<1>3. CASE Login(t)
  <2>1. /\ session[t] = "unissued" /\ from[t] = "none" /\ t \notin old
        /\ session' = [session EXCEPT ![t] = "live"]
        /\ from' = [from EXCEPT ![t] = "login"]
    BY <1>3 DEF Login, Lineage
  <2>2. "login" \notin Tokens /\ "none" \notin Tokens
    BY SessionsAssumption
  <2>3. Lineage'
    <3>1. \A s \in Tokens : from'[s] \in Tokens => s # t /\ from'[s] = from[s]
      BY <2>1, <2>2
    <3>2. \A s \in Tokens : session[s] = "gone" => session'[s] = "gone"
      BY <1>1 DEF Moved
    <3>3. \A s \in Tokens : from'[s] \in Tokens => session'[from'[s]] = "gone"
      BY <3>1, <3>2 DEF Lineage
    <3>4. \A c \in Issuing' : session'[refreshing'[c].token] = "gone"
      BY <1>2, <3>2, RefreshShape DEF Lineage
    <3>5. \A s \in Tokens : session'[s] = "unissued" => from'[s] = "none" /\ s \notin old'
      BY <2>1, <1>2 DEF Lineage
    <3> QED
      BY <3>3, <3>4, <3>5 DEF Lineage
  <2>4. TokenWorksOnce'
    <3>1. \A c \in Issuing : refreshing[c].token \in Tokens
      BY RefreshShape
    <3>2. \A s \in Tokens : from'[s] \in Tokens => s # t /\ from'[s] = from[s]
      BY <2>1, <2>2
    <3> QED
      BY <1>2, <3>1, <3>2 DEF TokenWorksOnce
  <2>5. old' \intersect Stored' = old \intersect Stored /\ Escaping' = Escaping
    BY <2>1, <1>2 DEF Stored, Escaping
  <2> QED
    BY <1>1, <1>2, <2>3, <2>4, <2>5 DEF Kept, EscapeInv
<1>4. CASE Logout(t) \/ SessionExpires(t)
  <2>1. /\ session[t] \in {"live", "expired"} /\ from' = from
        /\ \/ session' = [session EXCEPT ![t] = "gone"]
           \/ session' = [session EXCEPT ![t] = "expired"]
    BY <1>4 DEF Logout, SessionExpires, Stored
  <2>2. \A s \in Tokens : session'[s] = "unissued" => session[s] = "unissued"
    BY <2>1
  <2>3. \A s \in Tokens : session[s] = "gone" => session'[s] = "gone"
    BY <1>1 DEF Moved
  <2>4. Lineage'
    <3>1. \A c \in Issuing : session'[refreshing[c].token] = "gone"
      BY <2>3, RefreshShape DEF Lineage
    <3> QED
      BY <1>2, <2>1, <2>2, <2>3, <3>1 DEF Lineage
  <2>5. TokenWorksOnce'
    BY <1>2, <2>1 DEF TokenWorksOnce
  <2>6. Stored' \subseteq Stored /\ Escaping' = Escaping
    BY <1>2, <2>1 DEF Stored, Escaping
  <2>7. EscapeInv'
    BY <1>2, <2>6, Shrink DEF EscapeInv
  <2> QED
    BY <1>1, <2>4, <2>5, <2>7 DEF Kept
<1> QED
  BY <1>3, <1>4

\* The steps of a refresh that only look: no row is touched.
LEMMA LookKeeps ==
    ASSUME SessionsInv, EscapeInv, NEW c \in Refreshers,
           FindStale(c) \/ EndRefresh(c) \/ \E t \in Tokens : BeginRefresh(c, t)
    PROVE  Kept
<1> USE DEF SessionsInv, SessionsTypeOK
<1>1. session' = session /\ from' = from /\ old' = old /\ escaped' = escaped
  BY DEF FindStale, EndRefresh, BeginRefresh
<1>2. PICK r : /\ refreshing' = [refreshing EXCEPT ![c] = r]
               /\ r \in RefreshRecords /\ r.pc # "issue"
  <2>1. CASE FindStale(c)
    <3>1. refreshing[c] = [pc |-> "find_stale", token |-> refreshing[c].token]
          /\ refreshing[c].token \in Tokens
      BY <2>1, RefreshShape DEF FindStale
    <3>2. PICK step \in {"revoke_stale", "refused"} :
             refreshing' = [refreshing EXCEPT ![c].pc = step]
      BY <2>1 DEF FindStale, RefreshGoto
    <3>3. [refreshing[c] EXCEPT !.pc = step] = [pc |-> step, token |-> refreshing[c].token]
      BY <3>1
    <3>4. /\ [pc |-> step, token |-> refreshing[c].token] \in RefreshRecords
          /\ [pc |-> step, token |-> refreshing[c].token].pc # "issue"
      BY <3>1 DEF RefreshRecords
    <3>5. refreshing' = [refreshing EXCEPT ![c] = [pc |-> step, token |-> refreshing[c].token]]
      BY <3>2, <3>3
    <3> QED
      BY <3>4, <3>5
  <2>2. CASE EndRefresh(c)
    <3>1. NotRefreshing \in RefreshRecords /\ NotRefreshing.pc # "issue"
      BY DEF RefreshRecords, NotRefreshing
    <3> QED
      BY <2>2, <3>1 DEF EndRefresh, RefreshReturn
  <2>3. ASSUME NEW t \in Tokens, BeginRefresh(c, t)
        PROVE  \E r : /\ refreshing' = [refreshing EXCEPT ![c] = r]
                      /\ r \in RefreshRecords /\ r.pc # "issue"
    <3> DEFINE step == IF session[t] = "live" THEN "delete_session" ELSE "find_stale"
    <3>1. refreshing' = [refreshing EXCEPT ![c] = [pc |-> step, token |-> t]]
      BY <2>3 DEF BeginRefresh
    <3>2. step \in {"delete_session", "find_stale"}
      OBVIOUS
    <3> HIDE DEF step
    <3>3. [pc |-> step, token |-> t] \in RefreshRecords /\ [pc |-> step, token |-> t].pc # "issue"
      BY <3>2 DEF RefreshRecords
    <3> QED
      BY <3>1, <3>3
  <2> QED
    BY <2>1, <2>2, <2>3
<1>3. /\ SessionsTypeOK'
      /\ Issuing' = Issuing \ {c}
      /\ \A d \in Issuing' : refreshing'[d] = refreshing[d]
  BY <1>1, <1>2 DEF Issuing
<1>4. Lineage'
  BY <1>1, <1>3 DEF Lineage
<1>5. TokenWorksOnce'
  BY <1>1, <1>3 DEF TokenWorksOnce
<1>6. Moved /\ Stored' = Stored
  BY <1>1 DEF Moved, Stored
<1>7. Escaping' \subseteq Escaping
  BY <1>3 DEF Escaping
<1>8. EscapeInv'
  BY <1>1, <1>6, <1>7, Shrink DEF EscapeInv
<1> QED
  BY <1>3, <1>4, <1>5, <1>6, <1>8 DEF Kept

\* The delete: the one step that takes a refresh past the point of no return.
LEMMA DeleteKeeps ==
    ASSUME SessionsInv, EscapeInv, NEW c \in Refreshers, DeleteSession(c)
    PROVE  Kept
<1> USE DEF SessionsInv, SessionsTypeOK
<1> DEFINE t == refreshing[c].token
           r == [pc |-> "issue", token |-> t, old |-> t \in old]
<1>1. t \in Tokens /\ c \notin Issuing /\ c \notin Escaping
  BY RefreshShape DEF DeleteSession, NotRefreshing, Issuing, Escaping
<1>2. from' = from /\ old' = old /\ escaped' = escaped
  BY DEF DeleteSession
<1>3. CASE t \notin Stored
  <2>1. EndRefresh(c)
    BY <1>3 DEF DeleteSession, EndRefresh, NotRefreshing
  <2> QED
    BY <2>1, LookKeeps
<1>4. CASE t \in Stored
  <2>1. /\ session' = [session EXCEPT ![t] = "gone"]
        /\ refreshing' = [refreshing EXCEPT ![c] = r]
        /\ session[t] \in {"live", "expired"}
    BY <1>4 DEF DeleteSession, Stored
  <2>2. r \in RefreshRecords /\ r.pc = "issue" /\ r.token = t
    BY <1>1 DEF RefreshRecords
  <2>3. /\ SessionsTypeOK'
        /\ Issuing' = Issuing \union {c}
        /\ \A d \in Issuing : refreshing'[d] = refreshing[d]
        /\ refreshing'[c].token = t /\ (refreshing'[c].old <=> t \in old)
    BY <1>1, <1>2, <2>1, <2>2 DEF Issuing
  <2>4. \A s \in Tokens : /\ session[s] = "gone" => session'[s] = "gone"
                          /\ session'[s] = "unissued" => session[s] = "unissued"
    BY <1>1, <2>1
  <2>5. \A d \in Issuing : /\ refreshing[d].token \in Tokens
                           /\ session[refreshing[d].token] = "gone"
    BY RefreshShape DEF Lineage
  <2>6. Lineage'
    BY <1>1, <1>2, <2>1, <2>2, <2>3, <2>4, <2>5 DEF Lineage
  <2>7. TokenWorksOnce'
    <3>1. \A d \in Issuing : refreshing[d].token # t
      BY <2>1, <2>5
    <3>2. \A s \in Tokens : from[s] # t
      BY <1>1, <2>1 DEF Lineage
    <3> QED
      BY <1>2, <2>2, <2>3, <3>1, <3>2 DEF TokenWorksOnce
  <2>8. Moved /\ Stored' = Stored \ {t}
    BY <1>1, <2>1 DEF Moved, Stored
  <2>9. EscapeInv'
    <3>1. CASE t \in old
      <4>1. Escaping' = Escaping \union {c}
        BY <2>3, <3>1 DEF Escaping
      <4>2. old' \intersect Stored' = (old \intersect Stored) \ {t}
        BY <1>2, <2>8
      <4>3. FitsIn((old \intersect Stored) \ {t}, Escaping \union {c}, escaped)
        BY <1>4, <3>1, Move DEF EscapeInv
      <4> QED
        BY <1>2, <4>1, <4>2, <4>3 DEF EscapeInv
    <3>2. CASE t \notin old
      <4>1. Escaping' = Escaping
        BY <1>1, <2>3, <3>2 DEF Escaping
      <4>2. old' \intersect Stored' = old \intersect Stored
        BY <1>2, <2>8, <3>2
      <4> QED
        BY <1>2, <4>1, <4>2 DEF EscapeInv
    <3> QED
      BY <3>1, <3>2
  <2> QED
    BY <2>3, <2>6, <2>7, <2>8, <2>9 DEF Kept
<1> QED
  BY <1>3, <1>4

\* The successor: a token nobody had, for a token nobody else is trading in.
LEMMA IssueKeeps ==
    ASSUME SessionsInv, EscapeInv, NEW c \in Refreshers, NEW t \in Tokens, IssueTokens(c, t)
    PROVE  Kept
<1> USE DEF SessionsInv, SessionsTypeOK
<1>1. /\ c \in Issuing /\ session[t] = "unissued"
      /\ session' = [session EXCEPT ![t] = "live"]
      /\ from' = [from EXCEPT ![t] = refreshing[c].token]
      /\ old' = IF refreshing[c].old THEN old \union {t} ELSE old
      /\ refreshing' = [refreshing EXCEPT ![c] = NotRefreshing]
      /\ escaped' = escaped
  BY DEF IssueTokens, Issuing, RefreshReturn
<1>2. /\ refreshing[c].token \in Tokens
      /\ session[refreshing[c].token] = "gone"
      /\ from[t] = "none" /\ t \notin old
  BY <1>1, RefreshShape DEF Lineage
<1>3. /\ SessionsTypeOK'
      /\ Issuing' = Issuing \ {c}
      /\ \A d \in Issuing' : refreshing'[d] = refreshing[d]
  BY <1>1, <1>2 DEF Issuing, RefreshRecords, NotRefreshing
<1>4. \A s \in Tokens : /\ session[s] = "gone" => session'[s] = "gone"
                        /\ session'[s] = "unissued" => session[s] = "unissued" /\ s # t
  BY <1>1
<1>5. Lineage'
  <2>1. \A s \in Tokens : session'[s] = "unissued" => from'[s] = "none" /\ s \notin old'
    BY <1>1, <1>4 DEF Lineage
  <2>2. \A s \in Tokens : from'[s] \in Tokens => session'[from'[s]] = "gone"
    BY <1>1, <1>2, <1>4 DEF Lineage
  <2>3. \A d \in Issuing' : session'[refreshing'[d].token] = "gone"
    <3>1. \A d \in Issuing : /\ refreshing[d].token \in Tokens
                            /\ session[refreshing[d].token] = "gone"
      BY RefreshShape DEF Lineage
    <3> QED
      BY <1>3, <1>4, <3>1
  <2> QED
    BY <2>1, <2>2, <2>3 DEF Lineage
<1>6. TokenWorksOnce'
  <2>1. \A s \in Tokens : from[s] # refreshing[c].token
    BY <1>1 DEF TokenWorksOnce
  <2>2. \A d \in Issuing : d # c => refreshing[d].token # refreshing[c].token
    BY <1>1 DEF TokenWorksOnce
  <2>3. \A s \in Tokens : from'[s] = IF s = t THEN refreshing[c].token ELSE from[s]
    BY <1>1
  <2>4. \A r, s \in Tokens : r # s /\ from'[r] \in Tokens => from'[r] # from'[s]
    BY <2>1, <2>3 DEF TokenWorksOnce
  <2>5. \A d, e \in Issuing' : d # e => refreshing'[d].token # refreshing'[e].token
    BY <1>3 DEF TokenWorksOnce
  <2>6. \A d \in Issuing', s \in Tokens : from'[s] # refreshing'[d].token
    BY <1>3, <2>2, <2>3 DEF TokenWorksOnce
  <2> QED
    BY <2>4, <2>5, <2>6 DEF TokenWorksOnce
<1>7. Moved /\ Stored' = Stored \union {t}
  BY <1>1 DEF Moved, Stored
<1>8. EscapeInv'
  <2>1. Escaping' = Escaping \ {c}
    BY <1>3 DEF Escaping
  <2>2. CASE refreshing[c].old
    <3>1. old' \intersect Stored' = (old \intersect Stored) \union {t}
      BY <1>1, <1>7, <2>2
    <3>2. FitsIn((old \intersect Stored) \union {t}, Escaping \ {c}, escaped)
      BY <1>1, <2>2, Move DEF EscapeInv, Escaping
    <3> QED
      BY <1>1, <2>1, <3>1, <3>2 DEF EscapeInv
  <2>3. CASE ~refreshing[c].old
    <3>1. old' \intersect Stored' = old \intersect Stored
      BY <1>1, <1>2, <1>7, <2>3
    <3>2. FitsIn(old \intersect Stored, Escaping \ {c}, escaped)
      BY Shrink DEF EscapeInv
    <3> QED
      BY <1>1, <2>1, <3>1, <3>2 DEF EscapeInv
  <2> QED
    BY <2>2, <2>3
<1> QED
  BY <1>3, <1>5, <1>6, <1>7, <1>8 DEF Kept

\* Every step of the sessions.
LEMMA SessionsKept ==
    ASSUME SessionsInv, EscapeInv, [UserNext \/ RevokeByUser]_sessionVars
    PROVE  Kept
<1>1. CASE UNCHANGED sessionVars
  <2>1. /\ session' = session /\ from' = from /\ old' = old
        /\ escaped' = escaped /\ refreshing' = refreshing
    BY <1>1 DEF sessionVars
  <2> QED
    BY <2>1 DEF Kept, SessionsInv, SessionsTypeOK, Lineage, TokenWorksOnce, EscapeInv,
                Escaping, Issuing, Stored, Moved
<1>2. CASE RevokeByUser
  BY <1>2, RevocationKeeps
<1>3. ASSUME NEW t \in Tokens, Login(t) \/ Logout(t) \/ SessionExpires(t)
      PROVE  Kept
  BY <1>3, RowKeeps
<1>4. ASSUME NEW c \in Refreshers, Refresh(c)
      PROVE  Kept
  BY <1>4, RevocationKeeps, LookKeeps, DeleteKeeps, IssueKeeps DEF Refresh
<1> QED
  BY <1>1, <1>2, <1>3, <1>4 DEF UserNext

LEMMA SessionsStart == SessionsInit => SessionsInv /\ EscapeInv
<1> SUFFICES ASSUME SessionsInit
             PROVE  SessionsInv /\ EscapeInv
  OBVIOUS
<1>1. SessionsTypeOK
  BY DEF SessionsInit, SessionsTypeOK, RefreshRecords
<1>2. Issuing = {} /\ Stored = {} /\ old = {} /\ escaped = 0
  BY DEF SessionsInit, Issuing, Stored, NotRefreshing
<1>3. Lineage /\ TokenWorksOnce
  BY <1>2, SessionsAssumption DEF SessionsInit, Lineage, TokenWorksOnce
<1>4. FitsIn({}, {}, 0)
  BY FS_EmptySet DEF FitsIn
<1>5. EscapeInv
  BY <1>2, <1>4 DEF EscapeInv, Escaping
<1> QED
  BY <1>1, <1>3, <1>5 DEF SessionsInv

LEMMA SessionsAlways == SessionsSpec => [](SessionsInv /\ EscapeInv)
<1>1. SessionsInv /\ EscapeInv /\ [UserNext \/ RevokeByUser]_sessionVars
        => SessionsInv' /\ EscapeInv'
  BY SessionsKept DEF Kept
<1> QED
  BY <1>1, SessionsStart, PTL DEF SessionsSpec

(***************************************************************************)
(* However many requests present a refresh token at once, one successor is *)
(* issued for it (AuthService.refresh).                                    *)
(***************************************************************************)
THEOREM OneSuccessor == SessionsSpec => []TokenWorksOnce
<1>1. SessionsInv => TokenWorksOnce
  BY DEF SessionsInv
<1> QED
  BY <1>1, SessionsAlways, PTL

(***************************************************************************)
(* What revoking a user's sessions misses: no more sessions live on than   *)
(* refreshes were between their delete and their insert at that moment.    *)
(***************************************************************************)
THEOREM FewEscape == SessionsSpec => []EscapeBounded
<1>1. EscapeInv => EscapeBounded
  BY DEF EscapeInv, FitsIn, EscapeBounded, Escaping
<1> QED
  BY <1>1, SessionsAlways, PTL
-----------------------------------------------------------------------------
(***************************************************************************)
(* Assignments.  The rows a request works on exist, so the steps that      *)
(* write by id end an assignment and never make one.                       *)
(***************************************************************************)
Touched(c) ==
    IF changing[c].pc \in {"mark_revoked", "end_sessions", "cancel_intents"}
    THEN {changing[c].row} \union changing[c].due
    ELSE IF changing[c].pc = "expire" THEN changing[c].due ELSE {}

AssignmentsInv ==
    /\ AssignmentsTypeOK
    /\ \A c \in Admins : \A r \in Touched(c) : Status(r) # "absent"
    /\ FitsIn(Open, Assigning, Cardinality(Admins))

\* A step of a row: absent rows are made once, ended ones stay ended.
RowMoved(r) ==
    /\ assignment[r].status # "absent" => assignment'[r].status # "absent"
    /\ r \in Ended => assignment'[r].status \in {"expired", "revoked"}

\* Steps that leave the rows, and the requests but for one.
LEMMA FrameKeeps ==
    ASSUME AssignmentsInv, NEW c \in Admins, NEW f \in ChangeRecords,
           now' = now, assignment' = assignment, changing' = [changing EXCEPT ![c] = f],
           f.pc \in {"mark_revoked", "end_sessions", "cancel_intents"} =>
              \A r \in {f.row} \union f.due : Status(r) # "absent",
           f.pc = "expire" => \A r \in f.due : Status(r) # "absent",
           f.pc = "create" => Open = {}
    PROVE  AssignmentsInv' /\ \A r \in Rows : RowMoved(r)
<1> USE DEF AssignmentsInv, AssignmentsTypeOK
<1>1. AssignmentsTypeOK'
  OBVIOUS
<1>2. \A r \in Rows : RowMoved(r)
  BY DEF RowMoved, Ended, Status
<1>3. \A d \in Admins : \A r \in Touched(d)' : Status(r)' # "absent"
  <2>1. \A d \in Admins : \A r : Status(r)' = Status(r)
    BY DEF Status
  <2>2. \A d \in Admins \ {c} : Touched(d)' = Touched(d)
    BY DEF Touched
  <2>3. \A r \in Touched(c)' : Status(r) # "absent"
    BY DEF Touched
  <2> QED
    BY <2>1, <2>2, <2>3
<1>4. Open' = Open
  BY DEF Open, Status
<1>5. CASE f.pc = "create"
  <2>1. Assigning' \in SUBSET Admins
    BY DEF Assigning
  <2>2. FitsIn({}, Assigning', Cardinality(Admins))
    BY <2>1, AssignmentsAssumption, Part
  <2> QED
    BY <1>1, <1>2, <1>3, <1>4, <1>5, <2>2
<1>6. CASE f.pc # "create"
  <2>1. Assigning' \subseteq Assigning
    BY <1>6 DEF Assigning
  <2>2. FitsIn(Open', Assigning', Cardinality(Admins))
    BY <1>4, <2>1, Shrink
  <2> QED
    BY <1>1, <1>2, <1>3, <2>2
<1> QED
  BY <1>5, <1>6

\* The steps that end an assignment.
LEMMA EndingKeeps ==
    ASSUME AssignmentsInv, NEW c \in Admins, Ending(c)
    PROVE  /\ AssignmentsInv' /\ \A r \in Rows : RowMoved(r)
           /\ \E row \in Rows :
                 /\ \A r \in Rows \ {row} : assignment'[r] = assignment[r]
                 /\ changing'[c].pc = "end_sessions" /\ changing'[c].row = row
                 /\ changing[c].pc # "end_sessions"
                 /\ \A d \in Admins \ {c} : changing'[d] = changing[d]
<1> USE DEF AssignmentsInv, AssignmentsTypeOK
<1>1. \A r \in Rows : assignment[r].status # "absent" =>
        /\ assignment[r] = [status |-> assignment[r].status,
                            starts |-> assignment[r].starts, ends |-> assignment[r].ends]
        /\ assignment[r].starts \in 0 .. MaxTime /\ assignment[r].ends \in 0 .. Never
  BY DEF AssignmentRows, Absent
<1>2. PICK row \in Rows, due \in SUBSET Rows, u \in AssignmentRows :
        /\ row \in Touched(c) /\ due \subseteq Touched(c)
        /\ u \in AssignmentRows /\ u.status \in {"expired", "revoked"}
        /\ assignment' = [assignment EXCEPT ![row] = u]
        /\ changing' = [changing EXCEPT ![c] =
                           [pc |-> "end_sessions", row |-> row, due |-> due]]
  <2>1. CASE MarkRevoked(c)
    <3>1. /\ changing[c] = [pc |-> "mark_revoked", row |-> changing[c].row, due |-> changing[c].due]
          /\ changing[c].row \in Rows /\ changing[c].due \in SUBSET Rows
      BY <2>1 DEF MarkRevoked, ChangeRecords, NotChanging
    <3> DEFINE row == changing[c].row
               u == [assignment[row] EXCEPT !.status = "revoked", !.ends = now]
    <3>2. row \in Touched(c) /\ changing[c].due \subseteq Touched(c)
      BY <3>1 DEF Touched
    <3>3. assignment[row].status # "absent"
      BY <3>2 DEF Status
    <3>4. assignment' = [assignment EXCEPT ![row].status = "revoked", ![row].ends = now]
      BY <2>1 DEF MarkRevoked
    <3>5. assignment' = [assignment EXCEPT ![row] = u]
      BY <3>1, <3>4
    <3>6. now \in 0 .. Never
      BY AssignmentsAssumption DEF Never
    <3>7. u \in AssignmentRows
      <4>1. assignment[row] \in [status : {"scheduled", "active", "expired", "revoked"},
                                 starts : 0 .. MaxTime, ends : 0 .. Never]
        BY <3>1, <3>3 DEF AssignmentRows, Absent
      <4>2. u \in [status : {"scheduled", "active", "expired", "revoked"},
                   starts : 0 .. MaxTime, ends : 0 .. Never]
        BY <3>6, <4>1
      <4> QED
        BY <4>2 DEF AssignmentRows
    <3>8. changing' = [changing EXCEPT ![c] =
                         [pc |-> "end_sessions", row |-> row, due |-> changing[c].due]]
      <4>1. [changing[c] EXCEPT !.pc = "end_sessions"] =
                [pc |-> "end_sessions", row |-> row, due |-> changing[c].due]
        BY <3>1
      <4> QED
        BY <2>1, <4>1 DEF MarkRevoked
    <3>9. u.status = "revoked"
      <4>1. assignment[row] \in [status : {"scheduled", "active", "expired", "revoked"},
                                 starts : 0 .. MaxTime, ends : 0 .. Never]
        BY <3>1, <3>3 DEF AssignmentRows, Absent
      <4> QED
        BY <4>1
    <3> HIDE DEF u, row
    <3> QED
      BY <3>1, <3>2, <3>5, <3>7, <3>8, <3>9 DEF row
  <2>2. CASE ExpireNext(c)
    <3>1. changing[c].pc = "expire" /\ changing[c].due \in SUBSET Rows
      BY <2>2 DEF ExpireNext, ChangeRecords, NotChanging
    <3>2. PICK row \in changing[c].due :
             /\ assignment' = [assignment EXCEPT ![row].status = "expired"]
             /\ changing' = [changing EXCEPT ![c] =
                   [pc |-> "end_sessions", row |-> row, due |-> changing[c].due \ {row}]]
      BY <2>2 DEF ExpireNext, Change
    <3>3. row \in Touched(c) /\ changing[c].due \subseteq Touched(c) /\ row \in Rows
      BY <3>1 DEF Touched
    <3>4. assignment[row].status # "absent"
      BY <3>3 DEF Status
    <3> DEFINE u == [status |-> "expired", starts |-> assignment[row].starts,
                     ends |-> assignment[row].ends]
    <3>5. assignment' = [assignment EXCEPT ![row] = u]
      <4>1. [assignment[row] EXCEPT !.status = "expired"] = u
        BY <1>1, <3>3, <3>4
      <4> QED
        BY <3>2, <4>1
    <3>6. u \in AssignmentRows
      BY <1>1, <3>3, <3>4 DEF AssignmentRows
    <3>7. changing[c].due \ {row} \in SUBSET Rows
      BY <3>1
    <3> QED
      BY <3>2, <3>3, <3>5, <3>6, <3>7
  <2> QED
    BY <2>1, <2>2 DEF Ending
<1>3. now' = now
  BY DEF Ending, MarkRevoked, ExpireNext
<1>4. changing[c].pc # "end_sessions"
  BY DEF Ending, MarkRevoked, ExpireNext
<1>5. \A r \in Rows : RowMoved(r)
  BY <1>2 DEF RowMoved, Ended, Status
<1>6. AssignmentsTypeOK'
  <2>1. [pc |-> "end_sessions", row |-> row, due |-> due] \in ChangeRecords
    BY DEF ChangeRecords
  <2> QED
    BY <1>2, <1>3, <2>1
<1>7. \A d \in Admins : \A r \in Touched(d)' : Status(r)' # "absent"
  <2>1. \A d \in Admins : Touched(d)' \subseteq Touched(d)
    BY <1>2 DEF Touched
  <2>2. \A d \in Admins : Touched(d) \subseteq Rows
    BY DEF Touched, ChangeRecords, NotChanging
  <2> QED
    BY <1>5, <2>1, <2>2 DEF RowMoved, Status
<1>8. Open' \subseteq Open /\ Assigning' \subseteq Assigning
  BY <1>2 DEF Open, Assigning, Status
<1>9. FitsIn(Open', Assigning', Cardinality(Admins))
  BY <1>8, Shrink
<1> QED
  BY <1>2, <1>4, <1>5, <1>6, <1>7, <1>9

\* The create goes with the check that let it.
LEMMA CreateKeeps ==
    ASSUME AssignmentsInv, NEW c \in Admins, CreateAssignment(c)
    PROVE  AssignmentsInv' /\ \A r \in Rows : RowMoved(r)
<1> USE DEF AssignmentsInv, AssignmentsTypeOK
<1>1. changing[c].pc = "create" /\ changing[c].window \in Windows /\ c \in Assigning
  BY DEF CreateAssignment, ChangeRecords, NotChanging, Assigning
<1> DEFINE w == changing[c].window
           status == IF w.starts > now THEN "scheduled" ELSE "active"
           u == [status |-> status, starts |-> w.starts, ends |-> w.ends]
<1>2. PICK row \in Rows : /\ assignment[row].status = "absent"
                          /\ assignment' = [assignment EXCEPT ![row] = u]
  BY DEF CreateAssignment, Status
<1>3. changing' = [changing EXCEPT ![c] = NotChanging] /\ now' = now
  BY DEF CreateAssignment, Change
<1>4. status \in {"scheduled", "active"}
  OBVIOUS
<1> HIDE DEF status
<1>5. u \in AssignmentRows
  BY <1>1, <1>4 DEF AssignmentRows, Windows
<1>6. u.status \in {"scheduled", "active"}
  BY <1>4
<1> HIDE DEF u
<1>7. AssignmentsTypeOK'
  BY <1>2, <1>3, <1>5 DEF ChangeRecords
<1>8. \A r \in Rows : RowMoved(r)
  BY <1>2, <1>6 DEF RowMoved, Ended, Status
<1>9. \A d \in Admins : \A r \in Touched(d)' : Status(r)' # "absent"
  <2>1. \A d \in Admins : Touched(d)' \subseteq Touched(d)
    BY <1>3 DEF Touched, NotChanging
  <2>2. \A d \in Admins : Touched(d) \subseteq Rows
    BY DEF Touched, ChangeRecords, NotChanging
  <2> QED
    BY <1>8, <2>1, <2>2 DEF RowMoved, Status
<1>10. Open' = Open \union {row}
  BY <1>2, <1>6 DEF Open, Status
<1>11. Assigning' = Assigning \ {c}
  BY <1>1, <1>3 DEF Assigning, NotChanging
<1>12. FitsIn(Open', Assigning', Cardinality(Admins))
  BY <1>1, <1>10, <1>11, Move
<1> QED
  BY <1>7, <1>8, <1>9, <1>12

\* The promotion opens what was open already.
LEMMA PromotionKeeps ==
    ASSUME AssignmentsInv, NEW c \in Admins, PromoteScheduled(c)
    PROVE  AssignmentsInv' /\ \A r \in Rows : RowMoved(r)
<1> USE DEF AssignmentsInv, AssignmentsTypeOK
<1>1. /\ changing' = [changing EXCEPT ![c] = [pc |-> "list_due"]] /\ now' = now
      /\ \A r \in Rows : assignment'[r] =
            IF Status(r) = "scheduled" /\ assignment[r].starts <= now
            THEN [assignment[r] EXCEPT !.status = "active"] ELSE assignment[r]
      /\ DOMAIN assignment' = Rows /\ assignment' = [r \in Rows |-> assignment'[r]]
  BY DEF PromoteScheduled, Change
<1>2. \A r \in Rows : assignment[r].status = "scheduled" =>
         LET u == [assignment[r] EXCEPT !.status = "active"]
         IN  u \in AssignmentRows /\ u.status = "active"
  BY DEF AssignmentRows, Absent
<1>3. \A r \in Rows : /\ assignment'[r] \in AssignmentRows
                      /\ \/ assignment'[r] = assignment[r]
                         \/ Status(r) = "scheduled" /\ assignment'[r].status = "active"
  BY <1>1, <1>2 DEF Status
<1>4. AssignmentsTypeOK'
  <2>1. [pc |-> "list_due"] \in ChangeRecords
    BY DEF ChangeRecords
  <2> QED
    BY <1>1, <1>3, <2>1
<1>5. \A r \in Rows : RowMoved(r)
  BY <1>3 DEF RowMoved, Ended, Status
<1>6. \A d \in Admins : \A r \in Touched(d)' : Status(r)' # "absent"
  <2>1. \A d \in Admins : Touched(d)' \subseteq Touched(d)
    BY <1>1 DEF Touched
  <2>2. \A d \in Admins : Touched(d) \subseteq Rows
    BY DEF Touched, ChangeRecords, NotChanging
  <2> QED
    BY <1>5, <2>1, <2>2 DEF RowMoved, Status
<1>7. Open' \subseteq Open /\ Assigning' \subseteq Assigning
  BY <1>1, <1>3 DEF Open, Assigning, Status
<1>8. FitsIn(Open', Assigning', Cardinality(Admins))
  BY <1>7, Shrink
<1> QED
  BY <1>4, <1>5, <1>6, <1>8

\* What a request looks like on its way, for the steps that only move it on.
LEMMA ChangeShape ==
    ASSUME AssignmentsTypeOK, NEW c \in Admins
    PROVE  /\ changing[c].pc = "find_overlap" =>
                 changing[c] = [pc |-> "find_overlap", window |-> changing[c].window]
                 /\ changing[c].window \in Windows
           /\ changing[c].pc \in {"mark_revoked", "end_sessions", "cancel_intents"} =>
                 /\ changing[c] = [pc |-> changing[c].pc, row |-> changing[c].row,
                                   due |-> changing[c].due]
                 /\ changing[c].row \in Rows /\ changing[c].due \in SUBSET Rows
           /\ changing[c].pc = "expire" => changing[c].due \in SUBSET Rows
BY DEF AssignmentsTypeOK, ChangeRecords, NotChanging

LEMMA FramesTyped ==
    /\ NotChanging \in ChangeRecords
    /\ \A w \in Windows : [pc |-> "find_overlap", window |-> w] \in ChangeRecords
    /\ \A w \in Windows : [pc |-> "create", window |-> w] \in ChangeRecords
    /\ \A p \in {"mark_revoked", "end_sessions", "cancel_intents"}, r \in Rows,
         due \in SUBSET Rows : [pc |-> p, row |-> r, due |-> due] \in ChangeRecords
    /\ \A due \in SUBSET Rows : [pc |-> "expire", due |-> due] \in ChangeRecords
BY DEF ChangeRecords
\* The steps that touch no row: the checks and lists, and the end of a call.
LEMMA MoveOnKeeps ==
    ASSUME AssignmentsInv, NEW c \in Admins,
           \/ \E window \in Windows : BeginAssign(c, window)
           \/ FindOverlap(c) \/ \E r \in Rows : BeginRevoke(c, r)
           \/ ListDue(c) \/ IntentsCancelled(c) \/ SessionsEnded(c) \/ ChangeFails(c)
    PROVE  AssignmentsInv' /\ \A r \in Rows : RowMoved(r)
<1>1. AssignmentsTypeOK /\ \A r \in Touched(c) : Status(r) # "absent"
  BY DEF AssignmentsInv
<1>2. CASE \E window \in Windows : BeginAssign(c, window)
  <2>1. PICK w \in Windows : BeginAssign(c, w)
    BY <1>2
  <2> DEFINE f == [pc |-> "find_overlap", window |-> w]
  <2>2. f \in ChangeRecords /\ f.pc = "find_overlap"
    BY FramesTyped
  <2>3. now' = now /\ assignment' = assignment /\ changing' = [changing EXCEPT ![c] = f]
    BY <2>1 DEF BeginAssign, Change
  <2> HIDE DEF f
  <2> QED
    BY <2>2, <2>3, FrameKeeps
<1>3. CASE FindOverlap(c) /\ Open # {}
  <2>1. NotChanging \in ChangeRecords /\ NotChanging.pc = "idle"
    BY FramesTyped DEF NotChanging
  <2>2. now' = now /\ assignment' = assignment /\ changing' = [changing EXCEPT ![c] = NotChanging]
    BY <1>3 DEF FindOverlap, Change
  <2> QED
    BY <2>1, <2>2, FrameKeeps
<1>4. CASE FindOverlap(c) /\ Open = {}
  <2> DEFINE w == changing[c].window
             f == [pc |-> "create", window |-> w]
  <2>1. changing[c] = [pc |-> "find_overlap", window |-> w] /\ w \in Windows
    BY <1>1, <1>4, ChangeShape DEF FindOverlap
  <2>2. [changing[c] EXCEPT !.pc = "create"] = f
    BY <2>1
  <2>3. now' = now /\ assignment' = assignment /\ changing' = [changing EXCEPT ![c] = f]
    BY <1>4, <2>2 DEF FindOverlap
  <2>4. f \in ChangeRecords /\ f.pc = "create"
    BY <2>1, FramesTyped
  <2> HIDE DEF f
  <2> QED
    BY <1>4, <2>3, <2>4, FrameKeeps
<1>5. CASE \E r \in Rows : BeginRevoke(c, r)
  <2>1. PICK r \in Rows : BeginRevoke(c, r)
    BY <1>5
  <2> DEFINE f == [pc |-> "mark_revoked", row |-> r, due |-> {}]
  <2>2. f \in ChangeRecords /\ f.pc = "mark_revoked" /\ f.row = r /\ f.due = {}
    BY FramesTyped
  <2>3. now' = now /\ assignment' = assignment /\ changing' = [changing EXCEPT ![c] = f]
    BY <2>1 DEF BeginRevoke, Change
  <2>4. Status(r) # "absent"
    BY <2>1 DEF BeginRevoke, Open
  <2> HIDE DEF f
  <2> QED
    BY <2>2, <2>3, <2>4, FrameKeeps
<1>6. CASE ListDue(c)
  <2> DEFINE due == {r \in Rows : Status(r) = "active" /\ assignment[r].ends <= now}
             f == [pc |-> "expire", due |-> due]
  <2>1. /\ f \in ChangeRecords /\ f.pc = "expire" /\ f.due = due
        /\ NotChanging \in ChangeRecords /\ NotChanging.pc = "idle"
    BY FramesTyped DEF NotChanging
  <2>2. /\ now' = now /\ assignment' = assignment
        /\ \/ changing' = [changing EXCEPT ![c] = f]
           \/ changing' = [changing EXCEPT ![c] = NotChanging]
    BY <1>6 DEF ListDue, Change
  <2>3. \A r \in due : Status(r) # "absent"
    OBVIOUS
  <2> HIDE DEF f, due
  <2> QED
    BY <2>1, <2>2, <2>3, FrameKeeps
<1>7. CASE IntentsCancelled(c)
  <2> DEFINE f == [pc |-> "expire", due |-> changing[c].due]
  <2>1. /\ changing[c].pc = "cancel_intents" /\ changing[c].due \in SUBSET Rows
    BY <1>1, <1>7, ChangeShape DEF IntentsCancelled
  <2>2. /\ f \in ChangeRecords /\ f.pc = "expire" /\ f.due = changing[c].due
        /\ NotChanging \in ChangeRecords /\ NotChanging.pc = "idle"
    BY <2>1, FramesTyped DEF NotChanging
  <2>3. /\ now' = now /\ assignment' = assignment
        /\ \/ changing' = [changing EXCEPT ![c] = f]
           \/ changing' = [changing EXCEPT ![c] = NotChanging]
    BY <1>7 DEF IntentsCancelled, Change
  <2>4. \A r \in changing[c].due : Status(r) # "absent"
    BY <1>1, <2>1 DEF Touched
  <2> HIDE DEF f
  <2> QED
    BY <2>2, <2>3, <2>4, FrameKeeps
<1>8. CASE SessionsEnded(c)
  <2> DEFINE r == changing[c].row
             due == changing[c].due
             f == [pc |-> "cancel_intents", row |-> r, due |-> due]
  <2>1. /\ changing[c] = [pc |-> "end_sessions", row |-> r, due |-> due]
        /\ r \in Rows /\ due \in SUBSET Rows
    BY <1>1, <1>8, ChangeShape DEF SessionsEnded
  <2>2. [changing[c] EXCEPT !.pc = "cancel_intents"] = f
    BY <2>1
  <2>3. now' = now /\ assignment' = assignment /\ changing' = [changing EXCEPT ![c] = f]
    BY <1>8, <2>2 DEF SessionsEnded
  <2>4. f \in ChangeRecords /\ f.pc = "cancel_intents" /\ f.row = r /\ f.due = due
    BY <2>1, FramesTyped
  <2>5. \A s \in {r} \union due : Status(s) # "absent"
    BY <1>1, <1>8 DEF Touched, SessionsEnded
  <2> HIDE DEF f
  <2> QED
    BY <2>3, <2>4, <2>5, FrameKeeps
<1>9. CASE ChangeFails(c)
  <2>1. NotChanging \in ChangeRecords /\ NotChanging.pc = "idle"
    BY FramesTyped DEF NotChanging
  <2>2. now' = now /\ assignment' = assignment /\ changing' = [changing EXCEPT ![c] = NotChanging]
    BY <1>9 DEF ChangeFails, Change
  <2> QED
    BY <2>1, <2>2, FrameKeeps
<1> QED
  BY <1>2, <1>3, <1>4, <1>5, <1>6, <1>7, <1>8, <1>9 DEF FindOverlap

LEMMA AssignmentsKept ==
    ASSUME AssignmentsInv, [AssignmentsNext]_roleVars
    PROVE  AssignmentsInv' /\ \A r \in Rows : RowMoved(r)
<1>1. CASE Tick \/ UNCHANGED roleVars
  <2>1. assignment' = assignment /\ changing' = changing /\ now' \in 0 .. MaxTime
    BY <1>1, AssignmentsAssumption DEF Tick, roleVars, AssignmentsInv, AssignmentsTypeOK
  <2> QED
    BY <2>1 DEF AssignmentsInv, AssignmentsTypeOK, Touched, Status, Open, Assigning, RowMoved, Ended
<1>2. ASSUME NEW c \in Admins, Ending(c) \/ OtherChange(c) \/ SessionsEnded(c) \/ ChangeFails(c)
      PROVE  AssignmentsInv' /\ \A r \in Rows : RowMoved(r)
  BY <1>2, EndingKeeps, CreateKeeps, PromotionKeeps, MoveOnKeeps DEF OtherChange
<1> QED
  BY <1>1, <1>2 DEF AssignmentsNext

LEMMA AssignmentsStart == AssignmentsInit => AssignmentsInv
<1> SUFFICES ASSUME AssignmentsInit
             PROVE  AssignmentsInv
  OBVIOUS
<1>1. AssignmentsTypeOK
  BY AssignmentsAssumption DEF AssignmentsInit, AssignmentsTypeOK, AssignmentRows, ChangeRecords
<1>2. Open = {} /\ Assigning = {} /\ \A c \in Admins : Touched(c) = {}
  BY DEF AssignmentsInit, Open, Assigning, Touched, Status, Absent, NotChanging
<1>3. FitsIn({}, {}, Cardinality(Admins))
  BY Part, AssignmentsAssumption
<1> QED
  BY <1>1, <1>2, <1>3 DEF AssignmentsInv

LEMMA AssignmentsAlways == AssignmentsSpec => []AssignmentsInv
<1>1. AssignmentsInv /\ [AssignmentsNext]_roleVars => AssignmentsInv'
  BY AssignmentsKept
<1> QED
  BY <1>1, AssignmentsStart, PTL DEF AssignmentsSpec

(***************************************************************************)
(* assign looks for an overlapping assignment and creates in two calls: no *)
(* more assignments of a role are open at once than requests may be.       *)
(***************************************************************************)
THEOREM FewOverlap == AssignmentsSpec => []OverlapBounded
<1>1. AssignmentsInv => OverlapBounded
  BY DEF AssignmentsInv, FitsIn, OverlapBounded
<1> QED
  BY <1>1, AssignmentsAlways, PTL

(***************************************************************************)
(* Whatever the sweep's list says, an ended assignment stays ended.        *)
(***************************************************************************)
THEOREM EndsForGood == AssignmentsSpec => EndedStaysEnded
<1>1. AssignmentsInv /\ [AssignmentsNext]_roleVars =>
        [\A r \in Ended : assignment'[r].status \in {"expired", "revoked"}]_assignment
  BY AssignmentsKept DEF RowMoved, Ended
<1> QED
  BY <1>1, AssignmentsAlways, PTL DEF AssignmentsSpec, EndedStaysEnded
-----------------------------------------------------------------------------
(***************************************************************************)
(* Both.  A session held when an assignment ended is gone, or the call     *)
(* that ended the assignment has still to end it.                          *)
(***************************************************************************)
HeldInv ==
    /\ held \in [Rows -> SUBSET Tokens]
    /\ \A r \in Rows : \A t \in held[r] : session[t] # "unissued"
    /\ SessionsEndWithAccess

AccessInv == SessionsInv /\ EscapeInv /\ AssignmentsInv /\ HeldInv

\* Every step of both is a step of each.
LEMMA AccessSteps ==
    [AccessNext]_accessVars =>
        [UserNext \/ RevokeByUser]_sessionVars /\ [AssignmentsNext]_roleVars
BY DEF AccessNext, accessVars, AssignmentsNext, EndAssignment, EndSessions, FailChange

\* The sessions an ended assignment left do not come back.
LEMMA HeldOn ==
    ASSUME HeldInv, Moved, NEW r \in Rows, held'[r] = held[r], SessionsTypeOK'
    PROVE  /\ \A t \in held'[r] : session'[t] # "unissued"
           /\ held'[r] \intersect Stored' \subseteq held[r] \intersect Stored
BY DEF HeldInv, Moved

LEMMA HeldKept ==
    ASSUME AccessInv, [AccessNext]_accessVars
    PROVE  HeldInv'
<1> USE DEF AccessInv
<1>1. /\ [UserNext \/ RevokeByUser]_sessionVars /\ [AssignmentsNext]_roleVars
      /\ Kept /\ \A r \in Rows : RowMoved(r)
  BY AccessSteps, SessionsKept, AssignmentsKept
<1>2. Moved /\ SessionsTypeOK /\ SessionsTypeOK' /\ AssignmentsTypeOK
  BY <1>1 DEF Kept, SessionsInv, AssignmentsInv
<1>3. \A r \in Rows : held'[r] = held[r] =>
         /\ \A t \in held'[r] : session'[t] # "unissued"
         /\ held'[r] \intersect Stored' \subseteq held[r] \intersect Stored
  BY <1>2, HeldOn
<1>4. CASE held' = held /\ \A r \in Rows : /\ r \in Ended' => r \in Ended
                                           /\ r \in Ended' /\ EndingSessionsOf(r)
                                                => EndingSessionsOf(r)'
  <2>1. \A r \in Ended' : ~EndingSessionsOf(r)' => held'[r] \intersect Stored' = {}
    BY <1>3, <1>4 DEF HeldInv, SessionsEndWithAccess, Ended
  <2> QED
    BY <1>3, <1>4, <2>1 DEF HeldInv, SessionsEndWithAccess
<1>5. CASE (UserNext /\ UNCHANGED <<roleVars, held>>) \/ UNCHANGED accessVars
            \/ (Tick /\ UNCHANGED <<sessionVars, held>>)
  <2>1. assignment' = assignment /\ changing' = changing /\ held' = held
    BY <1>5 DEF roleVars, accessVars, Tick
  <2>2. \A r : EndingSessionsOf(r)' = EndingSessionsOf(r)
    BY <2>1 DEF EndingSessionsOf
  <2>3. Ended' = Ended
    BY <2>1 DEF Ended, Status
  <2> QED
    BY <1>4, <2>1, <2>2, <2>3
<1>6. ASSUME NEW c \in Admins, OtherChange(c), UNCHANGED held
      PROVE  HeldInv'
  <2>1. /\ changing[c].pc # "end_sessions"
        /\ \A d \in Admins \ {c} : changing'[d] = changing[d]
    BY <1>2, <1>6 DEF OtherChange, BeginAssign, FindOverlap, CreateAssignment, BeginRevoke,
         PromoteScheduled, ListDue, IntentsCancelled, Change, NotChanging, AssignmentsTypeOK
  <2>2. \A r : EndingSessionsOf(r) => EndingSessionsOf(r)'
    BY <2>1 DEF EndingSessionsOf
  <2>3. Ended' \subseteq Ended
    <3>1. CASE assignment' = assignment
      BY <3>1 DEF Ended, Status
    <3>2. CASE CreateAssignment(c)
      <4> DEFINE window == changing[c].window
                 status == IF window.starts > now THEN "scheduled" ELSE "active"
                 made == [status |-> status, starts |-> window.starts, ends |-> window.ends]
      <4>1. PICK row \in Rows : assignment' = [assignment EXCEPT ![row] = made]
        BY <3>2 DEF CreateAssignment
      <4>2. made.status \in {"scheduled", "active"}
        OBVIOUS
      <4> HIDE DEF made
      <4> QED
        BY <1>2, <4>1, <4>2 DEF Ended, Status, AssignmentsTypeOK
    <3>3. CASE PromoteScheduled(c)
      <4>1. \A r \in Rows : \/ assignment'[r] = assignment[r]
                            \/ /\ Status(r) = "scheduled"
                               /\ assignment'[r] = [assignment[r] EXCEPT !.status = "active"]
        BY <3>3 DEF PromoteScheduled
      <4>2. \A r \in Rows : Status(r) = "scheduled" =>
               [assignment[r] EXCEPT !.status = "active"].status = "active"
        BY <1>2 DEF Status, AssignmentsTypeOK, AssignmentRows, Absent
      <4> QED
        BY <4>1, <4>2 DEF Ended, Status
    <3> QED
      BY <1>6, <3>1, <3>2, <3>3 DEF OtherChange, BeginAssign, FindOverlap, BeginRevoke,
           ListDue, IntentsCancelled
  <2> QED
    BY <1>4, <1>6, <2>2, <2>3
<1>7. ASSUME NEW c \in Admins, EndAssignment(c)
      PROVE  HeldInv'
  <2>1. PICK row \in Rows :
          /\ \A r \in Rows \ {row} : assignment'[r] = assignment[r]
          /\ changing'[c].pc = "end_sessions" /\ changing'[c].row = row
          /\ changing[c].pc # "end_sessions"
          /\ \A d \in Admins \ {c} : changing'[d] = changing[d]
    BY <1>7, EndingKeeps DEF EndAssignment
  <2>2. /\ held' = [r \in Rows |-> IF assignment'[r] # assignment[r] THEN Stored ELSE held[r]]
        /\ session' = session
    BY <1>7 DEF EndAssignment, sessionVars
  <2>3. Stored \in SUBSET Tokens /\ \A t \in Stored : session[t] # "unissued"
    BY DEF Stored
  <2>4. held' \in [Rows -> SUBSET Tokens]
    BY <2>2, <2>3 DEF HeldInv
  <2>5. \A r \in Rows : \A t \in held'[r] : session'[t] # "unissued"
    BY <2>2, <2>3 DEF HeldInv
  <2>6. EndingSessionsOf(row)'
    BY <2>1 DEF EndingSessionsOf
  <2>7. \A r \in Rows \ {row} : /\ held'[r] = held[r] /\ (r \in Ended' => r \in Ended)
                                /\ EndingSessionsOf(r) => EndingSessionsOf(r)'
    BY <2>1, <2>2 DEF Ended, Status, EndingSessionsOf
  <2>8. \A r \in Ended' : ~EndingSessionsOf(r)' => held'[r] \intersect Stored' = {}
    BY <1>3, <2>6, <2>7 DEF HeldInv, SessionsEndWithAccess, Ended
  <2> QED
    BY <2>4, <2>5, <2>8 DEF HeldInv, SessionsEndWithAccess
<1>8. ASSUME NEW c \in Admins, EndSessions(c)
      PROVE  HeldInv'
  <2>1. Stored' = {} /\ held' = held
    BY <1>2, <1>8, Revocation DEF EndSessions
  <2> QED
    BY <1>3, <2>1 DEF HeldInv, SessionsEndWithAccess
<1>9. ASSUME NEW c \in Admins, FailChange(c)
      PROVE  HeldInv'
  <2>1. /\ held' = [r \in Rows |->
            IF changing[c].pc = "end_sessions" /\ changing[c].row = r THEN {} ELSE held[r]]
        /\ assignment' = assignment
        /\ \A d \in Admins \ {c} : changing'[d] = changing[d]
    BY <1>2, <1>9 DEF FailChange, ChangeFails, Change, AssignmentsTypeOK
  <2>2. Ended' = Ended
    BY <2>1 DEF Ended, Status
  <2>3. \A r \in Rows : \/ held'[r] = {}
                        \/ /\ held'[r] = held[r]
                           /\ EndingSessionsOf(r) => EndingSessionsOf(r)'
    <3>1. ASSUME NEW r \in Rows, ~(changing[c].pc = "end_sessions" /\ changing[c].row = r)
          PROVE  held'[r] = held[r] /\ (EndingSessionsOf(r) => EndingSessionsOf(r)')
      BY <2>1, <3>1 DEF EndingSessionsOf
    <3> QED
      BY <2>1, <3>1
  <2>4. held' \in [Rows -> SUBSET Tokens]
    BY <2>1 DEF HeldInv
  <2>5. \A r \in Rows : \A t \in held'[r] : session'[t] # "unissued"
    BY <1>3, <2>3
  <2>6. \A r \in Ended' : ~EndingSessionsOf(r)' => held'[r] \intersect Stored' = {}
    BY <1>3, <2>2, <2>3 DEF HeldInv, SessionsEndWithAccess, Ended
  <2> QED
    BY <2>4, <2>5, <2>6 DEF HeldInv, SessionsEndWithAccess
<1> QED
  BY <1>5, <1>6, <1>7, <1>8, <1>9 DEF AccessNext

LEMMA AccessAlways == AccessSpec => []AccessInv
<1>1. AccessInit => AccessInv
  <2> SUFFICES ASSUME AccessInit
               PROVE  AccessInv
    OBVIOUS
  <2>1. SessionsInv /\ EscapeInv /\ AssignmentsInv
    BY SessionsStart, AssignmentsStart DEF AccessInit
  <2>2. HeldInv
    <3>1. held = [r \in Rows |-> {}]
      BY DEF AccessInit
    <3> QED
      BY <3>1 DEF HeldInv, SessionsEndWithAccess, Ended
  <2> QED
    BY <2>1, <2>2 DEF AccessInv
<1>2. AccessInv /\ [AccessNext]_accessVars => AccessInv'
  <2> SUFFICES ASSUME AccessInv, [AccessNext]_accessVars
               PROVE  AccessInv'
    OBVIOUS
  <2>1. SessionsInv' /\ EscapeInv'
    BY AccessSteps, SessionsKept DEF AccessInv, Kept
  <2>2. AssignmentsInv'
    BY AccessSteps, AssignmentsKept DEF AccessInv
  <2>3. HeldInv'
    BY HeldKept
  <2> QED
    BY <2>1, <2>2, <2>3 DEF AccessInv
<1> QED
  BY <1>1, <1>2, PTL DEF AccessSpec

(***************************************************************************)
(* Sessions do not outlive the assignment: once the call that ended it has *)
(* moved on, none of those there were is left, whatever refreshes.         *)
(***************************************************************************)
THEOREM AccessEnds == AccessSpec => []SessionsEndWithAccess
<1>1. AccessInv => SessionsEndWithAccess
  BY DEF AccessInv, HeldInv
<1> QED
  BY <1>1, AccessAlways, PTL
=============================================================================

------------------------- MODULE IdempotentRequests -------------------------
(***************************************************************************)
(* Requests with one idempotency key.  The middleware answers from Redis   *)
(* what an earlier request was answered, and otherwise lets the request    *)
(* through and stores its answer as it is sent, without waiting.           *)
(***************************************************************************)
EXTENDS Naturals, FiniteSets

CONSTANTS
    Clients,    \* requests with the key that may be in flight at once
    MaxLost     \* bound: answers that are not stored, or run out

ASSUME IdempotencyAssumption == IsFiniteSet(Clients) /\ MaxLost \in Nat

VARIABLES
    cached,     \* an answer is stored under the key
    attempt,    \* the requests
    effects,    \* how often the handler did its work
    lost,       \* history: requests answered or dead without a stored answer
    lapsed      \* history: stored answers that ran out

idempotencyVars == <<cached, attempt, effects, lost, lapsed>>
-----------------------------------------------------------------------------
IdempotencyTypeOK ==
    /\ cached \in BOOLEAN
    /\ attempt \in [Clients -> {"idle", "handle", "answer", "store"}]
    /\ effects \in Nat
    /\ lost \in 0 .. MaxLost
    /\ lapsed \in 0 .. MaxLost

Continue(c, step) == attempt' = [attempt EXCEPT ![c] = step]

Inside == {c \in Clients : attempt[c] = "handle"}
-----------------------------------------------------------------------------
\* Mutation: the cache is not looked up.
Arrive_Always(c) ==
    /\ attempt[c] = "idle"
    /\ Continue(c, "handle")
    /\ UNCHANGED <<cached, effects, lost, lapsed>>

\* Requests that hit are answered at once and change nothing.
Arrive(c) ==
    /\ attempt[c] = "idle"
    /\ ~cached
    /\ Continue(c, "handle")
    /\ UNCHANGED <<cached, effects, lost, lapsed>>

\* The handler may also refuse the request: that answer is stored as well.
Handle(c) ==
    /\ attempt[c] = "handle"
    /\ effects' \in {effects, effects + 1}
    /\ Continue(c, "answer")
    /\ UNCHANGED <<cached, lost, lapsed>>

\* res.json sends setex and the answer without waiting for either.
Answer(c) ==
    /\ attempt[c] = "answer"
    /\ Continue(c, "store")
    /\ UNCHANGED <<cached, effects, lost, lapsed>>

SetEx(c) ==
    /\ attempt[c] = "store"
    /\ cached' = TRUE
    /\ Continue(c, "idle")
    /\ UNCHANGED <<effects, lost, lapsed>>

\* The process dies, or setex is lost.
NotStored(c) ==
    /\ attempt[c] # "idle"
    /\ lost < MaxLost
    /\ lost' = lost + 1
    /\ Continue(c, "idle")
    /\ UNCHANGED <<cached, effects, lapsed>>

\* TTL_SECONDS pass.
Lapse ==
    /\ cached
    /\ lapsed < MaxLost
    /\ cached' = FALSE
    /\ lapsed' = lapsed + 1
    /\ UNCHANGED <<attempt, effects, lost>>
-----------------------------------------------------------------------------
IdempotencyInit ==
    /\ cached = FALSE
    /\ attempt = [c \in Clients |-> "idle"]
    /\ effects = 0
    /\ lost = 0
    /\ lapsed = 0

IdempotencyNext ==
    \/ \E c \in Clients :
          Arrive(c) \/ Handle(c) \/ Answer(c) \/ SetEx(c) \/ NotStored(c)
    \/ Lapse

IdempotencySpec == IdempotencyInit /\ [][IdempotencyNext]_idempotencyVars
-----------------------------------------------------------------------------
(* Properties *)

\* A key does its work once, and once more for each other request that overlaps
\* the first, each answer that was not stored, and as often again for each that
\* ran out.
RepeatsBounded ==
    effects + Cardinality(Inside) <= Cardinality(Clients) * (1 + lapsed) + lost
=============================================================================

----------------------------- MODULE RateLimits -----------------------------
(***************************************************************************)
(* The rate limits.  The authentication routes count the requests of an    *)
(* address in Redis, where the increment and the expiry of the key are two *)
(* calls.  API keys are counted in a window in the memory of the process,  *)
(* as GlobalRateLimitGuard counts addresses.  One address and one key; the *)
(* clock moves in ticks.                                                   *)
(***************************************************************************)
EXTENDS Integers, FiniteSetsExt

CONSTANTS
    Attempts,       \* authentication requests that may be in flight at once
    WINDOW,         \* length of a window, in ticks
    RATE_LIMIT,     \* requests of an API key in a window
    MaxCounted      \* bound: what is counted on one key

ASSUME RateAssumption ==
    /\ WINDOW \in Nat \ {0}
    /\ RATE_LIMIT \in Nat \ {0}
    /\ MaxCounted \in Nat

VARIABLES
    redisReady, \* whether the client is connected
    addressKey, \* the address's key in Redis; count 0 without a key, ttl 0 without a ttl
    attempt,    \* authentication requests: "expire" when the ttl is theirs to set
    orphaned,   \* history: whether such a request ended before it did
    usage,      \* the API key's entry: its count, and the ticks since it began
    served      \* history: its requests let through, by how many ticks ago

rateVars == <<redisReady, addressKey, attempt, orphaned, usage, served>>
-----------------------------------------------------------------------------
NoCounter == [count |-> 0, ttl |-> 0]

RateTypeOK ==
    /\ redisReady \in BOOLEAN
    /\ addressKey \in [count : Nat, ttl : 0 .. WINDOW]
    /\ attempt \in [Attempts -> {"idle", "expire"}]
    /\ orphaned \in BOOLEAN
    /\ usage \in [count : Nat, age : 0 .. WINDOW]
    /\ served \in [0 .. WINDOW - 1 -> Nat]
-----------------------------------------------------------------------------
(* AuthRateLimitGuard; without Redis it lets everything through *)

\* Mutation: the count is read and set again, which drops the ttl.
Incr_Set(a) ==
    /\ redisReady
    /\ attempt[a] = "idle"
    /\ addressKey.count < MaxCounted
    /\ addressKey' = [count |-> addressKey.count + 1, ttl |-> 0]
    /\ attempt' = IF addressKey'.count = 1 THEN [attempt EXCEPT ![a] = "expire"] ELSE attempt
    /\ UNCHANGED <<redisReady, orphaned, usage, served>>

\* incr keeps the ttl of a key that has one.  A count that is not the first lets
\* the request through or refuses it: with no effect on the key either way.
Incr(a) ==
    /\ redisReady
    /\ attempt[a] = "idle"
    /\ addressKey.count < MaxCounted
    /\ addressKey' = [addressKey EXCEPT !.count = @ + 1]
    /\ attempt' = IF addressKey'.count = 1 THEN [attempt EXCEPT ![a] = "expire"] ELSE attempt
    /\ UNCHANGED <<redisReady, orphaned, usage, served>>

Expire(a) ==
    /\ redisReady
    /\ attempt[a] = "expire"
    /\ addressKey' = IF addressKey = NoCounter THEN addressKey ELSE [addressKey EXCEPT !.ttl = WINDOW]
    /\ attempt' = [attempt EXCEPT ![a] = "idle"]
    /\ UNCHANGED <<redisReady, orphaned, usage, served>>

\* The call is lost or the process dies: nobody else sets this key's ttl.
ExpireLost(a) ==
    /\ attempt[a] = "expire"
    /\ attempt' = [attempt EXCEPT ![a] = "idle"]
    /\ orphaned' = (addressKey # NoCounter)
    /\ UNCHANGED <<redisReady, addressKey, usage, served>>

RedisConnects ==
    /\ redisReady' = ~ redisReady
    /\ UNCHANGED <<addressKey, attempt, orphaned, usage, served>>

\* Redis restarts without its data.
RedisForgets ==
    /\ addressKey' = NoCounter
    /\ orphaned' = FALSE
    /\ UNCHANGED <<redisReady, attempt, usage, served>>
-----------------------------------------------------------------------------
(* ApiKeyAuthGuard.enforceRateLimit; the bucket of GlobalRateLimitGuard is the same *)

LetThrough == served' = [served EXCEPT ![0] = @ + 1]

\* One synchronous step: a request in a new window, one below the limit, or one refused.
EnforceRateLimit ==
    /\ \/ /\ usage.age >= WINDOW
          /\ usage' = [count |-> 1, age |-> 0]
          /\ LetThrough
       \/ /\ usage.age < WINDOW
          /\ usage.count < MaxCounted
          /\ usage' = [usage EXCEPT !.count = @ + 1]
          /\ IF usage'.count > RATE_LIMIT THEN UNCHANGED served ELSE LetThrough
    /\ UNCHANGED <<redisReady, addressKey, attempt, orphaned>>
-----------------------------------------------------------------------------
Elapsed(ticks) == IF ticks < WINDOW THEN ticks + 1 ELSE ticks

\* Redis drops a key whose ttl has run out.
RateClock ==
    /\ addressKey' = IF addressKey.ttl = 1 THEN NoCounter
                     ELSE [addressKey EXCEPT !.ttl = IF @ = 0 THEN 0 ELSE @ - 1]
    /\ orphaned' = (orphaned /\ addressKey.ttl # 1)
    /\ usage' = [usage EXCEPT !.age = Elapsed(@)]
    /\ served' = [n \in 0 .. WINDOW - 1 |-> IF n = 0 THEN 0 ELSE served[n - 1]]
    /\ UNCHANGED <<redisReady, attempt>>

RateInit ==
    /\ redisReady = TRUE
    /\ addressKey = NoCounter
    /\ attempt = [a \in Attempts |-> "idle"]
    /\ orphaned = FALSE
    /\ usage = [count |-> 0, age |-> WINDOW]
    /\ served = [n \in 0 .. WINDOW - 1 |-> 0]

RateNext ==
    \/ \E a \in Attempts : Incr(a) \/ Expire(a) \/ ExpireLost(a)
    \/ RedisConnects \/ RedisForgets
    \/ EnforceRateLimit
    \/ RateClock

RateSpec == RateInit /\ [][RateNext]_rateVars
-----------------------------------------------------------------------------
(* Properties *)

CountersExpire ==
    addressKey.count > 0 /\ addressKey.ttl = 0 =>
        orphaned \/ \E a \in Attempts : attempt[a] = "expire"

BurstsBounded ==
    MapThenSumSet(LAMBDA n : served[n], DOMAIN served) <= 2 * RATE_LIMIT

\* An address is refused for a window and not for ever: its key has a ttl, or a
\* request that is about to set it, unless that request ended in between.  And
\* however its requests fall about the ends of its windows, an API key is served
\* no more than twice its limit in the length of one.
WindowsHold == CountersExpire /\ BurstsBounded
=============================================================================

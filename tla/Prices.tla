------------------------------- MODULE Prices -------------------------------
(***************************************************************************)
(* How old a price is when a transfer is valued at it.  getUsdPrice reads  *)
(* the cache in Redis, or fetches with retries and a timeout and caches    *)
(* what it got; each of these is an await that takes its time.  A price is *)
(* its age: the ticks since CoinGecko quoted it.                           *)
(***************************************************************************)
EXTENDS Integers

CONSTANTS
    Lookups,        \* getUsdPrice calls that may be in flight at once
    Tokens,         \* tokens on chains
    Registry,       \* those TOKEN_REGISTRY has
    TTL,            \* how long the cache keeps a price
    FETCH_TIMEOUT,  \* how long a request to CoinGecko may take
    MAX_RETRIES,    \* how many more there are after the first
    RedisLag        \* bound: how long Redis may take to answer

ASSUME PricesAssumption ==
    /\ Registry \subseteq Tokens
    /\ TTL \in Nat \ {0}
    /\ FETCH_TIMEOUT \in Nat
    /\ MAX_RETRIES \in Nat
    /\ RedisLag \in Nat

VARIABLES
    cached,     \* by token, the age of the cached price and what is left of its ttl; 0 without one
    lookup      \* the calls: how long they have been at an await, and the price they hold

priceVars == <<cached, lookup>>
-----------------------------------------------------------------------------
Uncached == [age |-> 0, left |-> 0]

NoLookup == [pc |-> "idle"]

LookupRecords ==
    {NoLookup}
    \union [pc : {"get"}, token : Tokens]
    \union [pc : {"fetch"}, token : Registry, waited : 0 .. FETCH_TIMEOUT, attempt : 0 .. MAX_RETRIES]
    \union [pc : {"pause"}, token : Registry, attempt : 1 .. MAX_RETRIES]
    \union [pc : {"set", "return"}, token : Registry, waited : 0 .. RedisLag, age : Nat]

PricesTypeOK ==
    /\ cached \in [Tokens -> [age : Nat, left : 0 .. TTL]]
    /\ lookup \in [Lookups -> LookupRecords]

LookupAt(c, step) == lookup[c].pc = step

Fetching(token, attempt) == [pc |-> "fetch", token |-> token, waited |-> 0, attempt |-> attempt]
-----------------------------------------------------------------------------
(* CoinGeckoAdapter and PriceCacheService *)

GetUsdPrice(c, token) ==
    /\ lookup[c] = NoLookup
    /\ lookup' = [lookup EXCEPT ![c] = [pc |-> "get", token |-> token]]
    /\ UNCHANGED cached

CacheHit(c) ==
    /\ LookupAt(c, "get")
    /\ LET entry == cached[lookup[c].token]
       IN  /\ entry.left > 0
           /\ lookup' = [lookup EXCEPT ![c] =
                [pc |-> "return", token |-> lookup[c].token, waited |-> 0, age |-> entry.age]]
    /\ UNCHANGED cached

\* A token the registry lacks has no price.
CacheMiss(c) ==
    /\ LookupAt(c, "get")
    /\ cached[lookup[c].token].left = 0
    /\ lookup' = [lookup EXCEPT ![c] =
          IF lookup[c].token \in Registry THEN Fetching(lookup[c].token, 0) ELSE NoLookup]
    /\ UNCHANGED cached

\* The quote was made at some moment while the request was waiting for it.
FetchUsdPrice(c) ==
    /\ LookupAt(c, "fetch")
    /\ \E age \in 0 .. lookup[c].waited :
          lookup' = [lookup EXCEPT ![c] =
            [pc |-> "set", token |-> lookup[c].token, waited |-> 0, age |-> age]]
    /\ UNCHANGED cached

\* Mutation: one retry too many.
FetchFails_OneMore(c) ==
    /\ LookupAt(c, "fetch")
    /\ LET n == lookup[c].attempt
       IN  lookup' = [lookup EXCEPT ![c] =
             IF n <= MAX_RETRIES
             THEN [pc |-> "pause", token |-> lookup[c].token, attempt |-> n + 1]
             ELSE NoLookup]
    /\ UNCHANGED cached

\* An error, an answer without a price, or the timeout.
FetchFails(c) ==
    /\ LookupAt(c, "fetch")
    /\ LET n == lookup[c].attempt
       IN  lookup' = [lookup EXCEPT ![c] =
             IF n < MAX_RETRIES
             THEN [pc |-> "pause", token |-> lookup[c].token, attempt |-> n + 1]
             ELSE NoLookup]
    /\ UNCHANGED cached

FetchAgain(c) ==
    /\ LookupAt(c, "pause")
    /\ lookup' = [lookup EXCEPT ![c] = Fetching(lookup[c].token, lookup[c].attempt)]
    /\ UNCHANGED cached

\* Mutation: a ttl that runs already is kept from running out.
CacheSet_NoExpiry(c) ==
    /\ LookupAt(c, "set")
    /\ cached' = [cached EXCEPT ![lookup[c].token] =
          [age |-> IF @.left > 0 THEN @.age ELSE lookup[c].age, left |-> TTL]]
    /\ lookup' = [lookup EXCEPT ![c].pc = "return"]

\* SET with EX: over any price there is, a later quote's too, with a ttl of its own.
CacheSet(c) ==
    /\ LookupAt(c, "set")
    /\ cached' = [cached EXCEPT ![lookup[c].token] = [age |-> lookup[c].age, left |-> TTL]]
    /\ lookup' = [lookup EXCEPT ![c].pc = "return"]

ReturnPrice(c) ==
    /\ LookupAt(c, "return")
    /\ lookup' = [lookup EXCEPT ![c] = NoLookup]
    /\ UNCHANGED cached

\* Redis rejects the call or the process dies; a fetched price is lost with it.
LookupFails(c) ==
    /\ lookup[c] # NoLookup
    /\ lookup' = [lookup EXCEPT ![c] = NoLookup]
    /\ UNCHANGED cached
-----------------------------------------------------------------------------
(* The clock; no await outlasts its bound *)

Older(l) ==
    CASE l.pc = "fetch"              -> [l EXCEPT !.waited = @ + 1]
      [] l.pc \in {"set", "return"} -> [l EXCEPT !.waited = @ + 1, !.age = @ + 1]
      [] OTHER                       -> l

PriceClock ==
    /\ \A c \in Lookups : Older(lookup[c]) \in LookupRecords
    /\ lookup' = [c \in Lookups |-> Older(lookup[c])]
    /\ cached' = [token \in Tokens |->
          IF cached[token].left > 1
          THEN [age |-> cached[token].age + 1, left |-> cached[token].left - 1]
          ELSE Uncached]

PricesInit ==
    /\ cached = [token \in Tokens |-> Uncached]
    /\ lookup = [c \in Lookups |-> NoLookup]

PricesNext ==
    \/ \E c \in Lookups :
          \/ \E token \in Tokens : GetUsdPrice(c, token)
          \/ CacheHit(c) \/ CacheMiss(c)
          \/ FetchUsdPrice(c) \/ FetchFails(c) \/ FetchAgain(c)
          \/ CacheSet(c) \/ ReturnPrice(c) \/ LookupFails(c)
    \/ PriceClock

PricesSpec == PricesInit /\ [][PricesNext]_priceVars
-----------------------------------------------------------------------------
(* Properties *)

\* No transfer is valued at a price older than the ttl, one request to CoinGecko
\* and the two calls to Redis that stored and read it, however many lookups fetch
\* at once, retry, and overwrite each other's prices.
QuotedPriceFresh ==
    \A c \in Lookups :
        LookupAt(c, "return") => lookup[c].age <= TTL - 1 + FETCH_TIMEOUT + 2 * RedisLag
=============================================================================

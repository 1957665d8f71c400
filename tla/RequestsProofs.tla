---------------------------- MODULE RequestsProofs ----------------------------
(* What a request meets before and beside its handler: how old a price can  *)
(* be, what the guards let pass, what the spending limits let through, and  *)
(* how many requests a window serves, for any number of requests.           *)
EXTENDS MCRequests, FoldTheorems, SequenceTheorems

(***************************************************************************)
(* Prices.  A cached price ages as its ttl runs down, so its age and what  *)
(* is left of the ttl add up to no more than when it was stored.           *)
(***************************************************************************)
CacheRecords == [age : Nat, left : 0 .. TTL]

\* What an entry of the cache, and a lookup, keep to.
EntryFresh(entry) ==
    /\ entry \in CacheRecords
    /\ entry.left > 0 => entry.age + entry.left <= TTL + FETCH_TIMEOUT + RedisLag

LookupFresh(l) ==
    /\ l \in LookupRecords
    /\ l.pc = "set" => l.age <= FETCH_TIMEOUT + l.waited
    /\ l.pc = "return" => l.age <= TTL - 1 + FETCH_TIMEOUT + RedisLag + l.waited

PricesInv ==
    /\ cached \in [Tokens -> CacheRecords]
    /\ \A token \in Tokens : EntryFresh(cached[token])
    /\ \A token \in Tokens : cached[token].left > 0 => token \in Registry
    /\ lookup \in [Lookups -> LookupRecords] /\ \A c \in Lookups : LookupFresh(lookup[c])

\* The fields a lookup has at each step.
LEMMA LookupFields ==
    ASSUME NEW l \in LookupRecords
    PROVE  /\ l.pc \in {"idle", "get", "fetch", "pause", "set", "return"}
           /\ l.pc = "get" => l \in [pc : {"get"}, token : Tokens]
           /\ l.pc = "fetch" => l \in [pc : {"fetch"}, token : Registry,
                                       waited : 0 .. FETCH_TIMEOUT, attempt : 0 .. MAX_RETRIES]
           /\ l.pc = "pause" => l \in [pc : {"pause"}, token : Registry, attempt : 1 .. MAX_RETRIES]
           /\ l.pc \in {"set", "return"} => l \in [pc : {"set", "return"}, token : Registry,
                                                   waited : 0 .. RedisLag, age : Nat]
BY DEF LookupRecords, NoLookup

LEMMA OneLookupChanges ==
    ASSUME PricesInv, NEW c \in Lookups, NEW l, LookupFresh(l),
           lookup' = [lookup EXCEPT ![c] = l], UNCHANGED cached
    PROVE  PricesInv'
BY DEF PricesInv, LookupFresh

\* A lookup that reads the cache or gives up.
LEMMA ReadSteps ==
    ASSUME PricesInv, NEW c \in Lookups,
           \/ \E token \in Tokens : GetUsdPrice(c, token)
           \/ CacheHit(c) \/ CacheMiss(c) \/ ReturnPrice(c) \/ LookupFails(c)
    PROVE  PricesInv'
<1>0. LookupFresh(NoLookup)
  BY DEF LookupFresh, LookupRecords, NoLookup
<1>1. CASE \E token \in Tokens : GetUsdPrice(c, token)
  <2>1. PICK token \in Tokens : GetUsdPrice(c, token)
    BY <1>1
  <2>2. LookupFresh([pc |-> "get", token |-> token])
    BY DEF LookupFresh, LookupRecords
  <2> QED
    BY <2>1, <2>2, OneLookupChanges DEF GetUsdPrice
<1>2. CASE CacheHit(c)
  <2> DEFINE entry == cached[lookup[c].token]
             l == [pc |-> "return", token |-> lookup[c].token, waited |-> 0, age |-> entry.age]
  <2>1. lookup[c] \in LookupRecords /\ lookup[c].pc = "get"
    BY <1>2 DEF CacheHit, LookupAt, PricesInv
  <2>2. lookup[c].token \in Tokens
    BY <2>1, LookupFields
  <2>3. EntryFresh(entry) /\ entry.left > 0
    BY <1>2, <2>2 DEF CacheHit, PricesInv
  <2>4. entry.age \in Nat /\ entry.age <= TTL - 1 + FETCH_TIMEOUT + RedisLag
    BY <2>3, PricesAssumption DEF EntryFresh, CacheRecords
  <2>5. lookup[c].token \in Registry
    BY <2>2, <2>3 DEF PricesInv
  <2>6. LookupFresh(l)
    BY <2>4, <2>5, PricesAssumption DEF LookupFresh, LookupRecords
  <2> QED
    BY <1>2, <2>6, OneLookupChanges DEF CacheHit
<1>3. CASE CacheMiss(c)
  <2> DEFINE token == lookup[c].token
  <2>1. token \in Registry => LookupFresh(Fetching(token, 0))
    BY PricesAssumption DEF LookupFresh, LookupRecords, Fetching
  <2> QED
    BY <1>0, <1>3, <2>1, OneLookupChanges DEF CacheMiss
<1>4. CASE ReturnPrice(c) \/ LookupFails(c)
  BY <1>0, <1>4, OneLookupChanges DEF ReturnPrice, LookupFails
<1> QED
  BY <1>1, <1>2, <1>3, <1>4

\* A lookup that asks CoinGecko, again or at last with an answer.
LEMMA FetchSteps ==
    ASSUME PricesInv, NEW c \in Lookups, FetchUsdPrice(c) \/ FetchFails(c) \/ FetchAgain(c)
    PROVE  PricesInv'
<1>0. lookup[c] \in LookupRecords
  BY DEF PricesInv
<1>1. CASE FetchUsdPrice(c)
  <2>1. PICK age \in 0 .. lookup[c].waited :
          lookup' = [lookup EXCEPT ![c] =
            [pc |-> "set", token |-> lookup[c].token, waited |-> 0, age |-> age]]
    BY <1>1 DEF FetchUsdPrice
  <2>2. lookup[c].token \in Registry /\ lookup[c].waited \in 0 .. FETCH_TIMEOUT
    BY <1>0, <1>1, LookupFields DEF FetchUsdPrice, LookupAt
  <2>3. LookupFresh([pc |-> "set", token |-> lookup[c].token, waited |-> 0, age |-> age])
    BY <2>2, PricesAssumption DEF LookupFresh, LookupRecords
  <2> QED
    BY <1>1, <2>1, <2>3, OneLookupChanges DEF FetchUsdPrice
<1>2. CASE FetchFails(c)
  <2> DEFINE n == lookup[c].attempt
  <2>1. lookup[c].token \in Registry /\ n \in 0 .. MAX_RETRIES
    BY <1>0, <1>2, LookupFields DEF FetchFails, LookupAt
  <2>2. n < MAX_RETRIES =>
          LookupFresh([pc |-> "pause", token |-> lookup[c].token, attempt |-> n + 1])
    BY <2>1, PricesAssumption DEF LookupFresh, LookupRecords
  <2>3. LookupFresh(NoLookup)
    BY DEF LookupFresh, LookupRecords, NoLookup
  <2> QED
    BY <1>2, <2>2, <2>3, OneLookupChanges DEF FetchFails
<1>3. CASE FetchAgain(c)
  <2>1. lookup[c].token \in Registry /\ lookup[c].attempt \in 0 .. MAX_RETRIES
    BY <1>0, <1>3, LookupFields, PricesAssumption DEF FetchAgain, LookupAt
  <2>2. LookupFresh(Fetching(lookup[c].token, lookup[c].attempt))
    BY <2>1, PricesAssumption DEF LookupFresh, LookupRecords, Fetching
  <2> QED
    BY <1>3, <2>2, OneLookupChanges DEF FetchAgain
<1> QED
  BY <1>1, <1>2, <1>3

\* The price is stored with a ttl of its own, and returned.
LEMMA StoreStep ==
    ASSUME PricesInv, NEW c \in Lookups, CacheSet(c)
    PROVE  PricesInv'
<1> DEFINE l == lookup[c]
           entry == [age |-> l.age, left |-> TTL]
           returned == [l EXCEPT !.pc = "return"]
<1>1. l \in [pc : {"set", "return"}, token : Registry, waited : 0 .. RedisLag, age : Nat]
      /\ l.age <= FETCH_TIMEOUT + l.waited
  BY LookupFields DEF CacheSet, LookupAt, PricesInv, LookupFresh
<1>2. EntryFresh(entry)
  BY <1>1, PricesAssumption DEF EntryFresh, CacheRecords
<1>3. returned = [pc |-> "return", token |-> l.token, waited |-> l.waited, age |-> l.age]
  BY <1>1
<1>4. LookupFresh(returned)
  BY <1>1, <1>3, PricesAssumption DEF LookupFresh, LookupRecords
<1>5. /\ cached' \in [Tokens -> CacheRecords]
      /\ \A token \in Tokens : EntryFresh(cached'[token])
      /\ \A token \in Tokens : cached'[token].left > 0 => token \in Registry
  BY <1>1, <1>2 DEF CacheSet, PricesInv, EntryFresh
<1>6. lookup' = [lookup EXCEPT ![c] = returned]
  BY DEF CacheSet
<1>7. /\ lookup' \in [Lookups -> LookupRecords]
      /\ \A d \in Lookups : LookupFresh(lookup'[d])
  BY <1>4, <1>6 DEF PricesInv, LookupFresh
<1> QED
  BY <1>5, <1>7 DEF PricesInv

\* A tick makes prices older, and takes as much from what is left of a ttl.
LEMMA ClockStep ==
    ASSUME PricesInv, PriceClock
    PROVE  PricesInv'
<1>1. ASSUME NEW token \in Tokens
      PROVE  /\ cached'[token] \in CacheRecords
             /\ EntryFresh(cached'[token])
             /\ cached'[token].left > 0 => token \in Registry
  <2>1. EntryFresh(cached[token]) /\ (cached[token].left > 0 => token \in Registry)
    BY DEF PricesInv
  <2>2. CASE cached[token].left > 1
    <3>1. cached'[token] = [age |-> cached[token].age + 1, left |-> cached[token].left - 1]
      BY <2>2 DEF PriceClock
    <3> QED
      BY <2>1, <2>2, <3>1, PricesAssumption DEF EntryFresh, CacheRecords
  <2>3. CASE ~ cached[token].left > 1
    <3>1. cached'[token] = Uncached
      BY <2>3 DEF PriceClock
    <3> QED
      BY <3>1, PricesAssumption DEF EntryFresh, CacheRecords, Uncached
  <2> QED
    BY <2>2, <2>3
<1>2. ASSUME NEW c \in Lookups
      PROVE  LookupFresh(lookup'[c])
  <2> DEFINE l == lookup[c]
  <2>1. l \in LookupRecords /\ LookupFresh(l) /\ Older(l) \in LookupRecords
        /\ lookup'[c] = Older(l)
    BY DEF PricesInv, PriceClock
  <2>2. CASE l.pc \in {"set", "return"}
    <3>1. l \in [pc : {"set", "return"}, token : Registry, waited : 0 .. RedisLag, age : Nat]
      BY <2>1, <2>2, LookupFields
    <3>2. Older(l) = [pc |-> l.pc, token |-> l.token, waited |-> l.waited + 1, age |-> l.age + 1]
      BY <2>2, <3>1 DEF Older
    <3> QED
      BY <2>1, <2>2, <3>1, <3>2, PricesAssumption DEF LookupFresh
  <2>3. CASE l.pc \notin {"set", "return"}
    <3>1. Older(l).pc = l.pc
      BY <2>1, <2>3, LookupFields DEF Older
    <3> QED
      BY <2>1, <2>3, <3>1 DEF LookupFresh
  <2> QED
    BY <2>2, <2>3
<1>3. cached' \in [Tokens -> CacheRecords] /\ lookup' \in [Lookups -> LookupRecords]
  BY <1>1, <1>2 DEF PriceClock, LookupFresh
<1> QED
  BY <1>1, <1>2, <1>3 DEF PricesInv

\* What the cache and the lookups keep to, for any lookups and clock.
LEMMA PricesAlways == PricesSpec => []PricesInv
<1>1. PricesInit => PricesInv
  BY PricesAssumption
     DEF PricesInit, PricesInv, EntryFresh, LookupFresh, CacheRecords, LookupRecords, Uncached, NoLookup
<1>2. PricesInv /\ [PricesNext]_priceVars => PricesInv'
  <2>1. ASSUME PricesInv, UNCHANGED priceVars PROVE PricesInv'
    BY <2>1 DEF PricesInv, priceVars
  <2> QED
    BY <2>1, ReadSteps, FetchSteps, StoreStep, ClockStep DEF PricesNext
<1> QED
  BY <1>1, <1>2, PTL DEF PricesSpec

\* A price is no older than the ttl, one request to CoinGecko and the calls to Redis
\* that stored and read it, whatever the other lookups fetch and overwrite.
THEOREM PriceAge == PricesSpec => []QuotedPriceFresh
<1>1. PricesInv => QuotedPriceFresh
  <2>1. ASSUME PricesInv, NEW c \in Lookups, LookupAt(c, "return")
        PROVE  lookup[c].age <= TTL - 1 + FETCH_TIMEOUT + 2 * RedisLag
    <3>1. lookup[c] \in [pc : {"set", "return"}, token : Registry, waited : 0 .. RedisLag, age : Nat]
          /\ lookup[c].age <= TTL - 1 + FETCH_TIMEOUT + RedisLag + lookup[c].waited
      BY <2>1, LookupFields DEF PricesInv, LookupFresh, LookupAt
    <3> QED
      BY <3>1, PricesAssumption
  <2> QED
    BY <2>1 DEF QuotedPriceFresh
<1> QED
  BY <1>1, PricesAlways, PTL
-----------------------------------------------------------------------------
(***************************************************************************)
(* The guards.  A request is bound only to a key that is live or a member  *)
(* that is active, and neither ever is again once it has ended.            *)
(***************************************************************************)
RowsEnded ==
    \A x \in ended :
        /\ x \in Members => x \notin active
        /\ x \in Keys => key[x].state = "revoked"

GuardedRecords ==
    [pc : {"guards", "key_touched", "handle"}, route : Routes, left : Seq(GuardNames),
     org : Orgs, bearer : Subjects, key : Keys \union {0}, member : Members \union {0}]

RevokingRecords == [pc : {"revoke_row"}, target : Keys, key : {0}, member : Members \union {0}]

GuardedRequests == {NoRequest} \union GuardedRecords \union RevokingRecords

GuardsShape ==
    /\ active \subseteq Members
    /\ holders \subseteq Members
    /\ key \in [Keys -> KeyRows]
    /\ request \in [Guarded -> GuardedRequests]
    /\ \A c \in Guarded :
          /\ request[c].pc = "key_touched" => request[c].left # <<>>
          /\ request[c].pc = "revoke_row" => key[request[c].target].state # "absent"
    /\ ended \subseteq Subjects
    /\ overtaken \in [Subjects -> Int]

GuardsInv == GuardsShape /\ RowsEnded /\ EndedStops

LEMMA RequestShape ==
    ASSUME NEW r \in GuardedRequests
    PROVE  /\ r.pc # "idle" => r \in GuardedRecords \/ r \in RevokingRecords
           /\ r.pc \in {"guards", "key_touched", "handle"} => r \in GuardedRecords
           /\ r.pc = "revoke_row" => r \in RevokingRecords
           /\ r = NoRequest <=> r.pc = "idle"
BY DEF GuardedRequests, GuardedRecords, RevokingRecords, NoRequest

LEMMA BoundFinite ==
    \A x : IsFiniteSet(Bound(x)) /\ Cardinality(Bound(x)) \in Nat
<1> SUFFICES ASSUME NEW x
             PROVE  IsFiniteSet(Bound(x)) /\ Cardinality(Bound(x)) \in Nat
  OBVIOUS
<1>1. Bound(x) \subseteq Guarded
  BY DEF Bound
<1> QED
  BY <1>1, GuardsAssumption, FS_Subset, FS_CardinalityType

\* 0 stands for no key and no member.
LEMMA SubjectsAreSome == 0 \notin Subjects
BY GuardsAssumption DEF Subjects

\* A request moves on and is bound to nothing that has ended and it was not bound to.
LEMMA RequestMoves ==
    ASSUME GuardsInv, NEW c \in Guarded, NEW r \in GuardedRequests,
           request' = [request EXCEPT ![c] = r], r.pc = "key_touched" => r.left # <<>>,
           r.pc = "revoke_row" => key[r.target].state # "absent",
           UNCHANGED <<active, key, ended, overtaken>>, holders' \subseteq Members,
           \A x \in ended : r # NoRequest /\ x \in {r.key, r.member} => c \in Bound(x)
    PROVE  GuardsInv'
<1>1. /\ request' \in [Guarded -> GuardedRequests] /\ request'[c] = r
      /\ \A d \in Guarded : d # c => request'[d] = request[d]
  BY DEF GuardsInv, GuardsShape
<1>2. GuardsShape' /\ RowsEnded'
  BY <1>1 DEF GuardsInv, GuardsShape, RowsEnded
<1>3. ASSUME NEW x \in ended
      PROVE  Cardinality(Bound(x)') <= overtaken[x]
  <2>1. Bound(x)' \subseteq Bound(x)
    BY <1>1, <1>3 DEF Bound
  <2>2. Cardinality(Bound(x)') <= Cardinality(Bound(x)) /\ IsFiniteSet(Bound(x)')
    BY <2>1, BoundFinite, FS_Subset
  <2>3. Cardinality(Bound(x)') \in Nat
    BY <2>2, FS_CardinalityType
  <2>4. Cardinality(Bound(x)) \in Nat /\ Cardinality(Bound(x)) <= overtaken[x] /\ overtaken[x] \in Int
    BY BoundFinite DEF GuardsInv, GuardsShape, EndedStops
  <2> QED
    BY <2>2, <2>3, <2>4
<1>4. EndedStops'
  BY <1>3 DEF EndedStops
<1> QED
  BY <1>2, <1>4 DEF GuardsInv

LEMMA ShortLists ==
    ASSUME NEW S, NEW x \in S, NEW y \in S, NEW z \in S
    PROVE  <<x, y>> \in Seq(S) /\ <<x, y, z>> \in Seq(S)
<1>1. <<x, y>> \in Seq(S)
  OBVIOUS
<1>2. <<x, y, z>> \in Seq(S)
  <2>1. <<x, y, z>> \in [1 .. 3 -> S]
    OBVIOUS
  <2> QED
    BY <2>1, SeqDef
<1> QED
  BY <1>1, <1>2

LEMMA GuardLists == \A route : GuardsOf(route) \in Seq(GuardNames)
<1>1. /\ "jwt" \in GuardNames /\ "org_member" \in GuardNames /\ "org_admin" \in GuardNames
      /\ "jwt_or_api_key" \in GuardNames
  BY DEF GuardNames
<1>2. /\ <<"jwt", "org_member", "org_admin">> \in Seq(GuardNames)
      /\ <<"jwt", "jwt_or_api_key", "org_member">> \in Seq(GuardNames)
      /\ <<"jwt_or_api_key", "org_member">> \in Seq(GuardNames)
      /\ <<"jwt", "org_member">> \in Seq(GuardNames)
  BY <1>1, ShortLists, Zenon
<1>3. \A route : GuardsOf(route) \in {<<"jwt", "org_member", "org_admin">>,
                                      <<"jwt", "jwt_or_api_key", "org_member">>,
                                      <<"jwt_or_api_key", "org_member">>, <<"jwt", "org_member">>}
  BY DEF GuardsOf
<1> QED
  BY <1>2, <1>3, Zenon

\* What a guard leaves on the request when it passes it.
LEMMA PastGuardTyped ==
    ASSUME NEW r \in GuardedRecords, r.left # <<>>
    PROVE  /\ PastGuard(r) \in GuardedRecords
           /\ PastGuard(r).key = r.key /\ PastGuard(r).member = r.member
           /\ PastGuard(r).pc # "key_touched"
<1> DEFINE pc == IF Len(r.left) = 1 THEN "handle" ELSE "guards"
<1>1. Tail(r.left) \in Seq(GuardNames) /\ pc \in {"handle", "guards"}
  BY DEF GuardedRecords
<1>2. PastGuard(r) = [r EXCEPT !.left = Tail(r.left), !.pc = pc]
  BY DEF PastGuard
<1> HIDE DEF pc
<1> QED
  BY <1>1, <1>2 DEF GuardedRecords

LEMMA GuardKeeps ==
    ASSUME GuardsInv, NEW c \in Guarded, Guard(c)
    PROVE  GuardsInv'
<1>1. /\ GuardsShape /\ request[c] \in GuardedRequests /\ holders \subseteq Members
      /\ active \subseteq Members /\ ended \subseteq Subjects
      /\ UNCHANGED <<active, holders, key, ended, overtaken>>
  BY DEF GuardsInv, GuardsShape, Guard, Receive, JwtAuthGuard, ValidateBearerToken,
         ApiKeyAuthGuard, OrgMemberGuard, OrgAdminGuard, Refused
<1>2. GuardedRecords \subseteq GuardedRequests /\ NoRequest \in GuardedRequests /\ NoRequest.pc = "idle"
  BY DEF GuardedRequests, NoRequest
<1>3. \A r \in GuardedRecords : r # NoRequest /\ r.pc # "revoke_row"
  BY DEF GuardedRecords, NoRequest
<1>4. ASSUME NEW route \in Routes, NEW o \in Orgs, NEW b \in Subjects, Receive(c, route, o, b)
      PROVE  GuardsInv'
  <2> DEFINE r == [pc |-> "guards", route |-> route, left |-> GuardsOf(route), org |-> o,
                   bearer |-> b, key |-> 0, member |-> 0]
  <2>1. GuardsOf(route) \in Seq(GuardNames)
    BY GuardLists DEF Routes
  <2>2. r \in GuardedRecords /\ r.key = 0 /\ r.member = 0 /\ r.pc = "guards"
    BY <2>1 DEF GuardedRecords
  <2>3. request' = [request EXCEPT ![c] = r]
    BY <1>4 DEF Receive
  <2> HIDE DEF r
  <2>4. \A x \in ended : x \notin {r.key, r.member}
    BY <1>1, <2>2, SubjectsAreSome
  <2> QED
    BY <1>1, <1>2, <2>2, <2>3, <2>4, RequestMoves
<1>5. ASSUME JwtAuthGuard(c) \/ OrgAdminGuard(c)
      PROVE  GuardsInv'
  <2>1. request[c].pc = "guards" /\ request[c].left # <<>>
        /\ request' = [request EXCEPT ![c] = PastGuard(request[c])]
    BY <1>5 DEF JwtAuthGuard, OrgAdminGuard, Faces
  <2>2. request[c] \in GuardedRecords
    BY <1>1, <2>1, RequestShape
  <2>3. /\ PastGuard(request[c]) \in GuardedRecords
        /\ PastGuard(request[c]).key = request[c].key
        /\ PastGuard(request[c]).member = request[c].member
        /\ PastGuard(request[c]).pc # "key_touched"
    BY <2>1, <2>2, PastGuardTyped
  <2>4. request[c] # NoRequest
    BY <1>3, <2>2
  <2>5. \A x \in ended : x \in {PastGuard(request[c]).key, PastGuard(request[c]).member} => c \in Bound(x)
    BY <2>3, <2>4 DEF Bound
  <2> QED
    BY <1>1, <1>2, <1>3, <2>1, <2>3, <2>5, RequestMoves
<1>6. ASSUME ValidateBearerToken(c)
      PROVE  GuardsInv'
  <2> DEFINE k == request[c].bearer
             r == [request[c] EXCEPT !.pc = "key_touched", !.key = k]
  <2>1. /\ request[c].pc = "guards" /\ k \in Keys /\ key[k].state = "live"
        /\ request' = [request EXCEPT ![c] = r]
    BY <1>6 DEF ValidateBearerToken, Faces
  <2>2. request[c] \in GuardedRecords
    BY <1>1, <2>1, RequestShape
  <2>3. /\ r \in GuardedRecords /\ r.key = k /\ r.member = request[c].member
        /\ r.left = request[c].left /\ r.left # <<>>
    <3>1. request[c].left # <<>>
      BY <1>6 DEF ValidateBearerToken, Faces
    <3> QED
      BY <2>1, <2>2, <3>1 DEF GuardedRecords
  <2> HIDE DEF r
  <2>4. k \notin ended
    BY <2>1 DEF GuardsInv, RowsEnded
  <2>5. request[c] # NoRequest
    BY <1>3, <2>2
  <2>6. \A x \in ended : x \in {r.key, r.member} => c \in Bound(x)
    BY <2>3, <2>4, <2>5 DEF Bound
  <2> QED
    BY <1>1, <1>2, <1>3, <2>1, <2>3, <2>6, RequestMoves
<1>7. ASSUME ApiKeyAuthGuard(c)
      PROVE  GuardsInv'
  <2>1. PICK m \in holders \intersect active :
          request' = [request EXCEPT ![c] = [PastGuard(@) EXCEPT !.member = m]]
    BY <1>7 DEF ApiKeyAuthGuard
  <2>2. request[c].pc = "key_touched"
    BY <1>7 DEF ApiKeyAuthGuard
  <2>3. request[c] \in GuardedRecords
    BY <1>1, <2>2, RequestShape
  <2> DEFINE r == [PastGuard(request[c]) EXCEPT !.member = m]
  <2>4. /\ r \in GuardedRecords /\ r.key = request[c].key /\ r.member = m
        /\ r.pc # "key_touched"
    <3>1. /\ PastGuard(request[c]) \in GuardedRecords /\ PastGuard(request[c]).key = request[c].key
          /\ PastGuard(request[c]).pc # "key_touched"
      BY <1>1, <2>3, <2>2, PastGuardTyped DEF GuardsShape
    <3> QED
      BY <1>1, <3>1 DEF GuardedRecords
  <2>5. request' = [request EXCEPT ![c] = r]
    BY <2>1
  <2> HIDE DEF r
  <2>6. m \notin ended
    BY <1>1 DEF GuardsInv, RowsEnded
  <2>7. request[c] # NoRequest
    BY <1>3, <2>3
  <2>8. \A x \in ended : x \in {r.key, r.member} => c \in Bound(x)
    BY <2>4, <2>6, <2>7 DEF Bound
  <2> QED
    BY <1>1, <1>2, <1>3, <2>4, <2>5, <2>8, RequestMoves
<1>8. ASSUME OrgMemberGuard(c)
      PROVE  GuardsInv'
  <2>1. request[c].pc = "guards" /\ request[c].left # <<>>
    BY <1>8 DEF OrgMemberGuard, Faces
  <2>2. request[c] \in GuardedRecords /\ request[c] # NoRequest
    BY <1>1, <1>3, <2>1, RequestShape
  <2>3. /\ PastGuard(request[c]) \in GuardedRecords
        /\ PastGuard(request[c]).key = request[c].key
        /\ PastGuard(request[c]).member = request[c].member
        /\ PastGuard(request[c]).pc # "key_touched"
    BY <2>1, <2>2, PastGuardTyped
  <2>4. CASE request' = [request EXCEPT ![c] = PastGuard(request[c])]
    <3>1. \A x \in ended : x \in {PastGuard(request[c]).key, PastGuard(request[c]).member}
                              => c \in Bound(x)
      BY <2>2, <2>3 DEF Bound
    <3> QED
      BY <1>1, <1>2, <1>3, <2>3, <2>4, <3>1, RequestMoves
  <2>5. CASE /\ request[c].bearer \in active
             /\ request' = [request EXCEPT ![c] = [PastGuard(request[c]) EXCEPT
                                                      !.member = request[c].bearer]]
    <3> DEFINE m == request[c].bearer
               r == [PastGuard(request[c]) EXCEPT !.member = m]
    <3>1. /\ r \in GuardedRecords /\ r.key = request[c].key /\ r.member = m
          /\ r.pc # "key_touched"
      BY <1>1, <2>3, <2>5 DEF GuardedRecords
    <3>2. request' = [request EXCEPT ![c] = r]
      BY <2>5
    <3> HIDE DEF r
    <3>3. m \notin ended
      BY <1>1, <2>5 DEF GuardsInv, RowsEnded
    <3>4. \A x \in ended : x \in {r.key, r.member} => c \in Bound(x)
      BY <2>2, <3>1, <3>3 DEF Bound
    <3> QED
      BY <1>1, <1>2, <1>3, <3>1, <3>2, <3>4, RequestMoves
  <2> QED
    BY <1>8, <2>4, <2>5 DEF OrgMemberGuard
<1>9. ASSUME Refused(c)
      PROVE  GuardsInv'
  BY <1>1, <1>2, <1>9, RequestMoves DEF Refused
<1> QED
  BY <1>4, <1>5, <1>6, <1>7, <1>8, <1>9 DEF Guard

\* A request is done with, and may have ended a subject by it.
LEMMA HandledKeeps ==
    ASSUME GuardsInv, NEW c \in Guarded, NEW more \in SUBSET Subjects,
           request[c] # NoRequest,
           request' = [request EXCEPT ![c] = NoRequest],
           ended' = ended \union more,
           overtaken' \in [Subjects -> Int],
           \A x \in ended : overtaken'[x] = IF c \in Bound(x) THEN overtaken[x] - 1 ELSE overtaken[x],
           \A x \in more \ ended : overtaken'[x] = Cardinality(Bound(x) \ {c}),
           active' \subseteq active, holders' = holders, key' \in [Keys -> KeyRows],
           \A k \in Keys : /\ key[k].state = "revoked" => key'[k].state = "revoked"
                           /\ key[k].state # "absent" => key'[k].state # "absent",
           \A x \in more : /\ x \in Members => x \notin active'
                           /\ x \in Keys => key'[x].state = "revoked"
    PROVE  GuardsInv'
<1>1. /\ GuardsShape /\ NoRequest \in GuardedRequests /\ ended \subseteq Subjects
  BY DEF GuardsInv, GuardsShape, GuardedRequests
<1>2. /\ request' \in [Guarded -> GuardedRequests] /\ request'[c] = NoRequest
      /\ \A d \in Guarded : d # c => request'[d] = request[d]
  BY <1>1 DEF GuardsShape
<1>3. GuardsShape'
  <2>1. \A d \in Guarded : request[d].pc = "revoke_row" => request[d].target \in Keys
    BY <1>1, RequestShape DEF GuardsShape, RevokingRecords
  <2>2. NoRequest.pc = "idle"
    BY DEF NoRequest
  <2> QED
    BY <1>1, <1>2, <2>1, <2>2 DEF GuardsShape
<1>4. RowsEnded'
  BY DEF GuardsInv, RowsEnded
<1>5. \A x : Bound(x)' = Bound(x) \ {c}
  BY <1>2 DEF Bound
<1>6. ASSUME NEW x \in ended'
      PROVE  Cardinality(Bound(x) \ {c}) <= overtaken'[x]
  <2>1. IsFiniteSet(Bound(x)) /\ Cardinality(Bound(x)) \in Nat
    BY BoundFinite
  <2>2. CASE x \notin ended
    <3>1. x \in more \ ended
      BY <1>6, <2>2
    <3>2. IsFiniteSet(Bound(x) \ {c})
      BY <2>1, FS_Subset
    <3>3. Cardinality(Bound(x) \ {c}) \in Nat /\ overtaken'[x] = Cardinality(Bound(x) \ {c})
      BY <3>1, <3>2, FS_CardinalityType
    <3> QED
      BY <3>3
  <2>3. CASE x \in ended /\ c \in Bound(x)
    <3>1. Cardinality(Bound(x) \ {c}) = Cardinality(Bound(x)) - 1
      BY <2>1, <2>3, FS_RemoveElement
    <3>2. Cardinality(Bound(x)) <= overtaken[x] /\ overtaken[x] \in Int
      BY <1>1, <2>3 DEF GuardsInv, EndedStops, GuardsShape
    <3> QED
      BY <2>1, <2>3, <3>1, <3>2
  <2>4. CASE x \in ended /\ c \notin Bound(x)
    <3>1. Bound(x) \ {c} = Bound(x)
      BY <2>4
    <3>2. Cardinality(Bound(x)) <= overtaken[x]
      BY <2>4 DEF GuardsInv, EndedStops
    <3> QED
      BY <2>4, <3>1, <3>2
  <2> QED
    BY <2>2, <2>3, <2>4
<1>7. EndedStops'
  BY <1>5, <1>6 DEF EndedStops
<1> QED
  BY <1>3, <1>4, <1>7 DEF GuardsInv

LEMMA ServeKeeps ==
    ASSUME GuardsInv, NEW c \in Guarded, Serve(c)
    PROVE  GuardsInv'
<1>1. /\ GuardsShape /\ request[c] \in GuardedRequests /\ ended \subseteq Subjects
      /\ overtaken \in [Subjects -> Int] /\ key \in [Keys -> KeyRows] /\ holders' = holders
      /\ active \subseteq Members
  BY DEF GuardsInv, GuardsShape, Serve, HandleElsewhere, CreateKey, FindKey, RevokeKey,
         DeactivateMember
<1>2. request[c] # NoRequest
  <2>1. request[c].pc # "idle"
    BY DEF Serve, HandleElsewhere, CreateKey, FindKey, RevokeKey, DeactivateMember, Serves
  <2> QED
    BY <1>1, <2>1, RequestShape
<1>3. ASSUME Handled(c), UNCHANGED <<active, ended>>, key' \in [Keys -> KeyRows],
             \A k \in Keys : /\ key[k].state = "revoked" => key'[k].state = "revoked"
                             /\ key[k].state # "absent" => key'[k].state # "absent"
      PROVE  GuardsInv'
  <2>1. overtaken' \in [Subjects -> Int]
    BY <1>1, <1>3 DEF Handled
  <2>2. \A x \in ended : overtaken'[x] = IF c \in Bound(x) THEN overtaken[x] - 1 ELSE overtaken[x]
    BY <1>1, <1>3 DEF Handled
  <2>3. request' = [request EXCEPT ![c] = NoRequest] /\ ended' = ended \union {}
    BY <1>3 DEF Handled
  <2>4. {} \in SUBSET Subjects
    OBVIOUS
  <2> QED
    BY <1>1, <1>2, <1>3, <2>1, <2>2, <2>3, <2>4, HandledKeeps
<1>4. ASSUME NEW y \in Subjects, HandledEnding(c, y)
      PROVE  /\ overtaken' \in [Subjects -> Int]
             /\ \A x \in ended : overtaken'[x] = IF c \in Bound(x) THEN overtaken[x] - 1 ELSE overtaken[x]
             /\ \A x \in {y} \ ended : overtaken'[x] = Cardinality(Bound(x) \ {c})
  <2>1. Cardinality(Bound(y) \ {c}) \in Nat
    BY BoundFinite, FS_Subset, FS_CardinalityType
  <2>2. overtaken' = [x \in Subjects |->
                        IF x = y /\ y \notin ended THEN Cardinality(Bound(y) \ {c})
                        ELSE IF x \in ended /\ c \in Bound(x) THEN overtaken[x] - 1
                        ELSE overtaken[x]]
    BY <1>4 DEF HandledEnding
  <2>3. overtaken' \in [Subjects -> Int]
    BY <1>1, <2>1, <2>2
  <2>4. \A x \in ended : overtaken'[x] = IF c \in Bound(x) THEN overtaken[x] - 1 ELSE overtaken[x]
    BY <1>1, <2>2
  <2>5. \A x \in {y} \ ended : overtaken'[x] = Cardinality(Bound(x) \ {c})
    BY <2>2
  <2> QED
    BY <2>3, <2>4, <2>5
<1>5. CASE HandleElsewhere(c)
  BY <1>1, <1>3, <1>5 DEF HandleElsewhere
<1>6. ASSUME NEW k \in Keys, CreateKey(c, k)
      PROVE  GuardsInv'
  <2> DEFINE row == [state |-> "live", org |-> request[c].org]
  <2>1. request[c] \in GuardedRecords
    BY <1>1, <1>6, RequestShape DEF CreateKey, Serves
  <2>2. row \in KeyRows
    BY <2>1 DEF KeyRows, GuardedRecords
  <2>3. key' = [key EXCEPT ![k] = row] /\ key[k].state = "absent"
    BY <1>6 DEF CreateKey
  <2> QED
    BY <1>1, <1>3, <1>6, <2>2, <2>3 DEF CreateKey
<1>7. ASSUME NEW k \in Keys, FindKey(c, k)
      PROVE  GuardsInv'
  <2> DEFINE r == [pc |-> "revoke_row", target |-> k, key |-> 0, member |-> request[c].member]
  <2>1. request[c] \in GuardedRecords /\ request' = [request EXCEPT ![c] = r]
        /\ UNCHANGED <<active, key, ended, overtaken>> /\ holders' \subseteq Members
    BY <1>1, <1>7, RequestShape DEF FindKey, Serves, GuardsShape
  <2>2. /\ r \in RevokingRecords /\ RevokingRecords \subseteq GuardedRequests /\ r.pc = "revoke_row"
        /\ key[r.target].state # "absent"
    BY <1>7, <2>1 DEF FindKey, RevokingRecords, GuardedRecords, GuardedRequests
  <2>3. \A x \in ended : x \in {r.key, r.member} => c \in Bound(x)
    BY <1>1, <1>2, SubjectsAreSome DEF Bound
  <2> HIDE DEF r
  <2> QED
    BY <1>2, <2>1, <2>2, <2>3, RequestMoves
<1>8. CASE RevokeKey(c)
  <2> DEFINE k == request[c].target
             row == [key[k] EXCEPT !.state = "revoked"]
  <2>1. k \in Keys /\ k \in Subjects /\ k \notin Members /\ key[k].state # "absent"
    BY <1>1, <1>8, RequestShape, GuardsAssumption
    DEF RevokeKey, RevokingRecords, Subjects, GuardsShape
  <2>2. key' = [key EXCEPT ![k] = row] /\ HandledEnding(c, k) /\ active' = active
    BY <1>8 DEF RevokeKey
  <2>3. row \in KeyRows /\ row.state = "revoked"
    BY <1>1, <2>1 DEF KeyRows
  <2> HIDE DEF row
  <2>4. /\ key' \in [Keys -> KeyRows] /\ key'[k].state = "revoked"
        /\ \A j \in Keys : j # k => key'[j] = key[j]
    BY <1>1, <2>1, <2>2, <2>3
  <2>5. /\ request' = [request EXCEPT ![c] = NoRequest] /\ ended' = ended \union {k}
    BY <2>2 DEF HandledEnding
  <2>6. \A j \in Keys : /\ key[j].state = "revoked" => key'[j].state = "revoked"
                        /\ key[j].state # "absent" => key'[j].state # "absent"
    BY <2>4
  <2>7. \A x \in {k} : (x \in Members => x \notin active') /\ (x \in Keys => key'[x].state = "revoked")
    BY <2>1, <2>4
  <2>8. {k} \in SUBSET Subjects /\ active' \subseteq active
    BY <2>1, <2>2
  <2> HIDE DEF k
  <2> QED
    BY <1>1, <1>2, <1>4, <2>1, <2>2, <2>4, <2>5, <2>6, <2>7, <2>8, HandledKeeps
<1>9. ASSUME NEW m \in Members, DeactivateMember(c, m)
      PROVE  GuardsInv'
  <2>1. m \in Subjects /\ m \notin Keys /\ active' = active \ {m} /\ key' = key
        /\ HandledEnding(c, m)
    BY <1>9, GuardsAssumption DEF DeactivateMember, Subjects
  <2>2. /\ request' = [request EXCEPT ![c] = NoRequest] /\ ended' = ended \union {m}
    BY <2>1 DEF HandledEnding
  <2>3. {m} \in SUBSET Subjects /\ active' \subseteq active /\ key' \in [Keys -> KeyRows]
    BY <1>1, <2>1
  <2>4. \A x \in {m} : (x \in Members => x \notin active') /\ (x \in Keys => key'[x].state = "revoked")
    BY <2>1
  <2> QED
    BY <1>1, <1>2, <1>4, <2>1, <2>2, <2>3, <2>4, HandledKeeps
<1> QED
  BY <1>5, <1>6, <1>7, <1>8, <1>9 DEF Serve

\* What the requests are bound to, for any guards, handlers and roles.
LEMMA GuardsAlways == GuardsSpec => []GuardsInv
<1>1. GuardsInit => GuardsInv
  <2> SUFFICES ASSUME GuardsInit
               PROVE  GuardsInv
    OBVIOUS
  <2> DEFINE absent == [state |-> "absent"]
  <2>1. absent \in KeyRows /\ NoRequest \in GuardedRequests /\ NoRequest.pc = "idle"
    BY DEF KeyRows, GuardedRequests, NoRequest
  <2>2. GuardsShape
    BY <2>1 DEF GuardsInit, GuardsShape
  <2> QED
    BY <2>2 DEF GuardsInit, GuardsInv, RowsEnded, EndedStops
<1>2. GuardsInv /\ [GuardsNext]_guardVars => GuardsInv'
  <2> SUFFICES ASSUME GuardsInv, [GuardsNext]_guardVars
               PROVE  GuardsInv'
    OBVIOUS
  <2>1. CASE UNCHANGED guardVars
    BY <2>1 DEF guardVars, GuardsInv, GuardsShape, RowsEnded, EndedStops, Bound
  <2>2. ASSUME NEW m \in Members, RoleGiven(m) \/ RoleEnds(m)
        PROVE  GuardsInv'
    BY <2>2 DEF RoleGiven, RoleEnds, GuardsInv, GuardsShape, RowsEnded, EndedStops, Bound
  <2> QED
    BY <2>1, <2>2, GuardKeeps, ServeKeeps DEF GuardsNext
<1> QED
  BY <1>1, <1>2, PTL DEF GuardsSpec

(***************************************************************************)
(* A revoked key or a deactivated member is served in no more requests     *)
(* than had passed the read of it by then.                                 *)
(***************************************************************************)
THEOREM EndedAreStopped == GuardsSpec => []EndedStops
<1>1. GuardsInv => EndedStops
  BY DEF GuardsInv
<1> QED
  BY <1>1, GuardsAlways, PTL
-----------------------------------------------------------------------------
(***************************************************************************)
(* Whoever asks is known by the time a handler runs: of every route the    *)
(* guards end with a member, the bearer's or the one its key stands for.   *)
(***************************************************************************)
Identified(r) ==
    /\ r.pc = "handle" => r.left = <<>>
    /\ r.pc \in {"guards", "handle"} /\ r.key # 0 => r.member # 0
    /\ r.pc \in {"guards", "key_touched", "handle"} /\ r.member = 0 =>
          \E k \in DOMAIN r.left : r.left[k] = "org_member"
    /\ r.pc = "revoke_row" => r.member # 0

AllIdentified == \A c \in Guarded : Identified(request[c])

\* Every route is for members.
LEMMA RoutesAskForMember ==
    \A route : \E k \in DOMAIN GuardsOf(route) : GuardsOf(route)[k] = "org_member"
<1>1. \A route : GuardsOf(route) \in {<<"jwt", "org_member", "org_admin">>,
                                      <<"jwt", "jwt_or_api_key", "org_member">>,
                                      <<"jwt_or_api_key", "org_member">>, <<"jwt", "org_member">>}
  BY DEF GuardsOf
<1>2. \A list \in {<<"jwt", "org_member", "org_admin">>, <<"jwt_or_api_key", "org_member">>,
                   <<"jwt", "org_member">>} : 2 \in DOMAIN list /\ list[2] = "org_member"
  OBVIOUS
<1>3. \A list \in {<<"jwt", "jwt_or_api_key", "org_member">>} :
         3 \in DOMAIN list /\ list[3] = "org_member"
  OBVIOUS
<1> QED
  BY <1>1, <1>2, <1>3

\* A guard other than OrgMemberGuard leaves that one to come.
LEMMA PastGuardIdentified ==
    ASSUME NEW r \in GuardedRecords, r.left # <<>>
    PROVE  /\ PastGuard(r).pc \in {"guards", "handle"}
           /\ PastGuard(r).pc = "handle" => PastGuard(r).left = <<>>
           /\ Head(r.left) # "org_member" /\ (\E k \in DOMAIN r.left : r.left[k] = "org_member") =>
                 \E k \in DOMAIN PastGuard(r).left : PastGuard(r).left[k] = "org_member"
<1> DEFINE tail == Tail(r.left)
           pc == IF Len(r.left) = 1 THEN "handle" ELSE "guards"
<1>1. PastGuard(r).left = tail /\ PastGuard(r).pc = pc
  BY DEF PastGuard, GuardedRecords
<1>2. r.left \in Seq(GuardNames) /\ Len(r.left) \in Nat /\ Len(r.left) # 0
  BY DEF GuardedRecords
<1>3. Len(tail) = Len(r.left) - 1 /\ tail \in Seq(GuardNames)
  BY <1>2
<1>4. Len(r.left) = 1 => tail = <<>>
  <2>1. Len(r.left) = 1 => ~ (Len(tail) \in Nat \ {0})
    BY <1>3
  <2> QED
    BY <1>3, <2>1, EmptySeq
<1>5. ASSUME Head(r.left) # "org_member", NEW k \in DOMAIN r.left, r.left[k] = "org_member"
      PROVE  \E j \in DOMAIN tail : tail[j] = "org_member"
  <2>1. k \in 1 .. Len(r.left) /\ k # 1
    BY <1>2, <1>5
  <2>2. k - 1 \in DOMAIN tail /\ tail[k - 1] = r.left[k]
    BY <1>2, <1>3, <2>1
  <2> QED
    BY <1>5, <2>2
<1> HIDE DEF tail
<1> QED
  BY <1>1, <1>4, <1>5

\* One request changes, and keeps to it.
LEMMA RequestIdentified ==
    ASSUME GuardsInv, AllIdentified, NEW c \in Guarded, NEW r, Identified(r),
           request' = [request EXCEPT ![c] = r]
    PROVE  AllIdentified'
<1>1. request'[c] = r /\ \A d \in Guarded : d # c => request'[d] = request[d]
  BY DEF GuardsInv, GuardsShape
<1> QED
  BY <1>1 DEF AllIdentified

\* No guard lets go of who asks.
LEMMA GuardIdentifies ==
    ASSUME GuardsInv, AllIdentified, NEW c \in Guarded, Guard(c)
    PROVE  AllIdentified'
<1>1. request[c] \in GuardedRequests /\ Identified(request[c]) /\ active \subseteq Members
      /\ GuardsShape
  BY DEF GuardsInv, GuardsShape, AllIdentified
<1>2. 0 \notin Members
  BY GuardsAssumption
<1>3. ASSUME NEW route \in Routes, NEW o \in Orgs, NEW b \in Subjects, Receive(c, route, o, b)
      PROVE  AllIdentified'
  <2>1. PICK r : r = [pc |-> "guards", route |-> route, left |-> GuardsOf(route), org |-> o,
                      bearer |-> b, key |-> 0, member |-> 0]
    OBVIOUS
  <2>2. r.pc = "guards" /\ r.key = 0 /\ r.left = GuardsOf(route)
    BY <2>1
  <2>3. Identified(r)
    BY <2>2, RoutesAskForMember DEF Identified
  <2>4. request' = [request EXCEPT ![c] = r]
    BY <1>3, <2>1 DEF Receive
  <2> QED
    BY <2>3, <2>4, RequestIdentified
<1>4. ASSUME JwtAuthGuard(c) \/ OrgAdminGuard(c)
      PROVE  AllIdentified'
  <2>1. /\ request[c].pc = "guards" /\ request[c].left # <<>>
        /\ Head(request[c].left) # "org_member"
        /\ request' = [request EXCEPT ![c] = PastGuard(request[c])]
    BY <1>4 DEF JwtAuthGuard, OrgAdminGuard, Faces
  <2>2. request[c] \in GuardedRecords
    BY <1>1, <2>1, RequestShape
  <2>3. /\ PastGuard(request[c]).key = request[c].key
        /\ PastGuard(request[c]).member = request[c].member
    BY <2>1, <2>2, PastGuardTyped
  <2>4. Identified(PastGuard(request[c]))
    BY <1>1, <2>1, <2>2, <2>3, PastGuardIdentified DEF Identified
  <2> QED
    BY <2>1, <2>4, RequestIdentified
<1>5. ASSUME ValidateBearerToken(c)
      PROVE  AllIdentified'
  <2>1. PICK r : r = [request[c] EXCEPT !.pc = "key_touched", !.key = request[c].bearer]
    OBVIOUS
  <2>2. request[c].pc = "guards" /\ request' = [request EXCEPT ![c] = r]
    BY <1>5, <2>1 DEF ValidateBearerToken, Faces
  <2>3. request[c] \in GuardedRecords
    BY <1>1, <2>2, RequestShape
  <2>4. r.pc = "key_touched" /\ r.left = request[c].left /\ r.member = request[c].member
    BY <2>1, <2>3 DEF GuardedRecords
  <2>5. Identified(r)
    BY <1>1, <2>2, <2>4 DEF Identified
  <2> QED
    BY <2>2, <2>5, RequestIdentified
<1>6. ASSUME NEW m \in Members, request[c].pc \in {"guards", "key_touched"}, request[c].left # <<>>,
             request' = [request EXCEPT ![c] = [PastGuard(request[c]) EXCEPT !.member = m]]
      PROVE  AllIdentified'
  <2>1. PICK r : r = [PastGuard(request[c]) EXCEPT !.member = m]
    OBVIOUS
  <2>2. request[c] \in GuardedRecords
    BY <1>1, <1>6, RequestShape
  <2>3. PastGuard(request[c]) \in GuardedRecords
    BY <1>6, <2>2, PastGuardTyped
  <2>4. r.member = m /\ r.pc = PastGuard(request[c]).pc /\ r.left = PastGuard(request[c]).left
    BY <2>1, <2>3 DEF GuardedRecords
  <2>5. Identified(r)
    BY <1>2, <1>6, <2>2, <2>4, PastGuardIdentified DEF Identified
  <2> QED
    BY <1>6, <2>1, <2>5, RequestIdentified
<1>7. ASSUME ApiKeyAuthGuard(c)
      PROVE  AllIdentified'
  <2>1. PICK m \in holders \intersect active :
          request' = [request EXCEPT ![c] = [PastGuard(@) EXCEPT !.member = m]]
    BY <1>7 DEF ApiKeyAuthGuard
  <2>2. request[c].pc = "key_touched" /\ request[c].left # <<>>
    BY <1>1, <1>7 DEF ApiKeyAuthGuard, GuardsShape
  <2> QED
    BY <1>1, <1>6, <2>1, <2>2
<1>8. ASSUME OrgMemberGuard(c)
      PROVE  AllIdentified'
  <2>1. request[c].pc = "guards" /\ request[c].left # <<>>
    BY <1>8 DEF OrgMemberGuard, Faces
  <2>2. request[c] \in GuardedRecords
    BY <1>1, <2>1, RequestShape
  <2>3. CASE request[c].key # 0 /\ request' = [request EXCEPT ![c] = PastGuard(request[c])]
    <3>1. PastGuard(request[c]).member = request[c].member
      BY <2>1, <2>2, PastGuardTyped
    <3>2. Identified(PastGuard(request[c]))
      BY <1>1, <2>1, <2>2, <2>3, <3>1, PastGuardIdentified DEF Identified
    <3> QED
      BY <2>3, <3>2, RequestIdentified
  <2>4. CASE /\ request[c].bearer \in active
             /\ request' = [request EXCEPT ![c] = [PastGuard(request[c]) EXCEPT
                                                      !.member = request[c].bearer]]
    BY <1>1, <1>6, <2>1, <2>4
  <2> QED
    BY <1>8, <2>3, <2>4 DEF OrgMemberGuard
<1>9. ASSUME Refused(c)
      PROVE  AllIdentified'
  BY <1>9, RequestIdentified DEF Refused, NoRequest, Identified
<1> QED
  BY <1>3, <1>4, <1>5, <1>7, <1>8, <1>9 DEF Guard

\* A handler is done with its request, or goes on for its member.
LEMMA ServeIdentifies ==
    ASSUME GuardsInv, AllIdentified, NEW c \in Guarded, Serve(c)
    PROVE  AllIdentified'
<1>1. request[c] \in GuardedRequests /\ Identified(request[c])
  BY DEF GuardsInv, GuardsShape, AllIdentified
<1>2. Identified(NoRequest)
  BY DEF NoRequest, Identified
<1>3. ASSUME NEW k \in Keys, FindKey(c, k)
      PROVE  AllIdentified'
  <2>1. PICK r : r = [pc |-> "revoke_row", target |-> k, key |-> 0, member |-> request[c].member]
    OBVIOUS
  <2>2. request[c].pc = "handle" /\ request' = [request EXCEPT ![c] = r]
    BY <1>3, <2>1 DEF FindKey, Serves
  <2>3. request[c].member # 0
    <3>1. request[c].left = <<>>
      BY <1>1, <2>2 DEF Identified
    <3>2. \A k1 : k1 \notin DOMAIN request[c].left
      BY <3>1
    <3> QED
      BY <1>1, <2>2, <3>2 DEF Identified
  <2>4. r.pc = "revoke_row" /\ r.member # 0
    BY <2>1, <2>3
  <2>5. Identified(r)
    BY <2>4 DEF Identified
  <2> QED
    BY <2>2, <2>5, RequestIdentified
<1>4. CASE request' = [request EXCEPT ![c] = NoRequest]
  BY <1>2, <1>4, RequestIdentified
<1> QED
  BY <1>3, <1>4 DEF Serve, HandleElsewhere, CreateKey, RevokeKey, DeactivateMember, Handled,
                    HandledEnding

\* The handlers of every route, for any keys and members, run for a member.
LEMMA IdentifiedAlways == GuardsSpec => []AllIdentified
<1>1. GuardsInit => AllIdentified
  BY DEF GuardsInit, AllIdentified, Identified, NoRequest
<1>2. GuardsInv /\ AllIdentified /\ [GuardsNext]_guardVars => AllIdentified'
  <2> SUFFICES ASSUME GuardsInv, AllIdentified, [GuardsNext]_guardVars
               PROVE  AllIdentified'
    OBVIOUS
  <2>1. CASE UNCHANGED request
    BY <2>1 DEF AllIdentified
  <2> QED
    BY <2>1, GuardIdentifies, ServeIdentifies DEF GuardsNext, guardVars, RoleGiven, RoleEnds
<1> QED
  BY <1>1, <1>2, GuardsAlways, PTL DEF GuardsSpec

\* With it the requests have their types.
LEMMA GuardsTyped == GuardsInv /\ AllIdentified => GuardsTypeOK
<1> SUFFICES ASSUME GuardsInv, AllIdentified
             PROVE  GuardsTypeOK
  OBVIOUS
<1>1. ASSUME NEW c \in Guarded
      PROVE  request[c] \in RequestRecords
  <2>1. request[c] \in GuardedRequests /\ Identified(request[c])
    BY DEF GuardsInv, GuardsShape, AllIdentified
  <2>2. CASE request[c] \in GuardedRecords
    BY <2>2 DEF GuardedRecords, RequestRecords
  <2>3. CASE request[c] \in RevokingRecords
    <3>1. request[c].member \in Members
      BY <2>1, <2>3 DEF RevokingRecords, Identified
    <3> QED
      BY <2>3, <3>1 DEF RevokingRecords, RequestRecords
  <2> QED
    BY <2>1, <2>2, <2>3 DEF GuardedRequests, RequestRecords
<1> QED
  BY <1>1 DEF GuardsInv, GuardsShape, GuardsTypeOK
-----------------------------------------------------------------------------
(***************************************************************************)
(* The hourly limit, for any number of concurrent requests, any limit and  *)
(* any prices.                                                             *)
(***************************************************************************)
\* The sets of calls in given steps are finite, and together no more than Calls.
LEMMA StepsFinite ==
    /\ IsFiniteSet(Uncounted) /\ Cardinality(Uncounted) \in Nat
    /\ IsFiniteSet(Passed) /\ Cardinality(Passed) \in Nat
    /\ Cardinality(Calls) \in Nat
    /\ Cardinality(Passed) <= Cardinality(Calls)
<1>1. IsFiniteSet(Calls)
  BY SpendAssumption
<1>2. Uncounted \in SUBSET Calls /\ Passed \in SUBSET Calls
  BY DEF Uncounted, Passed, InStep
<1>3. \A S \in SUBSET Calls : IsFiniteSet(S) /\ Cardinality(S) <= Cardinality(Calls)
  BY <1>1, FS_Subset
<1>4. \A S : IsFiniteSet(S) => Cardinality(S) \in Nat
  BY FS_CardinalityType
<1> QED
  BY <1>1, <1>2, <1>3, <1>4

\* A call in neither set leaves room for itself.
LEMMA RoomForOne ==
    ASSUME NEW c \in Calls, c \notin Uncounted, c \notin Passed
    PROVE  Cardinality(Uncounted) + Cardinality(Passed) + 1 <= Cardinality(Calls)
<1> DEFINE Both == Uncounted \union Passed
<1>1. Both \union {c} \in SUBSET Calls
  BY DEF Uncounted, Passed, InStep
<1>2. Uncounted \intersect Passed = {}
  BY DEF Uncounted, Passed, InStep
<1>3. IsFiniteSet(Both) /\ Cardinality(Both) = Cardinality(Uncounted) + Cardinality(Passed)
  <2>1. /\ IsFiniteSet(Both)
        /\ Cardinality(Both) = Cardinality(Uncounted) + Cardinality(Passed) - Cardinality({})
    BY <1>2, StepsFinite, FS_Union
  <2> QED
    BY <2>1, StepsFinite, FS_EmptySet
<1>4. Cardinality(Both \union {c}) = Cardinality(Both) + 1
  BY <1>3, FS_AddElement
<1>5. Cardinality(Both \union {c}) <= Cardinality(Calls)
  BY <1>1, SpendAssumption, FS_Subset
<1> QED
  BY <1>3, <1>4, <1>5

\* A call is allowed only within both limits: they are among the rules it is
\* evaluated under, whatever else the member's roles add.
LEMMA AllowedWithinLimits ==
    ASSUME NEW ctx, NEW rs \in RuleSets, evaluate(ctx, rs).decision = "ALLOW"
    PROVE  /\ ctx.dailyUsdSpent + ctx.amountUsd <= MaxUsd
           /\ ctx.txCountLastHour < MaxCount
<1> DEFINE daily == [type |-> "max_usd_per_day", maxUsd |-> MaxUsd]
           hourly == [type |-> "max_transactions_per_hour", maxCount |-> MaxCount]
<1>1. {1, 2} \subseteq DOMAIN rs /\ rs[1] = daily /\ rs[2] = hourly
  <2>1. CASE rs = Limits
    BY <2>1 DEF Limits
  <2>2. CASE rs # Limits
    <3>1. PICK n \in Approvers :
             rs = Append(Limits, [type |-> "require_approval", approverCount |-> n,
                                  approverRoleIds |-> {}])
      BY <2>2 DEF RuleSets
    <3> QED
      BY <3>1 DEF Limits
  <2> QED
    BY <2>1, <2>2
<1>2. rs # <<>>
  BY <1>1
<1>3. \A k \in {1, 2} : evaluateRule(ctx, rs[k]).decision # "DENY"
  <2> DEFINE results == [k \in DOMAIN rs |-> evaluateRule(ctx, rs[k])]
  <2>1. evaluate(ctx, rs) = mergeResults(results)
    BY <1>2 DEF evaluate
  <2>2. ~ Returned(results, "DENY")
    BY <2>1 DEF mergeResults, Deny
  <2>3. \A k \in {1, 2} : results[k].decision # "DENY"
    BY <1>1, <2>2 DEF Returned
  <2>4. \A k \in {1, 2} : results[k] = evaluateRule(ctx, rs[k])
    BY <1>1
  <2> QED
    BY <2>3, <2>4
<1>4. Passes(ctx, daily) /\ Passes(ctx, hourly)
  BY <1>1, <1>3 DEF evaluateRule, Deny
<1> QED
  BY <1>4 DEF Passes, MaxUsdPerDay, MaxTransactionsPerHour
-----------------------------------------------------------------------------
(* Types *)

\* The product of two naturals is one: dollars stay natural numbers.
LEMMA DollarsAreNatural == \A a, b \in Nat : a * b \in Nat
  OBVIOUS

\* Requests carry natural amounts, and prices are natural too.
LEMMA AmountsAreNatural ==
    /\ \A r \in Requests : r.native \in Nat
    /\ Prices \union {Unavailable} \subseteq Nat
    /\ Amounts \subseteq Nat
<1>1. Amounts \subseteq Nat /\ \A p \in Prices : p \in Nat
  BY SpendAssumption
<1>2. ASSUME NEW r \in Requests
      PROVE  r.native \in Amounts \/ r.native = 0
  <2>1. CASE r \in [intentAction : {"transfer"}, native : Amounts]
    BY <2>1
  <2>2. CASE r \in [intentAction : {"deploy"}, native : {0}]
    BY <2>2
  <2> QED
    BY <2>1, <2>2 DEF Requests
<1>3. ASSUME NEW r \in Requests
      PROVE  r.native \in Nat
  <2>1. CASE r.native \in Amounts
    BY <1>1, <2>1
  <2>2. CASE r.native = 0
    BY <2>2
  <2> QED
    BY <1>2, <2>1, <2>2
<1>4. Prices \union {Unavailable} \subseteq Nat
  BY <1>1 DEF Unavailable
<1> QED
  BY <1>1, <1>3, <1>4

\* A call that starts, or reads its counters, keeps its frame well typed.
LEMMA TypeEvaluating ==
    ASSUME SpendTypeOK, NEW c \in Calls,
           \/ \E q \in Requests, set \in RuleSets : BeginCreate(c, q, set)
           \/ ReadUsd(c)
           \/ Evaluate(c)
    PROVE  SpendTypeOK'
<1>1. ASSUME NEW q \in Requests, NEW set \in RuleSets, BeginCreate(c, q, set)
      PROVE  SpendTypeOK'
  <2>1. q.native * price \in Nat
    BY AmountsAreNatural, DollarsAreNatural DEF SpendTypeOK
  <2> DEFINE frame == [pc |-> "read_usd", request |-> q, rules |-> set,
                       usd |-> q.native * price, spent |-> 0]
  <2>2. frame \in CallRecords
    BY <2>1 DEF CallRecords
  <2>3. call' = [call EXCEPT ![c] = frame]
    BY <1>1 DEF BeginCreate
  <2> QED
    BY <1>1, <2>2, <2>3 DEF BeginCreate, SpendTypeOK
<1>2. CASE ReadUsd(c)
  <2>1. call[c] \in [pc : {"read_usd", "evaluate"}, request : Requests, rules : RuleSets,
                      usd : Nat, spent : Nat]
    BY <1>2 DEF ReadUsd, At, SpendTypeOK, CallRecords, Idle
  <2>2. counter.usd \in Nat
    BY DEF SpendTypeOK, Sums
  <2>3. [call[c] EXCEPT !.pc = "evaluate", !.spent = counter.usd] \in CallRecords
    BY <2>1, <2>2 DEF CallRecords
  <2>4. call' = [call EXCEPT ![c] = [call[c] EXCEPT !.pc = "evaluate", !.spent = counter.usd]]
    BY <1>2 DEF ReadUsd, SpendTypeOK
  <2> QED
    BY <1>2, <2>3, <2>4 DEF ReadUsd, SpendTypeOK
<1>3. CASE Evaluate(c)
  <2>1. call[c].request \in Requests
    BY <1>3 DEF Evaluate, At, SpendTypeOK, CallRecords, Idle
  <2>2. \/ call' = [call EXCEPT ![c] = [pc |-> "insert", usd |-> 0]]
        \/ /\ call[c].request.intentAction # "deploy"
           /\ call' = [call EXCEPT ![c] = [pc |-> "price_again", native |-> call[c].request.native]]
        \/ call' = [call EXCEPT ![c] = Idle]
    BY <1>3 DEF Evaluate, Return, SpendTypeOK
  <2>3. call[c].request.intentAction # "deploy" => call[c].request.native \in Amounts
    BY <2>1 DEF Requests
  <2>4. call' \in [Calls -> CallRecords]
    BY <2>2, <2>3 DEF SpendTypeOK, CallRecords
  <2> QED
    BY <1>3, <2>4 DEF Evaluate, SpendTypeOK
<1> QED
  BY <1>1, <1>2, <1>3

\* So does a call that stores and counts its intent.
LEMMA TypeStoring ==
    ASSUME SpendTypeOK, NEW c \in Calls,
           \/ PriceAgain(c) \/ InsertIntent(c) \/ InsertUnpriced(c)
           \/ IncrementDailyUsd(c) \/ IncrementHourlyTx(c) \/ CallFails(c)
    PROVE  SpendTypeOK'
<1> DEFINE Storing == [pc : {"insert", "count_usd", "count_tx"}, usd : Nat]
<1>1. call[c].pc \in {"insert", "count_usd", "count_tx"} => call[c] \in Storing
  BY DEF SpendTypeOK, CallRecords, Idle
<1>2. \A f \in Storing : f \in CallRecords
  BY DEF CallRecords
<1>3. Idle \in CallRecords
  BY DEF CallRecords
<1>4. CASE PriceAgain(c)
  <2>1. call[c].native \in Amounts
    BY <1>4 DEF PriceAgain, At, SpendTypeOK, CallRecords, Idle
  <2>2. call[c].native * price \in Nat
    BY <2>1, AmountsAreNatural, DollarsAreNatural DEF SpendTypeOK
  <2>3. \/ call' = [call EXCEPT ![c] = [pc |-> "insert", usd |-> call[c].native * price]]
        \/ call' = [call EXCEPT ![c] = [pc |-> "insert_unpriced"]]
    BY <1>4 DEF PriceAgain, SpendTypeOK
  <2>4. [pc |-> "insert_unpriced"] \in CallRecords
    BY DEF CallRecords
  <2>5. call' \in [Calls -> CallRecords]
    BY <1>2, <2>2, <2>3, <2>4 DEF SpendTypeOK
  <2> QED
    BY <1>4, <2>5 DEF PriceAgain, SpendTypeOK
<1>5. CASE InsertIntent(c) \/ IncrementDailyUsd(c)
  <2>1. call[c] \in Storing
    BY <1>1, <1>5 DEF InsertIntent, IncrementDailyUsd, At
  <2>2. \A step \in {"count_usd", "count_tx"} : [call[c] EXCEPT !.pc = step] \in CallRecords
    BY <1>2, <2>1
  <2>3. \E step \in {"count_usd", "count_tx"} :
           call' = [call EXCEPT ![c] = [call[c] EXCEPT !.pc = step]]
    BY <1>5 DEF InsertIntent, IncrementDailyUsd, Goto, SpendTypeOK
  <2>4. call' \in [Calls -> CallRecords]
    BY <2>2, <2>3 DEF SpendTypeOK
  <2>5. counter' \in Sums /\ stored' \in Sums
    BY <1>5, <2>1 DEF InsertIntent, IncrementDailyUsd, SpendTypeOK, Sums
  <2> QED
    BY <1>5, <2>4, <2>5 DEF InsertIntent, IncrementDailyUsd, SpendTypeOK
<1>6. CASE IncrementHourlyTx(c)
  BY <1>3, <1>6 DEF IncrementHourlyTx, Return, SpendTypeOK, Sums
<1>7. CASE CallFails(c)
  <2>1. missed' \in Sums
    BY <1>1, <1>7 DEF CallFails, At, SpendTypeOK, Sums
  <2> QED
    BY <1>3, <1>7, <2>1 DEF CallFails, Return, SpendTypeOK
<1>8. CASE InsertUnpriced(c)
  BY <1>3, <1>8 DEF InsertUnpriced, Return, SpendTypeOK, Sums
<1> QED
  BY <1>4, <1>5, <1>6, <1>7, <1>8

\* Every step keeps the types.
LEMMA TypeStep == SpendTypeOK /\ [SpendNext]_spendVars => SpendTypeOK'
<1> SUFFICES ASSUME SpendTypeOK, [SpendNext]_spendVars
             PROVE  SpendTypeOK'
  OBVIOUS
<1>1. ASSUME NEW c \in Calls, Create(c)
      PROVE  SpendTypeOK'
  BY <1>1, TypeEvaluating, TypeStoring DEF Create
<1>2. CASE PriceMoves
  BY <1>2 DEF PriceMoves, SpendTypeOK
<1>3. CASE NewHour
  BY <1>3 DEF NewHour, SpendTypeOK, Sums
<1>4. CASE NewDay
  BY <1>4 DEF NewDay, SpendTypeOK, Sums
<1>5. CASE UNCHANGED spendVars
  BY <1>5 DEF spendVars, SpendTypeOK
<1> QED
  BY <1>1, <1>2, <1>3, <1>4, <1>5 DEF SpendNext
-----------------------------------------------------------------------------
(* The hourly invariant *)

\* What the steps do to the two sets: a call joins Passed when it is allowed,
\* moves to Uncounted when its intent is stored, and leaves when it is counted.
LEMMA Moves ==
    ASSUME SpendTypeOK, NEW c \in Calls, NEW step,
           call' = [call EXCEPT ![c] = step]
    PROVE  /\ step.pc \in {"count_usd", "count_tx"} => Uncounted' = Uncounted \union {c}
           /\ step.pc \notin {"count_usd", "count_tx"} => Uncounted' = Uncounted \ {c}
           /\ step.pc \in {"price_again", "insert", "insert_unpriced"} => Passed' = Passed \union {c}
           /\ step.pc \notin {"price_again", "insert", "insert_unpriced"} => Passed' = Passed \ {c}
  BY DEF SpendTypeOK, Uncounted, Passed, InStep

\* One element more, one element less.
LEMMA Joined ==
    ASSUME NEW S, NEW T, NEW c, IsFiniteSet(S), c \notin S, T = S \union {c}
    PROVE  Cardinality(T) = Cardinality(S) + 1
  BY FS_AddElement

LEMMA Departed ==
    ASSUME NEW S, NEW T, NEW c, IsFiniteSet(S), c \in S, T = S \ {c}
    PROVE  Cardinality(T) = Cardinality(S) - 1
  BY FS_RemoveElement

\* The arithmetic of the invariant, apart from the types.
Counts ==
    /\ stored.tx \in Nat /\ counter.tx \in Nat /\ missed.tx \in Nat
    /\ Cardinality(Uncounted) \in Nat /\ Cardinality(Passed) \in Nat
    /\ Cardinality(Calls) \in Nat /\ MaxCount \in Nat \ {0}

LEMMA Counting == SpendTypeOK => Counts
  BY StepsFinite, SpendAssumption DEF SpendTypeOK, Sums, Counts

\* Evaluating a request: it passes only where there is room for it.
LEMMA HourlyEvaluate ==
    ASSUME HourlyInv, NEW c \in Calls, Evaluate(c)
    PROVE  TxCounted' /\ stored'.tx + Cardinality(Passed') <=
                            MaxCount + (Cardinality(Calls) - 1) + missed'.tx
<1> USE DEF HourlyInv
<1>0. SpendTypeOK
  OBVIOUS
<1>1. c \notin Uncounted /\ c \notin Passed
  BY DEF Evaluate, At, Uncounted, Passed, InStep
<1>2. stored' = stored /\ counter' = counter /\ missed' = missed
  BY DEF Evaluate
<1>3. Counts
  BY Counting
<1>4. CASE evaluate(Context(c), call[c].rules).decision = "ALLOW"
  <2>1. counter.tx < MaxCount
    <3>1. call[c].rules \in RuleSets
      BY DEF Evaluate, At, SpendTypeOK, CallRecords, Idle
    <3>2. Context(c).txCountLastHour < MaxCount
      BY <1>4, <3>1, AllowedWithinLimits
    <3> QED
      BY <3>2 DEF Context
  <2> DEFINE step == IF call[c].request.intentAction = "deploy"
                     THEN [pc |-> "insert", usd |-> 0]
                     ELSE [pc |-> "price_again", native |-> call[c].request.native]
  <2>2. call' = [call EXCEPT ![c] = step] /\ step.pc \in {"price_again", "insert", "insert_unpriced"}
    BY <1>4 DEF Evaluate, SpendTypeOK
  <2> HIDE DEF step
  <2>3. Uncounted' = Uncounted \ {c} /\ Passed' = Passed \union {c}
    BY <1>0, <2>2, Moves
  <2>4. Uncounted' = Uncounted
    BY <1>1, <2>3
  <2>5. Cardinality(Uncounted') = Cardinality(Uncounted)
    BY <2>4, Zenon
  <2>6. Cardinality(Passed') = Cardinality(Passed) + 1
    BY <1>1, <2>3, StepsFinite, Joined
  <2>7. Cardinality(Uncounted) + Cardinality(Passed) + 1 <= Cardinality(Calls)
    BY <1>1, RoomForOne
  <2> QED
    BY <1>2, <1>3, <2>1, <2>5, <2>6, <2>7 DEF TxCounted, Counts
<1>5. CASE evaluate(Context(c), call[c].rules).decision # "ALLOW"
  <2>1. call' = [call EXCEPT ![c] = Idle] /\ Idle.pc = "idle"
    BY <1>5 DEF Evaluate, Return, Idle
  <2>2. Uncounted' = Uncounted \ {c} /\ Passed' = Passed \ {c}
    BY <1>0, <2>1, Moves
  <2>3. Uncounted' = Uncounted /\ Passed' = Passed
    BY <1>1, <2>2
  <2>4. Cardinality(Uncounted') = Cardinality(Uncounted) /\ Cardinality(Passed') = Cardinality(Passed)
    BY <2>3, Zenon
  <2> QED
    BY <1>2, <1>3, <2>4 DEF TxCounted, Counts
<1> QED
  BY <1>4, <1>5

\* A step that moves no call between the sets and no count of transactions.
LEMMA HourlyUntouched ==
    ASSUME HourlyInv, Uncounted' = Uncounted, Passed' = Passed,
           stored'.tx = stored.tx, counter'.tx = counter.tx, missed'.tx = missed.tx
    PROVE  TxCounted' /\ stored'.tx + Cardinality(Passed') <=
                            MaxCount + (Cardinality(Calls) - 1) + missed'.tx
<1>1. Cardinality(Uncounted') = Cardinality(Uncounted) /\ Cardinality(Passed') = Cardinality(Passed)
  BY Zenon
<1>2. Counts
  BY Counting DEF HourlyInv
<1> QED
  BY <1>1, <1>2 DEF HourlyInv, TxCounted, Counts

\* The other steps of a call: from the start to the insert, and counting.
LEMMA HourlyCall ==
    ASSUME HourlyInv, NEW c \in Calls,
           \/ \E q \in Requests, set \in RuleSets : BeginCreate(c, q, set)
           \/ ReadUsd(c) \/ PriceAgain(c) \/ InsertIntent(c) \/ InsertUnpriced(c)
           \/ IncrementDailyUsd(c) \/ IncrementHourlyTx(c) \/ CallFails(c)
    PROVE  TxCounted' /\ stored'.tx + Cardinality(Passed') <=
                            MaxCount + (Cardinality(Calls) - 1) + missed'.tx
<1> DEFINE Goal == TxCounted' /\ stored'.tx + Cardinality(Passed') <=
                                   MaxCount + (Cardinality(Calls) - 1) + missed'.tx
<1>1. SpendTypeOK /\ Counts
  BY Counting DEF HourlyInv
<1>2. /\ c \in Uncounted <=> call[c].pc \in {"count_usd", "count_tx"}
      /\ c \in Passed <=> call[c].pc \in {"price_again", "insert", "insert_unpriced"}
  BY DEF Uncounted, Passed, InStep
<1>3. Idle.pc = "idle"
  BY DEF Idle
<1>4. ASSUME NEW q \in Requests, NEW set \in RuleSets, BeginCreate(c, q, set)
      PROVE  Goal
  <2> DEFINE frame == [pc |-> "read_usd", request |-> q, rules |-> set,
                       usd |-> q.native * price, spent |-> 0]
  <2>1. call' = [call EXCEPT ![c] = frame] /\ frame.pc = "read_usd"
    BY <1>4 DEF BeginCreate
  <2> HIDE DEF frame
  <2>2. Uncounted' = Uncounted \ {c} /\ Passed' = Passed \ {c}
    BY <1>1, <2>1, Moves
  <2>3. call[c].pc = "idle"
    BY <1>3, <1>4 DEF BeginCreate
  <2>4. Uncounted' = Uncounted /\ Passed' = Passed
    BY <1>2, <2>2, <2>3
  <2> QED
    BY <1>4, <2>4, HourlyUntouched DEF BeginCreate
<1>5. CASE ReadUsd(c)
  <2> DEFINE frame == [call[c] EXCEPT !.pc = "evaluate", !.spent = counter.usd]
  <2>1. call' = [call EXCEPT ![c] = frame]
    BY <1>1, <1>5 DEF ReadUsd, SpendTypeOK
  <2>2. frame.pc = "evaluate"
    BY <1>1, <1>5 DEF ReadUsd, At, SpendTypeOK, CallRecords, Idle
  <2> HIDE DEF frame
  <2>3. Uncounted' = Uncounted \ {c} /\ Passed' = Passed \ {c}
    BY <1>1, <2>1, <2>2, Moves
  <2>4. Uncounted' = Uncounted /\ Passed' = Passed
    BY <1>2, <1>5, <2>3 DEF ReadUsd, At
  <2> QED
    BY <1>5, <2>4, HourlyUntouched DEF ReadUsd
<1>6. CASE PriceAgain(c)
  <2>1. c \in Passed /\ c \notin Uncounted
    BY <1>2, <1>6 DEF PriceAgain, At
  <2> DEFINE frame == IF price = Unavailable
                      THEN [pc |-> "insert_unpriced"]
                      ELSE [pc |-> "insert", usd |-> call[c].native * price]
  <2>2. call' = [call EXCEPT ![c] = frame] /\ frame.pc \in {"insert", "insert_unpriced"}
    BY <1>1, <1>6 DEF PriceAgain, SpendTypeOK
  <2> HIDE DEF frame
  <2>3. Uncounted' = Uncounted \ {c} /\ Passed' = Passed \union {c}
    BY <1>1, <2>2, Moves
  <2>4. Uncounted' = Uncounted /\ Passed' = Passed
    BY <2>1, <2>3
  <2> QED
    BY <1>6, <2>4, HourlyUntouched DEF PriceAgain
<1>7. CASE InsertIntent(c)
  <2>1. c \in Passed /\ c \notin Uncounted
    BY <1>2, <1>7 DEF InsertIntent, At
  <2> DEFINE frame == [call[c] EXCEPT !.pc = "count_usd"]
  <2>2. call' = [call EXCEPT ![c] = frame]
    BY <1>1, <1>7 DEF InsertIntent, Goto, SpendTypeOK
  <2>3. frame.pc = "count_usd"
    BY <1>1, <1>7 DEF InsertIntent, At, SpendTypeOK, CallRecords, Idle
  <2> HIDE DEF frame
  <2>4. Uncounted' = Uncounted \union {c} /\ Passed' = Passed \ {c}
    BY <1>1, <2>2, <2>3, Moves
  <2>5. Cardinality(Uncounted') = Cardinality(Uncounted) + 1
    BY <2>1, <2>4, StepsFinite, Joined
  <2>6. Cardinality(Passed') = Cardinality(Passed) - 1
    BY <2>1, <2>4, StepsFinite, Departed
  <2>7. stored'.tx = stored.tx + 1 /\ counter' = counter /\ missed' = missed
    BY <1>7 DEF InsertIntent
  <2> QED
    BY <1>1, <2>5, <2>6, <2>7 DEF HourlyInv, TxCounted, Counts
<1>8. CASE IncrementDailyUsd(c)
  <2>1. c \in Uncounted /\ c \notin Passed
    BY <1>2, <1>8 DEF IncrementDailyUsd, At
  <2> DEFINE frame == [call[c] EXCEPT !.pc = "count_tx"]
  <2>2. call' = [call EXCEPT ![c] = frame]
    BY <1>1, <1>8 DEF IncrementDailyUsd, Goto, SpendTypeOK
  <2>3. frame.pc = "count_tx"
    BY <1>1, <1>8 DEF IncrementDailyUsd, At, SpendTypeOK, CallRecords, Idle
  <2> HIDE DEF frame
  <2>4. Uncounted' = Uncounted \union {c} /\ Passed' = Passed \ {c}
    BY <1>1, <2>2, <2>3, Moves
  <2>5. Uncounted' = Uncounted /\ Passed' = Passed
    BY <2>1, <2>4
  <2>6. counter'.tx = counter.tx
    BY <1>1, <1>8 DEF IncrementDailyUsd, SpendTypeOK, Sums
  <2> QED
    BY <1>8, <2>5, <2>6, HourlyUntouched DEF IncrementDailyUsd
<1>9. ASSUME IncrementHourlyTx(c) \/ CallFails(c)
      PROVE  Goal
  <2>1. Uncounted' = Uncounted \ {c} /\ Passed' = Passed \ {c}
    BY <1>1, <1>3, <1>9, Moves DEF IncrementHourlyTx, CallFails, Return
  <2>2. stored' = stored
    BY <1>9 DEF IncrementHourlyTx, CallFails
  <2>3. CASE c \in Uncounted
    <3>1. counter'.tx + missed'.tx = counter.tx + missed.tx + 1 /\ missed'.tx >= missed.tx
      BY <1>1, <1>2, <1>9, <2>3 DEF IncrementHourlyTx, CallFails, At, SpendTypeOK, Sums, Counts
    <3>2. counter'.tx \in Nat /\ missed'.tx \in Nat
      BY <1>1, <1>9, TypeStoring DEF SpendTypeOK, Sums
    <3>3. Cardinality(Uncounted') = Cardinality(Uncounted) - 1
      BY <2>1, <2>3, StepsFinite, Departed
    <3>4. Passed' = Passed
      BY <1>2, <2>1, <2>3
    <3>5. Cardinality(Passed') = Cardinality(Passed)
      BY <3>4, Zenon
    <3> QED
      BY <1>1, <2>2, <3>1, <3>2, <3>3, <3>5 DEF HourlyInv, TxCounted, Counts
  <2>4. CASE c \notin Uncounted
    <3>1. counter' = counter /\ missed' = missed
      BY <1>2, <1>9, <2>4 DEF IncrementHourlyTx, CallFails, At
    <3>2. Uncounted' = Uncounted
      BY <2>1, <2>4
    <3>3. Cardinality(Uncounted') = Cardinality(Uncounted)
      BY <3>2, Zenon
    <3>4. Cardinality(Passed') <= Cardinality(Passed) /\ Cardinality(Passed') \in Nat
      BY <2>1, StepsFinite, FS_Subset, FS_CardinalityType
    <3> QED
      BY <1>1, <2>2, <3>1, <3>3, <3>4 DEF HourlyInv, TxCounted, Counts
  <2> QED
    BY <2>3, <2>4
<1>10. CASE InsertUnpriced(c)
  <2>1. c \in Passed /\ c \notin Uncounted
    BY <1>2, <1>10 DEF InsertUnpriced, At
  <2>2. Uncounted' = Uncounted \ {c} /\ Passed' = Passed \ {c}
    BY <1>1, <1>3, <1>10, Moves DEF InsertUnpriced, Return
  <2>3. Uncounted' = Uncounted
    BY <2>1, <2>2
  <2>4. Cardinality(Uncounted') = Cardinality(Uncounted)
    BY <2>3, Zenon
  <2>5. Cardinality(Passed') = Cardinality(Passed) - 1
    BY <2>1, <2>2, StepsFinite, Departed
  <2>6. stored'.tx = stored.tx + 1 /\ counter' = counter /\ missed'.tx = missed.tx + 1
    BY <1>1, <1>10 DEF InsertUnpriced, SpendTypeOK, Sums
  <2> QED
    BY <1>1, <2>4, <2>5, <2>6 DEF HourlyInv, TxCounted, Counts
<1> QED
  BY <1>4, <1>5, <1>6, <1>7, <1>8, <1>9, <1>10

\* Every step keeps the hourly invariant; on the hour there is room for every
\* call that has already passed.
LEMMA HourlyStep == HourlyInv /\ [SpendNext]_spendVars => HourlyInv'
<1> SUFFICES ASSUME HourlyInv, [SpendNext]_spendVars
             PROVE  HourlyInv'
  OBVIOUS
<1> DEFINE Goal == TxCounted' /\ stored'.tx + Cardinality(Passed') <=
                                   MaxCount + (Cardinality(Calls) - 1) + missed'.tx
<1>1. SpendTypeOK'
  BY TypeStep DEF HourlyInv
<1>2. Counts
  BY Counting DEF HourlyInv
<1>3. ASSUME NEW c \in Calls, Create(c)
      PROVE  Goal
  BY <1>3, HourlyEvaluate, HourlyCall DEF Create
<1>4. ASSUME call' = call
      PROVE  Uncounted' = Uncounted /\ Passed' = Passed
  BY <1>4 DEF Uncounted, Passed, InStep
<1>5. ASSUME PriceMoves \/ UNCHANGED spendVars
      PROVE  Goal
  BY <1>4, <1>5, HourlyUntouched DEF PriceMoves, spendVars
<1>6. ASSUME NewHour \/ NewDay
      PROVE  Goal
  <2>1. Uncounted' = Uncounted /\ Passed' = Passed
    BY <1>4, <1>6 DEF NewHour, NewDay
  <2>2. Cardinality(Uncounted') = Cardinality(Uncounted) /\ Cardinality(Passed') = Cardinality(Passed)
    BY <2>1, Zenon
  <2>3. stored'.tx = 0 /\ counter'.tx = 0 /\ missed'.tx = 0
    BY <1>6 DEF NewHour, NewDay, HourlyInv, SpendTypeOK, Sums
  <2> QED
    BY <1>2, <2>2, <2>3, StepsFinite DEF TxCounted, Counts
<1>7. Goal
  BY <1>3, <1>5, <1>6 DEF SpendNext
<1> QED
  BY <1>1, <1>7 DEF HourlyInv

\* Calls, counters and the stored intents stay typed; what is stored this hour is
\* counted, uncounted or missed, and what has passed the limit fits above it.
THEOREM HourlyInvariant == SpendSpec => []HourlyInv
<1>1. SpendInit => HourlyInv
  <2> SUFFICES ASSUME SpendInit
               PROVE  HourlyInv
    OBVIOUS
  <2>1. SpendTypeOK
    BY DEF SpendInit, SpendTypeOK, CallRecords, Sums
  <2>2. Uncounted = {} /\ Passed = {}
    BY DEF SpendInit, Uncounted, Passed, InStep, Idle
  <2>3. Cardinality(Uncounted) = 0 /\ Cardinality(Passed) = 0
    BY <2>2, FS_EmptySet
  <2>4. stored.tx = 0 /\ counter.tx = 0 /\ missed.tx = 0
    BY DEF SpendInit
  <2> QED
    BY <2>1, <2>3, <2>4, Counting DEF HourlyInv, TxCounted, Counts
<1> QED
  BY <1>1, HourlyStep, PTL DEF SpendSpec

\* However many requests are evaluated at once, the transactions allowed and
\* stored within an hour exceed the hourly limit by at most the other requests
\* in flight, and what was never counted: for every limit and number of calls.
THEOREM HourlyLimit == SpendSpec => []HourlyOvershootBounded
<1>1. HourlyInv => HourlyOvershootBounded
  BY Counting DEF HourlyInv, HourlyOvershootBounded, Counts
<1> QED
  BY <1>1, HourlyInvariant, PTL
-----------------------------------------------------------------------------
(***************************************************************************)
(* The daily cap.  Dollars are added up over the calls: what a call owes   *)
(* the counter once its intent is stored, and what it may still store      *)
(* after its check.                                                        *)
(***************************************************************************)
\* There are calls, amounts and prices, and no end of neither.
SomeOfEach ==
    /\ Calls # {}
    /\ IsFiniteSet(Amounts) /\ Amounts # {}
    /\ IsFiniteSet(Prices) /\ Prices # {}

\* A call whose check let it pass may store its amount at the highest price.
MayStore(r) ==
    CASE r.pc = "evaluate" /\ r.spent + r.usd <= MaxUsd -> r.request.native * Max(Prices)
      [] r.pc = "price_again" -> r.native * Max(Prices)
      [] r.pc = "insert"      -> r.usd
      [] OTHER                -> 0

Owes(r) == IF r.pc = "count_usd" THEN r.usd ELSE 0

Held == [c \in Calls |-> MayStore(call[c])]
Owed == [c \in Calls |-> Owes(call[c])]

Total(v) == MapThenSumSet(LAMBDA c : v[c], Calls)

\* What a call holds is an amount at a price there is, and past its check within
\* the cap, but for the drift of the price.
Priced(r) ==
    /\ r.pc \in {"read_usd", "evaluate"} => \E p \in Prices : r.usd = r.request.native * p
    /\ r.pc = "price_again" => r.native * Max(Prices) <= MaxUsd + Drift
    /\ r.pc = "insert" => r.usd <= MaxUsd + Drift /\ r.usd <= Largest
    /\ r.pc = "count_usd" => r.usd <= Largest

DollarInv ==
    /\ SpendTypeOK
    /\ \A c \in Calls : Priced(call[c])
    /\ stored.usd <= counter.usd + Total(Owed) + missed.usd
    /\ stored.usd + Total(Held) <=
          MaxUsd + (Cardinality(Calls) - 1) * Largest + Drift + missed.usd
-----------------------------------------------------------------------------
(* Amounts and prices *)

\* More of the same price, or the same at a higher price, is no less.
LEMMA TimesGrows == \A a, b, c \in Nat : b <= c => a * b <= a * c /\ b * a <= c * a
<1> SUFFICES ASSUME NEW a \in Nat, NEW b \in Nat, NEW c \in Nat, b <= c
             PROVE  a * b <= a * c /\ b * a <= c * a
  OBVIOUS
<1>1. PICK d \in Nat : c = b + d
  <2>1. c - b \in Nat /\ c = b + (c - b)
    OBVIOUS
  <2> QED
    BY <2>1
<1>2. a * d \in Nat /\ a * b \in Nat
  BY DollarsAreNatural
<1>3. a * (b + d) = a * b + a * d /\ (b + d) * a = a * b + a * d /\ b * a = a * b
  OBVIOUS
<1> QED
  BY <1>1, <1>2, <1>3

LEMMA Extents ==
    ASSUME SomeOfEach
    PROVE  /\ Max(Amounts) \in Nat /\ \A a \in Amounts : a \in Nat /\ a <= Max(Amounts)
           /\ Max(Prices) \in Nat /\ Min(Prices) \in Nat /\ Min(Prices) <= Max(Prices)
           /\ \A p \in Prices : p \in Nat /\ p <= Max(Prices) /\ Min(Prices) <= p
<1>1. Amounts \subseteq Nat /\ Prices \subseteq Nat
  BY SpendAssumption
<1>2. Max(Amounts) \in Amounts /\ \A a \in Amounts : a <= Max(Amounts)
  BY <1>1, Extremes DEF SomeOfEach
<1>3. /\ Max(Prices) \in Prices /\ \A p \in Prices : p <= Max(Prices)
      /\ Min(Prices) \in Prices /\ \A p \in Prices : Min(Prices) <= p
  BY <1>1, Extremes DEF SomeOfEach
<1> QED
  BY <1>1, <1>2, <1>3

\* An amount at the highest price, and by how much that is more than at another.
LEMMA AtTheHighestPrice ==
    ASSUME SomeOfEach
    PROVE  /\ Largest \in Nat /\ Drift \in Nat
           /\ \A a \in Amounts \union {0} :
                 /\ a \in Nat /\ a * Max(Prices) \in Nat /\ a * Max(Prices) <= Largest
                 /\ \A p \in Prices :
                       /\ a * p \in Nat /\ a * p <= a * Max(Prices)
                       /\ a * Max(Prices) <= a * p + Drift
<1>1. /\ Max(Amounts) \in Nat /\ \A a \in Amounts : a \in Nat /\ a <= Max(Amounts)
      /\ Max(Prices) \in Nat /\ Min(Prices) \in Nat /\ Min(Prices) <= Max(Prices)
      /\ \A p \in Prices : p \in Nat /\ p <= Max(Prices) /\ Min(Prices) <= p
  BY Extents
<1>2. Max(Prices) - Min(Prices) \in Nat
  BY <1>1
<1>3. Largest \in Nat /\ Drift \in Nat
  BY <1>1, <1>2, DollarsAreNatural DEF Largest, Drift
<1>4. ASSUME NEW a \in Amounts \union {0}
      PROVE  /\ a \in Nat /\ a <= Max(Amounts)
             /\ a * Max(Prices) \in Nat /\ a * Max(Prices) <= Largest
  <2>1. a \in Nat /\ a <= Max(Amounts)
    BY <1>1
  <2> QED
    BY <1>1, <2>1, DollarsAreNatural, TimesGrows DEF Largest
<1>5. ASSUME NEW a \in Amounts \union {0}, NEW p \in Prices
      PROVE  /\ a * p \in Nat /\ a * p <= a * Max(Prices)
             /\ a * Max(Prices) <= a * p + Drift
  <2>1. /\ a \in Nat /\ a <= Max(Amounts) /\ p \in Nat /\ Max(Prices) \in Nat
        /\ p <= Max(Prices) /\ Max(Prices) - p \in Nat
        /\ Max(Prices) - p <= Max(Prices) - Min(Prices)
    BY <1>1, <1>4
  <2>2. a * p \in Nat /\ a * p <= a * Max(Prices)
    BY <2>1, DollarsAreNatural, TimesGrows
  <2>3. a * (Max(Prices) - p) <= Max(Amounts) * (Max(Prices) - p)
    BY <1>1, <2>1, TimesGrows
  <2>4. Max(Amounts) * (Max(Prices) - p) <= Drift
    BY <1>1, <1>2, <2>1, TimesGrows DEF Drift
  <2>5. /\ a * (Max(Prices) - p) \in Nat /\ Max(Amounts) * (Max(Prices) - p) \in Nat
        /\ a * Max(Prices) \in Nat
    BY <1>1, <2>1, DollarsAreNatural
  <2>6. \A x, y, z \in Int : x * (y - z) = x * y - x * z
    OBVIOUS
  <2>7. a * (Max(Prices) - p) = a * Max(Prices) - a * p
    BY <2>1, <2>6
  <2>8. a * Max(Prices) - a * p <= Drift
    BY <1>3, <2>3, <2>4, <2>5, <2>7
  <2> QED
    BY <1>3, <2>2, <2>5, <2>8
<1> QED
  BY <1>3, <1>4, <1>5
-----------------------------------------------------------------------------
(* Totals *)

LEMMA TotalIs ==
    ASSUME NEW v \in [Calls -> Nat]
    PROVE  \E it : SumsUp(it, v, Calls) /\ Total(v) = it[Calls] /\ Total(v) \in Nat
<1>1. PICK it : SumsUp(it, v, Calls) /\ MapThenSumSet(LAMBDA c : v[c], Calls) = it[Calls]
  BY SpendAssumption, SumIs
<1>2. it[Calls] \in Nat
  BY <1>1 DEF SumsUp
<1> QED
  BY <1>1, <1>2 DEF Total

\* One call changes a total by what it changes itself.
LEMMA TotalMoves ==
    ASSUME NEW v \in [Calls -> Nat], NEW w \in [Calls -> Nat], NEW c \in Calls,
           \A x \in Calls \ {c} : v[x] = w[x]
    PROVE  \E rest \in Nat : Total(v) = v[c] + rest /\ Total(w) = w[c] + rest
<1>1. PICK it : SumsUp(it, v, Calls) /\ Total(v) = it[Calls]
  BY TotalIs
<1>2. PICK other : SumsUp(other, w, Calls) /\ Total(w) = other[Calls]
  BY TotalIs
<1>3. /\ it[Calls \ {c}] \in Nat
      /\ it[Calls] = v[c] + it[Calls \ {c}]
      /\ other[Calls] = w[c] + it[Calls \ {c}]
  BY <1>1, <1>2, SpendAssumption, OneTermDiffers
<1> QED
  BY <1>1, <1>2, <1>3

\* Two totals are bounded by what one call adds to them and by what all others may.
LEMMA TotalsBounded ==
    ASSUME NEW v \in [Calls -> Nat], NEW w \in [Calls -> Nat], NEW c \in Calls, NEW B \in Nat,
           \A x \in Calls \ {c} : v[x] + w[x] <= B
    PROVE  /\ Total(v) + Total(w) <= v[c] + w[c] + (Cardinality(Calls) - 1) * B
           /\ (Cardinality(Calls) - 1) * B \in Nat /\ Total(v) \in Nat /\ Total(w) \in Nat
<1>1. PICK it : SumsUp(it, v, Calls) /\ Total(v) = it[Calls] /\ Total(v) \in Nat
  BY TotalIs
<1>2. PICK other : SumsUp(other, w, Calls) /\ Total(w) = other[Calls] /\ Total(w) \in Nat
  BY TotalIs
<1> DEFINE T == Calls \ {c}
<1>3. T \in SUBSET Calls /\ IsFiniteSet(Calls)
  BY SpendAssumption
<1>4. it[T] + other[T] <= Cardinality(T) * B
  <2>1. \A x \in T : v[x] \in Nat /\ w[x] \in Nat /\ v[x] + w[x] <= B
    OBVIOUS
  <2> HIDE DEF T
  <2> QED
    BY <1>1, <1>2, <1>3, <2>1, PairBound
<1>5. /\ it[Calls] = v[c] + it[T] /\ it[T] \in Nat
      /\ other[Calls] = w[c] + other[T] /\ other[T] \in Nat
  BY <1>1, <1>2 DEF SumsUp
<1>6. Cardinality(T) = Cardinality(Calls) - 1 /\ Cardinality(T) \in Nat
  BY <1>3, FS_RemoveElement, FS_CardinalityType, FS_Subset
<1>7. Cardinality(T) * B \in Nat
  BY <1>6, DollarsAreNatural
<1> HIDE DEF T
<1>8. v[c] \in Nat /\ w[c] \in Nat
  OBVIOUS
<1>9. \A p, q, a, b, m \in Nat : p + q <= m => (a + p) + (b + q) <= a + b + m
  OBVIOUS
<1>10. Total(v) + Total(w) <= v[c] + w[c] + Cardinality(T) * B
  BY <1>1, <1>2, <1>4, <1>5, <1>7, <1>8, <1>9
<1> QED
  BY <1>1, <1>2, <1>6, <1>7, <1>10

\* The dollars still to be counted are the total of what is owed.
LEMMA OwedIsUncounted ==
    ASSUME SpendTypeOK, Owed \in [Calls -> Nat]
    PROVE  UncountedUsd = Total(Owed)
<1> DEFINE R == InStep({"count_usd"})
           w == [c \in R |-> call[c].usd]
           Rec(it) == it = [s \in SUBSET R |->
                              IF s = {} THEN 0
                              ELSE call[CHOOSE x \in s : TRUE].usd
                                     + it[s \ {CHOOSE x \in s : TRUE}]]
           RecW(it) == it = [s \in SUBSET R |->
                              IF s = {} THEN 0
                              ELSE w[CHOOSE x \in s : TRUE]
                                     + it[s \ {CHOOSE x \in s : TRUE}]]
<1>1. R \in SUBSET Calls /\ IsFiniteSet(R)
  BY SpendAssumption, FS_Subset DEF InStep
<1>2. \A c \in R : call[c].usd \in Nat /\ Owed[c] = call[c].usd
  BY DEF InStep, SpendTypeOK, CallRecords, Idle, Owed, Owes
<1>3. \A c \in Calls \ R : Owed[c] = 0
  BY DEF InStep, Owed, Owes
<1>4. w \in [R -> Nat]
  BY <1>2
<1>5. MapThenSumSet(LAMBDA c : call[c].usd, R) = MapThenSumSet(LAMBDA c : w[c], R)
  <2>1. \A s \in SUBSET R : s # {} => w[CHOOSE x \in s : TRUE] = call[CHOOSE x \in s : TRUE].usd
    OBVIOUS
  <2> HIDE DEF R, w
  <2>2. \A it : Rec(it) <=> RecW(it)
    BY <2>1
  <2>3. (CHOOSE it : Rec(it)) = (CHOOSE it : RecW(it))
    BY <2>2
  <2> QED
    BY <2>3 DEF MapThenSumSet, MapThenFoldSet
<1> HIDE DEF w
<1>6. PICK other : SumsUp(other, w, R) /\ MapThenSumSet(LAMBDA c : w[c], R) = other[R]
  BY <1>1, <1>4, SumIs
<1>7. PICK it : SumsUp(it, Owed, Calls) /\ Total(Owed) = it[Calls]
  BY TotalIs
<1>8. \A c \in R : Owed[c] = w[c]
  BY <1>2 DEF w
<1>9. it[Calls] = other[R]
  BY <1>1, <1>3, <1>6, <1>7, <1>8, SpendAssumption, SumOnSupport
<1> QED
  BY <1>5, <1>6, <1>7, <1>9 DEF UncountedUsd
-----------------------------------------------------------------------------
(* The invariant *)

\* The fields a call has at each step, and what they range over.
LEMMA CallFields ==
    ASSUME NEW r \in CallRecords
    PROVE  /\ r.pc \in {"read_usd", "evaluate"} =>
                 /\ r.request \in Requests /\ r.request.native \in Amounts \union {0}
                 /\ r.rules \in RuleSets /\ r.usd \in Nat /\ r.spent \in Nat
           /\ r.pc = "price_again" => r.native \in Amounts
           /\ r.pc \in {"insert", "count_usd", "count_tx"} => r.usd \in Nat
<1>1. \A q \in Requests : q.native \in Amounts \union {0}
  BY DEF Requests
<1>2. r.pc \in {"read_usd", "evaluate"} =>
         r.request \in Requests /\ r.rules \in RuleSets /\ r.usd \in Nat /\ r.spent \in Nat
  BY DEF CallRecords, Idle
<1>3. /\ r.pc = "price_again" => r.native \in Amounts
      /\ r.pc \in {"insert", "count_usd", "count_tx"} => r.usd \in Nat
  BY DEF CallRecords, Idle
<1> QED
  BY <1>1, <1>2, <1>3

\* What a call may store, and what it owes, is a natural number; together no more
\* than the largest transfer, and what it may store no more than the cap and the drift.
LEMMA Terms ==
    ASSUME SomeOfEach, NEW r \in CallRecords
    PROVE  /\ MayStore(r) \in Nat /\ Owes(r) \in Nat
           /\ Priced(r) => MayStore(r) + Owes(r) <= Largest /\ MayStore(r) <= MaxUsd + Drift
<1>1. /\ Largest \in Nat /\ Drift \in Nat /\ MaxUsd \in Nat
      /\ \A a \in Amounts \union {0} :
            /\ a * Max(Prices) \in Nat /\ a * Max(Prices) <= Largest
            /\ \A p \in Prices : a * Max(Prices) <= a * p + Drift
  BY AtTheHighestPrice, SpendAssumption
<1>2. CASE r.pc = "evaluate" /\ r.spent + r.usd <= MaxUsd
  <2>1. /\ r.request.native \in Amounts \union {0} /\ r.usd \in Nat /\ r.spent \in Nat
    BY <1>2, CallFields
  <2>2. MayStore(r) = r.request.native * Max(Prices) /\ Owes(r) = 0
    BY <1>2 DEF MayStore, Owes
  <2>3. r.request.native * Max(Prices) \in Nat /\ r.request.native * Max(Prices) <= Largest
    BY <1>1, <2>1
  <2>4. ASSUME Priced(r)
        PROVE  r.request.native * Max(Prices) <= MaxUsd + Drift
    <3>1. PICK p \in Prices : r.usd = r.request.native * p
      BY <1>2, <2>4 DEF Priced
    <3>2. r.request.native * Max(Prices) <= r.usd + Drift
      BY <1>1, <2>1, <3>1
    <3> QED
      BY <1>1, <1>2, <2>1, <2>3, <3>2
  <2> QED
    BY <1>1, <2>2, <2>3, <2>4
<1>3. CASE r.pc = "price_again"
  <2>1. r.native \in Amounts \union {0}
    BY <1>3, CallFields
  <2>2. MayStore(r) = r.native * Max(Prices) /\ Owes(r) = 0
    BY <1>3 DEF MayStore, Owes
  <2>3. r.native * Max(Prices) \in Nat /\ r.native * Max(Prices) <= Largest
    BY <1>1, <2>1
  <2>4. Priced(r) => r.native * Max(Prices) <= MaxUsd + Drift
    BY <1>3 DEF Priced
  <2> QED
    BY <1>1, <2>2, <2>3, <2>4
<1>4. CASE r.pc \in {"insert", "count_usd"}
  <2>1. r.usd \in Nat
    BY <1>4, CallFields
  <2> QED
    BY <1>1, <1>4, <2>1 DEF MayStore, Owes, Priced
<1>5. CASE /\ ~ (r.pc = "evaluate" /\ r.spent + r.usd <= MaxUsd)
           /\ r.pc \notin {"price_again", "insert", "count_usd"}
  <2>1. MayStore(r) = 0 /\ Owes(r) = 0
    BY <1>5 DEF MayStore, Owes
  <2> QED
    BY <1>1, <2>1
<1> QED
  BY <1>2, <1>3, <1>4, <1>5

\* The totals are of natural numbers.
LEMMA TotalsTyped ==
    ASSUME SomeOfEach, SpendTypeOK
    PROVE  /\ Held \in [Calls -> Nat] /\ Owed \in [Calls -> Nat]
           /\ Total(Held) \in Nat /\ Total(Owed) \in Nat
<1>1. \A c \in Calls : MayStore(call[c]) \in Nat /\ Owes(call[c]) \in Nat
  BY Terms DEF SpendTypeOK
<1>2. Held \in [Calls -> Nat] /\ Owed \in [Calls -> Nat]
  BY <1>1 DEF Held, Owed
<1> QED
  BY <1>2, TotalIs

\* A step of c to r stores no more than c might have, but for what is missed.
StoresNoMore(c, r) ==
    stored'.usd + MayStore(r) + missed.usd <= stored.usd + MayStore(call[c]) + missed'.usd

\* A step of c to r leaves what is stored counted, owed or missed.
OwesNoLess(c, r) ==
    stored'.usd + counter.usd + missed.usd + Owes(call[c]) <=
       stored.usd + counter'.usd + missed'.usd + Owes(r)

\* A step of one call that stores no more than it might have, and forgets nothing
\* it owes, keeps the invariant.
LEMMA CallKeeps ==
    ASSUME SomeOfEach, DollarInv, SpendTypeOK', NEW c \in Calls, NEW r \in CallRecords,
           call' = [call EXCEPT ![c] = r], Priced(r),
           StoresNoMore(c, r), OwesNoLess(c, r)
    PROVE  DollarInv'
<1>1. /\ call \in [Calls -> CallRecords] /\ call[c] \in CallRecords /\ call'[c] = r
      /\ \A x \in Calls \ {c} : call'[x] = call[x]
  BY DEF DollarInv, SpendTypeOK
<1>2. \A x \in Calls : Priced(call'[x])
  <2>1. \A x \in Calls : call'[x] = IF x = c THEN r ELSE call[x]
    BY <1>1
  <2>2. \A x \in Calls : Priced(call[x])
    BY DEF DollarInv
  <2> QED
    BY <2>1, <2>2
<1>3. /\ Held \in [Calls -> Nat] /\ Owed \in [Calls -> Nat]
  BY TotalsTyped DEF DollarInv
<1> DEFINE heldThen == [x \in Calls |-> MayStore(call'[x])]
           owedThen == [x \in Calls |-> Owes(call'[x])]
<1>4. heldThen \in [Calls -> Nat] /\ owedThen \in [Calls -> Nat]
  <2>1. \A x \in Calls : call'[x] \in CallRecords
    BY <1>1
  <2>2. \A x \in Calls : MayStore(call'[x]) \in Nat /\ Owes(call'[x]) \in Nat
    BY <2>1, Terms
  <2> QED
    BY <2>2
<1>5. /\ Held[c] = MayStore(call[c]) /\ heldThen[c] = MayStore(r)
      /\ Owed[c] = Owes(call[c]) /\ owedThen[c] = Owes(r)
      /\ \A x \in Calls \ {c} : Held[x] = heldThen[x] /\ Owed[x] = owedThen[x]
  BY <1>1 DEF Held, Owed
<1>6. Held' = heldThen /\ Owed' = owedThen
  BY DEF Held, Owed
<1> HIDE DEF heldThen, owedThen
<1>7. PICK h \in Nat : Total(Held) = MayStore(call[c]) + h /\ Total(heldThen) = MayStore(r) + h
  BY <1>3, <1>4, <1>5, TotalMoves
<1>8. PICK o \in Nat : Total(Owed) = Owes(call[c]) + o /\ Total(owedThen) = Owes(r) + o
  BY <1>3, <1>4, <1>5, TotalMoves
<1>9. /\ MayStore(call[c]) \in Nat /\ MayStore(r) \in Nat
      /\ Owes(call[c]) \in Nat /\ Owes(r) \in Nat
  BY <1>1, Terms
<1>10. /\ stored.usd \in Nat /\ counter.usd \in Nat /\ missed.usd \in Nat
       /\ stored'.usd \in Nat /\ counter'.usd \in Nat /\ missed'.usd \in Nat
  BY DEF DollarInv, SpendTypeOK, Sums
<1> DEFINE bound == MaxUsd + (Cardinality(Calls) - 1) * Largest + Drift
<1>11. bound \in Int
  <2>1. Cardinality(Calls) \in Nat /\ MaxUsd \in Nat /\ Largest \in Nat /\ Drift \in Nat
    BY StepsFinite, SpendAssumption, AtTheHighestPrice
  <2>2. (Cardinality(Calls) - 1) * Largest \in Int
    BY <2>1
  <2> QED
    BY <2>1, <2>2
<1>12. /\ stored.usd <= counter.usd + Total(Owed) + missed.usd
       /\ stored.usd + Total(Held) <= bound + missed.usd
  BY DEF DollarInv
<1> HIDE DEF bound
<1>13. stored'.usd <= counter'.usd + Total(owedThen) + missed'.usd
  BY <1>8, <1>9, <1>10, <1>12 DEF OwesNoLess
<1>14. stored'.usd + Total(heldThen) <= bound + missed'.usd
  BY <1>7, <1>9, <1>10, <1>11, <1>12 DEF StoresNoMore
<1> QED
  BY <1>2, <1>6, <1>13, <1>14 DEF DollarInv, bound

\* A step that touches no call and no dollars keeps the invariant, and so does midnight.
LEMMA CallsUntouched ==
    ASSUME SomeOfEach, DollarInv, SpendTypeOK', call' = call,
           \/ /\ stored'.usd = stored.usd /\ counter'.usd = counter.usd
              /\ missed'.usd = missed.usd
           \/ stored'.usd = 0 /\ counter'.usd = 0 /\ missed'.usd = 0
    PROVE  DollarInv'
<1>1. Held' = Held /\ Owed' = Owed
  BY DEF Held, Owed
<1>2. \A c \in Calls : Priced(call'[c])
  BY DEF DollarInv
<1>3. /\ Held \in [Calls -> Nat] /\ Owed \in [Calls -> Nat]
      /\ Total(Held) \in Nat /\ Total(Owed) \in Nat
  BY TotalsTyped DEF DollarInv
<1>4. /\ Cardinality(Calls) \in Nat /\ MaxUsd \in Nat /\ Largest \in Nat /\ Drift \in Nat
  BY StepsFinite, SpendAssumption, AtTheHighestPrice
<1>5. CASE /\ stored'.usd = stored.usd /\ counter'.usd = counter.usd
           /\ missed'.usd = missed.usd
  BY <1>1, <1>2, <1>5 DEF DollarInv
<1>6. CASE stored'.usd = 0 /\ counter'.usd = 0 /\ missed'.usd = 0
  <2>1. PICK c \in Calls : TRUE
    BY DEF SomeOfEach
  <2> DEFINE none == [x \in Calls |-> 0]
  <2>2. none \in [Calls -> Nat] /\ none[c] = 0
    OBVIOUS
  <2>3. \A x \in Calls : /\ Held[x] + none[x] <= Largest
                         /\ Held[x] <= MaxUsd + Drift /\ Held[x] \in Nat
    <3>1. ASSUME NEW x \in Calls
          PROVE  /\ MayStore(call[x]) <= Largest /\ MayStore(call[x]) <= MaxUsd + Drift
                 /\ MayStore(call[x]) \in Nat
      <4>1. call[x] \in CallRecords /\ Priced(call[x])
        BY DEF DollarInv, SpendTypeOK
      <4>2. /\ MayStore(call[x]) \in Nat /\ Owes(call[x]) \in Nat
            /\ MayStore(call[x]) + Owes(call[x]) <= Largest
            /\ MayStore(call[x]) <= MaxUsd + Drift
        BY <4>1, Terms
      <4> QED
        BY <1>4, <4>2
    <3>2. \A x \in Calls : Held[x] = MayStore(call[x]) /\ none[x] = 0
      BY DEF Held
    <3> QED
      BY <3>1, <3>2
  <2> HIDE DEF none
  <2>4. /\ Total(Held) + Total(none) <= Held[c] + none[c] + (Cardinality(Calls) - 1) * Largest
        /\ (Cardinality(Calls) - 1) * Largest \in Nat /\ Total(none) \in Nat
    BY <1>3, <1>4, <2>2, <2>3, TotalsBounded
  <2>5. Held[c] <= MaxUsd + Drift /\ Held[c] \in Nat
    BY <2>3
  <2>6. Total(Held) <= MaxUsd + (Cardinality(Calls) - 1) * Largest + Drift
    BY <1>3, <1>4, <2>2, <2>4, <2>5
  <2>7. /\ stored'.usd <= counter'.usd + Total(Owed) + missed'.usd
        /\ stored'.usd + Total(Held)
              <= MaxUsd + (Cardinality(Calls) - 1) * Largest + Drift + missed'.usd
    BY <1>3, <1>4, <1>6, <2>4, <2>6
  <2> QED
    BY <1>1, <1>2, <2>7 DEF DollarInv
<1> QED
  BY <1>5, <1>6

\* A call whose check passes leaves room for all that others may store or owe.
LEMMA ReadKeeps ==
    ASSUME SomeOfEach, DollarInv, SpendTypeOK', NEW c \in Calls, ReadUsd(c)
    PROVE  DollarInv'
<1>1. /\ call \in [Calls -> CallRecords] /\ call[c] \in CallRecords /\ call[c].pc = "read_usd"
      /\ \A x \in Calls : Priced(call[x])
  BY DEF DollarInv, SpendTypeOK, ReadUsd, At
<1>2. /\ stored' = stored /\ counter' = counter /\ missed' = missed
      /\ stored.usd \in Nat /\ counter.usd \in Nat /\ missed.usd \in Nat
  BY DEF ReadUsd, DollarInv, SpendTypeOK, Sums
<1>3. /\ Cardinality(Calls) \in Nat /\ MaxUsd \in Nat /\ Largest \in Nat /\ Drift \in Nat
  BY StepsFinite, SpendAssumption, AtTheHighestPrice
<1>4. PICK r : r = [call[c] EXCEPT !.pc = "evaluate", !.spent = counter.usd]
  OBVIOUS
<1>5. call[c] \in [pc : {"read_usd", "evaluate"}, request : Requests, rules : RuleSets,
                   usd : Nat, spent : Nat]
  BY <1>1 DEF CallRecords, Idle
<1>6. /\ r \in CallRecords /\ r.pc = "evaluate" /\ r.spent = counter.usd
      /\ r.usd = call[c].usd /\ r.request = call[c].request
  BY <1>2, <1>4, <1>5 DEF CallRecords
<1>7. call' = [call EXCEPT ![c] = r]
  BY <1>1, <1>4 DEF ReadUsd
<1>8. Priced(r)
  BY <1>1, <1>6 DEF Priced
<1>9. MayStore(call[c]) = 0 /\ Owes(call[c]) = 0 /\ Owes(r) = 0
  BY <1>1, <1>6 DEF MayStore, Owes
<1>10. CASE ~ (r.spent + r.usd <= MaxUsd)
  <2>1. MayStore(r) = 0
    BY <1>6, <1>10 DEF MayStore
  <2> QED
    <3>1. StoresNoMore(c, r) /\ OwesNoLess(c, r)
      BY <1>2, <1>6, <1>7, <1>8, <1>9, <2>1 DEF StoresNoMore, OwesNoLess
    <3> QED
      BY <1>2, <1>6, <1>7, <1>8, <1>9, <2>1, <3>1, CallKeeps
<1>11. CASE r.spent + r.usd <= MaxUsd
  <2>1. PICK p \in Prices : r.usd = r.request.native * p
    BY <1>6, <1>8 DEF Priced
  <2>2. /\ MayStore(r) = r.request.native * Max(Prices)
        /\ r.request.native \in Amounts \union {0} /\ r.usd \in Nat
    BY <1>6, <1>11, CallFields DEF MayStore
  <2>3. MayStore(r) <= r.usd + Drift /\ MayStore(r) \in Nat
    BY <2>1, <2>2, AtTheHighestPrice
  <2> DEFINE heldThen == [x \in Calls |-> MayStore(call'[x])]
             owedThen == [x \in Calls |-> Owes(call'[x])]
  <2>4. Held' = heldThen /\ Owed' = owedThen
    BY DEF Held, Owed
  <2>5. \A x \in Calls : call'[x] = IF x = c THEN r ELSE call[x]
    BY <1>1, <1>7
  <2>6. \A x \in Calls : /\ call'[x] \in CallRecords /\ Priced(call'[x])
                         /\ Owes(call'[x]) = Owes(call[x])
    BY <1>1, <1>6, <1>8, <1>9, <2>5
  <2>7. \A x \in Calls : /\ heldThen[x] \in Nat /\ Owed[x] \in Nat
                         /\ heldThen[x] + Owed[x] <= Largest
    <3>1. \A x \in Calls : /\ MayStore(call'[x]) \in Nat /\ Owes(call'[x]) \in Nat
                           /\ MayStore(call'[x]) + Owes(call'[x]) <= Largest
      BY <2>6, Terms
    <3>2. \A x \in Calls : heldThen[x] = MayStore(call'[x]) /\ Owed[x] = Owes(call'[x])
      BY <2>6 DEF Owed
    <3> QED
      BY <3>1, <3>2
  <2>8. owedThen = Owed /\ heldThen[c] = MayStore(r) /\ Owed[c] = 0
    BY <1>9, <2>5, <2>6 DEF Owed
  <2>9. heldThen \in [Calls -> Nat] /\ Owed \in [Calls -> Nat]
    BY <2>7 DEF Owed
  <2> HIDE DEF heldThen, owedThen
  <2>10. /\ Total(heldThen) + Total(Owed)
              <= heldThen[c] + Owed[c] + (Cardinality(Calls) - 1) * Largest
         /\ (Cardinality(Calls) - 1) * Largest \in Nat
         /\ Total(heldThen) \in Nat /\ Total(Owed) \in Nat
    BY <1>3, <2>7, <2>9, TotalsBounded
  <2>11. stored.usd <= counter.usd + Total(Owed) + missed.usd
    BY DEF DollarInv
  <2>12. counter.usd + r.usd <= MaxUsd
    BY <1>6, <1>11
  <2>13. Total(heldThen) + Total(Owed) <= MayStore(r) + (Cardinality(Calls) - 1) * Largest
    BY <2>3, <2>8, <2>10
  <2>14. stored.usd + Total(heldThen) <=
           MaxUsd + (Cardinality(Calls) - 1) * Largest + Drift + missed.usd
    <3>1. \A s, k, u, m, t, o, h, b, d, x \in Nat :
             /\ s <= k + o + m /\ k + u <= x /\ t + o <= h + b /\ h <= u + d
             => s + t <= x + b + d + m
      OBVIOUS
    <3> QED
      BY <1>2, <1>3, <2>2, <2>3, <2>10, <2>11, <2>12, <2>13, <3>1
  <2> QED
    BY <1>2, <2>4, <2>6, <2>8, <2>11, <2>14 DEF DollarInv
<1> QED
  BY <1>10, <1>11

\* Every other step of a call.
LEMMA CreateKeeps ==
    ASSUME SomeOfEach, DollarInv, SpendTypeOK', NEW c \in Calls,
           \/ \E q \in Requests, set \in RuleSets : BeginCreate(c, q, set)
           \/ Evaluate(c)
           \/ PriceAgain(c) \/ InsertIntent(c) \/ InsertUnpriced(c)
           \/ IncrementDailyUsd(c) \/ IncrementHourlyTx(c) \/ CallFails(c)
    PROVE  DollarInv'
<1>1. /\ call \in [Calls -> CallRecords] /\ call[c] \in CallRecords /\ Priced(call[c])
      /\ stored \in Sums /\ counter \in Sums /\ missed \in Sums
      /\ stored.usd \in Nat /\ counter.usd \in Nat /\ missed.usd \in Nat
      /\ call' \in [Calls -> CallRecords] /\ call'[c] \in CallRecords
  BY DEF DollarInv, SpendTypeOK, Sums
<1>2. /\ MayStore(call[c]) \in Nat /\ Owes(call[c]) \in Nat
      /\ MayStore(call[c]) <= MaxUsd + Drift /\ MayStore(call[c]) <= Largest
  <2>1. /\ MayStore(call[c]) \in Nat /\ Owes(call[c]) \in Nat
        /\ MayStore(call[c]) + Owes(call[c]) <= Largest /\ MayStore(call[c]) <= MaxUsd + Drift
    BY <1>1, Terms
  <2>2. Largest \in Nat
    BY AtTheHighestPrice
  <2> QED
    BY <2>1, <2>2
<1>3. /\ MayStore(Idle) = 0 /\ Owes(Idle) = 0 /\ Priced(Idle)
      /\ Idle \in CallRecords /\ Idle.pc = "idle"
  BY DEF MayStore, Owes, Priced, Idle, CallRecords
<1>4. /\ Largest \in Nat /\ Drift \in Nat /\ MaxUsd \in Nat
      /\ \A a \in Amounts \union {0} :
            /\ a \in Nat /\ a * Max(Prices) \in Nat /\ a * Max(Prices) <= Largest
            /\ \A p \in Prices : a * p \in Nat /\ a * p <= a * Max(Prices)
  BY AtTheHighestPrice, SpendAssumption
<1>5. ASSUME NEW q \in Requests, NEW set \in RuleSets, BeginCreate(c, q, set)
      PROVE  DollarInv'
  <2>1. PICK r : r = [pc |-> "read_usd", request |-> q, rules |-> set,
                      usd |-> q.native * price, spent |-> 0]
    OBVIOUS
  <2>2. /\ call' = [call EXCEPT ![c] = r] /\ price \in Prices
        /\ stored' = stored /\ counter' = counter /\ missed' = missed
    BY <1>5, <2>1 DEF BeginCreate, DollarInv, SpendTypeOK
  <2>3. r \in CallRecords /\ r.pc = "read_usd" /\ r.usd = r.request.native * price
    BY <1>1, <2>1, <2>2
  <2>4. Priced(r) /\ MayStore(r) = 0 /\ Owes(r) = 0
    BY <2>2, <2>3 DEF Priced, MayStore, Owes
  <2>5. MayStore(call[c]) = 0 /\ Owes(call[c]) = 0
    BY <1>3, <1>5 DEF BeginCreate
  <2> QED
    <3>1. StoresNoMore(c, r) /\ OwesNoLess(c, r)
      BY <1>1, <2>2, <2>3, <2>4, <2>5 DEF StoresNoMore, OwesNoLess
    <3> QED
      BY <1>1, <2>2, <2>3, <2>4, <2>5, <3>1, CallKeeps
<1>6. ASSUME Return(c), stored' = stored, counter' = counter,
             missed'.usd \in Nat, missed'.usd = missed.usd + Owes(call[c])
      PROVE  DollarInv'
  <2>1. call' = [call EXCEPT ![c] = Idle]
    BY <1>6 DEF Return
  <2> QED
    <3>1. StoresNoMore(c, Idle) /\ OwesNoLess(c, Idle)
      BY <1>1, <1>2, <1>3, <1>6, <2>1 DEF StoresNoMore, OwesNoLess
    <3> QED
      BY <1>1, <1>2, <1>3, <1>6, <2>1, <3>1, CallKeeps
<1>7. CASE Evaluate(c)
  <2>1. /\ call[c].pc = "evaluate" /\ Owes(call[c]) = 0
        /\ stored' = stored /\ counter' = counter /\ missed' = missed
    BY <1>7 DEF Evaluate, At, Owes
  <2>2. CASE evaluate(Context(c), call[c].rules).decision # "ALLOW"
    BY <1>1, <1>6, <1>7, <2>1, <2>2 DEF Evaluate
  <2>3. CASE evaluate(Context(c), call[c].rules).decision = "ALLOW"
    <3>1. call[c].rules \in RuleSets /\ call[c].request \in Requests
      BY <1>1, <2>1, CallFields
    <3>2. Context(c).dailyUsdSpent + Context(c).amountUsd <= MaxUsd
      BY <2>3, <3>1, AllowedWithinLimits
    <3>3. call[c].spent + call[c].usd <= MaxUsd
      BY <3>2 DEF Context
    <3>4. MayStore(call[c]) = call[c].request.native * Max(Prices)
      BY <2>1, <3>3 DEF MayStore
    <3>5. CASE call[c].request.intentAction = "deploy"
      <4>1. PICK r : r = [pc |-> "insert", usd |-> 0]
        OBVIOUS
      <4>2. call' = [call EXCEPT ![c] = r]
        BY <1>7, <2>3, <3>5, <4>1, <1>1 DEF Evaluate
      <4>3. r \in CallRecords /\ r.pc = "insert" /\ r.usd = 0
        BY <1>1, <4>1, <4>2
      <4>4. Priced(r) /\ MayStore(r) = 0 /\ Owes(r) = 0
        BY <1>4, <4>3 DEF Priced, MayStore, Owes
      <4> QED
        <5>1. StoresNoMore(c, r) /\ OwesNoLess(c, r)
          BY <1>1, <1>2, <2>1, <4>2, <4>3, <4>4 DEF StoresNoMore, OwesNoLess
        <5> QED
          BY <1>1, <1>2, <2>1, <4>2, <4>3, <4>4, <5>1, CallKeeps
    <3>6. CASE call[c].request.intentAction # "deploy"
      <4>1. PICK r : r = [pc |-> "price_again", native |-> call[c].request.native]
        OBVIOUS
      <4>2. call' = [call EXCEPT ![c] = r]
        BY <1>7, <2>3, <3>6, <4>1, <1>1 DEF Evaluate
      <4>3. r \in CallRecords /\ r.pc = "price_again" /\ r.native = call[c].request.native
        BY <1>1, <4>1, <4>2
      <4>4. MayStore(r) = MayStore(call[c]) /\ Owes(r) = 0
        BY <3>4, <4>3 DEF MayStore, Owes
      <4>5. Priced(r)
        BY <1>2, <3>4, <4>3 DEF Priced
      <4> QED
        <5>1. StoresNoMore(c, r) /\ OwesNoLess(c, r)
          BY <1>1, <1>2, <2>1, <4>2, <4>3, <4>4, <4>5 DEF StoresNoMore, OwesNoLess
        <5> QED
          BY <1>1, <1>2, <2>1, <4>2, <4>3, <4>4, <4>5, <5>1, CallKeeps
    <3> QED
      BY <3>5, <3>6
  <2> QED
    BY <2>2, <2>3
<1>8. CASE PriceAgain(c)
  <2>1. /\ call[c].pc = "price_again" /\ call[c].native \in Amounts \union {0}
        /\ stored' = stored /\ counter' = counter /\ missed' = missed
        /\ call' = [call EXCEPT ![c] = IF price = Unavailable THEN [pc |-> "insert_unpriced"]
                                       ELSE [pc |-> "insert", usd |-> call[c].native * price]]
    BY <1>1, <1>8, CallFields DEF PriceAgain, At
  <2>2. MayStore(call[c]) = call[c].native * Max(Prices) /\ Owes(call[c]) = 0
    BY <2>1 DEF MayStore, Owes
  <2>3. CASE price = Unavailable
    <3>1. PICK r : r = [pc |-> "insert_unpriced"]
      OBVIOUS
    <3>2. call' = [call EXCEPT ![c] = r] /\ r \in CallRecords /\ r.pc = "insert_unpriced"
      BY <1>1, <2>1, <2>3, <3>1
    <3>3. Priced(r) /\ MayStore(r) = 0 /\ Owes(r) = 0
      BY <3>2 DEF Priced, MayStore, Owes
    <3> QED
      <4>1. StoresNoMore(c, r) /\ OwesNoLess(c, r)
        BY <1>1, <1>2, <2>1, <2>2, <3>2, <3>3 DEF StoresNoMore, OwesNoLess
      <4> QED
        BY <1>1, <1>2, <2>1, <2>2, <3>2, <3>3, <4>1, CallKeeps
  <2>4. CASE price # Unavailable
    <3>1. PICK r : r = [pc |-> "insert", usd |-> call[c].native * price]
      OBVIOUS
    <3>2. /\ call' = [call EXCEPT ![c] = r] /\ r \in CallRecords /\ r.pc = "insert"
          /\ r.usd = call[c].native * price
      BY <1>1, <2>1, <2>4, <3>1
    <3>3. price \in Prices
      BY <2>4 DEF DollarInv, SpendTypeOK
    <3>4. r.usd \in Nat /\ r.usd <= MayStore(call[c])
      BY <1>4, <2>1, <2>2, <3>2, <3>3
    <3>5. MayStore(r) = r.usd /\ Owes(r) = 0
      BY <3>2 DEF MayStore, Owes
    <3>6. Priced(r)
      BY <1>2, <1>4, <3>2, <3>4 DEF Priced
    <3> QED
      <4>1. StoresNoMore(c, r) /\ OwesNoLess(c, r)
        BY <1>1, <1>2, <2>1, <2>2, <3>2, <3>4, <3>5, <3>6 DEF StoresNoMore, OwesNoLess
      <4> QED
        BY <1>1, <1>2, <2>1, <2>2, <3>2, <3>4, <3>5, <3>6, <4>1, CallKeeps
  <2> QED
    BY <2>3, <2>4
<1>9. CASE InsertIntent(c) \/ IncrementDailyUsd(c)
  <2>1. call[c].pc \in {"insert", "count_usd"} /\ call[c].usd \in Nat
    BY <1>1, <1>9, CallFields DEF InsertIntent, IncrementDailyUsd, At
  <2>2. call[c] \in [pc : {"insert", "count_usd", "count_tx"}, usd : Nat]
    BY <1>1, <2>1 DEF CallRecords, Idle
  <2>3. CASE InsertIntent(c)
    <3>1. PICK r : r = [call[c] EXCEPT !.pc = "count_usd"]
      OBVIOUS
    <3>2. /\ call' = [call EXCEPT ![c] = r]
          /\ r.pc = "count_usd" /\ r.usd = call[c].usd /\ call[c].pc = "insert"
          /\ stored'.usd = stored.usd + call[c].usd /\ counter' = counter /\ missed' = missed
      BY <1>1, <2>2, <2>3, <3>1 DEF InsertIntent, Goto, At
    <3>3. r \in CallRecords
      BY <1>1, <3>2
    <3>4. /\ MayStore(call[c]) = call[c].usd /\ Owes(call[c]) = 0
          /\ MayStore(r) = 0 /\ Owes(r) = call[c].usd
      BY <3>2 DEF MayStore, Owes
    <3>5. Priced(r)
      BY <1>1, <3>2 DEF Priced
    <3> QED
      <4>1. StoresNoMore(c, r) /\ OwesNoLess(c, r)
        BY <1>1, <2>1, <3>2, <3>3, <3>4, <3>5 DEF StoresNoMore, OwesNoLess
      <4> QED
        BY <1>1, <2>1, <3>2, <3>3, <3>4, <3>5, <4>1, CallKeeps
  <2>4. CASE IncrementDailyUsd(c)
    <3>1. PICK r : r = [call[c] EXCEPT !.pc = "count_tx"]
      OBVIOUS
    <3>2. /\ call' = [call EXCEPT ![c] = r]
          /\ r.pc = "count_tx" /\ r.usd = call[c].usd /\ call[c].pc = "count_usd"
          /\ counter'.usd = counter.usd + call[c].usd /\ stored' = stored /\ missed' = missed
      BY <1>1, <2>2, <2>4, <3>1 DEF IncrementDailyUsd, Goto, At, Sums
    <3>3. r \in CallRecords
      BY <1>1, <3>2
    <3>4. /\ MayStore(call[c]) = 0 /\ Owes(call[c]) = call[c].usd
          /\ MayStore(r) = 0 /\ Owes(r) = 0
      BY <3>2 DEF MayStore, Owes
    <3>5. Priced(r)
      BY <3>2 DEF Priced
    <3> QED
      <4>1. StoresNoMore(c, r) /\ OwesNoLess(c, r)
        BY <1>1, <2>1, <3>2, <3>3, <3>4, <3>5 DEF StoresNoMore, OwesNoLess
      <4> QED
        BY <1>1, <2>1, <3>2, <3>3, <3>4, <3>5, <4>1, CallKeeps
  <2> QED
    BY <1>9, <2>3, <2>4
<1>10. CASE InsertUnpriced(c)
  <2>1. /\ call[c].pc = "insert_unpriced" /\ counter' = counter
        /\ stored'.usd = stored.usd /\ missed'.usd = missed.usd
        /\ call' = [call EXCEPT ![c] = Idle]
    BY <1>1, <1>10 DEF InsertUnpriced, At, Return, Sums
  <2>2. MayStore(call[c]) = 0 /\ Owes(call[c]) = 0
    BY <2>1 DEF MayStore, Owes
  <2> QED
    <3>1. StoresNoMore(c, Idle) /\ OwesNoLess(c, Idle)
      BY <1>1, <1>3, <2>1, <2>2 DEF StoresNoMore, OwesNoLess
    <3> QED
      BY <1>1, <1>3, <2>1, <2>2, <3>1, CallKeeps
<1>11. CASE IncrementHourlyTx(c)
  <2>1. /\ call[c].pc = "count_tx" /\ stored' = stored /\ missed' = missed
        /\ counter'.usd = counter.usd /\ call' = [call EXCEPT ![c] = Idle]
    BY <1>1, <1>11 DEF IncrementHourlyTx, At, Return, Sums
  <2>2. MayStore(call[c]) = 0 /\ Owes(call[c]) = 0
    BY <2>1 DEF MayStore, Owes
  <2> QED
    <3>1. StoresNoMore(c, Idle) /\ OwesNoLess(c, Idle)
      BY <1>1, <1>3, <2>1, <2>2 DEF StoresNoMore, OwesNoLess
    <3> QED
      BY <1>1, <1>3, <2>1, <2>2, <3>1, CallKeeps
<1>12. CASE CallFails(c)
  <2>1. Return(c) /\ stored' = stored /\ counter' = counter
    BY <1>12 DEF CallFails
  <2>2. CASE call[c].pc = "count_usd"
    <3>1. missed'.usd = missed.usd + call[c].usd /\ Owes(call[c]) = call[c].usd
      BY <1>12, <2>2 DEF CallFails, At, Owes
    <3>2. call[c].usd \in Nat
      BY <1>1, <2>2, CallFields
    <3> QED
      BY <1>1, <1>6, <2>1, <3>1, <3>2
  <2>3. CASE call[c].pc # "count_usd"
    <3>1. missed'.usd = missed.usd /\ Owes(call[c]) = 0
      BY <1>1, <1>12, <2>3 DEF CallFails, At, Owes, Sums
    <3> QED
      BY <1>1, <1>6, <2>1, <3>1
  <2> QED
    BY <2>2, <2>3
<1> QED
  BY <1>5, <1>7, <1>8, <1>9, <1>10, <1>11, <1>12

\* What is stored is counted, owed or missed, and what it may still come to fits
\* under the cap, the other calls in flight, the drift and what was missed.
THEOREM DollarInvariant == ASSUME SomeOfEach PROVE SpendSpec => []DollarInv
<1>1. SpendInit => DollarInv
  <2> SUFFICES ASSUME SpendInit
               PROVE  DollarInv
    OBVIOUS
  <2>1. SpendTypeOK
    BY DEF SpendInit, SpendTypeOK, CallRecords, Sums
  <2>2. \A c \in Calls : call[c] = Idle
    BY DEF SpendInit
  <2>3. \A c \in Calls : Priced(call[c]) /\ MayStore(call[c]) = 0 /\ Owes(call[c]) = 0
    BY <2>2 DEF Priced, MayStore, Owes, Idle
  <2>4. Held \in [Calls -> Nat] /\ Owed \in [Calls -> Nat] /\ Total(Owed) \in Nat
    BY <2>1, TotalsTyped
  <2>5. PICK c \in Calls : TRUE
    BY DEF SomeOfEach
  <2>6. Held = Owed
    BY <2>3 DEF Held, Owed
  <2>7. Largest \in Nat /\ Drift \in Nat /\ MaxUsd \in Nat
    BY AtTheHighestPrice, SpendAssumption
  <2>8. \A x \in Calls : Held[x] = 0 /\ Owed[x] = 0
    BY <2>3 DEF Held, Owed
  <2>9. /\ Total(Held) + Total(Owed) <= 0 + (Cardinality(Calls) - 1) * 0
        /\ Total(Held) \in Nat /\ Total(Owed) \in Nat
    <3>1. \A x \in Calls \ {c} : Held[x] + Owed[x] <= 0
      BY <2>8
    <3>2. /\ Total(Held) + Total(Owed) <= Held[c] + Owed[c] + (Cardinality(Calls) - 1) * 0
          /\ Total(Held) \in Nat /\ Total(Owed) \in Nat
      BY <2>4, <3>1, TotalsBounded
    <3> QED
      BY <2>8, <3>2
  <2>10. Total(Held) = 0 /\ Total(Owed) = 0
    BY <2>9, StepsFinite
  <2>11. (Cardinality(Calls) - 1) * Largest \in Nat
    BY <2>4, <2>7, <2>8, TotalsBounded
  <2>12. stored.usd = 0 /\ counter.usd = 0 /\ missed.usd = 0
    BY DEF SpendInit
  <2> QED
    BY <2>1, <2>3, <2>7, <2>10, <2>11, <2>12 DEF DollarInv
<1>2. DollarInv /\ [SpendNext]_spendVars => DollarInv'
  <2> SUFFICES ASSUME DollarInv, [SpendNext]_spendVars
               PROVE  DollarInv'
    OBVIOUS
  <2>1. SpendTypeOK'
    BY TypeStep DEF DollarInv
  <2>2. ASSUME NEW c \in Calls, Create(c)
        PROVE  DollarInv'
    BY <2>1, <2>2, ReadKeeps, CreateKeeps DEF Create
  <2>3. CASE PriceMoves \/ UNCHANGED spendVars
    BY <2>1, <2>3, CallsUntouched DEF PriceMoves, spendVars
  <2>4. CASE NewHour
    <3>1. /\ call' = call /\ stored'.usd = stored.usd /\ counter'.usd = counter.usd
          /\ missed'.usd = missed.usd
      BY <2>4 DEF NewHour, DollarInv, SpendTypeOK, Sums
    <3> QED
      BY <2>1, <3>1, CallsUntouched
  <2>5. CASE NewDay
    <3>1. call' = call /\ stored'.usd = 0 /\ counter'.usd = 0 /\ missed'.usd = 0
      BY <2>5 DEF NewDay
    <3> QED
      BY <2>1, <3>1, CallsUntouched
  <2> QED
    BY <2>2, <2>3, <2>4, <2>5 DEF SpendNext
<1> QED
  BY <1>1, <1>2, PTL DEF SpendSpec

\* Whatever the policy allowed and stored is counted, about to be counted by its
\* call, or was missed: for any number of calls, any amounts and prices.
THEOREM NothingUncounted == ASSUME SomeOfEach PROVE SpendSpec => []AllCounted
<1>1. DollarInv /\ HourlyInv => AllCounted
  <2> SUFFICES ASSUME DollarInv, HourlyInv
               PROVE  AllCounted
    OBVIOUS
  <2>1. UncountedUsd = Total(Owed)
    BY TotalsTyped, OwedIsUncounted DEF DollarInv
  <2> QED
    BY <2>1 DEF DollarInv, HourlyInv, AllCounted
<1> QED
  BY <1>1, DollarInvariant, HourlyInvariant, PTL

\* However many requests are evaluated at once and however the price moves, the
\* dollars allowed and stored within a day exceed the cap by at most the largest
\* transfer of each other request in flight, the drift of the largest amount, and
\* what was never counted.
THEOREM DailyCap == ASSUME SomeOfEach PROVE SpendSpec => []DailyOvershootBounded
<1>1. DollarInv => DailyOvershootBounded
  <2> SUFFICES ASSUME DollarInv
               PROVE  DailyOvershootBounded
    OBVIOUS
  <2>1. /\ Total(Held) \in Nat /\ stored.usd \in Nat /\ missed.usd \in Nat
    BY TotalsTyped DEF DollarInv, SpendTypeOK, Sums
  <2>2. Cardinality(Calls) \in Nat /\ MaxUsd \in Nat /\ Largest \in Nat /\ Drift \in Nat
    BY StepsFinite, SpendAssumption, AtTheHighestPrice
  <2>3. (Cardinality(Calls) - 1) * Largest \in Int
    BY <2>2
  <2>4. stored.usd + Total(Held) <=
          MaxUsd + (Cardinality(Calls) - 1) * Largest + Drift + missed.usd
    BY DEF DollarInv
  <2> QED
    BY <2>1, <2>2, <2>3, <2>4 DEF DailyOvershootBounded
<1> QED
  BY <1>1, DollarInvariant, PTL
-----------------------------------------------------------------------------
(***************************************************************************)
(* The rate limits.  What an API key was served is added up from now into  *)
(* the past; the window that runs splits the sum in two, and neither part  *)
(* is more than the limit.                                                 *)
(***************************************************************************)
\* f[k] is what was served in the last k ticks.
ServedUpTo(f, by) ==
    /\ f \in [0 .. WINDOW -> Nat]
    /\ f[0] = 0
    /\ \A k \in 0 .. WINDOW - 1 : f[k + 1] = f[k] + by[k]

\* The ticks of the window that runs, or of the last one.
Running(entry) == IF entry.age < WINDOW THEN entry.age + 1 ELSE WINDOW

\* What was served in that window is counted in it and within the limit, and so
\* is what was served before it; a window that is over has served nothing now.
SplitByWindow(f, entry) ==
    /\ entry.age < WINDOW => f[Running(entry)] <= entry.count
    /\ f[Running(entry)] <= RATE_LIMIT
    /\ f[WINDOW] <= f[Running(entry)] + RATE_LIMIT
    /\ entry.age = WINDOW => f[1] = 0

RateInv ==
    /\ RateTypeOK
    /\ CountersExpire
    /\ \E f : ServedUpTo(f, served) /\ SplitByWindow(f, usage)

\* A request let through counts in every sum from now.
LEMMA LettingThrough ==
    ASSUME RateInv, EnforceRateLimit
    PROVE  RateTypeOK' /\ \E f : ServedUpTo(f, served') /\ SplitByWindow(f, usage')
<1>1. PICK f : ServedUpTo(f, served) /\ SplitByWindow(f, usage)
  BY DEF RateInv
<1>2. /\ WINDOW \in Nat \ {0} /\ RATE_LIMIT \in Nat \ {0}
      /\ usage.age \in 0 .. WINDOW /\ usage.count \in Nat
      /\ usage \in [count : Nat, age : 0 .. WINDOW]
      /\ served \in [0 .. WINDOW - 1 -> Nat]
      /\ f \in [0 .. WINDOW -> Nat]
  BY <1>1, RateAssumption DEF RateInv, RateTypeOK, ServedUpTo
<1> DEFINE more == [k \in 0 .. WINDOW |-> IF k = 0 THEN 0 ELSE f[k] + 1]
<1>3. ASSUME LetThrough
      PROVE  ServedUpTo(more, served') /\ served' \in [0 .. WINDOW - 1 -> Nat]
  <2>1. 0 \in 0 .. WINDOW - 1
    BY <1>2
  <2>2. served' = [served EXCEPT ![0] = served[0] + 1] /\ served[0] + 1 \in Nat
    BY <1>2, <1>3, <2>1 DEF LetThrough
  <2>3. \A k \in 0 .. WINDOW - 1 : served'[k] = IF k = 0 THEN served[0] + 1 ELSE served[k]
    BY <1>2, <2>2
  <2>4. more \in [0 .. WINDOW -> Nat]
    BY <1>2
  <2>5. ASSUME NEW k \in 0 .. WINDOW - 1
        PROVE  more[k + 1] = more[k] + served'[k]
    <3>1. k \in 0 .. WINDOW /\ k + 1 \in 0 .. WINDOW /\ k + 1 # 0
      BY <1>2
    <3>2. more[k + 1] = f[k + 1] + 1 /\ more[k] = IF k = 0 THEN 0 ELSE f[k] + 1
      BY <3>1
    <3>3. f[k + 1] = f[k] + served[k] /\ f[0] = 0
      BY <1>1 DEF ServedUpTo
    <3>4. f[k] \in Nat /\ served[k] \in Nat
      BY <1>2, <3>1
    <3> HIDE DEF more
    <3> QED
      BY <2>3, <3>2, <3>3, <3>4
  <2>6. more[0] = 0
    BY <1>2
  <2> HIDE DEF more
  <2> QED
    BY <1>2, <2>2, <2>4, <2>5, <2>6 DEF ServedUpTo
<1>4. \A k \in 1 .. WINDOW : more[k] = f[k] + 1 /\ f[k] \in Nat
  BY <1>2
<1> HIDE DEF more
<1>5. CASE usage.age >= WINDOW
  <2>1. usage' = [count |-> 1, age |-> 0] /\ LetThrough
    BY <1>2, <1>5 DEF EnforceRateLimit
  <2>2. f[1] = 0 /\ f[WINDOW] <= RATE_LIMIT /\ usage.age = WINDOW
    BY <1>1, <1>2, <1>5 DEF SplitByWindow, Running
  <2>3. SplitByWindow(more, usage')
    BY <1>2, <1>4, <2>1, <2>2 DEF SplitByWindow, Running
  <2>4. usage' \in [count : Nat, age : 0 .. WINDOW]
    BY <1>2, <2>1
  <2> QED
    BY <1>3, <2>1, <2>3, <2>4 DEF RateInv, RateTypeOK, EnforceRateLimit
<1>6. CASE usage.age < WINDOW
  <2>1. /\ usage' = [usage EXCEPT !.count = usage.count + 1]
        /\ IF usage'.count > RATE_LIMIT THEN UNCHANGED served ELSE LetThrough
    BY <1>2, <1>6 DEF EnforceRateLimit
  <2>2. /\ usage' \in [count : Nat, age : 0 .. WINDOW]
        /\ usage'.count = usage.count + 1 /\ usage'.age = usage.age
    BY <1>2, <2>1
  <2>3. /\ Running(usage) \in 1 .. WINDOW /\ Running(usage') = Running(usage)
        /\ usage.age # WINDOW /\ usage'.age # WINDOW
    BY <1>2, <1>6, <2>2 DEF Running
  <2>4. /\ f[Running(usage)] <= usage.count /\ f[Running(usage)] <= RATE_LIMIT
        /\ f[WINDOW] <= f[Running(usage)] + RATE_LIMIT
    BY <1>1, <1>6 DEF SplitByWindow
  <2>5. /\ f[Running(usage)] \in Nat /\ more[Running(usage)] = f[Running(usage)] + 1
        /\ f[WINDOW] \in Nat /\ more[WINDOW] = f[WINDOW] + 1
    BY <1>2, <1>4, <2>3
  <2>6. CASE usage'.count > RATE_LIMIT
    <3>1. SplitByWindow(f, usage')
      BY <1>2, <2>2, <2>3, <2>4, <2>5 DEF SplitByWindow
    <3>2. ServedUpTo(f, served') /\ served' = served
      BY <1>1, <2>1, <2>6
    <3> QED
      BY <2>2, <3>1, <3>2 DEF RateInv, RateTypeOK, EnforceRateLimit
  <2>7. CASE ~ (usage'.count > RATE_LIMIT)
    <3>1. SplitByWindow(more, usage')
      <4>1. /\ more[Running(usage)] <= usage'.count
            /\ more[Running(usage)] <= RATE_LIMIT
            /\ more[WINDOW] <= more[Running(usage)] + RATE_LIMIT
        <5>1. \A n, p, q, w, l \in Nat :
                 /\ n <= p /\ ~ (q > l) /\ q = p + 1 /\ w <= n + l
                 => n + 1 <= q /\ n + 1 <= l /\ w + 1 <= (n + 1) + l
          OBVIOUS
        <5>2. /\ f[Running(usage)] \in Nat /\ f[WINDOW] \in Nat
              /\ usage.count \in Nat /\ usage'.count \in Nat /\ RATE_LIMIT \in Nat
          BY <1>2, <2>2, <2>5
        <5>3. /\ f[Running(usage)] <= usage.count /\ ~ (usage'.count > RATE_LIMIT)
              /\ usage'.count = usage.count + 1
              /\ f[WINDOW] <= f[Running(usage)] + RATE_LIMIT
          BY <2>2, <2>4, <2>7
        <5>4. /\ f[Running(usage)] + 1 <= usage'.count /\ f[Running(usage)] + 1 <= RATE_LIMIT
              /\ f[WINDOW] + 1 <= (f[Running(usage)] + 1) + RATE_LIMIT
          BY <5>1, <5>2, <5>3
        <5> QED
          BY <2>5, <5>4
      <4> QED
        BY <2>3, <4>1 DEF SplitByWindow
    <3> QED
      BY <1>3, <2>1, <2>2, <2>7, <3>1 DEF RateInv, RateTypeOK, EnforceRateLimit
  <2> QED
    BY <2>6, <2>7
<1> QED
  BY <1>2, <1>5, <1>6

\* A tick moves every sum by one place.
LEMMA Ticking ==
    ASSUME RateInv, RateClock
    PROVE  RateTypeOK' /\ \E f : ServedUpTo(f, served') /\ SplitByWindow(f, usage')
<1>1. PICK f : ServedUpTo(f, served) /\ SplitByWindow(f, usage)
  BY DEF RateInv
<1>2. /\ WINDOW \in Nat \ {0} /\ RATE_LIMIT \in Nat \ {0}
      /\ usage.age \in 0 .. WINDOW /\ usage.count \in Nat
      /\ usage \in [count : Nat, age : 0 .. WINDOW]
      /\ served \in [0 .. WINDOW - 1 -> Nat]
      /\ f \in [0 .. WINDOW -> Nat] /\ f[0] = 0
      /\ \A k \in 0 .. WINDOW - 1 : f[k + 1] = f[k] + served[k]
  BY <1>1, RateAssumption DEF RateInv, RateTypeOK, ServedUpTo
<1> DEFINE before == [k \in 0 .. WINDOW |-> IF k = 0 THEN 0 ELSE f[k - 1]]
<1>3. /\ usage' = [usage EXCEPT !.age = Elapsed(usage.age)]
      /\ served' = [n \in 0 .. WINDOW - 1 |-> IF n = 0 THEN 0 ELSE served[n - 1]]
  BY DEF RateClock
<1>4. served' \in [0 .. WINDOW - 1 -> Nat]
  BY <1>2, <1>3
<1>5. ServedUpTo(before, served')
  <2>1. before \in [0 .. WINDOW -> Nat] /\ before[0] = 0
    BY <1>2
  <2>2. ASSUME NEW k \in 0 .. WINDOW - 1
        PROVE  before[k + 1] = before[k] + served'[k]
    <3>1. before[k + 1] = f[k] /\ before[k] = IF k = 0 THEN 0 ELSE f[k - 1]
      BY <1>2
    <3>2. served'[k] = IF k = 0 THEN 0 ELSE served[k - 1]
      BY <1>3
    <3>3. k # 0 => f[k] = f[k - 1] + served[k - 1]
      <4>1. k # 0 => k - 1 \in 0 .. WINDOW - 1 /\ (k - 1) + 1 = k
        BY <1>2
      <4> QED
        BY <1>2, <4>1
    <3> HIDE DEF before
    <3> QED
      BY <1>2, <3>1, <3>2, <3>3
  <2> HIDE DEF before
  <2> QED
    BY <2>1, <2>2 DEF ServedUpTo
<1>6. \A k \in 1 .. WINDOW : before[k] = f[k - 1] /\ f[k - 1] \in Nat /\ f[k] \in Nat
  BY <1>2
<1>7. f[WINDOW - 1] <= f[WINDOW] /\ before[1] = 0 /\ before[WINDOW] = f[WINDOW - 1]
  <2>1. WINDOW - 1 \in 0 .. WINDOW - 1 /\ (WINDOW - 1) + 1 = WINDOW
    BY <1>2
  <2>2. f[WINDOW] = f[WINDOW - 1] + served[WINDOW - 1] /\ served[WINDOW - 1] \in Nat
    BY <1>2, <2>1
  <2>3. f[WINDOW - 1] \in Nat
    BY <1>2, <1>6
  <2> QED
    BY <1>2, <1>6, <2>2, <2>3
<1> HIDE DEF before
<1>8. usage' \in [count : Nat, age : 0 .. WINDOW] /\ usage'.count = usage.count
  BY <1>2, <1>3 DEF Elapsed
<1>9. SplitByWindow(before, usage')
  <2>1. CASE usage.age < WINDOW
    <3>1. usage'.age = usage.age + 1
      BY <1>2, <1>3, <2>1 DEF Elapsed
    <3>2. Running(usage) = usage.age + 1
      BY <2>1 DEF Running
    <3>3. /\ f[usage.age + 1] <= usage.count /\ f[usage.age + 1] <= RATE_LIMIT
          /\ f[WINDOW] <= f[usage.age + 1] + RATE_LIMIT
      BY <1>1, <2>1, <3>2 DEF SplitByWindow
    <3>4. CASE usage.age + 1 < WINDOW
      <4>1. /\ usage.age + 2 \in 1 .. WINDOW /\ (usage.age + 2) - 1 = usage.age + 1
            /\ WINDOW \in 1 .. WINDOW
        <5>1. WINDOW \in Nat /\ usage.age \in Nat
          BY <1>2
        <5> QED
          BY <3>4, <5>1
      <4>2. /\ before[usage.age + 2] = f[usage.age + 1]
            /\ f[usage.age + 1] \in Nat /\ f[WINDOW - 1] \in Nat /\ f[WINDOW] \in Nat
        BY <1>6, <4>1
      <4>3. Running(usage') = usage.age + 2
        BY <1>2, <3>1, <3>4 DEF Running
      <4> QED
        <5>1. usage'.age # WINDOW
          BY <1>2, <3>1, <3>4
        <5>2. before[WINDOW] <= f[usage.age + 1] + RATE_LIMIT
          BY <1>2, <1>7, <3>3, <4>2
        <5> QED
          BY <1>8, <3>3, <4>2, <4>3, <5>1, <5>2 DEF SplitByWindow
    <3>5. CASE usage.age + 1 = WINDOW
      <4>1. Running(usage') = WINDOW /\ usage'.age = WINDOW
        BY <1>2, <3>1, <3>5 DEF Running
      <4>2. f[WINDOW - 1] \in Nat /\ f[WINDOW] \in Nat /\ f[WINDOW] <= RATE_LIMIT
        BY <1>2, <1>6, <3>3, <3>5
      <4> QED
        BY <1>2, <1>7, <4>1, <4>2 DEF SplitByWindow
    <3> QED
      BY <1>2, <2>1, <3>4, <3>5
  <2>2. CASE usage.age = WINDOW
    <3>1. usage'.age = WINDOW /\ Running(usage) = WINDOW /\ Running(usage') = WINDOW
      BY <1>2, <1>3, <2>2 DEF Elapsed, Running
    <3>2. f[WINDOW - 1] \in Nat /\ f[WINDOW] \in Nat /\ f[WINDOW] <= RATE_LIMIT
      BY <1>1, <1>2, <1>6, <3>1 DEF SplitByWindow
    <3> QED
      BY <1>2, <1>7, <3>1, <3>2 DEF SplitByWindow
  <2> QED
    BY <1>2, <2>1, <2>2
<1>10. addressKey' \in [count : Nat, ttl : 0 .. WINDOW]
  <2>1. addressKey \in [count : Nat, ttl : 0 .. WINDOW]
    BY DEF RateInv, RateTypeOK
  <2>2. CASE addressKey.ttl = 1
    BY <1>2, <2>2 DEF RateClock, NoCounter
  <2>3. CASE addressKey.ttl # 1
    BY <1>2, <2>1, <2>3 DEF RateClock
  <2> QED
    BY <2>2, <2>3
<1>11. RateTypeOK'
  BY <1>4, <1>8, <1>10 DEF RateInv, RateTypeOK, RateClock
<1> QED
  BY <1>5, <1>9, <1>11

\* A key without a ttl keeps the request that is to set it, or had one that ended.
LEMMA Expiring == RateInv /\ [RateNext]_rateVars => CountersExpire'
<1> SUFFICES ASSUME RateInv, [RateNext]_rateVars
             PROVE  CountersExpire'
  OBVIOUS
<1>1. /\ addressKey \in [count : Nat, ttl : 0 .. WINDOW] /\ WINDOW \in Nat \ {0}
      /\ attempt \in [Attempts -> {"idle", "expire"}] /\ orphaned \in BOOLEAN
      /\ CountersExpire
  BY RateAssumption DEF RateInv, RateTypeOK
<1>2. ASSUME NEW a \in Attempts, Incr(a)
      PROVE  CountersExpire'
  <2>1. /\ addressKey'.count = addressKey.count + 1 /\ addressKey'.ttl = addressKey.ttl
        /\ orphaned' = orphaned
    BY <1>1, <1>2 DEF Incr
  <2>2. CASE addressKey.count = 0
    <3>1. attempt' = [attempt EXCEPT ![a] = "expire"]
      BY <1>2, <2>1, <2>2 DEF Incr
    <3>2. attempt'[a] = "expire"
      BY <1>1, <3>1
    <3> QED
      BY <3>2 DEF CountersExpire
  <2>3. CASE addressKey.count > 0
    <3>1. attempt' = attempt
      BY <1>1, <1>2, <2>1, <2>3 DEF Incr
    <3> QED
      BY <1>1, <2>1, <2>3, <3>1 DEF CountersExpire
  <2> QED
    BY <1>1, <2>2, <2>3
<1>3. ASSUME NEW a \in Attempts, Expire(a)
      PROVE  CountersExpire'
  <2>1. CASE addressKey = NoCounter
    BY <1>3, <2>1 DEF Expire, CountersExpire, NoCounter
  <2>2. CASE addressKey # NoCounter
    <3>1. addressKey' = [addressKey EXCEPT !.ttl = WINDOW]
      BY <1>3, <2>2 DEF Expire
    <3>2. addressKey'.ttl = WINDOW
      BY <1>1, <3>1
    <3> QED
      BY <1>1, <3>2 DEF CountersExpire
  <2> QED
    BY <2>1, <2>2
<1>4. ASSUME NEW a \in Attempts, ExpireLost(a)
      PROVE  CountersExpire'
  <2>1. addressKey.count > 0 => addressKey # NoCounter
    BY DEF NoCounter
  <2> QED
    BY <1>4, <2>1 DEF ExpireLost, CountersExpire
<1>5. ASSUME RedisConnects \/ EnforceRateLimit \/ UNCHANGED rateVars
      PROVE  CountersExpire'
  BY <1>1, <1>5 DEF RedisConnects, EnforceRateLimit, rateVars, CountersExpire
<1>6. CASE RedisForgets
  BY <1>6 DEF RedisForgets, CountersExpire, NoCounter
<1>7. CASE RateClock
  <2>1. CASE addressKey.ttl = 1
    BY <1>7, <2>1 DEF RateClock, CountersExpire, NoCounter
  <2>2. CASE addressKey.ttl # 1
    <3>1. addressKey' = [addressKey EXCEPT !.ttl = IF addressKey.ttl = 0 THEN 0
                                                   ELSE addressKey.ttl - 1]
      BY <1>7, <2>2 DEF RateClock
    <3>2. /\ addressKey'.count = addressKey.count
          /\ addressKey'.ttl = IF addressKey.ttl = 0 THEN 0 ELSE addressKey.ttl - 1
      BY <1>1, <3>1
    <3>3. addressKey'.ttl = 0 => addressKey.ttl = 0
      BY <1>1, <2>2, <3>2
    <3>4. orphaned' <=> orphaned
      BY <1>7, <2>2 DEF RateClock
    <3>5. attempt' = attempt
      BY <1>7 DEF RateClock
    <3> QED
      BY <1>1, <3>2, <3>3, <3>4, <3>5 DEF CountersExpire
  <2> QED
    BY <2>1, <2>2
<1> QED
  BY <1>2, <1>3, <1>4, <1>5, <1>6, <1>7 DEF RateNext

\* Redis and its clients leave what the API key is served alone.
LEMMA AddressOnly ==
    ASSUME RateInv,
           \/ \E a \in Attempts : Incr(a) \/ Expire(a) \/ ExpireLost(a)
           \/ RedisConnects \/ RedisForgets \/ UNCHANGED rateVars
    PROVE  RateTypeOK' /\ \E f : ServedUpTo(f, served') /\ SplitByWindow(f, usage')
<1>1. RateTypeOK /\ WINDOW \in Nat \ {0}
  BY RateAssumption DEF RateInv
<1>2. ASSUME NEW a \in Attempts, Incr(a)
      PROVE  RateTypeOK'
  <2>1. addressKey' \in [count : Nat, ttl : 0 .. WINDOW]
    BY <1>1, <1>2 DEF RateTypeOK, Incr
  <2>2. attempt' \in [Attempts -> {"idle", "expire"}]
    BY <1>1, <1>2 DEF RateTypeOK, Incr
  <2> QED
    BY <1>1, <1>2, <2>1, <2>2 DEF RateTypeOK, Incr
<1>3. ASSUME NEW a \in Attempts, Expire(a)
      PROVE  RateTypeOK'
  <2>1. addressKey' \in [count : Nat, ttl : 0 .. WINDOW]
    BY <1>1, <1>3 DEF RateTypeOK, Expire
  <2> QED
    BY <1>1, <1>3, <2>1 DEF RateTypeOK, Expire
<1>4. ASSUME NEW a \in Attempts, ExpireLost(a)
      PROVE  RateTypeOK'
  BY <1>1, <1>4 DEF RateTypeOK, ExpireLost
<1>5. ASSUME RedisConnects \/ RedisForgets \/ UNCHANGED rateVars
      PROVE  RateTypeOK'
  <2>1. NoCounter \in [count : Nat, ttl : 0 .. WINDOW]
    BY <1>1 DEF NoCounter
  <2>2. CASE RedisConnects
    BY <1>1, <2>2 DEF RateTypeOK, RedisConnects
  <2>3. CASE RedisForgets
    BY <1>1, <2>1, <2>3 DEF RateTypeOK, RedisForgets
  <2> QED
    BY <1>1, <1>5, <2>2, <2>3 DEF RateTypeOK, rateVars
<1>6. served' = served /\ usage' = usage
  BY DEF Incr, Expire, ExpireLost, RedisConnects, RedisForgets, rateVars
<1> QED
  BY <1>2, <1>3, <1>4, <1>5, <1>6 DEF RateInv

\* A key that counts expires unless it was orphaned, and the requests of an API key
\* fall within the limit on either side of the moment its window began.
THEOREM RateInvariant == RateSpec => []RateInv
<1>1. RateInit => RateInv
  <2> SUFFICES ASSUME RateInit
               PROVE  RateInv
    OBVIOUS
  <2>1. WINDOW \in Nat \ {0} /\ RATE_LIMIT \in Nat \ {0}
    BY RateAssumption
  <2>2. RateTypeOK /\ CountersExpire
    <3>1. NoCounter \in [count : Nat, ttl : 0 .. WINDOW] /\ NoCounter.count = 0
      BY <2>1 DEF NoCounter
    <3>2. [count |-> 0, age |-> WINDOW] \in [count : Nat, age : 0 .. WINDOW]
      BY <2>1
    <3>3. /\ attempt \in [Attempts -> {"idle", "expire"}]
          /\ served \in [0 .. WINDOW - 1 -> Nat] /\ orphaned \in BOOLEAN
          /\ redisReady \in BOOLEAN
      BY <2>1 DEF RateInit
    <3> QED
      BY <3>1, <3>2, <3>3 DEF RateInit, RateTypeOK, CountersExpire
  <2> DEFINE none == [k \in 0 .. WINDOW |-> 0]
  <2>3. ServedUpTo(none, served) /\ SplitByWindow(none, usage)
    BY <2>1 DEF RateInit, ServedUpTo, SplitByWindow, Running
  <2> HIDE DEF none
  <2> QED
    BY <2>2, <2>3 DEF RateInv
<1>2. RateInv /\ [RateNext]_rateVars => RateInv'
  <2> SUFFICES ASSUME RateInv, [RateNext]_rateVars
               PROVE  RateInv'
    OBVIOUS
  <2>1. RateTypeOK' /\ \E f : ServedUpTo(f, served') /\ SplitByWindow(f, usage')
    BY LettingThrough, Ticking, AddressOnly DEF RateNext
  <2> QED
    BY <2>1, Expiring DEF RateInv
<1> QED
  BY <1>1, <1>2, PTL DEF RateSpec

\* What was served in the last WINDOW ticks is the sum BurstsBounded takes.
LEMMA ServedAddsUp ==
    ASSUME RateTypeOK, NEW f, ServedUpTo(f, served)
    PROVE  MapThenSumSet(LAMBDA n : served[n], DOMAIN served) = f[WINDOW]
<1>1. WINDOW \in Nat \ {0} /\ served \in [0 .. WINDOW - 1 -> Nat]
  BY RateAssumption DEF RateTypeOK
<1>2. IsFiniteSet(0 .. WINDOW - 1) /\ DOMAIN served = 0 .. WINDOW - 1
  BY <1>1, FS_Interval
<1>3. PICK sum : /\ SumsUp(sum, served, DOMAIN served)
                 /\ MapThenSumSet(LAMBDA n : served[n], DOMAIN served) = sum[DOMAIN served]
  BY <1>1, <1>2, SumIs
<1> DEFINE G == {k \in Nat : k <= WINDOW => sum[0 .. k - 1] = f[k]}
<1>4. 0 \in G
  <2>1. 0 .. 0 - 1 = {}
    OBVIOUS
  <2>2. sum[0 .. 0 - 1] = f[0]
    BY <1>3, <2>1 DEF SumsUp, ServedUpTo
  <2> QED
    BY <2>2
<1>5. ASSUME NEW k \in Nat, k \in G
      PROVE  k + 1 \in G
  <2> SUFFICES ASSUME k + 1 <= WINDOW
               PROVE  sum[0 .. (k + 1) - 1] = f[k + 1]
    OBVIOUS
  <2>1. k \in 0 .. WINDOW - 1 /\ 0 .. k \in SUBSET (0 .. WINDOW - 1) /\ k \in 0 .. k
    BY <1>1
  <2>2. (0 .. k) \ {k} = 0 .. k - 1 /\ 0 .. (k + 1) - 1 = 0 .. k
    BY <1>1
  <2>3. sum[0 .. k] = served[k] + sum[0 .. k - 1]
    <3>1. \A x \in 0 .. k : sum[0 .. k] = served[x] + sum[(0 .. k) \ {x}]
      BY <1>2, <1>3, <2>1 DEF SumsUp
    <3>2. sum[0 .. k] = served[k] + sum[(0 .. k) \ {k}]
      BY <2>1, <3>1
    <3> QED
      BY <2>2, <3>2
  <2>4. f[k + 1] = f[k] + served[k] /\ f[k] \in Nat /\ served[k] \in Nat
    BY <1>1, <2>1 DEF ServedUpTo
  <2>5. sum[0 .. k - 1] = f[k]
    BY <1>1, <1>5, <2>1
  <2>6. sum[0 .. k] = f[k + 1]
    BY <2>3, <2>4, <2>5
  <2> QED
    BY <2>2, <2>6
<1> HIDE DEF G
<1>6. WINDOW \in G
  BY <1>1, <1>4, <1>5, NatSetInduction
<1> QED
  BY <1>1, <1>2, <1>3, <1>6 DEF G

\* However long the window and however high the limit, an address is never refused
\* for ever but by a call that was lost, and an API key is served at most twice its
\* limit in the length of a window, wherever its windows begin.
THEOREM RatesHold == RateSpec => []WindowsHold
<1>1. RateInv => WindowsHold
  <2> SUFFICES ASSUME RateInv
               PROVE  BurstsBounded
    BY DEF RateInv, WindowsHold
  <2>1. PICK f : ServedUpTo(f, served) /\ SplitByWindow(f, usage)
    BY DEF RateInv
  <2>2. MapThenSumSet(LAMBDA n : served[n], DOMAIN served) = f[WINDOW]
    BY <2>1, ServedAddsUp DEF RateInv
  <2>3. /\ RATE_LIMIT \in Nat /\ WINDOW \in Nat \ {0} /\ usage.age \in 0 .. WINDOW
        /\ f \in [0 .. WINDOW -> Nat]
    BY <2>1, RateAssumption DEF RateInv, RateTypeOK, ServedUpTo
  <2>4. Running(usage) \in 0 .. WINDOW /\ WINDOW \in 0 .. WINDOW
    BY <2>3 DEF Running
  <2>5. f[WINDOW] \in Nat /\ f[Running(usage)] \in Nat
    BY <2>3, <2>4
  <2>6. f[WINDOW] <= 2 * RATE_LIMIT
    BY <2>1, <2>3, <2>5 DEF SplitByWindow
  <2> QED
    BY <2>2, <2>6 DEF BurstsBounded
<1> QED
  BY <1>1, RateInvariant, PTL
-----------------------------------------------------------------------------
(***************************************************************************)
(* The run.  A behaviour of it is one of every part, so that what is       *)
(* proved of a part holds of it.                                           *)
(***************************************************************************)
THEOREM RunsOfParts == Spec => SpendSpec /\ GuardsSpec /\ RateSpec /\ PricesSpec /\ OutcomeSpec
<1>1. Init => SpendInit /\ GuardsInit /\ RateInit /\ PricesInit /\ OutcomeInit
  BY DEF Init
<1>2. [Next]_requestsVars => /\ [SpendNext]_spendVars
                             /\ [GuardsNext]_guardVars
                             /\ [RateNext]_rateVars
                             /\ [PricesNext]_priceVars
                             /\ [OutcomeNext]_outcomeVars
  BY DEF Next, requestsVars
<1> QED
  BY <1>1, <1>2, PTL DEF Spec, SpendSpec, GuardsSpec, RateSpec, PricesSpec, OutcomeSpec

\* Every part keeps its types.
THEOREM RequestTypes == Spec => []RequestsTypeOK
<1>1. HourlyInv => SpendTypeOK
  BY DEF HourlyInv
<1>2. RateInv => RateTypeOK
  BY DEF RateInv
<1>3. PricesInv => PricesTypeOK
  BY DEF PricesInv, PricesTypeOK, LookupFresh, CacheRecords
<1> QED
  BY <1>1, <1>2, <1>3, GuardsTyped, RunsOfParts, HourlyInvariant, RateInvariant, PricesAlways,
     GuardsAlways, IdentifiedAlways, PTL DEF RequestsTypeOK
=============================================================================

----------------------------- MODULE MCRequests -----------------------------
(***************************************************************************)
(* What a request meets before it is done: the guards, the rate limits,    *)
(* the price of what it moves, the rules, and the counters that the rules  *)
(* read.  They share no state, so each behaviour runs one of them, as in   *)
(* MCServices.                                                             *)
(***************************************************************************)
EXTENDS MCPolicyOutcome, SpendLimits, RequestGuards, RateLimits, Prices, TLC

VARIABLE service    \* the one that runs

requestsVars == <<outcomeVars, spendVars, guardVars, rateVars, priceVars, service>>

Services == {"outcome", "spending", "guards", "rates", "prices"}

\* Calls are interchangeable.
CallSymmetry == Permutations(Calls)

\* One organization, and two members of which the first is its admin.
OneOrgOf == [m \in Members |-> CHOOSE o \in Orgs : TRUE]

Init ==
    /\ service \in Services
    /\ OutcomeInit /\ (service = "outcome" \/ context = CHOOSE c \in Contexts : TRUE)
    /\ SpendInit /\ (service = "spending" \/ price = CHOOSE p \in Prices : TRUE)
    /\ GuardsInit
    /\ RateInit
    /\ PricesInit

Next ==
    /\ UNCHANGED service
    /\ \/ /\ service = "outcome" /\ OutcomeNext
          /\ UNCHANGED <<spendVars, guardVars, rateVars, priceVars>>
       \/ /\ service = "spending" /\ SpendNext
          /\ UNCHANGED <<outcomeVars, guardVars, rateVars, priceVars>>
       \/ /\ service = "guards" /\ GuardsNext
          /\ UNCHANGED <<outcomeVars, spendVars, rateVars, priceVars>>
       \/ /\ service = "rates" /\ RateNext
          /\ UNCHANGED <<outcomeVars, spendVars, guardVars, priceVars>>
       \/ /\ service = "prices" /\ PricesNext
          /\ UNCHANGED <<outcomeVars, spendVars, guardVars, rateVars>>

Spec == Init /\ [][Next]_requestsVars

\* Every part keeps its types.
RequestsTypeOK ==
    /\ SpendTypeOK
    /\ GuardsTypeOK
    /\ RateTypeOK
    /\ PricesTypeOK
=============================================================================

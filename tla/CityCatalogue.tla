---------------------------- MODULE CityCatalogue ----------------------------
(***************************************************************************)
(* The list of cities that StateProvider.tsx loads, with retries, and      *)
(* revalidates every minute.                                               *)
(*                                                                         *)
(* The list is versioned by catalogue, which the server grows; a request   *)
(* is answered with what is there when it is served, and answers may come  *)
(* in any order.  Version 0 is an empty list, or a request not served yet. *)
(***************************************************************************)
EXTENDS Naturals, FiniteSets

CONSTANTS MaxCatalogue, MaxLoads      \* bounds: versions, requests under way

ASSUME CatalogueBounds == MaxCatalogue \in Nat \ {0} /\ MaxLoads \in Nat \ {0}

VARIABLES catalogue, reachable, states, stateLoads, attempt, statesLoading
catalogueVars == <<catalogue, reachable, states, stateLoads, attempt, statesLoading>>

StateLoad == [by : {"load", "poll"}, version : 0..MaxCatalogue]

CatalogueInit ==
    /\ catalogue = 1 /\ reachable \in BOOLEAN
    /\ states = 0 /\ stateLoads = {[by |-> "load", version |-> 0]}
    /\ attempt = 0 /\ statesLoading = TRUE

CatalogueGrows ==
    /\ catalogue < MaxCatalogue /\ catalogue' = catalogue + 1
    /\ UNCHANGED <<reachable, states, stateLoads, attempt, statesLoading>>

ServerTurns ==
    /\ reachable' = ~reachable
    /\ UNCHANGED <<catalogue, states, stateLoads, attempt, statesLoading>>

CitiesServed(l) ==
    /\ l \in stateLoads /\ l.version = 0 /\ reachable
    /\ stateLoads' = (stateLoads \ {l}) \cup {[l EXCEPT !.version = catalogue]}
    /\ UNCHANGED <<catalogue, reachable, states, attempt, statesLoading>>

CitiesAnswered(l) ==
    /\ l \in stateLoads /\ l.version # 0
    /\ states' = l.version
    /\ stateLoads' = stateLoads \ {l}
    /\ statesLoading' = (statesLoading /\ l.by # "load")
    /\ UNCHANGED <<catalogue, reachable, attempt>>

\* loadWithRetry asks again, up to three times; then it shows an empty list,
\* whatever a revalidation brought in the meantime.  A failed revalidation
\* leaves the list alone.
CitiesFail(l) ==
    /\ l \in stateLoads /\ l.version = 0 /\ ~reachable
    /\ IF l.by = "load" /\ attempt < 3
       THEN attempt' = attempt + 1 /\ UNCHANGED <<states, stateLoads, statesLoading>>
       ELSE /\ stateLoads' = stateLoads \ {l}
            /\ states' = IF l.by = "load" THEN 0 ELSE states
            /\ statesLoading' = (statesLoading /\ l.by # "load")
            /\ UNCHANGED attempt
    /\ UNCHANGED <<catalogue, reachable>>

\* Mutant of Revalidate: a list that is there is not read again.
RevalidateEmpty ==
    /\ states = 0 /\ Cardinality(stateLoads) < MaxLoads
    /\ stateLoads' = stateLoads \cup {[by |-> "poll", version |-> 0]}
    /\ UNCHANGED <<catalogue, reachable, states, attempt, statesLoading>>

Revalidate ==
    /\ Cardinality(stateLoads) < MaxLoads
    /\ stateLoads' = stateLoads \cup {[by |-> "poll", version |-> 0]}
    /\ UNCHANGED <<catalogue, reachable, states, attempt, statesLoading>>

CatalogueNext ==
    \/ CatalogueGrows \/ ServerTurns \/ Revalidate
    \/ \E l \in StateLoad : CitiesServed(l) \/ CitiesAnswered(l) \/ CitiesFail(l)

\* The list is revalidated every minute and each request ends.
CatalogueFairness ==
    /\ WF_catalogueVars(Revalidate)
    /\ \A l \in StateLoad :
         WF_catalogueVars(CitiesServed(l) \/ CitiesAnswered(l) \/ CitiesFail(l))

CatalogueSpec == CatalogueInit /\ [][CatalogueNext]_catalogueVars /\ CatalogueFairness

-----------------------------------------------------------------------------
CatalogueTypeOK ==
    /\ catalogue \in 1..MaxCatalogue /\ reachable \in BOOLEAN
    /\ states \in 0..catalogue /\ stateLoads \subseteq StateLoad
    /\ attempt \in 0..3 /\ statesLoading \in BOOLEAN

\* While the server stays reachable, the list of cities comes to be the current
\* one and stays so, also after an outage that used up every retry, and though
\* an older answer may come after a newer one.
CitiesCatchUp == <>[]reachable => <>[](states = catalogue /\ ~statesLoading)
=============================================================================

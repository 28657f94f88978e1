------------------------------ MODULE RateLimit ------------------------------
(***************************************************************************)
(* CompetitionController with a history of when each key last went out on  *)
(* each level, to compare what handle_jam_key publishes with the rate the  *)
(* documents promise.                                                      *)
(***************************************************************************)
EXTENDS CompetitionController

VARIABLE since  \* level -> key -> ticks since its last publication (saturated)

rateVars == << vars, since >>

RateInit == Init /\ since = [l \in Levels |-> [k \in Keys |-> KeyPublishMinInterval]]

RateNext ==
    \/ \E c \in Contexts : UpdateContext(c) /\ UNCHANGED since
    \/ \E lvl \in EventLevels, key \in Keys :
          /\ KeyCanArrive(lvl)
          /\ HandleJamKey(lvl, key)
          /\ since' = [since EXCEPT ![EventLevel(lvl)][key] = 0]
    \/ /\ Tick
       /\ since' = [l \in Levels |-> [k \in Keys |->
                       Smaller(since[l][k] + 1, KeyPublishMinInterval)]]

RateSpec == RateInit /\ [][RateNext]_rateVars

\* A handler that publishes key k on level l in this step.
Publishes(l, k) ==
    /\ published_keys'[l] # published_keys[l]
    /\ published_keys'[l].key = k /\ published_keys'[l].age = 0

\* "The same key on the same level is published at most every 500 ms" (the
\* architecture document, line 146).  A different key decoded in between
\* replaces the record, and the first key then passes as new.
SameKeyOncePerInterval ==
    [][\A l \in Levels, k \in Keys :
          Publishes(l, k) => since[l][k] >= KeyPublishMinInterval]_rateVars

\* What the code does guarantee: a key that goes out again too early was
\* preceded, within the same interval, by another key of that level.
EarlyRepeatOnlyAfterAnotherKey ==
    [][\A l \in Levels, k \in Keys :
          Publishes(l, k) /\ since[l][k] < KeyPublishMinInterval =>
             \E other \in Keys \ {k} : since[l][other] <= since[l][k]]_rateVars
=============================================================================

---------------------------- MODULE BackendHealth -----------------------------
(***************************************************************************)
(* wait_for_backends_healthy_status of framework/infrastructure/gcp/       *)
(* compute.py: polling the health of a backend service's network endpoint  *)
(* groups, one per zone, under a constant_retryer that retries on any      *)
(* exception.                                                              *)
(*                                                                         *)
(* The loop of _retry_backends_health removes from the set it iterates     *)
(* over; Python's set iterator raises RuntimeError on the next step after  *)
(* that, even when the removed element was the last one.                   *)
(***************************************************************************)
EXTENDS Retryers, FiniteSets

CONSTANTS
  Backends,      \* network endpoint groups of the backend service
  Replicas,      \* server pods; replica_count is their number
  MaxAttempts,   \* attempts that fit in the timeout
  MaxDisruptions \* bound: replicas turning unhealthy, failed requests

ASSUME BackendHealthConstants ==
  /\ IsFiniteSet(Backends) /\ Backends # {}
  /\ IsFiniteSet(Replicas) /\ Replicas # {}
  /\ MaxAttempts \in Nat \ {0} /\ MaxDisruptions \in Nat

VARIABLES
  zone,        \* replica -> the group of the zone it was scheduled in
  up,          \* replica -> reported HEALTHY
  pending,     \* argument of _retry_backends_health
  healthy,     \* argument of _retry_backends_health
  toPoll,      \* what the iteration over pending has not reached yet
  attempt,
  disruptions,
  good         \* history: consecutive attempts with nothing going wrong

polls == <<pending, healthy, toPoll, pc, attempt>>
healthVars == <<zone, up, polls, looks, disruptions, good>>

replica_count == Cardinality(Replicas)

InZone(b) == {r \in Replicas : zone[r] = b}
AllUp == \A r \in Replicas : up[r]

HealthInit ==
  /\ zone \in [Replicas -> Backends]
  /\ up \in [Replicas -> BOOLEAN]
  /\ pending = Backends /\ healthy = {} /\ toPoll = {}
  /\ pc = "look" /\ looks = 0 /\ attempt = 0
  /\ disruptions = 0 /\ good = 0

Poll ==
  /\ pc = "look"
  /\ pc' = "loop"
  /\ attempt' = attempt + 1
  /\ toPoll' = pending
  /\ good' = IF AllUp THEN good + 1 ELSE 0
  /\ UNCHANGED <<zone, up, pending, healthy, disruptions>>

\* The attempt raised or returned False: another one, or, with the time up, a
\* RetryError.
PollFails ==
  \E timeUp \in BOOLEAN :
    /\ attempt = MaxAttempts => timeUp
    /\ pc' = IF timeUp THEN "failed" ELSE "look"

\* Every instance listed is HEALTHY; without endpoints there is no list.
IsHealthy(b) == InZone(b) # {} /\ \A r \in InZone(b) : up[r]

CheckUnhealthy(b) ==
  /\ pc = "loop" /\ b \in toPoll
  /\ ~IsHealthy(b)
  /\ toPoll' = toPoll \ {b}
  /\ UNCHANGED <<zone, up, pending, healthy, pc, attempt, disruptions, good>>

\* Slip: the iterator's error comes before the backend is removed.
RaisesBeforeRemoval(b) ==
  /\ pc = "loop" /\ b \in toPoll
  /\ IsHealthy(b)
  /\ toPoll' = {}
  /\ PollFails
  /\ UNCHANGED <<zone, up, pending, healthy, attempt, disruptions, good>>

\* The backend is moved to healthy, and the iterator raises.
CheckHealthy(b) ==
  /\ pc = "loop" /\ b \in toPoll
  /\ IsHealthy(b)
  /\ pending' = pending \ {b}
  /\ healthy' = healthy \cup {b}
  /\ toPoll' = {}
  /\ PollFails
  /\ UNCHANGED <<zone, up, attempt, disruptions, good>>

\* getHealth is not retried on its own.
CheckFails(b) ==
  /\ pc = "loop" /\ b \in toPoll /\ disruptions < MaxDisruptions
  /\ disruptions' = disruptions + 1
  /\ toPoll' = {}
  /\ PollFails
  /\ good' = 0
  /\ UNCHANGED <<zone, up, pending, healthy, attempt>>

\* Slip: one healthy backend is enough.
AnyBackend == pending = {} \/ healthy # {}

IsDone == pending = {} \/ Cardinality(healthy) >= replica_count

LoopEnds ==
  /\ pc = "loop" /\ toPoll = {}
  /\ IF IsDone THEN pc' = "passed" ELSE PollFails
  /\ UNCHANGED <<zone, up, pending, healthy, toPoll, attempt, disruptions,
                 good>>

BecomesHealthy(r) ==
  /\ ~up[r]
  /\ up' = [up EXCEPT ![r] = TRUE]
  /\ UNCHANGED <<zone, polls, disruptions, good>>

BecomesUnhealthy(r) ==
  /\ up[r] /\ disruptions < MaxDisruptions
  /\ disruptions' = disruptions + 1
  /\ up' = [up EXCEPT ![r] = FALSE]
  /\ good' = 0
  /\ UNCHANGED <<zone, polls>>

HealthStep ==
  /\ UNCHANGED looks
  /\ \/ Poll \/ LoopEnds
     \/ \E b \in Backends :
          CheckUnhealthy(b) \/ CheckHealthy(b) \/ CheckFails(b)

HealthWorld ==
  /\ UNCHANGED looks
  /\ \E r \in Replicas : BecomesHealthy(r) \/ BecomesUnhealthy(r)

HealthNext == HealthStep \/ HealthWorld
HealthSpec == HealthInit /\ [][HealthNext]_healthVars

-------------------------------------------------------------------------------
(* Properties *)

HealthTypeOK ==
  /\ zone \in [Replicas -> Backends] /\ up \in [Replicas -> BOOLEAN]
  /\ pending \subseteq Backends /\ healthy \subseteq Backends
  /\ toPoll \subseteq Backends
  /\ pc \in {"look", "loop"} \cup Ends
  /\ attempt \in 0..MaxAttempts /\ good \in 0..attempt
  /\ disruptions \in 0..MaxDisruptions

\* When the wait returns, every server replica is in a zone that reported
\* healthy, however few zones that took.
ReturnCoversReplicas ==
  pc = "passed" => \A r \in Replicas : zone[r] \in healthy

\* The RuntimeErrors only cost attempts, one per backend: with a replica in
\* every zone, |Backends| + 1 attempts of calm weather are always enough.
CalmIsEnough ==
  pc = "failed" /\ (\A b \in Backends : InZone(b) # {}) =>
    good <= Cardinality(Backends)

\* "to cover the case when there are fewer endpoinds than backends": zones
\* without endpoints do not keep the wait from returning in calm weather.
EmptyZonesAreCovered == pc = "failed" => good <= Cardinality(Backends)
===============================================================================

------------------------- MODULE BackendHealth_proofs -------------------------
(***************************************************************************)
(* Proofs about BackendHealth, for any number of zones, replicas, attempts *)
(* and disruptions.                                                        *)
(*                                                                         *)
(* The inductive invariant IInv says that no backend leaves both sets,     *)
(* that a backend found healthy has a replica, and that the wait returns   *)
(* only under its condition.  That the condition, which counts zones       *)
(* against pods, is enough is a fact about cardinalities: healthy zones    *)
(* are zones of replicas, so with as many of them as replicas they are all *)
(* of those.                                                               *)
(***************************************************************************)
EXTENDS BackendHealth, FiniteSetTheorems, TLAPS

Accounted == pending \cup healthy = Backends

HealthyIsUsed == \A b \in healthy : \E r \in Replicas : zone[r] = b

DoneIsDone == pc = "passed" => IsDone

CanRetry == pc = "look" => attempt < MaxAttempts

IInv == HealthTypeOK /\ Accounted /\ HealthyIsUsed /\ DoneIsDone /\ CanRetry

-------------------------------------------------------------------------------

\* The first attempt starts with every backend pending and none healthy
\* (compute.py, wait_for_backends_healthy_status).
THEOREM InitIInv == HealthInit => IInv
<1> SUFFICES ASSUME HealthInit PROVE IInv
  OBVIOUS
<1>1. HealthTypeOK
  BY BackendHealthConstants DEF HealthInit, HealthTypeOK, Ends
<1>2. Accounted /\ HealthyIsUsed /\ DoneIsDone /\ CanRetry
  BY BackendHealthConstants
  DEF HealthInit, Accounted, HealthyIsUsed, DoneIsDone, CanRetry
<1> QED
  BY <1>1, <1>2 DEF IInv

\* A poll moves backends from pending to healthy and returns only under the
\* condition of its loop; replicas change only their own health.
THEOREM NextIInv == IInv /\ [HealthNext]_healthVars => IInv'
<1> SUFFICES ASSUME IInv, [HealthNext]_healthVars PROVE IInv'
  OBVIOUS
<1> USE BackendHealthConstants DEF IInv, Ends
<1>1. CASE Poll
  BY <1>1 DEF Poll, HealthTypeOK, Accounted, HealthyIsUsed, DoneIsDone, CanRetry
<1>2. CASE LoopEnds
  BY <1>2 DEF LoopEnds, PollFails, HealthTypeOK, Accounted, HealthyIsUsed,
    DoneIsDone, IsDone, CanRetry
<1>3. ASSUME NEW b \in Backends, CheckUnhealthy(b) PROVE IInv'
  BY <1>3 DEF CheckUnhealthy, HealthTypeOK, Accounted, HealthyIsUsed,
    DoneIsDone, CanRetry
<1>4. ASSUME NEW b \in Backends, CheckHealthy(b) PROVE IInv'
  <2>1. HealthTypeOK'
    BY <1>4 DEF CheckHealthy, PollFails, HealthTypeOK
  <2>2. Accounted'
    BY <1>4 DEF CheckHealthy, Accounted
  <2>3. HealthyIsUsed'
    BY <1>4 DEF CheckHealthy, HealthyIsUsed, IsHealthy, InZone
  <2>4. DoneIsDone' /\ CanRetry'
    BY <1>4 DEF CheckHealthy, PollFails, HealthTypeOK, DoneIsDone, CanRetry
  <2> QED
    BY <2>1, <2>2, <2>3, <2>4
<1>5. ASSUME NEW b \in Backends, CheckFails(b) PROVE IInv'
  BY <1>5 DEF CheckFails, PollFails, HealthTypeOK, Accounted, HealthyIsUsed,
    DoneIsDone, CanRetry
<1>6. ASSUME NEW r \in Replicas, BecomesHealthy(r) PROVE IInv'
  BY <1>6 DEF BecomesHealthy, polls, HealthTypeOK, Accounted, HealthyIsUsed,
    DoneIsDone, IsDone, CanRetry
<1>7. ASSUME NEW r \in Replicas, BecomesUnhealthy(r) PROVE IInv'
  BY <1>7 DEF BecomesUnhealthy, polls, HealthTypeOK, Accounted, HealthyIsUsed,
    DoneIsDone, IsDone, CanRetry
<1>8. CASE UNCHANGED healthVars
  BY <1>8 DEF healthVars, polls, HealthTypeOK, Accounted, HealthyIsUsed,
    DoneIsDone, IsDone, CanRetry
<1> QED
  BY <1>1, <1>2, <1>3, <1>4, <1>5, <1>6, <1>7, <1>8
  DEF HealthNext, HealthStep, HealthWorld

\* The condition of the loop is enough: as many healthy zones as replicas, or no
\* pending zone, cover the zone of every replica.
LEMMA ConditionCovers ==
  ASSUME IInv, IsDone
  PROVE  \A r \in Replicas : zone[r] \in healthy
<1> USE BackendHealthConstants
<1> DEFINE Used == {zone[r] : r \in Replicas}
<1>1. zone \in [Replicas -> Backends]
  BY DEF IInv, HealthTypeOK
<1>2. CASE pending = {}
  BY <1>1, <1>2 DEF IInv, Accounted
<1>3. CASE Cardinality(healthy) >= replica_count
  <2>1. zone \in Surjection(Replicas, Used)
    BY <1>1 DEF Surjection
  <2>2. /\ IsFiniteSet(Used)
        /\ Cardinality(Used) <= Cardinality(Replicas)
    BY <2>1, FS_Surjection
  <2>3. healthy \in SUBSET Used
    BY DEF IInv, HealthyIsUsed
  <2> HIDE DEF Used
  <2>4. /\ IsFiniteSet(healthy)
        /\ Cardinality(healthy) <= Cardinality(Used)
        /\ Cardinality(Used) = Cardinality(healthy) => Used = healthy
    BY <2>2, <2>3, FS_Subset
  <2>5. /\ Cardinality(healthy) \in Nat /\ Cardinality(Used) \in Nat
        /\ Cardinality(Replicas) \in Nat
    BY <2>2, <2>4, FS_CardinalityType
  <2>6. Used = healthy
    BY <1>3, <2>2, <2>4, <2>5 DEF replica_count
  <2> QED
    BY <2>6 DEF Used
<1> QED
  BY <1>2, <1>3 DEF IsDone

\* The variables keep their types, for any number of zones and replicas.
THEOREM TypeCorrect == HealthSpec => []HealthTypeOK
<1>1. IInv => HealthTypeOK
  BY DEF IInv
<1> QED
  BY InitIInv, NextIInv, <1>1, PTL DEF HealthSpec

\* wait_for_backends_healthy_status returns only when the zone of every server
\* replica was seen healthy, though it compares a number of zones with a number
\* of pods.
THEOREM ReturnIsCovered == HealthSpec => []ReturnCoversReplicas
<1>1. IInv => ReturnCoversReplicas
  BY ConditionCovers DEF IInv, DoneIsDone, ReturnCoversReplicas
<1> QED
  BY InitIInv, NextIInv, <1>1, PTL DEF HealthSpec

-------------------------------------------------------------------------------
(* Calm weather *)

AllCovered == \A b \in Backends : InZone(b) # {}

\* With a replica in every zone each attempt with nothing going wrong finds one
\* more zone healthy, or finds that none is left.
CalmInv ==
  /\ pending \cap healthy = {}
  /\ AllCovered =>
       /\ good > 0 => AllUp
       /\ pc \in {"look", "failed"} => good <= Cardinality(healthy)
       /\ pc = "loop" /\ good > 0 =>
            toPoll = pending /\ good <= Cardinality(healthy) + 1

\* Polls never find a zone unhealthy while the weather is calm.
LEMMA NextCalm == IInv /\ CalmInv /\ [HealthNext]_healthVars => CalmInv'
<1> SUFFICES ASSUME IInv, CalmInv, [HealthNext]_healthVars PROVE CalmInv'
  OBVIOUS
<1> USE BackendHealthConstants DEF Ends
<1>t. /\ HealthTypeOK /\ IsFiniteSet(healthy)
      /\ Cardinality(healthy) \in Nat /\ good \in Nat
  BY FS_Subset, FS_CardinalityType DEF IInv, HealthTypeOK
<1>1. CASE Poll
  <2>1. UNCHANGED <<zone, up, pending, healthy>> /\ pc = "look" /\ pc' = "loop"
        /\ toPoll' = pending /\ good' = IF AllUp THEN good + 1 ELSE 0
    BY <1>1 DEF Poll
  <2> QED
    BY <1>t, <2>1 DEF CalmInv, AllCovered, InZone, AllUp
<1>2. CASE LoopEnds
  <2>1. /\ UNCHANGED <<zone, up, pending, healthy, toPoll, good>>
        /\ pc = "loop" /\ toPoll = {} /\ pc' \in {"passed", "look", "failed"}
        /\ IsDone => pc' = "passed"
    BY <1>2 DEF LoopEnds, PollFails
  <2>2. AllCovered /\ good > 0 => pc' = "passed"
    BY <2>1 DEF CalmInv, IsDone
  <2> QED
    BY <1>t, <2>1, <2>2 DEF CalmInv, AllCovered, InZone, AllUp
<1>3. ASSUME NEW b \in Backends, CheckUnhealthy(b) PROVE CalmInv'
  <2>1. /\ UNCHANGED <<zone, up, pending, healthy, good, pc>>
        /\ ~IsHealthy(b) /\ pc = "loop"
    BY <1>3 DEF CheckUnhealthy
  <2>2. AllCovered /\ good > 0 => FALSE
    BY <2>1 DEF CalmInv, AllCovered, AllUp, IsHealthy, InZone
  <2> QED
    BY <1>t, <2>1, <2>2 DEF CalmInv, AllCovered, InZone, AllUp
<1>4. ASSUME NEW b \in Backends, CheckHealthy(b) PROVE CalmInv'
  <2>1. /\ UNCHANGED <<zone, up, good>> /\ pc = "loop" /\ b \in toPoll
        /\ pending' = pending \ {b} /\ healthy' = healthy \cup {b}
        /\ pc' \in {"look", "failed"}
    BY <1>4 DEF CheckHealthy, PollFails
  <2>2. CASE ~(AllCovered /\ good > 0)
    <3>1. IsFiniteSet(healthy') /\ Cardinality(healthy') \in Nat
      BY <1>t, <2>1, FS_AddElement, FS_CardinalityType
    <3> QED
      BY <1>t, <2>1, <2>2, <3>1 DEF CalmInv, AllCovered, InZone, AllUp
  <2>3. CASE AllCovered /\ good > 0
    <3>1. b \notin healthy /\ good <= Cardinality(healthy) + 1
      BY <2>1, <2>3 DEF CalmInv
    <3>2. Cardinality(healthy') = Cardinality(healthy) + 1
      BY <1>t, <2>1, <3>1, FS_AddElement
    <3> QED
      BY <1>t, <2>1, <2>3, <3>1, <3>2 DEF CalmInv, AllCovered, InZone, AllUp
  <2> QED
    BY <2>2, <2>3
<1>5. ASSUME NEW b \in Backends, CheckFails(b) PROVE CalmInv'
  BY <1>t, <1>5 DEF CheckFails, CalmInv
<1>6. ASSUME NEW r \in Replicas, BecomesHealthy(r) PROVE CalmInv'
  <2>1. /\ UNCHANGED <<zone, pending, healthy, toPoll, pc, good>>
        /\ AllUp => FALSE
    BY <1>6 DEF BecomesHealthy, polls, AllUp
  <2> QED
    BY <1>t, <2>1 DEF CalmInv, AllCovered, InZone
<1>7. ASSUME NEW r \in Replicas, BecomesUnhealthy(r) PROVE CalmInv'
  BY <1>t, <1>7 DEF BecomesUnhealthy, polls, CalmInv
<1>8. CASE UNCHANGED healthVars
  BY <1>8 DEF healthVars, polls, CalmInv, AllCovered, InZone, AllUp
<1> QED
  BY <1>1, <1>2, <1>3, <1>4, <1>5, <1>6, <1>7, <1>8
  DEF HealthNext, HealthStep, HealthWorld

\* The zones found healthy are counted by the attempts of calm weather.
LEMMA CalmMeansEnough ==
  ASSUME IInv, CalmInv
  PROVE  CalmIsEnough
<1> SUFFICES ASSUME pc = "failed", AllCovered
             PROVE  good <= Cardinality(Backends)
  BY DEF CalmIsEnough, AllCovered
<1>1. /\ Cardinality(healthy) <= Cardinality(Backends)
      /\ IsFiniteSet(healthy)
  BY BackendHealthConstants, FS_Subset DEF IInv, HealthTypeOK
<1>2. Cardinality(healthy) \in Nat /\ Cardinality(Backends) \in Nat
      /\ good \in Nat
  BY <1>1, BackendHealthConstants, FS_CardinalityType DEF IInv, HealthTypeOK
<1> QED
  BY <1>1, <1>2 DEF CalmInv

\* The removal from the set that is iterated over, which raises, costs
\* _retry_backends_health an attempt for each zone and no more: with a replica
\* in every zone the wait is not given up after more calm attempts than zones.
THEOREM CalmIsProved == HealthSpec => []CalmIsEnough
<1>1. HealthInit => CalmInv
  <2>1. Cardinality({}) = 0
    BY FS_EmptySet
  <2> QED
    BY <2>1 DEF HealthInit, CalmInv
<1>2. IInv /\ CalmInv => CalmIsEnough
  BY CalmMeansEnough
<1> QED
  BY InitIInv, NextIInv, NextCalm, <1>1, <1>2, PTL DEF HealthSpec
===============================================================================

------------------------ MODULE TrafficDirector_proofs ------------------------
(***************************************************************************)
(* Proofs about TrafficDirector, for any test suites: any number of        *)
(* creations and deletions in any order, any resources found beforehand,   *)
(* any number of failing requests, with or without Ctrl-C and force.       *)
(*                                                                         *)
(* IInv says what a cleanup that deletes by name has still to come to at   *)
(* each of its steps, and that the manager holds no firewall rule of       *)
(* others.  ChainInv says how what exists hangs together: its references   *)
(* lead to what exists, and from all routing to a health check.  LeakInv   *)
(* says of each resource what still accounts for it: a step to come, a     *)
(* failed request or a user that will not go.  That users are deleted      *)
(* first is a fact about the orders, by the Level of each resource.        *)
(***************************************************************************)
EXTENDS TrafficDirector, SequenceTheorems, TLAPS

Known == exists \cup pending \subseteq Creatable \cup Suite.foreign

StartsAtFirst == phase \in {"setUp", "test"} => step = 1

\* The running cleanup has not yet come to r.
ToCome(r) == \E i \in step..Len(Order) : Order[i] = r

ByScript ==
  /\ phase \in {"janitor", "swept"} => force
  /\ phase = "janitor" => "hc" \in Creatable

ForcedSoFar ==
  phase \in Cleaning /\ force /\ ~refused =>
    \A r \in exists \ Firewall : ToCome(r) \/ (phase = "clean" /\ r \in late)

ForeignKept ==
  ~force => Suite.foreign \subseteq exists /\ held \cap Suite.foreign = {}

IInv ==
  /\ TypeOK /\ Known /\ StartsAtFirst /\ ByScript /\ ForcedSoFar
  /\ DeletionByNameIsComplete /\ ForeignKept

-------------------------------------------------------------------------------
(* The orders of cleanup cover what the managers make *)

Steps(o) == {o[i] : i \in 1..Len(o)}

\* A cleanup that calls another one goes through the steps of both.
LEMMA StepsOfBoth ==
  ASSUME NEW s \in Seq(Resource), NEW t \in Seq(Resource)
  PROVE  s \o t \in Seq(Resource) /\ Steps(s \o t) = Steps(s) \cup Steps(t)
<1>1. /\ s \o t \in Seq(Resource) /\ Len(s \o t) = Len(s) + Len(t)
      /\ \A i \in 1..Len(s) : (s \o t)[i] = s[i]
      /\ \A i \in 1..Len(t) : (s \o t)[i + Len(s)] = t[i]
  BY ConcatProperties
<1>2. Len(s) \in Nat /\ Len(t) \in Nat
  BY LenProperties
<1>3. ASSUME NEW i \in 1..Len(s \o t)
      PROVE  (s \o t)[i] \in Steps(s) \cup Steps(t)
  <2>1. CASE i <= Len(s)
    BY <1>1, <1>2, <2>1 DEF Steps
  <2>2. CASE i > Len(s)
    <3>1. i - Len(s) \in 1..Len(t) /\ (i - Len(s)) + Len(s) = i
      BY <1>1, <1>2, <2>2
    <3> QED
      BY <1>1, <3>1 DEF Steps
  <2> QED
    BY <1>2, <2>1, <2>2
<1>4. ASSUME NEW i \in 1..Len(s) PROVE s[i] \in Steps(s \o t)
  BY <1>1, <1>2 DEF Steps
<1>5. ASSUME NEW i \in 1..Len(t) PROVE t[i] \in Steps(s \o t)
  <2>1. i + Len(s) \in 1..Len(s \o t)
    BY <1>1, <1>2
  <2> QED
    BY <1>1, <2>1 DEF Steps
<1> QED
  BY <1>1, <1>3, <1>4, <1>5 DEF Steps

\* The steps of the base class.
LEMMA ComputeSteps ==
  ASSUME NEW d \in BOOLEAN
  PROVE  /\ ComputeOrder(d) \in Seq(Resource)
         /\ Firewall \cup (Routing \ (IF d THEN {} ELSE {"fr6", "tp6"}))
              \subseteq Steps(ComputeOrder(d))
<1> DEFINE a == <<"fw", "fw6", "fr", "frAlt", "tpHttp", "tpGrpc">>
           b == IF d THEN <<"fr6", "tp6">> ELSE << >>
           c == <<"tpAlt", "um", "umAlt", "be", "beAlt", "beAff", "hc">>
<1>1. /\ a \in Seq(Resource)
      /\ Firewall \cup {"fr", "frAlt", "tpHttp", "tpGrpc"} \subseteq Steps(a)
  BY DEF Steps, Resource, Firewall, Routing
<1>2. /\ b \in Seq(Resource)
      /\ d => {"fr6", "tp6"} \subseteq Steps(b)
  <2>1. /\ <<"fr6", "tp6">> \in Seq(Resource)
        /\ Steps(<<"fr6", "tp6">>) = {"fr6", "tp6"}
    BY DEF Steps, Resource, Routing
  <2>2. << >> \in Seq(Resource)
    OBVIOUS
  <2> QED
    BY <2>1, <2>2
<1>3. /\ c \in Seq(Resource)
      /\ {"tpAlt", "um", "umAlt", "be", "beAlt", "beAff", "hc"}
           \subseteq Steps(c)
  BY DEF Steps, Resource, Routing, Backends
<1>4. ComputeOrder(d) = (a \o b) \o c
  BY DEF ComputeOrder
<1> HIDE DEF a, b, c
<1>5. a \o b \in Seq(Resource) /\ Steps(a \o b) = Steps(a) \cup Steps(b)
  BY <1>1, <1>2, StepsOfBoth
<1>6. /\ ComputeOrder(d) \in Seq(Resource)
      /\ Steps(ComputeOrder(d)) = Steps(a) \cup Steps(b) \cup Steps(c)
  BY <1>3, <1>4, <1>5, StepsOfBoth
<1> QED
  BY <1>1, <1>2, <1>3, <1>6 DEF Routing, Backends

\* Those of the classes derived from it.
LEMMA DerivedSteps ==
  ASSUME NEW d \in BOOLEAN
  PROVE  /\ AppNetOrder(d) \in Seq(Resource)
         /\ Steps(AppNetOrder(d)) =
              {"httpRoute", "grpcRoute", "mesh"} \cup Steps(ComputeOrder(d))
         /\ SecureOrder(d) \in Seq(Resource)
         /\ Steps(SecureOrder(d)) = Steps(ComputeOrder(d)) \cup Policies
<1>1. ComputeOrder(d) \in Seq(Resource)
  BY ComputeSteps
<1>2. /\ <<"httpRoute", "grpcRoute", "mesh">> \in Seq(Resource)
      /\ Steps(<<"httpRoute", "grpcRoute", "mesh">>) =
           {"httpRoute", "grpcRoute", "mesh"}
  BY DEF Steps, Resource, AppNet
<1>3. /\ <<"ep", "serverTls", "clientTls", "authz">> \in Seq(Resource)
      /\ Steps(<<"ep", "serverTls", "clientTls", "authz">>) = Policies
  BY DEF Steps, Resource, Policies
<1> QED
  BY <1>1, <1>2, <1>3, StepsOfBoth DEF AppNetOrder, SecureOrder

\* The cleanup of each manager comes to all that the manager makes.
LEMMA CleanupCovers ==
  ASSUME NEW s \in Managers
  PROVE  /\ CleanupOrder(s) \in Seq(Resource)
         /\ Managed(s) \subseteq Steps(CleanupOrder(s))
<1>0. s.dualstack \in BOOLEAN
      /\ s.kind \in {"compute", "appnet", "secure", "cloudrun", "spiffe"}
  BY DEF Managers
<1>1. <<"neg">> \in Seq(Resource) /\ Steps(<<"neg">>) = {"neg"}
  BY DEF Steps, Resource, AppNet
<1>2. /\ <<"grpcRoute", "mesh">> \in Seq(Resource)
      /\ Steps(<<"grpcRoute", "mesh">>) = {"grpcRoute", "mesh"}
  BY DEF Steps, Resource, AppNet
<1>3. CASE s.kind = "compute"
  BY <1>0, <1>3, ComputeSteps DEF CleanupOrder, Managed
<1>4. CASE s.kind = "appnet"
  BY <1>0, <1>4, ComputeSteps, DerivedSteps DEF CleanupOrder, Managed, AppNet
<1>5. CASE s.kind = "secure"
  BY <1>0, <1>5, ComputeSteps, DerivedSteps DEF CleanupOrder, Managed
<1>6. CASE s.kind = "cloudrun"
  <2>1. CleanupOrder(s) = AppNetOrder(s.dualstack) \o <<"neg">>
    BY <1>6 DEF CleanupOrder
  <2>2. AppNetOrder(s.dualstack) \in Seq(Resource)
    BY <1>0, DerivedSteps
  <2>3. CleanupOrder(s) \in Seq(Resource)
        /\ Steps(CleanupOrder(s)) = Steps(AppNetOrder(s.dualstack)) \cup {"neg"}
    BY <1>1, <2>1, <2>2, StepsOfBoth
  <2> QED
    BY <1>0, <1>6, <2>3, ComputeSteps, DerivedSteps DEF Managed, AppNet
<1>7. CASE s.kind = "spiffe"
  <2>1. CleanupOrder(s) = <<"grpcRoute", "mesh">> \o SecureOrder(s.dualstack)
    BY <1>7 DEF CleanupOrder
  <2>2. SecureOrder(s.dualstack) \in Seq(Resource)
    BY <1>0, DerivedSteps
  <2>3. CleanupOrder(s) \in Seq(Resource)
        /\ Steps(CleanupOrder(s)) =
             {"grpcRoute", "mesh"} \cup Steps(SecureOrder(s.dualstack))
    BY <1>2, <2>1, <2>2, StepsOfBoth
  <2> QED
    BY <1>0, <1>7, <2>3, ComputeSteps, DerivedSteps DEF Managed
<1> QED
  BY <1>0, <1>3, <1>4, <1>5, <1>6, <1>7

\* The managers of the cleanup script come to all but serverless groups.
LEMMA JanitorCovers ==
  ASSUME NEW s \in Managers
  PROVE  /\ JanitorOrder(s) \in Seq(Resource)
         /\ Managed(s) \ (Firewall \cup {"neg"})
              \subseteq Steps(JanitorOrder(s))
<1>0. s.dualstack \in BOOLEAN
      /\ s.kind \in {"compute", "appnet", "secure", "cloudrun", "spiffe"}
  BY DEF Managers
<1> DEFINE a == SecureOrder(s.dualstack)
           b == AppNetOrder(FALSE)
           c == ComputeOrder(s.dualstack)
<1>1. a \in Seq(Resource) /\ b \in Seq(Resource) /\ c \in Seq(Resource)
  BY <1>0, ComputeSteps, DerivedSteps
<1>2. /\ {"httpRoute", "grpcRoute", "mesh"} \subseteq Steps(b)
      /\ Steps(a) = Steps(c) \cup Policies
      /\ Routing \ (IF s.dualstack THEN {} ELSE {"fr6", "tp6"})
           \subseteq Steps(c)
  BY <1>0, ComputeSteps, DerivedSteps
<1>3. JanitorOrder(s) = (a \o b) \o c
  BY DEF JanitorOrder
<1> HIDE DEF a, b, c
<1>4. a \o b \in Seq(Resource) /\ Steps(a \o b) = Steps(a) \cup Steps(b)
  BY <1>1, StepsOfBoth
<1>5. /\ JanitorOrder(s) \in Seq(Resource)
      /\ Steps(JanitorOrder(s)) = Steps(a) \cup Steps(b) \cup Steps(c)
  BY <1>1, <1>3, <1>4, StepsOfBoth
<1> QED
  BY <1>0, <1>2, <1>5 DEF Managed, AppNet

-------------------------------------------------------------------------------
(* The orders of cleanup come to the users of a resource before it *)

Level(r) ==
  CASE r \in {"httpRoute", "grpcRoute"} -> 0
    [] r = "mesh"             -> 1
    [] r = "fw"               -> 2
    [] r = "fw6"              -> 3
    [] r \in {"fr", "frAlt"}  -> 4
    [] r = "tpHttp"           -> 5
    [] r \in {"tpGrpc", "fr6"} -> 6
    [] r \in {"tp6", "tpAlt"} -> 7
    [] r = "um"               -> 8
    [] r = "umAlt"            -> 9
    [] r \in Backends         -> 10
    [] r \in {"hc", "ep"}     -> 11
    [] OTHER                  -> 12

Sorted(o) == \A i, j \in 1..Len(o) : i < j => Level(o[i]) <= Level(o[j])

\* A resource refers to those of higher levels only.
LEMMA UsersFirst ==
  ASSUME NEW u \in Resource, NEW r \in MayReferTo(u)
  PROVE  /\ Level(u) < Level(r) /\ Level(u) \in 0..12 /\ Level(r) \in 0..12
         /\ r \in Resource \ Firewall /\ u \notin Firewall /\ u # r
<1> USE DEF Backends, Proxies
<1>1. CASE u = "be"
  BY <1>1 DEF MayReferTo, Level, Resource, Routing, Policies, AppNet, Firewall
<1>2. CASE u \in {"beAlt", "beAff"}
  BY <1>2 DEF MayReferTo, Level, Resource, Routing, Firewall
<1>3. CASE u = "um"
  BY <1>3 DEF MayReferTo, Level, Resource, Routing, Firewall
<1>4. CASE u = "umAlt"
  BY <1>4 DEF MayReferTo, Level, Resource, Routing, Firewall
<1>5. CASE u \in Proxies \cup {"tp6"}
  BY <1>5 DEF MayReferTo, Level, Resource, Routing, Firewall
<1>6. CASE u = "tpAlt"
  BY <1>6 DEF MayReferTo, Level, Resource, Routing, Firewall
<1>7. CASE u \in {"fr", "fr6", "frAlt"}
  BY <1>7 DEF MayReferTo, Level, Resource, Routing, Firewall
<1>8. CASE u \in {"grpcRoute", "httpRoute"}
  BY <1>8 DEF MayReferTo, Level, Resource, Routing, AppNet, Firewall
<1>9. CASE u = "ep"
  BY <1>9 DEF MayReferTo, Level, Resource, Routing, Policies, Firewall
<1> QED
  BY <1>1, <1>2, <1>3, <1>4, <1>5, <1>6, <1>7, <1>8, <1>9 DEF MayReferTo

\* Every step has a level.
LEMMA LevelFacts ==
  ASSUME NEW r PROVE Level(r) \in 0..12
BY DEF Level

\* One order after the other is sorted if the first one ends where the other
\* one begins.
LEMMA SortedBoth ==
  ASSUME NEW s \in Seq(Resource), NEW t \in Seq(Resource), Sorted(s), Sorted(t),
         NEW n \in Nat, \A r \in Steps(s) : Level(r) <= n,
         \A r \in Steps(t) : n <= Level(r)
  PROVE  Sorted(s \o t)
<1>1. /\ Len(s \o t) = Len(s) + Len(t)
      /\ \A i \in 1..Len(s) : (s \o t)[i] = s[i]
      /\ \A i \in 1..Len(t) : (s \o t)[i + Len(s)] = t[i]
  BY ConcatProperties
<1>2. Len(s) \in Nat /\ Len(t) \in Nat
  BY LenProperties
<1> SUFFICES ASSUME NEW i \in 1..Len(s \o t), NEW j \in 1..Len(s \o t), i < j
             PROVE  Level((s \o t)[i]) <= Level((s \o t)[j])
  BY DEF Sorted
<1>3. CASE j <= Len(s)
  <2>1. i \in 1..Len(s) /\ j \in 1..Len(s)
    BY <1>1, <1>2, <1>3
  <2> QED
    BY <1>1, <2>1 DEF Sorted
<1>4. CASE i > Len(s)
  <2> DEFINE k == i - Len(s)
             m == j - Len(s)
  <2>1. k \in 1..Len(t) /\ m \in 1..Len(t) /\ k < m
        /\ k + Len(s) = i /\ m + Len(s) = j
    BY <1>1, <1>2, <1>4
  <2> HIDE DEF k, m
  <2>2. (s \o t)[i] = t[k] /\ (s \o t)[j] = t[m]
    BY <1>1, <2>1
  <2> QED
    BY <2>1, <2>2 DEF Sorted
<1>5. CASE i <= Len(s) /\ j > Len(s)
  <2> DEFINE m == j - Len(s)
  <2>1. i \in 1..Len(s) /\ m \in 1..Len(t) /\ m + Len(s) = j
    BY <1>1, <1>2, <1>5
  <2> HIDE DEF m
  <2>2. (s \o t)[i] = s[i] /\ (s \o t)[j] = t[m]
    BY <1>1, <2>1
  <2>3. Level(s[i]) <= n /\ n <= Level(t[m])
    BY <2>1 DEF Steps
  <2>4. Level(s[i]) \in 0..12 /\ Level(t[m]) \in 0..12
    BY LevelFacts
  <2> DEFINE first == Level(s[i])
             last  == Level(t[m])
  <2>5. first \in Nat /\ last \in Nat /\ first <= n /\ n <= last
    BY <2>3, <2>4
  <2>6. Level((s \o t)[i]) = first /\ Level((s \o t)[j]) = last
    BY <2>2, Zenon
  <2> HIDE DEF first, last
  <2>7. first <= last
    BY <2>5
  <2> QED
    BY <2>6, <2>7, Zenon
<1> QED
  BY <1>2, <1>3, <1>4, <1>5

\* The steps of the base class.
LEMMA ComputeSorted ==
  ASSUME NEW d \in BOOLEAN
  PROVE  /\ Sorted(ComputeOrder(d))
         /\ \A r \in Steps(ComputeOrder(d)) : Level(r) \in 2..11
<1> DEFINE a == <<"fw", "fw6", "fr", "frAlt", "tpHttp", "tpGrpc">>
           b == IF d THEN <<"fr6", "tp6">> ELSE << >>
           c == <<"tpAlt", "um", "umAlt", "be", "beAlt", "beAff", "hc">>
<1>1. /\ a \in Seq(Resource) /\ Sorted(a)
      /\ \A r \in Steps(a) : Level(r) \in 2..6
  BY DEF Steps, Sorted, Level, Resource, Firewall, Routing, Backends
<1>2. /\ b \in Seq(Resource) /\ Sorted(b)
      /\ \A r \in Steps(b) : Level(r) \in 6..7
  <2>1. /\ <<"fr6", "tp6">> \in Seq(Resource) /\ Sorted(<<"fr6", "tp6">>)
        /\ \A r \in Steps(<<"fr6", "tp6">>) : Level(r) \in 6..7
    BY DEF Steps, Sorted, Level, Resource, Routing, Backends
  <2>2. << >> \in Seq(Resource) /\ Sorted(<< >>) /\ Steps(<< >>) = {}
    BY DEF Sorted, Steps
  <2> QED
    BY <2>1, <2>2
<1>3. /\ c \in Seq(Resource) /\ Sorted(c)
      /\ \A r \in Steps(c) : Level(r) \in 7..11
  BY DEF Steps, Sorted, Level, Resource, Routing, Backends
<1>4. ComputeOrder(d) = (a \o b) \o c
  BY DEF ComputeOrder
<1> HIDE DEF a, b, c
<1>5. /\ a \o b \in Seq(Resource) /\ Steps(a \o b) = Steps(a) \cup Steps(b)
      /\ \A r \in Steps(a) : Level(r) <= 6
      /\ \A r \in Steps(b) : 6 <= Level(r)
  BY <1>1, <1>2, StepsOfBoth
<1>6. Sorted(a \o b)
  BY <1>1, <1>2, <1>5, SortedBoth
<1>7. \A r \in Steps(a \o b) : Level(r) \in 2..7
  BY <1>1, <1>2, <1>5
<1>8. /\ Steps(ComputeOrder(d)) = Steps(a \o b) \cup Steps(c)
      /\ \A r \in Steps(a \o b) : Level(r) <= 7
      /\ \A r \in Steps(c) : 7 <= Level(r)
  <2>1. Steps(ComputeOrder(d)) = Steps(a \o b) \cup Steps(c)
    BY <1>3, <1>4, <1>5, StepsOfBoth
  <2>2. \A r \in Steps(a \o b) : Level(r) <= 7
    BY <1>7
  <2>3. \A r \in Steps(c) : 7 <= Level(r)
    BY <1>3
  <2> QED
    BY <2>1, <2>2, <2>3
<1>9. Sorted(ComputeOrder(d))
  BY <1>3, <1>4, <1>5, <1>6, <1>8, SortedBoth
<1> QED
  BY <1>3, <1>7, <1>8, <1>9

\* Those of the classes derived from it.
LEMMA DerivedSorted ==
  ASSUME NEW d \in BOOLEAN
  PROVE  /\ Sorted(AppNetOrder(d))
         /\ \A r \in Steps(AppNetOrder(d)) : Level(r) \in 0..11
         /\ Sorted(SecureOrder(d))
         /\ \A r \in Steps(SecureOrder(d)) : Level(r) \in 2..12
<1>1. /\ ComputeOrder(d) \in Seq(Resource) /\ Sorted(ComputeOrder(d))
      /\ \A r \in Steps(ComputeOrder(d)) : Level(r) \in 2..11
  BY ComputeSteps, ComputeSorted
<1> DEFINE a == <<"httpRoute", "grpcRoute", "mesh">>
           p == <<"ep", "serverTls", "clientTls", "authz">>
<1>2. /\ a \in Seq(Resource) /\ Sorted(a)
      /\ \A r \in Steps(a) : Level(r) \in 0..1
  BY DEF Steps, Sorted, Level, Resource, AppNet, Backends
<1>3. /\ p \in Seq(Resource) /\ Sorted(p)
      /\ \A r \in Steps(p) : Level(r) \in 11..12
  BY DEF Steps, Sorted, Level, Resource, Policies, Backends
<1>4. AppNetOrder(d) = a \o ComputeOrder(d)
      /\ SecureOrder(d) = ComputeOrder(d) \o p
  BY DEF AppNetOrder, SecureOrder
<1> HIDE DEF a, p
<1>5. /\ \A r \in Steps(a) : Level(r) <= 2
      /\ \A r \in Steps(ComputeOrder(d)) : 2 <= Level(r) /\ Level(r) <= 11
      /\ \A r \in Steps(p) : 11 <= Level(r)
  BY <1>1, <1>2, <1>3
<1>6. Sorted(AppNetOrder(d))
      /\ Steps(AppNetOrder(d)) = Steps(a) \cup Steps(ComputeOrder(d))
  BY <1>1, <1>2, <1>4, <1>5, SortedBoth, StepsOfBoth
<1>7. Sorted(SecureOrder(d))
      /\ Steps(SecureOrder(d)) = Steps(ComputeOrder(d)) \cup Steps(p)
  BY <1>1, <1>3, <1>4, <1>5, SortedBoth, StepsOfBoth
<1> QED
  BY <1>1, <1>2, <1>3, <1>6, <1>7

\* The cleanup of each manager is sorted.
LEMMA CleanupSorted ==
  ASSUME NEW s \in Managers
  PROVE  Sorted(CleanupOrder(s))
<1>0. s.dualstack \in BOOLEAN
      /\ s.kind \in {"compute", "appnet", "secure", "cloudrun", "spiffe"}
  BY DEF Managers
<1>1. CASE s.kind \in {"compute", "appnet", "secure"}
  BY <1>0, <1>1, ComputeSorted, DerivedSorted DEF CleanupOrder
<1>2. CASE s.kind = "cloudrun"
  <2>1. CleanupOrder(s) = AppNetOrder(s.dualstack) \o <<"neg">>
    BY <1>2 DEF CleanupOrder
  <2>2. /\ <<"neg">> \in Seq(Resource) /\ Sorted(<<"neg">>)
        /\ \A r \in Steps(<<"neg">>) : 12 <= Level(r)
    BY DEF Steps, Sorted, Level, Resource, AppNet, Backends
  <2>3. /\ AppNetOrder(s.dualstack) \in Seq(Resource)
        /\ Sorted(AppNetOrder(s.dualstack))
        /\ \A r \in Steps(AppNetOrder(s.dualstack)) : Level(r) <= 12
    BY <1>0, DerivedSteps, DerivedSorted
  <2> QED
    BY <2>1, <2>2, <2>3, SortedBoth
<1>3. CASE s.kind = "spiffe"
  <2>1. CleanupOrder(s) = <<"grpcRoute", "mesh">> \o SecureOrder(s.dualstack)
    BY <1>3 DEF CleanupOrder
  <2>2. /\ <<"grpcRoute", "mesh">> \in Seq(Resource)
        /\ Sorted(<<"grpcRoute", "mesh">>)
        /\ \A r \in Steps(<<"grpcRoute", "mesh">>) : Level(r) <= 2
    BY DEF Steps, Sorted, Level, Resource, AppNet, Backends
  <2>3. /\ SecureOrder(s.dualstack) \in Seq(Resource)
        /\ Sorted(SecureOrder(s.dualstack))
        /\ \A r \in Steps(SecureOrder(s.dualstack)) : 2 <= Level(r)
    BY <1>0, DerivedSteps, DerivedSorted
  <2> QED
    BY <2>1, <2>2, <2>3, SortedBoth
<1> QED
  BY <1>0, <1>1, <1>2, <1>3

-------------------------------------------------------------------------------
(* Facts about the constants, and about one step *)

\* What holds of any suite.
LEMMA SuiteFacts ==
  ASSUME suite \in DOMAIN Suites
  PROVE  /\ Suite \in Managers
         /\ Suite.creations \in Seq(Resource) /\ Len(Suite.creations) \in Nat
         /\ Creatable \subseteq Resource
         /\ Suite.foreign \subseteq Firewall /\ Suite.maxFaults \in Nat
         /\ Suite.force \in BOOLEAN
<1>1. Suite \in Managers
  BY TdConstants DEF Suite
<1>2. Suite.creations \in Seq(Resource)
  BY <1>1 DEF Managers
<1>3. Len(Suite.creations) \in Nat
      /\ \A i \in DOMAIN Suite.creations : Suite.creations[i] \in Resource
  BY <1>2, LenProperties
<1> QED
  BY <1>1, <1>2, <1>3 DEF Managers, Creatable

\* A cleanup begins with all that can be there still to come.
LEMMA OrdersCover ==
  ASSUME NEW n \in DOMAIN Suites
  PROVE  /\ Len(CleanupOrders[n]) \in Nat /\ Len(JanitorOrders[n]) \in Nat
         /\ \A j \in DOMAIN Suites[n].creations :
              LET r == Suites[n].creations[j]
              IN  /\ \E i \in 1..Len(CleanupOrders[n]) :
                       CleanupOrders[n][i] = r
                  /\ r \notin Firewall
                     /\ (\E k \in DOMAIN Suites[n].creations :
                           Suites[n].creations[k] = "hc")
                     => \E i \in 1..Len(JanitorOrders[n]) :
                          JanitorOrders[n][i] = r
<1> DEFINE s == Suites[n]
<1>1. s \in Managers
  BY TdConstants
<1>2. CleanupOrders[n] = CleanupOrder(s) /\ JanitorOrders[n] = JanitorOrder(s)
  BY DEF CleanupOrders, JanitorOrders
<1>3. /\ \A i \in DOMAIN s.creations : s.creations[i] \in Managed(s)
      /\ \A i, j \in DOMAIN s.creations :
           ~(s.creations[i] = "neg" /\ s.creations[j] = "hc")
  BY SuitesAreManaged
<1> HIDE DEF s
<1>4. /\ CleanupOrder(s) \in Seq(Resource)
      /\ Managed(s) \subseteq Steps(CleanupOrder(s))
      /\ JanitorOrder(s) \in Seq(Resource)
      /\ Managed(s) \ (Firewall \cup {"neg"}) \subseteq Steps(JanitorOrder(s))
  BY <1>1, CleanupCovers, JanitorCovers
<1>5. Len(CleanupOrder(s)) \in Nat /\ Len(JanitorOrder(s)) \in Nat
  BY <1>4, LenProperties
<1>6. ASSUME NEW j \in DOMAIN s.creations
      PROVE  /\ s.creations[j] \in Steps(CleanupOrder(s))
             /\ s.creations[j] \notin Firewall
                /\ (\E k \in DOMAIN s.creations : s.creations[k] = "hc")
                => s.creations[j] \in Steps(JanitorOrder(s))
  BY <1>3, <1>4, <1>6
<1> USE DEF s
<1> QED
  BY <1>2, <1>5, <1>6 DEF Steps

\* A resource refers to resources.
LEMMA RefsAreResources ==
  ASSUME NEW r \in Resource, TypeOK, NEW refs \in Refs(r)
  PROVE  refs \subseteq Resource
<1>1. held \subseteq Resource /\ \A x \in Resource : {x} \subseteq Resource
  BY DEF TypeOK
<1>2. \A rs : \A b \in OneOf(rs) : b \subseteq Resource
  BY <1>1 DEF OneOf
<1>3. CASE r \in Backends \cup {"ep", "hc"}
  <2>1. r = "hc" => refs = {}
    BY <1>3 DEF Refs, Backends, Proxies
  <2>2. r = "ep" => refs = {"serverTls", "authz"} \cap held
    BY <1>3 DEF Refs, EndpointPolicyRefs, Backends, Proxies
  <2>3. r \in Backends => refs = {"hc"} \cap held
    BY <1>3 DEF Refs, BackendRefs, Backends, Proxies
  <2> QED
    BY <1>1, <1>3, <2>1, <2>2, <2>3
<1>4. CASE r \in {"um", "umAlt"}
  <2>1. refs \in UrlMapRefs(r)
    BY <1>4 DEF Refs, Backends, Proxies
  <2> QED
    BY <1>2, <2>1 DEF UrlMapRefs
<1>5. CASE r \in Proxies \cup {"tp6", "tpAlt"}
  BY <1>2, <1>5 DEF Refs, ProxyRefs, Backends, Proxies
<1>6. CASE r \in {"fr", "fr6", "frAlt"}
  BY <1>2, <1>6 DEF Refs, RuleRefs, Backends, Proxies
<1>7. CASE r \in {"grpcRoute", "httpRoute"}
  <2>1. refs \in RouteRefs
    BY <1>7 DEF Refs, Backends, Proxies
  <2>2. "mesh" \in Resource
    BY DEF Resource, AppNet
  <2> QED
    BY <1>2, <2>1, <2>2 DEF RouteRefs
<1>8. CASE r \in Firewall \cup
                   {"mesh", "neg", "serverTls", "clientTls", "authz"}
  BY <1>8 DEF Refs, Backends, Proxies, Firewall
<1> QED
  BY <1>3, <1>4, <1>5, <1>6, <1>7, <1>8
  DEF Resource, Firewall, Routing, Backends, AppNet, Policies, Proxies

\* The cleanup of the manager has all that the test may create still to come.
LEMMA CreatableToCome ==
  suite \in DOMAIN Suites /\ step = 1 /\ phase # "janitor" =>
    \A r \in Creatable : ToCome(r)
<1> SUFFICES ASSUME suite \in DOMAIN Suites, step = 1, phase # "janitor",
                    NEW r \in Creatable
             PROVE  ToCome(r)
  OBVIOUS
<1>1. PICK j \in DOMAIN Suites[suite].creations : Suites[suite].creations[j] = r
  BY DEF Creatable, Suite
<1>2. \E i \in 1..Len(CleanupOrders[suite]) : CleanupOrders[suite][i] = r
  BY <1>1, OrdersCover
<1> QED
  BY <1>2 DEF ToCome, Order

\* The same of the next state.
LEMMA CreatableToComeNext ==
  (suite \in DOMAIN Suites /\ step = 1 /\ phase # "janitor" =>
    \A r \in Creatable : ToCome(r))'
BY CreatableToCome, PTL

\* The first step of a cleanup.
BeginsAtFirst == step = 1 /\ phase \in Cleaning

\* Then all that is there is still to come.
LEMMA AllToCome ==
  BeginsAtFirst /\ suite \in DOMAIN Suites /\ Known /\ ByScript =>
    \A r \in exists \ Firewall : ToCome(r)
<1> SUFFICES ASSUME BeginsAtFirst, suite \in DOMAIN Suites, Known, ByScript,
                    NEW r \in exists \ Firewall
             PROVE  ToCome(r)
  OBVIOUS
<1>1. r \in Creatable
  BY SuiteFacts DEF Known
<1>2. PICK j \in DOMAIN Suites[suite].creations : Suites[suite].creations[j] = r
  BY <1>1 DEF Creatable, Suite
<1>3. CASE phase = "janitor"
  <2>1. \E k \in DOMAIN Suites[suite].creations :
          Suites[suite].creations[k] = "hc"
    BY <1>3 DEF ByScript, Creatable, Suite
  <2>2. \E i \in 1..Len(JanitorOrders[suite]) : JanitorOrders[suite][i] = r
    BY <1>2, <2>1, OrdersCover
  <2> QED
    BY <1>3, <2>2 DEF ToCome, Order, BeginsAtFirst
<1>4. CASE phase # "janitor"
  <2>1. \E i \in 1..Len(CleanupOrders[suite]) : CleanupOrders[suite][i] = r
    BY <1>2, OrdersCover
  <2> QED
    BY <1>4, <2>1 DEF ToCome, Order, BeginsAtFirst
<1> QED
  BY <1>3, <1>4

\* The same of the next state.
LEMMA AllToComeNext ==
  (BeginsAtFirst /\ suite \in DOMAIN Suites /\ Known /\ ByScript =>
    \A r \in exists \ Firewall : ToCome(r))'
BY AllToCome, PTL

\* A request of which the manager knows no result may make its resource.
LEMMA UnknownFacts ==
  ASSUME TypeOK, NEW r \in Creatable, Unknown(r)
  PROVE  /\ exists \subseteq exists' /\ exists' \subseteq exists \cup {r}
         /\ pending' \subseteq pending \cup {r} /\ pending' \subseteq Resource
         /\ exists' \subseteq Resource /\ tainted' \subseteq Resource
         /\ uses' \in [Resource -> SUBSET Resource]
         /\ UNCHANGED <<next, held, ensure, late, refused>>
<1>1. r \in Resource
  BY SuiteFacts DEF TypeOK
<1>2. PICK refs \in Refs(r) :
        \/ UNCHANGED <<exists, uses, pending>>
        \/ /\ r \notin exists
           /\ uses' = [uses EXCEPT ![r] = refs]
           /\ \/ exists' = exists \cup {r} /\ UNCHANGED pending
              \/ pending' = pending \cup {r} /\ UNCHANGED exists
  BY DEF Unknown
<1>3. refs \subseteq Resource
  BY RefsAreResources, <1>1
<1> QED
  BY <1>1, <1>2, <1>3 DEF Unknown, TypeOK

\* A deletion that returns removes its resource, or is on record as refused.
LEMMA ReturnsFacts ==
  ASSUME TypeOK, ForeignKept, NEW r, Deletes(r) \/ Remembers(r),
         DeleteReturns(r)
  PROVE  /\ exists' \subseteq exists /\ (~refused' => exists' = exists \ {r})
         /\ held' \subseteq held
         /\ (refused => refused') /\ refused' \in BOOLEAN
         /\ tainted' \subseteq Resource /\ faults' \in 0..Suite.maxFaults
         /\ UNCHANGED <<uses, next, pending, late>>
         /\ ~force => Suite.foreign \subseteq exists'
<1>1. /\ held' \subseteq held /\ exists' \in {exists, exists \ {r}}
      /\ UNCHANGED <<uses, next, pending, late>>
      /\ \/ UNCHANGED <<faults, tainted>>
         \/ /\ faults < Suite.maxFaults /\ faults' = faults + 1
            /\ tainted' = tainted \cup ({r} \cap exists)
      /\ \/ refused' = refused /\ exists' = exists \ {r}
         \/ refused' = TRUE
         \/ refused' = (refused \/ r \in exists)
  BY DEF DeleteReturns, MaybeRemoved
<1>2. tainted' \subseteq Resource /\ faults' \in 0..Suite.maxFaults
  BY <1>1, SuiteFacts DEF TypeOK
<1>3. ~force => r \notin Suite.foreign
  <2>1. Suite.foreign \subseteq Firewall
    BY SuiteFacts DEF TypeOK
  <2>2. r \in Firewall /\ ~force => r \in held
    BY DEF Deletes, Remembers, Firewall
  <2> QED
    BY <2>1, <2>2 DEF ForeignKept
<1>4. /\ (~refused' => exists' = exists \ {r})
      /\ (refused => refused') /\ refused' \in BOOLEAN
  <2>1. refused \in BOOLEAN
    BY DEF TypeOK
  <2>2. CASE refused' = refused /\ exists' = exists \ {r}
    BY Zenon, <2>1, <2>2
  <2>3. CASE refused' = TRUE
    BY Zenon, <2>3
  <2>4. CASE refused' = (refused \/ r \in exists)
    <3>1. r \notin exists => exists' = exists \ {r}
      BY <1>1
    <3> QED
      BY Zenon, <2>1, <2>4, <3>1
  <2> QED
    BY Zenon, <1>1, <2>2, <2>3, <2>4
<1>5. exists' \subseteq exists /\ (~force => Suite.foreign \subseteq exists')
  BY <1>1, <1>3 DEF ForeignKept
<1> QED
  BY Zenon, <1>1, <1>2, <1>4, <1>5

\* One that raises may have removed it.
LEMMA RaisesFacts ==
  ASSUME TypeOK, ForeignKept, NEW r, Deletes(r) \/ Remembers(r),
         DeleteRaises(r)
  PROVE  /\ exists' \subseteq exists /\ faults' \in 0..Suite.maxFaults
         /\ UNCHANGED <<uses, next, held, ensure, pending, late, tainted>>
         /\ ~force => Suite.foreign \subseteq exists'
<1>1. /\ exists' \in {exists, exists \ {r}}
      /\ faults < Suite.maxFaults /\ faults' = faults + 1
      /\ UNCHANGED <<uses, next, held, ensure, pending, late, tainted>>
  BY DEF DeleteRaises, MaybeRemoved
<1>2. faults' \in 0..Suite.maxFaults
  BY <1>1, SuiteFacts DEF TypeOK
<1>3. ~force => r \notin Suite.foreign
  <2>1. Suite.foreign \subseteq Firewall
    BY SuiteFacts DEF TypeOK
  <2>2. r \in Firewall /\ ~force => r \in held
    BY DEF Deletes, Remembers, Firewall
  <2> QED
    BY <2>1, <2>2 DEF ForeignKept
<1> QED
  BY <1>1, <1>2, <1>3 DEF ForeignKept

\* The attempts of a cleanup that raised.
LEMMA AttemptFailsFacts ==
  ASSUME TypeOK, AttemptFails
  PROVE  /\ attempt' \in 1..Attempts
         /\ \/ /\ phase = "clean" /\ phase' = "clean"
               /\ step' = 1 /\ refused' = FALSE
            \/ phase' \in {"gaveUp", "swept"} /\ refused' = TRUE /\ step' = step
         /\ phase' = "swept" => phase # "clean"
BY DEF AttemptFails, TypeOK, Attempts

-------------------------------------------------------------------------------
(* The steps *)

\* The parts of IInv that a step of the test may disturb.
LEMMA TestStepInv ==
  ASSUME IInv, UNCHANGED suite,
         \/ \E r \in Resource : Create(r) \/ FindFirewall(r)
         \/ \E b \in Backends : PatchUrlMap(b)
         \/ backend_service_apply_client_mtls_policy
         \/ backend_service_add_cloudrun_backends
  PROVE  IInv'
<1>1. UNCHANGED <<control, history, refused>> /\ suite \in DOMAIN Suites
  BY DEF Create, FindFirewall, PatchUrlMap, IInv, TypeOK,
    backend_service_apply_client_mtls_policy,
    backend_service_add_cloudrun_backends
<1>2. phase \notin Cleaning \cup Over /\ phase' = phase /\ Suite' = Suite
      /\ Creatable' = Creatable /\ Order' = Order
  BY <1>1 DEF Create, FindFirewall, MayCreate, PatchUrlMap, Cleaning, Over,
    backend_service_apply_client_mtls_policy, control, Suite, Creatable, Order,
    backend_service_add_cloudrun_backends
<1>3. ByScript' /\ ForcedSoFar' /\ DeletionByNameIsComplete' /\ StartsAtFirst'
  BY <1>1, <1>2 DEF ByScript, ForcedSoFar, DeletionByNameIsComplete, IInv,
    StartsAtFirst, Cleaning, Over, control
<1> DEFINE P == /\ exists' \subseteq exists \cup Creatable
                /\ exists' \subseteq Resource /\ exists \subseteq exists'
                /\ held' \subseteq Resource
                /\ held' \cap exists \subseteq held
                /\ uses' \in [Resource -> SUBSET Resource]
                /\ next' \in 1..(Len(Suite.creations) + 1)
                /\ ensure' \in BOOLEAN
<1>4. TypeOK /\ Len(Suite.creations) \in Nat /\ Creatable \subseteq Resource
  BY SuiteFacts DEF IInv, TypeOK
<1>5. ASSUME NEW r \in Resource, Create(r) PROVE P
  <2>1. r \in Creatable /\ next' = next + 1 /\ next <= Len(Suite.creations)
        /\ r \notin exists
    BY <1>4, <1>5 DEF Create, MayCreate, Creatable, TypeOK
  <2>2. ensure' \in BOOLEAN
    BY <1>5 DEF Create
  <2>3. uses' \in [Resource -> SUBSET Resource]
    BY <1>4, <1>5, RefsAreResources DEF Create, TypeOK
  <2>4. next' \in 1..(Len(Suite.creations) + 1)
    BY <1>4, <2>1 DEF TypeOK
  <2> QED
    BY <1>4, <1>5, <2>1, <2>2, <2>3, <2>4 DEF Create, TypeOK
<1>6. ASSUME NEW r \in Resource, FindFirewall(r) PROVE P
  <2>1. next' \in 1..(Len(Suite.creations) + 1)
    BY <1>4, <1>6 DEF FindFirewall, MayCreate, TypeOK
  <2> QED
    BY <1>4, <1>6, <2>1 DEF FindFirewall, TypeOK
<1>7. ASSUME \/ \E b \in Backends : PatchUrlMap(b)
             \/ backend_service_apply_client_mtls_policy
             \/ backend_service_add_cloudrun_backends
      PROVE  P
  <2>1. UNCHANGED <<exists, next, held, ensure>>
    BY <1>7 DEF PatchUrlMap, backend_service_apply_client_mtls_policy,
      backend_service_add_cloudrun_backends
  <2>2. {"um", "be", "clientTls", "neg"} \cup Backends \subseteq Resource
    BY DEF Resource, Routing, Backends, Policies, AppNet
  <2>3. uses' \in [Resource -> SUBSET Resource]
    BY <1>4, <1>7, <2>2
    DEF PatchUrlMap, backend_service_apply_client_mtls_policy,
      backend_service_add_cloudrun_backends, TypeOK
  <2>4. ensure' \in BOOLEAN /\ next' \in 1..(Len(Suite.creations) + 1)
    BY Zenon, <1>4, <2>1 DEF TypeOK
  <2>5. /\ exists' \subseteq exists \cup Creatable
        /\ exists' \subseteq Resource /\ exists \subseteq exists'
        /\ held' \subseteq Resource /\ held' \cap exists \subseteq held
    BY Zenon, <1>4, <2>1 DEF TypeOK
  <2> QED
    BY Zenon, <2>3, <2>4, <2>5
<1> HIDE DEF P
<1>8. P
  BY Zenon, <1>5, <1>6, <1>7
<1>9. TypeOK'
  BY <1>1, <1>2, <1>4, <1>8 DEF P, TypeOK, control, history
<1>10. Known'
  BY <1>1, <1>2, <1>8 DEF P, IInv, Known, history
<1>11. ForeignKept'
  BY <1>1, <1>2, <1>8 DEF P, IInv, ForeignKept, control
<1> QED
  BY <1>3, <1>9, <1>10, <1>11 DEF IInv

\* Steps that leave the resources and their names alone.
LEMMA PhaseStepInv ==
  ASSUME IInv, UNCHANGED suite, setUpEnds \/ TestEnds \/ Abort \/ ForcedTearDown
  PROVE  IInv'
<1>1. /\ UNCHANGED <<tdVars, history, sigint>> /\ Suite' = Suite
      /\ Creatable' = Creatable /\ TypeOK
  BY DEF setUpEnds, TestEnds, Abort, ForcedTearDown, Suite, Creatable, IInv
<1>2. /\ phase' \in {"test", "clean", "orphaned"}
      /\ phase' = "test" => phase = "setUp" /\ UNCHANGED step
      /\ phase' = "clean" =>
           \/ phase = "test" /\ UNCHANGED step
           \/ step' = 1
      /\ attempt' \in 1..Attempts
      /\ step' = step \/ step' = 1
  BY <1>1 DEF setUpEnds, TestEnds, Abort, ForcedTearDown, TypeOK, Attempts
<1>f. /\ force' = force \/ force' = TRUE
      /\ refused' = refused \/ refused' = FALSE
  BY Zenon DEF setUpEnds, TestEnds, Abort, ForcedTearDown
<1>b. force' \in BOOLEAN /\ refused' \in BOOLEAN
  BY Zenon, <1>1, <1>f DEF TypeOK
<1>3. phase' = "clean" => step' = 1
  BY <1>2 DEF IInv, StartsAtFirst
<1>4. TypeOK'
  <2>1. phase' = "clean" => step' \in 1..(Len(Order) + 1)'
    BY <1>1, <1>3, OrdersCover DEF TypeOK, Order
  <2>2. step' \in Nat
    BY <1>1, <1>2 DEF TypeOK
  <2> QED
    BY <1>1, <1>2, <1>b, <2>1, <2>2
    DEF TypeOK, tdVars, history, Cleaning, Over, Phases
<1>5. Known' /\ StartsAtFirst' /\ ByScript' /\ DeletionByNameIsComplete'
  BY <1>1, <1>2 DEF IInv, Known, StartsAtFirst, ByScript, tdVars, history,
    DeletionByNameIsComplete
<1>6. ForeignKept'
  BY <1>1, <1>f DEF IInv, ForeignKept, tdVars
<1>7. ForcedSoFar'
  BY <1>1, <1>2, <1>3, <1>5, AllToComeNext
  DEF ForcedSoFar, BeginsAtFirst, Cleaning, TypeOK
<1> QED
  BY <1>4, <1>5, <1>6, <1>7 DEF IInv

\* A creation whose result is unknown.
LEMMA UnknownStepInv ==
  ASSUME IInv, UNCHANGED suite,
         Interrupt \/ \E r \in Resource : CreateFails(r)
  PROVE  IInv'
<1>1. /\ UNCHANGED <<step, attempt, force>> /\ Suite' = Suite
      /\ Creatable' = Creatable /\ TypeOK
  BY DEF CreateFails, Interrupt, Suite, Creatable, IInv
<1> DEFINE P == /\ phase' \in {"interrupted", "orphaned", "clean"}
                /\ phase' = "clean" => step = 1
                /\ faults' \in 0..Suite.maxFaults
                /\ sigint' \in BOOLEAN
                /\ exists' \cup pending'
                     \subseteq exists \cup pending \cup Creatable
                /\ exists \subseteq exists'
                /\ exists' \subseteq Resource /\ pending' \subseteq Resource
                /\ tainted' \subseteq Resource
                /\ uses' \in [Resource -> SUBSET Resource]
                /\ UNCHANGED <<next, held, ensure, late, refused>>
<1>2. ASSUME NEW r \in Resource, CreateFails(r) PROVE P
  <2>a. r \in Creatable
    BY <1>1, <1>2, SuiteFacts DEF CreateFails, MayCreate, Creatable, TypeOK
  <2>b. sigint' = sigint
    BY Zenon, <1>2 DEF CreateFails
  <2>1. r \in Creatable /\ Unknown(r) /\ sigint' = sigint
        /\ faults < Suite.maxFaults /\ faults' = faults + 1
    BY Zenon, <1>2, <2>a, <2>b DEF CreateFails
  <2>2. /\ phase' \in {"orphaned", "clean"}
        /\ phase' = "clean" => phase = "test"
    BY <1>2 DEF CreateFails, MayCreate
  <2>3. faults' \in 0..Suite.maxFaults
    BY <1>1, <2>1, SuiteFacts DEF TypeOK
  <2>4. sigint' \in BOOLEAN
    BY Zenon, <1>1, <2>1 DEF TypeOK
  <2>5. phase' = "clean" => step = 1
    BY <2>2 DEF IInv, StartsAtFirst
  <2> QED
    BY <1>1, <2>1, <2>2, <2>3, <2>4, <2>5, UnknownFacts
<1>3. ASSUME Interrupt PROVE P
  <2>1. phase' = "interrupted" /\ sigint' = TRUE
    BY <1>3 DEF Interrupt
  <2>2. ASSUME UNCHANGED <<tdVars, history, refused>> PROVE P
    BY <1>1, <2>1, <2>2 DEF TypeOK, tdVars, history
  <2>3. ASSUME NEW r \in Creatable, Unknown(r), UNCHANGED faults PROVE P
    BY <1>1, <2>1, <2>3, UnknownFacts DEF TypeOK
  <2> QED
    BY <1>3, <2>2, <2>3 DEF Interrupt
<1> HIDE DEF P
<1>4. P
  BY Zenon, <1>2, <1>3
<1>5. phase' = "clean" => step' \in 1..(Len(Order) + 1)'
  BY <1>1, <1>4, OrdersCover DEF P, TypeOK, Order
<1>6. ensure' \in BOOLEAN /\ force' \in BOOLEAN /\ refused' \in BOOLEAN
  BY Zenon, <1>1, <1>4 DEF P, TypeOK
<1>7. TypeOK'
  BY <1>1, <1>4, <1>5, <1>6 DEF P, TypeOK, Cleaning, Phases, Over
<1>8. Known' /\ StartsAtFirst' /\ ByScript' /\ DeletionByNameIsComplete'
  BY <1>1, <1>4 DEF P, IInv, Known, StartsAtFirst, ByScript,
    DeletionByNameIsComplete
<1>9. ForeignKept'
  BY <1>1, <1>4 DEF P, IInv, ForeignKept
<1>10. ForcedSoFar'
  BY <1>1, <1>4, <1>8, AllToComeNext
  DEF P, ForcedSoFar, BeginsAtFirst, Cleaning, TypeOK
<1> QED
  BY <1>7, <1>8, <1>9, <1>10 DEF IInv

\* A late creation is on record.
LEMMA LandInv ==
  ASSUME IInv, UNCHANGED suite, NEW r \in Resource, Land(r)
  PROVE  IInv'
<1>1. /\ UNCHANGED <<uses, next, held, ensure, control, faults, tainted,
                    refused>>
      /\ Suite' = Suite /\ Creatable' = Creatable /\ Order' = Order /\ TypeOK
      /\ r \in pending /\ pending' = pending \ {r} /\ exists' = exists \cup {r}
      /\ phase \notin {"janitor", "swept"}
      /\ late' = IF phase = "interrupted" THEN late ELSE late \cup {r}
  BY DEF Land, Suite, Creatable, Order, control, IInv
<1>2. UNCHANGED <<phase, step, attempt, force, sigint>>
  BY Zenon, <1>1 DEF control
<1>3. TypeOK'
  BY <1>1, <1>2 DEF TypeOK
<1>4. Known' /\ StartsAtFirst' /\ ByScript'
  BY <1>1, <1>2 DEF IInv, Known, StartsAtFirst, ByScript
<1>5. DeletionByNameIsComplete'
  BY <1>1, <1>2 DEF IInv, DeletionByNameIsComplete
<1>6. ForeignKept'
  BY <1>1, <1>2 DEF IInv, ForeignKept
<1>7. ForcedSoFar'
  BY <1>1, <1>2 DEF IInv, ForcedSoFar, ToCome, Cleaning
<1> QED
  BY <1>3, <1>4, <1>5, <1>6, <1>7 DEF IInv

\* The cleanup script begins when it found the test's health check.
LEMMA SweepInv ==
  ASSUME IInv, UNCHANGED suite, Sweep
  PROVE  IInv'
<1>1. /\ phase' = "janitor" /\ held' = {} /\ step' = 1 /\ attempt' = 1
      /\ force' = TRUE /\ ensure' = FALSE /\ refused' = FALSE
      /\ UNCHANGED <<exists, uses, next, history>> /\ "hc" \in exists
      /\ Suite' = Suite /\ Creatable' = Creatable /\ TypeOK
  BY DEF Sweep, Suite, Creatable, IInv
<1>2. sigint' \in BOOLEAN
  BY Zenon, <1>1 DEF Sweep, TypeOK
<1>3. "hc" \in Creatable
  BY <1>1, SuiteFacts DEF IInv, Known, TypeOK, Firewall
<1>4. step' \in 1..(Len(Order) + 1)'
  BY <1>1, OrdersCover DEF TypeOK, Order
<1>b. force' \in BOOLEAN /\ ensure' \in BOOLEAN /\ refused' \in BOOLEAN
  BY Zenon, <1>1
<1>h. UNCHANGED <<pending, faults, tainted, late>>
  BY <1>1 DEF history
<1>n. 1 \in Nat /\ 1 \in 1..Attempts /\ "janitor" \in Phases
  BY DEF Attempts, Phases, Cleaning
<1>5. TypeOK'
  BY Zenon, <1>1, <1>2, <1>4, <1>b, <1>h, <1>n DEF TypeOK
<1>6. Known' /\ StartsAtFirst' /\ ByScript' /\ DeletionByNameIsComplete'
      /\ ForeignKept'
  BY <1>1, <1>3 DEF IInv, Known, StartsAtFirst, ByScript, history,
    DeletionByNameIsComplete, ForeignKept
<1>7. ForcedSoFar'
  BY <1>1, <1>5, <1>6, AllToComeNext
  DEF ForcedSoFar, BeginsAtFirst, Cleaning, TypeOK
<1> QED
  BY <1>5, <1>6, <1>7 DEF IInv

\* A new attempt begins at the first step.
LEMMA RetriedInv ==
  ASSUME IInv, UNCHANGED <<suite, uses, next, pending, late>>, AttemptFails,
         phase \in Cleaning, force' = force, sigint' = sigint,
         ensure' \in BOOLEAN, held' \subseteq held, exists' \subseteq exists,
         tainted' \subseteq Resource, faults' \in 0..Suite.maxFaults,
         ~force => Suite.foreign \subseteq exists'
  PROVE  IInv'
<1>1. /\ Suite' = Suite /\ Creatable' = Creatable /\ TypeOK
  BY DEF Suite, Creatable, IInv
<1>a. AttemptFails /\ TypeOK
  BY <1>1
<1>b. refused' \in BOOLEAN
  BY Zenon, <1>a, AttemptFailsFacts
<1>2. /\ attempt' \in 1..Attempts /\ step' \in Nat
      /\ \/ phase = "clean" /\ phase' = "clean" /\ step' = 1
         \/ phase' \in {"gaveUp", "swept"} /\ refused' = TRUE
      /\ phase' = "swept" => phase = "janitor"
  <2>1. /\ attempt' \in 1..Attempts
        /\ \/ phase = "clean" /\ phase' = "clean" /\ step' = 1
           \/ phase' \in {"gaveUp", "swept"} /\ refused' = TRUE /\ step' = step
        /\ phase' = "swept" => phase # "clean"
    BY Zenon, <1>a, AttemptFailsFacts
  <2>2. phase = "clean" \/ phase = "janitor"
    BY DEF Cleaning
  <2>3. step \in Nat
    BY <1>1 DEF TypeOK
  <2>4. step' \in Nat
    BY <2>1, <2>3
  <2> QED
    BY Zenon, <2>1, <2>2, <2>4
<1>3. phase' = "clean" => step' \in 1..(Len(Order) + 1)'
  BY <1>1, <1>2, OrdersCover DEF TypeOK, Order
<1>4. force' \in BOOLEAN /\ sigint' \in BOOLEAN
  BY Zenon, <1>1 DEF TypeOK
<1>5. TypeOK'
  BY <1>1, <1>2, <1>3, <1>4, <1>b DEF TypeOK, Cleaning, Phases, Over
<1>6. Known' /\ StartsAtFirst' /\ ByScript' /\ DeletionByNameIsComplete'
  BY <1>1, <1>2 DEF IInv, Known, StartsAtFirst, ByScript,
    DeletionByNameIsComplete
<1>7. ForeignKept'
  BY <1>1 DEF IInv, ForeignKept
<1>8. ForcedSoFar'
  BY <1>1, <1>2, <1>6, AllToComeNext
  DEF ForcedSoFar, BeginsAtFirst, Cleaning, TypeOK
<1> QED
  BY <1>5, <1>6, <1>7, <1>8 DEF IInv

\* Deletions of the test, and of one attempt of a cleanup.
LEMMA TestDeleteInv ==
  ASSUME IInv, UNCHANGED suite, TestDelete
  PROVE  IInv'
<1>1. /\ UNCHANGED <<step, attempt, force, sigint>> /\ phase = "test"
      /\ Suite' = Suite /\ Creatable' = Creatable /\ TypeOK /\ ForeignKept
      /\ step = 1
  BY DEF TestDelete, Suite, Creatable, IInv, StartsAtFirst
<1> DEFINE P == /\ phase' \in {"test", "clean"}
                /\ exists' \subseteq exists /\ held' \subseteq held
                /\ UNCHANGED <<uses, next, ensure, pending, late>>
                /\ tainted' \subseteq Resource
                /\ faults' \in 0..Suite.maxFaults /\ refused' \in BOOLEAN
                /\ ~force => Suite.foreign \subseteq exists'
<1>2. PICK r : /\ Remembers(r)
               /\ \/ DeleteReturns(r) /\ UNCHANGED <<ensure, phase>>
                  \/ DeleteRaises(r) /\ phase' = "clean" /\ UNCHANGED refused
  BY Zenon DEF TestDelete
<1>3. ASSUME DeleteReturns(r) /\ UNCHANGED <<ensure, phase>> PROVE P
  <2>1. phase' = "test"
    BY <1>1, <1>3
  <2> QED
    BY Zenon, <1>1, <1>2, <1>3, <2>1, ReturnsFacts
<1>4. ASSUME DeleteRaises(r) /\ phase' = "clean" /\ UNCHANGED refused PROVE P
  <2>1. refused' \in BOOLEAN
    BY Zenon, <1>1, <1>4 DEF TypeOK
  <2>2. tainted' \subseteq Resource /\ held' \subseteq held
    BY Zenon, <1>1, <1>2, <1>4, RaisesFacts DEF TypeOK
  <2> QED
    BY Zenon, <1>1, <1>2, <1>4, <2>1, <2>2, RaisesFacts
<1> HIDE DEF P
<1>5. P
  BY Zenon, <1>2, <1>3, <1>4
<1>6. ensure' \in BOOLEAN /\ force' \in BOOLEAN /\ sigint' \in BOOLEAN
  BY Zenon, <1>1, <1>5 DEF P, TypeOK
<1>7. phase' = "clean" => step' \in 1..(Len(Order) + 1)'
  BY <1>1, <1>5, OrdersCover DEF P, TypeOK, Order
<1>8. TypeOK'
  BY <1>1, <1>5, <1>6, <1>7 DEF P, TypeOK, Cleaning, Phases
<1>9. Known' /\ StartsAtFirst' /\ ByScript' /\ DeletionByNameIsComplete'
  BY <1>1, <1>5 DEF P, IInv, Known, StartsAtFirst, ByScript,
    DeletionByNameIsComplete
<1>10. ForeignKept'
  BY <1>1, <1>5 DEF P, ForeignKept
<1>11. ForcedSoFar'
  BY <1>1, <1>5, <1>9, AllToComeNext
  DEF P, ForcedSoFar, BeginsAtFirst, Cleaning, TypeOK
<1> QED
  BY <1>8, <1>9, <1>10, <1>11 DEF IInv

\* A step of a cleanup deletes its resource, or skips what it need not delete.
LEMMA CleanupStepInv ==
  ASSUME IInv, UNCHANGED suite, CleanupStep
  PROVE  IInv'
<1> DEFINE r == Order[step]
<1>1. /\ UNCHANGED <<force, sigint>> /\ phase \in Cleaning /\ step <= Len(Order)
      /\ Suite' = Suite /\ Creatable' = Creatable /\ TypeOK /\ ForeignKept
  BY DEF CleanupStep, Suite, Creatable, IInv
<1>2. CASE /\ IF Deletes(r) THEN DeleteReturns(r)
              ELSE UNCHANGED <<exists, uses, next, held, history, refused>>
           /\ ensure' = (ensure /\ r # "fw6")
           /\ step' = step + 1
           /\ UNCHANGED <<phase, attempt>>
  <2>1. /\ exists' \subseteq exists /\ held' \subseteq held
        /\ UNCHANGED <<uses, next, pending, late, phase, attempt>>
        /\ tainted' \subseteq Resource /\ faults' \in 0..Suite.maxFaults
        /\ ~force => Suite.foreign \subseteq exists'
    <3>1. CASE Deletes(r)
      BY Zenon, <1>1, <1>2, <3>1, ReturnsFacts
    <3>2. CASE ~Deletes(r)
      BY <1>1, <1>2, <3>2 DEF history, TypeOK, ForeignKept
    <3> QED
      BY <3>1, <3>2
  <2>2. /\ (refused => refused') /\ refused' \in BOOLEAN
        /\ ~refused' /\ Deletes(r) => exists' = exists \ {r}
    <3>1. CASE Deletes(r)
      BY Zenon, <1>1, <1>2, <3>1, ReturnsFacts
    <3>2. CASE ~Deletes(r)
      BY Zenon, <1>1, <1>2, <3>2 DEF TypeOK
    <3> QED
      BY Zenon, <3>1, <3>2
  <2>3. force /\ r \notin Firewall => Deletes(r)
    BY DEF Deletes, Firewall
  <2>4. Order' = Order /\ step' = step + 1
    BY <1>2 DEF Order
  <2>5. step \in 1..Len(Order) /\ Len(Order) \in Nat
    BY <1>1, OrdersCover DEF TypeOK, Order
  <2>6. force' \in BOOLEAN /\ sigint' \in BOOLEAN
    BY Zenon, <1>1 DEF TypeOK
  <2>7. ensure' \in BOOLEAN
    BY <1>2
  <2>8. step' \in 1..(Len(Order) + 1)' /\ step' \in Nat
    BY <2>4, <2>5
  <2>9. TypeOK'
    BY <1>1, <2>1, <2>2, <2>6, <2>7, <2>8 DEF TypeOK
  <2>10. Known' /\ StartsAtFirst' /\ ByScript' /\ DeletionByNameIsComplete'
    BY <1>1, <2>1 DEF IInv, Known, StartsAtFirst, ByScript,
      DeletionByNameIsComplete, Cleaning
  <2>11. ForeignKept'
    BY <1>1, <2>1 DEF ForeignKept
  <2>12. ASSUME force, ~refused', NEW x \in exists' \ Firewall
         PROVE  ToCome(x)' \/ (phase' = "clean" /\ x \in late')
    <3>1. x \in exists \ Firewall /\ ~refused
      BY Zenon, <2>1, <2>2, <2>12
    <3>2. x # r
      BY <2>2, <2>3, <2>12
    <3>3. ToCome(x) => ToCome(x)'
      BY <2>4, <2>5, <3>2 DEF ToCome
    <3>4. ToCome(x) \/ (phase = "clean" /\ x \in late)
      BY <1>1, <2>12, <3>1 DEF IInv, ForcedSoFar
    <3> QED
      BY <2>1, <3>3, <3>4
  <2>13. ForcedSoFar'
    BY <1>1, <2>1, <2>12 DEF ForcedSoFar
  <2> QED
    BY <2>9, <2>10, <2>11, <2>13 DEF IInv
<1>3. CASE Deletes(r) /\ DeleteRaises(r) /\ AttemptFails
  <2>1. /\ exists' \subseteq exists /\ faults' \in 0..Suite.maxFaults
        /\ UNCHANGED <<uses, next, held, ensure, pending, late, tainted>>
        /\ ~force => Suite.foreign \subseteq exists'
    BY Zenon, <1>1, <1>3, RaisesFacts
  <2>2. ensure' \in BOOLEAN
    BY Zenon, <1>1, <2>1 DEF TypeOK
  <2>3. tainted' \subseteq Resource /\ held' \subseteq held
    BY Zenon, <1>1, <2>1 DEF TypeOK
  <2>4. force' = force /\ sigint' = sigint
    BY Zenon, <1>1
  <2>5. UNCHANGED <<suite, uses, next, pending, late>>
    BY Zenon, <2>1
  <2> QED
    BY Zenon, <1>1, <1>3, <2>1, <2>2, <2>3, <2>4, <2>5, RetriedInv
<1> QED
  BY Zenon, <1>2, <1>3 DEF CleanupStep

\* A cleanup that comes to its end has come to everything.
LEMMA PassEndsInv ==
  ASSUME IInv, UNCHANGED suite, PassEnds
  PROVE  IInv'
<1>1. /\ UNCHANGED <<tdVars, pending, tainted, late>>
      /\ phase \in Cleaning /\ step > Len(Order)
      /\ Suite' = Suite /\ Creatable' = Creatable /\ TypeOK /\ ForeignKept
  BY DEF PassEnds, Suite, Creatable, IInv
<1>2. force' = force /\ sigint' = sigint
  BY Zenon DEF PassEnds
<1>3. force' \in BOOLEAN /\ sigint' \in BOOLEAN /\ ensure' \in BOOLEAN
  BY Zenon, <1>1, <1>2 DEF TypeOK, tdVars
<1>4. UNCHANGED <<exists, uses, next, held>>
  BY <1>1 DEF tdVars
<1>5. CASE /\ phase' = IF phase = "clean" THEN "done" ELSE "swept"
           /\ UNCHANGED <<step, attempt, refused, faults>>
  <2>1. \A r : ~ToCome(r)
    BY <1>1, OrdersCover DEF ToCome, TypeOK, Order
  <2>2. refused' \in BOOLEAN /\ (refused' <=> refused)
    BY Zenon, <1>1, <1>5 DEF TypeOK
  <2>3. phase = "janitor" => force
    BY DEF IInv, ByScript
  <2>4. \/ phase' = "done" /\ phase = "clean"
        \/ phase' = "swept" /\ phase = "janitor"
    <3>1. phase = "clean" \/ phase = "janitor"
      BY <1>1 DEF Cleaning
    <3> QED
      BY <1>5, <3>1
  <2>5. TypeOK'
    BY <1>1, <1>3, <1>4, <1>5, <2>2, <2>4 DEF TypeOK, Cleaning, Phases, Over
  <2>6. Known' /\ StartsAtFirst' /\ ByScript' /\ ForeignKept'
    BY <1>1, <1>2, <1>4, <2>3, <2>4 DEF IInv, Known, StartsAtFirst, ByScript,
      ForeignKept
  <2>7. DeletionByNameIsComplete'
    <3>1. force /\ ~refused => \A r \in exists \ Firewall :
            phase = "clean" /\ r \in late
      BY <1>1, <2>1 DEF IInv, ForcedSoFar
    <3> QED
      BY <1>1, <1>2, <1>4, <2>2, <2>3, <2>4, <3>1 DEF DeletionByNameIsComplete
  <2>8. ForcedSoFar'
    BY <2>4 DEF ForcedSoFar, Cleaning
  <2> QED
    BY <2>5, <2>6, <2>7, <2>8 DEF IInv
<1>6. CASE /\ phase = "clean" /\ faults < Suite.maxFaults
           /\ faults' = faults + 1 /\ AttemptFails
  <2>1. faults' \in 0..Suite.maxFaults
    BY <1>1, <1>6, SuiteFacts DEF TypeOK
  <2>2. tainted' \subseteq Resource /\ held' \subseteq held
        /\ exists' \subseteq exists
        /\ (~force => Suite.foreign \subseteq exists')
    BY Zenon, <1>1, <1>4 DEF TypeOK, ForeignKept
  <2>3. UNCHANGED <<suite, uses, next, pending, late>>
    BY Zenon, <1>1, <1>4
  <2> QED
    BY Zenon, <1>1, <1>2, <1>3, <1>6, <2>1, <2>2, <2>3, RetriedInv
<1> QED
  BY Zenon, <1>5, <1>6 DEF PassEnds

-------------------------------------------------------------------------------
(* The theorems *)

\* A test begins with what others made.
LEMMA InitInv == Init => IInv
<1> SUFFICES ASSUME Init PROVE IInv
  OBVIOUS
<1>1. suite \in DOMAIN Suites
  BY DEF Init
<1>2. TypeOK
  <2>1. force \in BOOLEAN /\ ensure \in BOOLEAN /\ sigint \in BOOLEAN
        /\ refused \in BOOLEAN
    BY Zenon, <1>1, SuiteFacts DEF Init
  <2>2. exists \subseteq Resource /\ faults \in 0..Suite.maxFaults
        /\ next \in 1..(Len(Suite.creations) + 1)
    BY <1>1, SuiteFacts DEF Init, Resource
  <2>3. /\ uses \in [Resource -> SUBSET Resource] /\ held = {}
        /\ pending = {} /\ tainted = {} /\ late = {}
        /\ phase = "setUp" /\ step = 1 /\ attempt = 1
    BY DEF Init
  <2> QED
    BY <1>1, <2>1, <2>2, <2>3 DEF TypeOK, Phases, Cleaning, Attempts
<1>3. Known /\ StartsAtFirst /\ ByScript /\ ForcedSoFar
      /\ DeletionByNameIsComplete /\ ForeignKept
  BY DEF Init, Known, StartsAtFirst, ByScript, ForcedSoFar, Cleaning,
    DeletionByNameIsComplete, ForeignKept
<1> QED
  BY <1>2, <1>3 DEF IInv

\* IInv holds throughout the life of a test's resources.
THEOREM TrafficDirectorInvariant == Spec => []IInv
<1>1. IInv /\ [Next]_vars => IInv'
  <2> SUFFICES ASSUME IInv, [Next]_vars PROVE IInv'
    OBVIOUS
  <2>1. ASSUME Step, UNCHANGED suite PROVE IInv'
    BY Zenon, <2>1, TestStepInv, PhaseStepInv, UnknownStepInv, LandInv,
      SweepInv, TestDeleteInv, CleanupStepInv, PassEndsInv DEF Step
  <2>2. ASSUME UNCHANGED vars PROVE IInv'
    <3>1. /\ UNCHANGED <<suite, tdVars, control, history, refused>>
      BY <2>2 DEF vars
    <3>2. Suite' = Suite /\ Creatable' = Creatable /\ Order' = Order
      BY <3>1 DEF Suite, Creatable, Order, control
    <3>3. TypeOK' /\ Known'
      BY <3>1, <3>2 DEF IInv, TypeOK, Known, tdVars, control, history
    <3>4. StartsAtFirst' /\ ByScript' /\ DeletionByNameIsComplete'
      BY <3>1, <3>2 DEF IInv, StartsAtFirst, ByScript, tdVars, control, history,
        DeletionByNameIsComplete
    <3>5. ForcedSoFar' /\ ForeignKept'
      BY <3>1, <3>2 DEF IInv, ForcedSoFar, ToCome, ForeignKept, tdVars, control,
        history
    <3> QED
      BY <3>3, <3>4, <3>5 DEF IInv
  <2> QED
    BY <2>1, <2>2 DEF Next
<1> QED
  BY <1>1, InitInv, PTL DEF Spec

\* The variables keep their types, in every suite.
THEOREM TypeCorrect == Spec => []TypeOK
<1>1. IInv => TypeOK
  BY DEF IInv
<1> QED
  BY <1>1, TrafficDirectorInvariant, PTL

\* A forced cleanup, and the cleanup script, leave nothing that they deleted by
\* name without a refusal (cleanup and delete_ of TrafficDirectorManager and its
\* subclasses, cleanup_td_for_gke).
THEOREM DeletionIsProved == Spec => []DeletionByNameIsComplete
<1>1. IInv => DeletionByNameIsComplete
  BY DEF IInv
<1> QED
  BY <1>1, TrafficDirectorInvariant, PTL

\* Without force no step deletes a firewall rule that others made
\* (create_firewall_rules and delete_firewall_rules of traffic_director.py).
THEOREM ForeignIsProved == Spec => ForeignFirewallKept
<1>1. IInv /\ IInv' /\ [Next]_vars =>
        [~force => Suite.foreign \cap exists \subseteq exists']_vars
  <2> SUFFICES ASSUME IInv, IInv', [Next]_vars, ~force,
                      ~(Suite.foreign \subseteq exists')
               PROVE  FALSE
    BY Zenon
  <2>1. suite' = suite
    BY DEF Next, vars
  <2>2. Suite' = Suite
    BY <2>1 DEF Suite
  <2>3. force'
    BY <2>2 DEF IInv, ForeignKept
  <2>4. ForcedTearDown \/ Sweep
    <3> SUFFICES ASSUME ~ForcedTearDown, ~Sweep PROVE force' = force
      BY Zenon, <2>3
    <3>1. ASSUME NEW r \in Resource,
                 Create(r) \/ FindFirewall(r) \/ CreateFails(r) \/ Land(r)
          PROVE  force' = force
      BY Zenon, <3>1 DEF Create, FindFirewall, CreateFails, Land, control
    <3>2. ASSUME \/ \E b \in Backends : PatchUrlMap(b)
                 \/ backend_service_apply_client_mtls_policy
                 \/ backend_service_add_cloudrun_backends
          PROVE  force' = force
      BY Zenon, <3>2 DEF PatchUrlMap, backend_service_apply_client_mtls_policy,
        backend_service_add_cloudrun_backends, control
    <3>3. ASSUME setUpEnds \/ TestDelete \/ TestEnds \/ CleanupStep \/ PassEnds
                   \/ Interrupt \/ Abort
          PROVE  force' = force
      BY Zenon, <3>3 DEF setUpEnds, TestDelete, TestEnds, CleanupStep, PassEnds,
        Interrupt, Abort
    <3>4. UNCHANGED vars => force' = force
      BY Zenon DEF vars, control
    <3> QED
      BY Zenon, <3>1, <3>2, <3>3, <3>4 DEF Next, Step
  <2>5. exists' = exists
    BY <2>4 DEF ForcedTearDown, Sweep, tdVars
  <2> QED
    BY <2>5 DEF IInv, ForeignKept
<1> QED
  BY <1>1, TrafficDirectorInvariant, PTL DEF Spec, ForeignFirewallKept

-------------------------------------------------------------------------------
(* What is used is there, and routing resources use a health check *)

Making == {"setUp", "test"}

References == \A u \in Resource : uses[u] \subseteq MayReferTo(u)

HeldIsCreated == held \subseteq Creatable

HeldIsThere == phase \in Making => held \subseteq exists

\* All before the next creation succeeded, or a rule was found.
MadeInOrder ==
  phase \in Making /\ next <= Len(Suite.creations) =>
    \A k \in 1..(next - 1) : Suite.creations[k] \in held \cup Firewall

UsedIsThere == \A u \in exists : uses[u] \subseteq exists

Anchored ==
  "hc" \in Creatable =>
    \A u \in (exists \cup pending) \cap (Routing \ {"hc"}) :
      uses[u] \cap Routing # {}

ChainInv ==
  /\ References /\ HeldIsCreated /\ HeldIsThere /\ MadeInOrder
  /\ UsedIsThere /\ Anchored

\* What a new resource refers to is held by the manager.
LEMMA RefsFacts ==
  ASSUME NEW r \in Resource, NEW refs \in Refs(r)
  PROVE  /\ refs \subseteq held /\ refs \subseteq MayReferTo(r)
         /\ r \in Routing \ ({"hc"} \cup Backends) => refs \cap Routing # {}
         /\ r \in Backends => refs = {"hc"} \cap held
<1> USE DEF Backends, Proxies
<1>o. \A rs : \A b \in OneOf(rs) :
        b \subseteq held /\ b \subseteq rs /\ b # {}
  BY DEF OneOf
<1>1. CASE r \in Backends \cup {"ep", "hc"}
  <2>1. r = "hc" => refs = {}
    BY <1>1 DEF Refs
  <2>2. r = "ep" => refs = {"serverTls", "authz"} \cap held
    BY <1>1 DEF Refs, EndpointPolicyRefs
  <2>3. r \in Backends => refs = {"hc"} \cap held
    BY <1>1 DEF Refs, BackendRefs
  <2> QED
    BY <1>1, <2>1, <2>2, <2>3 DEF MayReferTo, Routing
<1>2. CASE r \in {"um", "umAlt"}
  <2>1. refs \in UrlMapRefs(r)
    BY <1>2 DEF Refs
  <2>2. refs \in OneOf(MayReferTo(r) \cap {"be", "beAlt"})
    BY <1>2, <2>1 DEF UrlMapRefs, MayReferTo, OneOf
  <2> QED
    BY <1>o, <1>2, <2>2 DEF Routing
<1>3. CASE r \in Proxies \cup {"tp6", "tpAlt"}
  <2>1. refs \in ProxyRefs(r)
    BY <1>3 DEF Refs
  <2>2. refs \in OneOf(MayReferTo(r)) /\ MayReferTo(r) \subseteq Routing
    BY <1>3, <2>1 DEF ProxyRefs, MayReferTo, Routing
  <2> QED
    BY <1>o, <1>3, <2>2
<1>4. CASE r \in {"fr", "fr6", "frAlt"}
  <2>1. refs \in RuleRefs(r)
    BY <1>4 DEF Refs
  <2>2. refs \in OneOf(MayReferTo(r)) /\ MayReferTo(r) \subseteq Routing
    BY <1>4, <2>1 DEF RuleRefs, MayReferTo, Routing
  <2> QED
    BY <1>o, <1>4, <2>2
<1>5. CASE r \in {"grpcRoute", "httpRoute"}
  <2>1. refs \in RouteRefs
    BY <1>5 DEF Refs
  <2>2. PICK b \in OneOf(Backends) : refs = b \cup {"mesh"} /\ "mesh" \in held
    BY <2>1 DEF RouteRefs
  <2> QED
    BY <1>o, <1>5, <2>2 DEF MayReferTo, Routing
<1>6. CASE r \in Firewall \cup
                   {"mesh", "neg", "serverTls", "clientTls", "authz"}
  BY <1>6 DEF Refs, Firewall, Routing
<1> QED
  BY <1>1, <1>2, <1>3, <1>4, <1>5, <1>6
  DEF Resource, Firewall, Routing, AppNet, Policies

\* Where a suite has a health check, it is there when a backend service is made.
LEMMA HealthCheckHeld ==
  ASSUME suite \in DOMAIN Suites, TypeOK, MadeInOrder, "hc" \in Creatable,
         NEW r \in Backends, MayCreate(r)
  PROVE  "hc" \in held
<1>1. /\ phase \in Making /\ next <= Len(Suite.creations)
      /\ r = Suite.creations[next] /\ next \in DOMAIN Suite.creations
  BY SuiteFacts DEF MayCreate, Making, TypeOK
<1>2. PICK j \in DOMAIN Suite.creations : Suite.creations[j] = "hc"
  BY DEF Creatable
<1>3. PICK k \in 1..(next - 1) : Suite.creations[k] = "hc"
  BY <1>1, <1>2, HealthCheckFirst DEF Suite
<1> QED
  BY <1>1, <1>3 DEF MadeInOrder, Firewall

\* A creation, whether its result is known or not.
LEMMA CreationChained ==
  ASSUME TypeOK, ChainInv, UNCHANGED suite, NEW r \in Resource, MayCreate(r),
         r \notin exists, NEW refs \in Refs(r),
         uses' = [uses EXCEPT ![r] = refs], exists \subseteq exists',
         exists' \subseteq exists \cup {r},
         pending' \subseteq pending \cup {r}
  PROVE  References' /\ UsedIsThere' /\ Anchored'
<1>1. /\ refs \subseteq held /\ refs \subseteq MayReferTo(r)
      /\ r \in Routing \ ({"hc"} \cup Backends) => refs \cap Routing # {}
      /\ r \in Backends => refs = {"hc"} \cap held
  BY RefsFacts
<1>2. /\ uses'[r] = refs /\ \A u \in Resource \ {r} : uses'[u] = uses[u]
      /\ exists \subseteq Resource /\ pending \subseteq Resource
      /\ Creatable' = Creatable
  BY DEF TypeOK, Creatable, Suite
<1>3. held \subseteq exists
  BY DEF ChainInv, HeldIsThere, MayCreate, Making
<1>4. References'
  BY <1>1, <1>2 DEF ChainInv, References
<1>5. UsedIsThere'
  BY <1>1, <1>2, <1>3 DEF ChainInv, UsedIsThere
<1>6. Anchored'
  <2> SUFFICES ASSUME "hc" \in Creatable,
                      NEW u \in (exists' \cup pending') \cap (Routing \ {"hc"})
               PROVE  uses'[u] \cap Routing # {}
    BY <1>2 DEF Anchored
  <2>1. CASE u = r
    <3>1. r \in Backends => "hc" \in held
      BY HealthCheckHeld DEF ChainInv, TypeOK
    <3> QED
      BY <1>1, <1>2, <2>1, <3>1 DEF Routing
  <2>2. CASE u # r
    <3>1. u \in (exists \cup pending) \cap (Routing \ {"hc"})
          /\ u \in Resource
      BY <1>2, <2>2
    <3> QED
      BY <1>2, <2>2, <3>1 DEF ChainInv, Anchored
  <2> QED
    BY <2>1, <2>2
<1> QED
  BY <1>4, <1>5, <1>6

\* Creations that return.
LEMMA CreateChained ==
  ASSUME TypeOK, ChainInv, UNCHANGED suite, NEW r \in Resource,
         Create(r) \/ FindFirewall(r)
  PROVE  ChainInv'
<1>1. /\ MayCreate(r) /\ r \in Creatable /\ next' = next + 1
      /\ Suite' = Suite /\ Creatable' = Creatable
      /\ phase' = phase /\ pending' = pending
  BY SuiteFacts
  DEF Create, FindFirewall, MayCreate, Creatable, Suite, TypeOK, control,
    history
<1>2. phase \in Making /\ next <= Len(Suite.creations)
      /\ r = Suite.creations[next] /\ held \subseteq exists
  BY <1>1 DEF MayCreate, Making, ChainInv, HeldIsThere
<1>3. /\ held' \subseteq Creatable
      /\ held \subseteq held' /\ r \in held' \cup Firewall
      /\ held' \subseteq exists'
  BY <1>1, <1>2 DEF Create, FindFirewall, ChainInv, HeldIsCreated
<1>4. HeldIsCreated' /\ HeldIsThere'
  BY <1>1, <1>3 DEF HeldIsCreated, HeldIsThere
<1>5. MadeInOrder'
  <2> SUFFICES ASSUME next' <= Len(Suite.creations), NEW k \in 1..(next' - 1)
               PROVE  Suite.creations[k] \in held' \cup Firewall
    BY <1>1 DEF MadeInOrder
  <2>1. k \in 1..(next - 1) \/ k = next
    BY <1>1 DEF TypeOK
  <2> QED
    BY <1>2, <1>3, <2>1 DEF ChainInv, MadeInOrder
<1>6. References' /\ UsedIsThere' /\ Anchored'
  <2>1. CASE Create(r)
    <3>1. PICK refs \in Refs(r) : uses' = [uses EXCEPT ![r] = refs]
      BY <2>1 DEF Create
    <3>2. r \notin exists /\ exists' = exists \cup {r}
      BY <2>1 DEF Create
    <3> QED
      BY <1>1, <3>1, <3>2, CreationChained
  <2>2. CASE FindFirewall(r)
    <3>1. UNCHANGED <<exists, uses>>
      BY <2>2 DEF FindFirewall
    <3> QED
      BY <1>1, <3>1 DEF ChainInv, References, UsedIsThere, Anchored
  <2> QED
    BY <2>1, <2>2
<1> QED
  BY <1>4, <1>5, <1>6 DEF ChainInv

\* Creations of which the result is not known; the test is over.
LEMMA UnknownChained ==
  ASSUME TypeOK, ChainInv, UNCHANGED suite, NEW r \in Resource,
         MayCreate(r), Unknown(r), phase' \notin Making
  PROVE  ChainInv'
<1>1. HeldIsCreated' /\ HeldIsThere' /\ MadeInOrder'
  BY DEF ChainInv, HeldIsCreated, HeldIsThere, MadeInOrder, Unknown, Creatable,
    Suite
<1>2. PICK refs \in Refs(r) :
        \/ UNCHANGED <<exists, uses, pending>>
        \/ /\ r \notin exists
           /\ uses' = [uses EXCEPT ![r] = refs]
           /\ \/ exists' = exists \cup {r} /\ UNCHANGED pending
              \/ pending' = pending \cup {r} /\ UNCHANGED exists
  BY DEF Unknown
<1>3. References' /\ UsedIsThere' /\ Anchored'
  <2>1. CASE UNCHANGED <<exists, uses, pending>>
    BY <2>1 DEF ChainInv, References, UsedIsThere, Anchored, Creatable, Suite
  <2>2. CASE ~UNCHANGED <<exists, uses, pending>>
    BY <1>2, <2>2, CreationChained
  <2> QED
    BY <2>1, <2>2
<1> QED
  BY <1>1, <1>3 DEF ChainInv

\* The test's changes to what it made.
LEMMA ChangeChained ==
  ASSUME TypeOK, ChainInv, UNCHANGED suite,
         \/ \E b \in Backends : PatchUrlMap(b)
         \/ backend_service_apply_client_mtls_policy
         \/ backend_service_add_cloudrun_backends
  PROVE  ChainInv'
<1>1. /\ UNCHANGED <<exists, next, held, phase, pending>>
      /\ phase = "test" /\ Suite' = Suite /\ Creatable' = Creatable
  BY DEF PatchUrlMap, backend_service_apply_client_mtls_policy,
    backend_service_add_cloudrun_backends, control, history, Suite, Creatable
<1>2. HeldIsCreated' /\ HeldIsThere' /\ MadeInOrder'
  BY <1>1 DEF ChainInv, HeldIsCreated, HeldIsThere, MadeInOrder
<1>3. held \subseteq exists /\ exists \subseteq Resource
  BY <1>1 DEF ChainInv, HeldIsThere, Making, TypeOK
<1> DEFINE P(u, refs) ==
             /\ refs \subseteq MayReferTo(u)
             /\ \/ /\ uses' = [uses EXCEPT ![u] = refs]
                   /\ refs \cap Backends # {}
                \/ uses' = [uses EXCEPT ![u] = @ \cup refs]
<1>4. \E u \in {"um", "be"}, refs \in SUBSET exists : P(u, refs)
  <2>1. ASSUME NEW b \in Backends, PatchUrlMap(b)
        PROVE  \E refs \in SUBSET exists : P("um", refs)
    <3>1. {b} \in SUBSET exists /\ uses' = [uses EXCEPT !["um"] = {b}]
      BY <1>3, <2>1 DEF PatchUrlMap
    <3>2. P("um", {b})
      BY <2>1, <3>1 DEF MayReferTo, Backends, Proxies
    <3> QED
      BY <3>1, <3>2
  <2>2. ASSUME backend_service_apply_client_mtls_policy
        PROVE  \E refs \in SUBSET exists : P("be", refs)
    <3>1. {"clientTls"} \in SUBSET exists
          /\ uses' = [uses EXCEPT !["be"] = @ \cup {"clientTls"}]
      BY <1>3, <2>2 DEF backend_service_apply_client_mtls_policy
    <3>2. P("be", {"clientTls"})
      BY <3>1 DEF MayReferTo, Backends, Proxies
    <3> QED
      BY <3>1, <3>2
  <2>3. ASSUME backend_service_add_cloudrun_backends
        PROVE  \E refs \in SUBSET exists : P("be", refs)
    <3>1. {"neg"} \in SUBSET exists
          /\ uses' = [uses EXCEPT !["be"] = @ \cup {"neg"}]
      BY <1>3, <2>3 DEF backend_service_add_cloudrun_backends
    <3>2. P("be", {"neg"})
      BY <3>1 DEF MayReferTo, Backends, Proxies
    <3> QED
      BY <3>1, <3>2
  <2> HIDE DEF P
  <2> QED
    BY Zenon, <2>1, <2>2, <2>3
<1>p. PICK u \in {"um", "be"}, refs \in SUBSET exists : P(u, refs)
  BY <1>4
<1>5. u \in Resource
  BY DEF Resource, Routing, Backends
<1>6. /\ \A x \in Resource \ {u} : uses'[x] = uses[x]
      /\ uses'[u] \subseteq uses[u] \cup refs
      /\ uses[u] \subseteq uses'[u] \/ uses'[u] \cap Backends # {}
  BY <1>p, <1>5 DEF TypeOK
<1>7. References'
  BY <1>p, <1>6 DEF ChainInv, References
<1>8. UsedIsThere'
  BY <1>1, <1>3, <1>6 DEF ChainInv, UsedIsThere
<1>9. Anchored'
  BY <1>1, <1>3, <1>6 DEF ChainInv, Anchored, TypeOK, Routing
<1> QED
  BY <1>2, <1>7, <1>8, <1>9 DEF ChainInv

\* Deletions, and steps that leave the resources alone.
LEMMA DeletionChained ==
  ASSUME TypeOK, ChainInv, UNCHANGED <<suite, uses, next, pending>>,
         held' \subseteq held, exists' \subseteq exists,
         \A x \in exists \ exists' : Users(x) = {},
         phase' \in Making =>
           /\ phase \in Making /\ held' \subseteq exists'
           /\ next <= Len(Suite.creations) => held' = held
  PROVE  ChainInv'
<1>1. Suite' = Suite /\ Creatable' = Creatable
  BY DEF Suite, Creatable
<1>2. HeldIsCreated' /\ HeldIsThere' /\ References'
  BY <1>1 DEF ChainInv, HeldIsCreated, HeldIsThere, References
<1>3. MadeInOrder'
  BY <1>1 DEF ChainInv, MadeInOrder
<1>4. UsedIsThere'
  BY DEF ChainInv, UsedIsThere, Users
<1>5. Anchored'
  BY <1>1 DEF ChainInv, Anchored
<1> QED
  BY <1>2, <1>3, <1>4, <1>5 DEF ChainInv

\* What a deletion may do, in these terms.
LEMMA ReturnsRemoves ==
  ASSUME NEW r, DeleteReturns(r)
  PROVE  /\ UNCHANGED <<uses, next, pending, late>>
         /\ held' = held \ Fields(r)
         /\ exists' \in {exists, exists \ {r}}
         /\ \A x \in exists \ exists' : x = r /\ Users(x) = {}
         /\ r \in exists' => Users(r) # {} \/ r \in tainted'
         /\ tainted \subseteq tainted' /\ tainted' \subseteq tainted \cup {r}
BY DEF DeleteReturns, MaybeRemoved

\* One that raises.
LEMMA RaisesRemoves ==
  ASSUME NEW r, DeleteRaises(r)
  PROVE  /\ UNCHANGED <<uses, next, pending, late, held, ensure, tainted>>
         /\ exists' \in {exists, exists \ {r}}
         /\ \A x \in exists \ exists' : x = r /\ Users(x) = {}
BY DEF DeleteRaises, MaybeRemoved

\* The resources a test may delete.
LEMMA TestDeletesFacts ==
  ASSUME suite \in DOMAIN Suites, NEW i \in DOMAIN Suite.testDeletes
  PROVE  /\ Suite.testDeletes[i] # "umAlt" /\ Suite.testDeletes[i] \in Creatable
         /\ \A u \in Creatable : Suite.testDeletes[i] \in MayReferTo(u) =>
              \E k \in 1..(i - 1) : Suite.testDeletes[k] = u
<1>1. LET c == Suites[suite].creations
          d == Suites[suite].testDeletes
      IN  \A k \in DOMAIN d :
            /\ d[k] # "umAlt" /\ \E m \in DOMAIN c : c[m] = d[k]
            /\ \A j \in DOMAIN c :
                 d[k] \in MayReferTo(c[j]) => \E m \in 1..(k - 1) : d[m] = c[j]
  BY TestDeletesInOrder
<1> QED
  BY <1>1 DEF Suite, Creatable

\* A late creation.
LEMMA LandChained ==
  ASSUME TypeOK, ChainInv, UNCHANGED suite, NEW r \in Resource, Land(r)
  PROVE  ChainInv'
<1>1. /\ UNCHANGED <<uses, next, held, phase>> /\ uses[r] \subseteq exists
      /\ r \in pending /\ pending' = pending \ {r} /\ exists' = exists \cup {r}
      /\ Suite' = Suite /\ Creatable' = Creatable
  BY DEF Land, control, Suite, Creatable
<1>2. HeldIsCreated' /\ HeldIsThere' /\ References' /\ MadeInOrder'
  BY <1>1 DEF ChainInv, HeldIsCreated, HeldIsThere, References, MadeInOrder
<1>3. UsedIsThere' /\ Anchored'
  BY <1>1 DEF ChainInv, UsedIsThere, Anchored
<1> QED
  BY <1>2, <1>3 DEF ChainInv

\* The deletions of the test.
LEMMA TestDeleteChained ==
  ASSUME TypeOK, ChainInv, UNCHANGED suite, TestDelete
  PROVE  ChainInv'
<1>1. PICK i \in DOMAIN Suite.testDeletes :
        LET r == Suite.testDeletes[i]
        IN  \/ DeleteReturns(r) /\ UNCHANGED <<ensure, phase>>
            \/ DeleteRaises(r) /\ phase' = "clean" /\ UNCHANGED refused
  BY DEF TestDelete
<1> DEFINE r == Suite.testDeletes[i]
<1>2. phase = "test" /\ ~(next <= Len(Suite.creations)) /\ r # "umAlt"
  BY SuiteFacts, TestDeletesFacts DEF TestDelete, TypeOK
<1> HIDE DEF r
<1>3. held \subseteq exists /\ r \in Fields(r)
  BY <1>2 DEF ChainInv, HeldIsThere, Making, Fields
<1>4. CASE DeleteReturns(r) /\ UNCHANGED <<ensure, phase>>
  BY <1>2, <1>3, <1>4, ReturnsRemoves, DeletionChained DEF Making
<1>5. CASE DeleteRaises(r) /\ phase' = "clean"
  BY <1>5, RaisesRemoves, DeletionChained DEF Making
<1> QED
  BY <1>1, <1>4, <1>5 DEF r

\* Those of a cleanup.
LEMMA CleanupChained ==
  ASSUME TypeOK, ChainInv, UNCHANGED suite, CleanupStep
  PROVE  ChainInv'
<1> DEFINE r == Order[step]
<1>1. \/ DeleteReturns(r)
      \/ UNCHANGED <<exists, uses, next, held, history>>
      \/ DeleteRaises(r)
  BY DEF CleanupStep
<1>2. phase' \notin Making
  BY DEF CleanupStep, AttemptFails, Cleaning, Making
<1> HIDE DEF r
<1>3. CASE DeleteReturns(r)
  BY <1>2, <1>3, ReturnsRemoves, DeletionChained
<1>4. CASE DeleteRaises(r)
  BY <1>2, <1>4, RaisesRemoves, DeletionChained
<1>5. CASE UNCHANGED <<exists, uses, next, held, history>>
  BY <1>2, <1>5, DeletionChained DEF history
<1> QED
  BY <1>1, <1>3, <1>4, <1>5

\* Any step keeps the chains of references whole.
LEMMA ChainNext == TypeOK /\ ChainInv /\ [Next]_vars => ChainInv'
<1> SUFFICES ASSUME TypeOK, ChainInv, [Next]_vars PROVE ChainInv'
  OBVIOUS
<1>1. UNCHANGED suite
  BY DEF Next, vars
<1>2. ASSUME NEW r \in Resource, Create(r) \/ FindFirewall(r) \/ Land(r)
      PROVE  ChainInv'
  BY <1>1, <1>2, CreateChained, LandChained
<1>3. ASSUME NEW r \in Resource, CreateFails(r) PROVE ChainInv'
  <2>1. MayCreate(r) /\ Unknown(r) /\ phase' \notin Making
    BY <1>3 DEF CreateFails, Making
  <2> QED
    BY <1>1, <2>1, UnknownChained
<1>4. CASE Interrupt
  <2>1. phase' \notin Making
    BY <1>4 DEF Interrupt, Making
  <2>2. ASSUME NEW r \in Creatable, MayCreate(r), Unknown(r) PROVE ChainInv'
    BY <1>1, <2>1, <2>2, SuiteFacts, UnknownChained DEF TypeOK
  <2>3. ASSUME UNCHANGED <<tdVars, history, refused>> PROVE ChainInv'
    BY <1>1, <2>1, <2>3, DeletionChained DEF tdVars, history
  <2> QED
    BY <1>4, <2>2, <2>3 DEF Interrupt
<1>5. CASE \/ setUpEnds \/ TestEnds \/ PassEnds \/ ForcedTearDown \/ Abort
           \/ Sweep \/ UNCHANGED vars
  <2>1. /\ UNCHANGED <<exists, uses, next, pending>> /\ held' \subseteq held
        /\ phase' \in Making => phase \in Making /\ held' = held
    BY <1>5 DEF setUpEnds, TestEnds, PassEnds, ForcedTearDown, Abort, Sweep,
      vars, AttemptFails, Cleaning, Making, tdVars, history, control
  <2>2. phase' \in Making => held' \subseteq exists'
    BY <2>1 DEF ChainInv, HeldIsThere
  <2> QED
    BY <1>1, <2>1, <2>2, DeletionChained
<1>6. CASE TestDelete \/ CleanupStep
  BY <1>1, <1>6, TestDeleteChained, CleanupChained
<1>7. CASE \/ \E b \in Backends : PatchUrlMap(b)
           \/ backend_service_apply_client_mtls_policy
           \/ backend_service_add_cloudrun_backends
  BY <1>1, <1>7, ChangeChained
<1> QED
  BY <1>2, <1>3, <1>4, <1>5, <1>6, <1>7 DEF Next, Step

\* Nothing refers to anything at first.
LEMMA ChainInit == Init => ChainInv
<1> SUFFICES ASSUME Init PROVE ChainInv
  OBVIOUS
<1>1. Suite.foreign \subseteq Firewall /\ suite \in DOMAIN Suites
  BY SuiteFacts DEF Init
<1>2. \A r \in Resource : uses[r] = {}
  BY DEF Init
<1>3. References /\ HeldIsCreated /\ HeldIsThere /\ MadeInOrder
  BY <1>2 DEF Init, References, HeldIsCreated, HeldIsThere, MadeInOrder
<1>4. exists = Suite.foreign /\ pending = {}
  BY DEF Init
<1>5. Firewall \subseteq Resource /\ Firewall \cap Routing = {}
  BY DEF Resource, Firewall, Routing, Backends
<1>6. UsedIsThere /\ Anchored
  BY <1>1, <1>2, <1>4, <1>5 DEF UsedIsThere, Anchored
<1> QED
  BY <1>3, <1>6 DEF ChainInv

\* A routing resource leads to the health check, one reference after the other.
LEMMA ChainEndsAtHealthCheck ==
  ASSUME TypeOK, References, UsedIsThere, Anchored, "hc" \in Creatable,
         NEW r \in exists \cap Routing
  PROVE  "hc" \in exists
<1> USE DEF Backends, Proxies
<1>1. \A u \in exists \cap (Routing \ {"hc"}) :
        \E x \in exists \cap Routing : x \in MayReferTo(u)
  <2> SUFFICES ASSUME NEW u \in exists \cap (Routing \ {"hc"})
               PROVE  \E x \in exists \cap Routing : x \in MayReferTo(u)
    OBVIOUS
  <2>1. PICK x \in uses[u] : x \in Routing
    BY DEF Anchored
  <2>2. u \in Resource /\ x \in exists
    BY DEF TypeOK, UsedIsThere
  <2> QED
    BY <2>1, <2>2 DEF References
<1>2. ASSUME NEW b \in exists \cap {"be", "beAlt", "beAff"}
      PROVE  "hc" \in exists
  BY <1>1, <1>2 DEF MayReferTo, Routing
<1>3. ASSUME NEW m \in exists \cap {"um", "umAlt"} PROVE "hc" \in exists
  <2>1. PICK x \in exists \cap Routing : x \in MayReferTo(m)
    BY <1>1, <1>3 DEF Routing
  <2>2. x \in {"be", "beAlt", "beAff"}
    BY <1>3, <2>1 DEF MayReferTo
  <2> QED
    BY <1>2, <2>1, <2>2
<1>4. ASSUME NEW p \in exists \cap {"tpHttp", "tpGrpc", "tp6", "tpAlt"}
      PROVE  "hc" \in exists
  <2>1. PICK x \in exists \cap Routing : x \in MayReferTo(p)
    BY <1>1, <1>4 DEF Routing
  <2>2. x \in {"um", "umAlt"}
    BY <1>4, <2>1 DEF MayReferTo
  <2> QED
    BY <1>3, <2>1, <2>2
<1>5. ASSUME NEW f \in exists \cap {"fr", "frAlt", "fr6"} PROVE "hc" \in exists
  <2>1. PICK x \in exists \cap Routing : x \in MayReferTo(f)
    BY <1>1, <1>5 DEF Routing
  <2>2. x \in {"tpHttp", "tpGrpc", "tp6", "tpAlt"}
    BY <1>5, <2>1 DEF MayReferTo
  <2> QED
    BY <1>4, <2>1, <2>2
<1> QED
  BY <1>2, <1>3, <1>4, <1>5 DEF Routing

\* The references among a test's resources stay whole.
THEOREM ChainsAreWhole == Spec => []ChainInv
BY ChainInit, ChainNext, TypeCorrect, PTL DEF Spec

\* The cleanup script may look for health checks only
\* (find_and_remove_leaked_td_resources): where a test has one, whatever leaks
\* of its routing keeps it.
THEOREM RoutingLeaksProved == Spec => []RoutingLeaksAreFound
<1>1. TypeOK /\ ChainInv => RoutingLeaksAreFound
  BY ChainEndsAtHealthCheck DEF ChainInv, RoutingLeaksAreFound
<1> QED
  BY <1>1, TypeCorrect, ChainsAreWhole, PTL

-------------------------------------------------------------------------------
(* Why a resource is left *)

Owning == Making \cup {"interrupted", "clean"}

Owned == exists \ Suite.foreign

PendingIsTainted == pending \subseteq tainted

CleanWhileMade ==
  phase \in Making /\ next <= Len(Suite.creations) => tainted = {}

\* What the cleanup has passed is forgotten, but for the alternative url map.
PassedIsForgotten ==
  phase = "clean" => \A u \in held : ToCome(u) \/ u = "umAlt"

RulesAreEnsured == phase \in Owning /\ held \cap Firewall # {} => ensure

\* A rule of the test is left by a failed request, or is still to be deleted.
RulesAreKnown ==
  phase \in Owning =>
    \A r \in Firewall \cap Owned :
      \/ r \in tainted
      \/ r \in held /\ ensure /\ (phase = "clean" => ToCome(r))

Excused(r) == r \in tainted \/ ForgottenFirst(r)

\* Used by what will never be deleted without force.
Stuck(r) ==
  \E u \in exists :
    /\ r \in uses[u]
    /\ \/ u \notin held
       \/ u = "umAlt" /\ \E v \in exists \ held : u \in uses[v]

WithoutForce ==
  phase \in Making \cup {"clean"} /\ ~force =>
    \A r \in Owned :
      \/ Excused(r) \/ Stuck(r)
      \/ r \in held /\ (phase = "clean" => ToCome(r))

WithForce ==
  phase = "clean" /\ force =>
    \A r \in Owned :
      \/ Excused(r) \/ ToCome(r)
      \/ \E u \in exists : r \in uses[u] /\ ~ToCome(u)

LeakInv ==
  /\ PendingIsTainted /\ CleanWhileMade
  /\ PassedIsForgotten /\ RulesAreEnsured /\ RulesAreKnown
  /\ WithoutForce /\ WithForce /\ LeaksAreExplained

Base == TypeOK /\ Known /\ StartsAtFirst /\ ChainInv /\ LeakInv

\* The order of the cleanup is that of a manager.
LEMMA OrderFacts ==
  ASSUME suite \in DOMAIN Suites, phase # "janitor"
  PROVE  Sorted(Order) /\ Len(Order) \in Nat
<1>1. Order = CleanupOrder(Suites[suite]) /\ Suites[suite] \in Managers
  BY TdConstants DEF Order, CleanupOrders
<1> QED
  BY <1>1, CleanupSorted, CleanupCovers, LenProperties

\* The cleanup has passed what has a lower level than its step.
LEMMA LowerIsPassed ==
  ASSUME TypeOK, phase = "clean", step <= Len(Order),
         NEW u, Level(u) < Level(Order[step])
  PROVE  ~ToCome(u)
<1> SUFFICES ASSUME NEW i \in step..Len(Order), Order[i] = u PROVE FALSE
  BY DEF ToCome
<1>1. step \in 1..Len(Order) /\ Len(Order) \in Nat /\ Sorted(Order)
  BY OrderFacts DEF TypeOK, Cleaning
<1>2. i \in 1..Len(Order)
  BY <1>1
<1>3. Level(u) \in 0..12 /\ Level(Order[step]) \in 0..12
  BY LevelFacts
<1>4. step < i => Level(Order[step]) <= Level(Order[i])
  BY <1>1, <1>2 DEF Sorted
<1>5. step = i \/ step < i
  BY <1>1
<1> QED
  BY <1>3, <1>4, <1>5

\* A suite has the proxies of one protocol only.
LEMMA OneProxy ==
  ASSUME suite \in DOMAIN Suites
  PROVE  ~(Proxies \subseteq Creatable)
<1>1. Suite \in Managers
  BY SuiteFacts
<1>2. \A r \in Creatable : r \in Managed(Suite)
  BY SuitesAreManaged DEF Creatable, Suite
<1>3. Suite.kind \in {"compute", "appnet", "secure", "cloudrun", "spiffe"}
  BY <1>1 DEF Managers
<1> QED
  BY <1>2, <1>3
  DEF Managed, Proxies, Routing, Firewall, AppNet, Policies, Backends

\* Without force, what the manager remembers it holds, if it is there.
LEMMA RememberedIsHeld ==
  ASSUME TypeOK, Known, ChainInv, NEW r \in exists
  PROVE  Remembers(r) <=> r \in held
<1>1. CASE r = "tpGrpc"
  <2>1. r \in Creatable
    BY <1>1, SuiteFacts DEF Known, TypeOK, Firewall
  <2>2. "tpHttp" \notin held
    BY <1>1, <2>1, OneProxy DEF Proxies, ChainInv, HeldIsCreated, TypeOK
  <2> QED
    BY <1>1, <2>2 DEF Remembers, Proxies
<1>2. CASE r # "tpGrpc"
  BY <1>2 DEF Remembers
<1> QED
  BY <1>1, <1>2

\* Nobody uses a firewall rule, and a rule uses nothing.
LEMMA RulesAreUnused ==
  ASSUME TypeOK, References, NEW r \in Firewall
  PROVE  Users(r) = {} /\ uses[r] = {}
<1>1. \A u \in Resource : r \notin uses[u]
  BY UsersFirst DEF References
<1>2. r \in Resource
  BY DEF Resource
<1>3. uses[r] = {}
  BY <1>2, UsersFirst DEF References
<1> QED
  BY <1>1, <1>3 DEF Users, TypeOK

\* Who is used by what stays is still used, if nothing goes that is used or not
\* held, and no reference is lost.
LEMMA StuckStays ==
  ASSUME NEW x, Stuck(x),
         \A u \in exists \ held :
           u \in exists' /\ u \notin held' /\ uses[u] \subseteq uses'[u],
         "umAlt" \in exists => uses["umAlt"] \subseteq uses'["umAlt"],
         \A u \in exists \ exists' : Users(u) = {}
  PROVE  Stuck(x)'
<1>1. PICK u \in exists :
        /\ x \in uses[u]
        /\ \/ u \notin held
           \/ u = "umAlt" /\ \E v \in exists \ held : u \in uses[v]
  BY DEF Stuck
<1>2. CASE u \notin held
  BY <1>1, <1>2 DEF Stuck
<1>3. CASE u = "umAlt" /\ \E v \in exists \ held : u \in uses[v]
  <2>1. PICK v \in exists \ held : u \in uses[v]
    BY <1>3
  <2>2. v \in exists' \ held' /\ u \in uses'[v]
    BY <2>1
  <2>3. u \in exists'
    BY <2>1 DEF Users
  <2>4. x \in uses'[u]
    BY <1>1, <1>3
  <2> QED
    BY <1>3, <2>2, <2>3, <2>4 DEF Stuck
<1> QED
  BY <1>1, <1>2, <1>3

\* Creations that return.
LEMMA CreateAccounted ==
  ASSUME Base, UNCHANGED suite, NEW r \in Resource,
         Create(r) \/ FindFirewall(r)
  PROVE  LeakInv'
<1>1. /\ MayCreate(r) /\ next' = next + 1 /\ Suite' = Suite
      /\ UNCHANGED <<phase, step, force, pending, tainted>>
      /\ phase \in Making /\ next <= Len(Suite.creations)
  BY DEF Create, FindFirewall, MayCreate, Suite, control, history, Making
<1>2. tainted = {} /\ PendingIsTainted' /\ CleanWhileMade'
  BY <1>1 DEF Base, LeakInv, PendingIsTainted, CleanWhileMade
<1>3. /\ exists \subseteq exists' /\ held \subseteq held'
      /\ exists' \ exists \subseteq held' /\ held' \ held \subseteq {r} \ exists
      /\ exists' \ exists \subseteq {r}
      /\ r \in Firewall => ensure'
      /\ r \notin Firewall => ensure' = ensure
      /\ ensure => ensure'
      /\ r \in exists => uses' = uses
      /\ \A u \in Resource \ {r} : uses'[u] = uses[u]
  <2>1. CASE Create(r)
    <3>1. (ensure => ensure') /\ (r \in Firewall => ensure')
      BY Zenon, <2>1 DEF Create
    <3>2. r \notin Firewall => ensure' = ensure
      BY <2>1 DEF Create, Base, TypeOK
    <3>3. \A u \in Resource \ {r} : uses'[u] = uses[u]
      BY <2>1 DEF Create, Base, TypeOK
    <3> QED
      BY <2>1, <3>1, <3>2, <3>3 DEF Create
  <2>2. CASE FindFirewall(r)
    BY <2>2 DEF FindFirewall
  <2> QED
    BY <2>1, <2>2
<1>4. RulesAreEnsured'
  BY <1>1, <1>3 DEF Base, LeakInv, RulesAreEnsured, Owning
<1>5. RulesAreKnown'
  <2> SUFFICES ASSUME NEW x \in Firewall, x \in exists', x \notin Suite.foreign
               PROVE  x \in held' /\ ensure'
    BY <1>1 DEF RulesAreKnown, Owned, Making
  <2>1. CASE x \in exists
    <3>1. x \in held /\ ensure
      BY <1>1, <1>2, <2>1 DEF Base, LeakInv, RulesAreKnown, Owned, Owning
    <3> QED
      BY <1>3, <3>1
  <2>2. CASE x \notin exists
    BY <1>3, <2>2
  <2> QED
    BY <2>1, <2>2
<1>6. WithoutForce'
  <2> SUFFICES ASSUME ~force, NEW x \in exists', x \notin Suite.foreign
               PROVE  Stuck(x)' \/ x \in held'
    BY <1>1 DEF WithoutForce, Owned, Making
  <2>1. CASE x \in exists /\ x \notin held
    <3>1. Stuck(x)
      BY <1>1, <1>2, <2>1
      DEF Base, LeakInv, WithoutForce, Owned, Excused, ForgottenFirst
    <3>2. \A u \in exists \ held :
            u \in exists' /\ u \notin held' /\ uses[u] \subseteq uses'[u]
      BY <1>3 DEF Base, TypeOK
    <3>3. "umAlt" \in exists => uses["umAlt"] \subseteq uses'["umAlt"]
      BY <1>3 DEF Base, TypeOK
    <3> QED
      BY <1>3, <3>1, <3>2, <3>3, StuckStays
  <2> QED
    BY <1>3, <2>1
<1>7. PassedIsForgotten' /\ WithForce' /\ LeaksAreExplained'
  BY <1>1 DEF PassedIsForgotten, WithForce, LeaksAreExplained, Making
<1> QED
  BY <1>2, <1>4, <1>5, <1>6, <1>7 DEF LeakInv

\* The test's changes to what it made.
LEMMA ChangeAccounted ==
  ASSUME Base, UNCHANGED suite,
         \/ \E b \in Backends : PatchUrlMap(b)
         \/ backend_service_apply_client_mtls_policy
         \/ backend_service_add_cloudrun_backends
  PROVE  LeakInv'
<1>1. /\ UNCHANGED <<exists, next, held, ensure, pending, tainted>>
      /\ UNCHANGED <<phase, step, force>>
      /\ phase = "test" /\ Suite' = Suite
  BY DEF PatchUrlMap, backend_service_apply_client_mtls_policy,
    backend_service_add_cloudrun_backends, control, history, Suite
<1>2. /\ \A u \in exists \ held : uses[u] \subseteq uses'[u]
      /\ uses'["umAlt"] = uses["umAlt"]
  <2>1. exists \subseteq Resource /\ "umAlt" \in Resource
        /\ uses \in [Resource -> SUBSET Resource]
    BY DEF Base, TypeOK, Resource, Routing
  <2>2. ASSUME NEW b \in Backends, PatchUrlMap(b) PROVE <1>2!:
    BY <2>1, <2>2 DEF PatchUrlMap
  <2>3. CASE backend_service_apply_client_mtls_policy
    BY <2>1, <2>3 DEF backend_service_apply_client_mtls_policy
  <2>4. CASE backend_service_add_cloudrun_backends
    BY <2>1, <2>4 DEF backend_service_add_cloudrun_backends
  <2> QED
    BY <2>2, <2>3, <2>4
<1>3. PendingIsTainted' /\ CleanWhileMade' /\ PassedIsForgotten'
      /\ WithForce' /\ LeaksAreExplained'
  BY <1>1 DEF Base, LeakInv, PendingIsTainted, CleanWhileMade,
    PassedIsForgotten, WithForce, LeaksAreExplained
<1>4. RulesAreEnsured' /\ RulesAreKnown'
  BY <1>1 DEF Base, LeakInv, RulesAreEnsured, RulesAreKnown, Owned, Owning
<1>5. WithoutForce'
  <2> SUFFICES ASSUME ~force, NEW x \in Owned
               PROVE  Excused(x)' \/ Stuck(x)' \/ x \in held
    BY <1>1 DEF WithoutForce, Owned
  <2>1. Excused(x) \/ Stuck(x) \/ x \in held
    BY <1>1 DEF Base, LeakInv, WithoutForce, Making
  <2>2. Excused(x) => Excused(x)'
    BY <1>1, <1>2 DEF Excused, ForgottenFirst
  <2>3. Stuck(x) => Stuck(x)'
    BY <1>1, <1>2, StuckStays
  <2> QED
    BY <2>1, <2>2, <2>3
<1> QED
  BY <1>3, <1>4, <1>5 DEF LeakInv

\* A creation of which the result is not known is on record.
LEMMA UnknownAccounted ==
  ASSUME Base, UNCHANGED <<suite, step, force>>, Known', ChainInv',
         NEW r \in Resource, MayCreate(r), Unknown(r),
         phase' \in {"interrupted", "orphaned", "clean"}
  PROVE  LeakInv'
<1>1. /\ UNCHANGED <<next, held, ensure>> /\ tainted' = tainted \cup {r}
      /\ exists \subseteq exists' /\ exists' \subseteq exists \cup {r}
      /\ pending' \subseteq pending \cup {r}
      /\ phase \in Making /\ next <= Len(Suite.creations)
      /\ Suite' = Suite /\ step = 1
  BY DEF Unknown, MayCreate, Suite, Making, Base, StartsAtFirst
<1>2. /\ \A u \in Resource \ {r} : uses'[u] = uses[u]
      /\ r \in exists => uses' = uses
  BY DEF Unknown, Base, TypeOK
<1>3. PendingIsTainted' /\ CleanWhileMade' /\ LeaksAreExplained'
  BY <1>1 DEF Base, LeakInv, PendingIsTainted, CleanWhileMade, Making,
    LeaksAreExplained
<1>4. phase' = "clean" => \A x \in Creatable' : ToCome(x)'
  BY <1>1, CreatableToComeNext DEF Base, TypeOK
<1>5. PassedIsForgotten' /\ RulesAreEnsured'
  BY <1>1, <1>4 DEF ChainInv, HeldIsCreated, PassedIsForgotten, Base, LeakInv,
    RulesAreEnsured, Owning
<1>6. held \subseteq Creatable'
  BY <1>1 DEF ChainInv, HeldIsCreated
<1>7. RulesAreKnown'
  <2> SUFFICES ASSUME NEW x \in Firewall, x \in exists', x \notin Suite.foreign
               PROVE  x \in tainted' \/ (x \in held /\ ensure)
    BY <1>1, <1>4, <1>6 DEF RulesAreKnown, Owned
  <2>1. x # r => x \in exists
    BY <1>1
  <2> QED
    BY <1>1, <2>1 DEF Base, LeakInv, RulesAreKnown, Owned, Owning
<1>8. WithoutForce'
  <2> SUFFICES ASSUME phase' = "clean", ~force,
                      NEW x \in exists', x \notin Suite.foreign, x # r
               PROVE  Stuck(x)' \/ x \in held
    BY <1>1, <1>4, <1>6 DEF WithoutForce, Owned, Making, Excused
  <2>1. x \in exists
    BY <1>1
  <2>2. Stuck(x) \/ x \in held
    BY <1>1, <2>1 DEF Base, LeakInv, WithoutForce, Owned, Excused,
      ForgottenFirst, CleanWhileMade
  <2>3. \A u \in exists \ held :
          u \in exists' /\ u \notin held' /\ uses[u] \subseteq uses'[u]
    BY <1>1, <1>2 DEF Base, TypeOK
  <2>4. "umAlt" \in exists => uses["umAlt"] \subseteq uses'["umAlt"]
    BY <1>2 DEF Base, TypeOK
  <2> QED
    BY <1>1, <2>2, <2>3, <2>4, StuckStays
<1>9. WithForce'
  <2> SUFFICES ASSUME phase' = "clean", NEW x \in exists',
                      x \notin Suite.foreign
               PROVE  ToCome(x)'
    BY <1>1 DEF WithForce, Owned
  <2> QED
    BY <1>1, <1>4 DEF Known
<1> QED
  BY <1>3, <1>5, <1>7, <1>8, <1>9 DEF LeakInv

\* A late creation is on record.
LEMMA LandAccounted ==
  ASSUME Base, UNCHANGED suite, NEW r \in Resource, Land(r)
  PROVE  LeakInv'
<1>1. /\ UNCHANGED <<uses, next, held, ensure, phase, step, force, tainted>>
      /\ r \in pending /\ pending' = pending \ {r} /\ exists' = exists \cup {r}
      /\ Suite' = Suite /\ Order' = Order /\ r \in tainted
  BY DEF Land, control, Suite, Order, Base, LeakInv, PendingIsTainted
<1>2. /\ \A x \in Owned' : x = r \/ x \in Owned
      /\ \A x : ToCome(x)' <=> ToCome(x)
      /\ \A x : Excused(x)' <=> Excused(x)
      /\ Excused(r)
  BY <1>1 DEF Owned, ToCome, Excused, ForgottenFirst
<1>3. PendingIsTainted' /\ CleanWhileMade' /\ PassedIsForgotten'
      /\ RulesAreEnsured'
  BY <1>1, <1>2 DEF Base, LeakInv, PendingIsTainted, CleanWhileMade,
    PassedIsForgotten, RulesAreEnsured
<1>4. RulesAreKnown'
  BY <1>1, <1>2 DEF Base, LeakInv, RulesAreKnown
<1>5. WithoutForce'
  <2>1. \A x : Stuck(x) => Stuck(x)'
    BY <1>1 DEF Stuck
  <2> QED
    BY <1>1, <1>2, <2>1 DEF Base, LeakInv, WithoutForce
<1>6. WithForce'
  BY <1>1, <1>2 DEF Base, LeakInv, WithForce
<1>7. LeaksAreExplained'
  BY <1>1 DEF Base, LeakInv, LeaksAreExplained, InUse, Users, ForgottenFirst
<1> QED
  BY <1>3, <1>4, <1>5, <1>6, <1>7 DEF LeakInv

\* An attempt begins, with all that is held and there still to come, or
\* nothing more is cleaned.
LEMMA BeginningAccounted ==
  ASSUME Base, Known', ChainInv',
         UNCHANGED <<suite, uses, next, held, ensure, pending, tainted>>,
         exists' \subseteq exists, \A x \in exists \ exists' : Users(x) = {},
         \A x \in exists \ exists' :
           \/ x \in held \/ force \/ phase \notin Making \cup {"clean"},
         phase \in Owning, phase' \in Owning \cup (Over \ {"done"}),
         phase' \in Making => phase \in Making,
         phase' = "clean" => step' = 1,
         force' = force \/ force' = TRUE,
         ~force' /\ phase' = "clean" => phase \in Making \cup {"clean"}
  PROVE  LeakInv'
<1>1. Suite' = Suite /\ Creatable' = Creatable
  BY DEF Suite, Creatable
<1>2. PendingIsTainted' /\ CleanWhileMade'
  BY <1>1 DEF Base, LeakInv, PendingIsTainted, CleanWhileMade
<1>3. LeaksAreExplained'
  BY DEF LeaksAreExplained, Owning, Making, Over
<1>4. phase' = "clean" => \A x \in Creatable : ToCome(x)'
  BY <1>1, CreatableToComeNext DEF Base, TypeOK
<1>5. /\ PassedIsForgotten' /\ RulesAreEnsured'
      /\ held \subseteq Creatable
  BY <1>1, <1>4 DEF ChainInv, HeldIsCreated, PassedIsForgotten, Base, LeakInv,
    RulesAreEnsured
<1>6. RulesAreKnown'
  BY <1>1, <1>4, <1>5 DEF Base, LeakInv, RulesAreKnown, Owned
<1>7. WithoutForce'
  <2> SUFFICES ASSUME phase' \in Making \cup {"clean"}, ~force',
                      NEW x \in exists', x \notin Suite.foreign
               PROVE  \/ Excused(x)' \/ Stuck(x)' \/ x \in held
    BY <1>1, <1>4, <1>5 DEF WithoutForce, Owned
  <2>1. ~force /\ phase \in Making \cup {"clean"}
    <3>1. ~force
      BY Zenon
    <3>2. phase' \in Making \/ phase' = "clean"
      OBVIOUS
    <3> QED
      BY <3>1, <3>2
  <2>2. Excused(x) \/ Stuck(x) \/ x \in held
    BY <2>1 DEF Base, LeakInv, WithoutForce, Owned
  <2>3. Excused(x) => Excused(x)'
    BY DEF Excused, ForgottenFirst
  <2>4. Stuck(x) => Stuck(x)'
    BY <2>1, StuckStays
  <2> QED
    BY <2>2, <2>3, <2>4
<1>8. WithForce'
  <2> SUFFICES ASSUME phase' = "clean", NEW x \in exists',
                      x \notin Suite.foreign
               PROVE  ToCome(x)'
    BY <1>1 DEF WithForce, Owned
  <2> QED
    BY <1>1, <1>4 DEF Known, Base
<1> QED
  BY <1>2, <1>3, <1>5, <1>6, <1>7, <1>8 DEF LeakInv

\* Steps that leave the resources alone.
LEMMA PhaseAccounted ==
  ASSUME Base, Known', ChainInv', UNCHANGED suite,
         setUpEnds \/ TestEnds \/ Abort \/ ForcedTearDown
  PROVE  LeakInv'
<1>1. UNCHANGED <<exists, uses, next, held, ensure, pending, tainted>>
  BY DEF setUpEnds, TestEnds, Abort, ForcedTearDown, tdVars, history
<1>2. /\ phase \in Owning /\ phase' \in Owning \cup (Over \ {"done"})
      /\ phase' \in Making => phase \in Making
      /\ phase' = "clean" => step' = 1
  BY DEF setUpEnds, TestEnds, Abort, ForcedTearDown, Owning, Making, Over, Base,
    StartsAtFirst
<1>3. /\ force' = force \/ force' = TRUE
      /\ ~force' /\ phase' = "clean" => phase \in Making \cup {"clean"}
  <2>1. CASE setUpEnds \/ TestEnds \/ Abort
    <3>1. force' = force /\ (phase' = "clean" => phase = "test")
      BY <2>1 DEF setUpEnds, TestEnds, Abort
    <3> QED
      BY <3>1 DEF Making
  <2>2. CASE ForcedTearDown
    BY Zenon, <2>2 DEF ForcedTearDown
  <2> QED
    BY Zenon, <2>1, <2>2
<1> QED
  BY <1>1, <1>2, <1>3, BeginningAccounted

\* The cleanup script is not the test's.
LEMMA JanitorAccounted ==
  ASSUME Base, UNCHANGED <<suite, pending>>, tainted \subseteq tainted',
         phase' \in {"janitor", "swept"}
  PROVE  LeakInv'
BY DEF Base, LeakInv, PendingIsTainted, CleanWhileMade, PassedIsForgotten,
  RulesAreEnsured, RulesAreKnown, WithoutForce, WithForce, LeaksAreExplained,
  Owning, Making

\* An attempt fails.
LEMMA AttemptAccounted ==
  ASSUME Base, Known', ChainInv', AttemptFails, phase \in Cleaning,
         UNCHANGED <<suite, uses, next, held, ensure, force, pending, tainted>>,
         exists' \subseteq exists, \A x \in exists \ exists' : Users(x) = {},
         \A x \in exists \ exists' : x \in held \/ force
  PROVE  LeakInv'
<1>1. CASE phase = "janitor"
  BY <1>1, JanitorAccounted DEF AttemptFails
<1>2. CASE phase = "clean"
  <2>1. phase \in Owning /\ phase' \in Owning \cup (Over \ {"done"})
        /\ (phase' \in Making => phase \in Making)
        /\ (phase' = "clean" => step' = 1)
    BY <1>2 DEF AttemptFails, Owning, Making, Over
  <2>2. force' = force \/ force' = TRUE
    OBVIOUS
  <2>3. ~force' /\ phase' = "clean" => phase \in Making \cup {"clean"}
    BY <1>2
  <2>4. \A x \in exists \ exists' :
          \/ x \in held \/ force \/ phase \notin Making \cup {"clean"}
    OBVIOUS
  <2> QED
    BY Zenon, <2>1, <2>2, <2>3, <2>4, BeginningAccounted
<1> QED
  BY <1>1, <1>2 DEF Cleaning

\* The end of a cleanup.
LEMMA PassEndsAccounted ==
  ASSUME Base, Known', ChainInv', UNCHANGED suite, PassEnds
  PROVE  LeakInv'
<1>1. /\ UNCHANGED <<exists, uses, next, held, ensure, force, pending, tainted>>
      /\ phase \in Cleaning /\ step > Len(Order)
  BY DEF PassEnds, tdVars
<1>2. CASE AttemptFails
  BY <1>1, <1>2, AttemptAccounted
<1>3. CASE ~AttemptFails
  <2>1. phase' = IF phase = "clean" THEN "done" ELSE "swept"
    BY <1>3 DEF PassEnds
  <2>2. CASE phase = "janitor"
    BY <1>1, <2>1, <2>2, JanitorAccounted
  <2>3. CASE phase = "clean"
    <3>1. \A r : ~ToCome(r)
      BY <1>1, <2>3, OrderFacts DEF ToCome, Base, TypeOK
    <3>2. phase' = "done" /\ Suite' = Suite
      BY <2>1, <2>3 DEF Suite
    <3>3. ASSUME NEW r \in Owned PROVE Excused(r) \/ InUse(r)
      <4>1. CASE force
        BY <2>3, <3>1, <4>1
        DEF Base, LeakInv, WithForce, InUse, Users
      <4>2. CASE ~force
        BY <2>3, <3>1, <4>2
        DEF Base, LeakInv, WithoutForce, InUse, Users, Stuck
      <4> QED
        BY <4>1, <4>2
    <3>4. LeaksAreExplained'
      BY <1>1, <3>2, <3>3 DEF LeaksAreExplained, Excused, ForgottenFirst, Owned,
        InUse, Users
    <3> QED
      BY <1>1, <3>2, <3>4 DEF Base, LeakInv, PendingIsTainted, CleanWhileMade,
        PassedIsForgotten, RulesAreEnsured, RulesAreKnown, WithoutForce,
        WithForce, Owning, Making
  <2> QED
    BY <1>1, <2>2, <2>3 DEF Cleaning
<1> QED
  BY <1>2, <1>3

\* The fields that a deletion resets are its own, but for two cases.
LEMMA FieldsFacts ==
  ASSUME NEW r, NEW x \in Fields(r), x # r
  PROVE  \/ r \in Proxies /\ x \in Proxies
         \/ r = "umAlt" /\ x = "um"
BY DEF Fields

\* Without force nothing is deleted that is not held; what is stuck stays.
LEMMA ReturnsKeepsStuck ==
  ASSUME Base, NEW r, Remembers(r), DeleteReturns(r), NEW x, Stuck(x)
  PROVE  Stuck(x)'
<1>1. r \in exists => r \in held
  BY RememberedIsHeld DEF Base
<1>2. /\ held' \subseteq held /\ uses' = uses
      /\ exists' \in {exists, exists \ {r}}
      /\ \A u \in exists \ exists' : u = r /\ Users(u) = {}
  BY ReturnsRemoves
<1>3. \A u \in exists \ held :
        u \in exists' /\ u \notin held' /\ uses[u] \subseteq uses'[u]
  BY <1>1, <1>2
<1>4. uses["umAlt"] \subseteq uses'["umAlt"]
  BY <1>2
<1> QED
  BY <1>2, <1>3, <1>4, StuckStays

\* The deletions of the test.
LEMMA TestDeleteAccounted ==
  ASSUME Base, Known', ChainInv', UNCHANGED suite, TestDelete
  PROVE  LeakInv'
<1>1. PICK i \in DOMAIN Suite.testDeletes :
        LET r == Suite.testDeletes[i]
        IN  /\ Remembers(r)
            /\ \A k \in 1..(i - 1) : ~Remembers(Suite.testDeletes[k])
            /\ \/ DeleteReturns(r) /\ UNCHANGED <<ensure, phase>>
               \/ DeleteRaises(r) /\ phase' = "clean" /\ UNCHANGED refused
  BY DEF TestDelete
<1> DEFINE r == Suite.testDeletes[i]
<1>2. /\ phase = "test" /\ ~(next <= Len(Suite.creations))
      /\ step' = step /\ force' = force /\ step = 1
      /\ r # "umAlt" /\ r \in Creatable /\ Suite' = Suite
  BY SuiteFacts, TestDeletesFacts DEF TestDelete, Base, TypeOK, StartsAtFirst,
    Suite
<1>3. ASSUME NEW u \in Creatable, r \in MayReferTo(u) PROVE ~Remembers(u)
  BY <1>1, <1>3, TestDeletesFacts DEF Base, TypeOK
<1>4. Remembers(r)
  BY <1>1
<1>r. r \in exists => r \in held
  BY <1>4, RememberedIsHeld DEF Base
<1> HIDE DEF r
<1>5. CASE DeleteRaises(r) /\ phase' = "clean" /\ UNCHANGED refused
  <2>1. /\ UNCHANGED <<uses, next, held, ensure, pending, tainted>>
        /\ exists' \subseteq exists
        /\ \A x \in exists \ exists' : Users(x) = {} /\ x \in held
    BY <1>5, <1>r, RaisesRemoves
  <2>2. phase \in Owning /\ phase \in Making /\ phase' \in Owning
    BY <1>2, <1>5 DEF Owning, Making
  <2> QED
    BY <1>2, <1>5, <2>1, <2>2, BeginningAccounted
<1>6. CASE DeleteReturns(r) /\ UNCHANGED <<ensure, phase>>
  <2>1. /\ UNCHANGED <<uses, next, pending, ensure, phase>>
        /\ held' = held \ Fields(r)
        /\ exists' \in {exists, exists \ {r}}
        /\ r \in exists' => Users(r) # {} \/ r \in tainted'
        /\ tainted \subseteq tainted'
    BY <1>6, ReturnsRemoves
  <2>2. PendingIsTainted' /\ CleanWhileMade' /\ PassedIsForgotten'
        /\ WithForce' /\ LeaksAreExplained'
    BY <1>2, <2>1 DEF Base, LeakInv, PendingIsTainted, CleanWhileMade,
      PassedIsForgotten, WithForce, LeaksAreExplained
  <2>3. RulesAreEnsured'
    BY <2>1 DEF Base, LeakInv, RulesAreEnsured
  <2>4. ASSUME NEW x \in held, x # r PROVE x \in held'
    <3>1. ~(r \in Proxies /\ x \in Proxies)
      BY <1>2, <2>4, OneProxy
      DEF Proxies, Base, ChainInv, HeldIsCreated, TypeOK
    <3> QED
      BY <1>2, <2>1, <2>4, <3>1, FieldsFacts
  <2>5. RulesAreKnown'
    <3> SUFFICES ASSUME NEW x \in Firewall, x \in exists',
                        x \notin Suite.foreign,
                        x \notin tainted'
                 PROVE  x \in held' /\ ensure
      BY <1>2, <2>1 DEF RulesAreKnown, Owned
    <3>1. x \in held /\ ensure
      BY <1>2, <2>1 DEF Base, LeakInv, RulesAreKnown, Owned, Owning, Making
    <3>2. x # r
      BY <2>1, RulesAreUnused DEF Base, ChainInv
    <3> QED
      BY <2>4, <3>1, <3>2
  <2>6. WithoutForce'
    <3> SUFFICES ASSUME ~force, NEW x \in exists', x \notin Suite.foreign
                 PROVE  Excused(x)' \/ Stuck(x)' \/ x \in held'
      BY <1>2, <2>1 DEF WithoutForce, Owned
    <3>1. Excused(x) \/ Stuck(x) \/ x \in held
      BY <1>2, <2>1 DEF Base, LeakInv, WithoutForce, Owned, Making
    <3>2. Excused(x) => Excused(x)'
      BY <2>1 DEF Excused, ForgottenFirst
    <3>3. Stuck(x) => Stuck(x)'
      BY <1>4, <1>6, ReturnsKeepsStuck
    <3>4. CASE x = r
      <4>1. CASE r \in tainted'
        BY <3>4, <4>1 DEF Excused
      <4>2. CASE r \notin tainted'
        <5>1. PICK u \in exists : r \in uses[u]
          BY <2>1, <3>4, <4>2 DEF Users
        <5>2. u \in Resource /\ r \in MayReferTo(u)
          BY <5>1 DEF Base, TypeOK, ChainInv, References
        <5>3. u \in Creatable /\ u # r
          BY <5>1, <5>2, UsersFirst, SuiteFacts DEF Base, Known, TypeOK
        <5>4. u \notin held /\ u \in exists'
          BY <1>3, <2>1, <5>1, <5>2, <5>3, RememberedIsHeld DEF Base
        <5> QED
          BY <2>1, <3>4, <5>1, <5>4 DEF Stuck
      <4> QED
        BY <4>1, <4>2
    <3>5. CASE x # r
      BY <2>4, <3>1, <3>2, <3>3, <3>5
    <3> QED
      BY <3>4, <3>5
  <2> QED
    BY <2>2, <2>3, <2>5, <2>6 DEF LeakInv
<1> QED
  BY <1>1, <1>5, <1>6 DEF r

\* A step of the test's cleanup forgets its resource, but for the alternative
\* url map.
LEMMA StepForgets ==
  ASSUME Base, phase = "clean", step <= Len(Order),
         LET r == Order[step]
         IN  IF Deletes(r) THEN DeleteReturns(r)
             ELSE UNCHANGED <<exists, uses, next, held, history, refused>>
  PROVE  LET r == Order[step]
         IN  /\ r \in held' => r = "umAlt"
             /\ r \in held => Deletes(r)
             /\ \A x \in held :
                  x # r /\ ToCome(x) /\ (force => x \in Firewall) => x \in held'
             /\ held' \subseteq held
<1> DEFINE r == Order[step]
<1>0. step \in 1..Len(Order) /\ Len(Order) \in Nat /\ Sorted(Order)
  BY OrderFacts DEF Base, TypeOK, Cleaning
<1>1. r \in held => Remembers(r)
  BY DEF Remembers, Proxies
<1>2. r \in held => Deletes(r)
  <2>1. r \in held /\ r \in Firewall => ensure
    BY DEF Base, LeakInv, RulesAreEnsured, Owning
  <2> QED
    BY <1>1, <2>1 DEF Deletes
<1> HIDE DEF r
<1>3. CASE ~Deletes(r)
  BY <1>2, <1>3 DEF r
<1>4. CASE Deletes(r)
  <2>1. held' = held \ Fields(r)
    BY <1>4, ReturnsRemoves DEF r
  <2>2. r # "umAlt" => r \in Fields(r)
    BY DEF Fields
  <2>3. ASSUME NEW x \in held, x # r, ToCome(x), force => x \in Firewall
        PROVE  x \in held'
    <3>1. ~(r = "umAlt" /\ x = "um")
      BY <2>3, LowerIsPassed DEF Level, Backends, r, Base
    <3>2. ASSUME r \in Proxies, x \in Proxies PROVE FALSE
      <4>1. x \in Creatable
        BY DEF Base, ChainInv, HeldIsCreated
      <4>2. r \notin Creatable
        BY <2>3, <3>2, <4>1, OneProxy DEF Proxies, Base, TypeOK
      <4>3. r = "tpGrpc" => x = "tpHttp"
        BY <2>3, <3>2 DEF Proxies
      <4>4. r # "tpGrpc"
        BY <2>3, <4>3, LowerIsPassed DEF Level, Backends, r, Base
      <4>5. r = "tpHttp" /\ ~Remembers(r)
        BY <3>2, <4>2, <4>4
        DEF Proxies, Base, ChainInv, HeldIsCreated, Remembers
      <4>6. ~force
        BY Zenon, <2>3, <3>2 DEF Proxies, Firewall
      <4> QED
        BY <1>4, <4>5, <4>6 DEF Deletes
    <3> QED
      BY <2>1, <2>3, <3>1, <3>2, FieldsFacts
  <2> QED
    BY <1>2, <2>1, <2>2, <2>3 DEF r
<1> QED
  BY <1>3, <1>4

\* A step of the test's cleanup.
LEMMA StepAccounted ==
  ASSUME Base, ChainInv', phase = "clean", step <= Len(Order), UNCHANGED suite,
         UNCHANGED <<force, phase>>, step' = step + 1,
         LET r == Order[step]
         IN  /\ IF Deletes(r) THEN DeleteReturns(r)
                ELSE UNCHANGED <<exists, uses, next, held, history, refused>>
             /\ ensure' = (ensure /\ r # "fw6")
  PROVE  LeakInv'
<1> DEFINE r == Order[step]
<1>0. /\ step \in 1..Len(Order) /\ Len(Order) \in Nat
      /\ Order' = Order /\ Suite' = Suite
  BY OrderFacts DEF Base, TypeOK, Cleaning, Order, Suite
<1>1. /\ r \in held' => r = "umAlt"
      /\ r \in held => Deletes(r)
      /\ \A x \in held :
           x # r /\ ToCome(x) /\ (force => x \in Firewall) => x \in held'
      /\ held' \subseteq held
  BY StepForgets
<1>2. \A x : ToCome(x)' => ToCome(x)
  BY <1>0 DEF ToCome
<1>3. \A x : ToCome(x) /\ x # r => ToCome(x)'
  BY <1>0 DEF ToCome
<1>l. ASSUME NEW u, Level(u) < Level(r) PROVE ~ToCome(u)
  BY <1>l, LowerIsPassed DEF Base
<1>e. /\ r # "fw6" => ensure' = ensure
      /\ r = "fw6" => ~ensure'
  <2>1. ensure' = (ensure /\ r # "fw6") /\ ensure \in BOOLEAN
    BY Zenon DEF Base, TypeOK
  <2>2. ASSUME r # "fw6" PROVE ensure' = ensure
    BY <2>1, <2>2
  <2>3. ASSUME r = "fw6" PROVE ~ensure'
    BY <2>1, <2>3
  <2> QED
    BY Zenon, <2>2, <2>3
<1>4. /\ UNCHANGED <<uses, next, pending>>
      /\ tainted \subseteq tainted' /\ exists' \subseteq exists
      /\ \A x \in exists \ exists' : x = r /\ Users(x) = {}
      /\ Deletes(r) /\ r \in exists' => Users(r) # {} \/ r \in tainted'
      /\ Deletes(r) => DeleteReturns(r)
      /\ ~Deletes(r) => exists' = exists
  <2>1. CASE Deletes(r)
    BY <2>1, ReturnsRemoves
  <2>2. CASE ~Deletes(r)
    BY <2>2 DEF history
  <2> QED
    BY <2>1, <2>2
<1> HIDE DEF r
<1>5. PendingIsTainted' /\ CleanWhileMade' /\ LeaksAreExplained'
  BY <1>4 DEF Base, LeakInv, PendingIsTainted, CleanWhileMade,
    LeaksAreExplained, Making
<1>6. PassedIsForgotten'
  BY <1>1, <1>3 DEF Base, LeakInv, PassedIsForgotten
<1>7. RulesAreEnsured'
  <2> SUFFICES ASSUME NEW x \in held' \cap Firewall PROVE ensure'
    BY DEF RulesAreEnsured
  <2>1. x \in held /\ x # r
    BY <1>1 DEF Firewall
  <2>2. ToCome(x)
    BY <2>1 DEF Base, LeakInv, PassedIsForgotten, Firewall
  <2>3. ensure
    BY <2>1 DEF Base, LeakInv, RulesAreEnsured, Owning
  <2>4. r # "fw6"
    <3> SUFFICES ASSUME r = "fw6" PROVE FALSE
      OBVIOUS
    <3>1. x = "fw"
      BY <2>1 DEF Firewall
    <3>2. Level("fw") < Level("fw6")
      BY DEF Level, Backends
    <3> QED
      BY <1>l, <2>2, <3>1, <3>2
  <2> QED
    BY <1>e, <2>3, <2>4
<1>8. RulesAreKnown'
  <2> SUFFICES ASSUME NEW x \in Firewall, x \in exists', x \notin Suite.foreign,
                      x \notin tainted'
               PROVE  x \in held' /\ ensure' /\ ToCome(x)'
    BY <1>0 DEF RulesAreKnown, Owned
  <2>1. x \in held /\ ensure /\ ToCome(x)
    BY <1>4 DEF Base, LeakInv, RulesAreKnown, Owned, Owning
  <2>2. x # r
    BY <1>1, <1>4, <2>1, RulesAreUnused DEF Base, ChainInv
  <2>3. x \in held'
    BY <1>1, <2>1, <2>2
  <2>4. ensure'
    BY <1>7, <2>3 DEF RulesAreEnsured, Owning
  <2> QED
    BY <1>3, <2>1, <2>2, <2>3, <2>4
<1>9. ASSUME NEW u \in exists, r \in uses[u]
      PROVE  ~ToCome(u) /\ u # r /\ u \in Owned
  <2>1. u \in Resource /\ r \in MayReferTo(u)
    BY <1>9 DEF Base, TypeOK, ChainInv, References
  <2>2. Level(u) < Level(r) /\ u # r /\ u \notin Firewall
    BY <2>1, UsersFirst
  <2> QED
    BY <1>l, <2>2, SuiteFacts DEF Base, TypeOK, Owned
<1>10. WithoutForce'
  <2> SUFFICES ASSUME ~force, NEW x \in exists', x \notin Suite.foreign
               PROVE  Excused(x)' \/ Stuck(x)' \/ (x \in held' /\ ToCome(x)')
    BY <1>0 DEF WithoutForce, Owned
  <2>1. \A y \in Owned : Excused(y) \/ Stuck(y) \/ (y \in held /\ ToCome(y))
    BY DEF Base, LeakInv, WithoutForce
  <2>2. \A y : Excused(y) => Excused(y)'
    BY <1>4 DEF Excused, ForgottenFirst
  <2>3. ASSUME NEW y, Stuck(y) PROVE Stuck(y)'
    <3>1. CASE Deletes(r)
      <4>1. Remembers(r)
        BY <3>1 DEF Deletes
      <4> QED
        BY <1>4, <2>3, <3>1, <4>1, ReturnsKeepsStuck
    <3>2. CASE ~Deletes(r)
      <4>1. exists' = exists /\ uses' = uses /\ held' \subseteq held
        BY <1>1, <1>4, <3>2
      <4> QED
        BY <2>3, <4>1, StuckStays
    <3> QED
      BY <3>1, <3>2
  <2>4. x \in Owned
    BY <1>4 DEF Owned
  <2>5. CASE x # r \/ x \notin held
    BY <1>1, <1>3, <2>1, <2>2, <2>3, <2>4, <2>5
  <2>6. CASE x = r /\ x \in held /\ x \notin tainted'
    <3>1. PICK u \in exists : r \in uses[u]
      BY <1>1, <1>4, <2>6 DEF Users
    <3>2. ~ToCome(u) /\ u # r /\ u \in Owned
      BY <1>9, <3>1
    <3>3. CASE u \notin held
      <4>1. Stuck(x)
        BY <2>6, <3>1, <3>3 DEF Stuck
      <4> QED
        BY <2>3, <4>1
    <3>4. CASE u \in held
      <4>1. u = "umAlt"
        BY <3>2, <3>4 DEF Base, LeakInv, PassedIsForgotten
      <4>2. u \notin uses["umAlt"]
        <5>1. "umAlt" \in Resource
          BY DEF Resource, Routing
        <5> QED
          BY <4>1, <5>1, UsersFirst DEF Base, ChainInv, References
      <4>3. Excused(u) \/ Stuck(u)
        BY <2>1, <3>2
      <4>4. CASE Excused(u)
        <5>1. Excused(x)
          BY <2>6, <3>1, <4>1, <4>2, <4>4 DEF Excused, ForgottenFirst
        <5> QED
          BY <2>2, <5>1
      <4>5. CASE Stuck(u)
        <5>1. PICK v \in exists :
                /\ u \in uses[v]
                /\ v \notin held \/ v = "umAlt"
          BY <4>5 DEF Stuck
        <5>2. v \in exists \ held
          BY <4>2, <5>1
        <5>3. Stuck(x)
          BY <2>6, <3>1, <4>1, <5>1, <5>2 DEF Stuck
        <5> QED
          BY <2>3, <5>3
      <4> QED
        BY <4>3, <4>4, <4>5
    <3> QED
      BY <3>3, <3>4
  <2>7. CASE x \in tainted'
    BY <2>7 DEF Excused
  <2> QED
    BY <2>5, <2>6, <2>7
<1>11. WithForce'
  <2> SUFFICES ASSUME force, NEW x \in exists', x \notin Suite.foreign
               PROVE  \/ Excused(x)' \/ ToCome(x)'
                      \/ \E u \in exists' : x \in uses[u] /\ ~ToCome(u)'
    BY <1>0, <1>4 DEF WithForce, Owned
  <2>1. \/ Excused(x) \/ ToCome(x)
        \/ \E u \in exists : x \in uses[u] /\ ~ToCome(u)
    BY <1>4 DEF Base, LeakInv, WithForce, Owned
  <2>2. Excused(x) => Excused(x)'
    BY <1>4 DEF Excused, ForgottenFirst
  <2>3. ASSUME NEW u \in exists, x \in uses[u], ~ToCome(u)
        PROVE  u \in exists' /\ ~ToCome(u)'
    <3>1. u # r
      BY <1>0, <2>3 DEF ToCome, r
    <3> QED
      BY <1>2, <1>4, <2>3, <3>1
  <2>4. CASE x # r
    BY <1>3, <2>1, <2>2, <2>3, <2>4
  <2>5. CASE x = r
    <3>1. Deletes(r) \/ x \in tainted
      <4>1. x \in Firewall => x \in tainted \/ ensure
        BY <1>4 DEF Base, LeakInv, RulesAreKnown, Owned, Owning
      <4> QED
        BY <2>5, <4>1 DEF Deletes
    <3>2. CASE x \in tainted'
      BY <3>2 DEF Excused
    <3>3. CASE x \notin tainted'
      <4>1. PICK u \in exists : r \in uses[u]
        BY <1>4, <2>5, <3>1, <3>3 DEF Users
      <4> QED
        BY <1>9, <2>3, <2>5, <4>1
    <3> QED
      BY <3>2, <3>3
  <2> QED
    BY <2>4, <2>5
<1> QED
  BY <1>5, <1>6, <1>7, <1>8, <1>10, <1>11 DEF LeakInv

\* Steps of either cleanup.
LEMMA CleanupAccounted ==
  ASSUME Base, Known', ChainInv', UNCHANGED suite, CleanupStep
  PROVE  LeakInv'
<1> DEFINE r == Order[step]
<1>1. /\ UNCHANGED force /\ phase \in Cleaning /\ step <= Len(Order)
      /\ \/ /\ IF Deletes(r) THEN DeleteReturns(r)
               ELSE UNCHANGED <<exists, uses, next, held, history, refused>>
            /\ ensure' = (ensure /\ r # "fw6")
            /\ step' = step + 1
            /\ UNCHANGED phase
         \/ Deletes(r) /\ DeleteRaises(r) /\ AttemptFails
  BY Zenon DEF CleanupStep
<1>2. CASE Deletes(r) /\ DeleteRaises(r) /\ AttemptFails
  <2>1. /\ UNCHANGED <<uses, next, held, ensure, pending, tainted>>
        /\ exists' \subseteq exists
        /\ \A x \in exists \ exists' : x = r /\ Users(x) = {}
    BY <1>2, RaisesRemoves
  <2>2. ASSUME NEW x \in exists \ exists' PROVE x \in held \/ force
    <3>1. x = r /\ x \in exists
      BY <2>1, <2>2
    <3>2. Remembers(r) \/ force
      BY Zenon, <1>2 DEF Deletes
    <3>3. Remembers(x) => x \in held
      BY <3>1, RememberedIsHeld DEF Base
    <3> QED
      BY Zenon, <3>1, <3>2, <3>3
  <2>3. \A x \in exists \ exists' : Users(x) = {}
    BY <2>1
  <2>4. AttemptFails /\ UNCHANGED force /\ phase \in Cleaning
    BY Zenon, <1>1, <1>2
  <2> HIDE DEF r
  <2> QED
    BY Zenon, <2>1, <2>2, <2>3, <2>4, AttemptAccounted
<1>3. CASE /\ phase = "clean"
           /\ IF Deletes(r) THEN DeleteReturns(r)
              ELSE UNCHANGED <<exists, uses, next, held, history, refused>>
           /\ ensure' = (ensure /\ r # "fw6")
           /\ step' = step + 1
           /\ UNCHANGED phase
  BY Zenon, <1>1, <1>3, StepAccounted
<1>4. CASE /\ phase = "janitor"
           /\ IF Deletes(r) THEN DeleteReturns(r)
              ELSE UNCHANGED <<exists, uses, next, held, history, refused>>
           /\ UNCHANGED phase
  <2>1. UNCHANGED pending /\ tainted \subseteq tainted'
    <3>1. CASE Deletes(r)
      BY <1>4, <3>1, ReturnsRemoves
    <3>2. CASE ~Deletes(r)
      BY <1>4, <3>2 DEF history
    <3> QED
      BY <3>1, <3>2
  <2> QED
    BY <1>4, <2>1, JanitorAccounted
<1>5. phase = "clean" \/ phase = "janitor"
  BY <1>1 DEF Cleaning
<1> QED
  BY Zenon, <1>1, <1>2, <1>3, <1>4, <1>5

\* Any step keeps account of what is left.
LEMMA LeakNext == Base /\ Known' /\ ChainInv' /\ [Next]_vars => LeakInv'
<1> SUFFICES ASSUME Base, Known', ChainInv', [Next]_vars PROVE LeakInv'
  OBVIOUS
<1>1. UNCHANGED suite
  BY DEF Next, vars
<1>2. ASSUME NEW r \in Resource, Create(r) \/ FindFirewall(r) \/ Land(r)
      PROVE  LeakInv'
  BY <1>1, <1>2, CreateAccounted, LandAccounted
<1>3. ASSUME NEW r \in Resource, CreateFails(r) PROVE LeakInv'
  <2>1. MayCreate(r) /\ Unknown(r) /\ UNCHANGED <<suite, step, force>>
    BY <1>1, <1>3 DEF CreateFails
  <2>2. phase' \in {"interrupted", "orphaned", "clean"}
    BY <1>3 DEF CreateFails
  <2> QED
    BY <2>1, <2>2, UnknownAccounted
<1>4. CASE Interrupt
  <2>1. phase' = "interrupted" /\ UNCHANGED <<step, force>> /\ phase \in Owning
    BY <1>4 DEF Interrupt, Owning, Making
  <2>2. ASSUME NEW r \in Creatable, MayCreate(r), Unknown(r) PROVE LeakInv'
    BY <1>1, <2>1, <2>2, SuiteFacts, UnknownAccounted DEF Base, TypeOK
  <2>3. ASSUME UNCHANGED <<tdVars, history, refused>> PROVE LeakInv'
    <3>1. /\ UNCHANGED <<suite, exists, uses, next, held, ensure, pending>>
          /\ UNCHANGED tainted
      BY <1>1, <2>3 DEF tdVars, history
    <3>2. phase' \in Owning /\ phase' \notin Making /\ phase' # "clean"
      BY <2>1 DEF Owning, Making
    <3> QED
      BY <2>1, <3>1, <3>2, BeginningAccounted
  <2> QED
    BY <1>4, <2>2, <2>3 DEF Interrupt
<1>5. CASE setUpEnds \/ TestEnds \/ Abort \/ ForcedTearDown
  BY <1>1, <1>5, PhaseAccounted
<1>6. CASE Sweep
  <2>1. UNCHANGED <<suite, pending, tainted>> /\ phase' = "janitor"
    BY <1>1, <1>6 DEF Sweep, history
  <2> QED
    BY <2>1, JanitorAccounted
<1>7. CASE PassEnds \/ TestDelete \/ CleanupStep
  BY <1>1, <1>7, PassEndsAccounted, TestDeleteAccounted, CleanupAccounted
<1>8. CASE \/ \E b \in Backends : PatchUrlMap(b)
           \/ backend_service_apply_client_mtls_policy
           \/ backend_service_add_cloudrun_backends
  BY <1>1, <1>8, ChangeAccounted
<1>9. CASE UNCHANGED vars
  BY <1>9 DEF vars, tdVars, control, history, Base, LeakInv, PendingIsTainted,
    CleanWhileMade, PassedIsForgotten, RulesAreEnsured, RulesAreKnown,
    WithoutForce, WithForce, LeaksAreExplained, Owned, Excused, Stuck, ToCome,
    Order, Suite, ForgottenFirst, InUse, Users
<1> QED
  BY <1>2, <1>3, <1>4, <1>5, <1>6, <1>7, <1>8, <1>9 DEF Next, Step

\* Nothing of the test is there at first.
LEMMA LeakInit == Init => LeakInv
BY DEF Init, LeakInv, PendingIsTainted, CleanWhileMade, PassedIsForgotten,
  RulesAreEnsured, RulesAreKnown, WithoutForce, WithForce, LeaksAreExplained,
  Owned

\* The order of the cleanup makes no leak of its own (cleanup of
\* TrafficDirectorManager and its subclasses): what is left by a cleanup that
\* came to its end is left by a failed request, in use, or it is the backend
\* service of an alternative url map of which a deletion failed.
THEOREM LeaksAreProved == Spec => []LeaksAreExplained
<1>1. IInv => TypeOK /\ Known /\ StartsAtFirst
  BY DEF IInv
<1>2. Spec => []LeakInv
  BY <1>1, LeakInit, LeakNext, TrafficDirectorInvariant, ChainsAreWhole, PTL
  DEF Spec, Base
<1>3. LeakInv => LeaksAreExplained
  BY DEF LeakInv
<1> QED
  BY <1>2, <1>3, PTL
===============================================================================

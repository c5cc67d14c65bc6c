------------------------------ MODULE Assertions ------------------------------
(***************************************************************************)
(* The assertions of the test cases (framework/xds_k8s_testcase.py) about  *)
(* the traffic and the configuration of one test client, which goes on     *)
(* while it is looked at.                                                  *)
(***************************************************************************)
EXTENDS Retryers, FiniteSets

CONSTANTS
  Pods,         \* pods with a test server
  Deployment,   \* the deployment whose name a pod's name begins with
  Given,        \* the servers a test expects traffic to go to
  NumRpcs,      \* calls asked for in a request for statistics
  MinServers,   \* servers a test expects traffic to go to at least
  StrayLimit,   \* stray_rpc_limit
  Load,         \* the bounds of the calls in flight in steady state
  MaxLive,      \* bound: calls of the client at a time
  MaxEvents,    \* bound: changes of the system while an assertion runs
  NoVersion     \* None, the version of a route that is not there

ASSUME AssertionConstants ==
  /\ Given \subseteq Pods
  /\ NumRpcs \in Nat \ {0} /\ MinServers \in Nat /\ StrayLimit \in Nat
  /\ MaxEvents \in Nat /\ MaxLive \in Nat
  /\ Load \in [firstMin : Nat, secondMin : Nat, max : Nat]

VARIABLES
  kind,       \* which assertion
  events,     \* changes of the system so far
  alive,      \* pods that run
  config,     \* the client's xDS configuration
  stats,      \* the client's counters since it started, calls that live
  window,     \* calls of the current, or last, GetClientStats
  sample,     \* the counters at the first measurement
  done,       \* history: calls that ended since the first measurement
  failures,   \* history: some window of this assertion had a failed call
  restarts    \* of the client; the test fails on any when it ends

worldVars == <<alive, config, stats, restarts>>
measured == <<window, sample, done, failures>>
assertVars == <<kind, events, worldVars, measured>>

WindowKinds == {"SuccessfulRpcs", "FailedRpcs", "MinServers", "GivenServers",
                "Handoff"}
ConfigKinds == {"XdsConfigExists", "RdsConfigUpdated", "CdsLimit",
                "HealthyEndpoints", "DrainingEndpoints"}
StatsKinds  == {"StatusCodes", "StatusCodesWithRetry", "SteadyState"}
AssertionKinds == WindowKinds \cup ConfigKinds \cup StatsKinds

Types == {"listener", "route", "cluster", "endpoint"}
Statuses == {"expected", "stray", "other"}
Counts == [Statuses -> Nat]
Zero == [s \in Statuses |-> 0]
Closed == [rpcs |-> 0, failed |-> 0, peers |-> {}, versions |-> {}]

-------------------------------------------------------------------------------
(* Which errors and values of an attempt are retried *)

AnyError == _build_retry_conditions(Errors, FALSE)

\* Slip: the default of the retryers, all errors.
RetryAll == constant_retryer(AnyError, 0, TRUE)

HandoffRetryer ==
  constant_retryer(_build_retry_conditions({"Retryable"}, FALSE), 0, TRUE)

Retryer ==
  CASE kind \in {"SuccessfulRpcs", "FailedRpcs", "StatusCodes"} -> Once
    [] kind = "StatusCodesWithRetry" ->
         exponential_retryer_with_timeout(
           _build_retry_conditions({"AssertionError"}, FALSE))
    [] kind = "Handoff" -> HandoffRetryer
    [] OTHER -> constant_retryer(AnyError, 0, TRUE)

unmoved == <<kind, events, worldVars>>

Finish(retryer, outcome) == AttemptEnds(retryer, outcome) /\ UNCHANGED unmoved
Goto(next) == pc' = next /\ UNCHANGED <<looks, unmoved>>

Check(holds) == IF holds THEN "accepted" ELSE "AssertionError"

Begins ==
  /\ AttemptBegins(IF kind \in WindowKinds THEN "window"
                   ELSE IF kind \in ConfigKinds THEN "fetch" ELSE "measure")
  /\ window' = Closed
  /\ UNCHANGED <<unmoved, sample, done, failures>>

\* A request to the client, or to the cluster, fails.
RequestFails ==
  /\ pc \in {"window", "again", "fetch", "measure", "second", "pods"}
  /\ Finish(IF pc = "second" /\ kind = "SteadyState" THEN Once ELSE Retryer,
            "RpcError")
  /\ UNCHANGED measured

-------------------------------------------------------------------------------
(* Assertions about the next calls: GetClientStats answers when NumRpcs calls
   have ended, or its time is up: then the calls that are missing count as
   failed. *)

\* Slip: off by one.
OneMore == pc \in {"window", "again"} /\ window.rpcs <= NumRpcs

InWindow == pc \in {"window", "again"} /\ window.rpcs < NumRpcs

RpcSucceeds(p) ==
  /\ InWindow
  /\ p \in alive /\ config.types = Types
  /\ window' = [window EXCEPT !.rpcs = @ + 1, !.peers = @ \cup {p},
                              !.versions = @ \cup {config.version}]
  /\ UNCHANGED <<pc, looks, unmoved, sample, done, failures>>

RpcIsLost ==
  /\ InWindow
  /\ window' = [window EXCEPT !.rpcs = @ + 1, !.failed = @ + 1]
  /\ UNCHANGED <<pc, looks, unmoved, sample, done, failures>>

assertSuccessfulRpcs == window.failed = 0
assertFailedRpcs == window.failed = NumRpcs
assertMinServers ==
  window.failed = 0 /\ Cardinality(window.peers) >= MinServers

\* Slip: any pod that runs and got calls.
AnyReplacement(m) == alive \cap window.peers

\* Pods that are taken for a replacement of pod m: they run, got calls, and
\* have the name of its deployment.
Replacements(m) ==
  {p \in alive \cap window.peers : Deployment[p] = Deployment[m]}

\* The servers that are to have got the calls; of several replacements the
\* one that is listed first.
ExpectedServers ==
  LET missing == Given \ window.peers
      choices == {f \in [missing -> Pods] :
                    /\ \A m \in missing :
                         f[m] \in IF Replacements(m) = {} THEN {m}
                                  ELSE Replacements(m)
                    /\ \A m, n \in missing :
                         Deployment[m] = Deployment[n]
                         /\ Replacements(m) # {} => f[m] = f[n]}
  IN  {(Given \cap window.peers) \cup {f[m] : m \in missing} : f \in choices}

WindowDone(at) ==
  /\ pc = at /\ window.rpcs = NumRpcs
  /\ failures' = (failures \/ window.failed > 0)
  /\ UNCHANGED <<sample, done>>

CloseWindow ==
  /\ WindowDone("window")
  /\ UNCHANGED window
  /\ \/ kind = "SuccessfulRpcs" /\ Finish(Retryer, Check(assertSuccessfulRpcs))
     \/ kind = "FailedRpcs"     /\ Finish(Retryer, Check(assertFailedRpcs))
     \/ kind = "MinServers"     /\ Finish(Retryer, Check(assertMinServers))
     \/ /\ kind = "GivenServers"
        /\ IF Given \subseteq window.peers
           THEN Finish(Retryer, Check(assertSuccessfulRpcs
                                      /\ window.peers = Given))
           ELSE Goto("pods")
     \/ /\ kind = "Handoff"
        /\ IF assertSuccessfulRpcs THEN Goto("fetch")
                                   ELSE Finish(Retryer, "AssertionError")

\* Some given server got no call: list_deployment_pods, and compare.
CompareWithPods ==
  /\ pc = "pods"
  /\ \E hosts \in ExpectedServers :
       Finish(Retryer, Check(assertSuccessfulRpcs /\ window.peers = hosts))
  /\ UNCHANGED measured

-------------------------------------------------------------------------------
(* Assertions about the configuration *)

\* DumpedXdsConfig.rds_version; the version of no route is None.
rds_version == IF "route" \in config.types THEN config.version ELSE NoVersion

\* Version 0 is the one before the test changed the route or the cluster.
ConfigOutcome ==
  CASE kind = "XdsConfigExists"   -> Check(config.types = Types)
    [] kind = "HealthyEndpoints"  -> Check(config.healthy = 1)
    [] kind = "DrainingEndpoints" -> Check(config.draining = 1)
    [] kind = "RdsConfigUpdated"  ->
         IF "route" \in config.types /\ config.version > 0
         THEN "accepted" ELSE "rejected"
    [] kind = "CdsLimit" ->
         IF "cluster" \in config.types /\ config.version > 0
         THEN "accepted" ELSE "rejected"

FetchConfig ==
  /\ pc = "fetch" /\ kind \in ConfigKinds
  /\ Finish(Retryer, ConfigOutcome)
  /\ UNCHANGED measured

\* The client answers with no configuration, or with several.
NoConfig ==
  /\ pc = "fetch"
  /\ Finish(Retryer, IF kind \in {"RdsConfigUpdated", "CdsLimit"}
                     THEN "rejected" ELSE "AssertionError")
  /\ UNCHANGED measured

\* assertRouteConfigUpdateTrafficHandoff: is there a new route?
CompareVersions ==
  /\ pc = "fetch" /\ kind = "Handoff"
  /\ IF rds_version = 0
     THEN Finish(Retryer, "Retryable") /\ UNCHANGED window
     ELSE Goto("again") /\ window' = Closed
  /\ UNCHANGED <<sample, done, failures>>

CloseSecondWindow ==
  /\ WindowDone("again")
  /\ Finish(Retryer, Check(assertSuccessfulRpcs))
  /\ UNCHANGED window

-------------------------------------------------------------------------------
(* Assertions about the counters of the client *)

Started(st) == st.live + st.ended["expected"] + st.ended["stray"]
                       + st.ended["other"]

\* Slip: the first measurement of the first attempt is kept.
MeasureOnce ==
  /\ pc = "measure"
  /\ sample' = IF looks = 1 THEN stats ELSE sample
  /\ done' = Zero
  /\ IF kind = "SteadyState" /\ stats.live \notin Load.firstMin..Load.max
     THEN Finish(Retryer, "AssertionError")
     ELSE Goto("second")
  /\ UNCHANGED <<window, failures>>

\* assertRpcStatusCodes, _checkRpcsInFlight: the first measurement.
Measure ==
  /\ pc = "measure"
  /\ sample' = stats
  /\ done' = Zero
  /\ IF kind = "SteadyState" /\ stats.live \notin Load.firstMin..Load.max
     THEN Finish(Retryer, "AssertionError")
     ELSE Goto("second")
  /\ UNCHANGED <<window, failures>>

\* diffAccumulatedStatsPerMethod goes by the statuses of the second one.
Diffable ==
  /\ \A s \in Statuses : stats.ended[s] > 0 => stats.ended[s] >= sample.ended[s]
  /\ Started(stats) >= Started(sample)

Diff(s) == IF stats.ended[s] = 0 THEN 0 ELSE stats.ended[s] - sample.ended[s]

assertRpcStatusCodes ==
  /\ Diffable
  /\ Diff("expected") > 0
  /\ \A s \in Statuses \ {"expected"} : Diff(s) <= StrayLimit

MeasureAgain ==
  /\ pc = "second"
  /\ IF kind = "SteadyState"
     THEN Finish(Once, Check(stats.live \in Load.secondMin..Load.max))
     ELSE Finish(Retryer, Check(assertRpcStatusCodes))
  /\ UNCHANGED measured

-------------------------------------------------------------------------------
(* The client, its servers and the control plane *)

Move ==
  /\ pc \notin Ends \cup {"look"} \/ (pc = "look" /\ looks > 0)
  /\ events < MaxEvents /\ events' = events + 1
  /\ UNCHANGED <<pc, looks, kind, window, sample, failures>>

\* A pod is evicted; its deployment starts another one.
PodChanges(p, q) ==
  /\ kind = "GivenServers"
  /\ p \in alive /\ q \notin alive /\ Deployment[p] = Deployment[q]
  /\ alive' = (alive \ {p}) \cup {q}
  /\ Move /\ UNCHANGED <<config, stats, done, restarts>>

ConfigChanges ==
  /\ \/ /\ kind \in {"XdsConfigExists", "RdsConfigUpdated"}
        /\ \E t \in Types \ config.types :
             config' = [config EXCEPT !.types = @ \cup {t}]
     \/ /\ kind \in {"Handoff", "RdsConfigUpdated", "CdsLimit"}
        /\ config.version = 0
        /\ config' = [config EXCEPT !.version = 1]
     \/ /\ kind \in {"HealthyEndpoints", "DrainingEndpoints"}
        /\ \E h, d \in 0..2 :
             config' = [config EXCEPT !.healthy = h, !.draining = d]
  /\ Move /\ UNCHANGED <<alive, stats, done, restarts>>

StatsMove ==
  kind \in StatsKinds /\ Move /\ UNCHANGED <<alive, config, restarts>>

ClientCalls ==
  /\ stats.live < MaxLive
  /\ stats' = [stats EXCEPT !.live = @ + 1]
  /\ StatsMove /\ UNCHANGED done

ClientCallEnds(s) ==
  /\ stats.live > 0
  /\ stats' = [stats EXCEPT !.live = @ - 1, !.ended[s] = @ + 1]
  /\ done' = [done EXCEPT ![s] = @ + 1]
  /\ StatsMove

\* Its counters and its configuration are gone; the test fails at its end.
ClientRestarts ==
  /\ kind \in StatsKinds \cup {"Handoff"}
  /\ restarts = 0 /\ restarts' = 1
  /\ stats' = [live |-> 0, ended |-> Zero]
  /\ config' = [config EXCEPT !.types = {}]
  /\ Move /\ UNCHANGED <<alive, done>>

ClientRecovers ==
  /\ kind = "Handoff" /\ config.types = {}
  /\ config' = [config EXCEPT !.types = Types]
  /\ Move /\ UNCHANGED <<alive, stats, done, restarts>>

-------------------------------------------------------------------------------
\* Assertion k, about to begin.
AssertionInit(k) ==
  /\ kind = k /\ events = 0
  /\ \E ps \in SUBSET Pods :
       alive = IF k = "GivenServers" THEN ps \cup Given ELSE Pods
  /\ config \in [types : IF k \in {"XdsConfigExists", "RdsConfigUpdated"}
                         THEN {Types, {}} ELSE {Types},
                 version : {0}, healthy : {0}, draining : {0}]
  /\ stats = [live |-> 0, ended |-> Zero]
  /\ window = Closed
  /\ sample = stats
  /\ done = Zero
  /\ failures = FALSE
  /\ restarts = 0

AssertionStep ==
  \/ Begins \/ RequestFails
  \/ RpcIsLost \/ CloseWindow \/ CompareWithPods
  \/ FetchConfig \/ NoConfig \/ CompareVersions \/ CloseSecondWindow
  \/ Measure \/ MeasureAgain

WorldStep ==
  \/ \E p \in Pods : RpcSucceeds(p)
  \/ \E p, q \in Pods : PodChanges(p, q)
  \/ ConfigChanges
  \/ ClientCalls \/ (\E s \in Statuses : ClientCallEnds(s))
  \/ ClientRestarts \/ ClientRecovers

-------------------------------------------------------------------------------
(* Properties *)

AssertionTypeOK ==
  /\ pc \in {"look", "window", "again", "pods", "fetch", "measure", "second"}
            \cup Ends
  /\ kind \in AssertionKinds /\ events \in 0..MaxEvents
  /\ alive \subseteq Pods
  /\ config.types \subseteq Types
  /\ {stats.ended, sample.ended, done} \subseteq [Statuses -> 0..MaxEvents]
  /\ window.rpcs \in 0..NumRpcs /\ window.failed \in 0..window.rpcs
  /\ window.peers \subseteq Pods
  /\ stats.live \in 0..MaxLive
  /\ failures \in BOOLEAN /\ restarts \in 0..1

Passed(kinds) == pc = "passed" /\ kind \in kinds

\* A new route that has passed the handoff took over without a gap: no call of
\* any window, from the first look on, failed, and those of the last one were
\* routed by the new configuration only (api_listener_test.py:120).  A client
\* that restarted is found out when the test ends.
HandoffIsSeamless ==
  Passed({"Handoff"}) /\ restarts = 0 =>
    ~failures /\ window.versions = {1}

\* Between the two measurements of a passed assertion about statuses, calls
\* ended with the expected status, and with each other one at most as often as
\* strays are allowed: the difference of counters that are cumulative, that of
\* the attempt that passed and of no earlier one.
StatusesAreHonest ==
  Passed({"StatusCodes", "StatusCodesWithRetry"}) /\ restarts = 0 =>
    /\ done["expected"] > 0
    /\ \A s \in Statuses \ {"expected"} : done[s] <= StrayLimit

\* Traffic that was seen to go to the given servers went to no deployment
\* of which there is no given server, although a pod may have been replaced.
OnlyGivenDeployments ==
  Passed({"GivenServers"}) =>
    /\ window.failed = 0
    /\ \A p \in window.peers : \E g \in Given : Deployment[p] = Deployment[g]

\* "Waiting for RDS update to cluster" (xds_k8s_testcase.py:756): a wait for a
\* new route or cluster that has passed has seen it.
UpdateWasSeen ==
  Passed({"RdsConfigUpdated", "CdsLimit"}) => config.version > 0
===============================================================================

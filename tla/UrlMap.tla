-------------------------------- MODULE UrlMap --------------------------------
(***************************************************************************)
(* The url-map tests, framework/xds_url_map_testcase.py and                *)
(* framework/xds_url_map_test_resources.py.  All test classes of a process *)
(* share one set of resources: the class that starts first creates them,   *)
(* with a route for each class, and the class that finishes last removes   *)
(* them.  Which one is last is told from the names of the classes.         *)
(*                                                                         *)
(* Any request may fail, at any time.                                      *)
(***************************************************************************)
EXTENDS Naturals, Sequences, FiniteSets

CONSTANT Order    \* the names of the test classes, in the order they run

Classes == DOMAIN Order
Names == {Order[c] : c \in Classes}

\* The class that runs last shares its name with no other one.  (Two classes
\* of the repository are called TestRegexMatch; neither is the last.)
ASSUME OrderConstant ==
  /\ Order \in Seq(STRING) /\ Len(Order) > 0
  /\ \A c \in Classes : Order[c] = Order[Len(Order)] => c = Len(Order)

VARIABLES
  strategy,    \* the flag
  runs,        \* classes that are not skipped
  pc, cur,     \* where the process is, in which class
  at,          \* the step of setup, or of cleanup
  attempts,    \* of _cleanup
  started, finished,       \* started_test_cases, finished_test_cases
  parts, hosts,            \* resources of Traffic Director; hosts of the map
  namespace, servers,      \* the shared namespace, test servers in it
  requested,   \* server runners with time_start_requested, not time_stopped
  holds,       \* test_server_runner.namespace
  clients,     \* test clients, with their namespaces
  runners,     \* classes with a test_client_runner
  errors,      \* classes with an error
  restarted,   \* history: classes whose client restarted
  uncounted,   \* history: classes whose restarts could not be counted
  gaveUp,      \* history: a cleanup after tests was given up, or swallowed an
               \* error
  stuck        \* history: a class whose setup failed after a server's start

suiteVars == <<strategy, runs>>
processVars == <<pc, cur, at, attempts>>
nameVars == <<started, finished>>
sharedVars == <<parts, hosts, namespace, servers, requested, holds>>
clientVars == <<clients, runners>>
historyVars == <<errors, restarted, uncounted, gaveUp, stuck>>
vars == <<suiteVars, processVars, nameVars, sharedVars, clientVars,
          historyVars>>

Strategies == {"create", "keep", "reuse"}
Parts == {"services", "map", "proxy", "rule", "endpoints"}
Servers == {"default", "alternative", "affinity"}

Setup == <<"td.cleanup", "delete_namespace", "services", "map", "proxy",
           "rule", "default", "alternative", "affinity", "endpoints",
           "healthy">>
Cleanup == <<"client", "td.cleanup", "default", "alternative", "affinity">>
Attempts == 3

\* Debris, or the resources of a kept run.
Init ==
  /\ strategy \in Strategies
  /\ runs \in SUBSET Classes
  /\ pc = "next" /\ cur = 0 /\ at = 1 /\ attempts = 0
  /\ started = {} /\ finished = {}
  /\ parts \in {{}, {"services"}, Parts}
  /\ hosts = IF parts = Parts THEN Classes ELSE {}
  /\ namespace \in BOOLEAN
  /\ servers \in {{}, IF namespace THEN Servers ELSE {}}
  /\ requested = {} /\ holds = FALSE
  /\ clients = {} /\ runners = {}
  /\ errors = {} /\ restarted = {} /\ uncounted = {}
  /\ gaveUp = FALSE /\ stuck = 0

-------------------------------------------------------------------------------
(* setUpClass *)

\* Slip: a class counts as started before the setup.
CountsFirst ==
  /\ pc = "next" /\ cur < Len(Order)
  /\ cur' = cur + 1 /\ at' = 1 /\ attempts' = 0
  /\ IF cur' \in runs
     THEN /\ pc' = IF started = {} /\ strategy # "reuse" THEN "setup"
                   ELSE "started"
          /\ started' = started \cup {Order[cur']}
     ELSE pc' = "next" /\ UNCHANGED started
  /\ UNCHANGED <<suiteVars, finished, sharedVars, clientVars, historyVars>>

\* A class that is skipped, by its decorator or by is_supported, registers no
\* cleanup.
setUpClass ==
  /\ pc = "next" /\ cur < Len(Order)
  /\ cur' = cur + 1 /\ at' = 1 /\ attempts' = 0
  /\ pc' = IF cur' \notin runs THEN "next"
           ELSE IF started = {} /\ strategy # "reuse" THEN "setup"
           ELSE "started"
  /\ UNCHANGED <<suiteVars, nameVars, sharedVars, clientVars, historyVars>>

\* The setup goes on: the step is done.
SetupGoesOn ==
  /\ IF at < Len(Setup) THEN at' = at + 1 /\ UNCHANGED pc
     ELSE pc' = "started" /\ at' = 1
  /\ UNCHANGED <<cur, attempts, errors, stuck>>

\* It raises, after the start of some servers was requested: the class fails,
\* and its cleanup is next.
SetupRaises(startsRequested) ==
  /\ pc' = "count" /\ at' = 1
  /\ errors' = errors \cup {cur}
  /\ stuck' = IF startsRequested # {} /\ stuck = 0 THEN cur ELSE stuck
  /\ UNCHANGED <<cur, attempts>>

Setting(step) == pc = "setup" /\ Setup[at] = step

\* What td.cleanup, which removes them from the rule on, leaves when one of its
\* requests fails: what is in use is not removed either.
LeftParts ==
  {parts, parts \ {"rule"}, parts \ {"rule", "proxy"},
   parts \ {"rule", "proxy", "map"}}

Leaves(left) ==
  /\ left \in LeftParts
  /\ parts' = left
  /\ hosts' = IF "map" \in left THEN hosts ELSE {}

\* _pre_cleanup: td.cleanup removes all, or it returns although the service
\* refused a deletion (an HttpError is logged), or it raises.
PreCleanup ==
  /\ Setting("td.cleanup")
  /\ \/ parts' = {} /\ hosts' = {} /\ SetupGoesOn
     \/ \E left \in LeftParts :
          Leaves(left) /\ (SetupGoesOn \/ SetupRaises(requested))
  /\ UNCHANGED <<namespace, servers, requested, holds, gaveUp>>

\* _pre_cleanup: test_server_runner.delete_namespace; a RetryError of the
\* deletion is swallowed.
DeleteNamespace ==
  /\ Setting("delete_namespace")
  /\ \/ namespace' = FALSE /\ servers' = {} /\ SetupGoesOn
     \/ /\ (namespace /\ SetupGoesOn) \/ SetupRaises(requested)
        /\ UNCHANGED <<namespace, servers>>
  /\ UNCHANGED <<parts, hosts, requested, holds, gaveUp>>

\* The resources of Traffic Director; the map has a host for each class.  What
\* is there already is a conflict.
CreatePart(part) ==
  /\ Setting(part)
  /\ \/ part \notin parts /\ parts' = parts \cup {part} /\ SetupGoesOn
     \/ (parts' = parts \cup {part} \/ UNCHANGED parts)
        /\ SetupRaises(requested)
  /\ hosts' = IF part = "map" /\ parts' # parts THEN Classes ELSE hosts
  /\ UNCHANGED <<namespace, servers, requested, holds, gaveUp>>

\* Slip: a runner may be started twice.
MayRun(r) == TRUE

\* KubernetesBaseRunner.run: "start has already been requested"
CanRun(r) == r \notin requested

RunServer(r) ==
  /\ Setting(r)
  /\ IF ~CanRun(r)
     THEN /\ SetupRaises(requested)
          /\ UNCHANGED <<namespace, servers, requested, holds>>
     ELSE /\ requested' = requested \cup {r}
          /\ \/ /\ namespace = (r # "default")
                /\ namespace' = TRUE
                /\ holds' = (holds \/ r = "default")
                /\ servers' = servers \cup {r}
                /\ SetupGoesOn
             \/ /\ \/ UNCHANGED <<namespace, holds, servers>>
                   \/ /\ r = "default" /\ ~namespace
                      /\ namespace' = TRUE /\ holds' = TRUE
                      /\ UNCHANGED servers
                   \/ /\ namespace = (r # "default")
                      /\ namespace' = TRUE
                      /\ holds' = (holds \/ r = "default")
                      /\ servers' = servers \cup {r}
                /\ SetupRaises(requested')
  /\ UNCHANGED <<parts, hosts, gaveUp>>

WaitHealthy ==
  /\ Setting("healthy")
  /\ SetupGoesOn \/ SetupRaises(requested)
  /\ UNCHANGED <<sharedVars, gaveUp>>

SetupStep ==
  /\ PreCleanup \/ DeleteNamespace \/ WaitHealthy
     \/ (\E part \in Parts : CreatePart(part))
     \/ (\E r \in Servers : RunServer(r))
  /\ UNCHANGED <<suiteVars, nameVars, clientVars, restarted, uncounted>>

\* The class has started; its own client is run.
StartClient ==
  /\ pc = "started"
  /\ started' = started \cup {Order[cur]}
  /\ runners' = runners \cup {cur}
  /\ \/ pc' = "tests" /\ clients' = clients \cup {cur} /\ UNCHANGED errors
     \/ /\ pc' = "count"
        /\ clients' = clients \cup {cur} \/ UNCHANGED clients
        /\ errors' = errors \cup {cur}
  /\ UNCHANGED <<suiteVars, cur, at, attempts, finished, sharedVars,
                 restarted, uncounted, gaveUp, stuck>>

\* run: the tests are left out once anything has failed.
RunTests ==
  /\ pc = "tests" /\ pc' = "count"
  /\ errors' = errors \/ (errors = {} /\ errors' = {cur})
  /\ UNCHANGED <<suiteVars, cur, at, attempts, nameVars, sharedVars,
                 clientVars, restarted, uncounted, gaveUp, stuck>>

ClientRestarts ==
  /\ pc = "tests" /\ restarted' = restarted \cup {cur}
  /\ UNCHANGED <<suiteVars, processVars, nameVars, sharedVars, clientVars,
                 errors, uncounted, gaveUp, stuck>>

-------------------------------------------------------------------------------
(* cleanupAfterTests *)

\* get_pod_restarts; RetryError and NotFound are passed over, other errors end
\* the cleanup of the class.
CountRestarts ==
  /\ pc = "count"
  /\ \/ /\ finished' = finished \cup {Order[cur]}
        /\ pc' = "cleanup" /\ at' = 1
        /\ UNCHANGED <<errors, uncounted>>
     \/ /\ cur \in runners
        /\ finished' = finished \cup {Order[cur]}
        /\ uncounted' = uncounted \cup {cur}
        /\ pc' = "cleanup" /\ at' = 1
        /\ UNCHANGED errors
     \/ /\ cur \in runners
        /\ errors' = errors \cup {cur} /\ uncounted' = uncounted \cup {cur}
        /\ pc' = "next"
        /\ UNCHANGED <<at, finished>>
  /\ UNCHANGED <<suiteVars, cur, attempts, started, sharedVars, clientVars,
                 restarted, gaveUp, stuck>>

\* Slip: all the classes that have started are finished.
AllStarted == finished = started

\* "Whether to clean up shared pre-provisioned infrastructure too."
cleanup_all == finished = Names

\* Slip: restarts are only logged.
PassesOver == errors

\* Fail if any of the pods restarted, however the cleanup went.
AssertNoRestarts ==
  IF cur \in restarted \ uncounted THEN errors \cup {cur} ELSE errors

ClassEnds ==
  /\ pc' = "next" /\ at' = 1 /\ attempts' = 0
  /\ errors' = AssertNoRestarts
  /\ UNCHANGED cur

LastStep == IF cleanup_all /\ strategy = "create" THEN Len(Cleanup) ELSE 1

CleanupGoesOn ==
  IF at < LastStep THEN at' = at + 1 /\ UNCHANGED <<pc, cur, attempts, errors>>
  ELSE ClassEnds

\* Slip: no limit of attempts.
TriesAgain == TRUE

MayRetry == attempts + 1 < Attempts

\* The attempt raises: the retryer starts all over, or gives up.
CleanupRaises ==
  IF MayRetry
  THEN /\ attempts' = IF attempts < Attempts THEN attempts + 1 ELSE attempts
       /\ at' = 1
       /\ UNCHANGED <<pc, cur, errors, gaveUp>>
  ELSE ClassEnds /\ gaveUp' = TRUE

Cleaning(step) == pc = "cleanup" /\ Cleanup[at] = step

\* The client runner first: while it raises, nothing shared is removed.  A
\* RetryError of a deletion is swallowed.
CleanupClient ==
  /\ Cleaning("client")
  /\ \/ clients' = clients \ {cur} /\ CleanupGoesOn /\ UNCHANGED gaveUp
     \/ cur \in clients /\ gaveUp' = TRUE /\ CleanupGoesOn /\ UNCHANGED clients
     \/ cur \in runners /\ CleanupRaises
        /\ clients' \in {clients, clients \ {cur}}
  /\ UNCHANGED sharedVars

\* As in _pre_cleanup.
CleanupTrafficDirector ==
  /\ Cleaning("td.cleanup")
  /\ \/ parts' = {} /\ hosts' = {} /\ CleanupGoesOn /\ UNCHANGED gaveUp
     \/ \E left \in LeftParts :
          /\ Leaves(left)
          /\ \/ left # {} /\ CleanupGoesOn /\ gaveUp' = TRUE
             \/ CleanupRaises
  /\ UNCHANGED <<namespace, servers, requested, holds, clients>>

\* Slip: only the namespace that was created in this process.
OnlyItsOwn(r) == holds

RemovesNamespace(r) == r # "default" \/ holds

\* The runner deletes its server and, forced or if it created it, the
\* namespace.  It is stopped even when it raises.
CleanupServer(r) ==
  /\ Cleaning(r)
  /\ requested' = requested \ {r}
  /\ \/ /\ CleanupGoesOn /\ UNCHANGED gaveUp
        /\ IF RemovesNamespace(r)
           THEN namespace' = FALSE /\ servers' = {}
           ELSE servers' = servers \ {r} /\ UNCHANGED namespace
        /\ holds' = (holds /\ r # "default")
     \/ /\ CleanupGoesOn /\ gaveUp' = TRUE
        /\ servers' \in {servers, servers \ {r}}
        /\ UNCHANGED namespace
        /\ holds' = (holds /\ r # "default")
     \/ /\ CleanupRaises
        /\ servers' \in {servers, servers \ {r}}
        /\ UNCHANGED <<namespace, holds>>
  /\ UNCHANGED <<parts, hosts, clients>>

CleanupStep ==
  /\ CleanupClient \/ CleanupTrafficDirector
     \/ (\E r \in Servers : CleanupServer(r))
  /\ UNCHANGED <<suiteVars, nameVars, runners, restarted, uncounted, stuck>>

Done ==
  /\ pc = "next" /\ cur = Len(Order) /\ pc' = "done"
  /\ UNCHANGED <<suiteVars, cur, at, attempts, nameVars, sharedVars,
                 clientVars, historyVars>>

TestStep ==
  \/ setUpClass \/ SetupStep \/ StartClient \/ RunTests
  \/ CountRestarts \/ CleanupStep \/ Done

Next == TestStep \/ ClientRestarts

Spec == Init /\ [][Next]_vars /\ WF_vars(TestStep)

-------------------------------------------------------------------------------
(* Properties *)

TypeOK ==
  /\ strategy \in Strategies /\ runs \subseteq Classes
  /\ pc \in {"next", "setup", "started", "tests", "count", "cleanup", "done"}
  /\ cur \in 0..Len(Order) /\ at \in 1..Len(Setup) /\ attempts \in 0..Attempts
  /\ started \subseteq Names /\ finished \subseteq Names
  /\ parts \subseteq Parts /\ hosts \subseteq Classes
  /\ servers \subseteq Servers /\ requested \subseteq Servers
  /\ servers # {} => namespace
  /\ clients \subseteq runners /\ runners \subseteq runs
  /\ errors \cup restarted \cup uncounted \subseteq Classes
  /\ {namespace, holds, gaveUp} \subseteq BOOLEAN
  /\ stuck \in 0..Len(Order)

\* The client of every class, not only of the one that set them up, finds all
\* the shared resources and a host of its own in the url map: they are complete
\* before any class counts as started, and removed after all have run.
ResourcesAreShared ==
  pc = "tests" /\ strategy # "reuse" =>
    parts = Parts /\ cur \in hosts /\ servers = Servers

\* When the process has ended nothing is left that it created to remove,
\* unless an error kept it from it, or a class was skipped whose name no other
\* class has finished; and then only the shared resources are left.
NothingIsLeft ==
  pc = "done" /\ ~gaveUp =>
    /\ clients \subseteq uncounted
    /\ strategy = "create" /\ finished = Names =>
         parts = {} /\ ~namespace /\ servers = {}

\* "Keep track of started and finished test cases, so we know when to setup and
\* tear down GCP resources." (xds_url_map_testcase.py:87): with the strategy
\* create they are torn down when the last class has ended without an error.
TornDownInTheEnd ==
  pc = "done" /\ strategy = "create" /\ ~gaveUp /\ errors = {} /\ uncounted = {}
  /\ runs # {} => parts = {}

\* A setup that failed once the start of a server had been requested is beyond
\* repair: each class that follows cleans up and sets up anew, in vain, for the
\* runner refuses to run again, and no class gets a client.
SetupFailsForGood == stuck # 0 => runners = {} /\ started = {}

\* A client that restarted in the course of a test fails its class, however its
\* cleanup went, unless its restarts could not be counted.
RestartsAreReported ==
  \A c \in restarted : c < cur \/ pc = "done" => c \in errors \cup uncounted

\* The run of the suite ends: each class, whatever fails, is cleaned up in a
\* bounded number of attempts.
SuiteEnds == <>(pc = "done")
===============================================================================

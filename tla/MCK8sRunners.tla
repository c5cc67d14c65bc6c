----------------------------- MODULE MCK8sRunners -----------------------------
(* Model checking of K8sRunners: the runners the test suites put together.    *)
EXTENDS K8sRunners

Runner(kind, ns) ==
  [kind |-> kind, ns |-> ns, service |-> "svc", reuseNamespace |-> FALSE,
   reuseService |-> FALSE, forceNamespace |-> TRUE, restartable |-> FALSE]

Server == Runner("server", "ns1")
Client == Runner("client", "ns2")

Base(runners, starts, order) ==
  [runners |-> runners, starts |-> starts, cleanup |-> order,
   identity |-> FALSE, csm |-> FALSE, force |-> FALSE,
   leftovers |-> {}, maxRuns |-> 1, maxFaults |-> 2]

\* change_backend_service_test, remove_neg_test: a second server in the
\* namespace of the first one, cleaned up last.
Alternate ==
  [Base([server |-> Server,
         alt |-> [Server EXCEPT !.service = "svc2", !.reuseNamespace = TRUE]],
        <<"server", "alt">>, <<"server", "alt">>) EXCEPT
     !.identity = TRUE, !.maxFaults = 1]

\* subsetting_test: the client is restarted.
Restarts ==
  [Base([server |-> Server, client |-> [Client EXCEPT !.restartable = TRUE]],
        <<"server", "client">>, <<"client", "server">>) EXCEPT
     !.maxRuns = 2, !.maxFaults = 1]

\* affinity_test: ... and leaves its namespace to others, with --force_cleanup.
Affinity ==
  [Restarts EXCEPT !.runners["client"].reuseNamespace = TRUE,
                   !.force = TRUE, !.maxFaults = 0]

\* The GAMMA test cases force the cleanup.
GammaServer ==
  [Base([server |-> Runner("gamma", "ns1")], <<"server">>, <<"server">>) EXCEPT
     !.identity = TRUE, !.csm = TRUE, !.force = TRUE, !.maxFaults = 1]

\* csm_observability_test with --force_cleanup; failures in two attempts.
Observed ==
  [Base([server |-> Server], <<"server">>, <<"server">>) EXCEPT
     !.csm = TRUE, !.force = TRUE, !.maxFaults = 3]

\* dualstack_test: three runners, one namespace and one service.
Shared == [Server EXCEPT !.reuseNamespace = TRUE, !.reuseService = TRUE]

DualstackServers ==
  [Base([v4 |-> [Shared EXCEPT !.forceNamespace = FALSE],
         v6 |-> [Shared EXCEPT !.forceNamespace = FALSE],
         server |-> Shared],
        <<"server", "v4", "v6">>, <<"v4", "v6", "server">>) EXCEPT
     !.leftovers = {<<"ns1", "ns", "ns1">>}, !.maxFaults = 1]

All ==
  [alternate |-> Alternate, restarts |-> Restarts, affinity |-> Affinity,
   gamma |-> GammaServer, observed |-> Observed, dualstack |-> DualstackServers]
===============================================================================

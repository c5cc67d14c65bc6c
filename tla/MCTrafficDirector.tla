-------------------------- MODULE MCTrafficDirector ---------------------------
(* Model checking of TrafficDirector: the managers and resources of the test  *)
(* suites.                                                                    *)
EXTENDS TrafficDirector

Compute(creations) ==
  [kind |-> "compute", protocol |-> "GRPC", dualstack |-> FALSE,
   force |-> FALSE, creations |-> creations, testDeletes |-> << >>,
   foreign |-> {}, maxFaults |-> 1]

\* api_listener_test deletes the main chain while the alternative one serves.
\* A request about a resource fails, and another one ends the attempt.
Alternatives ==
  [Compute(<<"hc", "be", "um", "tpGrpc", "fr", "beAlt", "umAlt", "tpAlt",
             "frAlt">>) EXCEPT
     !.testDeletes = <<"fr", "tpGrpc", "um">>, !.maxFaults = 2]

Dualstack ==
  [Compute(<<"fw", "fw6", "hc", "be", "um", "tpHttp", "tp6", "fr", "fr6">>)
   EXCEPT !.protocol = "HTTP2", !.dualstack = TRUE, !.foreign = {"fw"}]

Firewalls == [Compute(<<"fw", "hc">>) EXCEPT !.dualstack = TRUE]

AppNetMesh ==
  [Compute(<<"hc", "be", "beAff", "mesh", "grpcRoute", "httpRoute">>) EXCEPT
     !.kind = "appnet"]

\* Enough failures to exhaust the attempts of tearDown.
CloudRun ==
  [Compute(<<"mesh", "neg", "be", "grpcRoute">>) EXCEPT
     !.kind = "cloudrun", !.maxFaults = 3]

Spiffe ==
  [Compute(<<"serverTls", "authz", "ep", "be", "mesh", "grpcRoute">>) EXCEPT
     !.kind = "spiffe", !.force = TRUE]

Security ==
  [Compute(<<"hc", "be", "clientTls", "serverTls", "authz", "ep">>) EXCEPT
     !.kind = "secure"]

All ==
  [alternatives |-> Alternatives, dualstack |-> Dualstack,
   appnet |-> AppNetMesh, cloudrun |-> CloudRun, spiffe |-> Spiffe,
   security |-> Security]

OnlyAppNet == [appnet |-> AppNetMesh]

OnlyFirewalls == [firewalls |-> Firewalls]
===============================================================================

---------------------------- MODULE TrafficDirector ---------------------------
(***************************************************************************)
(* The resources a TrafficDirectorManager (or its AppNet, Secure, Cloud Run *)
(* and SPIFFE subclass) creates for one test, and everything that deletes  *)
(* them again: the test itself, its tearDown with three attempts, the      *)
(* Ctrl-C handler and the periodic cleanup script                          *)
(* (framework/infrastructure/traffic_director.py, mesh_resource_manager/,  *)
(* gcp/compute.py, framework/xds_k8s_testcase.py, bin/cleanup/cleanup.py). *)
(*                                                                         *)
(* The service refuses to delete what another resource uses; a manager     *)
(* knows a resource only through the field its create_ method assigned.    *)
(* A resource has the name of the cleanup step that deletes it.            *)
(***************************************************************************)
EXTENDS Naturals, Sequences

CONSTANT
  Suites   \* test suite -> the manager it makes, and what it does with it

Attempts == 3       \* of cleanup in tearDown

Firewall == {"fw", "fw6"}
Backends == {"be", "beAlt", "beAff"}
Proxies  == {"tpHttp", "tpGrpc"}   \* one field, target_proxy
Routing  == {"fr", "frAlt", "fr6", "tpHttp", "tpGrpc", "tp6", "tpAlt",
             "um", "umAlt", "hc"} \cup Backends
AppNet   == {"httpRoute", "grpcRoute", "mesh", "neg"}
Policies == {"ep", "serverTls", "clientTls", "authz"}
Resource == Firewall \cup Routing \cup AppNet \cup Policies

Managers ==
  [kind        : {"compute", "appnet", "secure", "cloudrun", "spiffe"},
   protocol    : {"GRPC", "HTTP2"},   \* backend_service_protocol
   dualstack   : BOOLEAN,             \* enable_dualstack
   force       : BOOLEAN,             \* the --force_cleanup flag
   creations   : Seq(Resource),       \* what the test creates, in order
   testDeletes : Seq(Resource),       \* the delete_ methods the test calls
   foreign     : SUBSET Firewall,     \* rules that exist beforehand
   maxFaults   : Nat]                 \* bound: API requests that fail

\* What the create_ methods of a suite's manager make.
Managed(s) ==
  Firewall
  \cup (Routing \ ((IF s.dualstack THEN {} ELSE {"fr6", "tp6"})
                   \cup (IF s.protocol = "GRPC" THEN {"tpHttp"}
                                               ELSE {"tpGrpc"})))
  \cup CASE s.kind = "compute"  -> {}
         [] s.kind = "appnet"   -> AppNet \ {"neg"}
         [] s.kind = "secure"   -> Policies
         [] s.kind = "cloudrun" -> AppNet
         [] s.kind = "spiffe"   -> {"grpcRoute", "mesh"} \cup Policies

ASSUME TdConstants == \A n \in DOMAIN Suites : Suites[n] \in Managers

\* A serverless group has no health check (tests/cloud_run_csm_*.py).
ASSUME SuitesAreManaged ==
  \A n \in DOMAIN Suites :
    LET c == Suites[n].creations
    IN  /\ \A i \in DOMAIN c : c[i] \in Managed(Suites[n])
        /\ \A i, j \in DOMAIN c : ~(c[i] = "neg" /\ c[j] = "hc")

\* What a resource may refer to, by the create_ and patch_ methods.
MayReferTo(r) ==
  CASE r = "be"                     -> {"hc", "clientTls", "neg"}
    [] r \in {"beAlt", "beAff"}     -> {"hc"}
    [] r = "um"                     -> Backends
    [] r = "umAlt"                  -> {"be", "beAlt"}
    [] r \in Proxies \cup {"tp6"}   -> {"um"}
    [] r = "tpAlt"                  -> {"umAlt"}
    [] r = "fr"                     -> Proxies
    [] r = "fr6"                    -> {"tp6"}
    [] r = "frAlt"                  -> {"tpAlt"}
    [] r \in {"grpcRoute", "httpRoute"} -> {"mesh"} \cup Backends
    [] r = "ep"                     -> {"serverTls", "authz"}
    [] OTHER                        -> {}

\* The tests make the health check before what is checked by it.
ASSUME HealthCheckFirst ==
  \A n \in DOMAIN Suites :
    LET c == Suites[n].creations
    IN  \A i, j \in DOMAIN c :
          c[i] \in Backends /\ c[j] = "hc" => \E k \in 1..(i - 1) : c[k] = "hc"

\* A test deletes what it created, its users first (api_listener_test.py:115);
\* none deletes the alternative url map.
ASSUME TestDeletesInOrder ==
  \A n \in DOMAIN Suites :
    LET c == Suites[n].creations
        d == Suites[n].testDeletes
    IN  \A i \in DOMAIN d :
          /\ d[i] # "umAlt" /\ \E k \in DOMAIN c : c[k] = d[i]
          /\ \A j \in DOMAIN c :
               d[i] \in MayReferTo(c[j]) => \E k \in 1..(i - 1) : d[k] = c[j]

VARIABLES
  suite,     \* the test suite that runs
  exists,    \* what the service holds under this test's names
  uses,      \* resource -> the resources it refers to
  next,      \* the next of the test's creations
  held,      \* resources known through a field of the manager
  ensure,    \* _ensure_firewall
  phase,     \* what the process is doing
  step,      \* the next step of the running cleanup
  attempt,   \* the attempt of tearDown's retryer
  force,     \* force_cleanup
  sigint,    \* _handling_sigint
  pending,   \* creations accepted by the service that may still land
  faults,    \* API requests that failed so far
  tainted,   \* history: resources with a failed creation or deletion
  late,      \* history: resources that landed once the cleanup had begun
  refused    \* history: this pass of cleanup left something behind

tdVars  == <<exists, uses, next, held, ensure>>
history == <<pending, faults, tainted, late>>
control == <<phase, step, attempt, force, sigint>>
vars == <<suite, tdVars, control, history, refused>>

Suite == Suites[suite]

Cleaning == {"clean", "janitor"}
Over     == {"done", "gaveUp", "orphaned", "swept"}
Phases   == {"setUp", "test", "interrupted"} \cup Cleaning \cup Over

-------------------------------------------------------------------------------
(* The order of the cleanup methods *)

\* Slip: the proxies before the forwarding rules that use them.
ProxyFirstOrder(dualstack) ==
  <<"fw", "fw6", "frAlt", "tpHttp", "tpGrpc", "fr">>
  \o (IF dualstack THEN <<"fr6", "tp6">> ELSE << >>)
  \o <<"tpAlt", "um", "umAlt", "be", "beAlt", "beAff", "hc">>

ComputeOrder(dualstack) ==
  <<"fw", "fw6", "fr", "frAlt", "tpHttp", "tpGrpc">>
  \o (IF dualstack THEN <<"fr6", "tp6">> ELSE << >>)
  \o <<"tpAlt", "um", "umAlt", "be", "beAlt", "beAff", "hc">>

AppNetOrder(dualstack) ==
  <<"httpRoute", "grpcRoute", "mesh">> \o ComputeOrder(dualstack)

SecureOrder(dualstack) ==
  ComputeOrder(dualstack) \o <<"ep", "serverTls", "clientTls", "authz">>

CleanupOrder(s) ==
  CASE s.kind = "compute"  -> ComputeOrder(s.dualstack)
    [] s.kind = "appnet"   -> AppNetOrder(s.dualstack)
    [] s.kind = "secure"   -> SecureOrder(s.dualstack)
    [] s.kind = "cloudrun" -> AppNetOrder(s.dualstack) \o <<"neg">>
    [] s.kind = "spiffe"   ->
         <<"grpcRoute", "mesh">> \o SecureOrder(s.dualstack)

\* cleanup_td_for_gke: three managers that know nothing, one after the other.
JanitorOrder(s) ==
  SecureOrder(s.dualstack) \o AppNetOrder(FALSE) \o ComputeOrder(s.dualstack)

CleanupOrders == [n \in DOMAIN Suites |-> CleanupOrder(Suites[n])]
JanitorOrders == [n \in DOMAIN Suites |-> JanitorOrder(Suites[n])]

Order == IF phase = "janitor" THEN JanitorOrders[suite]
                              ELSE CleanupOrders[suite]

-------------------------------------------------------------------------------
(* The create_ methods *)

\* What a new resource refers to: the possible sets, none if a field that the
\* method needs is None.
OneOf(rs) == {{x} : x \in held \cap rs}

\* Slip: the health check is not attached to the backend services.
UncheckedRefs == {{}}

BackendRefs == {{"hc"} \cap held}

UrlMapRefs(r) == OneOf(IF r = "um" THEN {"be"} ELSE {"be", "beAlt"})

ProxyRefs(r) ==
  CASE r = "tpGrpc" -> IF Suite.protocol = "GRPC" THEN OneOf({"um"}) ELSE {}
    [] r = "tpHttp" -> IF Suite.protocol = "HTTP2" THEN OneOf({"um"}) ELSE {}
    [] r = "tp6"    -> IF Suite.dualstack THEN OneOf({"um"}) ELSE {}
    [] r = "tpAlt"  -> IF Suite.protocol = "GRPC" THEN OneOf({"umAlt"}) ELSE {}

RuleRefs(r) ==
  OneOf(CASE r = "fr" -> Proxies
          [] r = "fr6" -> {"tp6"}
          [] r = "frAlt" -> {"tpAlt"})

RouteRefs == {b \cup {"mesh"} : b \in IF "mesh" \in held THEN OneOf(Backends)
                                                      ELSE {}}

EndpointPolicyRefs == {{"serverTls", "authz"} \cap held}

Refs(r) ==
  CASE r = "hc"                         -> IF "hc" \in held THEN {} ELSE {{}}
    [] r \in Backends                   -> BackendRefs
    [] r \in {"um", "umAlt"}            -> UrlMapRefs(r)
    [] r \in Proxies \cup {"tp6", "tpAlt"} -> ProxyRefs(r)
    [] r \in {"fr", "fr6", "frAlt"}     -> RuleRefs(r)
    [] r \in {"grpcRoute", "httpRoute"} -> RouteRefs
    [] r = "ep"                         -> EndpointPolicyRefs
    [] OTHER                            -> {{}}

Creatable == {Suite.creations[i] : i \in DOMAIN Suite.creations}

\* setUp creates the firewall rules, the test the rest, in its order.
MayCreate(r) ==
  /\ next <= Len(Suite.creations) /\ r = Suite.creations[next]
  /\ phase = IF r \in Firewall THEN "setUp" ELSE "test"

Init ==
  /\ suite \in DOMAIN Suites
  /\ exists = Suite.foreign
  /\ uses = [r \in Resource |-> {}]
  /\ next = 1 /\ held = {} /\ ensure = FALSE
  /\ phase = "setUp" /\ step = 1 /\ attempt = 1
  /\ force = Suite.force /\ sigint = FALSE
  /\ pending = {} /\ faults = 0 /\ tainted = {} /\ late = {}
  /\ refused = FALSE

setUpEnds ==
  /\ phase = "setUp" /\ ~\E r \in Firewall : MayCreate(r)
  /\ phase' = "test"
  /\ UNCHANGED <<tdVars, step, attempt, force, sigint, history, refused>>

Create(r) ==
  /\ MayCreate(r) /\ r \notin exists
  /\ \E refs \in Refs(r) : uses' = [uses EXCEPT ![r] = refs]
  /\ exists' = exists \cup {r}
  /\ held' = held \cup {r} /\ next' = next + 1
  /\ ensure' = (ensure \/ r \in Firewall)
  /\ UNCHANGED <<control, history, refused>>

\* Slip: the rule somebody else created is taken for the manager's own.
AdoptFirewall(r) ==
  /\ MayCreate(r) /\ r \in exists \cap Firewall
  /\ ensure' = TRUE /\ held' = held \cup {r} /\ next' = next + 1
  /\ UNCHANGED <<exists, uses, control, history, refused>>

\* 409 for a firewall rule: create_firewall_rule returns None.
FindFirewall(r) ==
  /\ MayCreate(r) /\ r \in exists \cap Firewall
  /\ ensure' = TRUE /\ next' = next + 1
  /\ UNCHANGED <<exists, uses, held, control, history, refused>>

\* patch_url_map: the url map is sent to another backend service.
PatchUrlMap(b) ==
  /\ phase = "test" /\ "um" \in held \cap exists /\ b \in held \cap Backends
  /\ uses' = [uses EXCEPT !["um"] = {b}]
  /\ UNCHANGED <<exists, next, held, ensure, control, history, refused>>

backend_service_apply_client_mtls_policy ==
  /\ phase = "test" /\ {"be", "clientTls"} \subseteq held \cap exists
  /\ uses' = [uses EXCEPT !["be"] = @ \cup {"clientTls"}]
  /\ UNCHANGED <<exists, next, held, ensure, control, history, refused>>

backend_service_add_cloudrun_backends ==
  /\ phase = "test" /\ {"be", "neg"} \subseteq held \cap exists
  /\ uses' = [uses EXCEPT !["be"] = @ \cup {"neg"}]
  /\ UNCHANGED <<exists, next, held, ensure, control, history, refused>>

\* A request of which the manager knows no result: nothing was created, or it
\* was, or it will be.
Unknown(r) ==
  /\ tainted' = tainted \cup {r}
  /\ \E refs \in Refs(r) :
       \/ UNCHANGED <<exists, uses, pending>>
       \/ /\ r \notin exists
          /\ uses' = [uses EXCEPT ![r] = refs]
          /\ \/ exists' = exists \cup {r} /\ UNCHANGED pending
             \/ pending' = pending \cup {r} /\ UNCHANGED exists
  /\ UNCHANGED <<next, held, ensure, late, refused>>

\* The exception ends the test; unittest runs tearDown unless it was in setUp.
CreateFails(r) ==
  /\ MayCreate(r) /\ faults < Suite.maxFaults
  /\ faults' = faults + 1
  /\ Unknown(r)
  /\ phase' = IF phase = "setUp" THEN "orphaned" ELSE "clean"
  /\ UNCHANGED <<step, attempt, force, sigint>>

\* The operation of a creation that was given up completes after all.
Land(r) ==
  /\ r \in pending /\ phase \notin {"janitor", "swept"}
  /\ uses[r] \subseteq exists
  /\ pending' = pending \ {r}
  /\ exists' = exists \cup {r}
  /\ late' = IF phase = "interrupted" THEN late ELSE late \cup {r}
  /\ UNCHANGED <<uses, next, held, ensure, control, faults, tainted, refused>>

-------------------------------------------------------------------------------
(* The delete_ methods *)

Users(r) == {u \in exists : r \in uses[u]}

\* A request about r that failed may have removed it all the same.
MaybeRemoved(r) ==
  exists' \in {exists, IF Users(r) = {} THEN exists \ {r} ELSE exists}

\* Slip: --force is ignored by one of the methods.
ForgetfulDeletes(r) ==
  CASE r \in Firewall -> ensure /\ (force \/ r \in held)
    [] r = "tpGrpc"   -> force \/ held \cap Proxies # {}
    [] r = "hc"       -> r \in held
    [] OTHER          -> force \/ r \in held

\* Whether the manager has the name of what the method deletes.
Remembers(r) == IF r = "tpGrpc" THEN held \cap Proxies # {} ELSE r \in held

\* Whether the method, called by cleanup, gets as far as the API request.
Deletes(r) == (force \/ Remembers(r)) /\ (r \in Firewall => ensure)

\* The fields it resets; delete_alternative_url_map resets url_map.
Fields(r) ==
  CASE r \in Proxies -> Proxies
    [] r = "umAlt"   -> {"um"}
    [] OTHER         -> {r}

\* The method returns: the resource is gone (404 included), the service refuses
\* because it is in use, or there is another error that is only logged.
DeleteReturns(r) ==
  /\ held' = held \ Fields(r)
  /\ \/ /\ Users(r) = {}
        /\ exists' = exists \ {r}
        /\ UNCHANGED <<faults, tainted, refused>>
     \/ /\ Users(r) # {}
        /\ refused' = TRUE
        /\ UNCHANGED <<exists, faults, tainted>>
     \/ /\ faults < Suite.maxFaults
        /\ faults' = faults + 1
        /\ tainted' = tainted \cup ({r} \cap exists)
        /\ refused' = (refused \/ r \in exists)
        /\ MaybeRemoved(r)
  /\ UNCHANGED <<uses, next, pending, late>>

\* Out of retries, or the operation failed or timed out: the exception passes,
\* whether the resource is gone, was never there or stays.
DeleteRaises(r) ==
  /\ faults < Suite.maxFaults
  /\ faults' = faults + 1
  /\ MaybeRemoved(r)
  /\ UNCHANGED <<uses, next, held, ensure, pending, late, tainted>>

\* The test deletes the resources it lists, one after the other, never with
\* force.
TestDelete ==
  /\ phase = "test" /\ next > Len(Suite.creations)
  /\ \E i \in DOMAIN Suite.testDeletes :
       LET r == Suite.testDeletes[i]
       IN  /\ Remembers(r)
           /\ \A k \in 1..(i - 1) : ~Remembers(Suite.testDeletes[k])
           /\ \/ DeleteReturns(r) /\ UNCHANGED <<ensure, phase>>
              \/ DeleteRaises(r) /\ phase' = "clean" /\ UNCHANGED refused
  /\ UNCHANGED <<step, attempt, force, sigint>>

TestEnds ==
  /\ phase = "test"
  /\ phase' = "clean"
  /\ UNCHANGED <<tdVars, step, attempt, force, sigint, history, refused>>

-------------------------------------------------------------------------------
(* cleanup, and who calls it *)

\* Slip: the attempts are not counted down.
EndlessAttemptFails ==
  /\ phase' = phase /\ step' = 1 /\ attempt' = attempt + 1 /\ refused' = FALSE

\* Slip: one attempt less.
OneAttemptLess ==
  IF phase = "clean" /\ attempt < Attempts - 1
  THEN /\ step' = 1 /\ attempt' = attempt + 1 /\ refused' = FALSE
       /\ UNCHANGED phase
  ELSE /\ phase' = IF phase = "clean" THEN "gaveUp" ELSE "swept"
       /\ refused' = TRUE
       /\ UNCHANGED <<step, attempt>>

\* An exception leaves cleanup: tearDown tries again, or logs it and goes on;
\* the cleanup script is aborted.
AttemptFails ==
  IF phase = "clean" /\ attempt < Attempts
  THEN /\ step' = 1 /\ attempt' = attempt + 1 /\ refused' = FALSE
       /\ UNCHANGED phase
  ELSE /\ phase' = IF phase = "clean" THEN "gaveUp" ELSE "swept"
       /\ refused' = TRUE
       /\ UNCHANGED <<step, attempt>>

CleanupStep ==
  /\ phase \in Cleaning /\ step <= Len(Order)
  /\ LET r == Order[step]
     IN  \/ /\ IF Deletes(r) THEN DeleteReturns(r)
                             ELSE UNCHANGED <<exists, uses, next, held,
                                              history, refused>>
            /\ ensure' = (ensure /\ r # "fw6")
            /\ step' = step + 1
            /\ UNCHANGED <<phase, attempt>>
         \/ Deletes(r) /\ DeleteRaises(r) /\ AttemptFails
  /\ UNCHANGED <<force, sigint>>

\* The manager's cleanup returned; those of the runners follow and may raise.
PassEnds ==
  /\ phase \in Cleaning /\ step > Len(Order)
  /\ \/ /\ phase' = IF phase = "clean" THEN "done" ELSE "swept"
        /\ UNCHANGED <<step, attempt, refused, faults>>
     \/ /\ phase = "clean" /\ faults < Suite.maxFaults
        /\ faults' = faults + 1
        /\ AttemptFails
  /\ UNCHANGED <<tdVars, force, sigint, pending, tainted, late>>

\* Ctrl-C, maybe while a create_ method waits for its answer.
Interrupt ==
  /\ phase \in {"setUp", "test", "clean"} /\ ~sigint
  /\ phase' = "interrupted" /\ sigint' = TRUE
  /\ \/ UNCHANGED <<tdVars, history, refused>>
     \/ \E r \in Creatable : MayCreate(r) /\ Unknown(r) /\ UNCHANGED faults
  /\ UNCHANGED <<step, attempt, force>>

\* handle_sigint after two seconds: tearDown with force_cleanup set.
ForcedTearDown ==
  /\ phase = "interrupted"
  /\ phase' = "clean" /\ force' = TRUE
  /\ step' = 1 /\ attempt' = 1 /\ refused' = FALSE
  /\ UNCHANGED <<tdVars, sigint, history>>

\* The second Ctrl-C, or the end of the process.
Abort ==
  /\ phase \in {"setUp", "test", "interrupted", "clean"}
  /\ phase' = "orphaned"
  /\ UNCHANGED <<tdVars, step, attempt, force, sigint, history, refused>>

\* The cleanup script, days later, finds the test's resources by its health
\* check.
Sweep ==
  /\ phase \in Over /\ "hc" \in exists
  /\ phase' = "janitor" /\ force' = TRUE
  /\ held' = {} /\ ensure' = FALSE
  /\ step' = 1 /\ attempt' = 1 /\ refused' = FALSE
  /\ UNCHANGED <<exists, uses, next, sigint, history>>

Step ==
  \/ \E r \in Resource :
       Create(r) \/ FindFirewall(r) \/ CreateFails(r) \/ Land(r)
  \/ \E b \in Backends : PatchUrlMap(b)
  \/ backend_service_apply_client_mtls_policy
  \/ backend_service_add_cloudrun_backends
  \/ setUpEnds \/ TestDelete \/ TestEnds \/ CleanupStep \/ PassEnds
  \/ Interrupt \/ ForcedTearDown \/ Abort \/ Sweep

Next == Step /\ UNCHANGED suite

\* A tearDown that runs makes progress: every request is answered or times out.
Progress == (CleanupStep \/ PassEnds \/ ForcedTearDown) /\ UNCHANGED suite

Spec == Init /\ [][Next]_vars /\ WF_vars(Progress)

-------------------------------------------------------------------------------
(* Properties *)

TypeOK ==
  /\ suite \in DOMAIN Suites
  /\ exists \subseteq Resource /\ held \subseteq Resource
  /\ uses \in [Resource -> SUBSET Resource]
  /\ next \in 1..(Len(Suite.creations) + 1)
  /\ pending \subseteq Resource /\ tainted \subseteq Resource
  /\ late \subseteq Resource
  /\ ensure \in BOOLEAN /\ force \in BOOLEAN /\ sigint \in BOOLEAN
  /\ refused \in BOOLEAN
  /\ phase \in Phases
  /\ step \in Nat /\ (phase \in Cleaning => step \in 1..(Len(Order) + 1))
  /\ attempt \in 1..Attempts
  /\ faults \in 0..Suite.maxFaults

InUse(r) == Users(r) # {}

\* The alternative url map, of which a deletion failed, may still be deleted by
\* a later attempt (delete_alternative_url_map does not reset its own field),
\* when the backend service that it used is already forgotten.
ForgottenFirst(r) == "umAlt" \in tainted /\ r \in uses["umAlt"]

\* A cleanup that came to its end left a resource behind only if a request
\* about that very resource failed, if another leftover still uses it, or if it
\* was ForgottenFirst: the order of the steps never makes a leak of its own,
\* whatever was created, patched, deleted or retried before.
LeaksAreExplained ==
  phase = "done" =>
    \A r \in exists \ Suite.foreign :
      r \in tainted \/ InUse(r) \/ ForgottenFirst(r)

\* Deletion by name is complete.  With force, what a test interrupted or failed
\* to create goes as well: what is left was not there yet, or is used by such a
\* latecomer.  The cleanup script's three managers remove everything a dead test
\* left that they can find.  (The firewall rules are the exception, see
\* InterruptedCreateIsCleaned.)
DeletionByNameIsComplete ==
  ~refused =>
    /\ phase = "done" /\ force => exists \subseteq late \cup Firewall
    /\ phase = "swept" => exists \subseteq Firewall

\* What the cleanup script relies on when it looks for health checks only: a
\* leaked routing resource keeps its health check alive, so it will be found.
RoutingLeaksAreFound ==
  phase \in Over /\ "hc" \in Creatable /\ exists \cap Routing # {} =>
    "hc" \in exists

\* A cleanup without force never deletes a firewall rule the test only found.
ForeignFirewallKept ==
  [][~force => Suite.foreign \cap exists \subseteq exists']_vars

\* A tearDown ends, and if requests only ever raised (retried by tearDown), in
\* fewer attempts than there are, and none was lost or only logged, nothing is
\* left.
EventuallyCleaned ==
  phase = "clean" ~>
    \/ phase = "done" /\ exists \subseteq Suite.foreign
    \/ tainted # {} /\ phase \in Over
    \/ faults >= Attempts /\ phase = "gaveUp"
    \/ phase = "orphaned"

\* "We only list health-checks and instance templates because these are leaves
\* in the resource dependency tree": whatever leaks, the cleanup script sees a
\* leaked health check.
LeaksAreFound ==
  phase = "done" /\ exists \ Suite.foreign # {} => "hc" \in exists

\* "Addresses the case where ctrl-c is pressed while waiting for the resource
\* creation": after the forced cleanup only latecomers are left.
InterruptedCreateIsCleaned ==
  phase = "done" /\ force /\ ~refused =>
    exists \subseteq late \cup Suite.foreign
===============================================================================

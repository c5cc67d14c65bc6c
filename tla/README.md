# A verification development for psm-interop

psm-interop is the framework of gRPC's proxyless service mesh tests.  A test
deploys a client and servers to Kubernetes (or Cloud Run), configures Traffic
Director through the Google Cloud APIs, asserts things about traffic, and
removes everything again.  The programs under test are not in the repository;
what is, and what these modules are about, is the machinery around them: who
creates which resource, who knows of it, and what deletes it when requests
fail, answers are lost, tests raise, tests share things, run at the same time,
or are interrupted.

All paths are relative to `src/`.  `PROJECT.json` maps each definition to the
lines it models.

## Inventory

| Component | State | Operations | Hard because | Correct when |
|---|---|---|---|---|
| IAM bindings, `framework/infrastructure/gcp/iam.py` | the policy of a service account: bindings and etag | add and remove a member of a role | jobs race on one policy; read-modify-write; nested retries; a lost request may be carried out late | no lost update, one grant per call, nothing acts after the call returned |
| Compute, network services and security clients, `framework/infrastructure/gcp/` | none | insert, patch, delete, wait | lost answers, conflicts, swallowed errors | the manager's knowledge and the service agree |
| Traffic Director managers, `framework/infrastructure/traffic_director.py`, `mesh_resource_manager/` | a field per resource, `_ensure_firewall` | create_, delete_, cleanup | the service refuses to delete what is used; partial failures | cleanup leaves nothing without a reason, and nothing of others is deleted |
| Wait for healthy backends, `gcp/compute.py` | pending and healthy sets | one poll of all backends per attempt | a set is changed while it is iterated; pods come and go | a return means that every replica was seen healthy |
| Kubernetes runners, `framework/test_app/runners/k8s/` | a field per object, pod maps, run history | run, cleanup, delete_pod | asynchronous deletion, shared namespaces and services, restarts | nothing forgotten, identities outlive their users, runs recorded |
| Kubernetes client, `framework/infrastructure/k8s.py` | the access token | create, get, delete, waits | two nested retryers; requests that meet their own effect; a token that expires | an error means what it says, absence and readiness were so |
| Test case life cycle, `framework/xds_k8s_testcase.py` | runners, manager, `force_cleanup`, `_handling_sigint` | setUp, tearDown, handle_sigint | a signal handler that runs tearDown inside run or cleanup | everything is destroyed afterwards, tearDown ends |
| Cleanup script, `bin/cleanup/cleanup.py` | none | sweep of Traffic Director resources, of namespaces | finds resources of dead tests by a name and an age | every leak is found and removed |
| Pod log collector, port forwarder, `framework/infrastructure/k8s_internal/` | a thread and a file; a subprocess | start, flush, stop | shared file, process that does not die | logs are complete, nothing is left running |
| Retryers, `framework/helpers/retryers.py` | none | retry conditions, limits, RetryError | which errors and which values are retried; time is looked at between attempts | a wait ends for the reason it states |
| Assertions, `framework/xds_k8s_testcase.py`, `framework/rpc/` | none | waits for traffic, configuration, statuses, security | several looks at a client that goes on, pods that are replaced, counters that start anew | a passed assertion held |
| Test client and server, `framework/test_app/` | none | waits for channels and sockets | channels are listed first and looked at later | an active channel carried one call at both looks |
| URL map tests, `framework/xds_url_map_testcase.py`, `xds_url_map_test_resources.py` | one set of resources for all classes, started and finished names | setup, cleanup, three strategies | resources outlive a class; the last class is told by names; setup fails halfway | a class finds all resources, the last one removes them |
| Test control plane, `docker/test-control-plane/` | resources, version, filters, snapshot | SetResources, StopOnRequest, streams | update that fails halfway | clients see consistent snapshots, newest last |

The components interact by calls: a test case owns one manager and some
runners, and calls their `cleanup` in a fixed order from `tearDown`, from the
Ctrl-C handler, or from within a test.  They share state only through the
services: the namespace and service two runners have in common, the IAM policy
all jobs have in common, the names by which the cleanup script finds what a
dead test left.

`PROJECT.json` lists the hazards, each at its line.

## Modules

`IamMembers` is the promise of `gcp/iam.py`: a set of grants, calls that take
effect once, atomically, between submission and return, and calls that raise,
whose effect may still come.

`IamPolicy` is the code: `add_service_account_iam_policy_binding` and
`remove_...` for any number of jobs, each a loop of `getIamPolicy`,
`find_binding_for_role`, a patched policy and `setIamPolicy` with the etag of
the one that was read.  An HTTP request is put on `wire` and is carried out
whenever the service likes, also after its caller gave up.  `tries` counts the
attempts of one request (`_execute`), `rounds` those of `handle_etag_conflict`.
The instance `Promise` at its end maps it to `IamMembers`.

`TrafficDirector` is one manager, of one of five classes, through the life of a
test.  `Suites` says which managers and resources the tests use, and in which
order they create and delete them themselves (`creations`, `testDeletes`).
`exists` and `uses` are the service's resources and the references that
make it refuse deletions; `held` are the fields that are not None.  A resource
is named after its cleanup step, `CleanupOrder` is the order of the steps,
and each step decides by field and `force` (`Deletes`), is refused, swallowed
(`compute._delete_resource`) or raises, and resets the field.  A deletion may
fail whether the resource is there or not; only one of a resource that is there
leaves something behind (`refused`, `tainted`).
`Create` and `CreateFails` are the create_ methods, `Land` is a creation whose
answer was lost, `Interrupt`, `ForcedTearDown` and `Abort` are Ctrl-C, and
`Sweep` starts the cleanup script.

`Retryers` is `helpers/retryers.py`: a retryer is the errors it retries, whether
it looks at the value (`check_result`), and what stops it.  An iteration is
`AttemptBegins` and `AttemptEnds(r, outcome)`: it passes, fails or goes on.  All waits are built of
it, and so is the request of `K8sCalls`, through an instance with variables of
its own (`Call`).

`ChannelWaits` are `wait_for_active_xds_channel` and `wait_for_server_channel_ready`
of the test client.  `snap` is what channelz listed, `chan` what the client has; each
channel is looked at in turn, and for the control plane a second time.  Calls
are numbered, so that it can be said whether the two looks saw the same one.

`Assertions` are the waits of `xds_k8s_testcase.py` about the client's traffic
(`WindowKinds`), configuration (`ConfigKinds`) and counters (`StatsKinds`).
`window` is what the current `GetClientStats` has counted so far; the request
counts while pods are replaced, routes are updated and the client restarts.

`Sockets` is `assertTestAppSecurityWithRetry`: the client's socket, the server's
sockets searched by address, and the comparison of certificates, between which
connections break and are made.  The languages' flags (what they report to
channelz) are part of `asked`.

`K8sCalls` is `k8s.py`: `_execute` chooses its retryer by the first error and
refreshes a token, and creations, deletions and waits are built of it.  The
object changes by the hands of others, requests and answers are lost.

`BackendHealth` is `wait_for_backends_healthy_status` and
`_retry_backends_health`.  A backend is the network endpoint group of a zone.
A Python set that shrinks while it is iterated raises RuntimeError at the next
iteration, so `CheckHealthy` either ends the loop or ends the attempt.

`Waits` composes these five: a behaviour is one wait, of the kind `which`, from
its call until it returns or raises; `TestStep` is its process, `SystemStep` the
system it looks at.

`UrlMap` is a run of the url-map test classes: `setUpClass` with the shared setup in
its order (`Setup`), the tests, and `cleanupAfterTests` with its own (`Cleanup`),
for the strategies create, keep and reuse.  Any request may fail at any time,
before or after its effect.  A deletion that the service refuses is only logged
(compute.py:862): `td.cleanup` goes on and returns with part of the resources left
(`LeftParts`).  In the setup this debris makes the creation that meets it a conflict;
in a cleanup the next steps follow all the same, and `gaveUp` keeps on record that
an error was passed over.  Names are what the code tells the last class by, so
`started` and `finished` are sets of names, and `Order` may give two classes one
name.

`K8sRunners` are the runners of a test: `RunSteps` and `CleanupSteps` are what
`run` and `cleanup` of the client, server and GAMMA server do, in order.
`live` and `dying` are the cluster's objects and those being deleted, `Gone`
ends a deletion, for a namespace with all it contains.  `held`, `stage`, `id` and
`history` are the fields of a runner; `deployed` is not in the code: it keeps which
runs were given a deployment, for `history` to be compared with.  A creation may
fail or lose its answer wherever the code makes one, in `run` (`RunRaises`) as in
the test, which makes the policies and the filter of the GAMMA server
(`PolicyFails`), and Ctrl-C may come before its answer.  `Suites` says how a test suite puts its
runners together: their classes, namespaces and services, who reuses which, the
order in which the test starts them (`starts`) and in which its `cleanup` goes
through them, and the flags.

`LogCollector` is the thread of `PodLogCollector`: it opens its file, streams
the log of a pod, looks at the stop event before each stream and after each
message, writes a last line, closes the file and only then sets `_out_stream` to
None.  `flush()` reads that field several times with no lock; its statements are
steps of the main thread.

`ServerPods` are the pods of one server deployment, with a collector per pod,
a `kubectl port-forward` per server, and the maps of started, stopping and
stopped pods.  The test deletes pods (`delete_pod`, with every combination of
`ignore_errors` and `wait_for_deletion`, the failing paths through its finally
clause included) and releases hooks; `cleanup` releases the pre-stop hooks, sets
the stop event, closes the forwarders, flushes the logs and deletes the deployment,
in this order, from the start again when an attempt of `tearDown` raises.
A runner without port forwarding (the default outside of local development)
has no forwarder to close and is otherwise the same.  `log_drain_sec` is 0, as in
every test.  Ctrl-C is in `K8sRunners`, not here.  `NextAttempt` takes from the
code's ten-second pause one fact, that a thread has got from `close()` to the
statement after it.

Definitions whose comment begins with *Slip* are plausible mistakes in a
definition next to them; no specification uses them, they document what each
property would detect.

## Runs

Every run of a module with faults has a bound on them (`MaxFaults`), because
a behaviour needs one or two failures to go wrong, and the last attempts are
reached by failures that need none (a refused or overdue deletion).

| Run | Instance | Checked |
|---|---|---|
| `iam_race` | two jobs, an outside principal, a conditional binding | bindings are unique, writes are fresh, refinement of `IamMembers` |
| `iam_retries` | one job, two calls, late requests, inner and outer retries | fencing, every call returns |
| `td_managers` | six suites: alternative chain, dual stack with a foreign rule, mesh, Cloud Run, SPIFFE by force, security | leaks are explained, deletion by name (forced cleanup, sweep) is complete, leaked routing resources are found, foreign firewall rules stay, tearDown ends clean |
| `td_found`, `td_ctrl_c` | mesh resources; firewall rules | disagreements, see below |
| `waits` | all kinds of waits, see below | what a wait that passed says was so, a wait that gave up has a reason, a calm system is enough for it, and each wait ends |
| `health_empty_zone` | two zones, one of them empty | disagreement, see below |
| `rds_update` | the waits for a new route and a new cluster | disagreement, see below |
| `k8s_suites` | a server and an alternate in its namespace (`change_backend_service`, `remove_neg`); a server and a restarted client (`subsetting`), whose namespace may be kept (`affinity`, with `--force_cleanup`, which its restart does not pass on); the GAMMA server by force; a server with observability by force; three runners in a namespace none of them owns (`dualstack`) | leaks are explained, forced cleanup is complete, identities outlive workloads, nothing forgotten, runs recorded, tearDown ends |
| `pods` | two pods with pre-stop hooks, one failure | hooks are released before the deployment goes; a flush races with a thread once per pod; no log line is lost and no kubectl is left; threads end; tearDown succeeds or has a reason |
| `url_map` | three classes, two of one name, any of them skipped, all strategies | each class finds all resources, the last removes them, a failed setup is final, restarts are reported, the run ends |
| `url_map_torn_down` | the same | disagreement, see below |

Bounds: `MaxRuns` is 2 where restarts matter; the numbers of attempts of
tearDown are the code's (3).  Other retries are cut to two or three, which
tells a first, a middle and a last attempt apart.  Three failures in the suite
with observability are needed for what a failed deletion in one attempt does to
the next one to show at the end: cleanup resets the name of a PodMonitoring even
if its deletion failed, and forced cleanup then has no name to delete it by,
which `ForcedCleanupRemoves` of `K8sRunners` states as its one exception.  Objects of different kinds
are all there: it is their order that the properties are about.  Two pods are enough
for one to be deleted and the other to be caught in the race, in either order,
and fewer than the attempts of tearDown, which is what `CleanupSucceeds` needs.
Two failures in the suite of the alternative chain (two million states in all of
`td_managers`) are needed for a deletion that fails before another one is
refused, see `ForgottenFirst` below; the other managers' suites have one.
`CHECK_DEADLOCK FALSE` is set where the modelled program ends.

`waits`: two channels, of which one can hide the other; pods of three
deployments, two of the one that traffic is expected at, so that one can replace
the other; two connections, the second of which may take the first one's port;
three zones and replicas, the fewest with which a shrinking set skips a zone in
more than one attempt.  A wait makes two looks (`MaxLooks`), a first and a last;
a request three attempts (`MaxTries`), which `_quick_recovery_retryer` has in the
code.  The system makes seven events (`MaxEvents`) around an assertion: enough
for a window to open and fill, a pod to be replaced, and a second look.
`NumRpcs` is 2, so a window may hold an old and a new route.

`url_map`: in three classes a first, a middle and a last one differ; the first
two share a name, as two classes of the repository do.

Where a run says what the service holds at the end, "a request about it failed"
(`tainted`) is the only excuse, and one that is recorded when it happens:
no property is satisfied by a failure somewhere else.

### Disagreements

Five runs show a behaviour that a comment, a docstring or the evident intent
of the source contradicts; the entries in `PROJECT.json` quote it.

* `td_found`: the cleanup script lists health checks, "the leaves of the
  dependency tree"; the mesh and route resources have none below them.
* `td_ctrl_c`: Ctrl-C while the firewall rule is being created: forced
  cleanup returns early, as `_ensure_firewall` is not set yet.
* `health_empty_zone`: healthy zones are compared with the number of pods.
* `rds_update`: the waits for an updated route or cluster retry a function that
  returns a Boolean with a retryer that takes every value for success: they
  return at the first look.
* `url_map_torn_down`: a class that is skipped never finishes, so no class is
  the last one and the shared resources stay.

Three more behaviours are in the models and not checked by a run of their own.
`delete_alternative_url_map` resets the field `url_map` instead of its own
(traffic_director.py:641).  So when its deletion fails, the backend service that
it uses is refused and forgotten, and the next attempt of `tearDown` deletes the
alternative url map by the field that was kept: the backend service is left,
unused and with no failed request about it.  `LeaksAreExplained` of
`TrafficDirector` has this as an exception of its own (`ForgottenFirst`).  A client
runner with a namespace of its own and `reuse_namespace=True` leaves it behind
(`LeaksAreExplained` of `K8sRunners` excuses a namespace all of whose runners
have it), and an unexpected error of the restart count skips the cleanup (its phase `skipped`).

### Fairness

`IamPolicy`: weak fairness of each job's own steps; a request is answered or
times out (`GcpApiManager` sets a socket timeout), and the numbers of retries
are bounded.  `TrafficDirector` and `K8sRunners`: weak fairness of the process's
own steps; waits of the framework all have a timeout, so a step is always taken.
`Waits` and `UrlMap`: weak fairness of the process that waits or tests
(`TestStep`), whose requests have deadlines; that a wait ends is its own doing,
and no fairness is assumed of the system it looks at.
`ServerPods`: weak fairness of the main thread outside the test; of each
collector's own steps (`ThreadProgress`), but of its stream only once the pod is
gone, because a silent pod keeps a thread in its stream; and of the termination of a
pod, which the grace period bounds.
Otherwise no fairness is assumed of the services, of the cluster's deletions, of the test
body or of Ctrl-C.

## Proofs

Every theorem holds for all values of the constants that satisfy the
assumptions next to their declarations, which TLC evaluates in the runs.  All of
them have one shape: an invariant that is stronger than the property and
inductive (it was model-checked before it was proved), a lemma per action or
group of actions, and the property as its consequence.

`IamPolicy_proofs`: any number of jobs, roles, members, conditions, retries and
calls.  `TypeOK`, `UniqueBindings`, `WritesAreFresh` and `ReturnedIsFenced`.
`IInv` adds: a policy that was read with the current etag is the current
policy; a request on the wire carries the bindings computed from the policy of its
etag; and the etags a job's abandoned requests carry are older than what a
conflict, or its own success, has made current.  Lemmas about
`replace_binding` and `find_binding_for_role` keep the bindings unique.

In the same module, `IamPolicy` implements `IamMembers` (`AtomicUpdate`).  Each step of the code is a step of `Promise` or none.  What
the code computes from bindings is an update of one grant because a role has
one binding (`UpdateGrants`, from `UniqueBindings`); the mapping
needs two facts of history, that a call whose write was answered has had its
effect (`AppliedTook`), and that a request nobody waits for is of a call that
raised, or stale (`LateIsAbandoned`).

`BackendHealth_proofs`: any number of zones, replicas, attempts and disruptions.
`ReturnCoversReplicas` is not inductive: that a wait has returned says nothing of
why.  `IInv` adds that no backend is in neither set, that a healthy backend was
the zone of some replica, and that the wait returned under its own condition.
The rest is a fact about cardinalities (`ConditionCovers`): healthy zones are
zones of replicas, of which there are at most as many as replicas, so if they
are as many as the replicas they are all of them.  `CalmIsEnough` follows
from a count (`CalmInv`): each calm attempt moves a backend from pending to
healthy, or ends the wait.

`ChannelWaits_proofs`: any number of channels, calls and looks.  The counters
say how many calls live, not which; but calls are numbered as they start
(`Counted`), so if none started between two looks, whatever lives at the second
one lived at the first (`Later`).  `GivesUpWithReason` follows from `ReasonInv`: a channel on which
nothing happens is as it was listed, and an attempt has still to look at it or passes.

`Waits_proofs`: `SecurityIsTrue`, for any number of connections, and
`AnswersAreTrue`, for any number of failures, changes and attempts.  The second
rests on two facts: what the last answer says of the object is recorded in the history
(`AnswersHappened`), and a valid token stays so unless it expires
meanwhile (`TokenIsValid`).  And of the assertions about traffic
`HandoffIsSeamless`, `StatusesAreHonest` and `OnlyGivenDeployments`, for any
number of pods, calls and events.  Each invariant (`HandoffInv`, `StatusInv`, `GivenInv`) says what is left of the earlier
looks when the last one is compared with them, e.g. that `done` is the difference
of the counters and the sample.

In the same module are the types of all waits (`WaitsTypeCorrect`), and what
`ChannelWaits_proofs` and `BackendHealth_proofs` prove of a component, for the
composition (`ChannelsInWaits`, `HealthInWaits`).  `WaitsInv` says that the wait
that runs satisfies its component's invariant, and that the variables of the
others are as they were; a step of `Waits` is then a step of the component, or
leaves its variables alone, and the component's lemmas apply as they stand.

`UrlMap_proofs`: any number of classes, in any order, any of them skipped, if the
last one has a name of its own (`OrderConstant`; with a namesake it would
remove the resources twice).  `TypeOK`, `ResourcesAreShared` and
`SetupFailsForGood` follow from `IInv`: what the setup has done at each step
(`SetupProgress`), that the resources are complete from the first class's start to
the last one's cleanup (`StaysComplete`), and that the default server, once
requested, stays so (`DefaultFirst`, `StuckForGood`).  `RestartsAreReported` and
`NothingIsLeft` follow from `EndInv`, which says the same of the cleanups: what
is gone at each step (`Removed`) and which class is the last (`LastFinishes`), as
long as no cleanup was given up or passed over an error (`gaveUp`); the setup may
have, any number of times.

`ServerPods_proofs`: any number of pods and failures, with or without hooks.
`TypeOK`, `HooksAreReleased`, `FlushRacesOnce` and `NothingIsLeftBehind`.  The main
thread goes through the pods in loops that any error cuts short, and `IInv`
says what each loop has done for the pods that are not in `todo` any more
(`FreedSoFar`, `KilledSoFar`, `SavedSoFar`); how a file depends on its thread
(`Files`); and that a file that `flush()` met closing is closed for good
when the next attempt comes (`Races`).

`TrafficDirector_proofs`: any suite of any manager, whatever it creates and
deletes in whichever order, with any failures and Ctrl-C.  `TypeOK`,
`DeletionByNameIsComplete`, `ForeignFirewallKept`, `RoutingLeaksAreFound` and
`LeaksAreExplained`.  `IInv` says what a cleanup
by name has still to come to at each of its steps (`ForcedSoFar`); that the order
of each manager, and of those that the script makes, has a step for all that a test
can have made is a fact about these sequences (`CleanupCovers`,
`JanitorCovers`).  The assumption `SuitesAreManaged` is that a test creates by
its manager's create_ methods, and no health check for a serverless group.

`RoutingLeaksAreFound` and the rest of that module's theorems about leaks need
two assumptions more.  `HealthCheckFirst`: a backend service is created after the
health check, which every test does first.  `TestDeletesInOrder`: a test that
deletes deletes what it created, users first; the one that does
(api_listener_test.py:115-117) deletes the forwarding rule, the proxy and the url
map.  `ChainInv` says that what is used is there, because the service refuses to
delete it, and that all routing leads to something of the routing (`Anchored`): so
by descent along the levels of resources (`Level`), what is left of it holds a
health check.  That the order of each manager goes through the resources by
level is a fact about these sequences (`Sorted`), and with it
`LeakInv` says of each resource, at each step of a cleanup, what accounts for it:
a step still to come, a failed request, or a user that this pass has left.

`K8sRunners_proofs`: any runners in any namespaces, with any orders of starts and
cleanups, runs, failures and Ctrl-C, if cleanup goes through all runners and one of
each namespace is passed `force_namespace` (`SuitesAreCleaned`).  `Basics` (types,
and where a run or cleanup can be) holds first; each property has an invariant of its own
beside it, which says what the steps still to come will do.  `NothingForgotten` from
`Remembered`: what a runner that is not running still owns is kept for others, and a
cleanup that runs comes to the rest.  `IdentityOutlivesWorkload` from
`Identified`: a workload that stays has its identity, which a run makes before it,
and a cleanup has still to come to the workload before the identity.
`ForcedCleanupRemoves` from `Swept`: every object was made for some runner
(`AllKnown`), and in a pass of the forced cleanup each is settled or
still to come (`Sweeping`).  `RunsAreRecorded` from `Histories`: what a runner has
recorded is what it deployed, but for the run at hand, and in order (`Chronicle`);
while the test goes on no run is recorded twice (`Unrepeated`), as a runner starts
again only once it is stopped; and the runners that a cleanup has passed are
stopped.  Only the last run, whose cleanup `tearDown` repeats, is recorded again.

`LeaksAreExplained` with force follows from `ForcedCleanupRemoves`; without it
from `Explains`: whatever exists is excused or known to a runner whose cleanup is
still to come in this pass (`Accounted`).  A runner that reuses a namespace does
not delete it, so it must not be the one that creates it unless all of its
runners reuse it.  This is what `SuitesShare` assumes of the order of the starts
(change_backend_service_test.py:82-83, circuit_breaking_test.py:182-183 and
remove_neg_test.py:80-81 start the owner first), together with what is true of
dualstack_test.py:67-78, that the runners of one service all reuse it, and of the
restarted clients, that they have a namespace of their own or reuse it; and that
the owner's namespace stays until the test is over is `Namespaces`.

Only checked, not proved: liveness (`CallsReturn`, `EventuallyCleaned`,
`TearDownEnds`, `CleanupSucceeds`, `CollectorsEnd`, `WaitsEnd`, `SuiteEnds`), which
is outside the prover's reach.  Every invariant that a run checks is a theorem.

## Plan

What is left, in this order:

1. A manager with Kubernetes runners in one module: the network endpoint groups
   that a backend service uses belong to a service of the namespace.
2. The patches of backend services and url maps of a manager.

## Not modelled

Manifests and templates, flags, logging and its links, generated imports, the
shell glue of Kokoro, the manual tools of `bin/`, and the traffic itself:
client, servers, Traffic Director's propagation.  The test control plane, a Go
program of one test whose handlers hold a lock around a library's cache; the fallback
test, which starts containers one after the other; the session affinity and
bootstrap tests, which assert in a straight line or reuse the runners; and the
sweep of Kubernetes namespaces in the cleanup script, which keeps nothing
between two of its commands; and the attestation rules of `gcp/iam.py`, one
request each, which only the Cloud Run client runner makes.  `PROJECT.json` gives the reason for
each.  Times are order only: a timeout may happen whenever a wait is not over.

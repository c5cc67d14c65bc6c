------------------------------ MODULE ServerPods ------------------------------
(***************************************************************************)
(* The pods of one server deployment as KubernetesServerRunner keeps them: *)
(* the maps of started, stopping and stopped pods, a test server, a port   *)
(* forwarder and a log collector per pod, delete_pod, and the part of      *)
(* cleanup() that stops all this and deletes the deployment, repeated by   *)
(* tearDown (framework/test_app/runners/k8s/k8s_base_runner.py and         *)
(* k8s_xds_server_runner.py).  Local dev mode and log collection are on.   *)
(***************************************************************************)
EXTENDS LogCollector, FiniteSets

CONSTANTS
  PreStopHook,   \* deployment_args.pre_stop_hook
  MaxFaults      \* bound: requests that fail, pods that vanish

ASSUME ServerPodsConstants ==
  Pods \subseteq Nat /\ IsFiniteSet(Pods) /\ PreStopHook \in BOOLEAN
    /\ MaxFaults \in Nat

Attempts == 3   \* of cleanup in tearDown

VARIABLES
  pod,         \* pod -> "running", "terminating" or "gone"
  released,    \* pod -> its pre-stop hook lets it go
  process,     \* pod -> its kubectl port-forward: "none", "alive", "killed"
  started, stopping, stopped,   \* pods_started, pods_stopping, pods_stopped
  servers,     \* pods_to_servers
  forwarders,  \* pod_port_forwarders
  collectors,  \* pod_log_collectors
  deployment,  \* deployment is not None
  pc,          \* what the main thread does
  todo,        \* the pods its loop has not reached
  attempt,     \* the attempt of tearDown's retryer
  faults,
  raised,      \* history: pod -> times flush() raised
  unreached,   \* history: pods whose release met an RpcError
  swallowed,   \* history: the deletion of the deployment was given up
  late         \* history: the deployment outlived a wait for its deletion

cluster == <<pod, released, process>>
maps    == <<started, stopping, stopped, servers>>
lists   == <<forwarders, collectors>>
control == <<pc, todo, attempt>>
history == <<raised, unreached, swallowed, late>>
vars == <<logVars, cluster, maps, lists, deployment, control, faults, history>>

Alive(p) == pod[p] # "gone"

\* Dictionaries and lists keep the order of the pods.
IsFirst(p) == p \in todo /\ \A q \in todo : p <= q

Goto(label, ps) == pc' = label /\ todo' = ps

Init ==
  /\ LogInit
  /\ pod = [p \in Pods |-> "running"]
  /\ released = [p \in Pods |-> ~PreStopHook]
  /\ process = [p \in Pods |-> "none"]
  /\ started = {} /\ stopping = {} /\ stopped = {} /\ servers = {}
  /\ forwarders = {} /\ collectors = {} /\ deployment = TRUE
  /\ pc = "start" /\ todo = Pods /\ attempt = 1 /\ faults = 0
  /\ raised = [p \in Pods |-> 0] /\ unreached = {} /\ swallowed = FALSE
  /\ late = FALSE

Fails == faults < MaxFaults /\ faults' = faults + 1

-------------------------------------------------------------------------------
(* run: _make_servers_for_deployment *)

_pod_started_logic(p) ==
  /\ pc = "start" /\ IsFirst(p)
  /\ started' = started \cup {p}
  /\ collectors' = collectors \cup {p}
  /\ pod_start_logging(p)
  /\ todo' = todo \ {p}
  /\ UNCHANGED <<cluster, stopping, stopped, servers, forwarders, deployment,
                 pc, attempt, faults, history>>

_start_completed ==
  /\ pc = "start" /\ todo = {}
  /\ Goto("serve", started)
  /\ UNCHANGED <<logVars, cluster, maps, lists, deployment, attempt, faults,
                 history>>

_xds_test_server_for_pod(p) ==
  /\ pc = "serve" /\ IsFirst(p)
  /\ process' = [process EXCEPT ![p] = "alive"]
  /\ forwarders' = forwarders \cup {p}
  /\ servers' = servers \cup {p}
  /\ todo' = todo \ {p}
  /\ UNCHANGED <<logVars, pod, released, started, stopping, stopped,
                 collectors, deployment, pc, attempt, faults, history>>

Runs ==
  /\ pc = "serve" /\ todo = {}
  /\ Goto("test", {})
  /\ UNCHANGED <<logVars, cluster, maps, lists, deployment, attempt, faults,
                 history>>

\* A pod does not start, or kubectl exits (connect() closes the forwarder).
RunRaises ==
  /\ pc \in {"start", "serve"} /\ Fails
  /\ Goto("cleanup", {})
  /\ UNCHANGED <<logVars, cluster, maps, lists, deployment, attempt, history>>

-------------------------------------------------------------------------------
(* The test *)

\* Slip: a pod that is deleted is forgotten at once.
ForgetStopping(p) == started' = started \ {p} /\ UNCHANGED stopping

\* Slip: it stays among the started ones.
KeepStarted(p) ==
  stopping' = stopping \cup ({p} \cap started) /\ UNCHANGED started

_pod_stopping_logic(p) ==
  IF p \in started
  THEN started' = started \ {p} /\ stopping' = stopping \cup {p}
  ELSE UNCHANGED <<started, stopping>>

\* The finally clause runs on every path; without ignore_errors the exception
\* ends the test.
delete_pod(p, ignore_errors, wait_for_deletion) ==
  /\ pc = "test"
  /\ _pod_stopping_logic(p)
  /\ \/ /\ Alive(p)
        /\ pod' = [pod EXCEPT ![p] = "terminating"]
        /\ IF wait_for_deletion THEN Goto("podWait", {p}) ELSE Goto("test", {})
        /\ UNCHANGED faults
     \/ /\ IF Alive(p) THEN Fails ELSE UNCHANGED faults
        /\ Goto(IF ignore_errors THEN "test" ELSE "cleanup", {})
        /\ UNCHANGED pod
  /\ UNCHANGED <<logVars, released, process, stopped, servers, lists,
                 deployment, attempt, history>>

_pod_stopped_logic(p) ==
  /\ pc = "podWait" /\ p \in todo /\ ~Alive(p)
  /\ started' = started \ {p} /\ stopping' = stopping \ {p}
  /\ stopped' = stopped \cup ({p} \cap (started \cup stopping))
  /\ Goto("test", {})
  /\ UNCHANGED <<logVars, cluster, servers, lists, deployment, attempt, faults,
                 history>>

WaitTimesOut ==
  /\ pc = "podWait" /\ \E p \in todo : Alive(p)
  /\ Goto("cleanup", {})
  /\ UNCHANGED <<logVars, cluster, maps, lists, deployment, attempt, faults,
                 history>>

Reachable(p) == Alive(p) /\ process[p] = "alive"

\* The test itself releases the hook of a server.
TestReleases(p) ==
  /\ pc = "test" /\ p \in servers /\ Reachable(p) /\ ~released[p]
  /\ released' = [released EXCEPT ![p] = TRUE]
  /\ UNCHANGED <<logVars, pod, process, maps, lists, deployment, control,
                 faults, history>>

TestEnds ==
  /\ pc = "test"
  /\ Goto("cleanup", {})
  /\ UNCHANGED <<logVars, cluster, maps, lists, deployment, attempt, faults,
                 history>>

-------------------------------------------------------------------------------
(* cleanup, as far as the deployment goes *)

\* Slip: one attempt less.
OneAttemptLess ==
  IF attempt < Attempts - 1
  THEN Goto("pause", {}) /\ attempt' = attempt + 1
  ELSE Goto("gaveUp", {}) /\ UNCHANGED attempt

\* An exception leaves cleanup().
AttemptFails ==
  IF attempt < Attempts
  THEN Goto("pause", {}) /\ attempt' = attempt + 1
  ELSE Goto("gaveUp", {}) /\ UNCHANGED attempt

\* Slip: no pause between the attempts.
ImmediateAttempt ==
  /\ pc = "pause"
  /\ Goto("cleanup", {})
  /\ UNCHANGED <<logVars, cluster, maps, lists, deployment, attempt, faults,
                 history>>

\* Ten seconds pass, longer than a thread takes to close its file.
NextAttempt ==
  /\ pc = "pause" /\ \A p \in Pods : thread[p] # "clear"
  /\ Goto("cleanup", {})
  /\ UNCHANGED <<logVars, cluster, maps, lists, deployment, attempt, faults,
                 history>>

\* stop_pod_dependencies releases the pre-stop hooks first.
Cleanup ==
  /\ pc = "cleanup"
  /\ CASE ~deployment -> Goto("rest", {})
       [] deployment /\ PreStopHook /\ servers # {} ->
            Goto("releaseStopping", stopping)
       [] OTHER -> Goto("stopLogging", {})
  /\ UNCHANGED <<logVars, cluster, maps, lists, deployment, attempt, faults,
                 history>>

\* KeyError and RpcError are logged, whatever the pod.
release_prestop_hook(p) ==
  /\ pc \in {"releaseStopping", "releaseStarted"} /\ IsFirst(p)
  /\ todo' = todo \ {p}
  /\ \/ /\ released' =
             [released EXCEPT ![p] = @ \/ (p \in servers /\ Reachable(p))]
        /\ UNCHANGED <<faults, unreached>>
     \/ /\ p \in servers /\ Fails
        /\ unreached' = unreached \cup {p}
        /\ UNCHANGED released
  /\ UNCHANGED <<logVars, pod, process, maps, lists, deployment, pc, attempt,
                 raised, swallowed, late>>

ReleasesEnd ==
  /\ pc \in {"releaseStopping", "releaseStarted"} /\ todo = {}
  /\ IF pc = "releaseStopping" THEN Goto("releaseStarted", started)
                               ELSE Goto("stopLogging", {})
  /\ UNCHANGED <<logVars, cluster, maps, lists, deployment, attempt, faults,
                 history>>

StopLogging ==
  /\ pc = "stopLogging"
  /\ maybe_stop_logging
  /\ Goto("close", forwarders)
  /\ UNCHANGED <<cluster, maps, lists, deployment, attempt, faults, history>>

\* Slip: the forwarder is taken off the list before it is closed.
PoppedClose(p) ==
  /\ pc = "close" /\ IsFirst(p)
  /\ forwarders' = {}
  /\ \/ /\ process' = [process EXCEPT ![p] = "killed"]
        /\ todo' = todo \ {p}
        /\ UNCHANGED <<attempt, faults>>
        /\ UNCHANGED pc
     \/ process' = [process EXCEPT ![p] = "killed"] /\ Fails /\ AttemptFails
  /\ UNCHANGED <<logVars, pod, released, maps, collectors, deployment, history>>

\* kill(), and a communicate() that may time out.
close(p) ==
  /\ pc = "close" /\ IsFirst(p)
  /\ process' = [process EXCEPT ![p] = "killed"]
  /\ \/ todo' = todo \ {p} /\ UNCHANGED <<pc, attempt, faults>>
     \/ Fails /\ AttemptFails
  /\ UNCHANGED <<logVars, pod, released, maps, lists, deployment, history>>

ClosesEnd ==
  /\ pc = "close" /\ todo = {}
  /\ forwarders' = {}
  /\ Goto("flush", collectors)
  /\ UNCHANGED <<logVars, cluster, maps, collectors, deployment, attempt,
                 faults, history>>

\* flush(): `if self._out_stream`.
FlushLooks(p) ==
  /\ pc = "flush" /\ IsFirst(p)
  /\ IF FlushSkips(p) THEN todo' = todo \ {p} /\ UNCHANGED pc
                      ELSE pc' = "flushing" /\ UNCHANGED todo
  /\ UNCHANGED <<logVars, cluster, maps, lists, deployment, attempt, faults,
                 history>>

FlushFails(p) ==
  /\ FlushRaises(p)
  /\ raised' = [raised EXCEPT ![p] = @ + 1]
  /\ AttemptFails
  /\ UNCHANGED logVars

\* _out_stream.flush(), then os.fsync(_out_stream.fileno()).
FlushWrites(p) ==
  /\ pc \in {"flushing", "fsync"} /\ IsFirst(p)
  /\ \/ /\ pc = "flushing" /\ ~FlushRaises(p)
        /\ Saved(p)
        /\ pc' = "fsync"
        /\ UNCHANGED <<stop, thread, out, todo, attempt, raised>>
     \/ /\ pc = "fsync" /\ ~FlushRaises(p)
        /\ Goto("flush", todo \ {p})
        /\ UNCHANGED <<logVars, attempt, raised>>
     \/ FlushFails(p)
  /\ UNCHANGED <<cluster, maps, lists, deployment, faults, unreached,
                 swallowed, late>>

FlushesEnd ==
  /\ pc = "flush" /\ todo = {}
  /\ collectors' = {}
  /\ Goto("delete", {})
  /\ UNCHANGED <<logVars, cluster, maps, forwarders, deployment, attempt,
                 faults, history>>

\* _delete_deployment: accepted; a 404; a RetryError, which is logged; another
\* error.
DeleteDeployment ==
  /\ pc = "delete"
  /\ \/ /\ pod' = [p \in Pods |-> IF Alive(p) THEN "terminating" ELSE "gone"]
        /\ Goto("deploymentWait", {})
        /\ UNCHANGED <<deployment, attempt, faults, swallowed>>
     \/ /\ Fails /\ swallowed' = TRUE /\ deployment' = FALSE
        /\ Goto("rest", {})
        /\ UNCHANGED <<pod, attempt>>
     \/ /\ Fails /\ AttemptFails
        /\ UNCHANGED <<pod, deployment, swallowed>>
  /\ UNCHANGED <<logVars, released, process, maps, lists, raised, unreached,
                 late>>

DeploymentDeleted ==
  /\ pc = "deploymentWait"
  /\ \/ /\ \A p \in Pods : ~Alive(p)
        /\ deployment' = FALSE /\ Goto("rest", {})
        /\ UNCHANGED <<attempt, late>>
     \/ /\ \E p \in Pods : Alive(p)
        /\ late' = TRUE
        /\ AttemptFails
        /\ UNCHANGED deployment
  /\ UNCHANGED <<logVars, cluster, maps, lists, faults, raised, unreached,
                 swallowed>>

\* The rest of cleanup() is in K8sRunners.
Rest ==
  /\ pc = "rest"
  /\ \/ Goto("done", {}) /\ UNCHANGED <<attempt, faults>>
     \/ Fails /\ AttemptFails
  /\ UNCHANGED <<logVars, cluster, maps, lists, deployment, history>>

-------------------------------------------------------------------------------
(* The cluster *)

\* The hook was released, or the grace period is over.
PodTerminates(p) ==
  /\ pod[p] = "terminating"
  /\ pod' = [pod EXCEPT ![p] = "gone"]
  /\ UNCHANGED <<logVars, released, process, maps, lists, deployment, control,
                 faults, history>>

PodVanishes(p) ==
  /\ pod[p] = "running" /\ Fails
  /\ pod' = [pod EXCEPT ![p] = "gone"]
  /\ UNCHANGED <<logVars, released, process, maps, lists, deployment, control,
                 history>>

mainVars ==
  <<cluster, maps, lists, deployment, control, faults, history>>

LogStep(p) == ThreadStep(p) /\ UNCHANGED mainVars

\* A thread is not stuck in the stream of a pod that is gone.
LogProgress(p) ==
  /\ ThreadProgress(p) \/ (~Alive(p) /\ StreamEnds(p))
  /\ UNCHANGED mainVars

MainStep ==
  \/ _start_completed \/ Runs \/ RunRaises \/ WaitTimesOut \/ TestEnds
  \/ NextAttempt \/ Cleanup \/ ReleasesEnd \/ StopLogging \/ ClosesEnd
  \/ FlushesEnd \/ DeleteDeployment \/ DeploymentDeleted \/ Rest
  \/ \E p \in Pods :
       \/ _pod_started_logic(p) \/ _xds_test_server_for_pod(p)
       \/ _pod_stopped_logic(p) \/ release_prestop_hook(p) \/ close(p)
       \/ FlushLooks(p) \/ FlushWrites(p)

TestStep ==
  \E p \in Pods :
    \/ \E i, w \in BOOLEAN : delete_pod(p, i, w)
    \/ TestReleases(p)

Next ==
  \/ MainStep \/ TestStep
  \/ \E p \in Pods : LogStep(p) \/ PodTerminates(p) \/ PodVanishes(p)

Spec ==
  /\ Init /\ [][Next]_vars
  /\ WF_vars(MainStep)
  /\ \A p \in Pods : WF_vars(LogProgress(p)) /\ WF_vars(PodTerminates(p))

-------------------------------------------------------------------------------
(* Properties *)

\* A pod is in one of the maps at most.
TypeOK ==
  /\ LogTypeOK
  /\ pod \in [Pods -> {"running", "terminating", "gone"}]
  /\ released \in [Pods -> BOOLEAN]
  /\ process \in [Pods -> {"none", "alive", "killed"}]
  /\ started \subseteq Pods /\ stopping \subseteq Pods \ started
  /\ stopped \subseteq Pods \ (started \cup stopping)
  /\ servers \subseteq Pods /\ forwarders \subseteq servers
  /\ collectors \subseteq Pods /\ deployment \in BOOLEAN
  /\ todo \subseteq Pods /\ attempt \in 1..Attempts
  /\ faults \in 0..MaxFaults /\ raised \in [Pods -> Nat]
  /\ unreached \subseteq Pods /\ swallowed \in BOOLEAN
  /\ late \in BOOLEAN

\* When the deployment is deleted, no pod the runner has a server for is held
\* back by its pre-stop hook unless the release itself failed: whatever was
\* deleted in the test, and though the forwarders through which the hooks are
\* released are closed by the same method.
HooksAreReleased ==
  pc = "delete" =>
    \A p \in servers : Alive(p) => released[p] \/ p \in unreached

\* A flush that meets the closing of the file costs an attempt of tearDown, but
\* never two for one pod.
FlushRacesOnce == \A p \in Pods : raised[p] <= 1

\* A cleanup() that returned has left nothing behind, though each of its loops
\* may be cut short by an error and done anew: no kubectl process, and no line
\* written before the stop that is not in its file ("Still, at least it'll
\* flush the buffers").
NothingIsLeftBehind ==
  pc = "done" => \A p \in Pods : process[p] # "alive" /\ ~unsaved[p]

\* A cleanup ends, and with fewer pods than attempts the races alone never make
\* tearDown give up.
CleanupSucceeds ==
  pc = "cleanup" ~> pc = "done" \/ (pc = "gaveUp" /\ (faults > 0 \/ late))

\* The threads end after the pods they follow, though they look at the stop
\* event only when something arrives.
CollectorsEnd ==
  pc = "done" /\ ~swallowed ~> \A p \in Pods : thread[p] \in {"none", "ended"}
===============================================================================

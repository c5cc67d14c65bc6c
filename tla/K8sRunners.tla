------------------------------ MODULE K8sRunners ------------------------------
(***************************************************************************)
(* The Kubernetes runners of one test and the objects they own: run,       *)
(* cleanup, their repetition within a test, tearDown with its three        *)
(* attempts and the Ctrl-C handler (framework/test_app/runners/k8s/,       *)
(* framework/infrastructure/k8s.py, framework/xds_k8s_testcase.py).        *)
(*                                                                         *)
(* The cluster deletes asynchronously: an object whose deletion was        *)
(* accepted keeps its name until it is gone, and a namespace takes what it *)
(* contains with it.  A runner knows an object only by the field that its  *)
(* run() assigned.  Pods are in ServerPods.                                *)
(***************************************************************************)
EXTENDS Naturals, Sequences

CONSTANT
  Suites   \* test suite -> its runners, and what it does with them

Attempts == 3       \* of cleanup in tearDown
NoRunner == "none"

Policies == {"pol", "filter", "bpol"}        \* made by the test, GAMMA only
NotReset == {"pmName", "pm", "front", "route"} \cup Policies
Kinds == {"ns", "svc", "grant", "sa", "dep"} \cup NotReset

\* How initKubernetesServerRunner and initKubernetesClientRunner make a runner,
\* and what else the test does with it.
RunnerArgs ==
  [kind           : {"client", "server", "gamma"},
   ns             : STRING,    \* the name of its namespace
   service        : STRING,    \* ... of its service
   reuseNamespace : BOOLEAN,
   reuseService   : BOOLEAN,
   forceNamespace : BOOLEAN,   \* its cleanup is passed force_namespace
   restartable    : BOOLEAN]   \* the test itself cleans it up and runs it again

SuiteFields ==
  {"runners",
   "starts",                   \* the order in which the test starts them
   "cleanup",                  \* the order in which cleanup() calls them
   "identity",                 \* workload identity and IAM policy binding
   "csm",                      \* enable_csm_observability
   "force",                    \* the --force_cleanup flag
   "leftovers",                \* objects that exist beforehand
   "maxRuns", "maxFaults"}     \* bounds: runs of a runner, failing requests

ASSUME K8sConstants ==
  \A n \in DOMAIN Suites :
    LET s == Suites[n]
    IN  /\ DOMAIN s = SuiteFields
        /\ s.runners \in [DOMAIN s.runners -> RunnerArgs]
        /\ NoRunner \notin DOMAIN s.runners
        /\ s.starts \in Seq(DOMAIN s.runners)
        /\ s.cleanup \in Seq(DOMAIN s.runners)
        /\ s.identity \in BOOLEAN /\ s.csm \in BOOLEAN /\ s.force \in BOOLEAN
        /\ \A o \in s.leftovers :
             \E r \in DOMAIN s.runners :
               o = <<s.runners[r].ns, "ns", s.runners[r].ns>>
        /\ s.maxRuns \in Nat /\ s.maxFaults \in Nat

\* cleanup() of a test case goes through all its runners, and one runner of each
\* namespace is passed force_namespace.
ASSUME SuitesAreCleaned ==
  \A n \in DOMAIN Suites :
    LET s == Suites[n]
    IN  /\ Len(s.cleanup) > 0
        /\ \A r \in DOMAIN s.runners :
             \E i \in DOMAIN s.cleanup : s.cleanup[i] = r
        /\ \A r \in DOMAIN s.runners :
             \E q \in DOMAIN s.runners :
               s.runners[q].ns = s.runners[r].ns /\ s.runners[q].forceNamespace

\* A runner that reuses the namespace of one that deletes it is started after
\* it: the second servers of a test.  The runners of one service all reuse it,
\* or none does.  A runner that is restarted and deletes its namespace is alone
\* there: the client of a test.
ASSUME SuitesShare ==
  \A n \in DOMAIN Suites :
    LET s  == Suites[n]
        As == s.runners
        SameNs(p, q) == As[p].ns = As[q].ns
        Owner(p)     == ~As[p].reuseNamespace
    IN  /\ \A i \in DOMAIN s.starts : \A p \in DOMAIN As :
             SameNs(p, s.starts[i]) /\ Owner(p) /\ ~Owner(s.starts[i]) =>
               \E j \in 1..(i - 1) :
                 SameNs(s.starts[j], p) /\ Owner(s.starts[j])
        /\ \A p, q \in DOMAIN As :
             /\ SameNs(p, q) /\ As[p].service = As[q].service =>
                  As[p].reuseService = As[q].reuseService
             /\ SameNs(p, q) /\ As[p].restartable /\ Owner(p) => p = q

VARIABLES
  suite,     \* the test suite that runs
  live,      \* objects that exist
  dying,     \* objects whose deletion was accepted
  held,      \* runner -> its fields that are not None
  stage,     \* runner -> what its time_ fields say
  id,        \* runner -> deployment_id: the number of the run, or 0
  runs,      \* runner -> runs so far
  history,   \* runner -> run_history
  deployed,  \* history: runner -> its runs that were given a deployment_id
  phase,     \* what the process is doing
  pos,       \* the position in cleanup(); 0 when the test itself cleans up
  who,       \* the runner whose run() or cleanup() is running
  step,      \* its next step
  waiting,   \* the step waits for an object to be gone
  attempt,   \* the attempt of tearDown's retryer
  force,     \* force_cleanup
  outer,     \* the runner whose cleanup() Ctrl-C interrupted
  sigint,    \* _handling_sigint
  faults,    \* requests that failed so far
  tainted,   \* history: objects with a failed request about them
  refused    \* history: objects this pass of cleanup() failed to delete

runner  == <<held, stage, id, deployed, runs, history>>
control == <<phase, pos, who, step, waiting, attempt, force, outer, sigint>>
vars == <<suite, live, dying, runner, control, faults, tainted, refused>>

Running == {"test", "run", "restarts", "td", "cleanup"}
Over    == {"done", "gaveUp", "skipped", "orphaned"}

Suite   == Suites[suite]
Runners == DOMAIN Suite.runners
Args(r) == Suite.runners[r]

\* Namespace, kind and name; runners may share a namespace or a service.
Name(r, k) ==
  <<Args(r).ns, k, CASE k = "ns"  -> Args(r).ns
                     [] k = "svc" -> Args(r).service
                     [] OTHER     -> r>>

Objects == {Name(r, k) : r \in Runners, k \in Kinds \ {"pmName"}}

NsOf(o)   == <<o[1], "ns", o[1]>>
Inside(o) == o[2] \notin {"ns", "grant"}
IsDying(o) == o \in dying \/ (Inside(o) /\ NsOf(o) \in dying)

-------------------------------------------------------------------------------
(* The steps of run and cleanup *)

If(cond, s) == IF cond THEN s ELSE << >>

RunSteps(r) ==
  <<"ns">>
  \o If(Args(r).kind # "client", <<"svc">>)
  \o If(Args(r).kind = "server", <<"neg">>)
  \o If(Args(r).kind = "gamma", <<"front", "route">>)
  \o If(Suite.identity, <<"grant", "sa">>)
  \o <<"dep">> \o If(Suite.csm, <<"pm">>) \o <<"pods">>
  \o If(Args(r).kind = "gamma", <<"neg">>)

\* Slip: the service account, by which cleanup knows of the grant, goes first.
AccountFirstSteps(r) ==
  If(Args(r).kind = "gamma",
     <<"pol", "filter", "bpol", "route", "front", "svc">>)
  \o <<"dep">> \o If(Args(r).kind = "server", <<"svc">>)
  \o <<"sa", "grant", "pm", "ns">>

\* Slip: the identity goes before the workload that uses it.
IdentityFirstSteps(r) ==
  <<"grant", "sa", "dep">> \o If(Args(r).kind # "client", <<"svc">>)
  \o <<"pm", "ns">>

CleanupSteps(r) ==
  If(Args(r).kind = "gamma",
     <<"pol", "filter", "bpol", "route", "front", "svc">>)
  \o <<"dep">> \o If(Args(r).kind = "server", <<"svc">>)
  \o <<"grant", "sa", "pm", "ns">>

Init ==
  /\ suite \in DOMAIN Suites
  /\ live = Suite.leftovers /\ dying = {}
  /\ held = [r \in Runners |-> {}]
  /\ stage = [r \in Runners |-> "new"]
  /\ id = [r \in Runners |-> 0]
  /\ deployed = [r \in Runners |-> {}]
  /\ runs = [r \in Runners |-> 0]
  /\ history = [r \in Runners |-> << >>]
  /\ phase = "test" /\ pos = 0 /\ who = NoRunner /\ step = 1
  /\ waiting = FALSE /\ attempt = 1 /\ force = Suite.force
  /\ outer = NoRunner /\ sigint = FALSE
  /\ faults = 0 /\ tainted = {} /\ refused = {}

\* The cluster finishes a deletion.
Gone(o) ==
  /\ LET inside == {x \in live : Inside(x) /\ NsOf(x) = o}
         gone   == {o} \cup inside
     IN  live' = live \ gone /\ dying' = dying \ gone
  /\ UNCHANGED <<runner, control, faults, tainted, refused>>

Goto(p, s) == phase' = p /\ step' = s /\ waiting' = FALSE
Stay == UNCHANGED <<pos, who, attempt, force, outer, sigint>>

-------------------------------------------------------------------------------
(* run *)

\* A test starts its runners in its order, and may start the last one again.
Startable(r) ==
  \E i \in DOMAIN Suite.starts :
    /\ Suite.starts[i] = r
    /\ \A k \in 1..(i - 1) : runs[Suite.starts[k]] > 0
    /\ \A k \in (i + 1)..Len(Suite.starts) : runs[Suite.starts[k]] = 0

\* Slip: run() does not look whether the runner has been started.
UnguardedStarts(r) == TRUE

\* The check at the top of run(): a second start is an error.
Starts(r) == stage[r] \in {"new", "stopped"}

Run(r) ==
  /\ phase = "test" /\ runs[r] < Suite.maxRuns /\ Startable(r)
  /\ runs' = [runs EXCEPT ![r] = @ + 1]
  /\ IF Starts(r)
     THEN /\ held' = [held EXCEPT ![r] = @ \cap NotReset]
          /\ stage' = [stage EXCEPT ![r] = "requested"]
          /\ id' = [id EXCEPT ![r] = 0]
          /\ Goto("run", 1) /\ who' = r
     ELSE Goto("restarts", 1) /\ UNCHANGED <<held, stage, id, who>>
  /\ UNCHANGED <<live, dying, deployed, history, pos, attempt, force, outer,
                 sigint, faults, tainted, refused>>

\* The object is there for the taking: reuse_namespace, reuse_service.
Reuses(r, k) ==
  /\ Name(r, k) \in live
  /\ \/ k = "ns" /\ Args(r).reuseNamespace
     \/ k = "svc" /\ Args(r).reuseService

CanCreate(r, k) ==
  /\ Name(r, k) \notin live
  /\ Inside(Name(r, k)) => NsOf(Name(r, k)) \in live \ dying

\* _create_deployment gives the deployment its random deployment_id.
Identifies(r, k) ==
  IF k = "dep" THEN /\ id' = [id EXCEPT ![r] = runs[r]]
                    /\ deployed' = [deployed EXCEPT ![r] = @ \cup {runs[r]}]
               ELSE UNCHANGED <<id, deployed>>

\* deployment_id and pod_monitoring_name are assigned before the request.
Requested(r, k) ==
  /\ Identifies(r, k)
  /\ held' = IF k = "pm" THEN [held EXCEPT ![r] = @ \cup {"pmName"}] ELSE held

RunCreates(r, k) ==
  /\ k \in Kinds
  /\ \/ Reuses(r, k) /\ UNCHANGED live
     \/ ~Reuses(r, k) /\ CanCreate(r, k) /\ live' = live \cup {Name(r, k)}
     \/ k = "grant" /\ Name(r, k) \in live /\ UNCHANGED live
  /\ held' = [held EXCEPT ![r] =
       @ \cup (CASE k = "grant" -> {} [] k = "pm" -> {k, "pmName"}
                  [] OTHER -> {k})]
  /\ Identifies(r, k)
  /\ UNCHANGED stage

\* The pods run, or the NEG annotation is there: nothing is created.
RunWaits(r, k) ==
  /\ k \notin Kinds
  /\ stage' = IF k = "pods" THEN [stage EXCEPT ![r] = "completed"] ELSE stage
  /\ UNCHANGED <<live, held, id, deployed>>

\* The request fails, or its answer is lost (the retry of a creation that was
\* carried out is a conflict), or a wait times out; the exception ends the test.
RequestFails(r, k) ==
  /\ \/ k \in Kinds /\ ~Reuses(r, k) /\ ~CanCreate(r, k) /\ k # "grant"
        /\ UNCHANGED <<faults, live>>
     \/ /\ faults < Suite.maxFaults /\ faults' = faults + 1
        /\ live' \in {live} \cup (IF k \in Kinds /\ CanCreate(r, k)
                                  THEN {live \cup {Name(r, k)}} ELSE {})
  /\ tainted' = tainted \cup (IF k \in Kinds THEN {Name(r, k)} ELSE {})
  /\ Goto("restarts", 1)

RunRaises(r, k) ==
  /\ RequestFails(r, k)
  /\ Requested(r, k)
  /\ UNCHANGED <<stage, who>>

RunStep ==
  /\ phase = "run"
  /\ IF step > Len(RunSteps(who))
     THEN /\ Goto("test", 1) /\ who' = NoRunner
          /\ UNCHANGED <<live, held, stage, id, deployed, faults, tainted>>
     ELSE LET k == RunSteps(who)[step]
          IN  \/ /\ RunCreates(who, k) \/ RunWaits(who, k)
                 /\ Goto("run", step + 1)
                 /\ UNCHANGED <<faults, tainted, who>>
              \/ RunRaises(who, k)
  /\ UNCHANGED <<dying, runs, history, pos, attempt, force, outer, sigint,
                 refused>>

\* create_session_affinity_policy_..., create_session_affinity_filter,
\* create_backend_policy: called by the test, once the server runs.
MakesPolicy(r, k) ==
  /\ phase = "test" /\ Args(r).kind = "gamma" /\ k \in Policies \ held[r]
  /\ stage[r] = "completed"

CreatePolicy(r, k) ==
  /\ MakesPolicy(r, k) /\ CanCreate(r, k)
  /\ live' = live \cup {Name(r, k)}
  /\ held' = [held EXCEPT ![r] = @ \cup {k}]
  /\ UNCHANGED <<dying, stage, id, deployed, runs, history, control, faults,
                 tainted, refused>>

PolicyFails(r, k) ==
  /\ MakesPolicy(r, k) /\ RequestFails(r, k)
  /\ Stay /\ UNCHANGED <<dying, runner, refused>>

-------------------------------------------------------------------------------
(* cleanup *)

\* The field says there is something to delete, and it is not kept for reuse.
IsHeld(r, k) ==
  /\ (IF k = "grant" THEN "sa" ELSE k) \in held[r]
  /\ k = "ns" => ~Args(r).reuseNamespace
  /\ k = "svc" => ~Args(r).reuseService

\* Slip: force does not reach the identity.
ForcedButIdentity(r, k) ==
  /\ force /\ pos > 0 /\ k \notin {"grant", "sa"}
  /\ k = "ns" => Args(r).forceNamespace
  /\ k = "pm" => "pmName" \in held[r]

\* A test that restarts its client does not pass force.
Forced(r, k) ==
  /\ force /\ pos > 0
  /\ k = "ns" => Args(r).forceNamespace
  /\ k \in {"grant", "sa"} => Suite.identity
  /\ k = "pm" => "pmName" \in held[r]

\* The condition on which cleanup() deletes the object.
Deletes(r, k) == IsHeld(r, k) \/ Forced(r, k)

Waits(k) == k \notin {"grant", "pm"}

\* The step is over, and the field is None.
NextStep(r, k) ==
  /\ Goto("cleanup", step + 1)
  /\ held' = [held EXCEPT ![r] =
       @ \ ({k} \cup IF k = "pm" THEN {"pmName"} ELSE {})]

Skip(r, k) ==
  /\ ~Deletes(r, k)
  /\ Goto("cleanup", step + 1)
  /\ UNCHANGED <<live, dying, held, faults, tainted, refused>>

\* The deletion is accepted.  A binding is revoked on the spot; nobody waits
\* for a PodMonitoring.
DeleteAccepted(r, k) ==
  /\ Deletes(r, k) /\ ~waiting /\ Name(r, k) \in live
  /\ IF k = "grant" THEN live' = live \ {Name(r, k)} /\ UNCHANGED dying
                    ELSE dying' = dying \cup {Name(r, k)} /\ UNCHANGED live
  /\ IF Waits(k) THEN waiting' = TRUE /\ UNCHANGED <<phase, step, held>>
                 ELSE NextStep(r, k)
  /\ UNCHANGED <<faults, tainted, refused>>

\* 404, or the wait saw the object disappear.
DeleteDone(r, k) ==
  /\ Deletes(r, k) /\ Name(r, k) \notin live
  /\ NextStep(r, k)
  /\ UNCHANGED <<live, dying, faults, tainted, refused>>

\* RetryError of the deletion, or gcp.api.Error of the revocation: logged.
DeleteSwallowed(r, k) ==
  /\ Deletes(r, k) /\ ~waiting /\ Name(r, k) \in live
  /\ faults < Suite.maxFaults /\ faults' = faults + 1
  /\ tainted' = tainted \cup {Name(r, k)}
  /\ refused' = refused \cup {Name(r, k)}
  /\ dying' \in {dying, IF k = "grant" THEN dying
                                       ELSE dying \cup {Name(r, k)}}
  /\ NextStep(r, k)
  /\ UNCHANGED live

\* Slip: a run is recorded only if its pods came up.
CompletedOnly(r) ==
  IF stage[r] = "completed" THEN Append(history[r], id[r]) ELSE history[r]

Record(r) == IF id[r] # 0 THEN Append(history[r], id[r]) ELSE history[r]

\* _stop, in the finally clause of cleanup.
Stop(r) ==
  /\ stage' = [stage EXCEPT ![r] = "stopped"]
  /\ history' = [history EXCEPT ![r] = Record(r)]

\* Slips: attempts are not counted; one attempt too many.
EndlessAttemptFails ==
  phase' = "td" /\ refused' = {} /\ UNCHANGED attempt

OneMoreAttempt ==
  IF attempt <= Attempts
  THEN phase' = "td" /\ attempt' = attempt + 1 /\ refused' = {}
  ELSE phase' = "gaveUp" /\ UNCHANGED <<attempt, refused>>

\* An exception leaves cleanup(): tearDown tries again, or logs it.
AttemptFails ==
  IF attempt < Attempts
  THEN phase' = "td" /\ attempt' = attempt + 1 /\ refused' = {}
  ELSE phase' = "gaveUp" /\ UNCHANGED <<attempt, refused>>

\* The wait for the deletion times out, or a request fails in another way.
CleanupRaises(r, k) ==
  /\ Deletes(r, k)
  /\ \/ waiting /\ Name(r, k) \in live /\ UNCHANGED faults
     \/ ~waiting /\ faults < Suite.maxFaults /\ faults' = faults + 1
  /\ Stop(r)
  /\ step' = 1 /\ waiting' = FALSE
  /\ IF pos = 0 THEN phase' = "restarts" /\ UNCHANGED <<attempt, refused>>
                ELSE AttemptFails
  /\ UNCHANGED <<live, dying, held, tainted>>

CleanupStep ==
  /\ phase = "cleanup" /\ step <= Len(CleanupSteps(who))
  /\ LET k == CleanupSteps(who)[step]
     IN  \/ /\ \/ Skip(who, k) \/ DeleteAccepted(who, k)
               \/ DeleteDone(who, k) \/ DeleteSwallowed(who, k)
            /\ UNCHANGED <<stage, history, attempt>>
         \/ CleanupRaises(who, k)
  /\ UNCHANGED <<id, deployed, runs, pos, who, force, outer, sigint>>

\* The runner's cleanup() returns: the next one's, or the test goes on.
CleanupReturns ==
  /\ phase = "cleanup" /\ step > Len(CleanupSteps(who))
  /\ Stop(who)
  /\ IF pos = 0 THEN Goto("test", 1) /\ who' = NoRunner /\ UNCHANGED pos
     ELSE IF pos < Len(Suite.cleanup)
     THEN Goto("cleanup", 1) /\ who' = Suite.cleanup[pos + 1] /\ pos' = pos + 1
     ELSE Goto("done", 1) /\ UNCHANGED <<who, pos>>
  /\ UNCHANGED <<live, dying, held, id, deployed, runs, attempt, force, outer,
                 sigint, faults, tainted, refused>>

\* A test restarts its client.
TestCleanup(r) ==
  /\ phase = "test" /\ Args(r).restartable /\ stage[r] = "completed"
  /\ Goto("cleanup", 1) /\ who' = r
  /\ UNCHANGED <<live, dying, runner, pos, attempt, force, outer, sigint,
                 faults, tainted, refused>>

-------------------------------------------------------------------------------
(* tearDown and Ctrl-C *)

TestEnds ==
  /\ phase = "test"
  /\ Goto("restarts", 1) /\ Stay
  /\ UNCHANGED <<live, dying, runner, faults, tainted, refused>>

\* tearDown counts the restarts of the pods first; an error it does not expect
\* ends tearDown there.
CountRestarts ==
  /\ phase = "restarts"
  /\ \/ Goto("td", 1) /\ UNCHANGED faults
     \/ /\ \E r \in Runners : "dep" \in held[r]
        /\ faults < Suite.maxFaults /\ faults' = faults + 1
        /\ Goto("skipped", 1)
  /\ Stay /\ UNCHANGED <<live, dying, runner, tainted, refused>>

\* cleanup() starts with the manager's cleanup, see TrafficDirector.
CleanupTrafficDirector ==
  /\ phase = "td"
  /\ \/ /\ Goto("cleanup", 1) /\ pos' = 1 /\ who' = Suite.cleanup[1]
        /\ UNCHANGED <<attempt, faults, refused>>
     \/ /\ faults < Suite.maxFaults /\ faults' = faults + 1
        /\ AttemptFails /\ UNCHANGED <<pos, who, step, waiting>>
  /\ UNCHANGED <<live, dying, runner, force, outer, sigint, tainted>>

\* Ctrl-C, maybe while run() or the test waits for the answer of a creation.
Interrupt ==
  /\ phase \in Running /\ ~sigint
  /\ Goto("interrupted", 1) /\ sigint' = TRUE
  /\ outer' = IF phase = "cleanup" THEN who ELSE NoRunner
  /\ IF phase = "run" /\ step <= Len(RunSteps(who))
     THEN LET k == RunSteps(who)[step]
          IN  /\ live' \in {live} \cup (IF k \in Kinds /\ CanCreate(who, k)
                                        THEN {live \cup {Name(who, k)}} ELSE {})
              /\ Requested(who, k)
     ELSE /\ \/ UNCHANGED live
             \/ \E r \in Runners, k \in Policies :
                  /\ MakesPolicy(r, k) /\ CanCreate(r, k)
                  /\ live' = live \cup {Name(r, k)}
          /\ UNCHANGED <<held, id, deployed>>
  /\ UNCHANGED <<dying, stage, runs, history, pos, who, attempt, force, faults,
                 tainted, refused>>

\* handle_sigint after two seconds: tearDown with force_cleanup set.
ForcedTearDown ==
  /\ phase = "interrupted"
  /\ Goto("restarts", 1) /\ force' = TRUE /\ attempt' = 1 /\ refused' = {}
  /\ UNCHANGED <<live, dying, runner, pos, who, outer, sigint, faults, tainted>>

\* The KeyboardInterrupt runs through the finally clause of the interrupted
\* cleanup().
Unwind ==
  /\ phase \in Over \ {"orphaned"} /\ outer # NoRunner
  /\ Stop(outer) /\ outer' = NoRunner
  /\ UNCHANGED <<live, dying, held, id, deployed, runs, phase, pos, who, step,
                 waiting, attempt, force, sigint, faults, tainted, refused>>

\* The second Ctrl-C, or the end of the process.
Abort ==
  /\ phase \in Running \cup {"interrupted"}
  /\ Goto("orphaned", 1) /\ Stay
  /\ UNCHANGED <<live, dying, runner, faults, tainted, refused>>

Process ==
  RunStep \/ CleanupStep \/ CleanupReturns \/ CountRestarts
  \/ CleanupTrafficDirector \/ ForcedTearDown \/ Unwind

Step ==
  \/ \E o \in dying : Gone(o)
  \/ \E r \in Runners : Run(r) \/ TestCleanup(r)
  \/ \E r \in Runners, k \in Policies : CreatePolicy(r, k) \/ PolicyFails(r, k)
  \/ TestEnds \/ Interrupt \/ Abort \/ Process

Next == Step /\ UNCHANGED suite

\* Every request is answered or times out, and so does every wait.
Progress == Process /\ UNCHANGED suite

Spec == Init /\ [][Next]_vars /\ WF_vars(Progress)

-------------------------------------------------------------------------------
(* Properties *)

TypeOK ==
  /\ suite \in DOMAIN Suites
  /\ live \subseteq Objects /\ dying \subseteq live /\ tainted \subseteq Objects
  /\ held \in [Runners -> SUBSET Kinds]
  /\ stage \in [Runners -> {"new", "requested", "completed", "stopped"}]
  /\ runs \in [Runners -> 0..Suite.maxRuns]
  /\ id \in [Runners -> 0..Suite.maxRuns] /\ \A r \in Runners : id[r] <= runs[r]
  /\ deployed \in [Runners -> SUBSET (1..Suite.maxRuns)]
  /\ history \in [Runners -> Seq(1..Suite.maxRuns)]
  /\ phase \in Running \cup Over \cup {"interrupted"}
  /\ who \in Runners \cup {NoRunner} /\ outer \in Runners \cup {NoRunner}
  /\ pos \in 0..Len(Suite.cleanup) /\ step \in Nat \ {0}
  /\ attempt \in 1..Attempts /\ faults \in 0..Suite.maxFaults
  /\ waiting \in BOOLEAN /\ force \in BOOLEAN /\ sigint \in BOOLEAN
  /\ refused \subseteq tainted

\* What outlives a cleanup() that came to its end is there because a request
\* about it failed, because the service account by which the runner would have
\* known of a grant could not be created, or because it is shared for reuse.
LeaksAreExplained ==
  phase = "done" =>
    \A r \in Runners, k \in Kinds \ {"pmName"} :
      LET o == Name(r, k)
      IN  o \in live \ Suite.leftovers /\ ~IsDying(o) =>
            \/ o \in tainted
            \/ k = "grant" /\ Name(r, "sa") \in tainted
            \/ k = "ns" /\ (\A q \in Runners :
                              Args(q).ns = Args(r).ns => Args(q).reuseNamespace)
            \/ k = "svc" /\ Args(r).reuseService

\* With force, everything a test interrupted or failed to create is deleted by
\* name, whatever the runners remember of it, unless the request fails in the
\* last attempt.  The name of a PodMonitoring is a field of the runner, which is
\* None after the first attempt.
ForcedCleanupRemoves ==
  phase = "done" /\ force =>
    \A o \in live :
      IsDying(o) \/ o \in refused \/ (o[2] = "pm" /\ o \in tainted)

\* A runner forgets an object only when it is gone or going, when a request
\* about it failed, or when the object is kept for others.
NothingForgotten ==
  [][\A r \in Runners : \A k \in (held[r] \ held'[r]) \ {"pmName"} :
       LET o == Name(r, k)
       IN  \/ o \notin live' \/ IsDying(o)' \/ o \in tainted'
           \/ k = "ns" /\ Args(r).reuseNamespace
           \/ k = "svc" /\ Args(r).reuseService]_vars

\* A workload keeps the identity it was started with until its own deployment
\* is being deleted: no other runner's cleanup takes it away.
IdentityOutlivesWorkload ==
  Suite.identity =>
    \A r \in Runners :
      LET dep == Name(r, "dep")
      IN  stage[r] = "completed" /\ dep \in live \ tainted /\ ~IsDying(dep) =>
            Name(r, "grant") \in live /\ Name(r, "sa") \in live

\* Once a runner is stopped, and after tearDown, every one of its runs that was
\* given a deployment is in its history, whether the pods came up or not, and
\* nothing else is: the earlier runs once, in their order, and the last one as
\* often as its cleanup() was repeated.
RunsAreRecorded ==
  \A r \in Runners :
    LET recorded == {history[r][i] : i \in DOMAIN history[r]}
    IN  /\ recorded \subseteq deployed[r]
        /\ deployed[r] \ recorded \subseteq {id[r]}
        /\ stage[r] = "stopped" \/ phase = "done" => deployed[r] = recorded
        /\ \A i, j \in DOMAIN history[r] :
             i < j => \/ history[r][i] < history[r][j]
                      \/ history[r][i] = id[r] /\ history[r][j] = id[r]

\* A tearDown ends, one way or another.
TearDownEnds ==
  phase \in {"restarts", "td", "cleanup"} ~> phase \in Over \cup {"test"}
===============================================================================

--------------------------- MODULE ServerPods_proofs ---------------------------
(***************************************************************************)
(* Proofs about ServerPods, for any number of pods and of failures.        *)
(*                                                                         *)
(* The main thread goes through the pods in loops that any error cuts      *)
(* short, and starts again in another attempt, while the collectors close  *)
(* their files on their own.  IInv says what each loop has done so far     *)
(* (for the pods that are not in todo), what is done for good once it has  *)
(* come to its end, and how a file depends on where its thread is.         *)
(***************************************************************************)
EXTENDS ServerPods, TLAPS

Writing == {"check", "stream", "finish"}

\* Once the loops over forwarders and collectors have come to their ends.
Flushing == {"flush", "flushing", "fsync"}
Deleting == {"delete", "deploymentWait"}

Maps ==
  /\ pc \in {"start", "serve"} => stopping = {} /\ stopped = {}
  /\ pc = "serve" => todo \subseteq started
  /\ servers \subseteq started \cup stopping \cup stopped
  /\ \A p \in stopped : ~Alive(p)
  /\ pc \in {"rest", "done"} => ~deployment
  /\ ~deployment => pc \in {"rest", "done", "pause", "gaveUp", "cleanup"}

\* A file is open while its thread writes.
Files ==
  \A p \in Pods :
    /\ out[p] = "open" <=> thread[p] \in Writing
    /\ out[p] = "closed" <=> thread[p] = "clear"
    /\ unsaved[p] => thread[p] \in Writing /\ p \in collectors
    /\ stop \/ thread[p] = "none" \/ p \in collectors
    /\ pc = "start" /\ p \in todo => thread[p] = "none"

\* A file that flush() met closing is closed for good at the next attempt.
Races ==
  \A p \in Pods :
    /\ raised[p] > 0 =>
         /\ raised[p] = 1 /\ thread[p] \in {"clear", "ended"}
         /\ thread[p] = "clear" => pc \in {"pause", "gaveUp"}
    /\ pc \in {"flushing", "fsync"} /\ IsFirst(p) =>
         raised[p] = 0 /\ thread[p] \notin {"none", "open"}

SavedSoFar ==
  /\ pc \in {"close"} \cup Flushing \cup Deleting \/ ~deployment => stop
  /\ pc \in Flushing => \A p \in Pods : unsaved[p] => p \in todo
  /\ pc = "fsync" => \A p \in Pods : IsFirst(p) => ~unsaved[p]
  /\ pc \in Deleting \/ ~deployment => \A p \in Pods : ~unsaved[p]

KilledSoFar ==
  /\ \A p \in Pods : process[p] = "alive" => p \in forwarders
  /\ pc = "close" => \A p \in Pods : process[p] = "alive" => p \in todo
  /\ pc \in Flushing \cup Deleting \/ ~deployment =>
       \A p \in Pods : process[p] # "alive"

\* The hook of a pod does not hold it back.
Freed(p) == Alive(p) => released[p] \/ p \in unreached

FreedSoFar ==
  /\ ~PreStopHook => \A p \in Pods : released[p]
  /\ \A p \in servers :
       process[p] = "alive" \/ (process[p] = "killed" /\ Freed(p))
  /\ pc = "releaseStopping" =>
       \A p \in servers \cap stopping : Freed(p) \/ p \in todo
  /\ pc = "releaseStarted" =>
       /\ \A p \in servers \cap stopping : Freed(p)
       /\ \A p \in servers \cap started : Freed(p) \/ p \in todo
  /\ pc \in {"stopLogging", "close", "delete"} \cup Flushing =>
       \A p \in servers : Freed(p)

IInv ==
  /\ TypeOK /\ Maps /\ Files /\ Races
  /\ SavedSoFar /\ KilledSoFar /\ FreedSoFar

-------------------------------------------------------------------------------
(* One step *)

\* There are as many attempts as tearDown makes.
LEMMA AttemptsAreBounded ==
  ASSUME attempt \in 1..Attempts, AttemptFails
  PROVE  attempt' \in 1..Attempts /\ todo' = {} /\ pc' \in {"pause", "gaveUp"}
BY DEF AttemptFails, Attempts, Goto

\* The failures that are modelled are.
LEMMA FaultsAreBounded ==
  ASSUME faults \in 0..MaxFaults, Fails
  PROVE  faults' \in 0..MaxFaults
BY ServerPodsConstants DEF Fails

\* Of the pods to go only one is the first.
LEMMA OneFirst ==
  ASSUME todo \subseteq Pods, NEW p, NEW q, IsFirst(p), IsFirst(q)
  PROVE  p = q
BY ServerPodsConstants DEF IsFirst

\* run(), and a pod that does not start.
LEMMA RunInv ==
  ASSUME IInv,
         _start_completed \/ Runs \/ RunRaises
           \/ \E p \in Pods : _pod_started_logic(p)
                             \/ _xds_test_server_for_pod(p)
  PROVE  IInv'
<1> USE ServerPodsConstants
    DEF IInv, Alive, IsFirst, Goto, Becomes, Written, Saved, Flushing, Deleting,
        logVars, cluster, maps, lists, control, history, mainVars
<1>1. CASE _start_completed
  <2>1. TypeOK'
    BY <1>1
    DEF _start_completed, TypeOK, LogTypeOK, Maps, ThreadStates
  <2>2. Maps' /\ KilledSoFar' /\ FreedSoFar'
    BY <1>1
    DEF _start_completed, TypeOK, Maps, KilledSoFar, FreedSoFar, Freed
  <2>3. Files' /\ Races' /\ SavedSoFar'
    BY <1>1
    DEF _start_completed, TypeOK, LogTypeOK, ThreadStates, Maps, Files,
        Races, SavedSoFar, Writing
  <2> QED
    BY <2>1, <2>2, <2>3
<1>2. CASE Runs
  <2>1. TypeOK'
    BY <1>2
    DEF Runs, TypeOK, LogTypeOK, Maps, ThreadStates
  <2>2. Maps' /\ KilledSoFar' /\ FreedSoFar'
    BY <1>2
    DEF Runs, TypeOK, Maps, KilledSoFar, FreedSoFar, Freed
  <2>3. Files' /\ Races' /\ SavedSoFar'
    BY <1>2
    DEF Runs, TypeOK, LogTypeOK, ThreadStates, Maps, Files, Races,
        SavedSoFar, Writing
  <2> QED
    BY <2>1, <2>2, <2>3
<1>3. CASE RunRaises
  <2>1. TypeOK'
    BY <1>3
    DEF RunRaises, Fails, TypeOK, LogTypeOK, Maps, ThreadStates
  <2>2. Maps' /\ KilledSoFar' /\ FreedSoFar'
    BY <1>3
    DEF RunRaises, Fails, TypeOK, Maps, KilledSoFar, FreedSoFar, Freed
  <2>3. Files' /\ Races' /\ SavedSoFar'
    BY <1>3
    DEF RunRaises, Fails, TypeOK, LogTypeOK, ThreadStates, Maps, Files,
        Races, SavedSoFar, Writing
  <2> QED
    BY <2>1, <2>2, <2>3
<1>4. ASSUME NEW p \in Pods, _pod_started_logic(p) PROVE IInv'
  <2>1. TypeOK'
    BY <1>4
    DEF _pod_started_logic, pod_start_logging, TypeOK, LogTypeOK, Maps,
        ThreadStates
  <2>2. Maps' /\ KilledSoFar' /\ FreedSoFar'
    BY <1>4
    DEF _pod_started_logic, pod_start_logging, TypeOK, Maps, KilledSoFar,
        FreedSoFar, Freed
  <2>3. Files' /\ Races' /\ SavedSoFar'
    BY <1>4
    DEF _pod_started_logic, pod_start_logging, TypeOK, LogTypeOK,
        ThreadStates, Maps, Files, Races, SavedSoFar, Writing
  <2> QED
    BY <2>1, <2>2, <2>3
<1>5. ASSUME NEW p \in Pods, _xds_test_server_for_pod(p) PROVE IInv'
  <2>1. TypeOK'
    BY <1>5
    DEF _xds_test_server_for_pod, TypeOK, LogTypeOK, Maps, ThreadStates
  <2>2. Maps' /\ KilledSoFar' /\ FreedSoFar'
    BY <1>5
    DEF _xds_test_server_for_pod, TypeOK, Maps, KilledSoFar, FreedSoFar,
        Freed
  <2>3. Files' /\ Races' /\ SavedSoFar'
    BY <1>5
    DEF _xds_test_server_for_pod, TypeOK, LogTypeOK, ThreadStates, Maps,
        Files, Races, SavedSoFar, Writing
  <2> QED
    BY <2>1, <2>2, <2>3
<1> QED
  BY <1>1, <1>2, <1>3, <1>4, <1>5

\* The test, which deletes pods and releases hooks.
LEMMA TestInv ==
  ASSUME IInv,
         TestStep \/ WaitTimesOut \/ TestEnds
           \/ \E p \in Pods : _pod_stopped_logic(p)
  PROVE  IInv'
<1> USE ServerPodsConstants
    DEF IInv, Alive, IsFirst, Goto, Becomes, Written, Saved, Flushing, Deleting,
        logVars, cluster, maps, lists, control, history, mainVars
<1>1. CASE WaitTimesOut
  <2>1. TypeOK'
    BY <1>1
    DEF WaitTimesOut, TypeOK, LogTypeOK, Maps, ThreadStates
  <2>2. Maps' /\ KilledSoFar' /\ FreedSoFar'
    BY <1>1
    DEF WaitTimesOut, TypeOK, Maps, KilledSoFar, FreedSoFar, Freed
  <2>3. Files' /\ Races' /\ SavedSoFar'
    BY <1>1
    DEF WaitTimesOut, TypeOK, LogTypeOK, ThreadStates, Maps, Files, Races,
        SavedSoFar, Writing
  <2> QED
    BY <2>1, <2>2, <2>3
<1>2. CASE TestEnds
  <2>1. TypeOK'
    BY <1>2
    DEF TestEnds, TypeOK, LogTypeOK, Maps, ThreadStates
  <2>2. Maps' /\ KilledSoFar' /\ FreedSoFar'
    BY <1>2
    DEF TestEnds, TypeOK, Maps, KilledSoFar, FreedSoFar, Freed
  <2>3. Files' /\ Races' /\ SavedSoFar'
    BY <1>2
    DEF TestEnds, TypeOK, LogTypeOK, ThreadStates, Maps, Files, Races,
        SavedSoFar, Writing
  <2> QED
    BY <2>1, <2>2, <2>3
<1>3. ASSUME NEW p \in Pods, _pod_stopped_logic(p) PROVE IInv'
  <2>1. TypeOK'
    BY <1>3
    DEF _pod_stopped_logic, TypeOK, LogTypeOK, Maps, ThreadStates
  <2>2. Maps' /\ KilledSoFar' /\ FreedSoFar'
    BY <1>3
    DEF _pod_stopped_logic, TypeOK, Maps, KilledSoFar, FreedSoFar, Freed
  <2>3. Files' /\ Races' /\ SavedSoFar'
    BY <1>3
    DEF _pod_stopped_logic, TypeOK, LogTypeOK, ThreadStates, Maps, Files,
        Races, SavedSoFar, Writing
  <2> QED
    BY <2>1, <2>2, <2>3
<1>4. ASSUME NEW p \in Pods, TestReleases(p) PROVE IInv'
  <2>1. TypeOK'
    BY <1>4
    DEF TestReleases, TypeOK, LogTypeOK, Maps, ThreadStates
  <2>2. Maps' /\ KilledSoFar' /\ FreedSoFar'
    BY <1>4
    DEF TestReleases, TypeOK, Maps, KilledSoFar, FreedSoFar, Freed
  <2>3. Files' /\ Races' /\ SavedSoFar'
    BY <1>4
    DEF TestReleases, TypeOK, LogTypeOK, ThreadStates, Maps, Files, Races,
        SavedSoFar, Writing
  <2> QED
    BY <2>1, <2>2, <2>3
<1>5. ASSUME NEW p \in Pods, NEW i \in BOOLEAN, NEW w \in BOOLEAN,
             delete_pod(p, i, w)
      PROVE  IInv'
  <2>1. TypeOK'
    <3>1. pod' \in [Pods -> {"running", "terminating", "gone"}]
      BY <1>5 DEF delete_pod, TypeOK
    <3>2. /\ faults' \in 0..MaxFaults /\ todo' \subseteq Pods
          /\ attempt' = attempt
      BY <1>5, FaultsAreBounded DEF delete_pod, TypeOK
    <3>3. /\ started' \subseteq Pods /\ stopping' \subseteq Pods \ started'
          /\ stopped' \subseteq Pods \ (started' \cup stopping')
      BY <1>5 DEF delete_pod, _pod_stopping_logic, TypeOK
    <3> QED
      BY <1>5, <3>1, <3>2, <3>3 DEF delete_pod, TypeOK, LogTypeOK
  <2>2. Maps' /\ KilledSoFar' /\ FreedSoFar'
    BY <1>5 DEF delete_pod, _pod_stopping_logic, TypeOK, Maps, KilledSoFar,
      FreedSoFar, Freed
  <2>3. Files' /\ Races' /\ SavedSoFar'
    BY <1>5 DEF delete_pod, TypeOK, Maps, Files, Races, SavedSoFar
  <2> QED
    BY <2>1, <2>2, <2>3
<1> QED
  BY <1>1, <1>2, <1>3, <1>4, <1>5 DEF TestStep

\* cleanup() until all hooks are released: first those of stopping pods.
LEMMA ReleaseInv ==
  ASSUME IInv,
         NextAttempt \/ Cleanup \/ ReleasesEnd
           \/ \E p \in Pods : release_prestop_hook(p)
  PROVE  IInv'
<1> USE ServerPodsConstants
    DEF IInv, Alive, IsFirst, Goto, Becomes, Written, Saved, Flushing, Deleting,
        logVars, cluster, maps, lists, control, history, mainVars
<1>1. CASE NextAttempt
  <2>1. TypeOK'
    BY <1>1
    DEF NextAttempt, TypeOK, LogTypeOK, Maps, ThreadStates
  <2>2. Maps' /\ KilledSoFar' /\ FreedSoFar'
    BY <1>1
    DEF NextAttempt, TypeOK, Maps, KilledSoFar, FreedSoFar, Freed
  <2>3. Files' /\ Races' /\ SavedSoFar'
    BY <1>1
    DEF NextAttempt, TypeOK, LogTypeOK, ThreadStates, Maps, Files, Races,
        SavedSoFar, Writing
  <2> QED
    BY <2>1, <2>2, <2>3
<1>2. CASE Cleanup
  <2>1. TypeOK'
    BY <1>2
    DEF Cleanup, TypeOK, LogTypeOK, Maps, ThreadStates
  <2>2. Maps' /\ KilledSoFar' /\ FreedSoFar'
    BY <1>2
    DEF Cleanup, TypeOK, Maps, KilledSoFar, FreedSoFar, Freed
  <2>3. Files' /\ Races' /\ SavedSoFar'
    BY <1>2
    DEF Cleanup, TypeOK, LogTypeOK, ThreadStates, Maps, Files, Races,
        SavedSoFar, Writing
  <2> QED
    BY <2>1, <2>2, <2>3
<1>3. CASE ReleasesEnd
  <2>1. TypeOK'
    BY <1>3
    DEF ReleasesEnd, TypeOK, LogTypeOK, Maps, ThreadStates
  <2>2. Maps' /\ KilledSoFar' /\ FreedSoFar'
    BY <1>3
    DEF ReleasesEnd, TypeOK, Maps, KilledSoFar, FreedSoFar, Freed
  <2>3. Files' /\ Races' /\ SavedSoFar'
    BY <1>3
    DEF ReleasesEnd, TypeOK, LogTypeOK, ThreadStates, Maps, Files, Races,
        SavedSoFar, Writing
  <2> QED
    BY <2>1, <2>2, <2>3
<1>4. ASSUME NEW p \in Pods, release_prestop_hook(p) PROVE IInv'
  <2>1. TypeOK'
    <3>1. released' \in [Pods -> BOOLEAN]
      BY Zenon, <1>4 DEF release_prestop_hook, TypeOK
    <3>2. faults' \in 0..MaxFaults
      BY <1>4, FaultsAreBounded DEF release_prestop_hook, TypeOK
    <3> QED
      BY <1>4, <3>1, <3>2 DEF release_prestop_hook, TypeOK, LogTypeOK
  <2>2. Maps' /\ KilledSoFar' /\ FreedSoFar'
    BY <1>4 DEF release_prestop_hook, Reachable, TypeOK, Maps, KilledSoFar,
      FreedSoFar, Freed
  <2>3. Files' /\ Races' /\ SavedSoFar'
    BY <1>4 DEF release_prestop_hook, TypeOK, Maps, Files, Races, SavedSoFar
  <2> QED
    BY <2>1, <2>2, <2>3
<1> QED
  BY <1>1, <1>2, <1>3, <1>4

\* The stop event is set, and the forwarders are closed.
LEMMA CloseInv ==
  ASSUME IInv,
         StopLogging \/ ClosesEnd \/ \E p \in Pods : close(p)
  PROVE  IInv'
<1> USE ServerPodsConstants
    DEF IInv, Alive, IsFirst, Goto, Becomes, Written, Saved, Flushing, Deleting,
        logVars, cluster, maps, lists, control, history, mainVars
<1>1. CASE StopLogging
  <2>1. TypeOK'
    BY <1>1
    DEF StopLogging, maybe_stop_logging, TypeOK, LogTypeOK, Maps,
        ThreadStates
  <2>2. Maps' /\ KilledSoFar' /\ FreedSoFar'
    BY <1>1
    DEF StopLogging, maybe_stop_logging, TypeOK, Maps, KilledSoFar,
        FreedSoFar, Freed
  <2>3. Files' /\ Races' /\ SavedSoFar'
    BY <1>1
    DEF StopLogging, maybe_stop_logging, TypeOK, LogTypeOK, ThreadStates,
        Maps, Files, Races, SavedSoFar, Writing
  <2> QED
    BY <2>1, <2>2, <2>3
<1>2. CASE ClosesEnd
  <2>1. TypeOK'
    BY <1>2
    DEF ClosesEnd, TypeOK, LogTypeOK, Maps, ThreadStates
  <2>2. Maps' /\ KilledSoFar' /\ FreedSoFar'
    BY <1>2
    DEF ClosesEnd, TypeOK, Maps, KilledSoFar, FreedSoFar, Freed
  <2>3. Files' /\ Races' /\ SavedSoFar'
    BY <1>2
    DEF ClosesEnd, TypeOK, LogTypeOK, ThreadStates, Maps, Files, Races,
        SavedSoFar, Writing
  <2> QED
    BY <2>1, <2>2, <2>3
<1>3. ASSUME NEW p \in Pods, close(p) PROVE IInv'
  <2>0. /\ pc = "close" /\ process' = [process EXCEPT ![p] = "killed"]
        /\ \/ /\ todo' = todo \ {p} /\ pc' = pc
              /\ UNCHANGED <<attempt, faults>>
           \/ Fails /\ AttemptFails
        /\ UNCHANGED <<logVars, pod, released, maps, lists, deployment,
                       history>>
    BY <1>3 DEF close
  <2>1. TypeOK'
    BY <2>0, AttemptsAreBounded, FaultsAreBounded DEF TypeOK, LogTypeOK
  <2>2. Maps' /\ KilledSoFar' /\ FreedSoFar'
    BY <1>3 DEF close, AttemptFails, TypeOK, Maps, KilledSoFar, FreedSoFar,
      Freed
  <2>3. Files' /\ Races' /\ SavedSoFar'
    BY <1>3 DEF close, AttemptFails, TypeOK, Maps, Files, Races, SavedSoFar
  <2> QED
    BY <2>1, <2>2, <2>3
<1> QED
  BY <1>1, <1>2, <1>3

\* The collectors are flushed while their threads may close the files.
LEMMA FlushInv ==
  ASSUME IInv,
         FlushesEnd \/ \E p \in Pods : FlushLooks(p) \/ FlushWrites(p)
  PROVE  IInv'
<1> USE ServerPodsConstants
    DEF IInv, Alive, IsFirst, Goto, Becomes, Written, Saved, Flushing, Deleting,
        logVars, cluster, maps, lists, control, history, mainVars
<1>1. CASE FlushesEnd
  <2>1. TypeOK'
    BY <1>1
    DEF FlushesEnd, TypeOK, LogTypeOK, Maps, ThreadStates
  <2>2. Maps' /\ KilledSoFar' /\ FreedSoFar'
    BY <1>1
    DEF FlushesEnd, TypeOK, Maps, KilledSoFar, FreedSoFar, Freed
  <2>3. Files' /\ Races' /\ SavedSoFar'
    BY <1>1
    DEF FlushesEnd, TypeOK, LogTypeOK, ThreadStates, Maps, Files, Races,
        SavedSoFar, Writing
  <2> QED
    BY <2>1, <2>2, <2>3
<1>2. ASSUME NEW p \in Pods, FlushLooks(p) PROVE IInv'
  <2>1. TypeOK'
    BY <1>2
    DEF FlushLooks, FlushSkips, TypeOK, LogTypeOK, Maps, ThreadStates
  <2>2. Maps' /\ KilledSoFar' /\ FreedSoFar'
    BY <1>2
    DEF FlushLooks, FlushSkips, TypeOK, Maps, KilledSoFar, FreedSoFar,
        Freed
  <2>3. Files' /\ Races' /\ SavedSoFar'
    BY <1>2
    DEF FlushLooks, FlushSkips, TypeOK, LogTypeOK, ThreadStates, Maps,
        Files, Races, SavedSoFar, Writing
  <2> QED
    BY <2>1, <2>2, <2>3
<1>3. ASSUME NEW p \in Pods, FlushWrites(p) PROVE IInv'
  <2>1. \/ /\ pc = "flushing" /\ Saved(p) /\ pc' = "fsync"
           /\ UNCHANGED <<stop, thread, out, todo, attempt, raised>>
        \/ /\ pc = "fsync" /\ pc' = "flush" /\ todo' = todo \ {p}
           /\ UNCHANGED <<logVars, attempt, raised>>
        \/ FlushFails(p)
    BY <1>3 DEF FlushWrites
  <2>2. /\ pc \in {"flushing", "fsync"} /\ IsFirst(p)
        /\ UNCHANGED <<cluster, maps, lists, deployment, faults, unreached,
                       swallowed, late>>
    BY <1>3 DEF FlushWrites
  <2>3. CASE pc = "flushing" /\ Saved(p) /\ pc' = "fsync"
             /\ UNCHANGED <<stop, thread, out, todo, attempt, raised>>
    <3>1. TypeOK'
      BY <2>2, <2>3 DEF TypeOK, LogTypeOK
    <3>2. Maps' /\ KilledSoFar' /\ FreedSoFar'
      BY <2>2, <2>3 DEF Maps, KilledSoFar, FreedSoFar, Freed
    <3>3. Files' /\ Races'
      BY <2>2, <2>3 DEF TypeOK, LogTypeOK, Files, Races, Writing
    <3>4. SavedSoFar'
      BY <2>2, <2>3, OneFirst DEF TypeOK, LogTypeOK, SavedSoFar, Maps
    <3> QED
      BY <3>1, <3>2, <3>3, <3>4
  <2>4. CASE pc = "fsync" /\ pc' = "flush" /\ todo' = todo \ {p}
             /\ UNCHANGED <<logVars, attempt, raised>>
    <3>1. TypeOK'
      BY <2>2, <2>4 DEF TypeOK, LogTypeOK
    <3>2. Maps' /\ KilledSoFar' /\ FreedSoFar'
      BY <2>2, <2>4 DEF Maps, KilledSoFar, FreedSoFar, Freed
    <3>3. Files' /\ Races' /\ SavedSoFar'
      BY <2>2, <2>4 DEF TypeOK, Files, Races, Writing, SavedSoFar, Maps
    <3> QED
      BY <3>1, <3>2, <3>3
  <2>5. CASE FlushFails(p)
    <3>1. /\ FlushRaises(p) /\ AttemptFails /\ UNCHANGED logVars
          /\ raised' = [raised EXCEPT ![p] = @ + 1]
      BY <2>5 DEF FlushFails
    <3>2. attempt' \in 1..Attempts /\ todo' = {} /\ pc' \in {"pause", "gaveUp"}
      BY <3>1, AttemptsAreBounded DEF TypeOK
    <3>3. raised[p] = 0 /\ thread[p] \in {"clear", "ended"}
      BY <2>2, <3>1 DEF FlushRaises, Races, Files, TypeOK, LogTypeOK,
        ThreadStates, Writing
    <3>4. raised' \in [Pods -> Nat]
      BY <3>1, <3>3 DEF TypeOK
    <3>5. TypeOK'
      BY <2>2, <3>1, <3>2, <3>4 DEF TypeOK, LogTypeOK
    <3>6. Maps' /\ KilledSoFar' /\ FreedSoFar'
      BY <2>2, <3>2 DEF Maps, KilledSoFar, FreedSoFar, Freed
    <3>7. Files' /\ SavedSoFar'
      BY <2>2, <3>1, <3>2 DEF Files, SavedSoFar, Writing, Maps
    <3>8. Races'
      BY <2>2, <3>1, <3>2, <3>3, <3>4 DEF Races, TypeOK
    <3> QED
      BY <3>5, <3>6, <3>7, <3>8
  <2> QED
    BY <2>1, <2>3, <2>4, <2>5
<1> QED
  BY <1>1, <1>2, <1>3

\* The deployment is deleted, and cleanup() goes on.
LEMMA DeleteInv ==
  ASSUME IInv,
         DeleteDeployment \/ DeploymentDeleted \/ Rest
  PROVE  IInv'
<1> USE ServerPodsConstants
    DEF IInv, Alive, IsFirst, Goto, Becomes, Written, Saved, Flushing, Deleting,
        logVars, cluster, maps, lists, control, history, mainVars
<1>1. CASE DeleteDeployment
  <2>1. TypeOK'
    <3>1. pod' \in [Pods -> {"running", "terminating", "gone"}]
      BY <1>1 DEF DeleteDeployment, TypeOK
    <3>2. attempt' \in 1..Attempts /\ todo' = {} /\ faults' \in 0..MaxFaults
      BY <1>1, AttemptsAreBounded, FaultsAreBounded
      DEF DeleteDeployment, TypeOK
    <3> QED
      BY <1>1, <3>1, <3>2 DEF DeleteDeployment, TypeOK, LogTypeOK
  <2>2. Maps' /\ KilledSoFar' /\ FreedSoFar'
    BY <1>1 DEF DeleteDeployment, AttemptFails, TypeOK, Maps, KilledSoFar,
      FreedSoFar, Freed
  <2>3. Files' /\ Races' /\ SavedSoFar'
    BY <1>1 DEF DeleteDeployment, AttemptFails, TypeOK, Maps, Files, Races,
      SavedSoFar
  <2> QED
    BY <2>1, <2>2, <2>3
<1>2. CASE DeploymentDeleted
  <2>1. TypeOK'
    <3>1. attempt' \in 1..Attempts /\ todo' = {}
      BY <1>2, AttemptsAreBounded DEF DeploymentDeleted, TypeOK
    <3> QED
      BY <1>2, <3>1 DEF DeploymentDeleted, TypeOK, LogTypeOK
  <2>2. Maps' /\ KilledSoFar' /\ FreedSoFar'
    BY <1>2 DEF DeploymentDeleted, AttemptFails, TypeOK, Maps, KilledSoFar,
      FreedSoFar, Freed
  <2>3. Files' /\ Races' /\ SavedSoFar'
    BY <1>2 DEF DeploymentDeleted, AttemptFails, TypeOK, Maps, Files, Races,
      SavedSoFar
  <2> QED
    BY <2>1, <2>2, <2>3
<1>3. CASE Rest
  <2>1. TypeOK'
    BY <1>3
    DEF Rest, AttemptFails, Attempts, Fails, TypeOK, LogTypeOK, Maps,
        ThreadStates
  <2>2. Maps' /\ KilledSoFar' /\ FreedSoFar'
    BY <1>3
    DEF Rest, AttemptFails, Attempts, Fails, TypeOK, Maps, KilledSoFar,
        FreedSoFar, Freed
  <2>3. Files' /\ Races' /\ SavedSoFar'
    BY <1>3
    DEF Rest, AttemptFails, Attempts, Fails, TypeOK, LogTypeOK,
        ThreadStates, Maps, Files, Races, SavedSoFar, Writing
  <2> QED
    BY <2>1, <2>2, <2>3
<1> QED
  BY <1>1, <1>2, <1>3

\* Pods come to their ends.
LEMMA ClusterInv ==
  ASSUME IInv,
         NEW q \in Pods, PodTerminates(q) \/ PodVanishes(q)
  PROVE  IInv'
<1> USE ServerPodsConstants
    DEF IInv, Alive, IsFirst, Goto, Becomes, Written, Saved, Flushing, Deleting,
        logVars, cluster, maps, lists, control, history, mainVars
<1>1. ASSUME NEW p \in Pods, PodTerminates(p) PROVE IInv'
  <2>1. TypeOK'
    BY <1>1
    DEF PodTerminates, TypeOK, LogTypeOK, Maps, ThreadStates
  <2>2. Maps' /\ KilledSoFar' /\ FreedSoFar'
    BY <1>1
    DEF PodTerminates, TypeOK, Maps, KilledSoFar, FreedSoFar, Freed
  <2>3. Files' /\ Races' /\ SavedSoFar'
    BY <1>1
    DEF PodTerminates, TypeOK, LogTypeOK, ThreadStates, Maps, Files, Races,
        SavedSoFar, Writing
  <2> QED
    BY <2>1, <2>2, <2>3
<1>2. ASSUME NEW p \in Pods, PodVanishes(p) PROVE IInv'
  <2>1. TypeOK'
    BY <1>2
    DEF PodVanishes, Fails, TypeOK, LogTypeOK, Maps, ThreadStates
  <2>2. Maps' /\ KilledSoFar' /\ FreedSoFar'
    BY <1>2
    DEF PodVanishes, Fails, TypeOK, Maps, KilledSoFar, FreedSoFar, Freed
  <2>3. Files' /\ Races' /\ SavedSoFar'
    BY <1>2
    DEF PodVanishes, Fails, TypeOK, LogTypeOK, ThreadStates, Maps, Files,
        Races, SavedSoFar, Writing
  <2> QED
    BY <2>1, <2>2, <2>3
<1> QED
  BY <1>1, <1>2

\* The thread of a collector.
LEMMA ThreadInv ==
  ASSUME IInv,
         NEW q \in Pods, ThreadStep(q), UNCHANGED mainVars
  PROVE  IInv'
<1> USE ServerPodsConstants
    DEF IInv, Alive, IsFirst, Goto, Becomes, Written, Saved, Flushing, Deleting,
        logVars, cluster, maps, lists, control, history, mainVars
<1>1. ASSUME NEW p \in Pods, Open(p), UNCHANGED mainVars PROVE IInv'
  <2>1. TypeOK'
    BY <1>1
    DEF Open, TypeOK, LogTypeOK, Maps, ThreadStates
  <2>2. Maps' /\ KilledSoFar' /\ FreedSoFar'
    BY <1>1
    DEF Open, TypeOK, Maps, KilledSoFar, FreedSoFar, Freed
  <2>3. Files' /\ Races' /\ SavedSoFar'
    BY <1>1
    DEF Open, TypeOK, LogTypeOK, ThreadStates, Maps, Files, Races,
        SavedSoFar, Writing
  <2> QED
    BY <2>1, <2>2, <2>3
<1>2. ASSUME NEW p \in Pods, Check(p), UNCHANGED mainVars PROVE IInv'
  <2>1. TypeOK'
    BY <1>2
    DEF Check, TypeOK, LogTypeOK, Maps, ThreadStates
  <2>2. Maps' /\ KilledSoFar' /\ FreedSoFar'
    BY <1>2
    DEF Check, TypeOK, Maps, KilledSoFar, FreedSoFar, Freed
  <2>3. Files' /\ Races' /\ SavedSoFar'
    BY <1>2
    DEF Check, TypeOK, LogTypeOK, ThreadStates, Maps, Files, Races,
        SavedSoFar, Writing
  <2> QED
    BY <2>1, <2>2, <2>3
<1>3. ASSUME NEW p \in Pods, Message(p), UNCHANGED mainVars PROVE IInv'
  <2>1. TypeOK'
    BY <1>3
    DEF Message, TypeOK, LogTypeOK, Maps, ThreadStates
  <2>2. Maps' /\ KilledSoFar' /\ FreedSoFar'
    BY <1>3
    DEF Message, TypeOK, Maps, KilledSoFar, FreedSoFar, Freed
  <2>3. Files' /\ Races' /\ SavedSoFar'
    BY <1>3
    DEF Message, TypeOK, LogTypeOK, ThreadStates, Maps, Files, Races,
        SavedSoFar, Writing
  <2> QED
    BY <2>1, <2>2, <2>3
<1>4. ASSUME NEW p \in Pods, StreamEnds(p), UNCHANGED mainVars PROVE IInv'
  <2>1. TypeOK'
    BY <1>4
    DEF StreamEnds, TypeOK, LogTypeOK, Maps, ThreadStates
  <2>2. Maps' /\ KilledSoFar' /\ FreedSoFar'
    BY <1>4
    DEF StreamEnds, TypeOK, Maps, KilledSoFar, FreedSoFar, Freed
  <2>3. Files' /\ Races' /\ SavedSoFar'
    BY <1>4
    DEF StreamEnds, TypeOK, LogTypeOK, ThreadStates, Maps, Files, Races,
        SavedSoFar, Writing
  <2> QED
    BY <2>1, <2>2, <2>3
<1>5. ASSUME NEW p \in Pods, StreamBreaks(p), UNCHANGED mainVars PROVE IInv'
  <2>1. TypeOK'
    BY <1>5
    DEF StreamBreaks, TypeOK, LogTypeOK, Maps, ThreadStates
  <2>2. Maps' /\ KilledSoFar' /\ FreedSoFar'
    BY <1>5
    DEF StreamBreaks, TypeOK, Maps, KilledSoFar, FreedSoFar, Freed
  <2>3. Files' /\ Races' /\ SavedSoFar'
    BY <1>5
    DEF StreamBreaks, TypeOK, LogTypeOK, ThreadStates, Maps, Files, Races,
        SavedSoFar, Writing
  <2> QED
    BY <2>1, <2>2, <2>3
<1>6. ASSUME NEW p \in Pods, Close(p), UNCHANGED mainVars PROVE IInv'
  <2>1. TypeOK'
    BY <1>6
    DEF Close, TypeOK, LogTypeOK, Maps, ThreadStates
  <2>2. Maps' /\ KilledSoFar' /\ FreedSoFar'
    BY <1>6
    DEF Close, TypeOK, Maps, KilledSoFar, FreedSoFar, Freed
  <2>3. Files' /\ Races' /\ SavedSoFar'
    BY <1>6
    DEF Close, TypeOK, LogTypeOK, ThreadStates, Maps, Files, Races,
        SavedSoFar, Writing
  <2> QED
    BY <2>1, <2>2, <2>3
<1>7. ASSUME NEW p \in Pods, Clear(p), UNCHANGED mainVars PROVE IInv'
  <2>1. TypeOK'
    BY <1>7
    DEF Clear, TypeOK, LogTypeOK, Maps, ThreadStates
  <2>2. Maps' /\ KilledSoFar' /\ FreedSoFar'
    BY <1>7
    DEF Clear, TypeOK, Maps, KilledSoFar, FreedSoFar, Freed
  <2>3. Files' /\ Races' /\ SavedSoFar'
    BY <1>7
    DEF Clear, TypeOK, LogTypeOK, ThreadStates, Maps, Files, Races,
        SavedSoFar, Writing
  <2> QED
    BY <2>1, <2>2, <2>3
<1> QED
  BY <1>1, <1>2, <1>3, <1>4, <1>5, <1>6, <1>7 DEF ThreadStep, ThreadProgress

-------------------------------------------------------------------------------
(* The theorems *)

\* All pods run, and nothing has been started.
LEMMA InitInv == Init => IInv
<1> SUFFICES ASSUME Init PROVE IInv
  OBVIOUS
<1> USE ServerPodsConstants
<1>1. TypeOK
  <2>1. released \in [Pods -> BOOLEAN]
    BY Zenon, ServerPodsConstants DEF Init
  <2>2. LogTypeOK
    BY DEF Init, LogInit, LogTypeOK, ThreadStates
  <2>3. /\ pod \in [Pods -> {"running", "terminating", "gone"}]
        /\ process \in [Pods -> {"none", "alive", "killed"}]
        /\ raised \in [Pods -> Nat]
    BY DEF Init
  <2>4. /\ started = {} /\ stopping = {} /\ stopped = {} /\ servers = {}
        /\ forwarders = {} /\ collectors = {} /\ deployment = TRUE
        /\ todo = Pods /\ attempt = 1 /\ faults = 0 /\ unreached = {}
        /\ swallowed = FALSE /\ late = FALSE
    BY DEF Init
  <2>5. /\ started \subseteq Pods /\ stopping \subseteq Pods \ started
        /\ stopped \subseteq Pods \ (started \cup stopping)
        /\ servers \subseteq Pods /\ forwarders \subseteq servers
        /\ collectors \subseteq Pods /\ todo \subseteq Pods
        /\ unreached \subseteq Pods
    BY Zenon, <2>4
  <2>6. deployment \in BOOLEAN /\ swallowed \in BOOLEAN /\ late \in BOOLEAN
    BY Zenon, <2>4
  <2>7. attempt \in 1..Attempts /\ faults \in 0..MaxFaults
    BY SMT, <2>4 DEF Attempts
  <2> QED
    BY Zenon, <2>1, <2>2, <2>3, <2>5, <2>6, <2>7 DEF TypeOK
<1>2. Maps /\ KilledSoFar /\ Files /\ Races /\ SavedSoFar
  BY DEF Init, LogInit, Maps, KilledSoFar, Files, Races, SavedSoFar, Writing,
    Flushing, Deleting
<1>3. FreedSoFar
  <2>1. ~PreStopHook => \A p \in Pods : released[p]
    BY DEF Init
  <2> QED
    BY <2>1 DEF Init, FreedSoFar, Flushing
<1> QED
  BY <1>1, <1>2, <1>3 DEF IInv

\* IInv holds in the whole life of a server's deployment.
THEOREM ServerPodsInvariant == Spec => []IInv
<1>1. IInv /\ [Next]_vars => IInv'
  <2> SUFFICES ASSUME IInv, [Next]_vars PROVE IInv'
    OBVIOUS
  <2>1. CASE MainStep \/ TestStep
    BY <2>1, RunInv, TestInv, ReleaseInv, CloseInv, FlushInv, DeleteInv
    DEF MainStep
  <2>2. ASSUME NEW p \in Pods, LogStep(p) \/ PodTerminates(p) \/ PodVanishes(p)
        PROVE  IInv'
    BY <2>2, ClusterInv, ThreadInv DEF LogStep
  <2>3. CASE UNCHANGED vars
    BY <2>3 DEF vars, logVars, cluster, maps, lists, control, history, IInv,
      TypeOK, LogTypeOK, Maps, Files, Races, SavedSoFar, KilledSoFar,
      FreedSoFar, Freed, Alive, IsFirst, Flushing, Deleting
  <2> QED
    BY <2>1, <2>2, <2>3 DEF Next
<1> QED
  BY <1>1, InitInv, PTL DEF Spec

\* The variables keep their types, and a pod is in one of the maps at most.
THEOREM TypeCorrect == Spec => []TypeOK
<1>1. IInv => TypeOK
  BY DEF IInv
<1> QED
  BY <1>1, ServerPodsInvariant, PTL

\* No pod of a server is held back by its hook when the deployment is deleted
\* (stop_pod_dependencies of k8s_xds_server_runner.py), for any number of pods,
\* failures and attempts.
THEOREM HooksAreFreed == Spec => []HooksAreReleased
<1>1. IInv => HooksAreReleased
  BY DEF IInv, FreedSoFar, Freed, HooksAreReleased
<1> QED
  BY <1>1, ServerPodsInvariant, PTL

\* A flush that meets the closing of a file raises once for each pod at most
\* (flush and _stop of k8s_log_collector.py), with no lock between them.
THEOREM FlushRacesAreFew == Spec => []FlushRacesOnce
<1>1. IInv => FlushRacesOnce
  <2> SUFFICES ASSUME IInv, NEW p \in Pods PROVE raised[p] <= 1
    BY DEF FlushRacesOnce
  <2>1. raised[p] \in Nat
    BY DEF IInv, TypeOK
  <2> QED
    BY <2>1 DEF IInv, Races
<1> QED
  BY <1>1, ServerPodsInvariant, PTL

\* A cleanup() that returned has killed every forwarder and saved every line,
\* whichever of its attempts did it (k8s_base_runner.py).
THEOREM NothingStaysBehind == Spec => []NothingIsLeftBehind
<1>1. IInv => NothingIsLeftBehind
  BY DEF IInv, Maps, KilledSoFar, SavedSoFar, NothingIsLeftBehind
<1> QED
  BY <1>1, ServerPodsInvariant, PTL
===============================================================================

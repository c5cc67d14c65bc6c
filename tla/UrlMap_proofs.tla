---------------------------- MODULE UrlMap_proofs -----------------------------
(***************************************************************************)
(* Proofs about UrlMap, for any number of test classes, in any order, any  *)
(* of them skipped, as long as the last one has a name of its own.         *)
(*                                                                         *)
(* The shared resources are touched in two phases only: until some class   *)
(* has started, and once the last class cleans up (Ending).  IInv says     *)
(* that they are complete in between, what the setup has done at each of   *)
(* its steps, and that the first server, once requested, stays so until    *)
(* the end.                                                                *)
(***************************************************************************)
EXTENDS UrlMap, TLAPS

\* The last class cleans up, or has ended.
Ending == cur = Len(Order) /\ pc \in {"cleanup", "next", "done"}

Complete == parts = Parts /\ hosts = Classes /\ servers = Servers

InClass == pc \notin {"next", "done"} => cur \in runs

FinishedBefore == finished \subseteq {Order[c] : c \in 1..cur}

LastCleansAll == pc = "cleanup" /\ at > 1 => cur = Len(Order)

SetupComesFirst == pc = "setup" => started = {} /\ strategy # "reuse"

SetupProgress ==
  pc = "setup" =>
    /\ at > 3  => "services" \in parts
    /\ at > 4  => "map" \in parts /\ hosts = Classes
    /\ at > 5  => "proxy" \in parts
    /\ at > 6  => "rule" \in parts
    /\ at > 7  => "default" \in servers /\ "default" \in requested
    /\ at > 8  => "alternative" \in servers
    /\ at > 9  => "affinity" \in servers
    /\ at > 10 => "endpoints" \in parts

StartsComplete == pc = "started" /\ strategy # "reuse" => Complete

StaysComplete == started # {} /\ strategy # "reuse" /\ ~Ending => Complete

HasStarted == (runners # {} \/ pc = "tests") => started # {}

DefaultFirst == requested # {} /\ ~Ending => "default" \in requested

StuckForGood ==
  stuck # 0 =>
    /\ runners = {} /\ started = {} /\ strategy # "reuse"
    /\ pc \notin {"started", "tests"}
    /\ pc = "setup" => at <= 7
    /\ Ending \/ "default" \in requested

IInv ==
  /\ TypeOK /\ InClass /\ FinishedBefore /\ LastCleansAll
  /\ SetupComesFirst /\ SetupProgress /\ StartsComplete /\ StaysComplete
  /\ HasStarted /\ DefaultFirst /\ StuckForGood

\* The parts of TypeOK.
NumbersOK ==
  /\ strategy \in Strategies /\ runs \subseteq Classes
  /\ pc \in {"next", "setup", "started", "tests", "count", "cleanup", "done"}
  /\ cur \in 0..Len(Order) /\ stuck \in 0..Len(Order)
  /\ at \in 1..Len(Setup) /\ attempts \in 0..Attempts

SharedOK ==
  /\ parts \subseteq Parts /\ hosts \subseteq Classes
  /\ servers \subseteq Servers /\ requested \subseteq Servers

FlagsOK ==
  /\ servers # {} => namespace
  /\ namespace \in BOOLEAN /\ holds \in BOOLEAN /\ gaveUp \in BOOLEAN

ClassesOK ==
  /\ started \subseteq Names /\ finished \subseteq Names
  /\ clients \subseteq runners /\ runners \subseteq runs
  /\ errors \cup restarted \cup uncounted \subseteq Classes

-------------------------------------------------------------------------------
(* Facts about the constants, and about the state *)

\* A state is well typed when its parts are.
LEMMA TypeParts ==
  TypeOK <=> NumbersOK /\ SharedOK /\ FlagsOK /\ ClassesOK
BY DEF TypeOK, NumbersOK, SharedOK, FlagsOK, ClassesOK

\* ... and so is the next one.
LEMMA TypePartsNext ==
  TypeOK' <=> NumbersOK' /\ SharedOK' /\ FlagsOK' /\ ClassesOK'
BY DEF TypeOK, NumbersOK, SharedOK, FlagsOK, ClassesOK

\* The classes are numbered from 1 on, and there is a last one.
LEMMA OrderFacts ==
  /\ Len(Order) \in Nat \ {0} /\ Classes = 1..Len(Order)
  /\ Len(Order) \in Classes
  /\ \A c \in Classes : Order[c] \in Names
  /\ \A c \in Classes : Order[c] = Order[Len(Order)] => c = Len(Order)
<1>1. Order \in Seq(STRING) /\ Len(Order) > 0
      /\ \A c \in Classes : Order[c] = Order[Len(Order)] => c = Len(Order)
  BY OrderConstant
<1>2. Len(Order) \in Nat /\ DOMAIN Order = 1..Len(Order)
  BY <1>1
<1> QED
  BY <1>1, <1>2 DEF Classes, Names

\* The steps of the setup, by their numbers (xds_url_map_test_resources.py:269).
LEMMA SetupSteps ==
  ASSUME at \in 1..11
  PROVE  /\ Len(Setup) = 11
         /\ Setup[at] = "td.cleanup" <=> at = 1
         /\ Setup[at] = "delete_namespace" <=> at = 2
         /\ Setup[at] = "services" <=> at = 3
         /\ Setup[at] = "map" <=> at = 4
         /\ Setup[at] = "proxy" <=> at = 5
         /\ Setup[at] = "rule" <=> at = 6
         /\ Setup[at] = "default" <=> at = 7
         /\ Setup[at] = "alternative" <=> at = 8
         /\ Setup[at] = "affinity" <=> at = 9
         /\ Setup[at] = "endpoints" <=> at = 10
         /\ Setup[at] = "healthy" <=> at = 11
BY DEF Setup

\* The shared resources are cleaned up after the client
\* (xds_url_map_testcase.py:304).
LEMMA CleanupSteps ==
  /\ Len(Cleanup) = 5
  /\ Cleanup[1] = "client"
  /\ \A i \in 1..5 : Cleanup[i] = "client" => i = 1
BY DEF Cleanup

\* Only the last class can find all names finished.
LEMMA CleanupAllIsLast ==
  ASSUME IInv, cleanup_all
  PROVE  cur = Len(Order)
<1>1. Order[Len(Order)] \in finished
  BY OrderFacts DEF cleanup_all
<1>2. PICK c \in 1..cur : Order[c] = Order[Len(Order)]
  BY <1>1 DEF IInv, FinishedBefore
<1>3. c \in Classes /\ cur \in 0..Len(Order)
  BY OrderFacts DEF IInv, TypeOK
<1> QED
  BY <1>2, <1>3, OrderFacts

-------------------------------------------------------------------------------
(* Each step preserves the invariant *)

\* Nothing has started, whatever an earlier run has left.
LEMMA InitInv == Init => IInv
<1> SUFFICES ASSUME Init PROVE IInv
  OBVIOUS
<1>1. TypeOK
  <2>1. NumbersOK
    BY OrderFacts DEF Init, NumbersOK, Setup, Attempts
  <2>2. SharedOK
    BY DEF Init, SharedOK, Parts
  <2>3. FlagsOK
    BY Zenon DEF Init, FlagsOK
  <2>4. ClassesOK
    BY DEF Init, ClassesOK
  <2> QED
    BY <2>1, <2>2, <2>3, <2>4, TypeParts
<1>2. InClass /\ FinishedBefore /\ LastCleansAll /\ SetupComesFirst
  BY DEF Init, InClass, FinishedBefore, LastCleansAll, SetupComesFirst
<1>3. SetupProgress /\ StartsComplete /\ StaysComplete
  BY DEF Init, SetupProgress, StartsComplete, StaysComplete
<1>4. HasStarted /\ DefaultFirst /\ StuckForGood
  BY DEF Init, HasStarted, DefaultFirst, StuckForGood
<1> QED
  BY <1>1, <1>2, <1>3, <1>4 DEF IInv

\* Before the last class begins nothing is being removed, so that a class finds
\* the resources complete once one has started (xds_url_map_testcase.py:235).
LEMMA SetUpClassInv == IInv /\ setUpClass => IInv'
<1> SUFFICES ASSUME IInv, setUpClass PROVE IInv'
  OBVIOUS
<1> USE DEF IInv
<1>1. /\ pc = "next" /\ cur < Len(Order) /\ cur' = cur + 1 /\ at' = 1
      /\ cur \in Nat /\ Len(Order) \in Nat
      /\ ~Ending
  BY OrderFacts DEF setUpClass, TypeOK, Ending
<1>2. /\ UNCHANGED <<strategy, runs, started, finished, parts, hosts,
                     namespace, servers, requested, holds, clients, runners,
                     errors, restarted, uncounted, gaveUp, stuck>>
      /\ attempts' = 0
      /\ \/ pc' = "next"
         \/ pc' = "setup" /\ cur' \in runs /\ started = {} /\ strategy # "reuse"
         \/ pc' = "started" /\ cur' \in runs
            /\ (started # {} \/ strategy = "reuse")
  BY DEF setUpClass, suiteVars, nameVars, sharedVars, clientVars, historyVars
<1>3. TypeOK'
  BY <1>1, <1>2 DEF TypeOK, Setup, Attempts
<1>4. InClass' /\ LastCleansAll' /\ SetupComesFirst' /\ SetupProgress'
  BY <1>1, <1>2
  DEF InClass, LastCleansAll, SetupComesFirst, SetupProgress
<1>5. FinishedBefore'
  <2>1. 1..cur \subseteq 1..cur'
    BY <1>1
  <2> QED
    BY <1>2, <2>1 DEF FinishedBefore
<1>6. StartsComplete' /\ StaysComplete'
  BY <1>1, <1>2 DEF StartsComplete, StaysComplete, Complete
<1>7. HasStarted' /\ DefaultFirst'
  BY <1>1, <1>2 DEF HasStarted, DefaultFirst
<1>8. StuckForGood'
  BY <1>1, <1>2 DEF StuckForGood
<1> QED
  BY <1>3, <1>4, <1>5, <1>6, <1>7, <1>8

-------------------------------------------------------------------------------
(* The setup *)

\* What no step of the setup touches.
SetupFrame ==
  UNCHANGED <<suiteVars, nameVars, clientVars, restarted, uncounted>>

\* What the resources are like after each step.
ResourcesOK ==
  /\ SharedOK' /\ FlagsOK'
  /\ requested \subseteq requested'
  /\ requested' # {} => "default" \in requested'

\* The setup runs in a class, before any has started.
LEMMA InSetup ==
  ASSUME IInv, pc = "setup"
  PROVE  /\ cur \in runs /\ cur \in 1..Len(Order) /\ at \in 1..11 /\ ~Ending
         /\ started = {} /\ runners = {} /\ strategy # "reuse"
         /\ requested # {} => "default" \in requested
         /\ stuck # 0 => at <= 7 /\ "default" \in requested
<1>1. NumbersOK /\ InClass /\ SetupComesFirst /\ HasStarted /\ DefaultFirst
      /\ StuckForGood
  BY TypeParts DEF IInv
<1>2. ~Ending
  BY DEF Ending
<1>3. at \in 1..11 /\ cur \in runs /\ cur \in 1..Len(Order)
  BY <1>1, OrderFacts DEF NumbersOK, Setup, InClass
<1> QED
  BY <1>1, <1>2, <1>3
  DEF SetupComesFirst, HasStarted, DefaultFirst, StuckForGood

\* One step after the other, and then the class starts.
LEMMA SetupAdvances ==
  ASSUME at \in 1..11, pc = "setup", SetupGoesOn
  PROVE  \/ at < 11 /\ pc' = "setup" /\ at' = at + 1
         \/ at = 11 /\ pc' = "started" /\ at' = 1
<1>1. Len(Setup) = 11
  BY SetupSteps
<1> QED
  BY <1>1 DEF SetupGoesOn

\* A setup that raises leaves the class to its cleanup
\* (xds_url_map_testcase.py:257).
LEMMA SetupRaisesInv ==
  ASSUME IInv, pc = "setup", SetupFrame, ResourcesOK,
         SetupRaises(requested) \/ SetupRaises(requested')
  PROVE  IInv'
<1>1. /\ UNCHANGED <<strategy, runs, cur, attempts, started, finished, clients,
                     runners, restarted, uncounted>>
      /\ pc' = "count" /\ at' = 1 /\ errors' = errors \cup {cur}
  BY DEF SetupFrame, SetupRaises, suiteVars, nameVars, clientVars
<1>2. stuck' # 0 => stuck # 0 \/ requested' # {}
  BY DEF SetupRaises, ResourcesOK
<1>3. stuck' \in {stuck, cur}
  BY DEF SetupRaises
<1>4. TypeOK'
  <2>1. NumbersOK'
    BY <1>1, <1>3, InSetup, TypeParts, OrderFacts DEF IInv, NumbersOK, Setup
  <2>2. ClassesOK'
    BY <1>1, InSetup, TypeParts, OrderFacts DEF IInv, ClassesOK
  <2> QED
    BY <2>1, <2>2, TypePartsNext DEF ResourcesOK
<1>5. InClass' /\ FinishedBefore' /\ LastCleansAll'
  BY <1>1, InSetup DEF IInv, InClass, FinishedBefore, LastCleansAll
<1>6. SetupComesFirst' /\ SetupProgress' /\ StartsComplete' /\ StaysComplete'
  BY <1>1, InSetup
  DEF SetupComesFirst, SetupProgress, StartsComplete, StaysComplete
<1>7. HasStarted' /\ DefaultFirst'
  BY <1>1, InSetup DEF HasStarted, DefaultFirst, ResourcesOK
<1>8. StuckForGood'
  BY <1>1, <1>2, InSetup DEF StuckForGood, ResourcesOK
<1> QED
  BY <1>4, <1>5, <1>6, <1>7, <1>8 DEF IInv

\* A setup that goes on has done its step, and that of its last one is complete
\* (xds_url_map_test_resources.py:276).
LEMMA SetupGoesOnInv ==
  ASSUME IInv, pc = "setup", SetupFrame, ResourcesOK, SetupGoesOn,
         SetupProgress', at = 11 => Complete', stuck # 0 => at < 7
  PROVE  IInv'
<1>1. /\ UNCHANGED <<strategy, runs, cur, attempts, started, finished, clients,
                     runners, errors, restarted, uncounted, stuck>>
      /\ \/ at < 11 /\ pc' = "setup" /\ at' = at + 1
         \/ at = 11 /\ pc' = "started" /\ at' = 1
  BY InSetup, SetupAdvances
  DEF SetupFrame, SetupGoesOn, suiteVars, nameVars, clientVars
<1>2. TypeOK'
  <2>1. NumbersOK'
    BY <1>1, InSetup, TypeParts DEF IInv, NumbersOK, Setup
  <2>2. ClassesOK'
    BY <1>1, TypeParts DEF IInv, ClassesOK
  <2> QED
    BY <2>1, <2>2, TypePartsNext DEF ResourcesOK
<1>3. InClass' /\ FinishedBefore' /\ LastCleansAll' /\ SetupComesFirst'
  BY <1>1, InSetup
  DEF IInv, InClass, FinishedBefore, LastCleansAll, SetupComesFirst
<1>4. StartsComplete' /\ StaysComplete'
  BY <1>1, InSetup DEF StartsComplete, StaysComplete
<1>5. HasStarted' /\ DefaultFirst'
  BY <1>1, InSetup DEF HasStarted, DefaultFirst, ResourcesOK
<1>6. StuckForGood'
  BY <1>1, InSetup DEF StuckForGood, ResourcesOK
<1> QED
  BY <1>2, <1>3, <1>4, <1>5, <1>6 DEF IInv

\* What td.cleanup leaves is a part of what was there, and of its hosts.
LEMMA LeftIsPart ==
  ASSUME NEW left, Leaves(left), SharedOK
  PROVE  parts' = left /\ parts' \subseteq Parts /\ hosts' \subseteq Classes
<1>1. left \subseteq parts
  BY DEF Leaves, LeftParts
<1> QED
  BY <1>1 DEF Leaves, SharedOK

\* Each step of the setup goes on, having done what it is for, or raises; the
\* runner of the first server, once its start was requested, refuses another
\* one (k8s_base_runner.py:175).
LEMMA SetupStepInv == IInv /\ SetupStep => IInv'
<1> SUFFICES ASSUME IInv, SetupStep PROVE IInv'
  OBVIOUS
<1>1. SetupFrame
  BY DEF SetupStep, SetupFrame
<1>2. SharedOK /\ FlagsOK /\ SetupProgress
  BY TypeParts DEF IInv
<1>3. CASE PreCleanup
  <2>1. pc = "setup" /\ at = 1
    BY <1>3, SetupSteps, TypeParts
    DEF PreCleanup, Setting, IInv, NumbersOK, Setup
  <2>2. ResourcesOK
    <3>1. parts' \subseteq Parts /\ hosts' \subseteq Classes
      BY <1>2, <1>3, LeftIsPart DEF PreCleanup
    <3>2. UNCHANGED <<namespace, servers, requested, holds, gaveUp>>
      BY <1>3 DEF PreCleanup
    <3> QED
      BY <1>2, <2>1, <3>1, <3>2, InSetup DEF ResourcesOK, SharedOK, FlagsOK
  <2>3. CASE SetupGoesOn
    BY <1>1, <2>1, <2>2, <2>3, InSetup, SetupSteps, SetupGoesOnInv
    DEF SetupGoesOn, SetupProgress
  <2>4. CASE SetupRaises(requested)
    BY <1>1, <2>1, <2>2, <2>4, SetupRaisesInv
  <2> QED
    BY <1>3, <2>3, <2>4 DEF PreCleanup
<1>4. CASE DeleteNamespace
  <2>1. pc = "setup" /\ at = 2
    BY <1>4, SetupSteps, TypeParts
    DEF DeleteNamespace, Setting, IInv, NumbersOK, Setup
  <2>2. ResourcesOK
    <3>1. SharedOK'
      BY <1>2, <1>4 DEF DeleteNamespace, SharedOK
    <3>2. FlagsOK'
      <4>1. /\ holds' = holds /\ gaveUp' = gaveUp
            /\ \/ namespace' = FALSE /\ servers' = {}
               \/ namespace' = namespace /\ servers' = servers
        BY <1>4 DEF DeleteNamespace
      <4> QED
        BY <1>2, <4>1 DEF FlagsOK
    <3> QED
      BY <1>4, <2>1, <3>1, <3>2, InSetup DEF DeleteNamespace, ResourcesOK
  <2>3. CASE SetupGoesOn
    BY <1>1, <2>1, <2>2, <2>3, InSetup, SetupSteps, SetupGoesOnInv
    DEF SetupGoesOn, SetupProgress
  <2>4. CASE SetupRaises(requested)
    BY <1>1, <2>1, <2>2, <2>4, SetupRaisesInv
  <2> QED
    BY <1>4, <2>3, <2>4 DEF DeleteNamespace
<1>5. ASSUME NEW part \in Parts, CreatePart(part) PROVE IInv'
  <2>1. /\ pc = "setup" /\ at \in 1..11
        /\ \/ part = "services" /\ at = 3
           \/ part = "map" /\ at = 4
           \/ part = "proxy" /\ at = 5
           \/ part = "rule" /\ at = 6
           \/ part = "endpoints" /\ at = 10
    <3>1. pc = "setup" /\ Setup[at] = part
      BY <1>5 DEF CreatePart, Setting
    <3>2. at \in 1..11
      BY <3>1, InSetup
    <3> QED
      BY <3>1, <3>2, SetupSteps DEF Parts
  <2>2. /\ UNCHANGED <<namespace, servers, requested, holds, gaveUp>>
        /\ parts' = parts \/ parts' = parts \cup {part}
        /\ hosts' = IF part = "map" /\ parts' # parts THEN Classes ELSE hosts
    BY <1>5 DEF CreatePart
  <2>3. ResourcesOK
    BY <1>2, <2>1, <2>2, InSetup DEF ResourcesOK, SharedOK, FlagsOK
  <2>4. CASE /\ part \notin parts /\ parts' = parts \cup {part}
             /\ SetupGoesOn
    <3>1. /\ at = 11 => FALSE
          /\ pc' = "setup" /\ at' = at + 1
          /\ stuck # 0 => at < 7
      BY <2>1, <2>4, InSetup, SetupAdvances
    <3>2. SetupProgress'
      BY <1>2, <2>1, <2>2, <2>4, <3>1 DEF SetupProgress
    <3> QED
      BY <1>1, <2>1, <2>3, <2>4, <3>1, <3>2, SetupGoesOnInv
  <2>5. CASE SetupRaises(requested)
    BY <1>1, <2>1, <2>3, <2>5, SetupRaisesInv
  <2> QED
    BY <1>5, <2>4, <2>5 DEF CreatePart
<1>6. ASSUME NEW r \in Servers, RunServer(r) PROVE IInv'
  <2>1. /\ pc = "setup" /\ at \in 1..11
        /\ \/ r = "default" /\ at = 7
           \/ r = "alternative" /\ at = 8
           \/ r = "affinity" /\ at = 9
    <3>1. pc = "setup" /\ Setup[at] = r
      BY <1>6 DEF RunServer, Setting
    <3>2. at \in 1..11
      BY <3>1, InSetup
    <3> QED
      BY <3>1, <3>2, SetupSteps DEF Servers
  <2>2. UNCHANGED <<parts, hosts, gaveUp>>
    BY <1>6 DEF RunServer
  <2>3. CASE ~CanRun(r)
    <3>1. SetupRaises(requested)
          /\ UNCHANGED <<namespace, servers, requested, holds>>
      BY <1>6, <2>3 DEF RunServer
    <3>2. ResourcesOK
      BY <1>2, <2>1, <2>2, <3>1, InSetup DEF ResourcesOK, SharedOK, FlagsOK
    <3> QED
      BY <1>1, <2>1, <3>1, <3>2, SetupRaisesInv
  <2>4. CASE CanRun(r)
    <3>1. /\ requested' = requested \cup {r}
          /\ \/ namespace' = TRUE /\ servers' = servers \cup {r} /\ SetupGoesOn
             \/ /\ SetupRaises(requested')
                /\ \/ namespace' = namespace /\ servers' = servers
                   \/ /\ namespace' = TRUE
                      /\ servers' \in {servers, servers \cup {r}}
      BY <1>6, <2>4 DEF RunServer
    <3>2. holds' \in {holds, TRUE, holds \/ r = "default"}
      BY <1>6, <2>4 DEF RunServer
    <3>3. ResourcesOK
      <4>1. SharedOK'
        BY <1>2, <2>2, <3>1 DEF SharedOK
      <4>2. FlagsOK'
        BY <1>2, <2>2, <3>1, <3>2 DEF FlagsOK
      <4>3. "default" \in requested'
        BY <1>2, <2>1, <3>1 DEF SetupProgress
      <4> QED
        BY <3>1, <4>1, <4>2, <4>3 DEF ResourcesOK
    <3>4. CASE servers' = servers \cup {r} /\ SetupGoesOn
      <4>1. stuck # 0 => FALSE
        BY <2>1, <2>4, InSetup DEF CanRun
      <4>2. pc' = "setup" /\ at' = at + 1
        BY <2>1, <3>4, SetupAdvances
      <4>3. SetupProgress'
        BY <1>2, <2>1, <2>2, <3>1, <3>4, <4>2 DEF SetupProgress
      <4> QED
        BY <1>1, <2>1, <3>3, <3>4, <4>1, <4>3, SetupGoesOnInv
    <3>5. CASE SetupRaises(requested')
      BY <1>1, <2>1, <3>3, <3>5, SetupRaisesInv
    <3> QED
      BY <3>1, <3>4, <3>5
  <2> QED
    BY <2>3, <2>4
<1>7. CASE WaitHealthy
  <2>1. pc = "setup" /\ at = 11 /\ UNCHANGED <<sharedVars, gaveUp>>
    <3>1. pc = "setup" /\ Setup[at] = "healthy"
      BY <1>7 DEF WaitHealthy, Setting
    <3> QED
      BY <1>7, <3>1, InSetup, SetupSteps DEF WaitHealthy
  <2>2. ResourcesOK
    BY <1>2, <2>1, InSetup DEF ResourcesOK, SharedOK, FlagsOK, sharedVars
  <2>3. CASE SetupGoesOn
    <3>1. pc' = "started"
      BY <2>1, <2>3, SetupAdvances
    <3>2. Complete'
      <4>1. /\ "services" \in parts /\ "map" \in parts /\ "proxy" \in parts
            /\ "rule" \in parts /\ "endpoints" \in parts
            /\ hosts = Classes
            /\ "default" \in servers /\ "alternative" \in servers
            /\ "affinity" \in servers
        BY <1>2, <2>1 DEF SetupProgress
      <4>2. parts \subseteq Parts /\ servers \subseteq Servers
        BY <1>2 DEF SharedOK
      <4>3. parts = Parts
        BY <4>1, <4>2 DEF Parts
      <4>4. servers = Servers
        BY <4>1, <4>2 DEF Servers
      <4> QED
        BY <2>1, <4>1, <4>3, <4>4 DEF Complete, sharedVars
    <3> QED
      BY <1>1, <2>1, <2>2, <2>3, <3>1, <3>2, InSetup, SetupGoesOnInv
      DEF SetupProgress
  <2>4. CASE SetupRaises(requested)
    BY <1>1, <2>1, <2>2, <2>4, SetupRaisesInv
  <2> QED
    BY <1>7, <2>3, <2>4 DEF WaitHealthy
<1> QED
  BY <1>3, <1>4, <1>5, <1>6, <1>7 DEF SetupStep

-------------------------------------------------------------------------------
(* The class and its cleanup *)

\* A class that starts counts as started even when its client does not come up
\* (xds_url_map_testcase.py:238).
LEMMA StartClientInv == IInv /\ StartClient => IInv'
<1> SUFFICES ASSUME IInv, StartClient PROVE IInv'
  OBVIOUS
<1> USE DEF IInv
<1>1. /\ pc = "started" /\ pc' \in {"tests", "count"}
      /\ started' = started \cup {Order[cur]} /\ runners' = runners \cup {cur}
      /\ clients' \in {clients, clients \cup {cur}}
      /\ errors' \in {errors, errors \cup {cur}}
      /\ UNCHANGED <<strategy, runs, cur, at, attempts, finished, parts, hosts,
                     namespace, servers, requested, holds, restarted,
                     uncounted, gaveUp, stuck>>
  BY DEF StartClient, suiteVars, sharedVars
<1>2. cur \in runs /\ cur \in Classes /\ Order[cur] \in Names /\ stuck = 0
      /\ runs \subseteq Classes
  BY <1>1, OrderFacts DEF InClass, StuckForGood, TypeOK
<1>3. TypeOK'
  <2>1. NumbersOK' /\ SharedOK' /\ FlagsOK'
    BY <1>1, TypeParts DEF NumbersOK, SharedOK, FlagsOK
  <2>2. ClassesOK'
    BY <1>1, <1>2, TypeParts DEF ClassesOK
  <2> QED
    BY <2>1, <2>2, TypePartsNext
<1>4. InClass' /\ FinishedBefore' /\ LastCleansAll' /\ SetupComesFirst'
      /\ SetupProgress'
  BY <1>1, <1>2
  DEF InClass, FinishedBefore, LastCleansAll, SetupComesFirst, SetupProgress
<1>5. StartsComplete' /\ StaysComplete' /\ HasStarted'
  BY <1>1, <1>2 DEF StartsComplete, StaysComplete, HasStarted, Complete
<1>6. DefaultFirst' /\ StuckForGood'
  BY <1>1, <1>2 DEF DefaultFirst, StuckForGood, Ending
<1> QED
  BY <1>3, <1>4, <1>5, <1>6

\* Tests, restarts and the end change nothing that is shared.
LEMMA OthersInv == IInv /\ (RunTests \/ ClientRestarts \/ Done) => IInv'
<1> SUFFICES ASSUME IInv, RunTests \/ ClientRestarts \/ Done PROVE IInv'
  OBVIOUS
<1> USE DEF IInv
<1>1. /\ UNCHANGED <<strategy, runs, cur, at, attempts, started, finished,
                     parts, hosts, namespace, servers, requested, holds,
                     clients, runners, uncounted, gaveUp, stuck>>
      /\ \/ pc = "tests" /\ pc' = "count"
         \/ pc = "tests" /\ pc' = "tests"
         \/ pc = "next" /\ pc' = "done" /\ cur = Len(Order)
      /\ errors' \in {errors, errors \cup {cur}, {cur}}
      /\ restarted' \in {restarted, restarted \cup {cur}}
      /\ pc # "tests" => errors' = errors /\ restarted' = restarted
  BY DEF RunTests, ClientRestarts, Done, suiteVars, nameVars, sharedVars,
    clientVars, historyVars, processVars
<1>2. pc = "tests" => cur \in Classes
  BY DEF InClass, TypeOK
<1>3. TypeOK'
  <2>1. NumbersOK' /\ SharedOK' /\ FlagsOK'
    BY <1>1, TypeParts DEF NumbersOK, SharedOK, FlagsOK
  <2>2. ClassesOK'
    BY <1>1, <1>2, TypeParts DEF ClassesOK
  <2> QED
    BY <2>1, <2>2, TypePartsNext
<1>4. InClass' /\ FinishedBefore' /\ LastCleansAll' /\ SetupComesFirst'
      /\ SetupProgress'
  BY <1>1 DEF InClass, FinishedBefore, LastCleansAll, SetupComesFirst,
    SetupProgress
<1>5. StartsComplete' /\ StaysComplete' /\ HasStarted'
  BY <1>1 DEF StartsComplete, StaysComplete, HasStarted, Complete, Ending
<1>6. DefaultFirst' /\ StuckForGood'
  BY <1>1 DEF DefaultFirst, StuckForGood, Ending
<1> QED
  BY <1>3, <1>4, <1>5, <1>6

\* A class is finished before its cleanup, unless the count of its restarts
\* raises what is not expected (xds_url_map_testcase.py:265).
LEMMA CountRestartsInv == IInv /\ CountRestarts => IInv'
<1> SUFFICES ASSUME IInv, CountRestarts PROVE IInv'
  OBVIOUS
<1> USE DEF IInv
<1>1. /\ pc = "count"
      /\ UNCHANGED <<strategy, runs, cur, attempts, started, parts, hosts,
                     namespace, servers, requested, holds, clients, runners,
                     restarted, gaveUp, stuck>>
      /\ \/ pc' = "cleanup" /\ at' = 1 /\ finished' = finished \cup {Order[cur]}
         \/ pc' = "next" /\ at' = at /\ finished' = finished
      /\ errors' \in {errors, errors \cup {cur}}
      /\ uncounted' \in {uncounted, uncounted \cup {cur}}
  BY DEF CountRestarts, suiteVars, sharedVars, clientVars
<1>2. cur \in Classes /\ Order[cur] \in Names /\ cur \in 1..cur
  BY <1>1, OrderFacts DEF InClass, TypeOK
<1>3. TypeOK'
  <2>1. NumbersOK' /\ SharedOK' /\ FlagsOK'
    BY <1>1, TypeParts DEF NumbersOK, SharedOK, FlagsOK, Setup
  <2>2. ClassesOK'
    BY <1>1, <1>2, TypeParts DEF ClassesOK
  <2> QED
    BY <2>1, <2>2, TypePartsNext
<1>4. InClass' /\ LastCleansAll' /\ SetupComesFirst' /\ SetupProgress'
  BY <1>1 DEF InClass, LastCleansAll, SetupComesFirst, SetupProgress
<1>5. FinishedBefore'
  BY <1>1, <1>2 DEF FinishedBefore
<1>6. StartsComplete' /\ StaysComplete' /\ HasStarted'
  BY <1>1 DEF StartsComplete, StaysComplete, HasStarted, Complete, Ending
<1>7. DefaultFirst' /\ StuckForGood'
  BY <1>1 DEF DefaultFirst, StuckForGood, Ending
<1> QED
  BY <1>3, <1>4, <1>5, <1>6, <1>7

\* An attempt of the cleanup goes on to what is shared only when all names are
\* finished (xds_url_map_testcase.py:307).
LEMMA CleanupAdvances ==
  ASSUME IInv, pc = "cleanup", CleanupGoesOn \/ CleanupRaises
  PROVE  /\ pc' \in {"cleanup", "next"} /\ cur' = cur
         /\ at' \in 1..5 /\ (at' > 1 => cur = Len(Order))
         /\ attempts' \in 0..Attempts
         /\ errors' \in {errors, errors \cup {cur}}
<1>1. at \in 1..11 /\ attempts \in 0..Attempts
  BY TypeParts DEF IInv, NumbersOK, Setup
<1>2. at < LastStep => cur = Len(Order) /\ at < 5
  BY <1>1, CleanupAllIsLast, CleanupSteps DEF LastStep
<1>3. ClassEnds => /\ pc' = "next" /\ at' = 1 /\ cur' = cur
                   /\ attempts' = 0
                   /\ errors' \in {errors, errors \cup {cur}}
  BY DEF ClassEnds, AssertNoRestarts
<1>4. CASE CleanupGoesOn
  <2>1. \/ /\ at < LastStep /\ at' = at + 1
           /\ UNCHANGED <<pc, cur, attempts, errors>>
        \/ ClassEnds
    BY <1>4 DEF CleanupGoesOn
  <2>2. CASE /\ at < LastStep /\ at' = at + 1
             /\ UNCHANGED <<pc, cur, attempts, errors>>
    BY <1>1, <1>2, <2>2
  <2> QED
    BY <1>1, <1>3, <2>1, <2>2 DEF Attempts
<1>5. CASE CleanupRaises
  <2>1. \/ /\ attempts' = IF attempts < Attempts THEN attempts + 1 ELSE attempts
           /\ at' = 1
           /\ UNCHANGED <<pc, cur, errors>>
        \/ ClassEnds
    BY <1>5 DEF CleanupRaises
  <2>2. attempts < Attempts => attempts + 1 \in 0..Attempts
    BY <1>1 DEF Attempts
  <2> QED
    BY <1>1, <1>3, <2>1, <2>2 DEF Attempts
<1> QED
  BY <1>4, <1>5

\* Only the last class, which no other follows, removes what is shared.
LEMMA CleanupStepInv == IInv /\ CleanupStep => IInv'
<1> SUFFICES ASSUME IInv, CleanupStep PROVE IInv'
  OBVIOUS
<1> USE DEF IInv
<1>1. /\ pc = "cleanup" /\ (CleanupGoesOn \/ CleanupRaises)
      /\ UNCHANGED <<strategy, runs, started, finished, runners, restarted,
                     uncounted, stuck>>
  BY DEF CleanupStep, CleanupClient, CleanupTrafficDirector, CleanupServer,
    Cleaning, suiteVars, nameVars
<1>2. /\ pc' \in {"cleanup", "next"} /\ cur' = cur
      /\ at' \in 1..5 /\ (at' > 1 => cur = Len(Order))
      /\ attempts' \in 0..Attempts
      /\ errors' \in {errors, errors \cup {cur}}
  BY <1>1, CleanupAdvances
<1>3. SharedOK /\ FlagsOK /\ ClassesOK /\ NumbersOK
  BY TypeParts
<1>4. cur \in Classes
  BY <1>1 DEF InClass, TypeOK
<1>5. /\ SharedOK' /\ FlagsOK' /\ clients' \subseteq clients
      /\ \/ UNCHANGED sharedVars
         \/ cur = Len(Order)
  <2>1. CASE CleanupClient
    <3>1. UNCHANGED sharedVars /\ clients' \subseteq clients
      BY <2>1 DEF CleanupClient
    <3>2. gaveUp' \in {gaveUp, TRUE}
      BY <2>1 DEF CleanupClient, CleanupRaises
    <3> QED
      BY <1>3, <3>1, <3>2 DEF sharedVars, SharedOK, FlagsOK
  <2>2. at = 1 \/ cur = Len(Order)
    BY <1>1, <1>3 DEF LastCleansAll, NumbersOK, Setup
  <2>3. CASE CleanupTrafficDirector
    <3>1. cur = Len(Order)
      BY <2>2, <2>3, CleanupSteps DEF CleanupTrafficDirector, Cleaning
    <3>2. parts' \subseteq Parts /\ hosts' \subseteq Classes
      BY <1>3, <2>3, LeftIsPart DEF CleanupTrafficDirector
    <3>3. UNCHANGED <<namespace, servers, requested, holds, clients>>
      BY <2>3 DEF CleanupTrafficDirector
    <3>4. gaveUp' \in {gaveUp, TRUE}
      BY <2>3 DEF CleanupTrafficDirector, CleanupRaises
    <3> QED
      BY <1>3, <3>1, <3>2, <3>3, <3>4 DEF SharedOK, FlagsOK
  <2>4. ASSUME NEW r \in Servers, CleanupServer(r)
        PROVE  /\ SharedOK' /\ FlagsOK' /\ clients' \subseteq clients
               /\ cur = Len(Order)
    <3>1. cur = Len(Order)
      BY <2>2, <2>4, CleanupSteps DEF CleanupServer, Cleaning, Servers
    <3>2. /\ clients' = clients /\ parts' = parts /\ hosts' = hosts
          /\ requested' = requested \ {r}
          /\ \/ servers' = {} /\ namespace' = FALSE
             \/ servers' \in {servers, servers \ {r}} /\ namespace' = namespace
      BY <2>4 DEF CleanupServer
    <3>3. holds' \in {holds, holds /\ r # "default"}
      BY <2>4 DEF CleanupServer
    <3>4. gaveUp' \in {gaveUp, TRUE}
      BY <2>4 DEF CleanupServer, CleanupRaises
    <3>5. SharedOK'
      BY <1>3, <3>2 DEF SharedOK
    <3>6. FlagsOK'
      BY <1>3, <3>2, <3>3, <3>4 DEF FlagsOK
    <3> QED
      BY <3>1, <3>2, <3>5, <3>6
  <2> QED
    BY <2>1, <2>3, <2>4 DEF CleanupStep, CleanupTrafficDirector
<1>6. TypeOK'
  <2>1. NumbersOK'
    BY <1>1, <1>2, <1>3 DEF NumbersOK, Setup
  <2>2. ClassesOK'
    BY <1>1, <1>2, <1>3, <1>4, <1>5 DEF ClassesOK
  <2> QED
    BY <1>5, <2>1, <2>2, TypePartsNext
<1>7. InClass' /\ LastCleansAll' /\ SetupComesFirst' /\ SetupProgress'
      /\ FinishedBefore'
  BY <1>1, <1>2
  DEF InClass, LastCleansAll, SetupComesFirst, SetupProgress, FinishedBefore
<1>8. CASE cur = Len(Order)
  <2>1. Ending'
    BY <1>2, <1>8 DEF Ending
  <2>2. StartsComplete' /\ StaysComplete' /\ HasStarted' /\ DefaultFirst'
        /\ StuckForGood'
    BY <1>1, <1>2, <2>1
    DEF StartsComplete, StaysComplete, HasStarted, DefaultFirst, StuckForGood
  <2> QED
    BY <1>6, <1>7, <2>2
<1>9. CASE UNCHANGED sharedVars
  <2>1. Ending => Ending'
    BY <1>2 DEF Ending
  <2>2. StartsComplete' /\ StaysComplete' /\ HasStarted'
    BY <1>1, <1>2, <1>9, <2>1
    DEF StartsComplete, StaysComplete, HasStarted, Complete, sharedVars
  <2>3. DefaultFirst' /\ StuckForGood'
    BY <1>1, <1>2, <1>9, <2>1 DEF DefaultFirst, StuckForGood, sharedVars
  <2> QED
    BY <1>6, <1>7, <2>2, <2>3
<1> QED
  BY <1>5, <1>8, <1>9

-------------------------------------------------------------------------------
(* The theorems *)

\* IInv holds throughout a run of the url-map tests.
THEOREM UrlMapInvariant == Spec => []IInv
<1>1. IInv /\ [Next]_vars => IInv'
  <2> SUFFICES ASSUME IInv, [Next]_vars PROVE IInv'
    OBVIOUS
  <2>1. CASE TestStep
    BY <2>1, SetUpClassInv, SetupStepInv, StartClientInv, OthersInv,
      CountRestartsInv, CleanupStepInv
    DEF TestStep
  <2>2. CASE ClientRestarts
    BY <2>2, OthersInv
  <2>3. CASE UNCHANGED vars
    BY <2>3 DEF vars, suiteVars, processVars, nameVars, sharedVars, clientVars,
      historyVars, IInv, TypeOK, InClass, FinishedBefore, LastCleansAll,
      SetupComesFirst, SetupProgress, StartsComplete, StaysComplete, HasStarted,
      DefaultFirst, StuckForGood, Complete, Ending
  <2> QED
    BY <2>1, <2>2, <2>3 DEF Next
<1> QED
  BY <1>1, InitInv, PTL DEF Spec

\* The variables keep their types, for any number of classes.
THEOREM TypeCorrect == Spec => []TypeOK
<1>1. IInv => TypeOK
  BY DEF IInv
<1> QED
  BY <1>1, UrlMapInvariant, PTL

\* Every class that comes to its tests finds all that the classes share
\* (setUpClass and cleanupAfterTests of xds_url_map_testcase.py).
THEOREM SharedWhileTested == Spec => []ResourcesAreShared
<1>1. IInv => ResourcesAreShared
  <2> SUFFICES ASSUME IInv, pc = "tests", strategy # "reuse"
               PROVE  parts = Parts /\ cur \in hosts /\ servers = Servers
    BY DEF ResourcesAreShared
  <2>1. Complete
    BY DEF IInv, HasStarted, StaysComplete, Ending
  <2>2. cur \in Classes
    BY DEF IInv, InClass, TypeOK
  <2> QED
    BY <2>1, <2>2 DEF Complete
<1> QED
  BY <1>1, UrlMapInvariant, PTL

\* A setup that failed after the start of a server was requested is never made
\* good (run of k8s_base_runner.py).
THEOREM FailedSetupIsFinal == Spec => []SetupFailsForGood
<1>1. IInv => SetupFailsForGood
  BY DEF IInv, StuckForGood, SetupFailsForGood
<1> QED
  BY <1>1, UrlMapInvariant, PTL

-------------------------------------------------------------------------------
(* What the end of a run shows, and what it leaves *)

\* A class that has ended has reported its restarts.
Reported ==
  \A c \in restarted :
    /\ c \in Nat /\ c <= cur
    /\ c < cur \/ pc \in {"next", "done"} => c \in errors \cup uncounted

\* Only the class at hand has a client, until the first step of its cleanup.
ClientsGo ==
  gaveUp = FALSE => \A c \in clients :
    \/ c \in uncounted
    \/ /\ c = cur
       /\ \/ pc \in {"tests", "count"}
          \/ pc = "cleanup" /\ at = 1

\* The last class is finished when it cleans up.
LastFinishes == Order[Len(Order)] \in finished => Ending

\* The cleanup of the last class has removed what its steps so far remove.
Removed ==
  gaveUp = FALSE /\ strategy = "create" /\ finished = Names =>
    /\ at > 2 \/ pc # "cleanup" => parts = {}
    /\ at > 4 \/ pc # "cleanup" => namespace = FALSE /\ servers = {}

InFiveSteps == pc = "cleanup" => at <= 5

EndInv == Reported /\ ClientsGo /\ LastFinishes /\ Removed /\ InFiveSteps

\* Nothing has run, and not all names are finished.
LEMMA InitEnd == Init => EndInv
<1>1. Names # {} /\ Order[Len(Order)] \in Names
  BY OrderFacts
<1> QED
  BY <1>1 DEF Init, EndInv, Reported, ClientsGo, LastFinishes, Removed,
    InFiveSteps

\* The number of the class, and of the step, are numbers in both states.
EndTypes ==
  /\ cur \in Nat /\ at \in 1..11 /\ gaveUp \in BOOLEAN
  /\ namespace \in BOOLEAN

\* That follows from the types of the variables.
LEMMA EndIsTyped ==
  ASSUME IInv
  PROVE  EndTypes /\ Order[Len(Order)] \in Names
BY OrderFacts, TypeParts DEF EndTypes, IInv, NumbersOK, FlagsOK, Setup

\* What is finished stays so: the last class has cleaned up what it removes when
\* another class would begin, but there is none.
LEMMA SetupEnd ==
  ASSUME IInv, EndInv, setUpClass \/ SetupStep \/ StartClient
  PROVE  EndInv'
<1>0. EndTypes /\ Order[Len(Order)] \in Names
  BY EndIsTyped
<1>1. ~Ending
  <2>1. (pc = "next" /\ cur < Len(Order)) \/ pc \in {"setup", "started"}
    BY DEF setUpClass, SetupStep, PreCleanup, DeleteNamespace, WaitHealthy,
      CreatePart, RunServer, Setting, StartClient
  <2> QED
    BY <1>0, <2>1, OrderFacts DEF Ending, EndTypes
<1>2. finished' = finished /\ Order[Len(Order)] \notin finished
  BY <1>1 DEF setUpClass, SetupStep, StartClient, nameVars, EndInv, LastFinishes
<1>3. LastFinishes' /\ Removed' /\ InFiveSteps'
  <2>1. pc' # "cleanup"
    BY DEF setUpClass, SetupStep, PreCleanup, DeleteNamespace, WaitHealthy,
      CreatePart, RunServer, SetupGoesOn, SetupRaises, Setting, StartClient
  <2> QED
    BY <1>0, <1>2, <2>1 DEF LastFinishes, Removed, InFiveSteps
<1>4. restarted' = restarted /\ uncounted' = uncounted
      /\ errors \subseteq errors'
  BY DEF setUpClass, SetupStep, PreCleanup, DeleteNamespace, WaitHealthy,
    CreatePart, RunServer, SetupGoesOn, SetupRaises, StartClient, historyVars
<1>5. CASE setUpClass
  <2>1. /\ pc = "next" /\ cur' = cur + 1
        /\ UNCHANGED <<clients, gaveUp>>
    BY <1>5 DEF setUpClass, clientVars, historyVars
  <2>2. Reported'
    BY <1>0, <1>4, <2>1 DEF Reported, EndInv, EndTypes
  <2>3. ClientsGo'
    BY <1>4, <2>1 DEF ClientsGo, EndInv
  <2> QED
    BY <1>3, <2>2, <2>3 DEF EndInv
<1>6. CASE SetupStep \/ StartClient
  <2>1. /\ cur' = cur /\ pc \in {"setup", "started"}
        /\ pc' \in {"setup", "started", "tests", "count"}
    BY <1>6 DEF SetupStep, PreCleanup, DeleteNamespace, WaitHealthy, CreatePart,
      RunServer, SetupGoesOn, SetupRaises, Setting, StartClient
  <2>2. gaveUp' \in {gaveUp, TRUE}
    BY <1>6 DEF SetupStep, PreCleanup, DeleteNamespace, WaitHealthy,
      CreatePart, RunServer, StartClient
  <2>3. clients' = clients \/ (StartClient /\ clients' = clients \cup {cur})
    BY <1>6 DEF SetupStep, StartClient, clientVars
  <2>4. StartClient => pc' \in {"tests", "count"}
    BY DEF StartClient
  <2>5. Reported'
    BY <1>0, <1>4, <2>1 DEF Reported, EndInv, EndTypes
  <2>6. gaveUp' = FALSE => gaveUp = FALSE
    BY <2>2
  <2>7. ClientsGo'
    BY <1>0, <1>4, <2>1, <2>3, <2>4, <2>6 DEF ClientsGo, EndInv, EndTypes
  <2> QED
    BY <1>3, <2>5, <2>7 DEF EndInv
<1> QED
  BY <1>5, <1>6

\* Tests, restarts, their count and the end.
LEMMA CountEnd ==
  ASSUME IInv, EndInv, RunTests \/ ClientRestarts \/ CountRestarts \/ Done
  PROVE  EndInv'
<1>0. EndTypes /\ Order[Len(Order)] \in Names
  BY EndIsTyped
<1>1. /\ cur' = cur /\ clients' = clients /\ gaveUp' = gaveUp
      /\ strategy' = strategy /\ parts' = parts /\ namespace' = namespace
      /\ servers' = servers
  BY DEF RunTests, ClientRestarts, CountRestarts, Done, suiteVars, processVars,
    sharedVars, clientVars, historyVars
<1>2. CASE RunTests \/ ClientRestarts
  <2>1. /\ pc = "tests" /\ pc' \in {"tests", "count"} /\ finished' = finished
        /\ uncounted' = uncounted /\ errors \subseteq errors'
        /\ restarted' \in {restarted, restarted \cup {cur}}
    BY <1>2 DEF RunTests, ClientRestarts, nameVars, processVars
  <2>2. Order[Len(Order)] \notin finished
    BY <2>1 DEF EndInv, LastFinishes, Ending
  <2>3. Reported'
    BY <1>0, <1>1, <2>1 DEF EndInv, Reported, EndTypes
  <2>4. ClientsGo'
    BY <1>1, <2>1 DEF EndInv, ClientsGo
  <2>5. LastFinishes' /\ Removed' /\ InFiveSteps'
    BY <1>0, <2>1, <2>2 DEF LastFinishes, Removed, InFiveSteps
  <2> QED
    BY <2>3, <2>4, <2>5 DEF EndInv
<1>3. CASE CountRestarts
  <2>1. /\ pc = "count" /\ restarted' = restarted
        /\ errors \subseteq errors' /\ uncounted \subseteq uncounted'
        /\ \/ /\ pc' = "cleanup" /\ at' = 1
              /\ finished' = finished \cup {Order[cur]}
           \/ /\ pc' = "next" /\ finished' = finished
              /\ cur \in uncounted'
    BY <1>3 DEF CountRestarts
  <2>2. Order[Len(Order)] \notin finished /\ cur \in Classes
    BY <2>1 DEF EndInv, LastFinishes, Ending, IInv, InClass, TypeOK
  <2>3. Reported'
    BY <1>0, <1>1, <2>1 DEF EndInv, Reported, EndTypes
  <2>4. ClientsGo'
    BY <1>1, <2>1 DEF EndInv, ClientsGo
  <2>5. LastFinishes'
    BY <1>1, <2>1, <2>2, OrderFacts DEF LastFinishes, Ending
  <2>6. Removed' /\ InFiveSteps'
    BY <1>0, <2>1, <2>2 DEF Removed, InFiveSteps
  <2> QED
    BY <2>3, <2>4, <2>5, <2>6 DEF EndInv
<1>4. CASE Done
  <2>1. /\ pc = "next" /\ pc' = "done"
        /\ UNCHANGED <<finished, uncounted, errors, restarted>>
    BY <1>4 DEF Done, nameVars, historyVars
  <2>2. Reported'
    BY <1>0, <1>1, <2>1 DEF EndInv, Reported, EndTypes
  <2>3. ClientsGo' /\ Removed' /\ InFiveSteps'
    BY <1>1, <2>1 DEF EndInv, ClientsGo, Removed, InFiveSteps
  <2>4. LastFinishes'
    BY <1>1, <2>1 DEF EndInv, LastFinishes, Ending
  <2> QED
    BY <2>2, <2>3, <2>4 DEF EndInv
<1> QED
  BY <1>2, <1>3, <1>4

\* An attempt of a cleanup ends the class, with its restarts reported, or goes
\* on: to the next step that the class is to take, or from the start.
LEMMA CleanupEnds ==
  ASSUME EndTypes, pc = "cleanup", CleanupGoesOn \/ CleanupRaises
  PROVE  /\ cur' = cur /\ errors \subseteq errors'
         /\ \/ pc' = "cleanup" /\ at' = at + 1 /\ at < LastStep
            \/ pc' = "cleanup" /\ at' = 1
            \/ pc' = "next" /\ at >= LastStep
            \/ pc' = "next" /\ gaveUp' = TRUE
         /\ pc' = "next" =>
              (cur \in restarted => cur \in errors' \cup uncounted)
<1>1. LastStep \in {1, 5}
  BY CleanupSteps DEF LastStep
<1>2. ClassEnds =>
        /\ pc' = "next" /\ cur' = cur /\ errors \subseteq errors'
        /\ cur \in restarted => cur \in errors' \cup uncounted
  BY DEF ClassEnds, AssertNoRestarts
<1>3. CASE CleanupGoesOn
  BY <1>1, <1>2, <1>3 DEF CleanupGoesOn, EndTypes
<1>4. CASE CleanupRaises
  BY <1>2, <1>4 DEF CleanupRaises
<1> QED
  BY <1>3, <1>4

\* The steps of the cleanup: the client, and of the last class what is shared.
LEMMA CleanupEnd ==
  ASSUME IInv, EndInv, CleanupStep
  PROVE  EndInv'
<1>0. EndTypes
  BY EndIsTyped
<1>s. /\ pc = "cleanup" /\ at \in 1..5
      /\ Cleanup[at] = "client" => at = 1
      /\ Cleanup[at] = "td.cleanup" => at = 2
      /\ Cleanup[at] \in Servers => at \in 3..5
      /\ at = 4 => Cleanup[at] = "alternative"
  <2>1. pc = "cleanup"
    BY DEF CleanupStep, CleanupClient, CleanupTrafficDirector, CleanupServer,
      Cleaning
  <2>2. at \in 1..5
    BY <1>0, <2>1 DEF EndInv, InFiveSteps, EndTypes
  <2> QED
    BY <2>1, <2>2 DEF Cleanup, Servers
<1>1. /\ pc = "cleanup" /\ (CleanupGoesOn \/ CleanupRaises)
      /\ UNCHANGED <<strategy, finished, restarted, uncounted>>
  BY DEF CleanupStep, CleanupClient, CleanupTrafficDirector, CleanupServer,
    Cleaning, suiteVars, nameVars
<1>2. /\ cur' = cur /\ errors \subseteq errors'
      /\ \/ pc' = "cleanup" /\ at' = at + 1 /\ at < LastStep
         \/ pc' = "cleanup" /\ at' = 1
         \/ pc' = "next" /\ at >= LastStep
         \/ pc' = "next" /\ gaveUp' = TRUE
      /\ pc' = "next" => (cur \in restarted => cur \in errors' \cup uncounted)
  BY <1>0, <1>1, CleanupEnds
<1>3. gaveUp' \in {gaveUp, TRUE}
  BY DEF CleanupStep, CleanupClient, CleanupTrafficDirector, CleanupServer,
    CleanupRaises
<1>4. Reported'
  BY <1>0, <1>1, <1>2 DEF EndInv, Reported, EndTypes
<1>5. LastFinishes'
  BY <1>1, <1>2 DEF EndInv, LastFinishes, Ending
<1>6. ClientsGo'
  <2>1. CASE CleanupClient
    <3>1. \/ clients' = clients \ {cur}
          \/ gaveUp' = TRUE
          \/ CleanupRaises /\ clients' \in {clients, clients \ {cur}}
      BY <2>1 DEF CleanupClient
    <3>2. CleanupRaises => gaveUp' = TRUE \/ (pc' = "cleanup" /\ at' = 1)
      BY <1>1 DEF CleanupRaises
    <3> QED
      BY <1>1, <1>2, <1>3, <3>1, <3>2 DEF EndInv, ClientsGo
  <2>2. CASE CleanupTrafficDirector \/ \E r \in Servers : CleanupServer(r)
    <3>1. clients' = clients /\ at # 1
      BY <2>2, CleanupSteps DEF CleanupTrafficDirector, CleanupServer, Cleaning,
        Servers
    <3> QED
      BY <1>1, <1>2, <1>3, <3>1 DEF EndInv, ClientsGo
  <2> QED
    BY <2>1, <2>2 DEF CleanupStep
<1>7. Removed'
  <2> SUFFICES ASSUME gaveUp' = FALSE, strategy = "create", finished = Names
               PROVE  /\ at' > 2 \/ pc' # "cleanup" => parts' = {}
                      /\ at' > 4 \/ pc' # "cleanup" =>
                           namespace' = FALSE /\ servers' = {}
    BY <1>1 DEF Removed
  <2>1. LastStep = 5 /\ gaveUp = FALSE
    BY <1>3, CleanupSteps DEF LastStep, cleanup_all
  <2>2. /\ at > 2 => parts = {}
        /\ at > 4 => namespace = FALSE /\ servers = {}
    BY <1>1, <2>1 DEF EndInv, Removed
  <2>3. \/ pc' = "cleanup" /\ at' = at + 1 /\ at < 5
        \/ pc' = "cleanup" /\ at' = 1
        \/ pc' = "next" /\ at >= 5
    BY <1>2, <2>1
  <2>4. CASE pc' = "cleanup" /\ at' = 1
    BY <2>4
  <2>5. CASE /\ ~(pc' = "cleanup" /\ at' = 1)
             /\ ~CleanupRaises
    <3>1. CASE CleanupClient
      <4>1. at = 1
        BY <1>s, <3>1 DEF CleanupClient, Cleaning
      <4> QED
        BY <2>3, <2>5, <4>1
    <3>2. CASE CleanupTrafficDirector
      <4>1. at = 2 /\ parts' = {}
        BY <1>s, <2>5, <3>2 DEF CleanupTrafficDirector, Cleaning
      <4> QED
        BY <2>3, <2>5, <4>1
    <3>3. ASSUME NEW r \in Servers, CleanupServer(r)
          PROVE  /\ at' > 2 \/ pc' # "cleanup" => parts' = {}
                 /\ at' > 4 \/ pc' # "cleanup" =>
                      namespace' = FALSE /\ servers' = {}
      <4>1. /\ at \in 3..5 /\ parts' = parts
            /\ at = 4 => r = "alternative"
        BY <1>s, <3>3 DEF CleanupServer, Cleaning
      <4>2. \/ /\ RemovesNamespace(r)
               /\ namespace' = FALSE /\ servers' = {}
            \/ /\ ~RemovesNamespace(r)
               /\ servers' = servers \ {r} /\ namespace' = namespace
        BY <2>5, <3>3 DEF CleanupServer
      <4>3. at = 4 => namespace' = FALSE /\ servers' = {}
        BY <4>1, <4>2 DEF RemovesNamespace
      <4> QED
        BY <1>0, <2>2, <2>3, <2>5, <4>1, <4>2, <4>3
    <3> QED
      BY <3>1, <3>2, <3>3 DEF CleanupStep
  <2>6. CASE CleanupRaises
    <3>1. pc' = "cleanup" /\ at' = 1
      BY <1>1, <2>6 DEF CleanupRaises
    <3> QED
      BY <3>1
  <2> QED
    BY <2>4, <2>5, <2>6
<1>8. InFiveSteps'
  BY <1>1, <1>2, <1>s, CleanupSteps DEF InFiveSteps, LastStep
<1> QED
  BY <1>4, <1>5, <1>6, <1>7, <1>8 DEF EndInv

\* EndInv holds throughout a run of the url-map tests.
LEMMA EndInvariant == Spec => []EndInv
<1>1. IInv /\ EndInv /\ [Next]_vars => EndInv'
  <2> SUFFICES ASSUME IInv, EndInv, [Next]_vars PROVE EndInv'
    OBVIOUS
  <2>1. CASE Next
    BY <2>1, SetupEnd, CountEnd, CleanupEnd DEF Next, TestStep
  <2>2. CASE UNCHANGED vars
    BY <2>2 DEF vars, suiteVars, processVars, nameVars, sharedVars, clientVars,
      historyVars, EndInv, Reported, ClientsGo, LastFinishes, Removed,
      InFiveSteps, Ending
  <2> QED
    BY <2>1, <2>2
<1> QED
  BY <1>1, InitEnd, UrlMapInvariant, PTL DEF Spec

\* A client that restarted fails its class, however the cleanup of the class
\* went (cleanupAfterTests of xds_url_map_testcase.py).
THEOREM RestartsAreProved == Spec => []RestartsAreReported
<1>1. EndInv => RestartsAreReported
  BY DEF EndInv, Reported, RestartsAreReported
<1> QED
  BY <1>1, EndInvariant, PTL

\* A run whose cleanups were not given up leaves no client, unless its restarts
\* could not be counted, and, when each name has finished, nothing shared.
THEOREM NothingIsLeftProved == Spec => []NothingIsLeft
<1>1. IInv /\ EndInv => NothingIsLeft
  <2> SUFFICES ASSUME IInv, EndInv, pc = "done", ~gaveUp
               PROVE  /\ clients \subseteq uncounted
                      /\ strategy = "create" /\ finished = Names =>
                           parts = {} /\ ~namespace /\ servers = {}
    BY DEF NothingIsLeft
  <2>1. gaveUp = FALSE
    BY EndIsTyped DEF EndTypes
  <2> QED
    BY <2>1 DEF EndInv, ClientsGo, Removed
<1> QED
  BY <1>1, UrlMapInvariant, EndInvariant, PTL
===============================================================================

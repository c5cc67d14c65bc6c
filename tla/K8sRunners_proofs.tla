-------------------------- MODULE K8sRunners_proofs --------------------------
(***************************************************************************)
(* Proofs about K8sRunners, for any test suites: any runners in any        *)
(* namespaces, any order of their starts and cleanups, any numbers of runs *)
(* and failures, with or without force and Ctrl-C.                         *)
(*                                                                         *)
(* Basics holds first.  Each of the other invariants is inductive with it, *)
(* and says what the steps that are still to come will do.                 *)
(***************************************************************************)
EXTENDS K8sRunners, SequenceTheorems, TLAPS

Named == Kinds \ {"pmName"}

\* Where a run or a cleanup is.
Positions ==
  /\ phase \in {"test", "run"} => pos = 0
  /\ phase \in {"run", "cleanup"} => who \in Runners
  /\ phase = "run" => stage[who] \in {"requested", "completed"} /\ runs[who] > 0
  /\ phase = "cleanup" /\ pos > 0 => who = Suite.cleanup[pos]
  /\ phase = "done" => pos = Len(Suite.cleanup)

\* No field stands for a grant, which is revoked on the spot, and no client has
\* a service.
Fields ==
  /\ \A o \in dying : o[2] # "grant"
  /\ \A r \in Runners :
       /\ "grant" \notin held[r]
       /\ "svc" \in held[r] => Args(r).kind # "client"

Basics == TypeOK /\ Positions /\ Fields

-------------------------------------------------------------------------------
(* The suites and the steps of their runners *)

\* What holds of any suite.
LEMMA SuiteFacts ==
  ASSUME suite \in DOMAIN Suites
  PROVE  /\ Suite.cleanup \in Seq(Runners) /\ Len(Suite.cleanup) \in Nat \ {0}
         /\ \A r \in Runners :
              \E i \in 1..Len(Suite.cleanup) : Suite.cleanup[i] = r
         /\ \A r \in Runners :
              \E q \in Runners :
                Args(q).ns = Args(r).ns /\ Args(q).forceNamespace
         /\ \A r \in Runners :
              Args(r).kind \in {"client", "server", "gamma"}
         /\ NoRunner \notin Runners
         /\ Suite.maxRuns \in Nat /\ Suite.maxFaults \in Nat
         /\ Suite.force \in BOOLEAN
         /\ \A o \in Suite.leftovers : \E r \in Runners : o = Name(r, "ns")
<1>1. \A r \in Runners : Args(r) \in RunnerArgs
  BY K8sConstants DEF Suite, Runners, Args
<1>2. Suite.cleanup \in Seq(Runners)
  BY K8sConstants DEF Suite, Runners
<1>3. Len(Suite.cleanup) > 0
      /\ \A r \in Runners : \E i \in DOMAIN Suite.cleanup : Suite.cleanup[i] = r
  BY SuitesAreCleaned DEF Suite, Runners
<1>4. Len(Suite.cleanup) \in Nat \ {0}
      /\ DOMAIN Suite.cleanup = 1..Len(Suite.cleanup)
  BY <1>2, <1>3, LenProperties
<1>5. \A r \in Runners :
        \E q \in Runners : Args(q).ns = Args(r).ns /\ Args(q).forceNamespace
  BY SuitesAreCleaned DEF Suite, Runners, Args
<1>6. /\ NoRunner \notin Runners
      /\ Suite.maxRuns \in Nat /\ Suite.maxFaults \in Nat
      /\ Suite.force \in BOOLEAN
  BY K8sConstants DEF Suite, Runners
<1>7. \A o \in Suite.leftovers : \E r \in Runners : o = Name(r, "ns")
  BY K8sConstants DEF Suite, Runners, Args, Name
<1> QED
  BY <1>1, <1>2, <1>3, <1>4, <1>5, <1>6, <1>7 DEF RunnerArgs

\* The suite of a behaviour does not change.
LEMMA SameSuite ==
  ASSUME suite' = suite
  PROVE  /\ Suite' = Suite /\ Runners' = Runners /\ Objects' = Objects
         /\ \A r : Args(r)' = Args(r)
         /\ \A r : RunSteps(r)' = RunSteps(r)
         /\ \A r : CleanupSteps(r)' = CleanupSteps(r)
         /\ \A r, k : Name(r, k)' = Name(r, k)
<1>1. Suite' = Suite
  BY DEF Suite
<1>2. Runners' = Runners /\ \A r : Args(r)' = Args(r)
  BY <1>1 DEF Runners, Args
<1>3. \A r, k : Name(r, k)' = Name(r, k)
  BY <1>2 DEF Name
<1>4. Objects' = Objects
  BY <1>2, <1>3 DEF Objects
<1>5. \A r : RunSteps(r)' = RunSteps(r)
  BY <1>1, <1>2 DEF RunSteps, If
<1>6. \A r : CleanupSteps(r)' = CleanupSteps(r)
  BY <1>2 DEF CleanupSteps, If
<1> QED
  BY <1>1, <1>2, <1>3, <1>4, <1>5, <1>6

\* The steps of run.
LEMMA RunStepsAre ==
  ASSUME NEW r, NEW i \in 1..Len(RunSteps(r))
  PROVE  LET k == RunSteps(r)[i]
         IN  /\ k \in (Named \ Policies) \cup {"neg", "pods"}
             /\ k = "svc" => Args(r).kind # "client"
             /\ k \in {"front", "route"} => Args(r).kind = "gamma"
             /\ k \in {"grant", "sa"} => Suite.identity
<1>1. CASE Args(r).kind = "client"
  BY <1>1 DEF RunSteps, If, Named, Kinds, NotReset, Policies
<1>2. CASE Args(r).kind = "server"
  BY <1>2 DEF RunSteps, If, Named, Kinds, NotReset, Policies
<1>3. CASE Args(r).kind = "gamma"
  BY <1>3 DEF RunSteps, If, Named, Kinds, NotReset, Policies
<1>4. CASE Args(r).kind \notin {"client", "server", "gamma"}
  BY SMTT(30), <1>4 DEF RunSteps, If, Named, Kinds, NotReset, Policies
<1> QED
  BY <1>1, <1>2, <1>3, <1>4

\* The order of those that matter to each other.
LEMMA RunOrder ==
  ASSUME NEW r, NEW i \in 1..Len(RunSteps(r)), NEW j \in i..Len(RunSteps(r))
  PROVE  LET k == RunSteps(r)[i]
             l == RunSteps(r)[j]
         IN  /\ k = "ns" => i = 1
             /\ k \in {"sa", "dep"} => l # "grant"
             /\ k = "dep" => l # "sa"
             /\ k = "pods" => l # "dep"
BY DEF RunSteps, If

\* The steps of cleanup.
LEMMA CleanupStepsAre ==
  ASSUME NEW r, NEW i \in 1..Len(CleanupSteps(r))
  PROVE  /\ CleanupSteps(r)[i] \in Named
         /\ CleanupSteps(r)[i] \in Policies \cup {"front", "route"} =>
              Args(r).kind = "gamma"
         /\ \A j \in i..Len(CleanupSteps(r)) :
              CleanupSteps(r)[i] \in {"grant", "sa"} =>
                CleanupSteps(r)[j] # "dep"
BY DEF CleanupSteps, If, Named, Kinds, NotReset, Policies

\* An object has a name.
LEMMA NamesAreObjects ==
  \A r \in Runners, k \in Named : Name(r, k) \in Objects
BY DEF Objects, Named

StepName == Named \cup {"neg", "pods"}

Steps(o) == {o[i] : i \in 1..Len(o)}

\* Both parts of a sequence of steps are gone through.
LEMMA StepsOfBoth ==
  ASSUME NEW s \in Seq(StepName), NEW t \in Seq(StepName)
  PROVE  /\ s \o t \in Seq(StepName)
         /\ Steps(s) \cup Steps(t) \subseteq Steps(s \o t)
<1>1. /\ s \o t \in Seq(StepName) /\ Len(s \o t) = Len(s) + Len(t)
      /\ \A i \in 1..Len(s) : (s \o t)[i] = s[i]
      /\ \A i \in 1..Len(t) : (s \o t)[i + Len(s)] = t[i]
  BY ConcatProperties
<1>2. Len(s) \in Nat /\ Len(t) \in Nat
  BY LenProperties
<1>3. ASSUME NEW i \in 1..Len(s) PROVE s[i] \in Steps(s \o t)
  BY <1>1, <1>2 DEF Steps
<1>4. ASSUME NEW i \in 1..Len(t) PROVE t[i] \in Steps(s \o t)
  <2>1. i + Len(s) \in 1..Len(s \o t)
    BY <1>1, <1>2
  <2> QED
    BY <1>1, <2>1 DEF Steps
<1> QED
  BY <1>1, <1>3, <1>4 DEF Steps

\* A step that is taken on a condition.
LEMMA StepsOfIf ==
  ASSUME NEW s \in Seq(StepName), NEW c
  PROVE  If(c, s) \in Seq(StepName) /\ (c => Steps(s) \subseteq Steps(If(c, s)))
<1>1. << >> \in Seq(StepName)
  OBVIOUS
<1> QED
  BY <1>1 DEF If

\* A cleanup comes to everything a runner may own.
LEMMA CleanupCovers ==
  ASSUME NEW r
  PROVE  /\ CleanupSteps(r) \in Seq(StepName)
         /\ {"dep", "grant", "sa", "pm", "ns"} \subseteq Steps(CleanupSteps(r))
         /\ Args(r).kind = "gamma" =>
              Policies \cup {"route", "front", "svc"}
                \subseteq Steps(CleanupSteps(r))
         /\ Args(r).kind = "server" => "svc" \in Steps(CleanupSteps(r))
<1> DEFINE g == <<"pol", "filter", "bpol", "route", "front", "svc">>
           a == If(Args(r).kind = "gamma", g)
           b == <<"dep">>
           c == If(Args(r).kind = "server", <<"svc">>)
           d == <<"grant", "sa", "pm", "ns">>
<1>1. /\ a \in Seq(StepName)
      /\ Args(r).kind = "gamma" =>
           Policies \cup {"route", "front", "svc"} \subseteq Steps(a)
  <2>1. /\ g \in Seq(StepName)
        /\ Policies \cup {"route", "front", "svc"} \subseteq Steps(g)
    BY DEF Steps, StepName, Named, Kinds, NotReset, Policies
  <2> QED
    BY <2>1, StepsOfIf
<1>2. b \in Seq(StepName) /\ "dep" \in Steps(b)
  BY DEF Steps, StepName, Named, Kinds
<1>3. /\ c \in Seq(StepName)
      /\ Args(r).kind = "server" => "svc" \in Steps(c)
  <2>1. <<"svc">> \in Seq(StepName) /\ "svc" \in Steps(<<"svc">>)
    BY DEF Steps, StepName, Named, Kinds
  <2> QED
    BY <2>1, StepsOfIf
<1>4. d \in Seq(StepName) /\ {"grant", "sa", "pm", "ns"} \subseteq Steps(d)
  BY DEF Steps, StepName, Named, Kinds, NotReset
<1>5. CleanupSteps(r) = ((a \o b) \o c) \o d
  BY DEF CleanupSteps
<1> HIDE DEF a, b, c, d
<1>6. a \o b \in Seq(StepName) /\ Steps(a) \cup Steps(b) \subseteq Steps(a \o b)
  BY <1>1, <1>2, StepsOfBoth
<1>7. /\ (a \o b) \o c \in Seq(StepName)
      /\ Steps(a \o b) \cup Steps(c) \subseteq Steps((a \o b) \o c)
  BY <1>3, <1>6, StepsOfBoth
<1>8. /\ CleanupSteps(r) \in Seq(StepName)
      /\ Steps((a \o b) \o c) \cup Steps(d) \subseteq Steps(CleanupSteps(r))
  BY <1>4, <1>5, <1>7, StepsOfBoth
<1> QED
  BY <1>1, <1>2, <1>3, <1>4, <1>6, <1>7, <1>8

\* A run with workload identity comes to the workload and its identity.
LEMMA RunCovers ==
  ASSUME NEW r
  PROVE  /\ RunSteps(r) \in Seq(StepName)
         /\ Suite.identity =>
              {"grant", "sa", "dep"} \subseteq Steps(RunSteps(r))
<1> DEFINE a == <<"ns">>
           b == If(Args(r).kind # "client", <<"svc">>)
           c == If(Args(r).kind = "server", <<"neg">>)
           d == If(Args(r).kind = "gamma", <<"front", "route">>)
           e == If(Suite.identity, <<"grant", "sa">>)
           f == <<"dep">>
           g == If(Suite.csm, <<"pm">>)
           h == <<"pods">>
           l == If(Args(r).kind = "gamma", <<"neg">>)
<1>1. a \in Seq(StepName) /\ h \in Seq(StepName)
  BY DEF StepName, Named, Kinds
<1>2. /\ b \in Seq(StepName) /\ c \in Seq(StepName) /\ d \in Seq(StepName)
      /\ g \in Seq(StepName) /\ l \in Seq(StepName)
  <2>1. /\ <<"svc">> \in Seq(StepName) /\ <<"neg">> \in Seq(StepName)
        /\ <<"front", "route">> \in Seq(StepName)
        /\ <<"pm">> \in Seq(StepName)
    BY DEF StepName, Named, Kinds, NotReset
  <2> QED
    BY <2>1, StepsOfIf
<1>3. /\ e \in Seq(StepName)
      /\ Suite.identity => {"grant", "sa"} \subseteq Steps(e)
  <2>1. /\ <<"grant", "sa">> \in Seq(StepName)
        /\ {"grant", "sa"} \subseteq Steps(<<"grant", "sa">>)
    BY DEF Steps, StepName, Named, Kinds
  <2> QED
    BY <2>1, StepsOfIf
<1>4. f \in Seq(StepName) /\ "dep" \in Steps(f)
  BY DEF Steps, StepName, Named, Kinds
<1>5. RunSteps(r) =
        (((((((a \o b) \o c) \o d) \o e) \o f) \o g) \o h) \o l
  BY DEF RunSteps
<1> HIDE DEF a, b, c, d, e, f, g, h, l
<1>6. ((a \o b) \o c) \o d \in Seq(StepName)
  BY <1>1, <1>2, StepsOfBoth
<1> DEFINE p == ((a \o b) \o c) \o d
<1> HIDE DEF p
<1>7. p \in Seq(StepName)
      /\ RunSteps(r) = ((((p \o e) \o f) \o g) \o h) \o l
  BY <1>5, <1>6 DEF p
<1>8. p \o e \in Seq(StepName) /\ Steps(e) \subseteq Steps(p \o e)
  BY <1>3, <1>7, StepsOfBoth
<1>9. /\ (p \o e) \o f \in Seq(StepName)
      /\ Steps(p \o e) \cup Steps(f) \subseteq Steps((p \o e) \o f)
  BY <1>4, <1>8, StepsOfBoth
<1> DEFINE q == (p \o e) \o f
<1> HIDE DEF q
<1>10. /\ q \in Seq(StepName) /\ RunSteps(r) = ((q \o g) \o h) \o l
       /\ Suite.identity => {"grant", "sa", "dep"} \subseteq Steps(q)
  BY <1>3, <1>4, <1>7, <1>8, <1>9 DEF q
<1>11. q \o g \in Seq(StepName) /\ Steps(q) \subseteq Steps(q \o g)
  BY <1>2, <1>10, StepsOfBoth
<1>12. /\ (q \o g) \o h \in Seq(StepName)
       /\ Steps(q \o g) \subseteq Steps((q \o g) \o h)
  BY <1>1, <1>11, StepsOfBoth
<1>13. /\ RunSteps(r) \in Seq(StepName)
       /\ Steps((q \o g) \o h) \subseteq Steps(RunSteps(r))
  BY <1>2, <1>10, <1>12, StepsOfBoth
<1> QED
  BY <1>10, <1>11, <1>12, <1>13

-------------------------------------------------------------------------------
(* Types and positions *)

\* A request of a run, answered or not.
LEMMA RunRequests ==
  ASSUME Basics, phase = "run", step \in 1..Len(RunSteps(who)),
         NEW k, k = RunSteps(who)[step],
         UNCHANGED suite, UNCHANGED runs, UNCHANGED history,
         \/ RunCreates(who, k)
         \/ Requested(who, k) /\ stage' = stage
              /\ live' \in {live} \cup IF k \in Kinds
                                       THEN {live \cup {Name(who, k)}} ELSE {}
  PROVE  /\ live \subseteq live' /\ live' \subseteq Objects
         /\ held' \in [Runners -> SUBSET Kinds]
         /\ id' \in [Runners -> 0..Suite.maxRuns]
         /\ \A r \in Runners : id'[r] <= runs[r]
         /\ deployed' \in [Runners -> SUBSET (1..Suite.maxRuns)]
         /\ \A r \in Runners : "grant" \notin held'[r]
         /\ \A r \in Runners : "svc" \in held'[r] => Args(r).kind # "client"
         /\ stage' = stage
<1> USE DEF Basics, TypeOK, Positions, Fields
<1>1. /\ k \in StepName
      /\ k = "svc" => Args(who).kind # "client"
      /\ k \in Kinds => k \in Named
  BY RunStepsAre DEF StepName, Named, Kinds, NotReset, Policies
<1>2. k \in Named => Name(who, k) \in Objects
  BY NamesAreObjects
<1>3. live \subseteq live' /\ live' \subseteq Objects
  BY <1>1, <1>2 DEF RunCreates
<1>4. \E x \in SUBSET Kinds :
         /\ held' = [held EXCEPT ![who] = @ \cup x] /\ "grant" \notin x
         /\ "svc" \in x => k = "svc"
  <2>1. CASE RunCreates(who, k)
    <3> DEFINE x == CASE k = "grant" -> {} [] k = "pm" -> {k, "pmName"}
                      [] OTHER -> {k}
    <3>1. x \in SUBSET Kinds /\ "grant" \notin x /\ ("svc" \in x => k = "svc")
      BY <2>1 DEF RunCreates, Kinds, NotReset
    <3>2. held' = [held EXCEPT ![who] = @ \cup x]
      BY <2>1 DEF RunCreates
    <3> QED
      BY <3>1, <3>2
  <2>2. CASE Requested(who, k)
    <3>1. {"pmName"} \in SUBSET Kinds
      BY DEF Kinds, NotReset
    <3>2. CASE k = "pm"
      BY <2>2, <3>1, <3>2 DEF Requested
    <3>3. CASE k # "pm"
      <4>1. held' = [held EXCEPT ![who] = @ \cup {}]
        BY <2>2, <3>3 DEF Requested
      <4> WITNESS {} \in SUBSET Kinds
      <4> QED
        BY <4>1
    <3> QED
      BY <3>2, <3>3
  <2> QED
    BY <2>1, <2>2
<1>5. /\ held' \in [Runners -> SUBSET Kinds]
      /\ \A r \in Runners : "grant" \notin held'[r]
      /\ \A r \in Runners : "svc" \in held'[r] => Args(r).kind # "client"
  BY <1>1, <1>4
<1>6. /\ id' = IF k = "dep" THEN [id EXCEPT ![who] = runs[who]] ELSE id
      /\ \/ deployed' = deployed
         \/ deployed' = [deployed EXCEPT ![who] = @ \cup {runs[who]}]
  BY DEF RunCreates, Requested, Identifies
<1>7. \A r \in Runners :
        runs[r] \in 0..Suite.maxRuns /\ id[r] \in 0..Suite.maxRuns
  OBVIOUS
<1>8. Suite.maxRuns \in Nat
  BY SuiteFacts
<1>9. /\ id' \in [Runners -> 0..Suite.maxRuns]
      /\ \A r \in Runners : id'[r] <= runs[r]
  BY <1>6, <1>7, <1>8
<1>10. deployed' \in [Runners -> SUBSET (1..Suite.maxRuns)]
  <2>1. runs[who] \in 1..Suite.maxRuns
    BY <1>7, <1>8
  <2>2. deployed \in [Runners -> SUBSET (1..Suite.maxRuns)]
    OBVIOUS
  <2> QED
    BY ONLY <1>6, <2>1, <2>2
<1> QED
  BY <1>3, <1>5, <1>9, <1>10 DEF RunCreates

ObjectTypes ==
  /\ live \subseteq Objects /\ dying \subseteq live
  /\ tainted \subseteq Objects /\ refused \subseteq tainted

RunnerTypes ==
  /\ held \in [Runners -> SUBSET Kinds]
  /\ stage \in [Runners -> {"new", "requested", "completed", "stopped"}]
  /\ runs \in [Runners -> 0..Suite.maxRuns]
  /\ id \in [Runners -> 0..Suite.maxRuns] /\ \A r \in Runners : id[r] <= runs[r]

HistoryTypes ==
  /\ history \in [Runners -> Seq(1..Suite.maxRuns)]
  /\ deployed \in [Runners -> SUBSET (1..Suite.maxRuns)]

ControlTypes ==
  /\ phase \in Running \cup Over \cup {"interrupted"}
  /\ who \in Runners \cup {NoRunner} /\ outer \in Runners \cup {NoRunner}
  /\ pos \in 0..Len(Suite.cleanup) /\ step \in Nat \ {0}
  /\ attempt \in 1..Attempts /\ faults \in 0..Suite.maxFaults

FlagTypes == waiting \in BOOLEAN /\ force \in BOOLEAN /\ sigint \in BOOLEAN

\* The type invariant, part by part.
LEMMA TypeParts ==
  /\ TypeOK <=> /\ suite \in DOMAIN Suites
                /\ ObjectTypes /\ RunnerTypes /\ HistoryTypes /\ ControlTypes
                /\ FlagTypes
  /\ TypeOK' <=> /\ suite' \in DOMAIN Suites
                 /\ ObjectTypes' /\ RunnerTypes' /\ HistoryTypes'
                 /\ ControlTypes'
                 /\ FlagTypes'
BY Zenon DEF TypeOK, ObjectTypes, RunnerTypes, HistoryTypes, ControlTypes,
  FlagTypes

\* A run starts, or is refused.
LEMMA RunBasics ==
  ASSUME Basics, suite' = suite, NEW r \in Runners, Run(r)
  PROVE  Basics'
<1>t. ObjectTypes /\ RunnerTypes /\ HistoryTypes /\ ControlTypes
      /\ FlagTypes /\ suite \in DOMAIN Suites
  BY TypeParts DEF Basics
<1>1. /\ UNCHANGED <<live, dying, deployed, history, pos, attempt, force, outer,
                     sigint, faults, tainted, refused>>
      /\ runs' = [runs EXCEPT ![r] = @ + 1] /\ runs[r] < Suite.maxRuns
      /\ phase = "test" /\ step' = 1 /\ waiting' = FALSE
  BY DEF Run, Goto
<1>2. \/ /\ held' = [held EXCEPT ![r] = @ \cap NotReset]
         /\ stage' = [stage EXCEPT ![r] = "requested"]
         /\ id' = [id EXCEPT ![r] = 0] /\ phase' = "run" /\ who' = r
      \/ phase' = "restarts" /\ UNCHANGED <<held, stage, id, who>>
  BY DEF Run, Goto
<1>3. Suite.maxRuns \in Nat
  BY <1>t, SuiteFacts
<1>4. runs' \in [Runners -> 0..Suite.maxRuns]
      /\ \A q \in Runners : runs'[q] >= runs[q]
  BY <1>1, <1>3, <1>t DEF RunnerTypes
<1>5. /\ id' \in [Runners -> 0..Suite.maxRuns]
      /\ \A q \in Runners : id'[q] <= runs'[q]
  <2>1. CASE id' = id
    BY <1>3, <1>4, <1>t, <2>1 DEF RunnerTypes
  <2>2. CASE id' = [id EXCEPT ![r] = 0]
    <3>1. id' \in [Runners -> 0..Suite.maxRuns]
      BY <1>3, <1>t, <2>2 DEF RunnerTypes
    <3>2. \A q \in Runners : id'[q] <= id[q]
      BY <1>3, <1>t, <2>2 DEF RunnerTypes
    <3> QED
      BY <1>3, <1>4, <1>t, <3>1, <3>2 DEF RunnerTypes
  <2> QED
    BY <1>2, <2>1, <2>2
<1>6. /\ held' \in [Runners -> SUBSET Kinds]
      /\ \A q \in Runners : held'[q] \subseteq held[q]
  <2>1. CASE held' = held
    BY <1>t, <2>1 DEF RunnerTypes
  <2>2. CASE held' = [held EXCEPT ![r] = @ \cap NotReset]
    BY <1>t, <2>2 DEF RunnerTypes
  <2> QED
    BY <1>2, <2>1, <2>2
<1>7. /\ stage' \in [Runners -> {"new", "requested", "completed", "stopped"}]
      /\ phase' \in {"run", "restarts"} /\ who' \in Runners \cup {NoRunner}
      /\ phase' = "run" => who' = r /\ stage'[who'] = "requested"
  BY <1>2, <1>t DEF RunnerTypes, ControlTypes
<1>8. ObjectTypes'
  BY <1>1, <1>t, SameSuite DEF ObjectTypes
<1>9. RunnerTypes' /\ HistoryTypes'
  BY <1>1, <1>4, <1>5, <1>6, <1>7, <1>t, SameSuite DEF RunnerTypes, HistoryTypes
<1>10. ControlTypes'
  BY <1>1, <1>7, <1>t, SameSuite DEF ControlTypes, Running
<1>f. FlagTypes'
  BY Zenon, <1>1, <1>t DEF FlagTypes
<1>11. TypeOK'
  BY <1>8, <1>9, <1>10, <1>f, <1>t, TypeParts
<1>12. Positions'
  <2>1. runs'[r] > 0
    BY <1>1, <1>t, <1>3 DEF RunnerTypes
  <2> QED
    BY <1>1, <1>7, <2>1, SameSuite DEF Basics, Positions
<1>13. Fields'
  BY <1>1, <1>6, SameSuite DEF Basics, Fields
<1> QED
  BY <1>11, <1>12, <1>13 DEF Basics

\* A step of a run.
LEMMA RunStepBasics ==
  ASSUME Basics, suite' = suite, RunStep
  PROVE  Basics'
<1>t. ObjectTypes /\ RunnerTypes /\ HistoryTypes /\ ControlTypes
      /\ FlagTypes /\ suite \in DOMAIN Suites
  BY TypeParts DEF Basics
<1>0. /\ UNCHANGED <<dying, runs, history, pos, attempt, force, outer, sigint,
                     refused>>
      /\ phase = "run" /\ pos = 0 /\ who \in Runners
      /\ stage[who] \in {"requested", "completed"} /\ runs[who] > 0
  BY DEF RunStep, Basics, Positions
<1>f. waiting' = FALSE => FlagTypes'
  BY Zenon, <1>0, <1>t DEF FlagTypes
<1>s. Len(RunSteps(who)) \in Nat /\ step \in Nat \ {0}
  BY <1>t, RunCovers, LenProperties DEF ControlTypes
<1> DEFINE k == RunSteps(who)[step]
<1>1. CASE step > Len(RunSteps(who))
  <2>1. /\ phase' = "test" /\ step' = 1 /\ waiting' = FALSE
        /\ who' = NoRunner
        /\ UNCHANGED <<live, held, stage, id, deployed, faults, tainted>>
    BY <1>1 DEF RunStep, Goto
  <2>2. ObjectTypes' /\ RunnerTypes' /\ HistoryTypes'
    BY <1>0, <1>t, <2>1, SameSuite DEF ObjectTypes, RunnerTypes, HistoryTypes
  <2>3. ControlTypes'
    BY <1>0, <1>t, <2>1, SameSuite DEF ControlTypes, Running
  <2>4. Positions' /\ Fields'
    BY <1>0, <2>1, SameSuite DEF Basics, Positions, Fields
  <2> QED
    BY <1>f, <1>t, <2>1, <2>2, <2>3, <2>4, TypeParts DEF Basics
<1>2. CASE RunWaits(who, k) /\ Goto("run", step + 1)
           /\ UNCHANGED <<faults, tainted, who>>
  <2>1. /\ phase' = "run" /\ step' = step + 1 /\ waiting' = FALSE
        /\ UNCHANGED <<live, held, id, deployed, faults, tainted, who>>
        /\ stage' = IF k = "pods" THEN [stage EXCEPT ![who] = "completed"]
                                  ELSE stage
    BY <1>2 DEF RunWaits, Goto
  <2>2. /\ stage' \in [Runners -> {"new", "requested", "completed", "stopped"}]
        /\ stage'[who] \in {"requested", "completed"}
    BY <1>0, <1>t, <2>1 DEF RunnerTypes
  <2>3. ObjectTypes' /\ RunnerTypes' /\ HistoryTypes'
    BY <1>0, <1>t, <2>1, <2>2, SameSuite
    DEF ObjectTypes, RunnerTypes, HistoryTypes
  <2>4. ControlTypes'
    BY <1>0, <1>s, <1>t, <2>1, SameSuite DEF ControlTypes, Running
  <2>5. Positions' /\ Fields'
    BY <1>0, <2>1, <2>2, SameSuite DEF Basics, Positions, Fields
  <2> QED
    BY <1>f, <1>t, <2>1, <2>3, <2>4, <2>5, TypeParts DEF Basics
<1>3. CASE /\ step \in 1..Len(RunSteps(who))
           /\ \/ RunCreates(who, k) /\ Goto("run", step + 1)
                  /\ UNCHANGED <<faults, tainted, who>>
              \/ RunRaises(who, k)
  <2>1. \/ RunCreates(who, k)
        \/ Requested(who, k) /\ stage' = stage
             /\ live' \in {live} \cup IF k \in Kinds
                                      THEN {live \cup {Name(who, k)}} ELSE {}
    BY <1>3 DEF RunRaises, RequestFails
  <2>2. /\ live \subseteq live' /\ live' \subseteq Objects
        /\ held' \in [Runners -> SUBSET Kinds]
        /\ id' \in [Runners -> 0..Suite.maxRuns]
        /\ \A r \in Runners : id'[r] <= runs[r]
        /\ deployed' \in [Runners -> SUBSET (1..Suite.maxRuns)]
        /\ \A r \in Runners : "grant" \notin held'[r]
        /\ \A r \in Runners : "svc" \in held'[r] => Args(r).kind # "client"
        /\ stage' = stage
    BY <1>0, <1>3, <2>1, RunRequests
  <2>3. /\ phase' \in {"run", "restarts"} /\ step' \in {1, step + 1}
        /\ waiting' = FALSE /\ who' = who
        /\ tainted' = tainted
           \/ tainted' = tainted \cup IF k \in Kinds THEN {Name(who, k)} ELSE {}
    BY <1>3 DEF RunRaises, RequestFails, Goto
  <2>4. tainted \subseteq tainted' /\ tainted' \subseteq Objects
    <3>1. k \in Kinds => k \in Named
      BY <1>3, RunStepsAre DEF Named, Kinds, NotReset
    <3> QED
      BY <1>0, <1>t, <2>3, <3>1, NamesAreObjects DEF ObjectTypes
  <2>5. faults' \in 0..Suite.maxFaults
    <3>1. faults' = faults \/ (faults' = faults + 1 /\ faults < Suite.maxFaults)
      BY <1>3 DEF RunRaises, RequestFails
    <3>2. Suite.maxFaults \in Nat /\ faults \in 0..Suite.maxFaults
      BY <1>t, SuiteFacts DEF ControlTypes
    <3> QED
      BY <3>1, <3>2
  <2>6. ObjectTypes'
    BY <1>0, <1>t, <2>2, <2>4, SameSuite DEF ObjectTypes
  <2>7. RunnerTypes' /\ HistoryTypes'
    BY <1>0, <1>t, <2>2, SameSuite DEF RunnerTypes, HistoryTypes
  <2>8. ControlTypes'
    BY <1>0, <1>s, <1>t, <2>3, <2>5, SameSuite DEF ControlTypes, Running
  <2>9. Positions' /\ Fields'
    BY <1>0, <2>2, <2>3, SameSuite DEF Basics, Positions, Fields
  <2> QED
    BY <1>f, <1>t, <2>3, <2>6, <2>7, <2>8, <2>9, TypeParts DEF Basics
<1>4. step > Len(RunSteps(who)) \/ step \in 1..Len(RunSteps(who))
  BY <1>s
<1>5. \/ step > Len(RunSteps(who))
      \/ /\ RunCreates(who, k) \/ RunWaits(who, k)
         /\ Goto("run", step + 1) /\ UNCHANGED <<faults, tainted, who>>
      \/ RunRaises(who, k)
  BY Zenon DEF RunStep
<1> QED
  BY Zenon, <1>1, <1>2, <1>3, <1>4, <1>5

\* The test makes a policy.
LEMMA CreatePolicyBasics ==
  ASSUME Basics, suite' = suite, NEW r \in Runners, NEW k \in Policies,
         CreatePolicy(r, k)
  PROVE  Basics'
<1> USE DEF Basics, TypeOK, Positions, Fields
<1>1. /\ live' = live \cup {Name(r, k)}
      /\ held' = [held EXCEPT ![r] = @ \cup {k}]
      /\ UNCHANGED <<dying, stage, id, deployed, runs, history, faults, tainted,
                     refused>>
      /\ UNCHANGED <<phase, pos, who, step, waiting, attempt, force, outer,
                     sigint>>
  BY DEF CreatePolicy, control
<1>2. k \in Named /\ k \in Kinds /\ k # "grant" /\ k # "svc"
  BY DEF Policies, Named, Kinds, NotReset
<1>3. live' \subseteq Objects
  BY <1>1, <1>2, NamesAreObjects
<1>4. /\ held' \in [Runners -> SUBSET Kinds]
      /\ \A q \in Runners : "grant" \notin held'[q]
      /\ \A q \in Runners : "svc" \in held'[q] => Args(q).kind # "client"
  BY <1>1, <1>2
<1>5. TypeOK'
  BY <1>1, <1>3, <1>4, SameSuite
<1> QED
  BY <1>1, <1>4, <1>5, SameSuite

\* ... or fails to.
LEMMA PolicyFailsFacts ==
  ASSUME Basics, NEW r \in Runners, NEW k \in Policies, PolicyFails(r, k)
  PROVE  /\ UNCHANGED <<dying, held, stage, id, deployed, runs, history>>
         /\ UNCHANGED <<pos, who, attempt, force, outer, sigint, refused>>
         /\ phase = "test" /\ phase' = "restarts" /\ step' = 1
         /\ waiting' = FALSE
         /\ Args(r).kind = "gamma" /\ k \in Kinds /\ Name(r, k) \in Objects
         /\ tainted' = tainted \cup {Name(r, k)}
         /\ live' \in {live, live \cup {Name(r, k)}}
         /\ \/ faults' = faults
            \/ faults' = faults + 1 /\ faults < Suite.maxFaults
<1>1. k \in Kinds /\ k \in Named
  BY DEF Policies, Kinds, NotReset, Named
<1> QED
  BY <1>1, NamesAreObjects
  DEF PolicyFails, MakesPolicy, RequestFails, Goto, Stay, runner

LEMMA PolicyFailsBasics ==
  ASSUME Basics, suite' = suite, NEW r \in Runners, NEW k \in Policies,
         PolicyFails(r, k)
  PROVE  Basics'
<1>t. ObjectTypes /\ RunnerTypes /\ HistoryTypes /\ ControlTypes
      /\ FlagTypes /\ suite \in DOMAIN Suites
  BY TypeParts DEF Basics
<1>1. /\ UNCHANGED <<dying, held, stage, id, deployed, runs, history>>
      /\ UNCHANGED <<pos, who, attempt, force, outer, sigint, refused>>
      /\ phase' = "restarts" /\ step' = 1 /\ waiting' = FALSE
      /\ tainted' = tainted \cup {Name(r, k)} /\ Name(r, k) \in Objects
      /\ live' \in {live, live \cup {Name(r, k)}}
      /\ faults' = faults \/ (faults' = faults + 1 /\ faults < Suite.maxFaults)
  BY PolicyFailsFacts
<1>2. ObjectTypes'
  BY <1>1, <1>t, SameSuite DEF ObjectTypes
<1>3. RunnerTypes' /\ HistoryTypes'
  BY <1>1, <1>t, SameSuite DEF RunnerTypes, HistoryTypes
<1>4. ControlTypes'
  <2>1. faults' \in 0..Suite.maxFaults
    <3>1. Suite.maxFaults \in Nat /\ faults \in 0..Suite.maxFaults
      BY <1>t, SuiteFacts DEF ControlTypes
    <3> QED
      BY <1>1, <3>1
  <2> QED
    BY <1>1, <1>t, <2>1, SameSuite DEF ControlTypes, Running
<1>5. FlagTypes'
  BY Zenon, <1>1, <1>t DEF FlagTypes
<1>6. Positions' /\ Fields'
  BY <1>1, SameSuite DEF Basics, Positions, Fields
<1> QED
  BY <1>2, <1>3, <1>4, <1>5, <1>6, <1>t, TypeParts DEF Basics

\* A step of a cleanup that does not raise.
LEMMA CleanupMovesFacts ==
  ASSUME Basics, suite' = suite, phase = "cleanup", who \in Runners,
         NEW k \in Named, step \in Nat \ {0},
         \/ Skip(who, k) \/ DeleteAccepted(who, k)
         \/ DeleteDone(who, k) \/ DeleteSwallowed(who, k)
  PROVE  /\ phase' = "cleanup" /\ step' \in {step, step + 1}
         /\ waiting' \in BOOLEAN
         /\ live' \subseteq live /\ dying' \subseteq live'
         /\ \A o \in dying' : o[2] # "grant"
         /\ held' \in [Runners -> SUBSET Kinds]
         /\ \A r \in Runners : held'[r] \subseteq held[r]
         /\ tainted \subseteq tainted' /\ tainted' \subseteq Objects
         /\ refused' \subseteq tainted'
         /\ faults' \in 0..Suite.maxFaults
<1> DEFINE o == Name(who, k)
<1>t. ObjectTypes /\ RunnerTypes /\ ControlTypes /\ FlagTypes
      /\ suite \in DOMAIN Suites
  BY TypeParts DEF Basics
<1>n. o \in Objects /\ o[2] = k
  BY NamesAreObjects DEF Name
<1>d. \A x \in dying : x[2] # "grant"
  BY DEF Basics, Fields
<1>c. Suite.maxFaults \in Nat /\ faults \in 0..Suite.maxFaults
  BY <1>t, SuiteFacts DEF ControlTypes
<1>1. CASE Skip(who, k)
  <2>1. /\ phase' = "cleanup" /\ step' = step + 1
        /\ UNCHANGED <<live, dying, held, faults, tainted, refused>>
    BY <1>1 DEF Skip, Goto
  <2>2. waiting' = FALSE
    BY <1>1 DEF Skip, Goto
  <2> QED
    BY <1>c, <1>d, <1>t, <2>1, <2>2 DEF ObjectTypes, RunnerTypes
<1>h. NextStep(who, k) =>
        /\ phase' = "cleanup" /\ step' = step + 1 /\ waiting' = FALSE
        /\ held' \in [Runners -> SUBSET Kinds]
        /\ \A r \in Runners : held'[r] \subseteq held[r]
  <2> SUFFICES ASSUME NextStep(who, k)
               PROVE  /\ phase' = "cleanup" /\ step' = step + 1
                      /\ waiting' = FALSE
                      /\ held' \in [Runners -> SUBSET Kinds]
                      /\ \A r \in Runners : held'[r] \subseteq held[r]
    OBVIOUS
  <2>1. phase' = "cleanup" /\ step' = step + 1 /\ waiting' = FALSE
    BY DEF NextStep, Goto
  <2>2. PICK x : held' = [held EXCEPT ![who] = @ \ x]
    BY DEF NextStep
  <2>3. /\ held' \in [Runners -> SUBSET Kinds]
        /\ \A r \in Runners : held'[r] \subseteq held[r]
    BY <1>t, <2>2 DEF RunnerTypes
  <2> QED
    BY <2>1, <2>3
<1>2. CASE DeleteAccepted(who, k)
  <2>1. /\ o \in live /\ UNCHANGED <<faults, tainted, refused>>
        /\ IF k = "grant" THEN live' = live \ {o} /\ UNCHANGED dying
                          ELSE dying' = dying \cup {o} /\ UNCHANGED live
    BY <1>2 DEF DeleteAccepted
  <2>2. \/ waiting' = TRUE /\ UNCHANGED <<phase, step, held>>
        \/ NextStep(who, k)
    BY <1>2 DEF DeleteAccepted
  <2>3. /\ phase' = "cleanup" /\ step' \in {step, step + 1}
        /\ waiting' \in BOOLEAN
        /\ held' \in [Runners -> SUBSET Kinds]
        /\ \A r \in Runners : held'[r] \subseteq held[r]
    BY <1>h, <1>t, <2>2 DEF RunnerTypes
  <2>4. /\ live' \subseteq live /\ dying' \subseteq live'
        /\ \A x \in dying' : x[2] # "grant"
    BY <1>d, <1>n, <1>t, <2>1 DEF ObjectTypes
  <2> QED
    BY <1>c, <1>t, <2>1, <2>3, <2>4 DEF ObjectTypes
<1>3. CASE DeleteDone(who, k)
  <2>1. NextStep(who, k) /\ UNCHANGED <<live, dying, faults, tainted, refused>>
    BY <1>3 DEF DeleteDone
  <2> QED
    BY <1>c, <1>d, <1>h, <1>t, <2>1 DEF ObjectTypes
<1>4. CASE DeleteSwallowed(who, k)
  <2>1. /\ NextStep(who, k) /\ o \in live /\ live' = live
        /\ tainted' = tainted \cup {o} /\ refused' = refused \cup {o}
        /\ dying' \in {dying, IF k = "grant" THEN dying ELSE dying \cup {o}}
    BY <1>4 DEF DeleteSwallowed
  <2>2. faults < Suite.maxFaults /\ faults' = faults + 1
    BY <1>4 DEF DeleteSwallowed
  <2>3. faults' \in 0..Suite.maxFaults
    BY <1>c, <2>2
  <2>4. dying' \subseteq live' /\ \A x \in dying' : x[2] # "grant"
    BY <1>d, <1>n, <1>t, <2>1 DEF ObjectTypes
  <2> QED
    BY <1>h, <1>n, <1>t, <2>1, <2>3, <2>4 DEF ObjectTypes
<1> QED
  BY <1>1, <1>2, <1>3, <1>4

\* The runner is stopped, and its run recorded.
LEMMA StopFacts ==
  ASSUME TypeOK, suite' = suite, NEW r \in Runners, Stop(r),
         deployed' = deployed
  PROVE  /\ stage' \in [Runners -> {"new", "requested", "completed", "stopped"}]
         /\ HistoryTypes'
<1>t. RunnerTypes /\ HistoryTypes /\ suite \in DOMAIN Suites
  BY TypeParts
<1>1. stage' \in [Runners -> {"new", "requested", "completed", "stopped"}]
  BY <1>t DEF Stop, RunnerTypes
<1>2. Record(r) \in Seq(1..Suite.maxRuns)
  <2>1. history[r] \in Seq(1..Suite.maxRuns) /\ id[r] \in 0..Suite.maxRuns
    BY <1>t DEF HistoryTypes, RunnerTypes
  <2>2. Suite.maxRuns \in Nat
    BY <1>t, SuiteFacts
  <2>3. CASE id[r] # 0
    <3>1. id[r] \in 1..Suite.maxRuns
      BY <2>1, <2>2, <2>3
    <3>2. Append(history[r], id[r]) \in Seq(1..Suite.maxRuns)
      BY <2>1, <3>1, AppendProperties
    <3> QED
      BY <2>3, <3>2 DEF Record
  <2> QED
    BY <2>1, <2>3 DEF Record
<1>3. history' = [history EXCEPT ![r] = Record(r)]
  BY DEF Stop
<1>4. history' \in [Runners -> Seq(1..Suite.maxRuns)]
  BY <1>2, <1>3, <1>t DEF HistoryTypes
<1> QED
  BY <1>1, <1>4, <1>t, SameSuite DEF HistoryTypes

\* Another attempt, or none.
LEMMA AttemptFailsFacts ==
  ASSUME TypeOK, AttemptFails
  PROVE  /\ phase' \in {"td", "gaveUp"} /\ attempt' \in 1..Attempts
         /\ refused' \subseteq tainted
<1>1. attempt \in 1..Attempts /\ Attempts = 3 /\ refused \subseteq tainted
  BY DEF TypeOK, Attempts
<1> QED
  BY <1>1 DEF AttemptFails

\* A step of a cleanup.
LEMMA CleanupStepBasics ==
  ASSUME Basics, suite' = suite, CleanupStep
  PROVE  Basics'
<1>t. ObjectTypes /\ RunnerTypes /\ HistoryTypes /\ ControlTypes
      /\ FlagTypes /\ suite \in DOMAIN Suites
  BY TypeParts DEF Basics
<1> DEFINE k == CleanupSteps(who)[step]
<1>0. /\ UNCHANGED <<id, deployed, runs, pos, who, force, outer, sigint>>
      /\ phase = "cleanup" /\ who \in Runners
      /\ pos > 0 => who = Suite.cleanup[pos]
  BY DEF CleanupStep, Basics, Positions
<1>s. step \in Nat \ {0} /\ k \in Named
  <2>1. step \in 1..Len(CleanupSteps(who)) /\ step \in Nat \ {0}
    BY <1>t, CleanupCovers, LenProperties DEF CleanupStep, ControlTypes
  <2> QED
    BY <2>1, CleanupStepsAre
<1>f. waiting' \in BOOLEAN => FlagTypes'
  BY Zenon, <1>0, <1>t DEF FlagTypes
<1>1. CASE /\ \/ Skip(who, k) \/ DeleteAccepted(who, k)
              \/ DeleteDone(who, k) \/ DeleteSwallowed(who, k)
           /\ UNCHANGED <<stage, history, attempt>>
  <2>1. /\ phase' = "cleanup" /\ step' \in {step, step + 1}
        /\ waiting' \in BOOLEAN
        /\ live' \subseteq live /\ dying' \subseteq live'
        /\ \A o \in dying' : o[2] # "grant"
        /\ held' \in [Runners -> SUBSET Kinds]
        /\ \A r \in Runners : held'[r] \subseteq held[r]
        /\ tainted \subseteq tainted' /\ tainted' \subseteq Objects
        /\ refused' \subseteq tainted'
        /\ faults' \in 0..Suite.maxFaults
    BY <1>0, <1>1, <1>s, CleanupMovesFacts
  <2>2. ObjectTypes'
    BY <1>t, <2>1, SameSuite DEF ObjectTypes
  <2>3. RunnerTypes' /\ HistoryTypes'
    BY <1>0, <1>1, <1>t, <2>1, SameSuite DEF RunnerTypes, HistoryTypes
  <2>4. ControlTypes'
    BY <1>0, <1>1, <1>s, <1>t, <2>1, SameSuite DEF ControlTypes, Running
  <2>5. Positions' /\ Fields'
    BY <1>0, <2>1, SameSuite DEF Basics, Positions, Fields
  <2> QED
    BY <1>f, <1>t, <2>1, <2>2, <2>3, <2>4, <2>5, TypeParts DEF Basics
<1>2. CASE CleanupRaises(who, k)
  <2>1. /\ step' = 1 /\ waiting' = FALSE
        /\ UNCHANGED <<live, dying, held, tainted>> /\ Stop(who)
    BY <1>2 DEF CleanupRaises
  <2>2. /\ phase' \in {"restarts", "td", "gaveUp"} /\ attempt' \in 1..Attempts
        /\ refused' \subseteq tainted
    <3>1. \/ phase' = "restarts" /\ UNCHANGED <<attempt, refused>>
          \/ AttemptFails
      BY <1>2 DEF CleanupRaises
    <3>2. CASE phase' = "restarts" /\ UNCHANGED <<attempt, refused>>
      BY <1>t, <3>2 DEF ControlTypes, ObjectTypes
    <3>3. CASE AttemptFails
      BY <3>3, AttemptFailsFacts DEF Basics
    <3> QED
      BY <3>1, <3>2, <3>3
  <2>3. faults' \in 0..Suite.maxFaults
    <3>1. faults' = faults \/ (faults' = faults + 1 /\ faults < Suite.maxFaults)
      BY <1>2 DEF CleanupRaises
    <3>2. Suite.maxFaults \in Nat /\ faults \in 0..Suite.maxFaults
      BY <1>t, SuiteFacts DEF ControlTypes
    <3> QED
      BY <3>1, <3>2
  <2>4. ObjectTypes'
    BY <1>t, <2>1, <2>2, SameSuite DEF ObjectTypes
  <2>5. RunnerTypes' /\ HistoryTypes'
    BY <1>0, <1>t, <2>1, StopFacts, SameSuite DEF RunnerTypes, Basics
  <2>6. ControlTypes'
    BY <1>0, <1>t, <2>1, <2>2, <2>3, SameSuite DEF ControlTypes, Running, Over
  <2>7. Positions' /\ Fields'
    BY <1>0, <2>1, <2>2, SameSuite DEF Basics, Positions, Fields
  <2> QED
    BY <1>f, <1>t, <2>1, <2>4, <2>5, <2>6, <2>7, TypeParts DEF Basics
<1> QED
  BY <1>1, <1>2 DEF CleanupStep

\* A cleanup of a runner returns.
LEMMA CleanupReturnsBasics ==
  ASSUME Basics, suite' = suite, CleanupReturns
  PROVE  Basics'
<1>t. ObjectTypes /\ RunnerTypes /\ HistoryTypes /\ ControlTypes
      /\ FlagTypes /\ suite \in DOMAIN Suites
  BY TypeParts DEF Basics
<1>c. /\ Suite.cleanup \in Seq(Runners) /\ Len(Suite.cleanup) \in Nat \ {0}
      /\ pos \in 0..Len(Suite.cleanup)
  BY <1>t, SuiteFacts DEF ControlTypes
<1>1. /\ phase = "cleanup" /\ who \in Runners /\ Stop(who)
      /\ UNCHANGED <<live, dying, held, id, deployed, runs, attempt, force,
                     outer, sigint, faults, tainted, refused>>
      /\ step' = 1 /\ waiting' = FALSE
  BY DEF CleanupReturns, Goto, Basics, Positions
<1>2. \/ phase' = "test" /\ who' = NoRunner /\ pos' = pos /\ pos = 0
      \/ /\ phase' = "cleanup" /\ who' = Suite.cleanup[pos + 1]
         /\ pos' = pos + 1 /\ pos < Len(Suite.cleanup)
      \/ /\ phase' = "done" /\ who' = who /\ pos' = pos
         /\ ~(pos < Len(Suite.cleanup))
  BY DEF CleanupReturns, Goto
<1>3. /\ pos' \in 0..Len(Suite.cleanup) /\ who' \in Runners \cup {NoRunner}
      /\ phase' = "cleanup" => who' \in Runners /\ who' = Suite.cleanup[pos']
      /\ phase' = "test" => pos' = 0
      /\ phase' = "done" => pos' = Len(Suite.cleanup)
      /\ phase' \in {"test", "cleanup", "done"}
  <2>1. CASE phase' = "cleanup"
    <3>1. pos + 1 \in 1..Len(Suite.cleanup)
      BY <1>2, <1>c, <2>1
    <3>2. Suite.cleanup[pos + 1] \in Runners
      BY <1>c, <3>1, ElementOfSeq
    <3> QED
      BY <1>2, <1>c, <2>1, <3>1, <3>2
  <2>2. CASE phase' # "cleanup"
    BY <1>1, <1>2, <1>c, <2>2
  <2> QED
    BY <2>1, <2>2
<1>4. ObjectTypes'
  BY <1>1, <1>t, SameSuite DEF ObjectTypes
<1>5. RunnerTypes' /\ HistoryTypes'
  BY <1>1, <1>t, StopFacts, SameSuite DEF RunnerTypes, Basics
<1>6. ControlTypes'
  BY <1>1, <1>3, <1>t, SameSuite DEF ControlTypes, Running, Over
<1>7. FlagTypes'
  BY Zenon, <1>1, <1>t DEF FlagTypes
<1>8. Positions'
  BY <1>3, SameSuite DEF Positions
<1>9. Fields'
  BY <1>1, SameSuite DEF Basics, Fields
<1> QED
  BY <1>4, <1>5, <1>6, <1>7, <1>8, <1>9, <1>t, TypeParts DEF Basics

\* The cluster finishes a deletion.
LEMMA GoneBasics ==
  ASSUME Basics, suite' = suite, NEW o \in dying, Gone(o)
  PROVE  Basics'
<1>t. ObjectTypes /\ RunnerTypes /\ HistoryTypes /\ ControlTypes
      /\ FlagTypes /\ suite \in DOMAIN Suites
  BY TypeParts DEF Basics
<1>1. /\ UNCHANGED <<held, stage, id, deployed, runs, history, phase, pos, who,
                     step, attempt, outer, faults, tainted, refused>>
      /\ UNCHANGED <<waiting, force, sigint>>
      /\ \E gone : live' = live \ gone /\ dying' = dying \ gone
  BY DEF Gone, runner, control
<1>2. ObjectTypes'
  BY <1>1, <1>t, SameSuite DEF ObjectTypes
<1>3. RunnerTypes' /\ HistoryTypes'
  BY <1>1, <1>t, SameSuite DEF RunnerTypes, HistoryTypes
<1>4. ControlTypes'
  BY <1>1, <1>t, SameSuite DEF ControlTypes
<1>5. FlagTypes'
  BY Zenon, <1>1, <1>t DEF FlagTypes
<1>6. Positions' /\ Fields'
  BY <1>1, SameSuite DEF Basics, Positions, Fields
<1> QED
  BY <1>2, <1>3, <1>4, <1>5, <1>6, <1>t, TypeParts DEF Basics

\* Ctrl-C.
LEMMA InterruptBasics ==
  ASSUME Basics, suite' = suite, Interrupt
  PROVE  Basics'
<1>t. ObjectTypes /\ RunnerTypes /\ HistoryTypes /\ ControlTypes
      /\ FlagTypes /\ suite \in DOMAIN Suites
  BY TypeParts DEF Basics
<1>1. /\ UNCHANGED <<dying, stage, runs, history, pos, who, attempt, force,
                     faults, tainted, refused>>
      /\ phase' = "interrupted" /\ step' = 1 /\ waiting' = FALSE
      /\ sigint' = TRUE /\ outer' \in {who, NoRunner}
  BY DEF Interrupt, Goto
<1>2. /\ live \subseteq live' /\ live' \subseteq Objects
      /\ held' \in [Runners -> SUBSET Kinds]
      /\ id' \in [Runners -> 0..Suite.maxRuns]
      /\ \A r \in Runners : id'[r] <= runs[r]
      /\ deployed' \in [Runners -> SUBSET (1..Suite.maxRuns)]
      /\ \A r \in Runners : "grant" \notin held'[r]
      /\ \A r \in Runners : "svc" \in held'[r] => Args(r).kind # "client"
  <2>1. CASE phase = "run" /\ step <= Len(RunSteps(who))
    <3>1. step \in 1..Len(RunSteps(who))
      BY <1>t, <2>1, RunCovers, LenProperties DEF ControlTypes
    <3> DEFINE k == RunSteps(who)[step]
    <3>2. /\ Requested(who, k) /\ stage' = stage
          /\ live' \in {live} \cup IF k \in Kinds
                                   THEN {live \cup {Name(who, k)}} ELSE {}
      BY <1>1, <2>1 DEF Interrupt
    <3> QED
      BY <1>1, <2>1, <3>1, <3>2, RunRequests
  <2>2. CASE ~(phase = "run" /\ step <= Len(RunSteps(who)))
    <3>1. UNCHANGED <<held, id, deployed>>
          /\ \/ live' = live
             \/ \E r \in Runners, k \in Policies :
                  live' = live \cup {Name(r, k)}
      BY <2>2 DEF Interrupt
    <3>2. \A k \in Policies : k \in Named
      BY DEF Policies, Kinds, NotReset, Named
    <3> QED
      BY <1>t, <3>1, <3>2, NamesAreObjects
      DEF ObjectTypes, RunnerTypes, HistoryTypes, Basics, Fields
  <2> QED
    BY <2>1, <2>2
<1>3. ObjectTypes'
  BY <1>1, <1>2, <1>t, SameSuite DEF ObjectTypes
<1>4. RunnerTypes' /\ HistoryTypes'
  BY <1>1, <1>2, <1>t, SameSuite DEF RunnerTypes, HistoryTypes
<1>5. ControlTypes'
  BY <1>1, <1>t, SameSuite DEF ControlTypes
<1>6. FlagTypes'
  BY Zenon, <1>1, <1>t DEF FlagTypes
<1>7. Positions'
  BY <1>1 DEF Positions
<1>8. Fields'
  BY <1>1, <1>2, SameSuite DEF Basics, Fields
<1> QED
  BY <1>3, <1>4, <1>5, <1>6, <1>7, <1>8, <1>t, TypeParts DEF Basics

\* Steps that only the phase knows of.
Onward ==
  \/ \E r \in Runners : TestCleanup(r)
  \/ TestEnds \/ CountRestarts \/ CleanupTrafficDirector \/ ForcedTearDown
  \/ Abort

\* They leave the objects and the runners alone.
LEMMA OnwardFacts ==
  ASSUME Basics, Onward
  PROVE  /\ UNCHANGED <<live, dying, held, stage, id, runs, history, outer>>
         /\ UNCHANGED <<deployed, tainted, sigint>>
         /\ step' \in {1, step} /\ waiting' \in {FALSE, waiting}
         /\ refused' \in {refused, {}} /\ attempt' \in 1..Attempts
         /\ force' \in {force, TRUE} /\ faults' \in 0..Suite.maxFaults
         /\ \/ /\ phase' = "cleanup" /\ phase = "test"
               /\ step' = 1 /\ pos' = pos
               /\ who' \in Runners /\ stage[who'] = "completed"
               /\ UNCHANGED <<force, refused>>
            \/ /\ phase' = "cleanup" /\ phase = "td" /\ step' = 1 /\ pos' = 1
               /\ who' = Suite.cleanup[1] /\ UNCHANGED <<force, refused>>
            \/ /\ phase' \in {"restarts", "td", "skipped", "gaveUp", "orphaned"}
               /\ UNCHANGED <<pos, who>>
               /\ force' # force => phase' = "restarts"
<1>t. ObjectTypes /\ ControlTypes /\ FlagTypes /\ suite \in DOMAIN Suites
  BY TypeParts DEF Basics
<1>c. /\ Suite.maxFaults \in Nat /\ faults \in 0..Suite.maxFaults
      /\ attempt \in 1..Attempts /\ Attempts = 3
  BY <1>t, SuiteFacts DEF ControlTypes, Attempts
<1>1. ASSUME NEW r \in Runners, TestCleanup(r)
      PROVE  /\ UNCHANGED <<live, dying, held, stage, id, runs, history, outer>>
             /\ UNCHANGED <<deployed, tainted, sigint, attempt, force, faults,
                            refused>>
             /\ phase' = "cleanup" /\ phase = "test" /\ step' = 1 /\ pos' = pos
             /\ waiting' = FALSE
             /\ who' \in Runners /\ stage[who'] = "completed"
  BY <1>1 DEF TestCleanup, Goto, runner
<1>2. CASE TestEnds \/ Abort
  <2>1. /\ UNCHANGED <<live, dying, held, stage, id, runs, history, outer>>
        /\ UNCHANGED <<deployed, tainted, sigint, attempt, force, faults,
                       refused>>
        /\ phase' \in {"restarts", "orphaned"} /\ step' = 1
        /\ waiting' = FALSE /\ UNCHANGED <<pos, who>>
    BY <1>2 DEF TestEnds, Abort, Goto, Stay, runner
  <2> QED
    BY <1>c, <2>1
<1>3. CASE CountRestarts
  <2>1. /\ UNCHANGED <<live, dying, held, stage, id, runs, history, outer>>
        /\ UNCHANGED <<deployed, tainted, sigint, attempt, force, refused>>
        /\ phase' \in {"td", "skipped"} /\ step' = 1
        /\ waiting' = FALSE /\ UNCHANGED <<pos, who>>
    BY <1>3 DEF CountRestarts, Goto, Stay, runner
  <2>2. faults' = faults \/ (faults < Suite.maxFaults /\ faults' = faults + 1)
    BY <1>3 DEF CountRestarts
  <2>3. faults' \in 0..Suite.maxFaults
    BY <1>c, <2>2
  <2> QED
    BY <1>c, <2>1, <2>3
<1>4. CASE CleanupTrafficDirector
  <2>1. /\ UNCHANGED <<live, dying, held, stage, id, runs, history, outer>>
        /\ UNCHANGED <<deployed, tainted, sigint, force>> /\ phase = "td"
        /\ \/ /\ phase' = "cleanup" /\ step' = 1 /\ waiting' = FALSE
              /\ pos' = 1 /\ who' = Suite.cleanup[1]
              /\ UNCHANGED <<attempt, faults, refused>>
           \/ /\ faults < Suite.maxFaults /\ faults' = faults + 1
              /\ AttemptFails /\ UNCHANGED <<pos, who, step, waiting>>
    BY <1>4 DEF CleanupTrafficDirector, Goto, runner
  <2>2. CASE phase' = "cleanup" /\ UNCHANGED <<attempt, faults, refused>>
    BY <1>c, <2>1, <2>2 DEF AttemptFails
  <2>3. CASE AttemptFails /\ UNCHANGED <<pos, who, step, waiting>>
             /\ faults < Suite.maxFaults /\ faults' = faults + 1
    <3>1. /\ phase' \in {"td", "gaveUp"} /\ attempt' \in 1..Attempts
          /\ refused' \in {refused, {}}
      BY <1>c, <2>3 DEF AttemptFails
    <3>2. faults' \in 0..Suite.maxFaults
      BY <1>c, <2>3
    <3> QED
      BY <2>1, <2>3, <3>1, <3>2
  <2> QED
    BY <2>1, <2>2, <2>3
<1>5. CASE ForcedTearDown
  <2>1. /\ UNCHANGED <<live, dying, held, stage, id, runs, history, outer>>
        /\ UNCHANGED <<deployed, tainted, sigint, pos, who, faults>>
        /\ phase' = "restarts" /\ step' = 1 /\ waiting' = FALSE
        /\ force' = TRUE /\ attempt' = 1 /\ refused' = {}
    BY <1>5 DEF ForcedTearDown, Goto, runner
  <2>2. attempt' \in 1..Attempts /\ faults' \in 0..Suite.maxFaults
    BY <1>c, <2>1
  <2>3. phase' \in {"restarts", "td", "skipped", "gaveUp", "orphaned"}
    BY <2>1
  <2> QED
    BY Zenon, <2>1, <2>2, <2>3
<1> QED
  BY <1>1, <1>2, <1>3, <1>4, <1>5, <1>c DEF Onward

\* They keep the types.
LEMMA OnwardBasics ==
  ASSUME Basics, suite' = suite, Onward
  PROVE  Basics'
<1>t. ObjectTypes /\ RunnerTypes /\ HistoryTypes /\ ControlTypes
      /\ FlagTypes /\ suite \in DOMAIN Suites
  BY TypeParts DEF Basics
<1>c. Suite.cleanup \in Seq(Runners) /\ Len(Suite.cleanup) \in Nat \ {0}
  BY <1>t, SuiteFacts
<1>e. Suite.cleanup[1] \in Runners
  <2>1. 1 \in 1..Len(Suite.cleanup)
    BY <1>c
  <2> QED
    BY <1>c, <2>1, ElementOfSeq
<1>1. /\ UNCHANGED <<live, dying, held, stage, id, runs, history, outer>>
      /\ UNCHANGED <<deployed, tainted>>
      /\ step' \in {1, step}
      /\ refused' \in {refused, {}} /\ attempt' \in 1..Attempts
      /\ faults' \in 0..Suite.maxFaults
  BY OnwardFacts
<1>2. /\ sigint' = sigint /\ waiting' \in {FALSE, waiting}
      /\ force' \in {force, TRUE}
  BY OnwardFacts
<1>3. \/ /\ phase' = "cleanup" /\ phase = "test" /\ pos' = pos
         /\ who' \in Runners
      \/ /\ phase' = "cleanup" /\ pos' = 1 /\ who' = Suite.cleanup[1]
      \/ /\ phase' \in {"restarts", "td", "skipped", "gaveUp", "orphaned"}
         /\ UNCHANGED <<pos, who>>
  BY OnwardFacts
<1>4. ObjectTypes'
  BY <1>1, <1>t, SameSuite DEF ObjectTypes
<1>5. RunnerTypes' /\ HistoryTypes'
  BY <1>1, <1>t, SameSuite DEF RunnerTypes, HistoryTypes
<1>6. ControlTypes'
  <2>1. /\ phase' \in Running \cup Over \cup {"interrupted"}
        /\ pos' \in 0..Len(Suite.cleanup) /\ who' \in Runners \cup {NoRunner}
    BY <1>3, <1>c, <1>e, <1>t DEF ControlTypes, Running, Over
  <2> QED
    BY <1>1, <1>t, <2>1, SameSuite DEF ControlTypes
<1>7. FlagTypes'
  BY Zenon, <1>2, <1>t DEF FlagTypes
<1>8. Positions'
  <2>1. phase = "test" => pos = 0
    BY DEF Basics, Positions
  <2>2. phase' \in {"cleanup", "restarts", "td", "skipped", "gaveUp",
                    "orphaned"}
        /\ (phase' = "cleanup" => who' \in Runners)
        /\ (phase' = "cleanup" /\ pos' > 0 => who' = Suite.cleanup[pos'])
    BY <1>3, <1>e, <2>1
  <2> QED
    BY <2>2, SameSuite DEF Positions
<1>9. Fields'
  BY <1>1, SameSuite DEF Basics, Fields
<1> QED
  BY <1>4, <1>5, <1>6, <1>7, <1>8, <1>9, <1>t, TypeParts DEF Basics

\* The KeyboardInterrupt leaves the cleanup that it interrupted.
LEMMA UnwindBasics ==
  ASSUME Basics, suite' = suite, Unwind
  PROVE  Basics'
<1>t. ObjectTypes /\ RunnerTypes /\ HistoryTypes /\ ControlTypes
      /\ FlagTypes /\ suite \in DOMAIN Suites
  BY TypeParts DEF Basics
<1>1. /\ UNCHANGED <<live, dying, held, id, deployed, runs, phase, pos, who,
                     step, attempt, faults, tainted, refused>>
      /\ UNCHANGED <<waiting, force, sigint>>
      /\ Stop(outer) /\ outer \in Runners /\ outer' = NoRunner
      /\ phase \in Over
  BY <1>t DEF Unwind, ControlTypes
<1>2. ObjectTypes'
  BY <1>1, <1>t, SameSuite DEF ObjectTypes
<1>3. RunnerTypes' /\ HistoryTypes'
  BY <1>1, <1>t, StopFacts, SameSuite DEF RunnerTypes, Basics
<1>4. ControlTypes'
  BY <1>1, <1>t, SameSuite DEF ControlTypes
<1>5. FlagTypes'
  BY Zenon, <1>1, <1>t DEF FlagTypes
<1>6. Positions'
  BY <1>1, SameSuite DEF Basics, Positions, Over
<1>7. Fields'
  BY <1>1, SameSuite DEF Basics, Fields
<1> QED
  BY <1>2, <1>3, <1>4, <1>5, <1>6, <1>7, <1>t, TypeParts DEF Basics

\* A test begins.
LEMMA InitBasics == Init => Basics
<1> SUFFICES ASSUME Init PROVE Basics
  OBVIOUS
<1>s. /\ Suite.cleanup \in Seq(Runners) /\ Len(Suite.cleanup) \in Nat \ {0}
      /\ Suite.maxRuns \in Nat /\ Suite.maxFaults \in Nat
      /\ \A o \in Suite.leftovers : \E r \in Runners : o = Name(r, "ns")
      /\ Suite.force \in BOOLEAN /\ suite \in DOMAIN Suites
  BY SuiteFacts DEF Init
<1>1. ObjectTypes
  <2>1. "ns" \in Named
    BY DEF Named, Kinds
  <2> QED
    BY <1>s, <2>1, NamesAreObjects DEF Init, ObjectTypes
<1>2. RunnerTypes
  BY <1>s DEF Init, RunnerTypes
<1>3. HistoryTypes
  BY <1>s DEF Init, HistoryTypes
<1>4. ControlTypes
  BY <1>s DEF Init, ControlTypes, Running, Attempts
<1>5. FlagTypes
  BY Zenon, <1>s DEF Init, FlagTypes
<1>6. Positions /\ Fields
  BY DEF Init, Positions, Fields
<1> QED
  BY <1>s, <1>1, <1>2, <1>3, <1>4, <1>5, <1>6, TypeParts DEF Basics

\* What a step is.
LEMMA StepCases ==
  ASSUME Next
  PROVE  /\ suite' = suite
         /\ \/ \E o \in dying : Gone(o)
            \/ \E r \in Runners : Run(r)
            \/ \E r \in Runners, k \in Policies :
                 CreatePolicy(r, k) \/ PolicyFails(r, k)
            \/ Interrupt \/ RunStep \/ CleanupStep \/ CleanupReturns
            \/ Unwind \/ Onward
BY Zenon DEF Next, Step, Process, Onward

\* The types are kept by every step.
LEMMA NextBasics == Basics /\ [Next]_vars => Basics'
<1> SUFFICES ASSUME Basics, [Next]_vars PROVE Basics'
  OBVIOUS
<1>1. CASE Next
  BY Zenon, <1>1, StepCases, GoneBasics, RunBasics, CreatePolicyBasics,
    PolicyFailsBasics, InterruptBasics, RunStepBasics, CleanupStepBasics,
    CleanupReturnsBasics, UnwindBasics, OnwardBasics
<1>2. CASE UNCHANGED vars
  <2>1. UNCHANGED <<suite, live, dying, held, stage, id, deployed, runs,
                    history, phase, pos, who, step, attempt, outer, faults,
                    tainted, refused>>
        /\ UNCHANGED <<waiting, force, sigint>>
    BY <1>2 DEF vars, runner, control
  <2>2. /\ ObjectTypes /\ RunnerTypes /\ HistoryTypes /\ ControlTypes
        /\ FlagTypes /\ suite \in DOMAIN Suites
    BY TypeParts DEF Basics
  <2>3. ObjectTypes' /\ RunnerTypes' /\ HistoryTypes' /\ ControlTypes'
    BY <2>1, <2>2, SameSuite
    DEF ObjectTypes, RunnerTypes, HistoryTypes, ControlTypes
  <2>4. FlagTypes'
    BY Zenon, <2>1, <2>2 DEF FlagTypes
  <2>5. Positions' /\ Fields'
    BY <2>1, SameSuite DEF Basics, Positions, Fields
  <2> QED
    BY <2>1, <2>2, <2>3, <2>4, <2>5, TypeParts DEF Basics
<1> QED
  BY <1>1, <1>2

\* The runners, their objects and the control keep their types, in any suite
\* (run and cleanup of the runners, tearDown and handle_sigint).
THEOREM TypeCorrect == Spec => []TypeOK
<1>1. Spec => []Basics
  BY InitBasics, NextBasics, PTL DEF Spec
<1>2. Basics => TypeOK
  BY DEF Basics
<1> QED
  BY <1>1, <1>2, PTL

-------------------------------------------------------------------------------
(* What runners remember *)

\* A run or cleanup has still to come to this step.
ToCome(s, k) == \E i \in step..Len(s) : s[i] = k

\* What cleanup leaves alone for others.
Kept(r, k) ==
  \/ k = "ns" /\ Args(r).reuseNamespace
  \/ k = "svc" /\ Args(r).reuseService

TestGoesOn == phase \in {"test", "run"} \/ (phase = "cleanup" /\ pos = 0)

\* While the test goes on, a runner that is not running owns only what it keeps,
\* and one that is being cleaned up comes to the rest.
Remembered ==
  TestGoesOn =>
    /\ \A r \in Runners :
         stage[r] \in {"new", "stopped"} /\ (phase = "cleanup" => r # who) =>
           \A k \in held[r] \ NotReset : Kept(r, k)
    /\ phase = "cleanup" =>
         \A k \in held[who] \ NotReset :
           Kept(who, k) \/ ToCome(CleanupSteps(who), k)

\* At its first step a cleanup comes to everything it may delete.
LEMMA AllToCome ==
  ASSUME NEW r \in Runners, NEW k \in Steps(CleanupSteps(r)), NEW n, n = 1
  PROVE  \E i \in n..Len(CleanupSteps(r)) : CleanupSteps(r)[i] = k
BY DEF Steps

\* After a step the others are still to come.
LEMMA StillToCome ==
  ASSUME NEW s \in Seq(StepName), step \in Nat \ {0}, step' = step + 1,
         NEW k, ToCome(s, k), s[step] # k
  PROVE  \E i \in step'..Len(s) : s[i] = k
<1>1. PICK i \in step..Len(s) : s[i] = k
  BY DEF ToCome
<1>2. Len(s) \in Nat
  BY LenProperties
<1>3. i \in (step + 1)..Len(s)
  BY <1>1, <1>2
<1> QED
  BY <1>1, <1>3

\* A step of a cleanup that does not raise waits, deletes, or skips an object
\* that it need not delete.
LEMMA MoveCases ==
  ASSUME NEW k,
         \/ Skip(who, k) \/ DeleteAccepted(who, k)
         \/ DeleteDone(who, k) \/ DeleteSwallowed(who, k)
  PROVE  \/ /\ UNCHANGED <<phase, step, held>> /\ Deletes(who, k)
         \/ /\ phase' = "cleanup" /\ step' = step + 1
            /\ held' = [held EXCEPT ![who] =
                          @ \ ({k} \cup IF k = "pm" THEN {"pmName"} ELSE {})]
            /\ Deletes(who, k)
         \/ /\ phase' = "cleanup" /\ step' = step + 1 /\ held' = held
            /\ ~Deletes(who, k)
BY DEF Skip, DeleteAccepted, DeleteDone, DeleteSwallowed, NextStep, Goto

\* A step of a cleanup in the test.
LEMMA CleanupStepRemembers ==
  ASSUME Basics, Basics', Remembered, suite' = suite, CleanupStep
  PROVE  Remembered'
<1> DEFINE s == CleanupSteps(who)
           k == s[step]
<1>t. RunnerTypes /\ ControlTypes /\ suite \in DOMAIN Suites
  BY TypeParts DEF Basics
<1>0. /\ UNCHANGED <<pos, who>> /\ phase = "cleanup" /\ who \in Runners
      /\ step \in Nat \ {0} /\ s \in Seq(StepName)
  BY <1>t, CleanupCovers DEF CleanupStep, Basics, Positions, ControlTypes
<1>1. CASE TestGoesOn' /\ phase' = "cleanup"
  <2>1. /\ \/ Skip(who, k) \/ DeleteAccepted(who, k)
           \/ DeleteDone(who, k) \/ DeleteSwallowed(who, k)
        /\ UNCHANGED stage
    <3>1. ~CleanupRaises(who, k)
      BY <1>1 DEF CleanupRaises, AttemptFails
    <3> QED
      BY <3>1 DEF CleanupStep
  <2>2. TestGoesOn
    BY <1>0, <1>1 DEF TestGoesOn
  <2>3. \/ /\ UNCHANGED <<phase, step, held>>
        \/ /\ step' = step + 1
           /\ held' = [held EXCEPT ![who] =
                         @ \ ({k} \cup IF k = "pm" THEN {"pmName"} ELSE {})]
        \/ step' = step + 1 /\ held' = held /\ ~IsHeld(who, k)
    BY <2>1, MoveCases DEF Deletes
  <2>4. /\ \A r \in Runners : r # who => held'[r] = held[r]
        /\ held'[who] \subseteq held[who]
        /\ step' = step \/ (step' = step + 1
                              /\ (k \in held'[who] \ NotReset => Kept(who, k)))
    <3>1. k \in held[who] /\ ~IsHeld(who, k) /\ k \notin NotReset =>
            Kept(who, k)
      BY <1>0 DEF IsHeld, Kept, Basics, Fields
    <3> QED
      BY <1>0, <1>t, <2>3, <3>1 DEF RunnerTypes
  <2>5. ASSUME NEW l \in held'[who] \ NotReset
        PROVE  Kept(who, l) \/ \E i \in step'..Len(s) : s[i] = l
    <3>1. Kept(who, l) \/ ToCome(s, l)
      BY <1>0, <2>2, <2>4 DEF Remembered
    <3>2. CASE step' = step
      BY <3>1, <3>2 DEF ToCome
    <3>3. CASE step' = step + 1 /\ l # k
      BY <1>0, <3>1, <3>3, StillToCome
    <3>4. CASE l = k /\ step' # step
      BY <2>4, <3>4
    <3> QED
      BY <2>4, <3>2, <3>3, <3>4
  <2>6. \A r \in Runners :
          stage[r] \in {"new", "stopped"} /\ r # who =>
            \A l \in held'[r] \ NotReset : Kept(r, l)
    BY <1>0, <2>2, <2>4 DEF Remembered
  <2>7. \A r, l : Kept(r, l)' = Kept(r, l)
    BY SameSuite DEF Kept
  <2> QED
    BY <1>0, <1>1, <2>1, <2>5, <2>6, <2>7, SameSuite DEF Remembered, ToCome
<1>2. CASE ~(TestGoesOn' /\ phase' = "cleanup")
  <2>1. phase' \in {"cleanup", "restarts", "td", "gaveUp"}
    <3>1. \/ phase' = "cleanup" \/ UNCHANGED phase \/ CleanupRaises(who, k)
      BY MoveCases DEF CleanupStep
    <3> QED
      BY <1>0, <3>1 DEF CleanupRaises, AttemptFails
  <2> QED
    BY <1>2, <2>1 DEF Remembered, TestGoesOn
<1> QED
  BY <1>1, <1>2

\* A cleanup in the test has come to everything.
LEMMA CleanupReturnsRemembers ==
  ASSUME Basics, Remembered, suite' = suite, CleanupReturns
  PROVE  Remembered'
<1> DEFINE s == CleanupSteps(who)
<1>t. RunnerTypes /\ ControlTypes /\ suite \in DOMAIN Suites
  BY TypeParts DEF Basics
<1>1. /\ phase = "cleanup" /\ who \in Runners /\ step > Len(s)
      /\ held' = held /\ stage' = [stage EXCEPT ![who] = "stopped"]
  BY DEF CleanupReturns, Stop, Basics, Positions
<1>2. \/ phase' = "test" /\ pos' = pos /\ pos = 0
      \/ phase' = "cleanup" /\ pos' = pos + 1
      \/ phase' = "done"
  BY DEF CleanupReturns, Goto
<1>3. pos \in Nat
  BY <1>t, SuiteFacts DEF ControlTypes
<1>4. CASE phase' = "test" /\ pos = 0
  <2>1. TestGoesOn
    BY <1>1, <1>4 DEF TestGoesOn
  <2>2. Len(s) \in Nat /\ step \in Nat
    BY <1>t, CleanupCovers, LenProperties DEF ControlTypes
  <2>3. \A k : ~ToCome(s, k)
    BY <1>1, <2>2 DEF ToCome
  <2>4. \A r \in Runners :
          stage'[r] \in {"new", "stopped"} =>
            \A k \in held[r] \ NotReset : Kept(r, k)
    BY <1>1, <1>t, <2>1, <2>3 DEF Remembered, RunnerTypes
  <2>5. \A r, k : Kept(r, k)' = Kept(r, k)
    BY SameSuite DEF Kept
  <2> QED
    BY <1>1, <1>4, <2>4, <2>5, SameSuite DEF Remembered
<1>5. CASE phase' = "done" \/ (phase' = "cleanup" /\ pos' = pos + 1)
  BY <1>3, <1>5 DEF Remembered, TestGoesOn
<1> QED
  BY <1>2, <1>4, <1>5

\* A run owns what it makes as long as it is not cleaned up.
LEMMA RunRemembers ==
  ASSUME Basics, Remembered, suite' = suite,
         \/ RunStep
         \/ \E r \in Runners : Run(r) \/ \E k \in Policies : CreatePolicy(r, k)
  PROVE  Remembered'
<1>t. RunnerTypes /\ ControlTypes /\ suite \in DOMAIN Suites
  BY TypeParts DEF Basics
<1>k. \A r, k : Kept(r, k)' = Kept(r, k)
  BY SameSuite DEF Kept
<1>1. ASSUME NEW r \in Runners, Run(r) PROVE Remembered'
  <2>1. /\ phase = "test"
        /\ \/ /\ held' = [held EXCEPT ![r] = @ \cap NotReset]
              /\ stage' = [stage EXCEPT ![r] = "requested"] /\ phase' = "run"
           \/ phase' = "restarts"
    BY <1>1 DEF Run, Goto
  <2>2. CASE phase' = "restarts"
    BY <2>2 DEF Remembered, TestGoesOn
  <2>3. CASE /\ held' = [held EXCEPT ![r] = @ \cap NotReset]
             /\ stage' = [stage EXCEPT ![r] = "requested"] /\ phase' = "run"
    <3>1. \A q \in Runners :
            stage'[q] \in {"new", "stopped"} =>
              \A k \in held'[q] \ NotReset : Kept(q, k)
      BY <1>t, <2>1, <2>3 DEF Remembered, TestGoesOn, RunnerTypes
    <3> QED
      BY <1>k, <2>3, <3>1, SameSuite DEF Remembered
  <2> QED
    BY <2>1, <2>2, <2>3
<1>2. ASSUME NEW r \in Runners, NEW k \in Policies, CreatePolicy(r, k)
      PROVE  Remembered'
  <2>1. /\ phase = "test" /\ phase' = phase /\ stage' = stage
        /\ held' = [held EXCEPT ![r] = @ \cup {k}]
    BY <1>2 DEF CreatePolicy, MakesPolicy, control
  <2>2. k \in NotReset
    BY DEF NotReset
  <2>3. \A q \in Runners :
          stage'[q] \in {"new", "stopped"} =>
            \A l \in held'[q] \ NotReset : Kept(q, l)
    BY <1>t, <2>1, <2>2 DEF Remembered, TestGoesOn, RunnerTypes
  <2> QED
    BY <1>k, <2>1, <2>3, SameSuite DEF Remembered
<1>3. CASE RunStep
  <2>1. /\ phase = "run" /\ who \in Runners
        /\ stage[who] \in {"requested", "completed"}
    BY <1>3 DEF RunStep, Basics, Positions
  <2>2. /\ \A r \in Runners :
             r # who => held'[r] = held[r] /\ stage'[r] = stage[r]
        /\ stage'[who] \in {"requested", "completed"}
        /\ phase' # "cleanup"
    <3> DEFINE k == RunSteps(who)[step]
    <3>1. CASE UNCHANGED <<held, stage>> /\ phase' = "test"
      BY <2>1, <3>1
    <3>2. CASE RunCreates(who, k) /\ phase' = "run"
      BY <1>t, <2>1, <3>2 DEF RunCreates, RunnerTypes
    <3>3. CASE RunWaits(who, k) /\ phase' = "run"
      BY <1>t, <2>1, <3>3 DEF RunWaits, RunnerTypes
    <3>4. CASE RunRaises(who, k)
      BY <1>t, <2>1, <3>4
      DEF RunRaises, RequestFails, Requested, Goto, RunnerTypes
    <3>5. \/ UNCHANGED <<held, stage>> /\ phase' = "test"
          \/ (RunCreates(who, k) \/ RunWaits(who, k)) /\ phase' = "run"
          \/ RunRaises(who, k)
      BY <1>3 DEF RunStep, Goto
    <3> QED
      BY <3>1, <3>2, <3>3, <3>4, <3>5
  <2>3. \A r \in Runners :
          stage'[r] \in {"new", "stopped"} =>
            \A k \in held'[r] \ NotReset : Kept(r, k)
    BY <2>1, <2>2 DEF Remembered, TestGoesOn
  <2> QED
    BY <1>k, <2>2, <2>3, SameSuite DEF Remembered
<1> QED
  BY <1>1, <1>2, <1>3

\* A cleanup begins.
LEMMA OnwardRemembers ==
  ASSUME Basics, Remembered, suite' = suite, Onward
  PROVE  Remembered'
<1>1. CASE phase' = "cleanup" /\ phase = "test"
  <2>1. /\ step' = 1 /\ who' \in Runners /\ UNCHANGED <<held, stage, pos>>
        /\ stage[who'] = "completed"
    BY <1>1, OnwardFacts
  <2>2. \A r \in Runners :
          stage[r] \in {"new", "stopped"} =>
            \A k \in held[r] \ NotReset : Kept(r, k)
    BY <1>1 DEF Remembered, TestGoesOn
  <2>3. ASSUME NEW k \in held[who'] \ NotReset
        PROVE  \E i \in step'..Len(CleanupSteps(who')) :
                 CleanupSteps(who')[i] = k
    <3>1. /\ k \in {"ns", "svc", "sa", "dep"}
          /\ k = "svc" => Args(who').kind \in {"server", "gamma"}
      BY <2>1, SuiteFacts DEF Basics, TypeOK, Fields, Kinds
    <3>2. k \in Steps(CleanupSteps(who'))
      BY <3>1, CleanupCovers
    <3> QED
      BY <2>1, <3>2, AllToCome
  <2>4. \A r, k : Kept(r, k)' = Kept(r, k)
    BY SameSuite DEF Kept
  <2>5. CleanupSteps(who)' = CleanupSteps(who')
    BY SameSuite
  <2> QED
    BY <2>1, <2>2, <2>3, <2>4, <2>5, SameSuite DEF Remembered, ToCome
<1>2. CASE ~(phase' = "cleanup" /\ phase = "test")
  <2>1. \/ phase' = "cleanup" /\ pos' = 1
        \/ phase' \in {"restarts", "td", "skipped", "gaveUp", "orphaned"}
    BY <1>2, OnwardFacts
  <2> QED
    BY <2>1 DEF Remembered, TestGoesOn
<1> QED
  BY <1>1, <1>2

\* Remembered is inductive.
LEMMA NextRemembers == Basics /\ Remembered /\ [Next]_vars => Remembered'
<1> SUFFICES ASSUME Basics, Remembered, [Next]_vars PROVE Remembered'
  OBVIOUS
<1>b. Basics'
  BY NextBasics
<1>s. suite' = suite
  BY StepCases DEF vars
<1>1. CASE UNCHANGED <<held, stage, phase, pos, who, step>>
  <2>1. \A r, k : Kept(r, k)' = Kept(r, k)
    BY <1>s, SameSuite DEF Kept
  <2>2. CleanupSteps(who)' = CleanupSteps(who)
    BY <1>1, <1>s, SameSuite
  <2> QED
    BY <1>1, <1>s, <2>1, <2>2, SameSuite DEF Remembered, TestGoesOn, ToCome
<1>2. ASSUME NEW o \in dying, Gone(o) PROVE Remembered'
  BY <1>1, <1>2 DEF Gone, runner, control
<1>3. CASE \/ Interrupt \/ Unwind
           \/ \E r \in Runners, k \in Policies : PolicyFails(r, k)
  <2>1. phase' \in {"interrupted", "restarts"} \cup Over
    BY <1>3, PolicyFailsFacts DEF Interrupt, Unwind, Goto
  <2> QED
    BY <2>1 DEF Remembered, TestGoesOn, Over
<1>4. CASE UNCHANGED vars
  BY <1>1, <1>4 DEF vars, runner, control
<1> QED
  BY Zenon, <1>b, <1>s, <1>2, <1>3, <1>4, StepCases, RunRemembers,
    CleanupStepRemembers, CleanupReturnsRemembers, OnwardRemembers

\* Nothing has been made.
LEMMA InitRemembers == Init => Remembered
BY DEF Init, Remembered

\* What a step does to the fields of a runner.
LEMMA FieldsAreLostWhen ==
  ASSUME Basics, Remembered, Next, NEW r \in Runners,
         NEW k \in held[r] \ held'[r]
  PROVE  \/ \E q \in Runners : Run(q) /\ k \in Named \ NotReset /\ Kept(r, k)
         \/ /\ CleanupStep /\ r = who
            /\ k = CleanupSteps(who)[step] \/ k = "pmName"
            /\ \/ DeleteAccepted(who, CleanupSteps(who)[step])
               \/ DeleteDone(who, CleanupSteps(who)[step])
               \/ DeleteSwallowed(who, CleanupSteps(who)[step])
<1>t. RunnerTypes
  BY TypeParts DEF Basics
<1>1. ASSUME NEW q \in Runners, Run(q)
      PROVE  k \in Named \ NotReset /\ Kept(r, k)
  <2>1. /\ phase = "test" /\ r = q /\ stage[r] \in {"new", "stopped"}
        /\ k \notin NotReset
    BY <1>1, <1>t DEF Run, Starts, RunnerTypes
  <2>2. Kept(r, k)
    BY <2>1 DEF Remembered, TestGoesOn
  <2> QED
    BY <2>1, <2>2 DEF Kept, Named, Kinds
<1>2. CASE CleanupStep
  <2> DEFINE c == CleanupSteps(who)[step]
  <2>1. ~CleanupRaises(who, c) /\ ~Skip(who, c)
    BY DEF CleanupRaises, Skip
  <2>2. DeleteAccepted(who, c) \/ DeleteDone(who, c) \/ DeleteSwallowed(who, c)
    BY <1>2, <2>1 DEF CleanupStep
  <2>3. held' = [held EXCEPT ![who] =
                   @ \ ({c} \cup IF c = "pm" THEN {"pmName"} ELSE {})]
    BY <2>2, MoveCases
  <2>4. r = who /\ (k = c \/ k = "pmName")
    BY <1>t, <2>3 DEF RunnerTypes
  <2> QED
    BY Zenon, <1>2, <2>2, <2>4
<1>3. CASE RunStep
  <2>1. who \in Runners
    BY <1>3 DEF RunStep, Basics, Positions
  <2>2. held[r] \subseteq held'[r]
    BY <1>3, <1>t, <2>1 DEF RunStep, RunCreates, RunWaits, RunRaises, Requested,
      RunnerTypes
  <2> QED
    BY <2>2
<1>4. CASE Interrupt
  <2>1. held' = held \/ (phase = "run" /\ Requested(who, RunSteps(who)[step]))
    BY <1>4 DEF Interrupt
  <2>2. held[r] \subseteq held'[r]
    BY <1>t, <2>1 DEF Requested, RunnerTypes, Basics, Positions
  <2> QED
    BY <2>2
<1>5. CASE \E q \in Runners, p \in Policies : CreatePolicy(q, p)
  <2>1. held[r] \subseteq held'[r]
    BY <1>5, <1>t DEF CreatePolicy, RunnerTypes
  <2> QED
    BY <2>1
<1>6. CASE \/ (\E o \in dying : Gone(o)) \/ CleanupReturns \/ Unwind \/ Onward
           \/ \E q \in Runners, p \in Policies : PolicyFails(q, p)
  <2>1. held' = held
    BY <1>6, OnwardFacts, PolicyFailsFacts
    DEF Gone, CleanupReturns, Unwind, runner
  <2> QED
    BY <2>1
<1> QED
  BY Zenon, <1>1, <1>2, <1>3, <1>4, <1>5, <1>6, StepCases

\* A runner forgets an object only when it is gone or going, when a request
\* about it failed, or when the object is kept for others (run, which begins
\* with _reset_state, and cleanup of the runners).
THEOREM NothingIsForgotten == Spec => NothingForgotten
<1> DEFINE Forgets ==
      \A r \in Runners : \A k \in (held[r] \ held'[r]) \ {"pmName"} :
        LET o == Name(r, k)
        IN  \/ o \notin live' \/ IsDying(o)' \/ o \in tainted'
            \/ k = "ns" /\ Args(r).reuseNamespace
            \/ k = "svc" /\ Args(r).reuseService
<1>1. ASSUME Basics, Remembered, Next PROVE Forgets
  <2> SUFFICES ASSUME NEW r \in Runners,
                      NEW k \in (held[r] \ held'[r]) \ {"pmName"},
                      ~Kept(r, k)
               PROVE  \/ Name(r, k) \notin live' \/ IsDying(Name(r, k))'
                      \/ Name(r, k) \in tainted'
    BY DEF Kept
  <2>1. \/ DeleteAccepted(r, k) \/ DeleteDone(r, k) \/ DeleteSwallowed(r, k)
    BY <1>1, FieldsAreLostWhen
  <2>2. Name(r, k)' = Name(r, k)
    BY <1>1, StepCases, SameSuite
  <2>3. CASE DeleteAccepted(r, k)
    <3>1. k # "grant"
      BY <1>1 DEF Basics, Fields
    <3> QED
      BY <2>2, <2>3, <3>1 DEF DeleteAccepted, IsDying
  <2>4. CASE DeleteDone(r, k)
    BY <2>4 DEF DeleteDone
  <2>5. CASE DeleteSwallowed(r, k)
    BY <2>5 DEF DeleteSwallowed
  <2> QED
    BY <2>1, <2>3, <2>4, <2>5
<1>2. Basics /\ Remembered /\ [Next]_vars => [Forgets]_vars
  BY <1>1
<1>3. Init => Basics /\ Remembered
  BY InitBasics, InitRemembers
<1>4. Basics /\ Remembered /\ [Next]_vars => (Basics /\ Remembered)'
  BY NextBasics, NextRemembers
<1> QED
  BY <1>2, <1>3, <1>4, PTL DEF Spec, NothingForgotten

-------------------------------------------------------------------------------
(* The identities of workloads *)

\* A workload that is there to stay has its identity, and its runner knows of it
\* and deletes it first.
Stays(r) ==
  /\ Name(r, "dep") \in live \ tainted /\ Name(r, "dep") \notin dying
  /\ Name(r, "ns") \notin dying

HasIdentity(r) ==
  /\ Name(r, "grant") \in live /\ Name(r, "sa") \in live \ dying
  /\ "dep" \in held[r]

Equipped(r) ==
  Stays(r) =>
    /\ HasIdentity(r)
    /\ phase = "cleanup" /\ who = r => ToCome(CleanupSteps(r), "dep")

\* A run makes the identity before the workload.
RunProgress ==
  /\ ToCome(RunSteps(who), "grant") \/ Name(who, "grant") \in live
  /\ \/ ToCome(RunSteps(who), "sa") \/ Name(who, "sa") \in live \ dying
     \/ Name(who, "ns") \notin live \ dying
  /\ ToCome(RunSteps(who), "dep") \/ Equipped(who)
  /\ stage[who] = "completed" => ~ToCome(RunSteps(who), "dep")

Identified ==
  Suite.identity =>
    /\ \A r \in Runners : stage[r] = "completed" => Equipped(r)
    /\ phase = "run" => RunProgress

\* Names are of one kind, and of one runner but for namespaces and services.
LEMMA NameFacts ==
  /\ \A r, k : /\ Name(r, k)[2] = k
               /\ NsOf(Name(r, k)) = Name(r, "ns")
               /\ Inside(Name(r, k)) <=> k \notin {"ns", "grant"}
  /\ \A r, q, k, l : Name(r, k) = Name(q, l) =>
       k = l /\ (k \notin {"ns", "svc"} => r = q)
BY DEF Name, NsOf, Inside

\* The identity is what the property asks for.
LEMMA IdentifiedSuffices == Identified => IdentityOutlivesWorkload
<1> SUFFICES ASSUME Identified, Suite.identity, NEW r \in Runners,
                    stage[r] = "completed", Name(r, "dep") \in live \ tainted,
                    ~IsDying(Name(r, "dep"))
             PROVE  Name(r, "grant") \in live /\ Name(r, "sa") \in live
  BY DEF IdentityOutlivesWorkload
<1>1. Stays(r)
  BY NameFacts DEF Stays, IsDying
<1> QED
  BY <1>1 DEF Identified, Equipped, HasIdentity

\* A step that makes no workload stay and takes no identity away.
LEMMA EquippedNext ==
  ASSUME suite' = suite, NEW r \in Runners, Equipped(r),
         Stays(r)' => Stays(r),
         Stays(r)' /\ HasIdentity(r) => HasIdentity(r)',
         phase' = "cleanup" /\ who' = r /\ Stays(r)' =>
           ToCome(CleanupSteps(r), "dep")'
  PROVE  Equipped(r)'
BY DEF Equipped

\* The cluster takes what is dying.
LEMMA GoneIdentified ==
  ASSUME Basics, Identified, suite' = suite, NEW o \in dying, Gone(o)
  PROVE  Identified'
<1>1. UNCHANGED <<held, stage, phase, who, step, tainted>>
  BY DEF Gone, runner, control
<1> DEFINE gone == {o} \cup {x \in live : Inside(x) /\ NsOf(x) = o}
<1>2. live' = live \ gone /\ dying' = dying \ gone
  BY DEF Gone
<1>3. \A r, k : Name(r, k)' = Name(r, k)
  BY SameSuite
<1>4. o[2] # "grant"
  BY DEF Basics, Fields
<1>5. \A r : Name(r, "grant") \notin gone
  BY <1>4, NameFacts
<1>6. \A r, k : /\ Name(r, "ns") \in gone => Name(r, "ns") = o
                /\ Name(r, "ns") = o /\ k \notin {"ns", "grant"}
                     /\ Name(r, k) \in live => Name(r, k) \in gone
                /\ Name(r, k) \in gone => Name(r, k) = o \/ Name(r, "ns") = o
  BY NameFacts
<1>7. ASSUME NEW r \in Runners, Equipped(r) PROVE Equipped(r)'
  <2>1. Stays(r)' => Stays(r)
    BY <1>1, <1>2, <1>3, <1>6 DEF Stays
  <2>2. Stays(r)' /\ HasIdentity(r) => HasIdentity(r)'
    BY <1>1, <1>2, <1>3, <1>5, <1>6, <2>1 DEF Stays, HasIdentity
  <2>3. phase' = "cleanup" /\ who' = r /\ Stays(r)' =>
          ToCome(CleanupSteps(r), "dep")'
    <3>1. ToCome(CleanupSteps(r), "dep") => ToCome(CleanupSteps(r), "dep")'
      BY <1>1, SameSuite DEF ToCome
    <3> QED
      BY <1>1, <1>7, <2>1, <3>1 DEF Equipped
  <2> QED
    BY <1>7, <2>1, <2>2, <2>3, EquippedNext
<1>8. ASSUME phase = "run", RunProgress PROVE RunProgress'
  <2>1. who \in Runners
    BY <1>8 DEF Basics, Positions
  <2>2. \A k : ToCome(RunSteps(who), k)' <=> ToCome(RunSteps(who), k)
    BY <1>1, SameSuite DEF ToCome
  <2>3. Name(who, "grant") \in live => Name(who, "grant")' \in live'
    BY <1>1, <1>2, <1>3, <1>5
  <2>4. \/ Name(who, "sa") \in live \ dying
        \/ Name(who, "ns") \notin live \ dying
        => \/ Name(who, "sa")' \in live' \ dying'
           \/ Name(who, "ns")' \notin live' \ dying'
    BY <1>1, <1>2, <1>3, <1>6
  <2> QED
    BY <1>1, <1>7, <1>8, <2>1, <2>2, <2>3, <2>4 DEF RunProgress
<1> QED
  BY <1>1, <1>7, <1>8, SameSuite DEF Identified

\* A run begins with everything still to come.
LEMMA RunIdentified ==
  ASSUME Basics, Identified, suite' = suite, NEW r \in Runners, Run(r)
  PROVE  Identified'
<1>t. RunnerTypes
  BY TypeParts DEF Basics
<1>1. /\ phase = "test" /\ UNCHANGED <<live, dying, tainted>> /\ step' = 1
      /\ \/ /\ phase' = "run" /\ who' = r
            /\ held' = [held EXCEPT ![r] = @ \cap NotReset]
            /\ stage' = [stage EXCEPT ![r] = "requested"]
         \/ phase' = "restarts" /\ UNCHANGED <<held, stage>>
  BY DEF Run, Goto
<1>2. ASSUME NEW q \in Runners, stage'[q] = "completed", Suite.identity
      PROVE  Equipped(q)'
  <2>1. stage[q] = "completed" /\ held'[q] = held[q] /\ phase' # "cleanup"
    BY <1>1, <1>2, <1>t DEF RunnerTypes
  <2>2. Equipped(q)
    BY <1>2, <2>1 DEF Identified
  <2> QED
    BY <1>1, <2>1, <2>2, SameSuite DEF Equipped, Stays, HasIdentity
<1>3. ASSUME phase' = "run", Suite.identity PROVE RunProgress'
  <2>1. /\ who' = r /\ stage'[r] = "requested"
    BY <1>1, <1>3, <1>t DEF RunnerTypes
  <2>2. \A k \in {"grant", "sa", "dep"} :
          \E i \in step'..Len(RunSteps(r)) : RunSteps(r)[i] = k
    BY SMTT(30), <1>1, <1>3, RunCovers DEF Steps
  <2>3. RunSteps(who)' = RunSteps(r)
    BY <2>1, SameSuite
  <2>4. \A k \in {"grant", "sa", "dep"} : ToCome(RunSteps(who), k)'
    BY <2>2, <2>3 DEF ToCome
  <2> QED
    BY <2>1, <2>4 DEF RunProgress
<1> QED
  BY <1>2, <1>3, SameSuite DEF Identified

\* The step of a run that makes an object, if the request is carried out.
Makes(k) ==
  /\ live' \in {live, live \cup {Name(who, k)}} /\ dying' = dying
  /\ live' # live => CanCreate(who, k)
  /\ tainted \subseteq tainted'
  /\ \A r \in Runners : held[r] \subseteq held'[r]

\* It takes nothing away, and makes no workload stay but its own.
LEMMA MakesFacts ==
  ASSUME suite' = suite, NEW k, Makes(k), NEW r \in Runners,
         phase' # "cleanup"
  PROVE  /\ HasIdentity(r) => HasIdentity(r)'
         /\ Stays(r)' => Stays(r) \/ (r = who /\ k = "dep" /\ live' # live)
         /\ (r # who \/ k # "dep" \/ live' = live) /\ Equipped(r) =>
              Equipped(r)'
<1>1. \A q, l : Name(q, l)' = Name(q, l)
  BY SameSuite
<1>2. HasIdentity(r) => HasIdentity(r)'
  BY <1>1 DEF Makes, HasIdentity
<1>3. Stays(r)' => Stays(r) \/ (r = who /\ k = "dep" /\ live' # live)
  BY <1>1, NameFacts DEF Makes, Stays
<1> QED
  BY <1>2, <1>3, EquippedNext DEF Equipped

\* A step of a run.
LEMMA RunStepIdentified ==
  ASSUME Basics, Identified, suite' = suite, RunStep
  PROVE  Identified'
<1>t. ObjectTypes /\ RunnerTypes /\ ControlTypes /\ suite \in DOMAIN Suites
  BY TypeParts DEF Basics
<1> DEFINE s == RunSteps(who)
           k == s[step]
<1>0. /\ phase = "run" /\ who \in Runners /\ step \in Nat \ {0}
      /\ s \in Seq(StepName) /\ Len(s) \in Nat /\ dying' = dying
  BY <1>t, RunCovers, LenProperties DEF RunStep, Basics, Positions, ControlTypes
<1>n. \A q, l : Name(q, l)' = Name(q, l)
  BY SameSuite
<1>1. CASE step > Len(s)
  <2>1. /\ phase' = "test" /\ UNCHANGED <<live, held, stage, tainted>>
    BY <1>1 DEF RunStep, Goto
  <2>2. ASSUME NEW r \in Runners, Equipped(r) PROVE Equipped(r)'
    BY <1>0, <1>n, <2>1, <2>2 DEF Equipped, Stays, HasIdentity
  <2> QED
    BY <2>1, <2>2, SameSuite DEF Identified
<1>2. CASE step \in 1..Len(s) /\ RunRaises(who, k)
  <2>1. phase' = "restarts" /\ stage' = stage
    BY <1>2 DEF RunRaises, RequestFails, Goto
  <2>2. Makes(k) /\ (live' # live => Name(who, k) \in tainted')
    <3>1. \A r \in Runners : held[r] \subseteq held'[r]
      BY <1>0, <1>2, <1>t DEF RunRaises, Requested, RunnerTypes
    <3>2. /\ live' \in {live, live \cup {Name(who, k)}}
          /\ live' # live => CanCreate(who, k) /\ k \in Kinds
          /\ tainted' = tainted \cup
                          (IF k \in Kinds THEN {Name(who, k)} ELSE {})
      BY <1>2 DEF RunRaises, RequestFails
    <3> QED
      BY <1>0, <3>1, <3>2 DEF Makes
  <2>3. ASSUME NEW r \in Runners, Equipped(r) PROVE Equipped(r)'
    <3>1. Stays(r)' => Stays(r)
      BY <1>n, <2>1, <2>2, MakesFacts DEF Stays
    <3> QED
      BY <2>1, <2>2, <2>3, <3>1, MakesFacts DEF Equipped
  <2> QED
    BY <2>1, <2>3, SameSuite DEF Identified
<1>3. CASE /\ step \in 1..Len(s)
           /\ RunCreates(who, k) \/ RunWaits(who, k)
           /\ Goto("run", step + 1) /\ UNCHANGED <<faults, tainted, who>>
  <2>1. phase' = "run" /\ step' = step + 1 /\ UNCHANGED <<tainted, who>>
    BY <1>3 DEF Goto
  <2>2. Makes(k)
    <3>1. \A r \in Runners : held[r] \subseteq held'[r]
      BY <1>0, <1>3, <1>t DEF RunCreates, RunWaits, RunnerTypes
    <3>2. /\ live' \in {live, live \cup {Name(who, k)}}
          /\ live' # live => CanCreate(who, k)
      BY <1>3 DEF RunCreates, RunWaits
    <3> QED
      BY <1>0, <2>1, <3>1, <3>2 DEF Makes
  <2>k. RunSteps(who)' = s
    BY <2>1, SameSuite
  <2>c. \A l : ToCome(s, l) /\ l # k => ToCome(RunSteps(who), l)'
    BY <1>0, <2>1, <2>k, StillToCome DEF ToCome
  <2>d. ToCome(RunSteps(who), "dep")' => ToCome(s, "dep")
    BY <1>0, <2>1, <2>k DEF ToCome
  <2>o. \A l : ToCome(s, l) => \E j \in step..Len(s) : l = s[j]
    BY DEF ToCome
  <2>r. /\ k = "ns" => step = 1
        /\ k \in {"sa", "dep"} => ~ToCome(s, "grant")
        /\ k = "dep" => ~ToCome(s, "sa")
        /\ k = "pods" => ~ToCome(s, "dep")
    <3>1. ASSUME NEW j \in step..Len(s)
          PROVE  /\ k = "ns" => step = 1
                 /\ k \in {"sa", "dep"} => s[j] # "grant"
                 /\ k = "dep" => s[j] # "sa"
                 /\ k = "pods" => s[j] # "dep"
      <4>1. step \in 1..Len(RunSteps(who)) /\ j \in step..Len(RunSteps(who))
        BY <1>3
      <4> HIDE DEF k, s
      <4>2. s = RunSteps(who) /\ k = RunSteps(who)[step]
        BY DEF k, s
      <4> QED
        BY <4>1, <4>2, RunOrder
    <3>2. step \in step..Len(s)
      <4>1. Len(s) \in Nat /\ step \in 1..Len(s)
        BY <1>0, <1>3
      <4> QED
        BY <4>1
    <3> QED
      BY <2>o, <3>1, <3>2
  <2>3. ASSUME Suite.identity PROVE RunProgress'
    <3>0. RunProgress
      BY <1>0, <2>3 DEF Identified
    <3>1. ToCome(RunSteps(who), "grant")' \/ Name(who, "grant")' \in live'
      <4>1. CASE k = "grant"
        BY <1>3, <1>n, <2>1, <4>1 DEF RunCreates, RunWaits, Reuses, Kinds
      <4>2. CASE k # "grant"
        BY <1>n, <2>1, <2>2, <2>c, <3>0, <4>2 DEF RunProgress, Makes
      <4> QED
        BY <4>1, <4>2
    <3>2. \/ ToCome(RunSteps(who), "sa")' \/ Name(who, "sa")' \in live' \ dying'
          \/ Name(who, "ns")' \notin live' \ dying'
      <4>1. CASE k = "sa"
        <5>1. /\ Name(who, "sa") \notin live
              /\ live' = live \cup {Name(who, "sa")}
          BY <1>3, <4>1 DEF RunCreates, RunWaits, Reuses, CanCreate, Kinds
        <5> QED
          BY <1>0, <1>n, <1>t, <2>1, <5>1 DEF ObjectTypes
      <4>2. CASE k = "ns"
        <5>1. ToCome(s, "sa")
          BY <2>3, <2>r, <4>2, RunCovers DEF Steps, ToCome
        <5> QED
          BY <2>c, <4>2, <5>1
      <4>3. CASE k \notin {"sa", "ns"}
        <5>1. Name(who, "ns") \in live' => Name(who, "ns") \in live
          BY <2>2, <4>3, NameFacts DEF Makes
        <5>2. live \subseteq live' /\ dying' = dying
          BY <2>2 DEF Makes
        <5>3. CASE ToCome(s, "sa")
          BY <2>c, <4>3, <5>3
        <5>4. CASE Name(who, "sa") \in live \ dying
          BY <1>n, <2>1, <5>2, <5>4
        <5>5. CASE Name(who, "ns") \notin live \ dying
          BY <1>n, <2>1, <5>1, <5>2, <5>5
        <5> QED
          BY <3>0, <5>3, <5>4, <5>5 DEF RunProgress
      <4> QED
        BY <4>1, <4>2, <4>3
    <3>3. ToCome(RunSteps(who), "dep")' \/ Equipped(who)'
      <4>1. CASE k = "dep"
        <5>1. /\ CanCreate(who, "dep") /\ "dep" \in held'[who]
          BY <1>0, <1>3, <1>t, <4>1
          DEF RunCreates, RunWaits, Reuses, Kinds, RunnerTypes
        <5>2. Name(who, "ns") \in live \ dying
          BY <5>1, NameFacts DEF CanCreate
        <5>3. Name(who, "grant") \in live /\ Name(who, "sa") \in live \ dying
          BY <2>r, <3>0, <4>1, <5>2 DEF RunProgress
        <5>4. HasIdentity(who)'
          BY <1>n, <2>1, <2>2, <5>1, <5>3 DEF HasIdentity, Makes
        <5> QED
          BY <2>1, <5>4 DEF Equipped
      <4>2. CASE k # "dep" /\ ToCome(s, "dep")
        BY <2>c, <4>2
      <4>3. CASE k # "dep" /\ Equipped(who)
        <5>1. Equipped(who)'
          <6>1. Stays(who)' => HasIdentity(who)'
            BY <1>0, <2>1, <2>2, <4>3, MakesFacts DEF Equipped
          <6> QED
            BY <2>1, <6>1 DEF Equipped
        <5> QED
          BY <5>1
      <4> QED
        BY <3>0, <4>1, <4>2, <4>3 DEF RunProgress
    <3>4. stage'[who'] = "completed" => ~ToCome(RunSteps(who), "dep")'
      <4>1. stage'[who] = stage[who] \/ k = "pods"
        BY <1>3 DEF RunCreates, RunWaits
      <4> QED
        BY <2>1, <2>d, <2>r, <3>0, <4>1 DEF RunProgress
    <3> QED
      BY <3>1, <3>2, <3>3, <3>4 DEF RunProgress
  <2>4. ASSUME NEW r \in Runners, stage'[r] = "completed", Suite.identity
        PROVE  Equipped(r)'
    <3>1. CASE r = who
      BY <2>1, <2>3, <2>4, <3>1 DEF RunProgress
    <3>2. CASE r # who
      <4>1. stage[r] = "completed"
        BY <1>0, <1>3, <1>t, <2>4, <3>2 DEF RunCreates, RunWaits, RunnerTypes
      <4>2. Equipped(r)
        BY <2>4, <4>1 DEF Identified
      <4>3. Stays(r)' => HasIdentity(r)'
        BY <2>1, <2>2, <3>2, <4>2, MakesFacts DEF Equipped
      <4> QED
        BY <2>1, <4>3 DEF Equipped
    <3> QED
      BY <3>1, <3>2
  <2> QED
    BY <2>3, <2>4, SameSuite DEF Identified
<1>4. step > Len(s) \/ step \in 1..Len(s)
  BY <1>0
<1>5. \/ step > Len(s)
      \/ /\ RunCreates(who, k) \/ RunWaits(who, k)
         /\ Goto("run", step + 1) /\ UNCHANGED <<faults, tainted, who>>
      \/ RunRaises(who, k)
  BY Zenon DEF RunStep
<1> QED
  BY Zenon, <1>1, <1>2, <1>3, <1>4, <1>5

\* Other steps that make nothing.
LEMMA StillIdentified ==
  ASSUME Basics, Identified, suite' = suite,
         \/ Interrupt \/ Unwind \/ CleanupReturns \/ Onward
         \/ \E r \in Runners, k \in Policies :
              CreatePolicy(r, k) \/ PolicyFails(r, k)
  PROVE  Identified'
<1>t. RunnerTypes /\ ControlTypes /\ suite \in DOMAIN Suites
  BY TypeParts DEF Basics
<1>n. \A q, l : Name(q, l)' = Name(q, l)
  BY SameSuite
<1>c. ASSUME NEW r \in Runners, who' = r, step' = 1
      PROVE  ToCome(CleanupSteps(r), "dep")'
  <2>1. \E i \in step'..Len(CleanupSteps(r)) : CleanupSteps(r)[i] = "dep"
    BY <1>c, CleanupCovers, AllToCome
  <2> QED
    BY <2>1, SameSuite DEF ToCome
<1>p. ASSUME NEW q \in Runners, NEW k \in Policies,
             live' \in {live, live \cup {Name(q, k)}},
             UNCHANGED <<dying, stage>>,
             tainted \subseteq tainted',
             \A r \in Runners : held[r] \subseteq held'[r],
             phase' \in {"test", "restarts", "interrupted"}
      PROVE  Identified'
  <2>1. k # "dep"
    BY DEF Policies
  <2>2. ASSUME NEW r \in Runners, stage'[r] = "completed", Suite.identity
        PROVE  Equipped(r)'
    <3>1. Equipped(r)
      BY <1>p, <2>2 DEF Identified
    <3>2. Stays(r)' => Stays(r)
      BY <1>n, <1>p, <2>1, NameFacts DEF Stays
    <3>3. HasIdentity(r) => HasIdentity(r)'
      BY <1>n, <1>p DEF HasIdentity
    <3> QED
      BY <1>p, <3>1, <3>2, <3>3 DEF Equipped
  <2> QED
    BY <1>p, <2>2, SameSuite DEF Identified
<1>1. CASE Interrupt
  <2> DEFINE k == RunSteps(who)[step]
  <2>1. phase' = "interrupted" /\ stage' = stage /\ UNCHANGED <<dying, tainted>>
    BY <1>1 DEF Interrupt, Goto
  <2>p. CASE \E q \in Runners, l \in Policies :
               live' = live \cup {Name(q, l)} /\ UNCHANGED held
    BY <1>p, <2>1, <2>p
  <2> SUFFICES ASSUME ~(\E q \in Runners, l \in Policies :
                          live' = live \cup {Name(q, l)} /\ UNCHANGED held)
               PROVE  Identified'
    BY <2>p
  <2>2. \/ UNCHANGED <<live, held>>
        \/ /\ phase = "run" /\ step <= Len(RunSteps(who)) /\ Requested(who, k)
           /\ live' \in {live, live \cup {Name(who, k)}}
           /\ live' # live => CanCreate(who, k)
    BY <1>1 DEF Interrupt
  <2>3. Makes(k)
    BY <1>t, <2>1, <2>2 DEF Makes, Requested, RunnerTypes, Basics, Positions
  <2>4. ASSUME NEW r \in Runners, stage[r] = "completed", Suite.identity
        PROVE  Equipped(r)'
    <3>1. Equipped(r)
      BY <2>4 DEF Identified
    <3>2. ~(r = who /\ k = "dep" /\ live' # live)
      <4> SUFFICES ASSUME r = who, k = "dep", live' # live PROVE FALSE
        OBVIOUS
      <4>1. phase = "run" /\ step <= Len(RunSteps(who))
        BY <2>2
      <4>2. ~ToCome(RunSteps(who), "dep")
        BY <2>4, <4>1 DEF Identified, RunProgress
      <4>3. Len(RunSteps(who)) \in Nat /\ step \in Nat
        BY <1>t, RunCovers, LenProperties DEF ControlTypes
      <4>4. step \in step..Len(RunSteps(who))
        BY <4>1, <4>3
      <4> QED
        BY <4>2, <4>4 DEF ToCome
    <3> QED
      BY <2>1, <2>3, <3>1, <3>2, MakesFacts
  <2> QED
    BY <2>1, <2>4, SameSuite DEF Identified
<1>2. CASE Unwind
  <2>1. /\ UNCHANGED <<live, dying, tainted, held, phase>> /\ phase \in Over
        /\ outer \in Runners /\ stage' = [stage EXCEPT ![outer] = "stopped"]
    BY <1>2, <1>t DEF Unwind, Stop, ControlTypes
  <2>2. ASSUME NEW r \in Runners, stage'[r] = "completed", Suite.identity
        PROVE  Equipped(r)'
    <3>1. Equipped(r)
      BY <1>t, <2>1, <2>2 DEF Identified, RunnerTypes
    <3> QED
      BY <1>n, <2>1, <3>1 DEF Equipped, Stays, HasIdentity, Over
  <2> QED
    BY <2>1, <2>2, SameSuite DEF Identified, Over
<1>3. CASE CleanupReturns
  <2>1. /\ UNCHANGED <<live, dying, tainted, held>> /\ step' = 1
        /\ phase' \in {"test", "cleanup", "done"} /\ who \in Runners
        /\ stage' = [stage EXCEPT ![who] = "stopped"]
    BY <1>3 DEF CleanupReturns, Stop, Goto, Basics, Positions
  <2>2. ASSUME NEW r \in Runners, stage'[r] = "completed", Suite.identity
        PROVE  Equipped(r)'
    <3>1. Equipped(r)
      BY <1>t, <2>1, <2>2 DEF Identified, RunnerTypes
    <3>2. Stays(r)' => HasIdentity(r)'
      BY <1>n, <2>1, <3>1 DEF Equipped, Stays, HasIdentity
    <3>3. who' = r => ToCome(CleanupSteps(r), "dep")'
      BY <1>c, <2>1
    <3> QED
      BY <3>2, <3>3 DEF Equipped
  <2> QED
    BY <2>1, <2>2, SameSuite DEF Identified
<1>4. CASE Onward
  <2>1. /\ UNCHANGED <<live, dying, tainted, held, stage>>
        /\ phase' = "cleanup" => step' = 1
        /\ phase' # "run"
    BY <1>4, OnwardFacts
  <2>2. ASSUME NEW r \in Runners, stage'[r] = "completed", Suite.identity
        PROVE  Equipped(r)'
    <3>1. Equipped(r)
      BY <2>1, <2>2 DEF Identified
    <3>2. Stays(r)' => HasIdentity(r)'
      BY <1>n, <2>1, <3>1 DEF Equipped, Stays, HasIdentity
    <3>3. who' = r /\ phase' = "cleanup" => ToCome(CleanupSteps(r), "dep")'
      BY <1>c, <2>1
    <3> QED
      BY <3>2, <3>3 DEF Equipped
  <2> QED
    BY <2>1, <2>2, SameSuite DEF Identified
<1>5. ASSUME NEW q \in Runners, NEW k \in Policies, CreatePolicy(q, k)
      PROVE  Identified'
  <2>1. /\ live' = live \cup {Name(q, k)} /\ UNCHANGED <<dying, tainted, stage>>
        /\ phase = "test" /\ phase' = phase
        /\ held' = [held EXCEPT ![q] = @ \cup {k}]
    BY <1>5 DEF CreatePolicy, MakesPolicy, control
  <2>2. \A r \in Runners : held[r] \subseteq held'[r]
    BY <1>t, <2>1 DEF RunnerTypes
  <2> QED
    BY <1>p, <2>1, <2>2
<1>6. ASSUME NEW q \in Runners, NEW k \in Policies, PolicyFails(q, k)
      PROVE  Identified'
  <2>1. /\ UNCHANGED <<dying, stage, held>> /\ tainted \subseteq tainted'
        /\ live' \in {live, live \cup {Name(q, k)}} /\ phase' = "restarts"
    BY <1>6, PolicyFailsFacts
  <2> QED
    BY <1>p, <2>1
<1> QED
  BY <1>1, <1>2, <1>3, <1>4, <1>5, <1>6

\* A cleanup takes the workload before its identity.
LEMMA CleanupStepIdentified ==
  ASSUME Basics, Identified, suite' = suite, CleanupStep
  PROVE  Identified'
<1> DEFINE s == CleanupSteps(who)
           k == s[step]
<1>t. RunnerTypes /\ ObjectTypes /\ ControlTypes /\ suite \in DOMAIN Suites
  BY TypeParts DEF Basics
<1>0. /\ who' = who /\ phase = "cleanup" /\ who \in Runners
      /\ step \in Nat \ {0} /\ s \in Seq(StepName) /\ Len(s) \in Nat
      /\ step \in 1..Len(s)
  BY <1>t, CleanupCovers, LenProperties
  DEF CleanupStep, Basics, Positions, ControlTypes
<1>n. \A q, l : Name(q, l)' = Name(q, l)
  BY SameSuite
<1>1. CASE CleanupRaises(who, k)
  <2>1. /\ UNCHANGED <<live, dying, tainted, held>>
        /\ phase' \in {"restarts", "td", "gaveUp"}
        /\ stage' = [stage EXCEPT ![who] = "stopped"]
    BY <1>1 DEF CleanupRaises, Stop, AttemptFails
  <2>2. ASSUME NEW r \in Runners, stage'[r] = "completed", Suite.identity
        PROVE  Equipped(r)'
    <3>1. Equipped(r)
      BY <1>t, <2>1, <2>2 DEF Identified, RunnerTypes
    <3> QED
      BY <1>n, <2>1, <3>1 DEF Equipped, Stays, HasIdentity
  <2> QED
    BY <2>1, <2>2, SameSuite DEF Identified
<1>2. CASE /\ \/ Skip(who, k) \/ DeleteAccepted(who, k)
              \/ DeleteDone(who, k) \/ DeleteSwallowed(who, k)
           /\ stage' = stage
  <2>1. /\ \/ live' = live
           \/ k = "grant" /\ live' = live \ {Name(who, k)}
        /\ dying \subseteq dying' /\ dying' \subseteq dying \cup {Name(who, k)}
        /\ tainted \subseteq tainted'
    BY <1>2 DEF Skip, DeleteAccepted, DeleteDone, DeleteSwallowed
  <2>2. \/ /\ UNCHANGED <<phase, step, held>>
        \/ /\ phase' = "cleanup" /\ step' = step + 1
           /\ held' = [held EXCEPT ![who] =
                         @ \ ({k} \cup IF k = "pm" THEN {"pmName"} ELSE {})]
        \/ /\ phase' = "cleanup" /\ step' = step + 1 /\ held' = held
           /\ ~Deletes(who, k)
    BY <1>2, MoveCases
  <2>3. ToCome(s, "dep") => k \notin {"grant", "sa"}
    <3>1. ASSUME NEW j \in step..Len(s), k \in {"grant", "sa"}
          PROVE  s[j] # "dep"
      BY <1>0, <3>1, CleanupStepsAre
    <3> QED
      BY <3>1 DEF ToCome
  <2>4. ASSUME NEW r \in Runners, Equipped(r) PROVE Equipped(r)'
    <3>1. Stays(r)' => Stays(r)
      BY <1>n, <2>1 DEF Stays
    <3>2. SUFFICES ASSUME Stays(r)'
                   PROVE  /\ HasIdentity(r)'
                          /\ who = r => ToCome(CleanupSteps(r), "dep")'
      BY <1>0 DEF Equipped
    <3>3. Stays(r) /\ HasIdentity(r) /\ (who = r => ToCome(s, "dep"))
      BY <1>0, <2>4, <3>1, <3>2 DEF Equipped
    <3>4. ~(r = who /\ k \in {"grant", "sa"})
      BY <2>3, <3>3
    <3>5. Name(r, "grant")' \in live' /\ Name(r, "sa")' \in live' \ dying'
      BY <1>n, <2>1, <3>3, <3>4, NameFacts DEF HasIdentity
    <3>6. r = who /\ k = "dep" => UNCHANGED <<step, held>>
      <4> SUFFICES ASSUME r = who, k = "dep" PROVE UNCHANGED <<step, held>>
        OBVIOUS
      <4>1. /\ Name(r, "dep") \in live' \ tainted'
            /\ Name(r, "dep") \notin dying'
        BY <1>n, <3>2 DEF Stays
      <4>2. DeleteAccepted(who, k)
        <5>1. Deletes(who, k)
          BY <3>3 DEF Deletes, IsHeld, HasIdentity
        <5> QED
          BY <1>2, <4>1, <5>1 DEF Skip, DeleteDone, DeleteSwallowed
      <4> QED
        BY <4>1, <4>2 DEF DeleteAccepted
    <3>7. "dep" \in held'[r]
      BY <1>0, <1>t, <2>2, <3>3, <3>6 DEF HasIdentity, RunnerTypes
    <3>8. ASSUME who = r PROVE ToCome(CleanupSteps(r), "dep")'
      <4>1. CASE step' = step
        BY <3>3, <3>8, <4>1, SameSuite DEF ToCome
      <4>2. CASE step' = step + 1 /\ k # "dep"
        <5>1. \E i \in step'..Len(s) : s[i] = "dep"
          BY <1>0, <3>3, <3>8, <4>2, StillToCome
        <5> QED
          BY <3>8, <5>1, SameSuite DEF ToCome
      <4> QED
        BY <2>2, <3>6, <3>8, <4>1, <4>2
    <3> QED
      BY <3>5, <3>7, <3>8 DEF HasIdentity
  <2>5. phase' = "cleanup"
    BY <1>0, <2>2
  <2> QED
    BY <1>2, <2>4, <2>5, SameSuite DEF Identified
<1> QED
  BY <1>1, <1>2 DEF CleanupStep

\* No runner has been started.
LEMMA InitIdentified == Init => Identified
<1> SUFFICES ASSUME Init PROVE Identified
  OBVIOUS
<1>1. phase = "test" /\ \A r \in Runners : stage[r] = "new"
  BY DEF Init
<1> QED
  BY <1>1 DEF Identified

\* Identified is inductive.
LEMMA NextIdentified == Basics /\ Identified /\ [Next]_vars => Identified'
<1> SUFFICES ASSUME Basics, Identified, [Next]_vars PROVE Identified'
  OBVIOUS
<1>1. CASE Next
  BY Zenon, <1>1, StepCases, GoneIdentified, RunIdentified, RunStepIdentified,
    StillIdentified, CleanupStepIdentified
<1>2. CASE UNCHANGED vars
  <2>1. UNCHANGED <<suite, live, dying, tainted, held, stage, phase, who, step>>
    BY <1>2 DEF vars, runner, control
  <2>2. /\ Suite' = Suite /\ Runners' = Runners
        /\ \A r, k : Name(r, k)' = Name(r, k)
    BY <2>1, SameSuite
  <2>3. /\ \A r, k : ToCome(CleanupSteps(r), k) => ToCome(CleanupSteps(r), k)'
        /\ \A k : ToCome(RunSteps(who), k)' <=> ToCome(RunSteps(who), k)
    BY <2>1, SameSuite DEF ToCome
  <2>4. \A r : Equipped(r) => Equipped(r)'
    BY <2>1, <2>2, <2>3 DEF Equipped, Stays, HasIdentity
  <2>5. RunProgress => RunProgress'
    BY <2>1, <2>2, <2>3, <2>4 DEF RunProgress
  <2> QED
    BY <2>1, <2>2, <2>4, <2>5 DEF Identified
<1> QED
  BY <1>1, <1>2

\* A workload keeps the identity it was started with until its own deployment
\* is being deleted (the order of the steps of run and cleanup of the runners).
THEOREM IdentitiesOutliveWorkloads == Spec => []IdentityOutlivesWorkload
<1>1. Init => Basics /\ Identified
  BY InitBasics, InitIdentified
<1>2. Basics /\ Identified /\ [Next]_vars => (Basics /\ Identified)'
  BY NextBasics, NextIdentified
<1> QED
  BY <1>1, <1>2, IdentifiedSuffices, PTL DEF Spec

-------------------------------------------------------------------------------
(* Cleanup by force *)

\* What a run, or a GAMMA test, makes for a runner.
Made(r, k) ==
  /\ k \in Policies \cup {"front", "route"} => Args(r).kind = "gamma"
  /\ k = "svc" => Args(r).kind # "client"
  /\ k \in {"grant", "sa"} => Suite.identity

\* All there is was made for a runner, and the name of a PodMonitoring is known
\* until it was deleted or a request about it failed.
AllKnown ==
  /\ \A o \in live :
       \E r \in Runners, k \in Named : Made(r, k) /\ o = Name(r, k)
  /\ \A r \in Runners :
       LET o == Name(r, "pm")
       IN  o \in live =>
             "pmName" \in held[r] \/ IsDying(o) \/ o \in tainted

\* This pass of cleanup() has dealt with it.
Settled(o) == IsDying(o) \/ o \in refused \/ (o[2] = "pm" /\ o \in tainted)

\* This pass has still to come to it, and deletes it by force.
Due(r, k) ==
  /\ Forced(r, k)
  /\ \/ r = who /\ ToCome(CleanupSteps(who), k)
     \/ /\ k \in Steps(CleanupSteps(r))
        /\ \E i \in (pos + 1)..Len(Suite.cleanup) : Suite.cleanup[i] = r

InPass == phase = "cleanup" /\ pos > 0 /\ force

Sweeping ==
  InPass =>
    \A o \in live :
      Settled(o) \/ \E r \in Runners, k \in Named : o = Name(r, k) /\ Due(r, k)

Swept == AllKnown /\ Sweeping /\ ForcedCleanupRemoves

\* What a step may do to the objects and their names.
LEMMA StillKnown ==
  ASSUME suite' = suite, AllKnown,
         \A o \in live' \ live :
           \E r \in Runners, k \in Named :
             /\ Made(r, k) /\ o = Name(r, k)
             /\ k = "pm" => "pmName" \in held'[r],
         \A o \in live' : IsDying(o) => IsDying(o)',
         tainted \subseteq tainted',
         \A r \in Runners :
           "pmName" \in held[r] =>
             \/ "pmName" \in held'[r] \/ Name(r, "pm") \notin live'
             \/ IsDying(Name(r, "pm"))' \/ Name(r, "pm") \in tainted'
  PROVE  AllKnown'
<1>n. \A r, k : Name(r, k)' = Name(r, k)
  BY SameSuite
<1>m. \A r, k : Made(r, k)' = Made(r, k)
  BY SameSuite DEF Made
<1>1. \A o \in live' :
        \E r \in Runners, k \in Named : Made(r, k) /\ o = Name(r, k)
  BY DEF AllKnown
<1>2. ASSUME NEW r \in Runners, Name(r, "pm") \in live'
      PROVE  \/ "pmName" \in held'[r] \/ IsDying(Name(r, "pm"))'
             \/ Name(r, "pm") \in tainted'
  <2>1. CASE Name(r, "pm") \in live
    BY <1>2, <1>n, <2>1 DEF AllKnown, IsDying
  <2>2. CASE Name(r, "pm") \notin live
    <3>1. PICK q \in Runners, k \in Named :
            /\ Name(r, "pm") = Name(q, k)
            /\ k = "pm" => "pmName" \in held'[q]
      BY <1>2, <2>2
    <3> QED
      BY <3>1, NameFacts
  <2> QED
    BY <2>1, <2>2
<1> QED
  BY <1>1, <1>2, <1>m, <1>n, SameSuite DEF AllKnown

\* The cluster takes what is dying.
LEMMA GoneDying ==
  ASSUME NEW o \in dying, Gone(o)
  PROVE  /\ live' \subseteq live
         /\ \A x \in live' : IsDying(x) => IsDying(x)'
<1>1. /\ live' = live \ ({o} \cup {x \in live : Inside(x) /\ NsOf(x) = o})
      /\ dying' = dying \ ({o} \cup {x \in live : Inside(x) /\ NsOf(x) = o})
  BY DEF Gone
<1>2. ASSUME NEW x \in live', x \in dying PROVE x \in dying'
  BY <1>1, <1>2
<1>3. ASSUME NEW x \in live', Inside(x), NsOf(x) \in dying
      PROVE  NsOf(x) \in dying'
  <2>1. NsOf(x) # o
    BY <1>1, <1>3
  <2>2. ~Inside(NsOf(x))
    BY DEF Inside, NsOf
  <2> QED
    BY <1>1, <1>3, <2>1, <2>2
<1> QED
  BY <1>1, <1>2, <1>3 DEF IsDying

\* A request of a run makes what its suite makes.
LEMMA RequestKnown ==
  ASSUME Basics, phase = "run", step \in 1..Len(RunSteps(who)),
         NEW k, k = RunSteps(who)[step],
         live' \in {live} \cup IF k \in Kinds /\ CanCreate(who, k)
                               THEN {live \cup {Name(who, k)}} ELSE {},
         RunCreates(who, k) \/ RunWaits(who, k) \/ Requested(who, k)
  PROVE  /\ \A o \in live' \ live :
              \E r \in Runners, l \in Named :
                /\ Made(r, l) /\ o = Name(r, l)
                /\ l = "pm" => "pmName" \in held'[r]
         /\ \A r \in Runners : held[r] \subseteq held'[r]
<1>t. RunnerTypes /\ who \in Runners
  BY TypeParts DEF Basics, Positions
<1>1. /\ k \in Kinds => k \in Named
      /\ Made(who, k)
  BY RunStepsAre DEF Made, Named, Kinds, NotReset, Policies
<1>2. /\ \A r \in Runners : held[r] \subseteq held'[r]
      /\ k = "pm" => "pmName" \in held'[who]
  <2>1. CASE RunCreates(who, k)
    BY <1>t, <2>1 DEF RunCreates, RunnerTypes
  <2>2. CASE RunWaits(who, k)
    BY <2>2 DEF RunWaits, Kinds, NotReset
  <2>3. CASE Requested(who, k)
    BY <1>t, <2>3 DEF Requested, RunnerTypes
  <2> QED
    BY <2>1, <2>2, <2>3
<1> QED
  BY <1>1, <1>2, <1>t

\* Steps of the test, of runs and of Ctrl-C.
LEMMA TestKnown ==
  ASSUME Basics, AllKnown, suite' = suite,
         \/ RunStep \/ Interrupt \/ \E r \in Runners : Run(r)
         \/ \E r \in Runners, k \in Policies :
              CreatePolicy(r, k) \/ PolicyFails(r, k)
  PROVE  AllKnown'
<1>t. RunnerTypes /\ ControlTypes /\ suite \in DOMAIN Suites
  BY TypeParts DEF Basics
<1>d. /\ dying' = dying /\ tainted \subseteq tainted'
      /\ \A o : IsDying(o) => IsDying(o)'
  <2>1. dying' = dying /\ tainted \subseteq tainted'
    BY PolicyFailsFacts
    DEF RunStep, RunRaises, RequestFails, Interrupt, Run, CreatePolicy
  <2> QED
    BY <2>1 DEF IsDying
<1> DEFINE k == RunSteps(who)[step]
<1>1. CASE UNCHANGED <<live, held>>
  BY <1>1, <1>d, StillKnown
<1>2. CASE /\ phase = "run" /\ step <= Len(RunSteps(who))
           /\ live' \in {live} \cup IF k \in Kinds /\ CanCreate(who, k)
                                    THEN {live \cup {Name(who, k)}} ELSE {}
           /\ RunCreates(who, k) \/ RunWaits(who, k) \/ Requested(who, k)
  <2>1. step \in 1..Len(RunSteps(who))
    <3>1. Len(RunSteps(who)) \in Nat /\ step \in Nat \ {0}
      BY <1>t, RunCovers, LenProperties DEF ControlTypes
    <3> QED
      BY <1>2, <3>1
  <2> HIDE DEF k
  <2>2. k = RunSteps(who)[step]
    BY DEF k
  <2>3. /\ \A o \in live' \ live :
             \E r \in Runners, l \in Named :
               /\ Made(r, l) /\ o = Name(r, l)
               /\ l = "pm" => "pmName" \in held'[r]
        /\ \A r \in Runners : held[r] \subseteq held'[r]
    BY <1>2, <2>1, <2>2, RequestKnown
  <2> QED
    BY <1>d, <2>3, StillKnown
<1>3. CASE RunStep
  <2>1. \/ RunCreates(who, k) \/ RunWaits(who, k) \/ RunRaises(who, k)
        \/ UNCHANGED <<live, held>>
    BY <1>3 DEF RunStep
  <2>2. CASE RunCreates(who, k) \/ RunWaits(who, k) \/ RunRaises(who, k)
    <3>1. phase = "run"
      BY <1>3 DEF RunStep
    <3>2. step <= Len(RunSteps(who)) \/ UNCHANGED <<live, held>>
      BY <1>3, <1>t, RunCovers, LenProperties DEF RunStep, ControlTypes
    <3>3. live' \in {live} \cup IF k \in Kinds /\ CanCreate(who, k)
                                THEN {live \cup {Name(who, k)}} ELSE {}
      BY <2>2 DEF RunCreates, RunWaits, RunRaises, RequestFails
    <3> QED
      BY <1>1, <1>2, <2>2, <3>1, <3>2, <3>3 DEF RunRaises
  <2> QED
    BY <1>1, <2>1, <2>2
<1>p. ASSUME NEW r \in Runners, NEW p \in Policies, Args(r).kind = "gamma",
             live' \in {live, live \cup {Name(r, p)}},
             \A q \in Runners : held[q] \subseteq held'[q]
      PROVE  AllKnown'
  <2>1. Made(r, p) /\ p \in Named /\ p # "pm"
    BY <1>p DEF Made, Named, Kinds, NotReset, Policies
  <2> QED
    BY <1>d, <1>p, <2>1, StillKnown
<1>4. CASE Interrupt
  <2>1. CASE phase = "run" /\ step <= Len(RunSteps(who))
    BY <1>2, <1>4, <2>1 DEF Interrupt
  <2>2. CASE ~(phase = "run" /\ step <= Len(RunSteps(who)))
    <3>1. /\ held' = held
          /\ \/ live' = live
             \/ \E r \in Runners, p \in Policies :
                  Args(r).kind = "gamma" /\ live' = live \cup {Name(r, p)}
      BY <1>4, <2>2 DEF Interrupt, MakesPolicy
    <3> QED
      BY <1>1, <1>p, <3>1
  <2> QED
    BY <2>1, <2>2
<1>5. ASSUME NEW r \in Runners, Run(r) PROVE AllKnown'
  <2>1. live' = live /\ held' \in {held, [held EXCEPT ![r] = @ \cap NotReset]}
    BY <1>5 DEF Run
  <2>2. \A q \in Runners : "pmName" \in held[q] => "pmName" \in held'[q]
    BY <1>t, <2>1 DEF RunnerTypes, NotReset
  <2> QED
    BY <1>d, <2>1, <2>2, StillKnown
<1>6. ASSUME NEW r \in Runners, NEW p \in Policies,
             CreatePolicy(r, p) \/ PolicyFails(r, p)
      PROVE  AllKnown'
  <2>1. CASE CreatePolicy(r, p)
    <3>1. /\ Args(r).kind = "gamma" /\ live' = live \cup {Name(r, p)}
          /\ held' = [held EXCEPT ![r] = @ \cup {p}]
      BY <2>1 DEF CreatePolicy, MakesPolicy
    <3>2. \A q \in Runners : held[q] \subseteq held'[q]
      BY <1>t, <3>1 DEF RunnerTypes
    <3> QED
      BY <1>p, <3>1, <3>2
  <2>2. CASE PolicyFails(r, p)
    BY <1>p, <2>2, PolicyFailsFacts
  <2> QED
    BY <1>6, <2>1, <2>2
<1> QED
  BY <1>3, <1>4, <1>5, <1>6

\* What a step of a cleanup leaves of an object.
LEMMA CleanupLeaves ==
  ASSUME Basics, suite' = suite, phase = "cleanup", who \in Runners,
         NEW k \in Named,
         \/ Skip(who, k) \/ DeleteAccepted(who, k)
         \/ DeleteDone(who, k) \/ DeleteSwallowed(who, k)
  PROVE  /\ dying \subseteq dying' /\ refused \subseteq refused'
         /\ \A r \in Runners : r # who \/ k # "pm" =>
              ("pmName" \in held[r] => "pmName" \in held'[r])
         /\ Deletes(who, k) /\ Name(who, k) \in live' =>
              Name(who, k) \in dying' \cup refused'
         /\ "pmName" \notin held'[who] /\ "pmName" \in held[who] =>
              k = "pm" /\ Deletes(who, k)
<1>t. RunnerTypes
  BY TypeParts DEF Basics
<1>1. dying \subseteq dying' /\ refused \subseteq refused'
  BY DEF Skip, DeleteAccepted, DeleteDone, DeleteSwallowed
<1>2. k # "pmName"
  BY DEF Named
<1>3. /\ \A r \in Runners : r # who \/ k # "pm" =>
           ("pmName" \in held[r] => "pmName" \in held'[r])
      /\ "pmName" \notin held'[who] /\ "pmName" \in held[who] =>
           k = "pm" /\ Deletes(who, k)
  BY <1>2, <1>t, MoveCases DEF RunnerTypes
<1>4. Deletes(who, k) /\ Name(who, k) \in live' =>
        Name(who, k) \in dying' \cup refused'
  BY DEF Skip, DeleteAccepted, DeleteDone, DeleteSwallowed
<1> QED
  BY <1>1, <1>3, <1>4

\* A step of a cleanup that does not raise deals with its object.
LEMMA CleanupMoveSwept ==
  ASSUME Basics, AllKnown, Sweeping, suite' = suite, phase = "cleanup",
         who \in Runners, step \in 1..Len(CleanupSteps(who)),
         NEW k, k = CleanupSteps(who)[step],
         \/ Skip(who, k) \/ DeleteAccepted(who, k)
         \/ DeleteDone(who, k) \/ DeleteSwallowed(who, k),
         UNCHANGED <<pos, who, force>>
  PROVE  AllKnown' /\ Sweeping'
<1>n. \A r, l : Name(r, l)' = Name(r, l)
  BY SameSuite
<1>s. /\ step \in Nat \ {0} /\ k \in Named
      /\ CleanupSteps(who) \in Seq(StepName)
  BY CleanupStepsAre, CleanupCovers
<1>f. /\ phase' = "cleanup" /\ live' \subseteq live
      /\ tainted \subseteq tainted'
      /\ dying \subseteq dying' /\ refused \subseteq refused'
      /\ \A r \in Runners : r # who \/ k # "pm" =>
           ("pmName" \in held[r] => "pmName" \in held'[r])
      /\ Deletes(who, k) /\ Name(who, k) \in live' =>
           Name(who, k) \in dying' \cup refused'
      /\ "pmName" \notin held'[who] /\ "pmName" \in held[who] =>
           k = "pm" /\ Deletes(who, k)
  BY <1>s, CleanupLeaves, CleanupMovesFacts
<1>d. \A o : IsDying(o) => IsDying(o)'
  BY <1>f DEF IsDying
<1>1. AllKnown'
  <2>1. refused' \subseteq tainted'
    BY <1>s, CleanupMovesFacts
  <2>2. ASSUME NEW r \in Runners, "pmName" \in held[r]
        PROVE  \/ "pmName" \in held'[r] \/ Name(r, "pm") \notin live'
               \/ IsDying(Name(r, "pm"))' \/ Name(r, "pm") \in tainted'
    BY <1>f, <1>n, <2>1, <2>2 DEF IsDying
  <2>3. live' \ live = {}
    BY <1>f
  <2> QED
    BY <1>d, <1>f, <2>2, <2>3, StillKnown
<1>2. ASSUME InPass', NEW o \in live', ~Settled(o)'
      PROVE  \E r \in Runners, l \in Named : o = Name(r, l) /\ Due(r, l)'
  <2>1. ~Settled(o)
    BY <1>2, <1>d, <1>f DEF Settled
  <2>2. PICK r \in Runners, l \in Named : o = Name(r, l) /\ Due(r, l)
    BY <1>2, <1>f, <2>1 DEF Sweeping, InPass
  <2>3. CASE r = who /\ l = k
    <3>1. Deletes(who, k)
      BY <2>2, <2>3 DEF Due, Deletes
    <3>2. o \in dying' \cup refused'
      BY <1>f, <1>2, <2>2, <2>3, <3>1
    <3> QED
      BY <1>2, <3>2 DEF Settled, IsDying
  <2>4. CASE r # who \/ l # k
    <3>1. Forced(r, l)'
      <4>1. Forced(r, l)
        BY <2>2 DEF Due
      <4>2. l = "pm" => "pmName" \in held'[r]
        BY <1>f, <2>4, <4>1 DEF Forced
      <4> QED
        BY <4>1, <4>2, SameSuite DEF Forced
    <3>2. r = who /\ ToCome(CleanupSteps(who), l) =>
            \E j \in step'..Len(CleanupSteps(who)) : CleanupSteps(who)[j] = l
      <4>1. step' = step \/ step' = step + 1
        BY MoveCases
      <4> QED
        BY <1>s, <2>4, <4>1, StillToCome DEF ToCome
    <3>3. CleanupSteps(who)' = CleanupSteps(who)
      BY SameSuite
    <3> QED
      BY <2>2, <3>1, <3>2, <3>3, SameSuite DEF Due, ToCome
  <2> QED
    BY <2>3, <2>4
<1>3. Sweeping'
  BY <1>2, <1>n, SameSuite DEF Sweeping
<1> QED
  BY <1>1, <1>3

\* The next cleanup begins, and the last one leaves nothing to do.
LEMMA CleanupReturnsSwept ==
  ASSUME Basics, AllKnown, Sweeping, suite' = suite, CleanupReturns
  PROVE  Swept'
<1>t. ControlTypes /\ suite \in DOMAIN Suites /\ who \in Runners
  BY TypeParts DEF Basics, Positions, CleanupReturns
<1>n. \A r, l : Name(r, l)' = Name(r, l)
  BY SameSuite
<1>0. /\ phase = "cleanup" /\ step > Len(CleanupSteps(who))
      /\ UNCHANGED <<live, dying, held, force, tainted, refused>>
  BY DEF CleanupReturns
<1>1. AllKnown'
  BY <1>0, StillKnown DEF IsDying
<1>2. \A k : ~ToCome(CleanupSteps(who), k)
  <2>1. Len(CleanupSteps(who)) \in Nat /\ step \in Nat
    BY <1>t, CleanupCovers, LenProperties DEF ControlTypes
  <2> QED
    BY <1>0, <2>1 DEF ToCome
<1>3. /\ Len(Suite.cleanup) \in Nat \ {0} /\ pos \in 0..Len(Suite.cleanup)
  BY <1>t, SuiteFacts DEF ControlTypes
<1>4. CASE pos = 0
  <2>1. phase' = "test"
    BY <1>4 DEF CleanupReturns, Goto
  <2> QED
    BY <1>1, <2>1 DEF Swept, Sweeping, InPass, ForcedCleanupRemoves
<1>5. CASE pos > 0 /\ pos < Len(Suite.cleanup)
  <2>1. /\ phase' = "cleanup" /\ step' = 1 /\ pos' = pos + 1
        /\ who' = Suite.cleanup[pos + 1]
    BY <1>5 DEF CleanupReturns, Goto
  <2>2. ASSUME InPass', NEW o \in live', ~Settled(o)'
        PROVE  \E r \in Runners, l \in Named : o = Name(r, l) /\ Due(r, l)'
    <3>1. PICK r \in Runners, l \in Named : o = Name(r, l) /\ Due(r, l)
      BY <1>0, <1>5, <2>2 DEF Sweeping, InPass, Settled, IsDying
    <3>2. /\ l \in Steps(CleanupSteps(r))
          /\ \E i \in (pos + 1)..Len(Suite.cleanup) : Suite.cleanup[i] = r
      BY <1>2, <3>1 DEF Due
    <3>3. Forced(r, l)'
      BY <1>0, <1>3, <1>5, <2>1, <3>1, SameSuite DEF Due, Forced
    <3>4. PICK i \in (pos + 1)..Len(Suite.cleanup) : Suite.cleanup[i] = r
      BY <3>2
    <3>5. CASE i = pos + 1
      <4>1. \E j \in step'..Len(CleanupSteps(r)) : CleanupSteps(r)[j] = l
        BY <2>1, <3>2, AllToCome
      <4>2. CleanupSteps(who)' = CleanupSteps(r) /\ who' = r
        BY <2>1, <3>4, <3>5, SameSuite
      <4> QED
        BY <3>1, <3>3, <4>1, <4>2 DEF Due, ToCome
    <3>6. CASE i # pos + 1
      <4>1. i \in (pos' + 1)..Len(Suite.cleanup)
        BY <1>3, <2>1, <3>6
      <4> QED
        BY <3>1, <3>2, <3>3, <3>4, <4>1, SameSuite DEF Due
    <3> QED
      BY <3>5, <3>6
  <2>3. Sweeping'
    BY <1>n, <2>2, SameSuite DEF Sweeping
  <2> QED
    BY <1>1, <2>1, <2>3 DEF Swept, ForcedCleanupRemoves
<1>6. CASE pos > 0 /\ ~(pos < Len(Suite.cleanup))
  <2>1. phase' = "done"
    BY <1>6 DEF CleanupReturns, Goto
  <2>2. ASSUME force, NEW o \in live PROVE Settled(o)
    <3>1. \A r, k : ~Due(r, k)
      BY <1>2, <1>3, <1>6 DEF Due
    <3> QED
      BY <1>0, <1>6, <2>2, <3>1 DEF Sweeping, InPass
  <2>3. ForcedCleanupRemoves'
    BY <1>0, <2>2 DEF ForcedCleanupRemoves, Settled, IsDying
  <2> QED
    BY <1>1, <2>1, <2>3 DEF Swept, Sweeping, InPass
<1> QED
  BY <1>3, <1>4, <1>5, <1>6

\* At the start of a pass everything is still to come.
LEMMA OnwardSwept ==
  ASSUME Basics, AllKnown, suite' = suite, Onward
  PROVE  Swept'
<1>t. ControlTypes /\ suite \in DOMAIN Suites
  BY TypeParts DEF Basics
<1>n. \A r, l : Name(r, l)' = Name(r, l)
  BY SameSuite
<1>0. UNCHANGED <<live, dying, held>> /\ tainted' = tainted
  BY OnwardFacts
<1>1. AllKnown'
  BY <1>0, StillKnown DEF IsDying
<1>2. ForcedCleanupRemoves'
  BY OnwardFacts DEF ForcedCleanupRemoves
<1>3. CASE /\ phase' = "cleanup" /\ pos' = 1 /\ step' = 1
           /\ who' = Suite.cleanup[1]
  <2>1. ASSUME InPass', NEW r \in Runners, NEW k \in Steps(CleanupSteps(r)),
               Forced(r, k)'
        PROVE  Due(r, k)'
    <3>1. PICK i \in 1..Len(Suite.cleanup) : Suite.cleanup[i] = r
      BY <1>t, SuiteFacts
    <3>2. CASE i = 1
      <4>1. \E j \in step'..Len(CleanupSteps(r)) : CleanupSteps(r)[j] = k
        BY <1>3, AllToCome
      <4>2. CleanupSteps(who)' = CleanupSteps(r) /\ who' = r
        BY <1>3, <3>1, <3>2, SameSuite
      <4> QED
        BY <2>1, <4>1, <4>2 DEF Due, ToCome
    <3>3. CASE i # 1
      <4>1. i \in (pos' + 1)..Len(Suite.cleanup)
        BY <1>3, <1>t, <3>3, SuiteFacts
      <4> QED
        BY <2>1, <3>1, <4>1, SameSuite DEF Due
    <3> QED
      BY <3>2, <3>3
  <2>2. ASSUME InPass', NEW o \in live', ~Settled(o)'
        PROVE  \E r \in Runners, l \in Named : o = Name(r, l) /\ Due(r, l)'
    <3>1. PICK r \in Runners, k \in Named : Made(r, k) /\ o = Name(r, k)
      BY <1>0, <2>2 DEF AllKnown
    <3>2. k \in Steps(CleanupSteps(r))
      BY <1>t, <3>1, CleanupCovers, SuiteFacts
      DEF Made, Named, Kinds, NotReset, Policies
    <3>3. CASE k = "ns"
      <4>1. PICK q \in Runners :
              Args(q).ns = Args(r).ns /\ Args(q).forceNamespace
        BY <1>t, SuiteFacts
      <4>2. o = Name(q, "ns")
        BY <3>1, <3>3, <4>1 DEF Name
      <4>3. /\ Forced(q, "ns")' /\ "ns" \in Steps(CleanupSteps(q))
            /\ "ns" \in Named
        BY <2>2, <4>1, SameSuite, CleanupCovers
        DEF Forced, InPass, Named, Kinds
      <4> QED
        BY <2>1, <2>2, <4>2, <4>3
    <3>4. CASE k # "ns"
      <4>1. k = "pm" => "pmName" \in held[r]
        BY <1>0, <2>2, <3>1, NameFacts DEF AllKnown, Settled, IsDying
      <4>2. Forced(r, k)'
        BY <1>0, <2>2, <3>1, <3>4, <4>1, SameSuite DEF Forced, InPass, Made
      <4> QED
        BY <2>1, <2>2, <3>1, <3>2, <4>2
    <3> QED
      BY <3>3, <3>4
  <2>3. Sweeping'
    BY <1>n, <2>2, SameSuite DEF Sweeping
  <2> QED
    BY <1>1, <1>2, <2>3 DEF Swept
<1>4. CASE ~InPass'
  BY <1>1, <1>2, <1>4 DEF Swept, Sweeping
<1>5. \/ phase' = "cleanup" /\ pos' = 1 /\ step' = 1 /\ who' = Suite.cleanup[1]
      \/ ~InPass'
  <2>1. \/ phase' = "cleanup" /\ phase = "test" /\ pos' = pos
        \/ phase' = "cleanup" /\ pos' = 1 /\ step' = 1
             /\ who' = Suite.cleanup[1]
        \/ phase' \in {"restarts", "td", "skipped", "gaveUp", "orphaned"}
    BY Zenon, OnwardFacts
  <2>2. phase = "test" => pos = 0
    BY DEF Basics, Positions
  <2>3. InPass' => phase' = "cleanup" /\ pos' > 0
    BY DEF InPass
  <2> QED
    BY <2>1, <2>2, <2>3
<1> QED
  BY <1>3, <1>4, <1>5

\* A step of a cleanup.
LEMMA CleanupStepSwept ==
  ASSUME Basics, Swept, suite' = suite, CleanupStep
  PROVE  Swept'
<1> DEFINE k == CleanupSteps(who)[step]
<1>t. ControlTypes /\ who \in Runners /\ phase = "cleanup"
  BY TypeParts DEF Basics, Positions, CleanupStep
<1>0. step \in 1..Len(CleanupSteps(who))
  BY <1>t, CleanupCovers, LenProperties DEF CleanupStep, ControlTypes
<1>1. CASE \/ Skip(who, k) \/ DeleteAccepted(who, k)
           \/ DeleteDone(who, k) \/ DeleteSwallowed(who, k)
  <2>1. UNCHANGED <<pos, who, force>>
    BY DEF CleanupStep
  <2> HIDE DEF k
  <2>2. k = CleanupSteps(who)[step]
    BY DEF k
  <2>3. AllKnown' /\ Sweeping'
    BY <1>0, <1>1, <1>t, <2>1, <2>2, CleanupMoveSwept DEF Swept
  <2>4. phase' = "cleanup"
    BY <1>1, <1>t, MoveCases
  <2> QED
    BY <2>3, <2>4 DEF Swept, ForcedCleanupRemoves
<1>2. CASE CleanupRaises(who, k)
  <2>1. UNCHANGED <<live, dying, held, tainted>>
        /\ phase' \in {"restarts", "td", "gaveUp"}
    BY <1>2 DEF CleanupRaises, AttemptFails
  <2>2. AllKnown'
    BY <2>1, StillKnown DEF Swept, IsDying
  <2> QED
    BY <2>1, <2>2 DEF Swept, Sweeping, InPass, ForcedCleanupRemoves
<1> QED
  BY <1>1, <1>2 DEF CleanupStep

\* What is known, and what is still to come, stays so in every step.
LEMMA NextSwept == Basics /\ Swept /\ [Next]_vars => Swept'
<1> SUFFICES ASSUME Basics, Swept, [Next]_vars PROVE Swept'
  OBVIOUS
<1>s. suite' = suite
  BY StepCases DEF vars
<1>n. \A r, l : Name(r, l)' = Name(r, l)
  BY <1>s, SameSuite
<1>1. ASSUME UNCHANGED <<held, phase, pos, who, step, force, tainted, refused>>,
             live' \subseteq live, \A x \in live' : IsDying(x) => IsDying(x)'
      PROVE  Swept'
  <2>1. AllKnown'
    BY <1>1, <1>s, StillKnown DEF Swept
  <2>2. \A o \in live' : Settled(o) => Settled(o)'
    BY <1>1 DEF Settled
  <2>3. \A r, k : Due(r, k)' <=> Due(r, k)
    BY <1>1, <1>s, SameSuite DEF Due, Forced, ToCome
  <2>4. Sweeping'
    BY <1>1, <1>n, <1>s, <2>2, <2>3, SameSuite DEF Swept, Sweeping, InPass
  <2>5. ForcedCleanupRemoves'
    BY <1>1, <2>2 DEF Swept, ForcedCleanupRemoves, Settled
  <2> QED
    BY <2>1, <2>4, <2>5 DEF Swept
<1>2. ASSUME NEW o \in dying, Gone(o) PROVE Swept'
  BY <1>1, <1>2, GoneDying DEF Gone, runner, control
<1>3. CASE Unwind
  BY <1>1, <1>3 DEF Unwind, Stop, IsDying
<1>4. CASE UNCHANGED vars
  BY <1>1, <1>4 DEF vars, runner, control, IsDying
<1>5. CASE \/ RunStep \/ Interrupt \/ \E r \in Runners : Run(r)
           \/ \E r \in Runners, k \in Policies :
                CreatePolicy(r, k) \/ PolicyFails(r, k)
  <2>1. AllKnown'
    BY <1>5, <1>s, TestKnown DEF Swept
  <2>2. phase' \in {"run", "test", "restarts", "interrupted"}
    BY <1>5, PolicyFailsFacts
    DEF RunStep, RunRaises, RequestFails, Interrupt, Run, CreatePolicy,
      MakesPolicy, control, Goto
  <2> QED
    BY <2>1, <2>2 DEF Swept, Sweeping, InPass, ForcedCleanupRemoves
<1>6. CASE CleanupReturns \/ Onward
  BY <1>6, <1>s, CleanupReturnsSwept, OnwardSwept DEF Swept
<1> QED
  BY Zenon, <1>2, <1>3, <1>4, <1>5, <1>6, <1>s, StepCases, CleanupStepSwept

\* At first there are only namespaces.
LEMMA InitSwept == Init => Swept
<1> SUFFICES ASSUME Init PROVE Swept
  OBVIOUS
<1>1. /\ suite \in DOMAIN Suites /\ live = Suite.leftovers /\ phase = "test"
  BY DEF Init
<1>2. ASSUME NEW o \in live
      PROVE  \E r \in Runners, k \in Named :
               Made(r, k) /\ o = Name(r, k) /\ k = "ns"
  BY <1>1, SuiteFacts DEF Made, Policies, Named, Kinds
<1>3. \A r \in Runners : Name(r, "pm") \notin live
  BY <1>2, NameFacts
<1>4. AllKnown
  BY <1>2, <1>3 DEF AllKnown
<1> QED
  BY <1>1, <1>4 DEF Swept, Sweeping, InPass, ForcedCleanupRemoves

\* With force, everything a test interrupted or failed to create is deleted by
\* name in a pass of cleanup() that comes to its end, whatever the runners
\* remember of it (cleanup of the runners with force).
THEOREM ForceIsComplete == Spec => []ForcedCleanupRemoves
<1>1. Init => Basics /\ Swept
  BY InitBasics, InitSwept
<1>2. Basics /\ Swept /\ [Next]_vars => (Basics /\ Swept)'
  BY NextBasics, NextSwept
<1>3. Swept => ForcedCleanupRemoves
  BY DEF Swept
<1> QED
  BY <1>1, <1>2, <1>3, PTL DEF Spec

-------------------------------------------------------------------------------
(* The history of the runs *)

Entries(r) == {history[r][i] : i \in DOMAIN history[r]}

\* Nothing is recorded but what was deployed.  Only the run at hand, the last
\* one, may be missing or be recorded more than once.
Chronicle(r) ==
  /\ Entries(r) \subseteq deployed[r]
  /\ deployed[r] \ Entries(r) \subseteq {id[r]}
  /\ \A d \in deployed[r] : d <= runs[r] /\ (id[r] # 0 => d <= id[r])
  /\ id[r] # 0 => id[r] \in deployed[r]
  /\ stage[r] \in {"new", "stopped"} => deployed[r] = Entries(r)
  /\ \A i, j \in DOMAIN history[r] :
       i < j => \/ history[r][i] < history[r][j]
                \/ history[r][i] = id[r] /\ history[r][j] = id[r]

\* While the test goes on the run at hand is recorded only once it is stopped.
Unrepeated(r) ==
  /\ id[r] \in {0, runs[r]}
  /\ \A i, j \in DOMAIN history[r] : i < j => history[r][i] < history[r][j]
  /\ stage[r] # "stopped" => \A e \in Entries(r) : e < runs[r]

\* The runners that tearDown has cleaned up are stopped.
Histories ==
  /\ \A r \in Runners : Chronicle(r)
  /\ TestGoesOn => \A r \in Runners : Unrepeated(r)
  /\ phase = "cleanup" /\ pos = 0 => stage[who] = "completed"
  /\ phase = "cleanup" =>
       \A j \in 1..(pos - 1) : stage[Suite.cleanup[j]] = "stopped"
  /\ phase = "done" => \A r \in Runners : stage[r] = "stopped"

\* The numbers of the runs.
LEMMA RunNumbers ==
  ASSUME Basics, NEW r \in Runners
  PROVE  /\ runs[r] \in Nat /\ id[r] \in Nat /\ id[r] <= runs[r]
         /\ history[r] \in Seq(1..Suite.maxRuns) /\ Suite.maxRuns \in Nat
         /\ id[r] \in 0..Suite.maxRuns
         /\ deployed[r] \subseteq 1..Suite.maxRuns
         /\ \A e \in Entries(r) : e \in Nat
         /\ \A i \in DOMAIN history[r] : history[r][i] \in Nat
<1>t. RunnerTypes /\ HistoryTypes /\ suite \in DOMAIN Suites
  BY TypeParts DEF Basics
<1>1. /\ runs[r] \in 0..Suite.maxRuns /\ id[r] \in 0..Suite.maxRuns
      /\ id[r] <= runs[r] /\ Suite.maxRuns \in Nat
  BY <1>t, SuiteFacts DEF RunnerTypes
<1>2. /\ history[r] \in Seq(1..Suite.maxRuns)
      /\ deployed[r] \subseteq 1..Suite.maxRuns
  BY <1>t DEF HistoryTypes
<1>3. \A i \in DOMAIN history[r] : history[r][i] \in 1..Suite.maxRuns
  BY <1>2, ElementOfSeq, LenProperties
<1> QED
  BY <1>1, <1>2, <1>3 DEF Entries

\* What a runner has recorded depends on its own fields.
LEMMA SameChronicle ==
  ASSUME NEW r, history'[r] = history[r], id'[r] = id[r],
         deployed'[r] = deployed[r], runs'[r] = runs[r]
  PROVE  /\ Entries(r)' = Entries(r)
         /\ /\ stage'[r] \in {"new", "stopped"} =>
                 stage[r] \in {"new", "stopped"}
            /\ Chronicle(r)
            => Chronicle(r)'
         /\ /\ stage[r] = "stopped" => stage'[r] = "stopped"
            /\ Unrepeated(r)
            => Unrepeated(r)'
BY DEF Entries, Chronicle, Unrepeated

\* The end of a cleanup records the run.
LEMMA StopRecords ==
  ASSUME Basics, \A q \in Runners : Chronicle(q), NEW r \in Runners, Stop(r),
         UNCHANGED <<id, deployed, runs>>
  PROVE  /\ \A q \in Runners : Chronicle(q)'
         /\ stage'[r] = "stopped"
         /\ \A q \in Runners : stage[q] = "stopped" => stage'[q] = "stopped"
         /\ stage[r] # "stopped" /\ (\A q \in Runners : Unrepeated(q)) =>
              \A q \in Runners : Unrepeated(q)'
<1>t. RunnerTypes /\ HistoryTypes
  BY TypeParts DEF Basics
<1>n. /\ runs[r] \in Nat /\ id[r] \in Nat
      /\ history[r] \in Seq(1..Suite.maxRuns) /\ id[r] \in 0..Suite.maxRuns
      /\ deployed[r] \subseteq 1..Suite.maxRuns /\ Suite.maxRuns \in Nat
      /\ \A e \in Entries(r) : e \in Nat
  BY RunNumbers
<1>1. /\ history'[r] = Record(r) /\ stage'[r] = "stopped"
      /\ \A q \in Runners :
           q # r => history'[q] = history[q] /\ stage'[q] = stage[q]
  BY <1>t DEF Stop, HistoryTypes, RunnerTypes
<1>2. ASSUME NEW q \in Runners, q # r
      PROVE  Chronicle(q)' /\ (Unrepeated(q) => Unrepeated(q)')
  BY <1>1, <1>2, SameChronicle
<1>3. CASE id[r] = 0
  <2>1. history'[r] = history[r]
    BY <1>1, <1>3 DEF Record
  <2>2. Entries(r)' = Entries(r) /\ (Unrepeated(r) => Unrepeated(r)')
    BY <1>1, <2>1, SameChronicle
  <2>c. Chronicle(r)
    OBVIOUS
  <2>3. deployed[r] = Entries(r)
    <3>1. /\ Entries(r) \subseteq deployed[r]
          /\ deployed[r] \ Entries(r) \subseteq {0}
      BY <1>3, <2>c DEF Chronicle
    <3>2. 0 \notin deployed[r]
      BY <1>n
    <3> QED
      BY <3>1, <3>2
  <2>4. Chronicle(r)'
    BY <1>3, <2>1, <2>2, <2>3, <2>c DEF Chronicle
  <2> QED
    BY <1>1, <1>2, <2>2, <2>4
<1>4. CASE id[r] # 0
  <2> DEFINE h == history[r]
             n == Len(h)
  <2>1. /\ n \in Nat /\ DOMAIN h = 1..n /\ DOMAIN history'[r] = 1..(n + 1)
        /\ \A i \in 1..n : history'[r][i] = h[i] /\ h[i] \in Nat
        /\ history'[r][n + 1] = id[r]
    <3>1. history'[r] = Append(h, id[r])
      BY <1>1, <1>4 DEF Record
    <3>2. id[r] \in 1..Suite.maxRuns
      BY <1>4, <1>n
    <3> HIDE DEF h
    <3>3. h \in Seq(1..Suite.maxRuns)
      BY <1>n DEF h
    <3> QED
      BY <1>n, <3>1, <3>2, <3>3, AppendProperties, LenProperties, ElementOfSeq
  <2>e. \A i \in 1..n : h[i] \in Entries(r)
    BY <2>1 DEF Entries
  <2> HIDE DEF h, n
  <2>2. Entries(r)' = Entries(r) \cup {id[r]}
    <3>1. Entries(r) = {h[i] : i \in 1..n}
      BY <2>1 DEF Entries, h
    <3>2. Entries(r)' = {history'[r][i] : i \in 1..(n + 1)}
      BY <2>1 DEF Entries
    <3>3. n + 1 \in 1..(n + 1) /\ \A i \in 1..n : i \in 1..(n + 1)
      BY <2>1
    <3>4. \A i \in 1..(n + 1) : i \in 1..n \/ i = n + 1
      BY <2>1
    <3> QED
      BY <2>1, <3>1, <3>2, <3>3, <3>4
  <2>3. \A i \in 1..n : h[i] <= id[r]
    BY <1>4, <2>e DEF Chronicle
  <2>4. ASSUME NEW i \in 1..(n + 1), NEW j \in 1..(n + 1), i < j
        PROVE  /\ \/ history'[r][i] < history'[r][j]
                  \/ history'[r][i] = id[r] /\ history'[r][j] = id[r]
               /\ stage[r] # "stopped" /\ Unrepeated(r) =>
                    history'[r][i] < history'[r][j]
    <3>1. i \in 1..n
      BY <2>1, <2>4
    <3>2. CASE j = n + 1
      <4>1. stage[r] # "stopped" /\ Unrepeated(r) => h[i] < id[r]
        BY <1>4, <2>e, <3>1 DEF Unrepeated
      <4> QED
        BY <1>n, <2>1, <2>3, <3>1, <3>2, <4>1
    <3>3. CASE j \in 1..n
      <4>1. /\ h[i] < h[j] \/ (h[i] = id[r] /\ h[j] = id[r])
            /\ Unrepeated(r) => h[i] < h[j]
        BY <2>1, <2>4, <3>1, <3>3 DEF Chronicle, Unrepeated, h
      <4> QED
        BY <2>1, <3>1, <3>3, <4>1
    <3> QED
      BY <2>1, <3>2, <3>3
  <2>5. deployed[r] = Entries(r)'
    BY <1>4, <2>2 DEF Chronicle
  <2>6. Chronicle(r)'
    BY <2>1, <2>4, <2>5 DEF Chronicle
  <2>7. stage[r] # "stopped" /\ Unrepeated(r) => Unrepeated(r)'
    BY <1>1, <2>1, <2>4 DEF Unrepeated
  <2> QED
    BY <1>1, <1>2, <2>6, <2>7
<1> QED
  BY <1>3, <1>4

\* A run is given its deployment.
LEMMA RunIdentifies ==
  ASSUME Basics, Histories, phase = "run", UNCHANGED <<history, runs>>,
         NEW k, Identifies(who, k) \/ UNCHANGED <<id, deployed>>,
         \/ stage' = stage
         \/ stage' = [stage EXCEPT ![who] = "completed"]
  PROVE  \A q \in Runners : Chronicle(q)' /\ Unrepeated(q)'
<1>t. RunnerTypes /\ HistoryTypes
  BY TypeParts DEF Basics
<1>w. /\ who \in Runners /\ stage[who] \in {"requested", "completed"}
      /\ runs[who] > 0
  BY DEF Basics, Positions
<1>1. /\ \A q \in Runners : Chronicle(q) /\ Unrepeated(q)
      /\ stage'[who] \in {"requested", "completed"}
      /\ \A q \in Runners : q # who => stage'[q] = stage[q]
  BY <1>t, <1>w DEF Histories, TestGoesOn, RunnerTypes
<1>2. ASSUME NEW q \in Runners, id'[q] = id[q], deployed'[q] = deployed[q]
      PROVE  Chronicle(q)' /\ Unrepeated(q)'
  BY <1>1, <1>2, <1>w, SameChronicle
<1>3. CASE UNCHANGED <<id, deployed>>
  BY <1>2, <1>3
<1>4. CASE /\ id' = [id EXCEPT ![who] = runs[who]]
           /\ deployed' = [deployed EXCEPT ![who] = @ \cup {runs[who]}]
  <2>w. PICK w \in Runners : w = who
    BY <1>w
  <2>1. /\ id'[w] = runs[w]
        /\ deployed'[w] = deployed[w] \cup {runs[w]}
        /\ \A q \in Runners :
             q # w => id'[q] = id[q] /\ deployed'[q] = deployed[q]
    BY <1>4, <1>t, <2>w DEF RunnerTypes, HistoryTypes
  <2>2. /\ runs[w] \in Nat /\ deployed[w] \subseteq 1..Suite.maxRuns
        /\ \A d \in deployed[w] : d \in Nat
        /\ Suite.maxRuns \in Nat
    BY <1>w, RunNumbers
  <2>3. Entries(w)' = Entries(w)
    BY DEF Entries
  <2>c. Chronicle(w) /\ Unrepeated(w)
    BY <1>1
  <2>s. /\ stage[w] # "stopped" /\ stage'[w] \notin {"new", "stopped"}
        /\ runs[w] > 0
    BY <1>1, <1>w, <2>w
  <2>4. deployed'[w] \ Entries(w) \subseteq {runs[w]}
    <3>1. deployed[w] \ Entries(w) \subseteq {id[w]}
      BY <2>c DEF Chronicle
    <3>2. id[w] = 0 \/ id[w] = runs[w]
      BY <2>c DEF Unrepeated
    <3>3. 0 \notin deployed[w]
      BY <2>2
    <3> QED
      BY <2>1, <3>1, <3>2, <3>3
  <2>5. \A d \in deployed'[w] : d <= runs[w]
    BY <2>1, <2>2, <2>c DEF Chronicle
  <2>6. Chronicle(w)'
    BY <2>1, <2>2, <2>3, <2>4, <2>5, <2>c, <2>s DEF Chronicle, Unrepeated
  <2>7. Unrepeated(w)'
    BY <2>1, <2>3, <2>c, <2>s DEF Unrepeated
  <2> QED
    BY <1>2, <2>1, <2>6, <2>7
<1> QED
  BY <1>3, <1>4 DEF Identifies

\* A run starts: the run before is recorded.
LEMMA RunChronicles ==
  ASSUME Basics, Histories, suite' = suite, NEW r \in Runners, Run(r)
  PROVE  Histories'
<1>t. RunnerTypes /\ HistoryTypes
  BY TypeParts DEF Basics
<1>1. /\ phase = "test" /\ UNCHANGED <<deployed, history>>
      /\ runs' = [runs EXCEPT ![r] = @ + 1]
      /\ \/ /\ stage[r] \in {"new", "stopped"} /\ phase' = "run"
            /\ stage' = [stage EXCEPT ![r] = "requested"]
            /\ id' = [id EXCEPT ![r] = 0]
         \/ phase' = "restarts" /\ UNCHANGED <<stage, id>>
  BY DEF Run, Starts, Goto
<1>2. \A q \in Runners : Chronicle(q) /\ Unrepeated(q)
  BY <1>1 DEF Histories, TestGoesOn
<1>n. /\ runs[r] \in Nat /\ runs'[r] = runs[r] + 1
      /\ \A d \in deployed[r] : d \in Nat /\ d <= runs[r]
      /\ Entries(r) \subseteq deployed[r]
  <2>1. /\ runs[r] \in Nat /\ deployed[r] \subseteq 1..Suite.maxRuns
        /\ Suite.maxRuns \in Nat
    BY RunNumbers
  <2>2. \A d \in deployed[r] : d \in Nat
    BY <2>1
  <2> QED
    BY <1>1, <1>2, <1>t, <2>1, <2>2 DEF Chronicle, RunnerTypes
<1>e. Entries(r)' = Entries(r)
  BY <1>1 DEF Entries
<1>3. \A q \in Runners : q # r => Chronicle(q)' /\ Unrepeated(q)'
  <2> SUFFICES ASSUME NEW q \in Runners, q # r
               PROVE  Chronicle(q)' /\ Unrepeated(q)'
    OBVIOUS
  <2>1. /\ history'[q] = history[q] /\ id'[q] = id[q] /\ stage'[q] = stage[q]
        /\ deployed'[q] = deployed[q] /\ runs'[q] = runs[q]
    BY <1>1, <1>t DEF RunnerTypes
  <2> QED
    BY <1>2, <2>1, SameChronicle
<1>4. CASE phase' = "run"
  <2>1. /\ stage[r] \in {"new", "stopped"} /\ stage'[r] = "requested"
        /\ id'[r] = 0
    BY <1>1, <1>4, <1>t DEF RunnerTypes
  <2>2. Chronicle(r)'
    BY <1>1, <1>2, <1>e, <1>n, <2>1 DEF Chronicle, Unrepeated
  <2>3. Unrepeated(r)'
    BY <1>1, <1>2, <1>e, <1>n, <2>1 DEF Unrepeated
  <2> QED
    BY <1>3, <1>4, <2>2, <2>3, SameSuite DEF Histories
<1>5. CASE phase' = "restarts"
  <2>1. UNCHANGED <<stage, id>>
    BY <1>1, <1>5
  <2>2. Chronicle(r)'
    BY <1>1, <1>2, <1>e, <1>n, <2>1 DEF Chronicle
  <2> QED
    BY <1>3, <1>5, <2>2, SameSuite DEF Histories, TestGoesOn
<1> QED
  BY <1>1, <1>4, <1>5

\* A step of a cleanup, of tearDown, or of an interrupted cleanup.
LEMMA CleanupHistories ==
  ASSUME Basics, Histories, suite' = suite,
         CleanupStep \/ CleanupReturns \/ Unwind
  PROVE  Histories'
<1>t. RunnerTypes /\ ControlTypes /\ suite \in DOMAIN Suites
  BY TypeParts DEF Basics
<1>c. /\ Len(Suite.cleanup) \in Nat \ {0} /\ pos \in 0..Len(Suite.cleanup)
      /\ \A j \in 1..Len(Suite.cleanup) : Suite.cleanup[j] \in Runners
  BY <1>t, SuiteFacts, ElementOfSeq DEF ControlTypes
<1>h. \A r \in Runners : Chronicle(r)
  BY DEF Histories
<1>1. CASE CleanupStep
  <2> DEFINE k == CleanupSteps(who)[step]
  <2>1. /\ UNCHANGED <<id, deployed, runs, pos, who>>
        /\ phase = "cleanup" /\ who \in Runners
    BY <1>1 DEF CleanupStep, Basics, Positions
  <2>2. CASE /\ \/ Skip(who, k) \/ DeleteAccepted(who, k)
                \/ DeleteDone(who, k) \/ DeleteSwallowed(who, k)
             /\ UNCHANGED <<stage, history>>
    <3>1. phase' = "cleanup"
      BY <2>1, <2>2, MoveCases
    <3>2. \A r \in Runners : Chronicle(r)' /\ (Unrepeated(r) => Unrepeated(r)')
      BY <1>h, <2>1, <2>2, SameChronicle
    <3> QED
      BY <2>1, <2>2, <3>1, <3>2, SameSuite DEF Histories, TestGoesOn
  <2>3. CASE CleanupRaises(who, k)
    <3>1. Stop(who) /\ phase' \in {"restarts", "td", "gaveUp"}
      BY <2>3 DEF CleanupRaises, AttemptFails
    <3>2. \A r \in Runners : Chronicle(r)'
      BY <1>h, <2>1, <3>1, StopRecords
    <3> QED
      BY <3>1, <3>2, SameSuite DEF Histories, TestGoesOn
  <2> QED
    BY <1>1, <2>2, <2>3 DEF CleanupStep
<1>2. CASE CleanupReturns
  <2>1. /\ UNCHANGED <<id, deployed, runs>> /\ phase = "cleanup"
        /\ who \in Runners /\ Stop(who) /\ (pos > 0 => who = Suite.cleanup[pos])
        /\ \/ phase' = "test" /\ pos = 0
           \/ phase' = "cleanup" /\ pos' = pos + 1 /\ pos > 0
           \/ phase' = "done" /\ pos = Len(Suite.cleanup)
    BY <1>2, <1>c DEF CleanupReturns, Goto, Basics, Positions
  <2>w. PICK w \in Runners : w = who
    BY <2>1
  <2>2. /\ \A q \in Runners : Chronicle(q)'
        /\ stage'[w] = "stopped"
        /\ \A q \in Runners : stage[q] = "stopped" => stage'[q] = "stopped"
        /\ stage[w] # "stopped" /\ (\A q \in Runners : Unrepeated(q)) =>
             \A q \in Runners : Unrepeated(q)'
    BY <1>h, <2>1, <2>w, StopRecords
  <2>3. \A j \in 1..pos : stage'[Suite.cleanup[j]] = "stopped"
    <3>1. ASSUME NEW j \in 1..pos PROVE stage'[Suite.cleanup[j]] = "stopped"
      <4>1. CASE j = pos
        <5>1. w = Suite.cleanup[j]
          BY <1>c, <2>1, <2>w, <3>1, <4>1
        <5> QED
          BY <2>2, <5>1
      <4>2. CASE j # pos
        <5>1. j \in 1..(pos - 1) /\ Suite.cleanup[j] \in Runners
          BY <1>c, <3>1, <4>2
        <5>2. stage[Suite.cleanup[j]] = "stopped"
          BY <2>1, <5>1 DEF Histories
        <5> QED
          BY <2>2, <5>1, <5>2
      <4> QED
        BY <4>1, <4>2
    <3> QED
      BY <3>1
  <2>4. CASE phase' = "test" /\ pos = 0
    <3>1. stage[w] # "stopped" /\ \A q \in Runners : Unrepeated(q)
      BY <2>1, <2>4, <2>w DEF Histories, TestGoesOn
    <3> QED
      BY <2>2, <2>4, <3>1, SameSuite DEF Histories
  <2>5. CASE phase' = "cleanup" /\ pos' = pos + 1 /\ pos > 0
    <3>1. pos' # 0 /\ 1..(pos' - 1) = 1..pos
      BY <1>c, <2>5
    <3> QED
      BY <2>2, <2>3, <2>5, <3>1, SameSuite DEF Histories, TestGoesOn
  <2>6. CASE phase' = "done" /\ pos = Len(Suite.cleanup)
    <3>1. ASSUME NEW r \in Runners PROVE stage'[r] = "stopped"
      <4>1. PICK i \in 1..Len(Suite.cleanup) : Suite.cleanup[i] = r
        BY <1>t, SuiteFacts
      <4> QED
        BY <2>3, <2>6, <4>1
    <3> QED
      BY <2>2, <2>6, <3>1, SameSuite DEF Histories, TestGoesOn
  <2> QED
    BY <2>1, <2>4, <2>5, <2>6
<1>3. CASE Unwind
  <2>1. /\ UNCHANGED <<id, deployed, runs, phase>> /\ phase \in Over
        /\ outer \in Runners /\ Stop(outer)
    BY <1>3, <1>t DEF Unwind, ControlTypes
  <2>2. /\ \A q \in Runners : Chronicle(q)'
        /\ \A q \in Runners : stage[q] = "stopped" => stage'[q] = "stopped"
    BY <1>h, <2>1, StopRecords
  <2> QED
    BY <2>1, <2>2, SameSuite DEF Histories, TestGoesOn, Over
<1> QED
  BY <1>1, <1>2, <1>3

\* Histories is inductive.
LEMMA NextHistories == Basics /\ Histories /\ [Next]_vars => Histories'
<1> SUFFICES ASSUME Basics, Histories, [Next]_vars PROVE Histories'
  OBVIOUS
<1>s. suite' = suite
  BY StepCases DEF vars
<1>1. ASSUME UNCHANGED <<stage, id, deployed, runs, history>>
      PROVE  \A r \in Runners :
               Chronicle(r)' /\ (Unrepeated(r) => Unrepeated(r)')
  BY <1>1, SameChronicle DEF Histories
<1>2. ASSUME UNCHANGED <<stage, id, deployed, runs, history>>,
             UNCHANGED <<phase, pos, who>>
      PROVE  Histories'
  BY <1>1, <1>2, <1>s, SameSuite DEF Histories, TestGoesOn
<1>3. CASE \/ \E o \in dying : Gone(o)
           \/ \E r \in Runners, k \in Policies : CreatePolicy(r, k)
           \/ UNCHANGED vars
  BY <1>2, <1>3 DEF Gone, CreatePolicy, vars, runner, control
<1>4. CASE \E r \in Runners, k \in Policies : PolicyFails(r, k)
  <2>1. UNCHANGED <<stage, id, deployed, runs, history>> /\ phase' = "restarts"
    BY <1>4, PolicyFailsFacts
  <2> QED
    BY <1>1, <1>s, <2>1, SameSuite DEF Histories, TestGoesOn
<1>5. CASE RunStep
  <2> DEFINE k == RunSteps(who)[step]
  <2>1. /\ phase = "run" /\ UNCHANGED <<history, runs>>
        /\ phase' \in {"run", "test", "restarts"}
    BY <1>5 DEF RunStep, RunRaises, RequestFails, Goto
  <2>2. /\ Identifies(who, k) \/ UNCHANGED <<id, deployed>>
        /\ stage' = stage \/ stage' = [stage EXCEPT ![who] = "completed"]
    BY <1>5 DEF RunStep, RunCreates, RunWaits, RunRaises, Requested
  <2>3. \A q \in Runners : Chronicle(q)' /\ Unrepeated(q)'
    BY <2>1, <2>2, RunIdentifies
  <2> QED
    BY <1>s, <2>1, <2>3, SameSuite DEF Histories
<1>6. CASE Interrupt
  <2>1. UNCHANGED <<stage, history, runs>> /\ phase' = "interrupted"
    BY <1>6 DEF Interrupt, Goto
  <2>2. \/ phase = "run" /\ Identifies(who, RunSteps(who)[step])
        \/ UNCHANGED <<id, deployed>>
    BY <1>6 DEF Interrupt, Requested
  <2>3. \A q \in Runners : Chronicle(q)'
    BY <1>1, <2>1, <2>2, RunIdentifies
  <2> QED
    BY <1>s, <2>1, <2>3, SameSuite DEF Histories, TestGoesOn
<1>7. CASE Onward
  <2>1. /\ UNCHANGED <<stage, id, deployed, runs, history>>
        /\ \/ /\ phase' = "cleanup" /\ phase = "test" /\ pos' = pos
              /\ stage[who'] = "completed"
           \/ phase' = "cleanup" /\ pos' = 1
           \/ phase' \in {"restarts", "td", "skipped", "gaveUp", "orphaned"}
    BY Zenon, <1>7, OnwardFacts
  <2>2. phase = "test" => pos = 0
    BY DEF Basics, Positions
  <2> QED
    BY <1>1, <1>s, <2>1, <2>2, SameSuite DEF Histories, TestGoesOn
<1> QED
  BY Zenon, <1>3, <1>4, <1>5, <1>6, <1>7, <1>s, StepCases, RunChronicles,
    CleanupHistories

\* Once a runner is stopped, and after tearDown, every one of its runs that was
\* given a deployment is in its history and nothing else is: the earlier runs
\* once and in their order, the last one as often as its cleanup was repeated
\* (_stop, in the finally clause of every cleanup of a runner; _reset_state).
THEOREM HistoriesAreComplete == Spec => []RunsAreRecorded
<1>1. Init => Basics /\ Histories
  <2> SUFFICES ASSUME Init PROVE Histories
    BY InitBasics
  <2>1. /\ \A r \in Runners :
             /\ history[r] = << >> /\ deployed[r] = {} /\ id[r] = 0
             /\ runs[r] = 0 /\ stage[r] = "new"
        /\ phase = "test"
    BY DEF Init
  <2>3. ASSUME NEW r \in Runners
        PROVE  Chronicle(r) /\ Unrepeated(r)
    <3>1. DOMAIN history[r] = {}
      BY <2>1
    <3>2. Entries(r) = {}
      BY <3>1 DEF Entries
    <3>3. Chronicle(r)
      BY <2>1, <3>1, <3>2 DEF Chronicle
    <3>4. Unrepeated(r)
      BY <2>1, <3>1, <3>2 DEF Unrepeated
    <3> QED
      BY <3>3, <3>4
  <2> QED
    BY <2>1, <2>3 DEF Histories
<1>2. Basics /\ Histories /\ [Next]_vars => (Basics /\ Histories)'
  BY NextBasics, NextHistories
<1>3. Histories => RunsAreRecorded
  BY DEF Histories, Chronicle, Entries, RunsAreRecorded
<1> QED
  BY <1>1, <1>2, <1>3, PTL DEF Spec


-------------------------------------------------------------------------------
(* Leaks *)

\* The test itself deletes the namespace.
Restarted(r) ==
  \E p \in Runners :
    /\ Args(p).ns = Args(r).ns
    /\ Args(p).restartable /\ ~Args(p).reuseNamespace

\* The runners start in the order of the test, and it restarts some of them.
Started ==
  /\ phase = "run" =>
       \E i \in 1..Len(Suite.starts) :
         /\ Suite.starts[i] = who
         /\ \A j \in 1..(i - 1) : runs[Suite.starts[j]] > 0
  /\ phase = "cleanup" /\ pos = 0 => Args(who).restartable

\* While the test goes on, the namespaces of those that it started stay.
Namespaces ==
  TestGoesOn =>
    \A r \in Runners :
      ~Restarted(r) =>
        /\ Name(r, "ns") \notin dying
        /\ runs[r] > 0 /\ ~(phase = "run" /\ who = r /\ step = 1) =>
             Name(r, "ns") \in live

\* Why the object may be left behind.
Excused(r, k) ==
  \/ Name(r, k) \in tainted
  \/ k = "grant" /\ Name(r, "sa") \in tainted
  \/ k = "ns" /\ (\A q \in Runners :
                    Args(q).ns = Args(r).ns => Args(q).reuseNamespace)
  \/ k = "svc" /\ Args(r).reuseService

\* A cleanup under way has still to come to it, or a later one of this pass.
Comes(q, k) ==
  /\ phase # "done"
  /\ phase = "cleanup" =>
       IF q = who THEN ToCome(CleanupSteps(q), k)
       ELSE pos > 0 =>
              \E i \in (pos + 1)..Len(Suite.cleanup) : Suite.cleanup[i] = q

\* A runner knows of the object, or will know of the grant by its next step.
Owned(r, k) ==
  \/ \E q \in Runners :
       Name(q, k) = Name(r, k) /\ IsHeld(q, k) /\ Comes(q, k)
  \/ /\ k = "grant" /\ phase = "run" /\ who = r
     /\ step \in 1..Len(RunSteps(r)) /\ RunSteps(r)[step] = "sa"

\* Phases that a test comes to without Ctrl-C, and from which it goes on.
Unforced ==
  /\ phase \in {"test", "run", "restarts", "td", "cleanup", "done"}
  /\ ~force

Stray(r, k) ==
  Name(r, k) \in live \ Suite.leftovers /\ ~IsDying(Name(r, k))

Accounted ==
  Unforced =>
    \A r \in Runners, k \in Named : Stray(r, k) => Excused(r, k) \/ Owned(r, k)

\* How the runners of a suite share namespaces and services.
LEMMA ShareFacts ==
  ASSUME suite \in DOMAIN Suites
  PROVE  /\ Suite.starts \in Seq(Runners)
         /\ DOMAIN Suite.starts = 1..Len(Suite.starts)
         /\ Len(Suite.starts) \in Nat
         /\ \A i \in 1..Len(Suite.starts) : \A p \in Runners :
              /\ Args(p).ns = Args(Suite.starts[i]).ns
              /\ ~Args(p).reuseNamespace
              /\ Args(Suite.starts[i]).reuseNamespace
              => \E j \in 1..(i - 1) :
                   /\ Args(Suite.starts[j]).ns = Args(p).ns
                   /\ ~Args(Suite.starts[j]).reuseNamespace
         /\ \A p, q \in Runners :
              Args(p).ns = Args(q).ns /\ Args(p).service = Args(q).service =>
                Args(p).reuseService = Args(q).reuseService
         /\ \A p, q \in Runners :
              /\ Args(p).ns = Args(q).ns /\ Args(p).restartable
              /\ ~Args(p).reuseNamespace
              => p = q
         /\ \A r \in Runners : Args(r).reuseNamespace \in BOOLEAN
<1>1. Suite.starts \in Seq(Runners)
  BY K8sConstants DEF Suite, Runners
<1>2. /\ Len(Suite.starts) \in Nat
      /\ DOMAIN Suite.starts = 1..Len(Suite.starts)
  BY <1>1, LenProperties
<1>3. \A i \in DOMAIN Suite.starts : \A p \in Runners :
        /\ Args(p).ns = Args(Suite.starts[i]).ns
        /\ ~Args(p).reuseNamespace
        /\ Args(Suite.starts[i]).reuseNamespace
        => \E j \in 1..(i - 1) :
             /\ Args(Suite.starts[j]).ns = Args(p).ns
             /\ ~Args(Suite.starts[j]).reuseNamespace
  BY SuitesShare DEF Suite, Runners, Args
<1>4. /\ \A p, q \in Runners :
           Args(p).ns = Args(q).ns /\ Args(p).service = Args(q).service =>
             Args(p).reuseService = Args(q).reuseService
      /\ \A p, q \in Runners :
           /\ Args(p).ns = Args(q).ns /\ Args(p).restartable
           /\ ~Args(p).reuseNamespace
           => p = q
  BY SuitesShare DEF Suite, Runners, Args
<1>5. \A r \in Runners : Args(r) \in RunnerArgs
  BY K8sConstants DEF Suite, Runners, Args
<1> QED
  BY <1>1, <1>2, <1>3, <1>4, <1>5 DEF RunnerArgs

\* Names of the same object, of runners that share it.
LEMMA SharedNames ==
  \A r, q : /\ Name(r, "ns") = Name(q, "ns") <=> Args(r).ns = Args(q).ns
            /\ Name(r, "svc") = Name(q, "svc") <=>
                 Args(r).ns = Args(q).ns /\ Args(r).service = Args(q).service
BY DEF Name

\* The account is made after the grant, and deleted after it.
LEMMA AccountAfterGrant ==
  ASSUME NEW r
  PROVE  /\ \A i \in 1..Len(RunSteps(r)) :
              RunSteps(r)[i] = "grant" =>
                i + 1 \in 1..Len(RunSteps(r)) /\ RunSteps(r)[i + 1] = "sa"
         /\ \A i \in 1..Len(CleanupSteps(r)) :
              \A j \in i..Len(CleanupSteps(r)) :
                CleanupSteps(r)[i] = "sa" => CleanupSteps(r)[j] # "grant"
         /\ 1 <= Len(RunSteps(r)) /\ RunSteps(r)[1] = "ns"
<1>1. \A i \in 1..Len(RunSteps(r)) :
        RunSteps(r)[i] = "grant" =>
          i + 1 \in 1..Len(RunSteps(r)) /\ RunSteps(r)[i + 1] = "sa"
  BY DEF RunSteps, If
<1>2. \A i \in 1..Len(CleanupSteps(r)) :
        \A j \in i..Len(CleanupSteps(r)) :
          CleanupSteps(r)[i] = "sa" => CleanupSteps(r)[j] # "grant"
  BY DEF CleanupSteps, If
<1>3. 1 <= Len(RunSteps(r)) /\ RunSteps(r)[1] = "ns"
  BY DEF RunSteps, If
<1> QED
  BY <1>1, <1>2, <1>3

\* The order of the starts is kept.
LEMMA NextStarted == Basics /\ Started /\ [Next]_vars => Started'
<1> SUFFICES ASSUME Basics, Started, [Next]_vars PROVE Started'
  OBVIOUS
<1>s. suite' = suite
  BY StepCases DEF vars
<1>t. RunnerTypes /\ ControlTypes /\ suite \in DOMAIN Suites
  BY TypeParts DEF Basics
<1>p. pos \in Nat /\ (phase = "test" => pos = 0)
  BY <1>t, SuiteFacts DEF ControlTypes, Basics, Positions
<1>1. ASSUME phase' = phase, UNCHANGED <<pos, who, runs>> PROVE Started'
  BY <1>1, <1>s, SameSuite DEF Started
<1>2. ASSUME NEW r \in Runners, Run(r) PROVE Started'
  <2>1. /\ (phase' = "run" /\ who' = r) \/ phase' = "restarts"
        /\ runs' = [runs EXCEPT ![r] = @ + 1] /\ Startable(r)
    BY <1>2 DEF Run, Goto
  <2>2. PICK i \in 1..Len(Suite.starts) :
          /\ Suite.starts[i] = r
          /\ \A j \in 1..(i - 1) : runs[Suite.starts[j]] > 0
    BY <1>t, <2>1, ShareFacts DEF Startable
  <2>3. ASSUME NEW j \in 1..(i - 1) PROVE runs'[Suite.starts[j]] > 0
    <3>1. j \in 1..Len(Suite.starts)
      BY <1>t, ShareFacts
    <3>2. Suite.starts[j] \in Runners
      BY <1>t, <3>1, ShareFacts, ElementOfSeq
    <3> DEFINE q == Suite.starts[j]
    <3>3. runs[q] \in Nat /\ runs[q] > 0
      <4>1. runs[q] \in 0..Suite.maxRuns /\ Suite.maxRuns \in Nat
        BY <1>t, <3>2, SuiteFacts DEF RunnerTypes
      <4>2. runs[q] > 0
        BY <2>2
      <4> QED
        BY <4>1, <4>2
    <3> QED
      BY <1>t, <2>1, <3>2, <3>3 DEF RunnerTypes
  <2>4. Suite' = Suite
    BY <1>s, SameSuite
  <2> QED
    BY <2>1, <2>2, <2>3, <2>4 DEF Started
<1>3. CASE RunStep
  <2>1. \/ phase' = phase /\ UNCHANGED <<pos, who, runs>>
        \/ phase' \in {"test", "restarts"}
    BY <1>3 DEF RunStep, RunRaises, RequestFails, Goto
  <2> QED
    BY <1>1, <2>1 DEF Started
<1>4. CASE CleanupStep
  <2>1. \/ phase' = phase /\ UNCHANGED <<pos, who, runs>>
        \/ phase' \in {"restarts", "td", "gaveUp"}
    <3>1. \/ phase' = "cleanup" \/ UNCHANGED phase
          \/ CleanupRaises(who, CleanupSteps(who)[step])
      BY <1>4, MoveCases DEF CleanupStep
    <3> QED
      BY <1>4, <3>1 DEF CleanupStep, CleanupRaises, AttemptFails
  <2> QED
    BY <1>1, <2>1 DEF Started
<1>5. CASE CleanupReturns
  <2>1. phase' \in {"test", "done"} \/ (phase' = "cleanup" /\ pos' = pos + 1)
    BY <1>5 DEF CleanupReturns, Goto
  <2> QED
    BY <1>p, <2>1 DEF Started
<1>6. CASE Onward
  <2>1. CASE \E r \in Runners : TestCleanup(r)
    <3>1. PICK r \in Runners : TestCleanup(r)
      BY <2>1
    <3>2. phase' = "cleanup" /\ who' = r /\ Args(r).restartable
      BY <3>1 DEF TestCleanup, Goto
    <3> QED
      BY <1>s, <3>2, SameSuite DEF Started
  <2>2. CASE CleanupTrafficDirector
    <3>1. phase' \in {"td", "gaveUp"} \/ (phase' = "cleanup" /\ pos' = 1)
      BY <2>2 DEF CleanupTrafficDirector, AttemptFails, Goto
    <3> QED
      BY <3>1 DEF Started
  <2>3. CASE TestEnds \/ CountRestarts \/ ForcedTearDown \/ Abort
    <3>1. phase' \in {"restarts", "td", "skipped", "orphaned"}
      BY <2>3 DEF TestEnds, CountRestarts, ForcedTearDown, Abort, Goto
    <3> QED
      BY <3>1 DEF Started
  <2> QED
    BY <1>6, <2>1, <2>2, <2>3 DEF Onward
<1>7. CASE \/ Interrupt
           \/ \E r \in Runners, k \in Policies : PolicyFails(r, k)
  <2>1. phase' \in {"interrupted", "restarts"}
    BY <1>7, PolicyFailsFacts DEF Interrupt, Goto
  <2> QED
    BY <2>1 DEF Started
<1>8. CASE \/ \E o \in dying : Gone(o)
           \/ \E r \in Runners, k \in Policies : CreatePolicy(r, k)
           \/ Unwind \/ UNCHANGED vars
  <2>1. phase' = phase /\ UNCHANGED <<pos, who, runs>>
    BY <1>8 DEF Gone, CreatePolicy, Unwind, vars, runner, control
  <2> QED
    BY <1>1, <2>1
<1> QED
  BY Zenon, <1>2, <1>3, <1>4, <1>5, <1>6, <1>7, <1>8, StepCases

\* While the test goes on, a cleanup deletes only what its runner holds.
LEMMA TestCleanupDeletes ==
  ASSUME Basics, suite' = suite, phase = "cleanup", pos = 0, who \in Runners,
         NEW k \in Named,
         \/ Skip(who, k) \/ DeleteAccepted(who, k)
         \/ DeleteDone(who, k) \/ DeleteSwallowed(who, k)
  PROVE  /\ live' \subseteq live /\ \A o \in live \ live' : o[2] = "grant"
         /\ dying' \subseteq dying \cup {Name(who, k)}
         /\ Name(who, k) \in dying' \ dying => IsHeld(who, k)
<1>1. Deletes(who, k) => IsHeld(who, k)
  BY DEF Deletes, Forced
<1>2. Name(who, k)[2] = k
  BY NameFacts
<1> QED
  BY <1>1, <1>2 DEF Skip, DeleteAccepted, DeleteDone, DeleteSwallowed

\* A step that takes no namespace away that it does not restart.
LEMMA NamespacesStay ==
  ASSUME suite' = suite, Namespaces, TestGoesOn,
         \A r \in Runners :
           /\ ~Restarted(r) => Name(r, "ns") \notin dying' \ dying
           /\ Name(r, "ns") \in live /\ Name(r, "ns") \notin dying =>
                Name(r, "ns") \in live'
           /\ runs'[r] > 0 /\ ~(phase' = "run" /\ who' = r /\ step' = 1) =>
                \/ Name(r, "ns") \in live'
                \/ runs[r] > 0 /\ ~(phase = "run" /\ who = r /\ step = 1)
  PROVE  Namespaces'
<1>1. \A r : Name(r, "ns")' = Name(r, "ns")
  BY SameSuite
<1>2. \A r : Restarted(r)' <=> Restarted(r)
  BY SameSuite DEF Restarted
<1> QED
  BY <1>1, <1>2, SameSuite DEF Namespaces

\* A step of a run makes the namespace first.
LEMMA RunStepNamespaces ==
  ASSUME Basics, Namespaces, suite' = suite, RunStep
  PROVE  Namespaces'
<1> DEFINE k == RunSteps(who)[step]
<1>t. ControlTypes /\ suite \in DOMAIN Suites
  BY TypeParts DEF Basics
<1>0. /\ phase = "run" /\ UNCHANGED <<dying, runs>>
      /\ step \in Nat \ {0} /\ Len(RunSteps(who)) \in Nat
  BY <1>t, RunCovers, LenProperties DEF RunStep, ControlTypes
<1>g. TestGoesOn
  BY <1>0 DEF TestGoesOn
<1>1. CASE step > Len(RunSteps(who))
  <2>1. phase' = "test" /\ live' = live
    BY <1>1 DEF RunStep, Goto
  <2>2. step # 1
    BY <1>0, <1>1, AccountAfterGrant
  <2> QED
    BY <1>0, <1>g, <2>1, <2>2, NamespacesStay
<1>2. CASE RunRaises(who, k)
  BY <1>2 DEF RunRaises, RequestFails, Goto, Namespaces, TestGoesOn
<1>3. CASE /\ RunCreates(who, k) \/ RunWaits(who, k)
           /\ Goto("run", step + 1) /\ UNCHANGED <<faults, tainted, who>>
  <2>1. live \subseteq live' /\ who' = who /\ phase' = "run"
    BY <1>3 DEF RunCreates, RunWaits, Goto
  <2>2. step = 1 => Name(who, "ns") \in live'
    <3>1. step = 1 => k = "ns"
      BY AccountAfterGrant
    <3>2. "ns" \in Kinds
      BY DEF Kinds
    <3>3. k = "ns" => Name(who, "ns") \in live'
      BY <1>3, <3>2 DEF RunCreates, RunWaits, Reuses
    <3> QED
      BY <3>1, <3>3
  <2> QED
    BY <1>0, <1>g, <2>1, <2>2, NamespacesStay
<1> QED
  BY <1>1, <1>2, <1>3 DEF RunStep

\* The namespaces of those that the test started stay while it goes on.
LEMMA NextNamespaces == Basics /\ Started /\ Namespaces /\ [Next]_vars =>
                          Namespaces'
<1> SUFFICES ASSUME Basics, Started, Namespaces, [Next]_vars
             PROVE  Namespaces'
  OBVIOUS
<1>s. suite' = suite
  BY StepCases DEF vars
<1>t. RunnerTypes /\ ControlTypes /\ suite \in DOMAIN Suites
  BY TypeParts DEF Basics
<1>p. pos \in Nat /\ (phase = "test" => pos = 0)
  BY <1>t, SuiteFacts DEF ControlTypes, Basics, Positions
<1>0. CASE ~TestGoesOn'
  BY <1>0 DEF Namespaces
<1>1. ASSUME TestGoesOn, UNCHANGED <<live, dying, runs>>, phase' # "run",
             phase # "run"
      PROVE  Namespaces'
  BY <1>1, <1>s, NamespacesStay
<1>2. ASSUME NEW r \in Runners, Run(r) PROVE Namespaces'
  <2>1. /\ phase = "test" /\ UNCHANGED <<live, dying>>
        /\ runs' = [runs EXCEPT ![r] = @ + 1]
        /\ \/ phase' = "run" /\ who' = r /\ step' = 1
           \/ phase' = "restarts"
    BY <1>2 DEF Run, Goto
  <2>2. TestGoesOn
    BY <2>1 DEF TestGoesOn
  <2>3. CASE phase' = "run" /\ who' = r /\ step' = 1
    <3>1. \A q \in Runners : q # r => runs'[q] = runs[q]
      BY <1>t, <2>1 DEF RunnerTypes
    <3> QED
      BY <1>s, <2>1, <2>2, <2>3, <3>1, NamespacesStay
  <2>4. CASE phase' = "restarts"
    BY <2>4 DEF Namespaces, TestGoesOn
  <2> QED
    BY <2>1, <2>3, <2>4
<1>3. CASE RunStep
  BY <1>3, <1>s, RunStepNamespaces
<1>4. CASE CleanupStep
  <2> DEFINE k == CleanupSteps(who)[step]
  <2>1. CASE CleanupRaises(who, k)
    BY <2>1 DEF CleanupRaises, AttemptFails, Namespaces, TestGoesOn
  <2>2. CASE pos # 0 /\ ~CleanupRaises(who, k)
    <3>1. phase' = "cleanup" /\ pos' # 0
      BY <1>4, <2>2, MoveCases DEF CleanupStep
    <3> QED
      BY <3>1 DEF Namespaces, TestGoesOn
  <2>3. CASE pos = 0 /\ ~CleanupRaises(who, k)
    <3>1. /\ phase = "cleanup" /\ who \in Runners
          /\ UNCHANGED <<who, pos, runs>>
          /\ Args(who).restartable /\ step \in 1..Len(CleanupSteps(who))
      <4>1. Len(CleanupSteps(who)) \in Nat /\ step \in Nat \ {0}
        BY <1>t, CleanupCovers, LenProperties DEF ControlTypes
      <4> QED
        BY <1>4, <2>3, <4>1 DEF CleanupStep, Basics, Positions, Started
    <3>2. k \in Named
      BY <3>1, CleanupStepsAre
    <3>3. \/ Skip(who, k) \/ DeleteAccepted(who, k)
          \/ DeleteDone(who, k) \/ DeleteSwallowed(who, k)
      BY <1>4, <2>3 DEF CleanupStep
    <3> HIDE DEF k
    <3>4. /\ live' \subseteq live /\ \A o \in live \ live' : o[2] = "grant"
          /\ dying' \subseteq dying \cup {Name(who, k)}
          /\ Name(who, k) \in dying' \ dying => IsHeld(who, k)
          /\ phase' = "cleanup"
      BY <1>s, <2>3, <3>1, <3>2, <3>3, TestCleanupDeletes, MoveCases
    <3>5. ASSUME NEW r \in Runners, ~Restarted(r)
          PROVE  Name(r, "ns") \notin dying' \ dying
      <4> SUFFICES ASSUME Name(r, "ns") \in dying' \ dying PROVE FALSE
        OBVIOUS
      <4>1. k = "ns" /\ Name(r, "ns") = Name(who, "ns")
        BY <3>4, NameFacts
      <4>2. Args(who).ns = Args(r).ns /\ ~Args(who).reuseNamespace
        BY <3>4, <4>1, SharedNames DEF IsHeld
      <4> QED
        BY <3>1, <3>5, <4>2 DEF Restarted
    <3>6. \A r : Name(r, "ns") \in live => Name(r, "ns") \in live'
      BY <3>4, NameFacts
    <3>7. TestGoesOn
      BY <2>3, <3>1 DEF TestGoesOn
    <3> QED
      BY <1>s, <3>1, <3>4, <3>5, <3>6, <3>7, NamespacesStay
  <2> QED
    BY <2>1, <2>2, <2>3
<1>5. CASE CleanupReturns
  <2>1. /\ UNCHANGED <<live, dying, runs>> /\ phase = "cleanup"
        /\ \/ phase' = "test" /\ pos = 0
           \/ phase' = "done" \/ (phase' = "cleanup" /\ pos' = pos + 1)
    BY <1>5 DEF CleanupReturns, Goto
  <2>2. TestGoesOn' => TestGoesOn /\ phase' = "test"
    BY <1>p, <2>1 DEF TestGoesOn
  <2> QED
    BY <1>0, <1>1, <2>1, <2>2
<1>6. CASE Onward
  <2>1. /\ UNCHANGED <<live, dying, runs>>
        /\ \/ phase' = "cleanup" /\ phase = "test"
           \/ phase' = "cleanup" /\ pos' = 1
           \/ phase' \in {"restarts", "td", "skipped", "gaveUp", "orphaned"}
    BY <1>6, OnwardFacts
  <2> QED
    BY <1>0, <1>1, <2>1 DEF TestGoesOn
<1>7. CASE \/ Interrupt \/ Unwind
           \/ \E r \in Runners, k \in Policies : PolicyFails(r, k)
  <2>1. phase' \in {"interrupted", "restarts"} \cup Over
    BY <1>7, PolicyFailsFacts DEF Interrupt, Unwind, Goto
  <2> QED
    BY <2>1 DEF Namespaces, TestGoesOn, Over
<1>8. ASSUME UNCHANGED <<phase, pos, who, step, runs>>,
             \A r \in Runners :
               /\ Name(r, "ns") \notin dying' \ dying
               /\ Name(r, "ns") \in live /\ Name(r, "ns") \notin dying =>
                    Name(r, "ns") \in live'
      PROVE  Namespaces'
  <2>1. TestGoesOn' => TestGoesOn
    BY <1>8 DEF TestGoesOn
  <2> QED
    BY <1>0, <1>8, <1>s, <2>1, NamespacesStay
<1>9. ASSUME NEW o \in dying, Gone(o) PROVE Namespaces'
  <2>1. /\ live' = live \ ({o} \cup {x \in live : Inside(x) /\ NsOf(x) = o})
        /\ dying' \subseteq dying /\ UNCHANGED <<phase, pos, who, step, runs>>
    BY <1>9 DEF Gone, runner, control
  <2>2. \A r : ~Inside(Name(r, "ns"))
    BY NameFacts
  <2> QED
    BY <1>8, <2>1, <2>2
<1>10. ASSUME NEW r \in Runners, NEW k \in Policies, CreatePolicy(r, k)
       PROVE  Namespaces'
  BY <1>8, <1>10 DEF CreatePolicy, control
<1>11. CASE UNCHANGED vars
  BY <1>8, <1>11 DEF vars, runner, control
<1> QED
  BY Zenon, <1>2, <1>3, <1>4, <1>5, <1>6, <1>7, <1>9, <1>10, <1>11, StepCases

\* What excuses an object does so for good.
LEMMA StillExcused ==
  ASSUME suite' = suite, tainted \subseteq tainted', NEW r, NEW k, Excused(r, k)
  PROVE  Excused(r, k)'
<1>1. Name(r, k)' = Name(r, k) /\ Name(r, "sa")' = Name(r, "sa")
  BY SameSuite
<1> QED
  BY <1>1, SameSuite DEF Excused

\* The field of an object.
Field(k) == IF k = "grant" THEN "sa" ELSE k

\* A runner that keeps the field holds the object.
LEMMA StillHeld ==
  ASSUME suite' = suite, NEW q, NEW k, IsHeld(q, k), Field(k) \in held'[q]
  PROVE  IsHeld(q, k)'
BY SameSuite DEF IsHeld, Field

\* Outside of cleanup the runner may still be cleaned up.
LEMMA StillOwned ==
  ASSUME suite' = suite, NEW r, NEW k, NEW q \in Runners,
         Name(q, k) = Name(r, k), IsHeld(q, k), Field(k) \in held'[q],
         Comes(q, k)'
  PROVE  Owned(r, k)'
<1>1. IsHeld(q, k)'
  BY StillHeld
<1>2. Name(q, k)' = Name(r, k)'
  BY SameSuite
<1>3. q \in Runners'
  BY SameSuite
<1> QED
  BY <1>1, <1>2, <1>3 DEF Owned

\* What a runner holds, its cleanup comes to.
LEMMA HeldIsCovered ==
  ASSUME Basics, AllKnown, NEW q \in Runners, NEW k \in Named,
         Name(q, k) \in live
  PROVE  k \in Steps(CleanupSteps(q)) \/ ~IsHeld(q, k)
<1>t. RunnerTypes /\ suite \in DOMAIN Suites
  BY TypeParts DEF Basics
<1>1. PICK r \in Runners, l \in Named : Made(r, l) /\ Name(q, k) = Name(r, l)
  BY DEF AllKnown
<1>2. l = k /\ (k \notin {"ns", "svc"} => r = q)
  BY <1>1, NameFacts
<1>3. CASE k = "svc"
  <2>1. IsHeld(q, k) => "svc" \in held[q]
    BY <1>3 DEF IsHeld
  <2>2. "svc" \in held[q] => Args(q).kind \in {"server", "gamma"}
    BY <1>t, SuiteFacts DEF Basics, Fields
  <2> QED
    BY <1>3, <2>1, <2>2, CleanupCovers
<1>4. CASE k \in Policies \cup {"front", "route"}
  <2>1. Args(q).kind = "gamma"
    BY <1>1, <1>2, <1>4 DEF Made, Policies
  <2> QED
    BY <1>4, <2>1, CleanupCovers
<1>5. CASE k \in {"dep", "grant", "sa", "pm", "ns"}
  BY <1>5, CleanupCovers
<1> QED
  BY <1>3, <1>4, <1>5 DEF Named, Kinds, NotReset, Policies

\* Steps that only take objects away.
LEMMA SameAccounted ==
  ASSUME suite' = suite, Accounted, live' \subseteq live,
         \A x \in live' : IsDying(x) => IsDying(x)',
         UNCHANGED <<held, phase, pos, who, step, force, tainted>>
  PROVE  Accounted'
<1>n. \A r, k : Name(r, k)' = Name(r, k)
  BY SameSuite
<1>1. ASSUME Unforced', NEW r \in Runners, NEW k \in Named, Stray(r, k)',
             ~Excused(r, k)'
      PROVE  Owned(r, k)'
  <2>1. Unforced /\ Stray(r, k) /\ ~Excused(r, k)
    <3>1. ~Excused(r, k)
      BY <1>1, StillExcused
    <3>2. Name(r, k) \in live' \ Suite.leftovers
      BY <1>1, <1>n, SameSuite DEF Stray
    <3>3. ~IsDying(Name(r, k))
      <4>1. ~IsDying(Name(r, k))'
        BY <1>1 DEF Stray
      <4> DEFINE o == Name(r, k)
      <4>2. o' = o
        BY <1>n
      <4> QED
        BY <3>2, <4>1, <4>2 DEF IsDying
    <3> QED
      BY <1>1, <3>1, <3>2, <3>3 DEF Unforced, Stray
  <2>2. Owned(r, k)
    BY <2>1 DEF Accounted
  <2>3. \A q : Comes(q, k)' <=> Comes(q, k)
    BY <1>1, SameSuite DEF Comes, ToCome
  <2>4. \A q : IsHeld(q, k)' <=> IsHeld(q, k)
    BY <1>1, SameSuite DEF IsHeld
  <2> QED
    BY <1>n, <2>2, <2>3, <2>4, SameSuite DEF Owned
<1> QED
  BY <1>1, SameSuite DEF Accounted

\* An object that was there before.
LEMMA StrayBefore ==
  ASSUME suite' = suite, dying \subseteq dying', NEW r, NEW k, Stray(r, k)'
  PROVE  /\ Name(r, k) \in live' \ Suite.leftovers
         /\ ~IsDying(Name(r, k))
         /\ Name(r, k) \notin dying'
         /\ Name(r, k) \in live => Stray(r, k)
<1> DEFINE o == Name(r, k)
<1>1. o' = o /\ Suite' = Suite
  BY SameSuite
<1>2. o \in live' \ Suite.leftovers
  BY <1>1 DEF Stray
<1>3. o \notin dying' /\ ~(Inside(o) /\ NsOf(o) \in dying')
  BY <1>1 DEF Stray, IsDying
<1>4. ~IsDying(o)
  BY <1>3 DEF IsDying
<1> QED
  BY <1>2, <1>3, <1>4, NameFacts DEF Stray

\* A run begins: a runner that starts anew had nothing that it does not keep.
LEMMA RunAccounted ==
  ASSUME Basics, Remembered, Accounted, suite' = suite,
         NEW r \in Runners, Run(r)
  PROVE  Accounted'
<1>t. RunnerTypes
  BY TypeParts DEF Basics
<1>1. /\ phase = "test" /\ UNCHANGED <<live, dying, tainted, force>>
      /\ phase' \in {"run", "restarts"}
      /\ \/ held' = held
         \/ /\ held' = [held EXCEPT ![r] = @ \cap NotReset]
            /\ stage[r] \in {"new", "stopped"}
  BY DEF Run, Starts, Goto
<1>2. \A q, k : Comes(q, k)'
  BY <1>1 DEF Comes
<1>3. ASSUME Unforced', NEW q \in Runners, NEW k \in Named, Stray(q, k)',
             ~Excused(q, k)'
      PROVE  Owned(q, k)'
  <2>1. Unforced /\ Stray(q, k) /\ ~Excused(q, k)
    BY <1>1, <1>3, StrayBefore, StillExcused DEF Unforced
  <2>2. PICK p \in Runners : Name(p, k) = Name(q, k) /\ IsHeld(p, k)
    BY <1>1, <2>1 DEF Accounted, Owned
  <2>3. Field(k) \in held'[p]
    <3>1. Field(k) \in held[p]
      BY <2>2 DEF IsHeld, Field
    <3>2. CASE p = r /\ stage[r] \in {"new", "stopped"}
      <4>1. Field(k) \notin NotReset => Kept(r, Field(k))
        BY <1>1, <3>1, <3>2 DEF Remembered, TestGoesOn
      <4>2. ~Kept(r, Field(k))
        BY <2>2, <3>2 DEF Kept, IsHeld, Field
      <4> QED
        BY <1>1, <1>t, <3>1, <3>2, <4>1, <4>2 DEF RunnerTypes
    <3> QED
      BY <1>1, <1>t, <3>1, <3>2 DEF RunnerTypes
  <2> QED
    BY <1>2, <2>2, <2>3, StillOwned
<1> QED
  BY <1>3, SameSuite DEF Accounted

\* A policy belongs to the runner for which it was made.
LEMMA PolicyAccounted ==
  ASSUME Basics, Accounted, suite' = suite,
         NEW r \in Runners, NEW p \in Policies, CreatePolicy(r, p)
  PROVE  Accounted'
<1>t. RunnerTypes
  BY TypeParts DEF Basics
<1>1. /\ phase = "test" /\ UNCHANGED <<dying, tainted, force, phase>>
      /\ live' = live \cup {Name(r, p)}
      /\ held' = [held EXCEPT ![r] = @ \cup {p}]
  BY DEF CreatePolicy, MakesPolicy, control
<1>2. \A q, k : Comes(q, k)'
  BY <1>1 DEF Comes
<1>3. ASSUME Unforced', NEW q \in Runners, NEW k \in Named, Stray(q, k)',
             ~Excused(q, k)'
      PROVE  Owned(q, k)'
  <2>1. CASE Name(q, k) \in live
    <3>1. Unforced /\ Stray(q, k) /\ ~Excused(q, k)
      BY <1>1, <1>3, <2>1, StrayBefore, StillExcused DEF Unforced
    <3>2. PICK s \in Runners : Name(s, k) = Name(q, k) /\ IsHeld(s, k)
      BY <1>1, <3>1 DEF Accounted, Owned
    <3>3. Field(k) \in held'[s]
      BY <1>1, <1>t, <3>2 DEF IsHeld, Field, RunnerTypes
    <3> QED
      BY <1>2, <3>2, <3>3, StillOwned
  <2>2. CASE Name(q, k) \notin live
    <3>1. Name(q, k) = Name(r, p)
      BY <1>1, <1>3, <2>2, StrayBefore
    <3>2. k = p /\ q = r
      BY <3>1, NameFacts DEF Policies
    <3>3. p \in held'[r]
      BY <1>1, <1>t DEF RunnerTypes
    <3>4. IsHeld(r, p)'
      BY <3>3 DEF IsHeld, Policies
    <3> QED
      BY <1>2, <3>2, <3>4, SameSuite DEF Owned
  <2> QED
    BY <2>1, <2>2
<1> QED
  BY <1>3, SameSuite DEF Accounted

\* One that could not be made may be left.
LEMMA PolicyFailsAccounted ==
  ASSUME Basics, Accounted, suite' = suite,
         NEW r \in Runners, NEW p \in Policies, PolicyFails(r, p)
  PROVE  Accounted'
<1>1. /\ phase = "test" /\ phase' = "restarts"
      /\ UNCHANGED <<dying, held, force>>
      /\ live' \in {live, live \cup {Name(r, p)}}
      /\ tainted' = tainted \cup {Name(r, p)}
  BY PolicyFailsFacts
<1>2. \A q, k : Comes(q, k)'
  BY <1>1 DEF Comes
<1>3. ASSUME Unforced', NEW q \in Runners, NEW k \in Named, Stray(q, k)',
             ~Excused(q, k)'
      PROVE  Owned(q, k)'
  <2>1. Name(q, k) \in live
    <3>1. Name(q, k) \in live' /\ Name(q, k) \notin tainted'
      BY <1>1, <1>3, StrayBefore, SameSuite DEF Excused
    <3> QED
      BY <1>1, <3>1
  <2>2. Unforced /\ Stray(q, k) /\ ~Excused(q, k)
    BY <1>1, <1>3, <2>1, StrayBefore, StillExcused DEF Unforced
  <2>3. PICK s \in Runners : Name(s, k) = Name(q, k) /\ IsHeld(s, k)
    BY <1>1, <2>2 DEF Accounted, Owned
  <2>4. Field(k) \in held'[s]
    BY <1>1, <2>3 DEF IsHeld, Field
  <2> QED
    BY <1>2, <2>3, <2>4, StillOwned
<1> QED
  BY <1>3, SameSuite DEF Accounted

\* The object that a run makes is its runner's, or there is nobody to delete it.
LEMMA MadeIsOwned ==
  ASSUME Basics, Started, Namespaces, suite' = suite, phase = "run",
         who \in Runners, step \in 1..Len(RunSteps(who)),
         NEW k, k = RunSteps(who)[step], k \in Named,
         RunCreates(who, k), Goto("run", step + 1), who' = who,
         NEW r \in Runners, Name(who, k) \notin live,
         Name(r, k) = Name(who, k)
  PROVE  Excused(r, k) \/ Owned(r, k)'
<1>t. RunnerTypes /\ ControlTypes /\ suite \in DOMAIN Suites
  BY TypeParts DEF Basics
<1>1. phase' = "run" /\ step' = step + 1
  BY DEF Goto
<1>2. CASE k = "grant"
  <2>1. r = who
    BY <1>2, NameFacts
  <2>2. /\ step + 1 \in 1..Len(RunSteps(who))
        /\ RunSteps(who)[step + 1] = "sa"
    BY <1>2, AccountAfterGrant
  <2>3. RunSteps(who)' = RunSteps(who)
    BY SameSuite
  <2> QED
    BY <1>1, <1>2, <2>1, <2>2, <2>3 DEF Owned
<1>3. CASE k = "ns" /\ Args(who).reuseNamespace
  <2> SUFFICES ASSUME NEW q \in Runners, Args(q).ns = Args(r).ns,
                      ~Args(q).reuseNamespace
               PROVE  FALSE
    BY <1>3 DEF Excused
  <2>1. Args(r).ns = Args(who).ns
    BY <1>3, SharedNames
  <2>2. PICK i \in 1..Len(Suite.starts) :
          /\ Suite.starts[i] = who
          /\ \A j \in 1..(i - 1) : runs[Suite.starts[j]] > 0
    BY DEF Started
  <2>3. PICK j \in 1..(i - 1) :
          /\ Args(Suite.starts[j]).ns = Args(q).ns
          /\ ~Args(Suite.starts[j]).reuseNamespace
    BY <1>3, <1>t, <2>1, <2>2, ShareFacts
  <2> DEFINE p == Suite.starts[j]
  <2>4. p \in Runners /\ runs[p] > 0
    <3>1. j \in 1..Len(Suite.starts)
      BY <1>t, ShareFacts
    <3> QED
      BY <1>t, <2>2, <3>1, ShareFacts, ElementOfSeq
  <2>5. Args(p).ns = Args(who).ns /\ ~Args(p).reuseNamespace
    BY <2>1, <2>3
  <2> HIDE DEF p
  <2>6. p # who
    BY <1>3, <2>5
  <2>7. ~Restarted(p)
    <3> SUFFICES ASSUME NEW x \in Runners, Args(x).ns = Args(p).ns,
                        Args(x).restartable, ~Args(x).reuseNamespace
                 PROVE  FALSE
      BY DEF Restarted
    <3>1. x = p /\ x = who
      BY <1>t, <2>4, <2>5, ShareFacts
    <3> QED
      BY <2>6, <3>1
  <2>8. Name(p, "ns") \in live
    BY <2>4, <2>6, <2>7 DEF Namespaces, TestGoesOn
  <2>9. Name(p, "ns") = Name(who, "ns")
    BY <2>5, SharedNames
  <2> QED
    BY <1>3, <2>8, <2>9
<1>4. CASE k = "svc" /\ Args(who).reuseService
  <2>1. Args(r).ns = Args(who).ns /\ Args(r).service = Args(who).service
    BY <1>4, SharedNames
  <2>2. Args(r).reuseService
    BY <1>4, <1>t, <2>1, ShareFacts
  <2> QED
    BY <1>4, <2>2 DEF Excused
<1>5. CASE /\ k # "grant" /\ ~(k = "ns" /\ Args(who).reuseNamespace)
           /\ ~(k = "svc" /\ Args(who).reuseService)
  <2>1. k \in held'[who]
    BY <1>5, <1>t DEF RunCreates, RunnerTypes
  <2>2. IsHeld(who, k)'
    BY <1>5, <2>1, SameSuite DEF IsHeld
  <2>3. Comes(who, k)'
    BY <1>1 DEF Comes
  <2>4. Name(who, k)' = Name(who, k) /\ Name(r, k)' = Name(r, k)
        /\ Runners' = Runners
    BY SameSuite
  <2>5. Name(who, k)' = Name(r, k)'
    BY <2>4
  <2> QED
    BY <2>2, <2>3, <2>4, <2>5 DEF Owned
<1> QED
  BY <1>2, <1>3, <1>4, <1>5

\* What was accounted for stays so while a run goes on, and the account tells of
\* the grant.
LEMMA RunKeepsAccount ==
  ASSUME Basics, Accounted, suite' = suite, phase = "run", who \in Runners,
         Unforced, phase' \in {"run", "test", "restarts"},
         tainted \subseteq tainted',
         \A q \in Runners : held[q] \subseteq held'[q],
         step \in 1..Len(RunSteps(who)) /\ RunSteps(who)[step] = "sa" =>
           "sa" \in held'[who] \/ Name(who, "sa") \in tainted',
         NEW r \in Runners, NEW k \in Named, Stray(r, k)
  PROVE  Excused(r, k)' \/ Owned(r, k)'
<1>1. \A q, l : Comes(q, l)'
  BY DEF Comes
<1>2. CASE Excused(r, k)
  BY <1>2, StillExcused
<1>3. ASSUME NEW q \in Runners, Name(q, k) = Name(r, k), IsHeld(q, k)
      PROVE  Owned(r, k)'
  <2>1. Field(k) \in held'[q]
    BY <1>3 DEF IsHeld, Field
  <2> QED
    BY <1>1, <1>3, <2>1, StillOwned
<1>4. CASE /\ k = "grant" /\ who = r
           /\ step \in 1..Len(RunSteps(r)) /\ RunSteps(r)[step] = "sa"
  <2>1. CASE "sa" \in held'[who]
    <3>1. IsHeld(r, "grant")'
      BY <1>4, <2>1 DEF IsHeld
    <3> QED
      BY <1>1, <1>4, <3>1, SameSuite DEF Owned
  <2>2. CASE Name(who, "sa") \in tainted'
    BY <1>4, <2>2, SameSuite DEF Excused
  <2> QED
    BY <1>4, <2>1, <2>2
<1> QED
  BY <1>2, <1>3, <1>4 DEF Accounted, Owned

\* A step of a run.
LEMMA RunStepAccounted ==
  ASSUME Basics, Started, Namespaces, Accounted, suite' = suite, RunStep
  PROVE  Accounted'
<1> DEFINE k == RunSteps(who)[step]
<1>t. RunnerTypes /\ ControlTypes /\ suite \in DOMAIN Suites
  BY TypeParts DEF Basics
<1>0. /\ phase = "run" /\ who \in Runners /\ dying' = dying /\ force' = force
      /\ step \in Nat \ {0} /\ Len(RunSteps(who)) \in Nat
  BY <1>t, RunCovers, LenProperties
  DEF RunStep, Basics, Positions, ControlTypes
<1>u. Unforced' => Unforced
  BY <1>0 DEF Unforced
<1>1. ASSUME phase' \in {"run", "test", "restarts"}, tainted \subseteq tainted',
             \A q \in Runners : held[q] \subseteq held'[q],
             step \in 1..Len(RunSteps(who)) /\ k = "sa" =>
               "sa" \in held'[who] \/ Name(who, "sa") \in tainted',
             NEW r \in Runners, NEW l \in Named, Unforced', Stray(r, l)',
             Name(r, l) \in live
      PROVE  Excused(r, l)' \/ Owned(r, l)'
  <2>1. Stray(r, l)
    BY <1>0, <1>1, StrayBefore
  <2> QED
    BY <1>0, <1>1, <1>u, <2>1, RunKeepsAccount
<1>2. CASE step > Len(RunSteps(who))
  <2>1. /\ phase' = "test" /\ UNCHANGED <<live, held, tainted>>
        /\ ~(step \in 1..Len(RunSteps(who)))
    BY <1>0, <1>2 DEF RunStep, Goto
  <2>2. ASSUME NEW r \in Runners, NEW l \in Named, Unforced', Stray(r, l)'
        PROVE  Excused(r, l)' \/ Owned(r, l)'
    <3>1. Name(r, l) \in live
      BY <1>0, <2>1, <2>2, StrayBefore
    <3> QED
      BY <1>1, <2>1, <2>2, <3>1
  <2> QED
    BY <2>2, SameSuite DEF Accounted
<1>3. CASE step \in 1..Len(RunSteps(who)) /\ RunRaises(who, k)
  <2>1. /\ phase' = "restarts" /\ tainted \subseteq tainted'
        /\ live' \subseteq live \cup {Name(who, k)}
        /\ k \in Kinds => Name(who, k) \in tainted'
        /\ live' # live => k \in Kinds
    BY <1>3 DEF RunRaises, RequestFails, Goto
  <2>2. \A q \in Runners : held[q] \subseteq held'[q]
    BY <1>0, <1>3, <1>t DEF RunRaises, Requested, RunnerTypes
  <2>3. k = "sa" => Name(who, "sa") \in tainted'
    BY <2>1 DEF Kinds
  <2>4. ASSUME NEW r \in Runners, NEW l \in Named, Unforced', Stray(r, l)'
        PROVE  Excused(r, l)' \/ Owned(r, l)'
    <3>1. CASE Name(r, l) \in live
      BY <1>1, <2>1, <2>2, <2>3, <2>4, <3>1
    <3>2. CASE Name(r, l) \notin live
      <4>1. Name(r, l) \in live'
        BY <1>0, <2>4, StrayBefore
      <4>2. Name(r, l) \in tainted'
        BY <2>1, <3>2, <4>1
      <4> QED
        BY <4>2, SameSuite DEF Excused
    <3> QED
      BY <3>1, <3>2
  <2> QED
    BY <2>4, SameSuite DEF Accounted
<1>4. CASE /\ step \in 1..Len(RunSteps(who))
           /\ RunCreates(who, k) \/ RunWaits(who, k)
           /\ Goto("run", step + 1) /\ UNCHANGED <<faults, tainted, who>>
  <2>1. phase' = "run" /\ live' \subseteq live \cup {Name(who, k)}
    BY <1>4 DEF RunCreates, RunWaits, Goto
  <2>2. \A q \in Runners : held[q] \subseteq held'[q]
    BY <1>0, <1>4, <1>t DEF RunCreates, RunWaits, RunnerTypes
  <2>3. k = "sa" => "sa" \in held'[who]
    BY <1>0, <1>4, <1>t DEF RunCreates, RunWaits, RunnerTypes, Kinds
  <2>4. ASSUME NEW r \in Runners, NEW l \in Named, Unforced', Stray(r, l)'
        PROVE  Excused(r, l)' \/ Owned(r, l)'
    <3>1. CASE Name(r, l) \in live
      BY <1>1, <1>4, <2>1, <2>2, <2>3, <2>4, <3>1
    <3>2. CASE Name(r, l) \notin live
      <4>1. Name(r, l) \in live'
        BY <1>0, <2>4, StrayBefore
      <4>2. Name(r, l) = Name(who, k) /\ l = k
        BY <2>1, <3>2, <4>1, NameFacts
      <4>3. RunCreates(who, k)
        BY <1>4, <3>2, <4>1 DEF RunWaits
      <4> HIDE DEF k
      <4>4. k = RunSteps(who)[step]
        BY DEF k
      <4>5. Excused(r, l) \/ Owned(r, l)'
        BY <1>0, <1>4, <3>2, <4>2, <4>3, <4>4, MadeIsOwned
      <4> QED
        BY <1>4, <4>5, StillExcused
    <3> QED
      BY <3>1, <3>2
  <2> QED
    BY <2>4, SameSuite DEF Accounted
<1> QED
  BY <1>0, <1>2, <1>3, <1>4 DEF RunStep

\* A step of a cleanup deals with its object, and the others are still to come.
LEMMA CleanupMoveAccounted ==
  ASSUME Basics, Accounted, suite' = suite, phase = "cleanup",
         who \in Runners, step \in 1..Len(CleanupSteps(who)),
         NEW k, k = CleanupSteps(who)[step],
         \/ Skip(who, k) \/ DeleteAccepted(who, k)
         \/ DeleteDone(who, k) \/ DeleteSwallowed(who, k),
         UNCHANGED <<pos, who, force>>
  PROVE  Accounted'
<1>t. RunnerTypes
  BY TypeParts DEF Basics
<1>s. /\ step \in Nat \ {0} /\ k \in Named
      /\ CleanupSteps(who) \in Seq(StepName)
  BY CleanupStepsAre, CleanupCovers
<1>f. /\ phase' = "cleanup" /\ live' \subseteq live
      /\ dying \subseteq dying' /\ tainted \subseteq tainted'
      /\ refused' \subseteq tainted'
      /\ Deletes(who, k) /\ Name(who, k) \in live' =>
           Name(who, k) \in dying' \cup refused'
  BY <1>s, CleanupLeaves, CleanupMovesFacts
<1>1. ASSUME Unforced', NEW r \in Runners, NEW l \in Named, Stray(r, l)',
             ~Excused(r, l)'
      PROVE  Owned(r, l)'
  <2>1. Unforced /\ ~Excused(r, l)
    BY <1>1, <1>f, StillExcused DEF Unforced
  <2>2. Name(r, l) \in live' /\ Name(r, l) \notin dying' /\ Stray(r, l)
    BY <1>1, <1>f, StrayBefore
  <2>3. PICK q \in Runners :
          Name(q, l) = Name(r, l) /\ IsHeld(q, l) /\ Comes(q, l)
    BY <2>1, <2>2 DEF Accounted, Owned
  <2>4. q # who \/ l # k
    <3> SUFFICES ASSUME q = who, l = k PROVE FALSE
      OBVIOUS
    <3>1. Deletes(who, k)
      BY <2>3 DEF Deletes
    <3>2. Name(r, l) \in tainted'
      BY <1>f, <2>2, <2>3, <3>1
    <3> QED
      BY <1>1, <3>2, SameSuite DEF Excused
  <2>5. q = who => k # Field(l)
    <3> SUFFICES ASSUME q = who, k = "sa", l = "grant" PROVE FALSE
      BY <2>4 DEF Field
    <3>1. ToCome(CleanupSteps(who), "grant")
      BY <2>3 DEF Comes
    <3> QED
      BY <3>1, AccountAfterGrant DEF ToCome
  <2>6. Field(l) \in held'[q]
    <3>1. Field(l) \in held[q] /\ Field(l) # "pmName"
      BY <2>3 DEF IsHeld, Field, Named
    <3>2. \/ held' = held
          \/ held' = [held EXCEPT ![who] =
                        @ \ ({k} \cup IF k = "pm" THEN {"pmName"} ELSE {})]
      BY MoveCases
    <3> QED
      BY <1>t, <2>5, <3>1, <3>2 DEF RunnerTypes
  <2>7. Comes(q, l)'
    <3>1. CASE q # who
      <4>1. \/ pos = 0
            \/ \E i \in (pos + 1)..Len(Suite.cleanup) : Suite.cleanup[i] = q
        BY <2>3, <3>1, TypeParts, SuiteFacts DEF Comes, Basics, ControlTypes
      <4> QED
        BY <1>f, <3>1, <4>1, SameSuite DEF Comes
    <3>2. CASE q = who
      <4>1. ToCome(CleanupSteps(who), l)
        BY <2>3, <3>2 DEF Comes
      <4>2. step' = step \/ step' = step + 1
        BY MoveCases
      <4>3. \E j \in step'..Len(CleanupSteps(who)) : CleanupSteps(who)[j] = l
        BY <1>s, <2>4, <3>2, <4>1, <4>2, StillToCome DEF ToCome
      <4>4. CleanupSteps(q)' = CleanupSteps(who)
        BY <3>2, SameSuite
      <4> QED
        BY <1>f, <3>2, <4>3, <4>4 DEF Comes, ToCome
    <3> QED
      BY <3>1, <3>2
  <2> QED
    BY <2>3, <2>6, <2>7, StillOwned
<1> QED
  BY <1>1, SameSuite DEF Accounted

\* A step that changes nothing but where the process is.
LEMMA MovedAccounted ==
  ASSUME Accounted, suite' = suite, UNCHANGED <<live, dying, held>>,
         tainted' = tainted, Unforced' => Unforced /\ phase # "run",
         Unforced' =>
           \A q \in Runners, k \in Named :
             Name(q, k) \in live /\ IsHeld(q, k) /\ Comes(q, k) =>
               Comes(q, k)'
  PROVE  Accounted'
<1>1. ASSUME Unforced', NEW r \in Runners, NEW k \in Named, Stray(r, k)',
             ~Excused(r, k)'
      PROVE  Owned(r, k)'
  <2>1. Name(r, k) \in live /\ Stray(r, k) /\ ~Excused(r, k)
    BY <1>1, StrayBefore, StillExcused
  <2>2. PICK q \in Runners :
          Name(q, k) = Name(r, k) /\ IsHeld(q, k) /\ Comes(q, k)
    BY <1>1, <2>1 DEF Accounted, Owned
  <2>3. Comes(q, k)'
    BY <1>1, <2>1, <2>2
  <2>4. Field(k) \in held'[q]
    BY <2>2 DEF IsHeld, Field
  <2> QED
    BY <2>2, <2>3, <2>4, StillOwned
<1> QED
  BY <1>1, SameSuite DEF Accounted

\* A step of a cleanup, which may raise.
LEMMA CleanupStepAccounted ==
  ASSUME Basics, Accounted, suite' = suite, CleanupStep
  PROVE  Accounted'
<1> DEFINE k == CleanupSteps(who)[step]
<1>t. ControlTypes /\ who \in Runners /\ phase = "cleanup"
  BY TypeParts DEF Basics, Positions, CleanupStep
<1>0. step \in 1..Len(CleanupSteps(who)) /\ UNCHANGED <<pos, who, force>>
  BY <1>t, CleanupCovers, LenProperties DEF CleanupStep, ControlTypes
<1>1. CASE \/ Skip(who, k) \/ DeleteAccepted(who, k)
           \/ DeleteDone(who, k) \/ DeleteSwallowed(who, k)
  <2> HIDE DEF k
  <2>1. k = CleanupSteps(who)[step]
    BY DEF k
  <2> QED
    BY <1>0, <1>1, <1>t, <2>1, CleanupMoveAccounted
<1>2. CASE CleanupRaises(who, k)
  <2>1. UNCHANGED <<live, dying, held, tainted>>
        /\ phase' \in {"restarts", "td", "gaveUp"}
    BY <1>2 DEF CleanupRaises, AttemptFails
  <2>2. \A q, l : Comes(q, l)'
    BY <2>1 DEF Comes
  <2>3. Unforced' => Unforced /\ phase # "run"
    BY <1>0, <1>t DEF Unforced
  <2> QED
    BY <2>1, <2>2, <2>3, MovedAccounted
<1> QED
  BY <1>1, <1>2 DEF CleanupStep

\* At the first step of its cleanup, everything that a runner holds is to come.
LEMMA FirstComes ==
  ASSUME Basics, AllKnown, suite' = suite, phase' = "cleanup", step' = 1,
         NEW q \in Runners, who' = q, NEW k \in Named,
         Name(q, k) \in live, IsHeld(q, k)
  PROVE  Comes(q, k)'
<1>1. k \in Steps(CleanupSteps(q))
  BY HeldIsCovered
<1>2. \E j \in step'..Len(CleanupSteps(q)) : CleanupSteps(q)[j] = k
  BY <1>1, AllToCome
<1>3. CleanupSteps(q)' = CleanupSteps(q)
  BY SameSuite
<1> QED
  BY <1>2, <1>3 DEF Comes, ToCome

\* The next cleanup begins, and the last one leaves nothing that is held.
LEMMA CleanupReturnsAccounted ==
  ASSUME Basics, AllKnown, Accounted, suite' = suite, CleanupReturns
  PROVE  Accounted'
<1>t. ControlTypes /\ suite \in DOMAIN Suites /\ who \in Runners
  BY TypeParts DEF Basics, Positions, CleanupReturns
<1>0. /\ phase = "cleanup" /\ step > Len(CleanupSteps(who))
      /\ UNCHANGED <<live, dying, held, force, tainted>>
  BY DEF CleanupReturns
<1>1. \A k : ~ToCome(CleanupSteps(who), k)
  <2>1. Len(CleanupSteps(who)) \in Nat /\ step \in Nat
    BY <1>t, CleanupCovers, LenProperties DEF ControlTypes
  <2> QED
    BY <1>0, <2>1 DEF ToCome
<1>2. /\ Len(Suite.cleanup) \in Nat \ {0} /\ pos \in 0..Len(Suite.cleanup)
  BY <1>t, SuiteFacts DEF ControlTypes
<1>3. Unforced' => Unforced /\ phase # "run"
  BY <1>0 DEF Unforced
<1>4. ASSUME NEW q \in Runners, NEW k \in Named, Name(q, k) \in live,
             IsHeld(q, k), Comes(q, k)
      PROVE  Comes(q, k)'
  <2>1. /\ q # who
        /\ pos > 0 =>
             \E i \in (pos + 1)..Len(Suite.cleanup) : Suite.cleanup[i] = q
    BY <1>0, <1>1, <1>4 DEF Comes
  <2>2. CASE pos = 0
    <3>1. phase' = "test"
      BY <2>2 DEF CleanupReturns, Goto
    <3> QED
      BY <3>1 DEF Comes
  <2>3. CASE pos > 0 /\ pos < Len(Suite.cleanup)
    <3>1. /\ phase' = "cleanup" /\ step' = 1 /\ pos' = pos + 1
          /\ who' = Suite.cleanup[pos + 1]
      BY <2>3 DEF CleanupReturns, Goto
    <3>2. PICK i \in (pos + 1)..Len(Suite.cleanup) : Suite.cleanup[i] = q
      BY <2>1, <2>3
    <3>3. CASE who' = q
      BY <1>4, <3>1, <3>3, FirstComes
    <3>4. CASE who' # q
      <4>1. i \in (pos' + 1)..Len(Suite.cleanup)
        BY <1>2, <3>1, <3>2, <3>4
      <4> QED
        BY <3>1, <3>2, <3>4, <4>1, SameSuite DEF Comes
    <3> QED
      BY <3>3, <3>4
  <2>4. CASE pos = Len(Suite.cleanup)
    BY <1>2, <2>1, <2>4
  <2> QED
    BY <1>2, <2>2, <2>3, <2>4
<1> QED
  BY <1>0, <1>3, <1>4, MovedAccounted

\* A cleanup begins, or the process comes closer to it.
LEMMA OnwardAccounted ==
  ASSUME Basics, AllKnown, Accounted, suite' = suite, Onward
  PROVE  Accounted'
<1>t. ControlTypes /\ suite \in DOMAIN Suites
  BY TypeParts DEF Basics
<1>0. UNCHANGED <<live, dying, held>> /\ tainted' = tainted
  BY OnwardFacts
<1>1. Unforced' => Unforced /\ phase # "run"
  <2>1. CASE (\E r \in Runners : TestCleanup(r)) \/ TestEnds
    <3>1. phase = "test" /\ force' = force
      BY <2>1 DEF TestCleanup, TestEnds, Stay
    <3> QED
      BY <3>1 DEF Unforced
  <2>2. CASE CountRestarts \/ CleanupTrafficDirector
    <3>1. phase \in {"restarts", "td"} /\ force' = force
      BY <2>2 DEF CountRestarts, CleanupTrafficDirector, Stay
    <3> QED
      BY <3>1 DEF Unforced
  <2>3. CASE ForcedTearDown
    <3>1. force'
      BY <2>3 DEF ForcedTearDown
    <3> QED
      BY <3>1 DEF Unforced
  <2>4. CASE Abort
    <3>1. phase' = "orphaned"
      BY <2>4 DEF Abort, Goto
    <3> QED
      BY <3>1 DEF Unforced
  <2> QED
    BY <2>1, <2>2, <2>3, <2>4 DEF Onward
<1>2. ASSUME NEW q \in Runners, NEW k \in Named, Name(q, k) \in live,
             IsHeld(q, k), phase' # "done"
      PROVE  Comes(q, k)'
  <2>1. CASE phase' # "cleanup"
    BY <1>2, <2>1 DEF Comes
  <2>2. CASE phase' = "cleanup" /\ who' = q
    <3>1. step' = 1
      BY <2>2, OnwardFacts
    <3> QED
      BY <1>2, <2>2, <3>1, FirstComes
  <2>3. CASE phase' = "cleanup" /\ who' # q
    <3>1. \/ pos' = 0
          \/ pos' = 1 /\ who' = Suite.cleanup[1]
      BY <2>3, OnwardFacts DEF Basics, Positions
    <3>2. PICK i \in 1..Len(Suite.cleanup) : Suite.cleanup[i] = q
      BY <1>t, SuiteFacts
    <3>3. pos' = 1 => i \in (pos' + 1)..Len(Suite.cleanup)
      <4>1. pos' = 1 => i # 1
        BY <2>3, <3>1, <3>2
      <4>2. Len(Suite.cleanup) \in Nat
        BY <1>t, SuiteFacts
      <4> QED
        BY <3>2, <4>1, <4>2
    <3>4. pos' > 0 =>
            \E j \in (pos' + 1)..Len(Suite.cleanup) : Suite.cleanup[j] = q
      BY <3>1, <3>2, <3>3
    <3> QED
      BY <2>3, <3>4, SameSuite DEF Comes
  <2> QED
    BY <2>1, <2>2, <2>3
<1>3. phase' # "done"
  BY OnwardFacts
<1> QED
  BY <1>0, <1>1, <1>2, <1>3, MovedAccounted

\* Everything is accounted for after each step.
Explains == Started /\ Namespaces /\ Accounted

LEMMA NextExplains ==
  Basics /\ Remembered /\ Swept /\ Explains /\ [Next]_vars => Explains'
<1> SUFFICES ASSUME Basics, Remembered, Swept, Explains, [Next]_vars
             PROVE  Accounted'
  BY NextStarted, NextNamespaces DEF Explains
<1>s. suite' = suite
  BY StepCases DEF vars
<1>h. Started /\ Namespaces /\ Accounted /\ AllKnown
  BY DEF Explains, Swept
<1>1. ASSUME NEW o \in dying, Gone(o) PROVE Accounted'
  <2>1. UNCHANGED <<held, phase, pos, who, step, force, tainted>>
    BY <1>1 DEF Gone, runner, control
  <2> QED
    BY <1>1, <1>h, <1>s, <2>1, GoneDying, SameAccounted
<1>2. CASE Unwind
  BY <1>2, <1>h, <1>s, SameAccounted DEF Unwind, Stop, IsDying
<1>3. CASE UNCHANGED vars
  BY <1>3, <1>h, <1>s, SameAccounted DEF vars, runner, control, IsDying
<1>4. CASE Interrupt
  <2>1. phase' = "interrupted"
    BY <1>4 DEF Interrupt, Goto
  <2> QED
    BY <2>1 DEF Accounted, Unforced
<1> QED
  BY Zenon, <1>1, <1>2, <1>3, <1>4, <1>h, <1>s, StepCases, RunAccounted,
    PolicyAccounted, PolicyFailsAccounted, RunStepAccounted,
    CleanupStepAccounted, CleanupReturnsAccounted, OnwardAccounted

\* At first there is only what was left over.
LEMMA InitExplains == Init => Explains
<1> SUFFICES ASSUME Init PROVE Explains
  OBVIOUS
<1>1. /\ suite \in DOMAIN Suites /\ live = Suite.leftovers /\ dying = {}
      /\ phase = "test" /\ runs = [r \in Runners |-> 0]
  BY DEF Init
<1>2. \A r \in Runners : ~(runs[r] > 0)
  BY <1>1
<1> QED
  BY <1>1, <1>2 DEF Explains, Started, Namespaces, Accounted, Stray

\* What outlives a cleanup() that came to its end is there because a request
\* about it failed, because the service account by which the runner would have
\* known of a grant could not be created, or because it is shared for reuse (run
\* and cleanup of the runners, tearDown), with force and without it.
THEOREM LeaksAreProved == Spec => []LeaksAreExplained
<1>1. Init => Basics /\ Remembered /\ Swept /\ Explains
  BY InitBasics, InitRemembers, InitSwept, InitExplains
<1>2. Basics /\ Remembered /\ Swept /\ Explains /\ [Next]_vars =>
        (Basics /\ Remembered /\ Swept /\ Explains)'
  BY NextBasics, NextRemembers, NextSwept, NextExplains
<1>3. Basics /\ Swept /\ Explains => LeaksAreExplained
  <2> SUFFICES ASSUME Basics, Swept, Explains, phase = "done",
                      NEW r \in Runners, NEW k \in Named, Stray(r, k)
               PROVE  Excused(r, k)
    BY DEF LeaksAreExplained, Stray, Excused, Named
  <2>1. CASE force
    <3>1. Name(r, k) \in refused \cup tainted
      BY <2>1 DEF Swept, ForcedCleanupRemoves, Stray
    <3> QED
      BY <3>1 DEF Excused, Basics, TypeOK
  <2>2. CASE ~force
    <3>1. Excused(r, k) \/ Owned(r, k)
      BY <2>2 DEF Explains, Accounted, Unforced
    <3> QED
      BY <3>1 DEF Owned, Comes
  <2> QED
    BY <2>1, <2>2
<1> QED
  BY <1>1, <1>2, <1>3, PTL DEF Spec
===============================================================================

--------------------------------- MODULE Waits ---------------------------------
(***************************************************************************)
(* The waits of the framework: for the channels of the test client, for    *)
(* its traffic and its configuration, for the security of its connection,  *)
(* for the Kubernetes API server and for the health of the backends.  All  *)
(* of them are loops of the same retryers around looks at a system that    *)
(* moves on.                                                               *)
(*                                                                         *)
(* A behaviour is one wait, from its call until it returns or raises.      *)
(***************************************************************************)
EXTENDS ChannelWaits, Assertions, Sockets, K8sCalls, BackendHealth

CONSTANT Kinds    \* the waits to choose from

VARIABLE which    \* the one of this behaviour

AllKinds == {"Channel", "Security", "Kubernetes", "Health"} \cup AssertionKinds
ASSUME KindsConstant == Kinds \subseteq AllKinds

vars == <<which, channelVars, assertVars, socketVars, k8sVars, healthVars>>

channelRest == <<wait, sampleVars, clientVars, disturbed>>
healthRest == <<zone, up, pending, healthy, toPoll, attempt, disruptions, good>>

Init ==
  /\ which \in Kinds
  /\ IF which = "Channel" THEN ChannelInit
     ELSE /\ wait = "server" /\ moves = 0 /\ calm = {} /\ disturbed = FALSE
          /\ chan = [c \in Channels |-> Idle] /\ snap = chan /\ todo = {}
          /\ cur = CHOOSE c \in Channels : TRUE
          /\ second = Idle
          /\ pc = "look" /\ looks = 0
  /\ AssertionInit(IF which \in AssertionKinds THEN which ELSE "none")
  /\ IF which = "Security" THEN SocketInit
     ELSE /\ asked = CHOOSE a \in Asked : Reasonable(a)
          /\ conns = <<>> /\ clientEnds = {} /\ serverEnds = {}
          /\ looked = 0 /\ matched = 0
  /\ IF which = "Kubernetes" THEN K8sInit ELSE K8sIdle("get", "absent", TRUE)
  /\ IF which = "Health" THEN HealthInit
     ELSE /\ zone = [r \in Replicas |-> CHOOSE b \in Backends : TRUE]
          /\ up = [r \in Replicas |-> TRUE]
          /\ pending = {} /\ healthy = Backends /\ toPoll = {}
          /\ attempt = 0 /\ disruptions = 0 /\ good = 0

\* One step of the wait, or one of the system that it looks at.
Only(part) ==
  /\ UNCHANGED which
  /\ part # "Channel"    => UNCHANGED channelRest
  /\ part # "Assertion"  => UNCHANGED assertVars
  /\ part # "Security"   => UNCHANGED socketVars
  /\ part # "Kubernetes" => UNCHANGED k8sVars
  /\ part # "Health"     => UNCHANGED healthRest

TestStep ==
  \/ which = "Channel"         /\ WaitStep      /\ Only("Channel")
  \/ which \in AssertionKinds  /\ AssertionStep /\ Only("Assertion")
  \/ which = "Security"        /\ SecurityStep  /\ Only("Security")
  \/ which = "Kubernetes"      /\ K8sStep       /\ Only("Kubernetes")
  \/ which = "Health"          /\ HealthStep    /\ Only("Health")

SystemStep ==
  \/ which = "Channel"         /\ ClientStep    /\ Only("Channel")
  \/ which \in AssertionKinds  /\ WorldStep     /\ Only("Assertion")
  \/ which = "Security"        /\ SocketWorld   /\ Only("Security")
  \/ which = "Kubernetes"      /\ K8sWorld      /\ Only("Kubernetes")
  \/ which = "Health"          /\ HealthWorld   /\ Only("Health")

Next == TestStep \/ SystemStep

\* The process that waits takes its steps; nothing else need ever happen.
Spec == Init /\ [][Next]_vars /\ WF_vars(TestStep)

-------------------------------------------------------------------------------
(* Properties *)

TypeOK ==
  /\ looks \in 0..MaxLooks
  /\ which \in Kinds
  /\ which = "Channel"         => ChannelTypeOK
  /\ which \in AssertionKinds  => AssertionTypeOK
  /\ which = "Security"        => SocketTypeOK
  /\ which = "Kubernetes"      => K8sTypeOK
  /\ which = "Health"          => HealthTypeOK

\* A wait returns or raises, whatever the system does: its time is looked at
\* after each attempt, and each attempt ends (retryers.py:126).
WaitsEnd == <>(pc \in Ends)
===============================================================================

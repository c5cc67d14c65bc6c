------------------------------ MODULE IamMembers ------------------------------
(***************************************************************************)
(* What the IAM helpers of the framework promise to their callers.         *)
(*                                                                         *)
(* A role of a service account is a plain set of grants.  A call adds or   *)
(* removes one grant, and nothing else; it may do so several times while   *)
(* it is running (it retries), it returns only if its effect was in place  *)
(* at some moment of the call, and after it returned it never acts again.  *)
(* Only a call that raised an error may still take effect later.           *)
(***************************************************************************)
EXTENDS Naturals

CONSTANTS
  Jobs,        \* test jobs sharing one GCP service account
  Grants,      \* what can be granted: <<role, condition, member>>
  Ops,         \* the calls: [kind : {"add", "remove"}, grant : Grants]
  None         \* no call was made yet

VARIABLES
  granted,     \* the grants in force
  status,      \* per job: "idle", "running", "effective", "done", "failed"
  request,     \* per job: the call in progress, or the last one
  lingering,   \* calls that raised an error and may still take effect
  outside      \* changes other principals made so far

mvars == <<granted, status, request, lingering, outside>>

Effect(o, G) == IF o.kind = "add" THEN G \cup {o.grant} ELSE G \ {o.grant}

InProgress == {"running", "effective"}

Init ==
  /\ granted \in SUBSET Grants
  /\ status = [j \in Jobs |-> "idle"]
  /\ request = [j \in Jobs |-> None]
  /\ lingering = {}
  /\ outside = 0

Submit(j, o) ==
  /\ status[j] \notin InProgress
  /\ status' = [status EXCEPT ![j] = "running"]
  /\ request' = [request EXCEPT ![j] = o]
  /\ UNCHANGED <<granted, lingering, outside>>

TakeEffect(j) ==
  /\ status[j] \in InProgress
  /\ granted' = Effect(request[j], granted)
  /\ status' = [status EXCEPT ![j] = "effective"]
  /\ UNCHANGED <<request, lingering, outside>>

\* Success: the call took effect, or found its effect already in place.
Return(j) ==
  /\ \/ status[j] = "effective"
     \/ status[j] = "running" /\ Effect(request[j], granted) = granted
  /\ status' = [status EXCEPT ![j] = "done"]
  /\ UNCHANGED <<granted, request, lingering, outside>>

Raise(j) ==
  /\ status[j] \in InProgress
  /\ status' = [status EXCEPT ![j] = "failed"]
  /\ lingering' \in {lingering, lingering \cup {request[j]}}
  /\ UNCHANGED <<granted, request, outside>>

LateEffect(o) ==
  /\ o \in lingering
  /\ granted' = Effect(o, granted)
  /\ UNCHANGED <<status, request, lingering, outside>>

\* A principal outside the framework edits the policy.
Outside ==
  /\ granted' \in SUBSET Grants
  /\ outside' = outside + 1
  /\ UNCHANGED <<status, request, lingering>>

Next ==
  \/ \E j \in Jobs : \/ \E o \in Ops : Submit(j, o)
                     \/ TakeEffect(j)
                     \/ Return(j)
                     \/ Raise(j)
  \/ \E o \in Ops : LateEffect(o)
  \/ Outside

Spec == Init /\ [][Next]_mvars
===============================================================================

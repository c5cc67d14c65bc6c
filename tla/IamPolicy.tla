------------------------------ MODULE IamPolicy -------------------------------
(***************************************************************************)
(* Read-modify-write of a service account's IAM policy by test jobs that   *)
(* share the account: framework/infrastructure/gcp/iam.py over the HTTP    *)
(* retries of framework/infrastructure/gcp/api.py.                         *)
(*                                                                         *)
(* A request that timed out on the client may still be on the wire and be  *)
(* served later: wire holds the setIamPolicy requests not served yet.      *)
(***************************************************************************)
EXTENDS Naturals

CONSTANTS
  Jobs,          \* test jobs
  Roles, Members,
  Conditions,    \* conditions a binding may carry
  NoCondition,   \* ... and the absence of one
  None,          \* Python's None
  ApiAttempts,   \* HTTP attempts of one _execute (11 in the code)
  MaxRounds,     \* read-modify-write rounds that fit in the two minutes
  MaxCalls,      \* bound: calls a job makes
  MaxOutside     \* bound: policy changes made outside the framework

ASSUME IamConstants ==
  /\ NoCondition \in Conditions
  /\ ApiAttempts \in Nat \ {0} /\ MaxRounds \in Nat \ {0}
  /\ MaxCalls \in Nat /\ MaxOutside \in Nat

Binding == [role : Roles, condition : Conditions, members : SUBSET Members]

ASSUME NoneIsNoBinding == None \notin Binding

Policy == [etag : Nat, bindings : SUBSET Binding]
Ops    == [kind : {"add", "remove"}, role : Roles, member : Members]

ASSUME NoneIsNoCall == None \notin Ops

Request == [job : Jobs, call : Nat, op : Ops, etag : Nat,
            bindings : SUBSET Binding]

VARIABLES
  policy,     \* the policy the service holds
  wire,       \* setIamPolicy requests sent and not served yet
  pc,         \* per job: where its call is
  op,         \* per job: the call in progress, or the last one
  seen,       \* per job: the policy getIamPolicy returned
  tries,      \* per job: HTTP attempts of the current _execute
  rounds,     \* per job: rounds of handle_etag_conflict
  calls,      \* per job: calls made so far
  outside,    \* changes made outside the framework so far
  took,       \* history: the current call's write was applied
  abandoned   \* history: calls that raised with a write still on the wire

callVars == <<op, seen, tries, rounds, calls>>
vars == <<policy, wire, pc, op, seen, tries, rounds, calls, outside, took,
          abandoned>>

Active == {"get", "send", "sent", "applied", "conflict"}
Phases == Active \cup {"idle", "done", "failed"}

-------------------------------------------------------------------------------
(* Policies *)

Unique(bs) ==
  \A b1, b2 \in bs :
    b1.role = b2.role /\ b1.condition = b2.condition => b1 = b2

\* The grants a set of bindings stands for.
GrantsOf(bs) ==
  {g \in Roles \X Conditions \X Members :
     \E b \in bs : b.role = g[1] /\ b.condition = g[2] /\ g[3] \in b.members}

Granted == GrantsOf(policy.bindings)

find_binding_for_role(bs, role) ==
  LET results == {b \in bs : b.role = role /\ b.condition = NoCondition}
  IN  IF results = {} THEN None ELSE CHOOSE b \in results : TRUE

\* Slip: the old binding is not discarded.
AddBinding(bs, binding, new_binding) == bs \cup {new_binding}

replace_binding(bs, binding, new_binding) == (bs \ {binding}) \cup {new_binding}

IsNoop(bs, o) ==
  LET binding == find_binding_for_role(bs, o.role)
  IN  IF o.kind = "add"
      THEN binding # None /\ o.member \in binding.members
      ELSE binding = None \/ o.member \notin binding.members

UpdatedBinding(binding, o) ==
  IF o.kind = "add"
  THEN IF binding = None
       THEN [role |-> o.role, condition |-> NoCondition, members |-> {o.member}]
       ELSE [binding EXCEPT !.members = @ \cup {o.member}]
  ELSE [binding EXCEPT !.members = @ \ {o.member}]

UpdatedBindings(bs, o) ==
  LET binding == find_binding_for_role(bs, o.role)
  IN  replace_binding(bs, binding, UpdatedBinding(binding, o))

\* The service may keep a binding left without members, or drop it.
Stored(bs) == {bs, {b \in bs : b.members # {}}}

-------------------------------------------------------------------------------
Init ==
  /\ \E bs \in SUBSET Binding :
       Unique(bs) /\ policy = [etag |-> 0, bindings |-> bs]
  /\ wire = {}
  /\ pc = [j \in Jobs |-> "idle"]
  /\ op = [j \in Jobs |-> None]
  /\ seen = [j \in Jobs |-> None]
  /\ tries = [j \in Jobs |-> 0]
  /\ rounds = [j \in Jobs |-> 0]
  /\ calls = [j \in Jobs |-> 0]
  /\ outside = 0
  /\ took = [j \in Jobs |-> FALSE]
  /\ abandoned = {}

\* add_service_account_iam_policy_binding / remove_..., called by the runners.
Call(j, o) ==
  /\ pc[j] \notin Active /\ calls[j] < MaxCalls
  /\ pc' = [pc EXCEPT ![j] = "get"]
  /\ op' = [op EXCEPT ![j] = o]
  /\ tries' = [tries EXCEPT ![j] = 1]
  /\ rounds' = [rounds EXCEPT ![j] = 1]
  /\ calls' = [calls EXCEPT ![j] = @ + 1]
  /\ took' = [took EXCEPT ![j] = FALSE]
  /\ UNCHANGED <<policy, wire, seen, outside, abandoned>>

\* getIamPolicy answers; the early returns, or the update to be written.
Get(j) ==
  /\ pc[j] = "get"
  /\ IF IsNoop(policy.bindings, op[j])
     THEN pc' = [pc EXCEPT ![j] = "done"] /\ UNCHANGED seen
     ELSE /\ pc' = [pc EXCEPT ![j] = "send"]
          /\ seen' = [seen EXCEPT ![j] = policy]
  /\ tries' = [tries EXCEPT ![j] = 1]
  /\ UNCHANGED <<policy, wire, op, rounds, calls, outside, took, abandoned>>

\* Slip: the body carries the etag of the moment, not the one that was read.
LatestEtagRequest(j) ==
  [job |-> j, call |-> calls[j], op |-> op[j], etag |-> policy.etag,
   bindings |-> UpdatedBindings(seen[j].bindings, op[j])]

SetRequest(j) ==
  [job |-> j, call |-> calls[j], op |-> op[j], etag |-> seen[j].etag,
   bindings |-> UpdatedBindings(seen[j].bindings, op[j])]

Send(j) ==
  /\ pc[j] = "send"
  /\ pc' = [pc EXCEPT ![j] = "sent"]
  /\ wire' = wire \cup {SetRequest(j)}
  /\ UNCHANGED <<policy, callVars, outside, took, abandoned>>

\* The function's locals are gone.
Forget(j) == seen' = [seen EXCEPT ![j] = None]

Return(j) ==
  /\ pc[j] = "applied"
  /\ pc' = [pc EXCEPT ![j] = "done"]
  /\ Forget(j)
  /\ UNCHANGED <<policy, wire, op, tries, rounds, calls, outside, took,
                 abandoned>>

\* An exception leaves the call; its write may still be on the wire.
Raise(j) ==
  /\ pc' = [pc EXCEPT ![j] = "failed"]
  /\ abandoned' = IF \E r \in wire' : r.job = j /\ r.call = calls[j]
                  THEN abandoned \cup {op[j]} ELSE abandoned
  /\ Forget(j)
  /\ UNCHANGED <<policy, op, tries, rounds, calls, outside, took>>

\* The retryer of handle_etag_conflict: another round, or out of time.
NextRound(j) ==
  /\ UNCHANGED wire
  /\ \/ /\ rounds[j] < MaxRounds
        /\ pc' = [pc EXCEPT ![j] = "get"]
        /\ rounds' = [rounds EXCEPT ![j] = @ + 1]
        /\ tries' = [tries EXCEPT ![j] = 1]
        /\ Forget(j)
        /\ UNCHANGED <<policy, op, calls, outside, took, abandoned>>
     \/ Raise(j)

\* Slip: a conflict is taken for "somebody did it already".
ConflictIsDone(j) ==
  /\ pc[j] = "conflict"
  /\ pc' = [pc EXCEPT ![j] = "done"]
  /\ Forget(j)
  /\ UNCHANGED <<policy, wire, op, tries, rounds, calls, outside, took,
                 abandoned>>

\* 409: EtagConflict.
Conflict(j) == pc[j] = "conflict" /\ NextRound(j)

\* Slips: a write without an answer is taken for done; attempts not counted.
FaultIsDone(j) ==
  /\ pc[j] \in {"sent", "applied"}
  /\ pc' = [pc EXCEPT ![j] = "done"]
  /\ Forget(j)
  /\ UNCHANGED <<policy, wire, op, tries, rounds, calls, outside, took,
                 abandoned>>

FaultForever(j) ==
  /\ pc[j] \in {"get", "sent", "applied", "conflict"}
  /\ pc' = [pc EXCEPT ![j] = IF @ = "get" THEN "get" ELSE "send"]
  /\ UNCHANGED <<policy, wire, callVars, outside, took, abandoned>>

\* No answer, 429 or 5xx: _execute repeats the same request, and when it runs
\* out of attempts raises TransportError (another round) or ResponseError.
Fault(j) ==
  /\ pc[j] \in {"get", "sent", "applied", "conflict"}
  /\ \/ /\ tries[j] < ApiAttempts
        /\ tries' = [tries EXCEPT ![j] = @ + 1]
        /\ pc' = [pc EXCEPT ![j] = IF @ = "get" THEN "get" ELSE "send"]
        /\ UNCHANGED <<policy, wire, op, seen, rounds, calls, outside, took,
                       abandoned>>
     \/ tries[j] = ApiAttempts /\ NextRound(j)
     \/ tries[j] = ApiAttempts /\ UNCHANGED wire /\ Raise(j)

\* Any other error status: ResponseError, which nothing retries.
Denied(j) ==
  /\ pc[j] \in {"get", "sent"}
  /\ wire' \in IF pc[j] = "get" THEN {wire} ELSE {wire, wire \ {SetRequest(j)}}
  /\ Raise(j)

-------------------------------------------------------------------------------
(* The IAM service *)

IsCurrent(r) == r.call = calls[r.job] /\ pc[r.job] \in Active

Answer(r, phase) ==
  pc' = IF IsCurrent(r) /\ pc[r.job] = "sent"
        THEN [pc EXCEPT ![r.job] = phase] ELSE pc

Apply(r) ==
  /\ r \in wire /\ r.etag = policy.etag
  /\ \E bs \in Stored(r.bindings) :
       policy' = [etag |-> policy.etag + 1, bindings |-> bs]
  /\ wire' = wire \ {r}
  /\ Answer(r, "applied")
  /\ took' = IF IsCurrent(r) THEN [took EXCEPT ![r.job] = TRUE] ELSE took
  /\ UNCHANGED <<callVars, outside, abandoned>>

Reject(r) ==
  /\ r \in wire /\ r.etag # policy.etag
  /\ wire' = wire \ {r}
  /\ Answer(r, "conflict")
  /\ UNCHANGED <<policy, callVars, outside, took, abandoned>>

\* Somebody outside the framework edits one binding of the policy.
Outside(role, condition, members) ==
  /\ outside < MaxOutside
  /\ LET others == {b \in policy.bindings :
                      ~(b.role = role /\ b.condition = condition)}
     IN  policy' = [etag |-> policy.etag + 1, bindings |-> others \cup
                      {[role |-> role, condition |-> condition,
                        members |-> members]}]
  /\ outside' = outside + 1
  /\ UNCHANGED <<wire, pc, callVars, took, abandoned>>

Step(j) ==
  Get(j) \/ Send(j) \/ Return(j) \/ Conflict(j) \/ Fault(j) \/ Denied(j)

Next ==
  \/ \E j \in Jobs : Step(j) \/ \E o \in Ops : Call(j, o)
  \/ \E r \in wire : Apply(r) \/ Reject(r)
  \/ \E role \in Roles, c \in Conditions, ms \in SUBSET Members :
       Outside(role, c, ms)

\* A job that makes a call runs it to the end: every HTTP attempt is answered
\* or times out.  Nothing is assumed of the service or of other principals.
Fairness == \A j \in Jobs : WF_vars(Step(j))

Spec == Init /\ [][Next]_vars /\ Fairness

-------------------------------------------------------------------------------
(* Properties *)

TypeOK ==
  /\ policy \in Policy
  /\ wire \in SUBSET Request
  /\ pc \in [Jobs -> Phases]
  /\ op \in [Jobs -> Ops \cup {None}]
  /\ seen \in [Jobs -> Policy \cup {None}]
  /\ tries \in [Jobs -> Nat] /\ rounds \in [Jobs -> Nat]
  /\ calls \in [Jobs -> Nat] /\ outside \in Nat
  /\ took \in [Jobs -> BOOLEAN]
  /\ abandoned \in SUBSET Ops

\* At most one binding per role and condition, so that the binding
\* find_binding_for_role happens to return is the only one there is.
UniqueBindings == Unique(policy.bindings)

\* No write the service would still accept was computed from another policy
\* than the one in force: a round that lost a race cannot undo the winner.
WritesAreFresh ==
  \A r \in wire :
    r.etag = policy.etag => r.bindings = UpdatedBindings(policy.bindings, r.op)

\* Once add_/remove_service_account_iam_policy_binding returned, none of the
\* attempts it abandoned on the way can be applied any more.
ReturnedIsFenced ==
  \A r \in wire :
    pc[r.job] = "done" /\ r.call = calls[r.job] => r.etag < policy.etag

\* Conflicts, lost answers and outages included, every call comes back.
CallsReturn == \A j \in Jobs : pc[j] \in Active ~> pc[j] \notin Active

AbstractOp(o) ==
  [kind |-> o.kind, grant |-> <<o.role, NoCondition, o.member>>]

AbstractOps ==
  [kind : {"add", "remove"}, grant : Roles \X Conditions \X Members]

Promise == INSTANCE IamMembers WITH
  Grants <- Roles \X Conditions \X Members,
  Ops <- AbstractOps,
  granted <- Granted,
  status <- [j \in Jobs |-> IF pc[j] \in Active
                            THEN IF took[j] THEN "effective" ELSE "running"
                            ELSE pc[j]],
  request <- [j \in Jobs |-> IF op[j] = None THEN None ELSE AbstractOp(op[j])],
  lingering <- {AbstractOp(o) : o \in abandoned}

\* The retried, etag-checked read-modify-write is an update of one grant.
IsAtomicUpdate == Promise!Spec
===============================================================================

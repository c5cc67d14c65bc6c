--------------------------- MODULE IamPolicy_proofs ---------------------------
(***************************************************************************)
(* Proofs about IamPolicy, for any number of jobs, roles, members,         *)
(* conditions, attempts and rounds.                                        *)
(*                                                                         *)
(* The inductive invariant IInv says what the etag buys: whatever a job    *)
(* has in hand or on the wire under the etag in force was computed from    *)
(* the policy in force and is not a no-op there, and a call that was       *)
(* answered left nothing on the wire under that etag.                      *)
(*                                                                         *)
(* With it, IamPolicy implements IamMembers: the retried read-modify-write *)
(* of a policy is an atomic update of one grant.  The mapping needs two    *)
(* facts of history besides.  A call whose write was answered has had its  *)
(* effect; and a request on the wire that belongs to no running call       *)
(* either carries a stale etag, or its call raised and is among those that *)
(* may still act.                                                          *)
(***************************************************************************)
EXTENDS IamPolicy, TLAPS

\* A job between its read and its next read.
Holding == {"send", "sent", "applied", "conflict"}

SeenIsFresh ==
  \A j \in Jobs : pc[j] \in Holding =>
    /\ op[j] \in Ops /\ seen[j] \in Policy
    /\ Unique(seen[j].bindings) /\ ~IsNoop(seen[j].bindings, op[j])
    /\ seen[j].etag <= policy.etag
    /\ seen[j].etag = policy.etag => seen[j].bindings = policy.bindings

WireIsFresh ==
  \A r \in wire :
    /\ r.etag <= policy.etag
    /\ r.etag = policy.etag =>
         /\ r.bindings = UpdatedBindings(policy.bindings, r.op)
         /\ ~IsNoop(policy.bindings, r.op)

\* A request belongs to a call that was made; the current call's carry its op.
WireIsOwned ==
  \A r \in wire :
    /\ r.call <= calls[r.job]
    /\ r.call = calls[r.job] => r.op = op[r.job]

AnsweredIsFenced ==
  \A r \in wire :
    pc[r.job] \in {"applied", "done"} /\ r.call = calls[r.job]
      => r.etag < policy.etag

ActiveHasOp == \A j \in Jobs : pc[j] \in Active => op[j] \in Ops

IInv == /\ TypeOK /\ UniqueBindings /\ ActiveHasOp
        /\ SeenIsFresh /\ WireIsFresh /\ WireIsOwned /\ AnsweredIsFenced

-------------------------------------------------------------------------------
(* Lemmas about the operators on bindings *)

\* What find_binding_for_role returns is a binding of the set for that role,
\* without a condition, or None when there is no such binding.
LEMMA FindBinding ==
  ASSUME NEW bs \in SUBSET Binding, NEW role \in Roles,
         NEW b, b = find_binding_for_role(bs, role)
  PROVE  \/ /\ b = None
            /\ \A c \in bs : ~(c.role = role /\ c.condition = NoCondition)
         \/ b \in bs /\ b.role = role /\ b.condition = NoCondition
<1> DEFINE results == {c \in bs : c.role = role /\ c.condition = NoCondition}
<1>1. CASE results = {}
  BY <1>1 DEF find_binding_for_role
<1>2. CASE results # {}
  <2>1. (CHOOSE c \in results : TRUE) \in results
    BY <1>2
  <2>2. b = CHOOSE c \in results : TRUE
    BY <1>2 DEF find_binding_for_role
  <2> QED
    BY <2>1, <2>2
<1> QED
  BY <1>1, <1>2

\* The update of a well-formed set of bindings is a well-formed set of bindings.
LEMMA UpdateIsWellFormed ==
  ASSUME NEW bs \in SUBSET Binding, Unique(bs), NEW o \in Ops,
         ~IsNoop(bs, o)
  PROVE  /\ UpdatedBindings(bs, o) \in SUBSET Binding
         /\ Unique(UpdatedBindings(bs, o))
<1> DEFINE b == find_binding_for_role(bs, o.role)
           n == UpdatedBinding(b, o)
<1>o. o.role \in Roles /\ o.member \in Members /\ o.kind \in {"add", "remove"}
  BY DEF Ops
<1>1. UpdatedBindings(bs, o) = (bs \ {b}) \cup {n}
  BY DEF UpdatedBindings, replace_binding
<1> HIDE DEF b
<1>2. \/ /\ b = None
         /\ \A c \in bs : ~(c.role = o.role /\ c.condition = NoCondition)
      \/ b \in bs /\ b.role = o.role /\ b.condition = NoCondition
  BY FindBinding, <1>o DEF b
<1>3. b = None => o.kind = "add"
  BY <1>o DEF IsNoop, b
<1>4. n \in Binding /\ n.role = o.role /\ n.condition = NoCondition
  <2>1. CASE b = None
    BY <2>1, <1>3, <1>o, IamConstants DEF UpdatedBinding, Binding
  <2>2. CASE b # None
    <3>1. b \in Binding /\ b.role = o.role /\ b.condition = NoCondition
      BY <2>2, <1>2
    <3> QED
      BY <2>2, <3>1, <1>o DEF UpdatedBinding, Binding
  <2> QED
    BY <2>1, <2>2
<1> HIDE DEF n
<1>5. \A c \in bs \ {b} : ~(c.role = o.role /\ c.condition = NoCondition)
  BY <1>2 DEF Unique
<1> QED
  BY <1>1, <1>4, <1>5 DEF Unique

\* Nor can the service break uniqueness by dropping the empty bindings.
LEMMA StoredIsWellFormed ==
  ASSUME NEW bs \in SUBSET Binding, Unique(bs), NEW st \in Stored(bs)
  PROVE  st \in SUBSET Binding /\ Unique(st)
BY DEF Stored, Unique

-------------------------------------------------------------------------------
(* The invariant *)

\* No job has called yet, and the policy of the service account is some
\* well-formed one.
LEMMA InitInv == Init => IInv
BY IamConstants DEF Init, IInv, TypeOK, UniqueBindings, ActiveHasOp,
  SeenIsFresh, WireIsFresh, WireIsOwned, AnsweredIsFenced, Policy, Phases,
  Active, Holding

\* A call starts: the writes on the wire become an earlier call's.
LEMMA CallInv ==
  ASSUME IInv, NEW j \in Jobs, NEW o \in Ops, Call(j, o)
  PROVE  IInv'
<1> USE DEF IInv, TypeOK
<1>1. TypeOK'
  BY DEF Call, Phases, Active, Policy, Request
<1>2. UniqueBindings'
  BY DEF Call, UniqueBindings
<1>3. ActiveHasOp'
  BY DEF Call, ActiveHasOp, Active, Phases
<1>4. SeenIsFresh'
  BY DEF Call, SeenIsFresh, ActiveHasOp, Holding, Active, Phases, Policy
<1>5. WireIsFresh'
  BY DEF Call, WireIsFresh
<1>6. WireIsOwned'
  BY DEF Call, WireIsOwned, Request
<1>7. AnsweredIsFenced'
  BY DEF Call, AnsweredIsFenced, WireIsOwned, Request, Phases, Active
<1> QED
  BY <1>1, <1>2, <1>3, <1>4, <1>5, <1>6, <1>7

\* The read: a no-op proves that no write of this call can still be accepted.
LEMMA GetInv ==
  ASSUME IInv, NEW j \in Jobs, Get(j)
  PROVE  IInv'
<1> USE DEF IInv, TypeOK
<1>1. TypeOK'
  BY DEF Get, Phases, Active, Policy, Request
<1>2. UniqueBindings'
  BY DEF Get, UniqueBindings
<1>3. ActiveHasOp'
  BY DEF Get, ActiveHasOp, Active, Phases
<1>4. SeenIsFresh'
  BY DEF Get, SeenIsFresh, ActiveHasOp, UniqueBindings, Holding, Active,
    Phases, Policy
<1>5. WireIsFresh'
  BY DEF Get, WireIsFresh
<1>6. WireIsOwned'
  BY DEF Get, WireIsOwned, Request
<1>7. AnsweredIsFenced'
  <2> SUFFICES ASSUME NEW r \in wire, pc'[r.job] \in {"applied", "done"},
                      r.call = calls[r.job]
               PROVE  r.etag < policy.etag
    BY DEF Get, AnsweredIsFenced
  <2>r. r.job \in Jobs /\ r.etag \in Nat /\ policy.etag \in Nat
    BY DEF Request, Policy
  <2>1. CASE pc[r.job] \in {"applied", "done"}
    BY <2>1 DEF AnsweredIsFenced
  <2>2. CASE pc[r.job] \notin {"applied", "done"}
    <3>1. r.job = j /\ IsNoop(policy.bindings, op[j])
      BY <2>2, <2>r DEF Get, Phases, Active
    <3>2. r.op = op[j] /\ r.etag <= policy.etag
      BY <3>1 DEF WireIsOwned, WireIsFresh
    <3>3. r.etag # policy.etag
      BY <3>1, <3>2 DEF WireIsFresh
    <3> QED
      BY <3>2, <3>3, <2>r
  <2> QED
    BY <2>1, <2>2
<1> QED
  BY <1>1, <1>2, <1>3, <1>4, <1>5, <1>6, <1>7

\* The write is computed from what was read.
LEMMA SendInv ==
  ASSUME IInv, NEW j \in Jobs, Send(j)
  PROVE  IInv'
<1> USE DEF IInv, TypeOK
<1>1. TypeOK'
  <2>1. SetRequest(j) \in Request
    <3>1. seen[j] \in Policy /\ op[j] \in Ops
      BY DEF Send, SeenIsFresh, Holding
    <3>2. UpdatedBindings(seen[j].bindings, op[j]) \in SUBSET Binding
      BY <3>1, UpdateIsWellFormed DEF Send, SeenIsFresh, Holding, Policy
    <3> QED
      BY <3>1, <3>2 DEF SetRequest, Request, Policy
  <2> QED
    BY <2>1 DEF Send, callVars, Phases, Active
<1>2. UniqueBindings'
  BY DEF Send, SetRequest, callVars, UniqueBindings
<1>3. ActiveHasOp'
  BY DEF Send, SetRequest, callVars, ActiveHasOp, Active, Phases
<1>4. SeenIsFresh'
  BY DEF Send, SetRequest, callVars, SeenIsFresh, ActiveHasOp, Holding,
    Active, Phases, Policy
<1>5. WireIsFresh'
  BY DEF Send, SetRequest, callVars, WireIsFresh, SeenIsFresh, Holding
<1>6. WireIsOwned'
  BY DEF Send, SetRequest, callVars, WireIsOwned, Request
<1>7. AnsweredIsFenced'
  BY DEF Send, SetRequest, callVars, AnsweredIsFenced, Request, Phases, Active
<1> QED
  BY <1>1, <1>2, <1>3, <1>4, <1>5, <1>6, <1>7

\* The answer arrives.
LEMMA ReturnInv ==
  ASSUME IInv, NEW j \in Jobs, Return(j)
  PROVE  IInv'
<1> USE DEF IInv, TypeOK
<1>1. TypeOK'
  BY DEF Return, Forget, Phases, Active, Policy, Request
<1>2. UniqueBindings'
  BY DEF Return, Forget, UniqueBindings
<1>3. ActiveHasOp'
  BY DEF Return, Forget, ActiveHasOp, Active, Phases
<1>4. SeenIsFresh'
  BY DEF Return, Forget, SeenIsFresh, ActiveHasOp, Holding, Active, Phases,
    Policy
<1>5. WireIsFresh'
  BY DEF Return, Forget, WireIsFresh
<1>6. WireIsOwned'
  BY DEF Return, Forget, WireIsOwned, Request
<1>7. AnsweredIsFenced'
  BY DEF Return, Forget, AnsweredIsFenced, WireIsOwned, Request, Phases, Active
<1> QED
  BY <1>1, <1>2, <1>3, <1>4, <1>5, <1>6, <1>7

\* An exception: what is left on the wire is still accounted for.
LEMMA RaiseInv ==
  ASSUME IInv, NEW j \in Jobs, pc[j] \in Active,
         wire' \subseteq wire, Raise(j)
  PROVE  IInv'
<1> USE DEF IInv, TypeOK
<1>1. TypeOK'
  BY DEF Raise, Forget, ActiveHasOp, Phases, Active
<1>2. UniqueBindings'
  BY DEF Raise, Forget, callVars, UniqueBindings
<1>3. ActiveHasOp'
  BY DEF Raise, Forget, callVars, ActiveHasOp, Active, Phases
<1>4. SeenIsFresh'
  BY DEF Raise, Forget, callVars, SeenIsFresh, ActiveHasOp, Holding, Active,
    Phases, Policy
<1>5. WireIsFresh'
  BY DEF Raise, Forget, callVars, WireIsFresh
<1>6. WireIsOwned'
  BY DEF Raise, Forget, callVars, WireIsOwned, Request
<1>7. AnsweredIsFenced'
  BY DEF Raise, Forget, callVars, AnsweredIsFenced, WireIsOwned, Request,
    Phases, Active
<1> QED
  BY <1>1, <1>2, <1>3, <1>4, <1>5, <1>6, <1>7

\* A new round forgets what was read.
LEMMA AgainInv ==
  ASSUME IInv, NEW j \in Jobs, pc[j] \in Active, UNCHANGED wire,
         UNCHANGED <<policy, op, calls, outside, took, abandoned>>,
         rounds' = [rounds EXCEPT ![j] = @ + 1],
         tries' = [tries EXCEPT ![j] = 1], pc' = [pc EXCEPT ![j] = "get"],
         Forget(j)
  PROVE  IInv'
<1> USE DEF IInv, TypeOK
<1>1. TypeOK'
  BY DEF Forget, Phases, Active, Policy, Request
<1>2. UniqueBindings'
  BY DEF Forget, UniqueBindings
<1>3. ActiveHasOp'
  BY DEF Forget, ActiveHasOp, Active, Phases
<1>4. SeenIsFresh'
  BY DEF Forget, SeenIsFresh, ActiveHasOp, Holding, Active, Phases, Policy
<1>5. WireIsFresh'
  BY DEF Forget, WireIsFresh
<1>6. WireIsOwned'
  BY DEF Forget, WireIsOwned, Request
<1>7. AnsweredIsFenced'
  BY DEF Forget, AnsweredIsFenced, WireIsOwned, Request, Phases, Active
<1> QED
  BY <1>1, <1>2, <1>3, <1>4, <1>5, <1>6, <1>7

\* _execute repeats the same request.
LEMMA RepeatInv ==
  ASSUME IInv, NEW j \in Jobs, pc[j] \in {"get", "sent", "applied", "conflict"},
         tries' = [tries EXCEPT ![j] = @ + 1],
         pc' = [pc EXCEPT ![j] = IF @ = "get" THEN "get" ELSE "send"],
         UNCHANGED <<policy, wire, op, seen, rounds, calls, outside, took,
                     abandoned>>
  PROVE  IInv'
<1> USE DEF IInv, TypeOK
<1>1. TypeOK'
  BY DEF Phases, Active, Policy, Request
<1>2. UniqueBindings'
  BY DEF UniqueBindings
<1>3. ActiveHasOp'
  BY DEF ActiveHasOp, Active, Phases
<1>4. SeenIsFresh'
  BY DEF SeenIsFresh, ActiveHasOp, Holding, Active, Phases, Policy
<1>5. WireIsFresh'
  BY DEF WireIsFresh
<1>6. WireIsOwned'
  BY DEF WireIsOwned, Request
<1>7. AnsweredIsFenced'
  BY DEF AnsweredIsFenced, WireIsOwned, Request, Phases, Active
<1> QED
  BY <1>1, <1>2, <1>3, <1>4, <1>5, <1>6, <1>7

\* handle_etag_conflict reads again, or gives up after its last round.
LEMMA NextRoundInv ==
  ASSUME IInv, NEW j \in Jobs, pc[j] \in Active, NextRound(j)
  PROVE  IInv'
<1>1. CASE Raise(j)
  BY <1>1, RaiseInv DEF NextRound
<1>2. CASE ~Raise(j)
  BY <1>2, AgainInv DEF NextRound
<1> QED
  BY <1>1, <1>2

\* An answer 409 goes to the retryer of handle_etag_conflict.
LEMMA ConflictInv ==
  ASSUME IInv, NEW j \in Jobs, Conflict(j)
  PROVE  IInv'
BY NextRoundInv DEF Conflict, Active

\* A request that fails is repeated by _execute, or retried from the read on,
\* or given up; the wire may still hold what was sent.
LEMMA FaultInv ==
  ASSUME IInv, NEW j \in Jobs, Fault(j)
  PROVE  IInv'
<1>1. pc[j] \in Active
  BY DEF Fault, Active
<1>2. CASE NextRound(j)
  BY <1>1, <1>2, NextRoundInv
<1>3. CASE UNCHANGED wire /\ Raise(j)
  BY <1>1, <1>3, RaiseInv
<1>4. CASE ~NextRound(j) /\ ~(UNCHANGED wire /\ Raise(j))
  BY <1>4, RepeatInv DEF Fault
<1> QED
  BY <1>2, <1>3, <1>4

\* An error that no retryer handles ends the call.
LEMMA DeniedInv ==
  ASSUME IInv, NEW j \in Jobs, Denied(j)
  PROVE  IInv'
<1>1. pc[j] \in Active /\ wire' \subseteq wire /\ Raise(j)
  BY DEF Denied, Active
<1> QED
  BY <1>1, RaiseInv

\* A write that is accepted leaves a well-formed policy under a new etag.
LEMMA ApplyIsWellFormed ==
  ASSUME IInv, NEW r \in wire, Apply(r)
  PROVE  /\ policy'.etag = policy.etag + 1 /\ policy'.etag \in Nat
         /\ policy'.bindings \in SUBSET Binding
         /\ Unique(policy'.bindings)
         /\ policy' \in Policy
<1>1. r.op \in Ops /\ policy.bindings \in SUBSET Binding /\ policy.etag \in Nat
  BY DEF IInv, TypeOK, Request, Policy
<1>2. r.bindings = UpdatedBindings(policy.bindings, r.op)
      /\ ~IsNoop(policy.bindings, r.op)
  BY DEF Apply, IInv, WireIsFresh
<1>3. r.bindings \in SUBSET Binding /\ Unique(r.bindings)
  BY <1>1, <1>2, UpdateIsWellFormed DEF IInv, UniqueBindings
<1>4. PICK bs \in Stored(r.bindings) :
        policy' = [etag |-> policy.etag + 1, bindings |-> bs]
  BY DEF Apply
<1>5. bs \in SUBSET Binding /\ Unique(bs)
  BY <1>3, StoredIsWellFormed
<1> QED
  BY <1>1, <1>4, <1>5 DEF Policy

\* The service accepts a write: every other write and read becomes stale.
LEMMA ApplyInv ==
  ASSUME IInv, NEW r \in wire, Apply(r)
  PROVE  IInv'
<1> USE DEF IInv, TypeOK
<1>1. TypeOK'
  <2>1. policy' \in Policy
    BY ApplyIsWellFormed DEF Policy
  <2> QED
    BY <2>1 DEF Apply, Answer, IsCurrent, callVars, Phases, Active, Request
<1>2. UniqueBindings'
  BY ApplyIsWellFormed DEF UniqueBindings
<1>3. ActiveHasOp'
  BY DEF Apply, Answer, IsCurrent, callVars, ActiveHasOp, Active, Phases
<1>4. SeenIsFresh'
  BY ApplyIsWellFormed DEF Apply, Answer, IsCurrent, callVars, SeenIsFresh,
    Holding, Policy
<1>5. WireIsFresh'
  BY ApplyIsWellFormed DEF Apply, WireIsFresh, Policy, Request
<1>6. WireIsOwned'
  BY DEF Apply, Answer, IsCurrent, callVars, WireIsOwned, Request
<1>7. AnsweredIsFenced'
  BY ApplyIsWellFormed DEF Apply, callVars, AnsweredIsFenced, WireIsFresh,
    Policy, Request
<1> QED
  BY <1>1, <1>2, <1>3, <1>4, <1>5, <1>6, <1>7

\* The service turns a stale write down.
LEMMA RejectInv ==
  ASSUME IInv, NEW r \in wire, Reject(r)
  PROVE  IInv'
<1> USE DEF IInv, TypeOK
<1>1. TypeOK'
  BY DEF Reject, Answer, IsCurrent, callVars, Phases, Active, Policy, Request
<1>2. UniqueBindings'
  BY DEF Reject, Answer, IsCurrent, callVars, UniqueBindings
<1>3. ActiveHasOp'
  BY DEF Reject, Answer, IsCurrent, callVars, ActiveHasOp, Active, Phases
<1>4. SeenIsFresh'
  BY DEF Reject, Answer, IsCurrent, callVars, SeenIsFresh, ActiveHasOp,
    Holding, Active, Phases, Policy
<1>5. WireIsFresh'
  BY DEF Reject, Answer, IsCurrent, callVars, WireIsFresh
<1>6. WireIsOwned'
  BY DEF Reject, Answer, IsCurrent, callVars, WireIsOwned, Request
<1>7. AnsweredIsFenced'
  BY DEF Reject, Answer, IsCurrent, callVars, AnsweredIsFenced, WireIsOwned,
    Request, Phases, Active
<1> QED
  BY <1>1, <1>2, <1>3, <1>4, <1>5, <1>6, <1>7

\* Somebody else writes: every write and read becomes stale.
LEMMA OutsideInv ==
  ASSUME IInv, NEW role \in Roles, NEW c \in Conditions,
         NEW ms \in SUBSET Members, Outside(role, c, ms)
  PROVE  IInv'
<1> USE DEF IInv, TypeOK
<1>1. TypeOK'
  BY DEF Outside, callVars, Policy, Binding
<1>2. UniqueBindings'
  BY DEF Outside, UniqueBindings, Unique
<1>3. ActiveHasOp'
  BY DEF Outside, callVars, ActiveHasOp, Active, Phases
<1>4. SeenIsFresh'
  BY DEF Outside, callVars, SeenIsFresh, Holding, Policy
<1>5. WireIsFresh'
  BY DEF Outside, WireIsFresh, Policy, Request
<1>6. WireIsOwned'
  BY DEF Outside, callVars, WireIsOwned, Request
<1>7. AnsweredIsFenced'
  BY DEF Outside, callVars, AnsweredIsFenced, Policy, Request
<1> QED
  BY <1>1, <1>2, <1>3, <1>4, <1>5, <1>6, <1>7

\* Every step of the jobs, of the service and of others keeps the invariant.
LEMMA NextInv == IInv /\ [Next]_vars => IInv'
<1> SUFFICES ASSUME IInv, [Next]_vars PROVE IInv'
  OBVIOUS
<1>1. CASE \E j \in Jobs : Step(j)
  BY <1>1, GetInv, SendInv, ReturnInv, ConflictInv, FaultInv, DeniedInv DEF Step
<1>2. CASE \E j \in Jobs, o \in Ops : Call(j, o)
  BY <1>2, CallInv
<1>3. CASE \E r \in wire : Apply(r) \/ Reject(r)
  BY <1>3, ApplyInv, RejectInv
<1>4. CASE \E role \in Roles, c \in Conditions, ms \in SUBSET Members :
             Outside(role, c, ms)
  BY <1>4, OutsideInv
<1>5. CASE UNCHANGED vars
  BY <1>5 DEF vars, callVars, IInv, TypeOK, UniqueBindings, ActiveHasOp,
     SeenIsFresh, WireIsFresh, WireIsOwned, AnsweredIsFenced
<1> QED
  BY <1>1, <1>2, <1>3, <1>4, <1>5 DEF Next

-------------------------------------------------------------------------------
(* Theorems *)

\* IInv holds throughout every run of add_/remove_service_account_iam_policy_
\* binding calls, whatever the interleaving, faults and retries.
THEOREM Invariance == Spec => []IInv
BY InitInv, NextInv, PTL DEF Spec

\* Every variable of the read-modify-write stays in its type.
THEOREM TypeCorrect == Spec => []TypeOK
<1>1. IInv => TypeOK
  BY DEF IInv
<1> QED
  BY <1>1, Invariance, PTL

\* find_binding_for_role never has two bindings to choose from.
THEOREM BindingsAreUnique == Spec => []UniqueBindings
<1>1. IInv => UniqueBindings
  BY DEF IInv
<1> QED
  BY <1>1, Invariance, PTL

\* No lost update: setIamPolicy is accepted only when it was computed from the
\* policy in force.
THEOREM NoLostUpdate == Spec => []WritesAreFresh
<1>1. IInv => WritesAreFresh
  BY DEF IInv, WireIsFresh, WritesAreFresh
<1> QED
  BY <1>1, Invariance, PTL

\* A call that returned never acts again, however late its lost attempts arrive.
THEOREM ReturnedNeverActs == Spec => []ReturnedIsFenced
<1>1. IInv => ReturnedIsFenced
  BY DEF IInv, AnsweredIsFenced, ReturnedIsFenced
<1> QED
  BY <1>1, Invariance, PTL

-------------------------------------------------------------------------------
(* IamPolicy implements IamMembers *)

\* What the mapping needs of history.
AppliedTook == \A j \in Jobs : pc[j] = "applied" => took[j]

LateIsAbandoned ==
  \A r \in wire :
    ~IsCurrent(r) => r.op \in abandoned \/ r.etag < policy.etag

History == AppliedTook /\ LateIsAbandoned

-------------------------------------------------------------------------------
(* What the operators on bindings do to the grants *)

GrantOf(o) == <<o.role, NoCondition, o.member>>

\* A binding of the set says all about its role and condition.
LEMMA UniqueBindingDecides ==
  ASSUME NEW bs \in SUBSET Binding, Unique(bs),
         NEW b \in bs, NEW m \in Members
  PROVE  <<b.role, b.condition, m>> \in GrantsOf(bs) <=> m \in b.members
<1>1. b.role \in Roles /\ b.condition \in Conditions
  BY DEF Binding
<1>2. <<b.role, b.condition, m>> \in Roles \X Conditions \X Members
  BY <1>1
<1>3. <<b.role, b.condition, m>> \in GrantsOf(bs)
        <=> \E c \in bs : c.role = b.role /\ c.condition = b.condition
                          /\ m \in c.members
  BY <1>2 DEF GrantsOf
<1> QED
  BY <1>3 DEF Unique

\* An early return of add_ or remove_ finds its effect in place.
LEMMA NoopHasEffect ==
  ASSUME NEW bs \in SUBSET Binding, Unique(bs), NEW o \in Ops, IsNoop(bs, o)
  PROVE  GrantOf(o) \in GrantsOf(bs) <=> o.kind = "add"
<1> DEFINE b == find_binding_for_role(bs, o.role)
<1>o. o.role \in Roles /\ o.member \in Members /\ o.kind \in {"add", "remove"}
  BY DEF Ops
<1>n. GrantOf(o) \in Roles \X Conditions \X Members
  BY <1>o, IamConstants DEF GrantOf
<1>1. \/ /\ b = None
         /\ \A c \in bs : ~(c.role = o.role /\ c.condition = NoCondition)
      \/ b \in bs /\ b.role = o.role /\ b.condition = NoCondition
  BY <1>o, FindBinding
<1>2. IF o.kind = "add" THEN b # None /\ o.member \in b.members
                        ELSE b = None \/ o.member \notin b.members
  BY DEF IsNoop
<1> HIDE DEF b
<1>3. CASE b \in bs /\ b.role = o.role /\ b.condition = NoCondition
  <2>1. GrantOf(o) \in GrantsOf(bs) <=> o.member \in b.members
    BY <1>3, <1>o, UniqueBindingDecides DEF GrantOf
  <2>2. b # None
    BY <1>3, NoneIsNoBinding
  <2> QED
    BY <1>2, <1>o, <2>1, <2>2
<1>4. CASE /\ b = None
           /\ \A c \in bs : ~(c.role = o.role /\ c.condition = NoCondition)
  <2>1. GrantOf(o) \notin GrantsOf(bs)
    BY <1>4, <1>n DEF GrantsOf, GrantOf
  <2> QED
    BY <1>2, <1>4, <2>1
<1> QED
  BY <1>1, <1>3, <1>4

\* Dropping bindings without members drops no grant.
LEMMA StoredKeepsGrants ==
  ASSUME NEW bs, NEW st \in Stored(bs)
  PROVE  GrantsOf(st) = GrantsOf(bs)
BY DEF Stored, GrantsOf

\* The new binding of a role grants what the old one did, but for the member.
LEMMA UpdatedBindingGrants ==
  ASSUME NEW bs \in SUBSET Binding, NEW o \in Ops, ~IsNoop(bs, o),
         NEW b, b = find_binding_for_role(bs, o.role),
         NEW m \in Members
  PROVE  m \in UpdatedBinding(b, o).members <=>
           IF m = o.member THEN o.kind = "add" ELSE b # None /\ m \in b.members
<1>o. o.role \in Roles /\ o.kind \in {"add", "remove"}
  BY DEF Ops
<1>1. b = None \/ b \in Binding
  BY <1>o, FindBinding
<1>2. CASE b = None
  <2>1. o.kind = "add"
    BY <1>2, <1>o DEF IsNoop
  <2> QED
    BY <1>2, <2>1 DEF UpdatedBinding
<1>3. CASE b # None /\ b \in Binding
  BY <1>3, <1>o DEF UpdatedBinding, Binding
<1> QED
  BY <1>1, <1>2, <1>3

\* The bindings that are written differ in one grant from those that were read.
LEMMA UpdateGrants ==
  ASSUME NEW bs \in SUBSET Binding, Unique(bs), NEW o \in Ops, ~IsNoop(bs, o)
  PROVE  GrantsOf(UpdatedBindings(bs, o)) =
           IF o.kind = "add" THEN GrantsOf(bs) \cup {GrantOf(o)}
                             ELSE GrantsOf(bs) \ {GrantOf(o)}
<1> DEFINE b == find_binding_for_role(bs, o.role)
           n == UpdatedBinding(b, o)
           ns == UpdatedBindings(bs, o)
<1>o. o.role \in Roles /\ o.member \in Members /\ o.kind \in {"add", "remove"}
  BY DEF Ops
<1>1. \/ /\ b = None
         /\ \A c \in bs : ~(c.role = o.role /\ c.condition = NoCondition)
      \/ b \in bs /\ b.role = o.role /\ b.condition = NoCondition
  BY <1>o, FindBinding
<1>2. ns = (bs \ {b}) \cup {n}
  BY DEF UpdatedBindings, replace_binding
<1>3. ns \in SUBSET Binding /\ Unique(ns)
  BY UpdateIsWellFormed
<1> HIDE DEF b
<1>3a. b = None => o.kind = "add"
  BY <1>o DEF IsNoop, b
<1>4. n.role = o.role /\ n.condition = NoCondition
  <2>1. CASE b = None
    BY <2>1, <1>3a DEF UpdatedBinding
  <2>2. CASE b \in Binding /\ b.role = o.role /\ b.condition = NoCondition
    BY <2>2, NoneIsNoBinding DEF UpdatedBinding, Binding
  <2> QED
    BY <1>1, <2>1, <2>2
<1>5. \A m \in Members :
        m \in n.members <=>
          IF m = o.member THEN o.kind = "add" ELSE b # None /\ m \in b.members
  BY UpdatedBindingGrants DEF b
<1>6. GrantsOf(bs) \subseteq Roles \X Conditions \X Members
  BY DEF GrantsOf
<1>7. GrantOf(o) \in Roles \X Conditions \X Members
  BY <1>o, IamConstants DEF GrantOf
<1> HIDE DEF n, ns
<1>8. \A role \in Roles, c \in Conditions, m \in Members :
        <<role, c, m>> \in GrantsOf(ns) <=>
          IF <<role, c, m>> = GrantOf(o) THEN o.kind = "add"
                                         ELSE <<role, c, m>> \in GrantsOf(bs)
  <2> SUFFICES ASSUME NEW role \in Roles, NEW c \in Conditions,
                      NEW m \in Members
               PROVE  <<role, c, m>> \in GrantsOf(ns) <=>
                        IF <<role, c, m>> = GrantOf(o) THEN o.kind = "add"
                        ELSE <<role, c, m>> \in GrantsOf(bs)
    OBVIOUS
  <2>1. CASE role = o.role /\ c = NoCondition
    <3>1. n \in ns
      BY <1>2
    <3>2. <<role, c, m>> \in GrantsOf(ns) <=> m \in n.members
      BY <2>1, <3>1, <1>3, <1>4, UniqueBindingDecides
    <3>3. <<role, c, m>> = GrantOf(o) <=> m = o.member
      BY <2>1 DEF GrantOf
    <3>4. <<role, c, m>> \in GrantsOf(bs) <=> b # None /\ m \in b.members
      <4>1. CASE b \in bs /\ b.role = o.role /\ b.condition = NoCondition
        BY <4>1, <2>1, UniqueBindingDecides, NoneIsNoBinding
      <4>2. CASE /\ b = None
                 /\ \A d \in bs :
                      ~(d.role = o.role /\ d.condition = NoCondition)
        BY <4>2, <2>1 DEF GrantsOf
      <4> QED
        BY <1>1, <4>1, <4>2
    <3> QED
      BY <3>2, <3>3, <3>4, <1>5
  <2>2. CASE ~(role = o.role /\ c = NoCondition)
    <3>1. \A d \in Binding : d.role = role /\ d.condition = c =>
            (d \in ns <=> d \in bs)
      BY <2>2, <1>1, <1>2, <1>4, NoneIsNoBinding
    <3>2. <<role, c, m>> # GrantOf(o)
      BY <2>2 DEF GrantOf
    <3>3. <<role, c, m>> \in GrantsOf(ns) <=> <<role, c, m>> \in GrantsOf(bs)
      BY <3>1, <1>3 DEF GrantsOf
    <3> QED
      BY <3>2, <3>3
  <2> QED
    BY <2>1, <2>2
<1>9. GrantsOf(ns) \subseteq Roles \X Conditions \X Members
  BY DEF GrantsOf
<1>10. \A g \in Roles \X Conditions \X Members :
         g \in GrantsOf(ns) <=>
           IF g = GrantOf(o) THEN o.kind = "add" ELSE g \in GrantsOf(bs)
  BY <1>8
<1>11. GrantsOf(ns) =
         IF o.kind = "add" THEN GrantsOf(bs) \cup {GrantOf(o)}
                           ELSE GrantsOf(bs) \ {GrantOf(o)}
  BY <1>6, <1>7, <1>9, <1>10
<1> QED
  BY <1>11 DEF ns

-------------------------------------------------------------------------------
(* The facts of history *)

\* No call has been made: nothing is on the wire.
LEMMA InitHistory == Init => History
BY DEF Init, History, AppliedTook, LateIsAbandoned

\* An exception while a write is under way leaves it among the abandoned ones.
LEMMA RaiseHistory ==
  ASSUME IInv, History, NEW j \in Jobs, pc[j] \in Active,
         wire' \subseteq wire, Raise(j)
  PROVE  History'
<1> USE DEF IInv, TypeOK, History
<1>1. AppliedTook'
  BY DEF Raise, AppliedTook
<1>2. LateIsAbandoned'
  <2> SUFFICES ASSUME NEW r \in wire', ~IsCurrent(r)'
               PROVE  r.op \in abandoned' \/ r.etag < policy.etag
    BY DEF Raise, LateIsAbandoned
  <2>1. CASE IsCurrent(r)
    <3>1. r.job = j /\ r.call = calls[j]
      BY <2>1 DEF Raise, IsCurrent, Request, Phases
    <3>2. r.op = op[j]
      BY <3>1 DEF WireIsOwned
    <3> QED
      BY <3>1, <3>2 DEF Raise
  <2>2. CASE ~IsCurrent(r)
    BY <2>2 DEF Raise, LateIsAbandoned
  <2> QED
    BY <2>1, <2>2
<1> QED
  BY <1>1, <1>2

\* A job that goes on with its call changes neither.
LEMMA GoesOnHistory ==
  ASSUME IInv, History, NEW j \in Jobs, pc[j] \in Active,
         NEW phase \in Active \ {"applied"}, pc' = [pc EXCEPT ![j] = phase],
         UNCHANGED <<policy, wire, calls, took, abandoned>>
  PROVE  History'
<1> USE DEF IInv, TypeOK, History
<1>1. AppliedTook'
  BY DEF AppliedTook
<1>2. \A r \in wire : IsCurrent(r)' <=> IsCurrent(r)
  BY DEF IsCurrent, Request
<1> QED
  BY <1>1, <1>2 DEF LateIsAbandoned

\* A failed round is followed by another one, or by an exception.
LEMMA NextRoundHistory ==
  ASSUME IInv, History, NEW j \in Jobs, pc[j] \in Active, NextRound(j)
  PROVE  History'
<1>1. CASE Raise(j)
  BY <1>1, RaiseHistory DEF NextRound
<1>2. CASE ~Raise(j)
  <2>1. "get" \in Active \ {"applied"}
    BY DEF Active
  <2> QED
    BY <1>2, <2>1, GoesOnHistory DEF NextRound
<1> QED
  BY <1>1, <1>2

\* Each step of a job.
LEMMA StepHistory ==
  ASSUME IInv, History, IInv', NEW j \in Jobs, Step(j)
  PROVE  History'
<1> USE DEF IInv, TypeOK, History
<1>1. CASE Get(j)
  <2>1. AppliedTook'
    BY <1>1 DEF Get, AppliedTook
  <2>2. LateIsAbandoned'
    <3> SUFFICES ASSUME NEW r \in wire, ~IsCurrent(r)'
                 PROVE  r.op \in abandoned \/ r.etag < policy.etag
      BY <1>1 DEF Get, LateIsAbandoned
    <3>1. CASE IsCurrent(r)
      <4>1. pc'[r.job] = "done" /\ r.call = calls'[r.job]
        BY <1>1, <3>1 DEF Get, IsCurrent, Request, Active
      <4> QED
        BY <1>1, <4>1 DEF Get, AnsweredIsFenced
    <3>2. CASE ~IsCurrent(r)
      BY <3>2 DEF LateIsAbandoned
    <3> QED
      BY <3>1, <3>2
  <2> QED
    BY <2>1, <2>2
<1>2. CASE Send(j)
  <2>1. AppliedTook'
    BY <1>2 DEF Send, AppliedTook
  <2>2. \A r \in wire : IsCurrent(r)' <=> IsCurrent(r)
    BY <1>2 DEF Send, callVars, IsCurrent, Request, Active
  <2>3. \A r \in wire' \ wire : IsCurrent(r)'
    BY <1>2 DEF Send, callVars, SetRequest, IsCurrent, Active
  <2> QED
    BY <1>2, <2>1, <2>2, <2>3 DEF Send, LateIsAbandoned
<1>3. CASE Return(j)
  <2>1. AppliedTook'
    BY <1>3 DEF Return, AppliedTook
  <2>2. LateIsAbandoned'
    <3> SUFFICES ASSUME NEW r \in wire, ~IsCurrent(r)'
                 PROVE  r.op \in abandoned \/ r.etag < policy.etag
      BY <1>3 DEF Return, LateIsAbandoned
    <3>1. CASE IsCurrent(r)
      <4>1. pc'[r.job] = "done" /\ r.call = calls'[r.job]
        BY <1>3, <3>1 DEF Return, IsCurrent, Request, Active
      <4> QED
        BY <1>3, <4>1 DEF Return, AnsweredIsFenced
    <3>2. CASE ~IsCurrent(r)
      BY <3>2 DEF LateIsAbandoned
    <3> QED
      BY <3>1, <3>2
  <2> QED
    BY <2>1, <2>2
<1>4. CASE Conflict(j)
  BY <1>4, NextRoundHistory DEF Conflict, Active
<1>5. CASE Fault(j)
  <2>1. pc[j] \in Active
    BY <1>5 DEF Fault, Active
  <2>2. CASE NextRound(j)
    BY <2>1, <2>2, NextRoundHistory
  <2>3. CASE UNCHANGED wire /\ Raise(j)
    BY <2>1, <2>3, RaiseHistory
  <2>4. CASE ~NextRound(j) /\ ~(UNCHANGED wire /\ Raise(j))
    <3> DEFINE phase == IF pc[j] = "get" THEN "get" ELSE "send"
    <3>1. phase \in Active \ {"applied"}
      BY DEF Active
    <3>2. pc' = [pc EXCEPT ![j] = phase]
          /\ UNCHANGED <<policy, wire, calls, took, abandoned>>
      BY <1>5, <2>4 DEF Fault
    <3> HIDE DEF phase
    <3> QED
      BY <2>1, <3>1, <3>2, GoesOnHistory
  <2> QED
    BY <2>2, <2>3, <2>4
<1>6. CASE Denied(j)
  <2>1. pc[j] \in Active /\ wire' \subseteq wire /\ Raise(j)
    BY <1>6 DEF Denied, Active
  <2> QED
    BY <2>1, RaiseHistory
<1> QED
  BY <1>1, <1>2, <1>3, <1>4, <1>5, <1>6 DEF Step

\* Every step keeps the facts of history.
LEMMA NextHistory == IInv /\ IInv' /\ History /\ [Next]_vars => History'
<1> SUFFICES ASSUME IInv, IInv', History, [Next]_vars PROVE History'
  OBVIOUS
<1> USE DEF IInv, TypeOK, History
<1>1. CASE \E j \in Jobs : Step(j)
  BY <1>1, StepHistory
<1>2. ASSUME NEW j \in Jobs, NEW o \in Ops, Call(j, o) PROVE History'
  <2>1. AppliedTook'
    BY <1>2 DEF Call, AppliedTook
  <2>2. \A r \in wire : IsCurrent(r)' <=> IsCurrent(r)
    <3> SUFFICES ASSUME NEW r \in wire PROVE IsCurrent(r)' <=> IsCurrent(r)
      OBVIOUS
    <3>1. r.job \in Jobs /\ r.call <= calls[r.job] /\ r.call \in Nat
      BY DEF WireIsOwned, Request
    <3> QED
      BY <1>2, <3>1 DEF Call, IsCurrent
  <2> QED
    BY <1>2, <2>1, <2>2 DEF Call, LateIsAbandoned
<1>3. ASSUME NEW r \in wire, Apply(r) PROVE History'
  <2>1. AppliedTook'
    BY <1>3 DEF Apply, Answer, AppliedTook, IsCurrent, Request
  <2>2. \A q \in wire : q.etag < policy'.etag
    BY <1>3, ApplyIsWellFormed DEF WireIsFresh, Request, Policy
  <2> QED
    BY <1>3, <2>1, <2>2 DEF Apply, LateIsAbandoned
<1>4. ASSUME NEW r \in wire, Reject(r) PROVE History'
  <2>1. AppliedTook'
    BY <1>4 DEF Reject, Answer, AppliedTook, Request
  <2>2. \A q \in wire : IsCurrent(q)' <=> IsCurrent(q)
    BY <1>4 DEF Reject, Answer, callVars, IsCurrent, Request, Active
  <2> QED
    BY <1>4, <2>1, <2>2 DEF Reject, callVars, LateIsAbandoned
<1>5. ASSUME NEW role \in Roles, NEW c \in Conditions,
             NEW ms \in SUBSET Members, Outside(role, c, ms)
      PROVE  History'
  <2>1. \A q \in wire : q.etag < policy'.etag
    BY <1>5 DEF Outside, WireIsFresh, Request, Policy
  <2> QED
    BY <1>5, <2>1 DEF Outside, AppliedTook, LateIsAbandoned
<1>6. CASE UNCHANGED vars
  BY <1>6 DEF vars, callVars, AppliedTook, LateIsAbandoned, IsCurrent
<1> QED
  BY <1>1, <1>2, <1>3, <1>4, <1>5, <1>6 DEF Next

-------------------------------------------------------------------------------
(* The mapping *)

Status ==
  [j \in Jobs |-> IF pc[j] \in Active
                  THEN IF took[j] THEN "effective" ELSE "running"
                  ELSE pc[j]]
Requested == [j \in Jobs |-> IF op[j] = None THEN None ELSE AbstractOp(op[j])]
Lingering == {AbstractOp(o) : o \in abandoned}

AbstractVars == <<Granted, Status, Requested, Lingering, outside>>

\* What a call promises to do to the grants.
LEMMA AbstractEffect ==
  ASSUME NEW o \in Ops, NEW G
  PROVE  /\ AbstractOp(o) \in AbstractOps
         /\ Promise!Effect(AbstractOp(o), G) =
              IF o.kind = "add" THEN G \cup {GrantOf(o)} ELSE G \ {GrantOf(o)}
BY IamConstants DEF AbstractOp, AbstractOps, Ops, Promise!Effect, GrantOf

\* The request of a job that has called is the abstract one of its call.
LEMMA RequestedOp ==
  ASSUME TypeOK, NEW j \in Jobs, op[j] \in Ops
  PROVE  Requested[j] = AbstractOp(op[j])
BY NoneIsNoCall DEF Requested

\* A job that is served goes on with its call, as far as its caller can tell.
LEMMA GoesOnMaps ==
  ASSUME TypeOK, NEW j \in Jobs, pc[j] \in Active,
         NEW phase \in Active, pc' = [pc EXCEPT ![j] = phase],
         UNCHANGED <<policy, op, outside, took, abandoned>>
  PROVE  UNCHANGED AbstractVars
<1>1. Status' = Status
  BY DEF Status, TypeOK
<1> QED
  BY <1>1 DEF AbstractVars, Granted, Requested, Lingering

\* A call that raises.
LEMMA RaiseMaps ==
  ASSUME IInv, NEW j \in Jobs, pc[j] \in Active, Raise(j)
  PROVE  Promise!Raise(j)
<1> USE DEF IInv, TypeOK
<1>1. op[j] \in Ops
  BY DEF ActiveHasOp
<1>2. Status[j] \in Promise!InProgress
  BY DEF Status, Promise!InProgress
<1>3. Status' = [Status EXCEPT ![j] = "failed"]
  BY DEF Raise, Status, Active
<1>4. Requested[j] = AbstractOp(op[j])
  BY <1>1, RequestedOp
<1>5. Lingering' \in {Lingering, Lingering \cup {Requested[j]}}
  BY <1>4 DEF Raise, Lingering
<1>6. Granted' = Granted /\ Requested' = Requested /\ outside' = outside
  BY DEF Raise, Granted, Requested
<1> QED
  BY <1>2, <1>3, <1>5, <1>6
  DEF Promise!Raise, Status, Requested, Lingering, Granted

\* A failed round goes on with the call, or raises.
LEMMA NextRoundMaps ==
  ASSUME IInv, NEW j \in Jobs, pc[j] \in Active, NextRound(j)
  PROVE  Promise!Raise(j) \/ UNCHANGED AbstractVars
<1>1. CASE Raise(j)
  BY <1>1, RaiseMaps
<1>2. CASE ~Raise(j)
  <2>1. "get" \in Active
    BY DEF Active
  <2> QED
    BY <1>2, <2>1, GoesOnMaps DEF NextRound, IInv
<1> QED
  BY <1>1, <1>2

\* A call that comes back without an error.
LEMMA ReturnMaps ==
  ASSUME IInv, NEW j \in Jobs, pc[j] \in Active,
         pc' = [pc EXCEPT ![j] = "done"],
         UNCHANGED <<policy, op, outside, took, abandoned>>,
         \/ took[j]
         \/ Promise!Effect(AbstractOp(op[j]), Granted) = Granted
  PROVE  Promise!Return(j)
<1> USE DEF IInv, TypeOK
<1>1. Requested[j] = AbstractOp(op[j])
  BY RequestedOp DEF ActiveHasOp
<1>2. \/ Status[j] = "effective"
      \/ /\ Status[j] = "running"
         /\ Promise!Effect(Requested[j], Granted) = Granted
  BY <1>1 DEF Status
<1>3. Status' = [Status EXCEPT ![j] = "done"]
  BY DEF Status, Active
<1>4. Granted' = Granted /\ Requested' = Requested /\ Lingering' = Lingering
  BY DEF Granted, Requested, Lingering
<1> QED
  BY <1>2, <1>3, <1>4 DEF Promise!Return, Status, Requested, Lingering, Granted

\* Each step of a job is one of its call, or none.
LEMMA StepMaps ==
  ASSUME IInv, History, NEW j \in Jobs, Step(j)
  PROVE  Promise!Return(j) \/ Promise!Raise(j) \/ UNCHANGED AbstractVars
<1> USE DEF IInv, TypeOK
<1>1. CASE Get(j)
  <2>0. pc[j] \in Active /\ op[j] \in Ops
    BY <1>1 DEF Get, Active, ActiveHasOp
  <2>1. CASE IsNoop(policy.bindings, op[j])
    <3>1. GrantOf(op[j]) \in Granted <=> op[j].kind = "add"
      BY <2>0, <2>1, NoopHasEffect DEF Granted, UniqueBindings, Policy
    <3>2. Promise!Effect(AbstractOp(op[j]), Granted) = Granted
      BY <2>0, <3>1, AbstractEffect
    <3> QED
      BY <1>1, <2>0, <2>1, <3>2, ReturnMaps DEF Get
  <2>2. CASE ~IsNoop(policy.bindings, op[j])
    <3>1. "send" \in Active
      BY DEF Active
    <3> QED
      BY <1>1, <2>0, <2>2, <3>1, GoesOnMaps DEF Get
  <2> QED
    BY <2>1, <2>2
<1>2. CASE Send(j)
  <2>1. pc[j] \in Active /\ "sent" \in Active
    BY <1>2 DEF Send, Active
  <2> QED
    BY <1>2, <2>1, GoesOnMaps DEF Send, callVars
<1>3. CASE Return(j)
  <2>1. pc[j] \in Active /\ took[j]
    BY <1>3 DEF Return, Active, History, AppliedTook
  <2> QED
    BY <1>3, <2>1, ReturnMaps DEF Return
<1>4. CASE Conflict(j)
  BY <1>4, NextRoundMaps DEF Conflict, Active
<1>5. CASE Fault(j)
  <2>1. pc[j] \in Active
    BY <1>5 DEF Fault, Active
  <2>2. CASE NextRound(j)
    BY <2>1, <2>2, NextRoundMaps
  <2>3. CASE Raise(j)
    BY <2>1, <2>3, RaiseMaps
  <2>4. CASE ~NextRound(j) /\ ~Raise(j)
    <3> DEFINE phase == IF pc[j] = "get" THEN "get" ELSE "send"
    <3>1. phase \in Active
      BY DEF Active
    <3>2. pc' = [pc EXCEPT ![j] = phase]
          /\ UNCHANGED <<policy, op, outside, took, abandoned>>
      BY <1>5, <2>4 DEF Fault
    <3> HIDE DEF phase
    <3> QED
      BY <2>1, <3>1, <3>2, GoesOnMaps
  <2> QED
    BY <2>2, <2>3, <2>4
<1>6. CASE Denied(j)
  <2>1. pc[j] \in Active /\ Raise(j)
    BY <1>6 DEF Denied, Active
  <2> QED
    BY <2>1, RaiseMaps
<1> QED
  BY <1>1, <1>2, <1>3, <1>4, <1>5, <1>6 DEF Step

\* A write that the service carries out is the effect of its call: of one that
\* is running, or of one that raised.
LEMMA ApplyMaps ==
  ASSUME IInv, History, NEW r \in wire, Apply(r)
  PROVE  \/ Promise!TakeEffect(r.job)
         \/ /\ Promise!LateEffect(AbstractOp(r.op))
            /\ AbstractOp(r.op) \in AbstractOps
<1> USE DEF IInv, TypeOK
<1>t. r.op \in Ops /\ r.job \in Jobs /\ r.etag \in Nat /\ policy.etag \in Nat
      /\ policy.bindings \in SUBSET Binding
  BY DEF Request, Policy
<1>1. r.bindings = UpdatedBindings(policy.bindings, r.op)
      /\ ~IsNoop(policy.bindings, r.op)
  BY DEF Apply, WireIsFresh
<1>2. PICK bs \in Stored(r.bindings) :
        policy' = [etag |-> policy.etag + 1, bindings |-> bs]
  BY DEF Apply
<1>3. Granted' = GrantsOf(r.bindings)
  <2>1. Granted' = GrantsOf(bs)
    BY <1>2 DEF Granted, GrantsOf
  <2> QED
    BY <2>1, StoredKeepsGrants
<1>4. Granted' = Promise!Effect(AbstractOp(r.op), Granted)
  <2>1. Unique(policy.bindings)
    BY DEF UniqueBindings
  <2>2. GrantsOf(UpdatedBindings(policy.bindings, r.op)) =
          IF r.op.kind = "add"
          THEN GrantsOf(policy.bindings) \cup {GrantOf(r.op)}
          ELSE GrantsOf(policy.bindings) \ {GrantOf(r.op)}
    BY <1>1, <1>t, <2>1, UpdateGrants
  <2>3. Promise!Effect(AbstractOp(r.op), GrantsOf(policy.bindings)) =
          IF r.op.kind = "add"
          THEN GrantsOf(policy.bindings) \cup {GrantOf(r.op)}
          ELSE GrantsOf(policy.bindings) \ {GrantOf(r.op)}
    BY <1>t, AbstractEffect
  <2> QED
    BY <1>1, <1>3, <2>2, <2>3 DEF Granted
<1>5. Requested' = Requested /\ Lingering' = Lingering /\ outside' = outside
  BY DEF Apply, callVars, Requested, Lingering
<1>6. CASE IsCurrent(r)
  <2>1. r.op = op[r.job] /\ Requested[r.job] = AbstractOp(r.op)
    BY <1>6, <1>t, RequestedOp DEF IsCurrent, WireIsOwned
  <2>2. Status[r.job] \in Promise!InProgress
    BY <1>6, <1>t DEF IsCurrent, Status, Promise!InProgress
  <2>3. Status' = [Status EXCEPT ![r.job] = "effective"]
    BY <1>6, <1>t DEF Apply, Answer, IsCurrent, Status, Active
  <2>4. Promise!TakeEffect(r.job)
    BY <1>4, <1>5, <2>1, <2>2, <2>3
    DEF Promise!TakeEffect, Status, Requested, Lingering, Granted
  <2> QED
    BY <2>4
<1>7. CASE ~IsCurrent(r)
  <2>1. r.op \in abandoned
    BY <1>7, <1>t DEF Apply, History, LateIsAbandoned
  <2>2. AbstractOp(r.op) \in Lingering
    BY <2>1 DEF Lingering
  <2>3. Status' = Status
    BY <1>7 DEF Apply, Answer, Status
  <2>4. Promise!LateEffect(AbstractOp(r.op))
    BY <1>4, <1>5, <2>2, <2>3
    DEF Promise!LateEffect, Status, Requested, Lingering, Granted
  <2> QED
    BY <2>4, <1>t, AbstractEffect
<1> QED
  BY <1>6, <1>7

-------------------------------------------------------------------------------
(* Theorems *)

\* Before the first call the grants are those of the policy.
LEMMA InitMaps == Init => Promise!Init
<1> SUFFICES ASSUME Init PROVE Promise!Init
  OBVIOUS
<1>1. Status = [j \in Jobs |-> "idle"]
  BY DEF Init, Status, Active
<1>2. Requested = [j \in Jobs |-> None]
  BY DEF Init, Requested
<1>3. Lingering = {} /\ outside = 0
  BY DEF Init, Lingering
<1>4. Granted \in SUBSET (Roles \X Conditions \X Members)
  BY DEF Granted, GrantsOf
<1> QED
  BY <1>1, <1>2, <1>3, <1>4
  DEF Promise!Init, Status, Requested, Lingering, Granted

\* Every step of the jobs, of the service and of others is one that IamMembers
\* allows, or none.
LEMMA NextMaps ==
  IInv /\ History /\ [Next]_vars => [Promise!Next]_(Promise!mvars)
<1> SUFFICES ASSUME IInv, History, [Next]_vars
             PROVE  [Promise!Next]_(Promise!mvars)
  OBVIOUS
<1> USE DEF IInv, TypeOK
<1>0. ASSUME UNCHANGED AbstractVars PROVE UNCHANGED Promise!mvars
  BY <1>0 DEF AbstractVars, Promise!mvars, Status, Requested, Lingering, Granted
<1>1. CASE \E j \in Jobs : Step(j)
  BY <1>0, <1>1, StepMaps DEF Promise!Next
<1>2. ASSUME NEW j \in Jobs, NEW o \in Ops, Call(j, o)
      PROVE  Promise!Submit(j, AbstractOp(o)) /\ AbstractOp(o) \in AbstractOps
  <2>1. Status[j] \notin Promise!InProgress
    BY <1>2 DEF Call, Status, Promise!InProgress, Phases, Active
  <2>2. Status' = [Status EXCEPT ![j] = "running"]
    BY <1>2 DEF Call, Status, Active
  <2>3. Requested' = [Requested EXCEPT ![j] = AbstractOp(o)]
    BY <1>2, NoneIsNoCall DEF Call, Requested
  <2>4. Granted' = Granted /\ Lingering' = Lingering /\ outside' = outside
    BY <1>2 DEF Call, Granted, Lingering
  <2>5. Promise!Submit(j, AbstractOp(o))
    BY <2>1, <2>2, <2>3, <2>4
    DEF Promise!Submit, Status, Requested, Lingering, Granted
  <2> QED
    BY <2>5, AbstractEffect
<1>3. ASSUME NEW r \in wire, Apply(r) PROVE Promise!Next
  BY <1>3, ApplyMaps DEF Promise!Next, Request
<1>4. ASSUME NEW r \in wire, Reject(r) PROVE UNCHANGED AbstractVars
  <2>1. CASE IsCurrent(r) /\ pc[r.job] = "sent"
    <3>1. r.job \in Jobs /\ pc[r.job] \in Active /\ "conflict" \in Active
      BY <2>1 DEF Request, Active
    <3> QED
      BY <1>4, <2>1, <3>1, GoesOnMaps DEF Reject, Answer, callVars
  <2>2. CASE ~(IsCurrent(r) /\ pc[r.job] = "sent")
    BY <1>4, <2>2
    DEF Reject, Answer, callVars, AbstractVars, Status, Requested, Lingering,
        Granted
  <2> QED
    BY <2>1, <2>2
<1>5. ASSUME NEW role \in Roles, NEW c \in Conditions,
             NEW ms \in SUBSET Members, Outside(role, c, ms)
      PROVE  Promise!Outside
  <2>1. Granted' \in SUBSET (Roles \X Conditions \X Members)
    BY DEF Granted, GrantsOf
  <2>2. Status' = Status /\ Requested' = Requested /\ Lingering' = Lingering
        /\ outside' = outside + 1
    BY <1>5 DEF Outside, callVars, Status, Requested, Lingering
  <2> QED
    BY <2>1, <2>2
    DEF Promise!Outside, Status, Requested, Lingering, Granted
<1>6. CASE UNCHANGED vars
  BY <1>0, <1>6 DEF vars, callVars, AbstractVars, Status, Requested, Lingering,
    Granted
<1> QED
  BY <1>0, <1>1, <1>2, <1>3, <1>4, <1>5, <1>6 DEF Next, Promise!Next

\* add_ and remove_service_account_iam_policy_binding are atomic: whatever jobs
\* race, whatever requests are lost or late, a call changes one grant, at some
\* moment between its start and its return, and only one that raised acts later.
THEOREM AtomicUpdate == Spec => IsAtomicUpdate
<1>1. Spec => []History
  BY InitInv, NextInv, InitHistory, NextHistory, Invariance, PTL DEF Spec
<1> QED
  BY <1>1, Invariance, InitMaps, NextMaps, PTL
  DEF Spec, IsAtomicUpdate, Promise!Spec
===============================================================================

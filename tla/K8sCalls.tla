------------------------------- MODULE K8sCalls -------------------------------
(***************************************************************************)
(* A request to the Kubernetes API server, and the waits made of such      *)
(* requests, framework/infrastructure/k8s.py.  Two retryers are nested:    *)
(* _execute retries an attempt by the kind of its first error, and a wait  *)
(* repeats the whole of it until its result is accepted.                   *)
(*                                                                         *)
(* One object, which controllers and other users of the cluster change     *)
(* too; requests and answers are lost, and the access token expires.       *)
(***************************************************************************)
EXTENDS Retryers

CONSTANTS
  MaxTries,    \* bound: attempts that fit in the time of _execute's retryer
  MaxFaults,   \* bound: failures of the server and of the network
  MaxChanges   \* bound: changes of the object by others, and expiries

ASSUME K8sConstants ==
  MaxTries \in Nat \ {0} /\ MaxFaults \in Nat /\ MaxChanges \in Nat

VARIABLES
  op,          \* the operation
  object,      \* the object at the server
  token,       \* the access token of the client is valid
  callPc,      \* where _execute is
  tries,       \* attempts of its current retryer
  retryer,     \* the retryer; FirstAttempt before there is one
  answer,      \* of the last request
  raised,      \* what the last _execute raised
  faults, changes,
  wasGone, wasReady, expired    \* history, since the operation began

Call == INSTANCE Retryers WITH pc <- callPc, looks <- tries,
                               MaxLooks <- MaxTries

callVars == <<callPc, tries, retryer, answer, raised>>
clusterVars == <<object, token, faults, changes, wasGone, wasReady, expired>>
k8sVars == <<op, callVars, clusterVars>>

Operations == {"create", "delete", "get", "wait_deleted", "wait_ready"}
Objects == {"absent", "pending", "ready", "terminating"}

\* Errors of one attempt, by what _handle_exception tells apart: a connection
\* that was refused or aborted, one that broke, and the statuses of the server;
\* "busy" is 429 and a 500 of that meaning, "403" any other status.
_RETRY_ON_EXCEPTIONS ==
  {"aborted", "broken", "401", "409", "busy", "500", "504", "403"}
Answers == _RETRY_ON_EXCEPTIONS \cup {"404", "none"} \cup Objects

_server_restart_retryer ==
  exponential_retryer_with_timeout(
    _build_retry_conditions(_RETRY_ON_EXCEPTIONS, FALSE))
_too_many_requests_retryer == _server_restart_retryer
_quick_recovery_retryer ==
  constant_retryer(_build_retry_conditions(_RETRY_ON_EXCEPTIONS, FALSE),
                   3, FALSE)
FirstAttempt == Once

K8sIdle(o, obj, tok) ==
  /\ op = o
  /\ object = obj
  /\ token = tok
  /\ callPc = "idle" /\ tries = 0 /\ retryer = FirstAttempt
  /\ answer = "none" /\ raised = "none"
  /\ faults = 0 /\ changes = 0
  /\ wasGone = (obj = "absent") /\ wasReady = (obj = "ready")
  /\ expired = FALSE

K8sInit ==
  /\ \E o \in Operations, obj \in Objects, tok \in BOOLEAN :
       K8sIdle(o, obj, tok)
  /\ pc = "look" /\ looks = 0

\* The object becomes obj; what it has been is remembered.
Becomes(obj) ==
  /\ object' = obj
  /\ wasGone' = (wasGone \/ obj = "absent")
  /\ wasReady' = (wasReady \/ obj = "ready")

-------------------------------------------------------------------------------
(* The server *)

Effect ==
  CASE op = "create" /\ object = "absent" -> "pending"
    [] op = "delete" /\ object # "absent" -> "terminating"
    [] OTHER -> object

Served ==
  CASE op = "create" -> IF object = "absent" THEN "pending" ELSE "409"
    [] OTHER -> IF object = "absent" THEN "404" ELSE Effect

\* One attempt: the request reaches the server, or not, and its answer comes
\* back, or not.
SendRequest ==
  /\ pc = "call"
  /\ Call!AttemptBegins("sent")
  /\ \/ ~token /\ answer' = "401" /\ Becomes(object) /\ UNCHANGED faults
     \/ token /\ answer' = Served /\ Becomes(Effect) /\ UNCHANGED faults
     \/ /\ faults < MaxFaults /\ faults' = faults + 1
        /\ answer' \in {"aborted", "broken", "busy", "500", "504", "403"}
        /\ Becomes(object)
     \/ /\ faults < MaxFaults /\ faults' = faults + 1
        /\ token
        /\ answer' \in {"aborted", "broken", "504"}
        /\ Becomes(Effect)
  /\ UNCHANGED <<pc, looks, op, retryer, raised, token, changes, expired>>

-------------------------------------------------------------------------------
(* _execute *)

\* Slip: the client goes on with the token that it has.
KeepsToken(error) == token

\* _refresh_auth
AfterRefresh(error) == token \/ error = "401"

_handle_api_exception(error) ==
  CASE error \in {"401", "504"} -> {_server_restart_retryer}
    [] error \in {"409", "500"} -> {_quick_recovery_retryer}
    [] error = "busy"           -> {_too_many_requests_retryer}
    [] OTHER                    -> {}

_handle_exception(error) ==
  CASE error = "aborted" -> {_server_restart_retryer}
    [] error = "broken"  -> {_quick_recovery_retryer}
    [] OTHER             -> _handle_api_exception(error)

\* A 404 ends the retries, at any attempt.
RaisesNotFound ==
  /\ answer = "404"
  /\ callPc' = "failed" /\ raised' = "NotFound"
  /\ UNCHANGED <<tries, retryer, token>>

Answered ==
  /\ answer \in Objects
  /\ callPc' = "passed" /\ raised' = "none"
  /\ UNCHANGED <<tries, retryer, token>>

\* The first error selects the retryer; there may be none for it.
FirstError ==
  /\ answer \in _RETRY_ON_EXCEPTIONS /\ retryer = FirstAttempt
  /\ token' = AfterRefresh(answer)
  /\ IF _handle_exception(answer) = {}
     THEN callPc' = "failed" /\ raised' = "ApiException"
          /\ UNCHANGED <<tries, retryer>>
     ELSE retryer' \in _handle_exception(answer) /\ callPc' = "look"
          /\ tries' = 0 /\ UNCHANGED raised

\* ... and all later ones are tried again by it.
NextError ==
  /\ answer \in _RETRY_ON_EXCEPTIONS /\ retryer # FirstAttempt
  /\ Call!AttemptEnds(retryer, answer)
  /\ raised' = IF callPc' = "failed" THEN "RetryError" ELSE raised
  /\ UNCHANGED <<retryer, token>>

_execute ==
  /\ pc = "call" /\ callPc = "sent"
  /\ RaisesNotFound \/ Answered \/ FirstError \/ NextError
  /\ UNCHANGED <<pc, looks, op, answer, object, faults, changes, wasGone,
                 wasReady, expired>>

-------------------------------------------------------------------------------
(* The operations *)

OperationBegins ==
  /\ AttemptBegins("call")
  /\ callPc' = "look" /\ tries' = 0 /\ retryer' = FirstAttempt
  /\ raised' = "none" /\ answer' = "none"
  /\ UNCHANGED <<op, clusterVars>>

\* The result, or the error: a resource that is not found is None.
_get_resource ==
  IF raised = "NotFound" THEN "absent"
  ELSE IF raised = "none" THEN answer ELSE raised

\* wait_for_*_deleted, wait_for_deployment_available_replicas,
\* wait_for_pod_started, wait_for_service_neg_status_annotation, ...
WaitRetryer == constant_retryer(_build_retry_conditions(Errors, TRUE), 0, TRUE)

WaitOutcome(wanted) ==
  CASE _get_resource = wanted -> "accepted"
    [] _get_resource \in Objects -> "rejected"
    [] OTHER -> _get_resource

OperationReturns ==
  /\ pc = "call" /\ callPc \in Ends
  /\ CASE op \in {"create", "delete"} ->
            AttemptEnds(Once, IF raised = "none" THEN "accepted" ELSE raised)
       [] op = "get" ->
            AttemptEnds(Once, IF _get_resource \in Objects THEN "accepted"
                              ELSE raised)
       [] op = "wait_deleted" -> AttemptEnds(WaitRetryer, WaitOutcome("absent"))
       [] op = "wait_ready"   -> AttemptEnds(WaitRetryer, WaitOutcome("ready"))
  /\ callPc' = "idle"
  /\ UNCHANGED <<op, tries, retryer, answer, raised, clusterVars>>

K8sStep == OperationBegins \/ SendRequest \/ _execute \/ OperationReturns

-------------------------------------------------------------------------------
(* Controllers, other users, and time *)

Change ==
  /\ pc \notin Ends
  /\ changes < MaxChanges /\ changes' = changes + 1
  /\ UNCHANGED <<pc, looks, op, callVars, faults>>

ObjectChanges ==
  /\ Change
  /\ \/ object = "pending"     /\ Becomes("ready")
     \/ object = "ready"       /\ Becomes("pending")
     \/ object = "terminating" /\ Becomes("absent")
     \/ object = "absent"      /\ Becomes("pending")
     \/ object \in {"pending", "ready"} /\ Becomes("terminating")
  /\ UNCHANGED <<token, expired>>

TokenExpires ==
  /\ Change
  /\ token /\ token' = FALSE
  /\ expired' = TRUE
  /\ UNCHANGED <<object, wasGone, wasReady>>

K8sWorld == ObjectChanges \/ TokenExpires

-------------------------------------------------------------------------------
(* Properties *)

K8sTypeOK ==
  /\ op \in Operations /\ object \in Objects /\ token \in BOOLEAN
  /\ callPc \in {"idle", "look", "sent"} \cup Ends
  /\ tries \in 0..MaxTries
  /\ retryer \in {FirstAttempt, _server_restart_retryer,
                  _quick_recovery_retryer}
  /\ answer \in Answers
  /\ raised \in {"none", "NotFound", "ApiException", "RetryError"}
  /\ faults \in 0..MaxFaults /\ changes \in 0..MaxChanges
  /\ {wasGone, wasReady, expired} \subseteq BOOLEAN

\* What an operation is told by the server is true, through whatever errors,
\* repetitions and lost answers.  What a wait or a deletion takes for the
\* absence of an object is one: it was gone at some moment of the operation; so
\* with a wait for it to be ready.  And an operation that began with an expired
\* token is not given up because of it: the token is refreshed and the request
\* repeated.  It can be the last error only when the token expires meanwhile, or
\* another error came first: that one selects the retryer, and no retryer
\* refreshes.
AnswersAreTrue ==
  /\ pc = "passed" /\ op = "wait_deleted" => wasGone
  /\ pc = "passed" /\ op = "wait_ready" => wasReady
  /\ raised = "NotFound" => wasGone
  /\ pc = "failed" /\ answer = "401" => expired \/ faults > 0
===============================================================================

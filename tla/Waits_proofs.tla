----------------------------- MODULE Waits_proofs -----------------------------
(***************************************************************************)
(* What the waits for the security of a connection, for objects of         *)
(* Kubernetes and for traffic promise, for any number of connections,      *)
(* pods, calls, requests, failures and changes; and that what the other    *)
(* waits promise of themselves holds of all of them together.              *)
(*                                                                         *)
(* A behaviour is one wait.  Each invariant says what holds of one part of *)
(* the state while that part is waited for, and that nobody touches it in  *)
(* the other waits.  An assertion looks several times at a client that     *)
(* goes on in between: its invariant says what is left of the earlier      *)
(* looks when the last one is compared with them.  WaitsInv puts the       *)
(* invariants of the parts together.                                       *)
(***************************************************************************)
EXTENDS Waits, ChannelWaits_proofs, BackendHealth_proofs, NaturalsInduction,
        TLAPS

\* Only an accepted value ends an attempt of these waits with success.
LEMMA PassedIsAccepted ==
  ASSUME NEW r, NEW outcome, AttemptEnds(r, outcome), pc' = "passed"
  PROVE  outcome = "accepted" \/ (outcome = "rejected" /\ ~r.conditions.checks)
BY DEF AttemptEnds, Returned

-------------------------------------------------------------------------------
(* The security of a connection *)

DistinctAddresses ==
  \A i, j \in DOMAIN conns :
    conns[i].host = conns[j].host /\ conns[i].port = conns[j].port => i = j

SocketInv ==
  /\ conns \in Seq(Conn) /\ DistinctAddresses
  /\ clientEnds \subseteq DOMAIN conns /\ serverEnds \subseteq DOMAIN conns
  /\ pc = "match" => looked \in DOMAIN conns
  /\ SecurityIsTrue

SecurityInv ==
  /\ asked \in Asked
  /\ IF which = "Security" THEN SocketInv ELSE matched = 0

\* Where hosts are compared the socket of the server that matches is the other
\* end of the connection that was looked at.
LEMMA MatchedIsLooked ==
  ASSUME conns \in Seq(Conn), DistinctAddresses,
         NEW i \in DOMAIN conns,
         serverEnds \subseteq DOMAIN conns, ~asked.match_only_port,
         find_server_socket_matching_client(i) # 0
  PROVE  find_server_socket_matching_client(i) = i
<1> DEFINE found == {j \in serverEnds : SameAddress(i, j)}
<1>1. found \subseteq {i}
  BY DEF SameAddress, DistinctAddresses
<1>2. found = {i}
  BY <1>1 DEF find_server_socket_matching_client
<1> HIDE DEF found
<1>3. \A j \in found : \A k \in found : j = i /\ k = i
  BY <1>2
<1>4. i <= i
  BY DEF SocketInv
<1> QED
  BY <1>2, <1>3, <1>4 DEF find_server_socket_matching_client, found

\* The certificates of one connection tell its mode, but for plaintext when the
\* server does not report its own.
LEMMA SecurityTellsMode ==
  ASSUME conns \in Seq(Conn), NEW i \in DOMAIN conns,
         asked.mode \in Modes, asked.reports \subseteq {"client", "server"},
         assertTestAppSecurity(client_security(i), server_security(i))
  PROVE  \/ conns[i].mode = asked.mode
         \/ /\ asked.mode = "PLAINTEXT" /\ conns[i].mode = "TLS"
            /\ "server" \notin asked.reports
<1>0. conns[i] \in Conn
  OBVIOUS
<1>1. conns[i].mode \in Modes /\ conns[i].host \in Hosts
  BY <1>0 DEF Conn
<1>2. CASE asked.mode = "MTLS"
  BY <1>1, <1>2 DEF assertTestAppSecurity, assertSecurityMtls, client_security,
    server_security, Modes, Hosts
<1>3. CASE asked.mode = "TLS"
  BY <1>1, <1>3 DEF assertTestAppSecurity, assertSecurityTls, client_security,
    server_security, Modes, Hosts
<1>4. CASE asked.mode = "PLAINTEXT"
  BY <1>1, <1>4 DEF assertTestAppSecurity, assertSecurityPlaintext,
    client_security, server_security, Modes, Hosts
<1> QED
  BY <1>2, <1>3, <1>4 DEF Modes

\* A step of the assertion.
LEMMA SecurityStepInv ==
  ASSUME SocketInv, asked \in Asked, SecurityStep
  PROVE  SocketInv'
<1> USE DEF SocketInv
<1>1. CASE SecurityBegins
  BY <1>1 DEF SecurityBegins, AttemptBegins, worldOfSockets, DistinctAddresses,
    SecurityIsTrue
<1>2. CASE get_active_server_channel_socket
  BY <1>2 DEF get_active_server_channel_socket, worldOfSockets,
    DistinctAddresses, SecurityIsTrue
<1>3. CASE NoClientSocket
  <2>1. pc' # "passed" /\ pc' # "match"
    <3>1. pc' # "passed"
      BY <1>3, PassedIsAccepted DEF NoClientSocket
    <3> QED
      BY <1>3, <3>1 DEF NoClientSocket, AttemptEnds
  <2> QED
    BY <1>3, <2>1 DEF NoClientSocket, socketVars, DistinctAddresses,
      SecurityIsTrue
<1>4. CASE get_server_socket_matching_client
  <2>1. conns' = conns /\ asked' = asked /\ looked' = looked
        /\ clientEnds' = clientEnds /\ serverEnds' = serverEnds
        /\ looked \in DOMAIN conns
    BY <1>4 DEF get_server_socket_matching_client, worldOfSockets
  <2>2. pc' # "match"
    BY <1>4 DEF get_server_socket_matching_client, AttemptEnds
  <2>3. ASSUME pc' = "passed", matched' # 0, ~asked.match_only_port
        PROVE  \/ conns[looked].mode = asked.mode
               \/ /\ asked.mode = "PLAINTEXT" /\ conns[looked].mode = "TLS"
                  /\ "server" \notin asked.reports
    <3>1. matched' = find_server_socket_matching_client(looked)
      BY <1>4 DEF get_server_socket_matching_client
    <3>2. matched' = looked
      BY <2>1, <2>3, <3>1, MatchedIsLooked
    <3>3. assertTestAppSecurity(client_security(looked),
                                server_security(matched'))
      BY <1>4, <2>3, PassedIsAccepted DEF get_server_socket_matching_client
    <3>4. asked.mode \in Modes /\ asked.reports \subseteq {"client", "server"}
      BY DEF Asked
    <3> QED
      BY <2>1, <3>2, <3>3, <3>4, SecurityTellsMode
  <2> QED
    BY <2>1, <2>2, <2>3 DEF DistinctAddresses, SecurityIsTrue
<1>5. CASE SocketRpcFails
  <2>1. pc' # "passed" /\ pc' # "match"
    <3>1. pc' # "passed"
      BY <1>5, PassedIsAccepted DEF SocketRpcFails
    <3> QED
      BY <1>5, <3>1 DEF SocketRpcFails, AttemptEnds
  <2> QED
    BY <1>5, <2>1 DEF SocketRpcFails, socketVars, DistinctAddresses,
      SecurityIsTrue
<1> QED
  BY <1>1, <1>2, <1>3, <1>4, <1>5 DEF SecurityStep

\* A step of the applications.
LEMMA SocketWorldInv ==
  ASSUME SocketInv, SocketWorld
  PROVE  SocketInv'
<1> USE DEF SocketInv
<1>1. ASSUME NEW conn \in Conn, Connects(conn) PROVE SocketInv'
  <2>1. /\ conns' \in Seq(Conn)
        /\ DOMAIN conns' = DOMAIN conns \cup {Len(conns) + 1}
        /\ \A i \in DOMAIN conns : conns'[i] = conns[i]
        /\ conns'[Len(conns) + 1] = conn
    BY <1>1 DEF Connects
  <2>2. DistinctAddresses'
    BY <1>1, <2>1 DEF Connects, DistinctAddresses
  <2>3. pc \notin Ends /\ pc' = pc /\ looked' = looked
        /\ clientEnds' \subseteq DOMAIN conns'
        /\ serverEnds' \subseteq DOMAIN conns'
    BY <1>1, <2>1 DEF Connects
  <2> QED
    BY <2>1, <2>2, <2>3 DEF SecurityIsTrue, Ends
<1>2. ASSUME NEW i \in clientEnds \cup serverEnds, Disconnects(i)
      PROVE  SocketInv'
  BY <1>2 DEF Disconnects, DistinctAddresses, SecurityIsTrue, Ends
<1> QED
  BY <1>1, <1>2 DEF SocketWorld

\* No connection is there yet.
LEMMA SecurityInit == Init => SecurityInv
<1> SUFFICES ASSUME Init PROVE SecurityInv
  OBVIOUS
<1>1. CASE which = "Security"
  BY <1>1 DEF Init, SocketInit, SecurityInv, SocketInv, DistinctAddresses,
    SecurityIsTrue
<1>2. CASE which # "Security"
  <2>1. [mode |-> "TLS", check_local_certs |-> FALSE,
         match_only_port |-> FALSE, reports |-> {}] \in Asked
    BY DEF Asked, Modes
  <2>2. \E a \in Asked : Reasonable(a)
    BY <2>1 DEF Reasonable
  <2> QED
    BY <1>2, <2>2 DEF Init, SecurityInv
<1> QED
  BY <1>1, <1>2

\* Only this wait and its applications touch the sockets.
LEMMA SecurityNext == SecurityInv /\ [Next]_vars => SecurityInv'
<1> SUFFICES ASSUME SecurityInv, [Next]_vars PROVE SecurityInv'
  OBVIOUS
<1>1. which' = which
  BY DEF Next, TestStep, SystemStep, Only, vars
<1>2. CASE which = "Security" /\ SecurityStep
  <2>1. asked' = asked
    BY <1>2 DEF SecurityStep, SecurityBegins, NoClientSocket, SocketRpcFails,
      get_active_server_channel_socket, get_server_socket_matching_client,
      worldOfSockets, socketVars
  <2> QED
    BY <1>1, <1>2, <2>1, SecurityStepInv DEF SecurityInv
<1>3. CASE which = "Security" /\ SocketWorld
  <2>1. asked' = asked
    BY <1>3 DEF SocketWorld, Connects, Disconnects
  <2> QED
    BY <1>1, <1>3, <2>1, SocketWorldInv DEF SecurityInv
<1>4. CASE UNCHANGED vars
  BY <1>4 DEF vars, socketVars, channelVars, SecurityInv, SocketInv,
    DistinctAddresses, SecurityIsTrue
<1>5. CASE which # "Security" /\ UNCHANGED socketVars
  BY <1>1, <1>5 DEF socketVars, SecurityInv
<1> QED
  BY <1>2, <1>3, <1>4, <1>5
  DEF Next, TestStep, SystemStep, Only, AssertionKinds, WindowKinds,
      ConfigKinds, StatsKinds

\* assertTestAppSecurityWithRetry passes only when the connection that it found
\* has the mode that is asked for, with the two exceptions that SecurityIsTrue
\* names, whatever connections break and are made in the meantime.
THEOREM SecurityIsProved == Spec => []SecurityIsTrue
<1>1. SecurityInv => SecurityIsTrue
  BY DEF SecurityInv, SocketInv, SecurityIsTrue
<1> QED
  BY SecurityInit, SecurityNext, <1>1, PTL DEF Spec

-------------------------------------------------------------------------------
(* Requests to the Kubernetes API server *)

Retryers3 == {FirstAttempt, _server_restart_retryer, _quick_recovery_retryer}

CallTypes ==
  /\ op \in Operations /\ object \in Objects
  /\ answer \in Answers \ {"absent"}
  /\ raised \in {"none", "NotFound", "ApiException", "RetryError"}
  /\ retryer \in Retryers3
  /\ faults \in Nat /\ token \in BOOLEAN /\ expired \in BOOLEAN
  /\ wasGone \in BOOLEAN /\ wasReady \in BOOLEAN

\* What the last answers say of the object was so.
AnswersHappened ==
  /\ object = "absent" \/ answer = "404" \/ raised = "NotFound" => wasGone
  /\ object = "ready" \/ answer = "ready" => wasReady

\* Nothing has gone wrong since the operation began, but the token was old.
Quiet == ~expired /\ faults = 0

\* Then an answer other than 401, and a retryer, mean that the token is valid.
TokenIsValid ==
  Quiet =>
    /\ retryer # FirstAttempt => token
    /\ callPc = "sent" /\ answer # "401" => token
    /\ callPc \in {"sent"} \cup Ends /\ answer = "401" =>
         callPc = "sent" /\ retryer = FirstAttempt

KubernetesInv ==
  CallTypes /\ AnswersHappened /\ TokenIsValid /\ AnswersAreTrue

K8sInv ==
  IF which = "Kubernetes" THEN KubernetesInv
  ELSE op = "get" /\ raised = "none" /\ answer = "none"

\* A retryer that an error selects is not the first attempt.
LEMMA SelectedRetryers ==
  /\ _server_restart_retryer # FirstAttempt
  /\ _quick_recovery_retryer # FirstAttempt
  /\ \A error \in _RETRY_ON_EXCEPTIONS :
       /\ _handle_exception(error) \subseteq Retryers3 \ {FirstAttempt}
       /\ error = "401" => _handle_exception(error) # {}
<1>1. /\ _server_restart_retryer # FirstAttempt
      /\ _quick_recovery_retryer # FirstAttempt
  BY DEF _server_restart_retryer, _quick_recovery_retryer, FirstAttempt, Once,
    exponential_retryer_with_timeout, constant_retryer
<1>2. ASSUME NEW error \in _RETRY_ON_EXCEPTIONS
      PROVE  /\ _handle_exception(error) \subseteq Retryers3 \ {FirstAttempt}
             /\ error = "401" => _handle_exception(error) # {}
  BY <1>1, <1>2 DEF _handle_exception, _handle_api_exception, Retryers3,
    _too_many_requests_retryer, _RETRY_ON_EXCEPTIONS
<1> QED
  BY <1>1, <1>2

\* What the object has been is remembered.
LEMMA BecomesRemembers ==
  ASSUME NEW obj, Becomes(obj), wasGone \in BOOLEAN, wasReady \in BOOLEAN
  PROVE  /\ wasGone' \in BOOLEAN /\ wasReady' \in BOOLEAN
         /\ object' = obj
         /\ wasGone \/ obj = "absent" => wasGone'
         /\ wasReady \/ obj = "ready" => wasReady'
BY Zenon DEF Becomes

\* The server answers with what the object is, or with an error of its own.
LEMMA ServedIsTrue ==
  ASSUME op \in Operations, object \in Objects
  PROVE  /\ Served \in {"pending", "ready", "terminating", "409", "404"}
         /\ Effect \in Objects
         /\ Effect = "absent" => object = "absent"
         /\ Effect = "ready" => object = "ready"
         /\ Served = "404" => object = "absent"
         /\ Served = "ready" => object = "ready"
BY DEF Served, Effect, Objects, Operations

\* The server answers, or the request or its answer is lost.
LEMMA SendRequestInv ==
  ASSUME KubernetesInv, SendRequest
  PROVE  KubernetesInv'
<1> USE DEF KubernetesInv
<1>0. /\ pc = "call" /\ pc' = "call" /\ callPc' = "sent" /\ op' = op
      /\ retryer' = retryer /\ raised' = raised /\ token' = token
      /\ expired' = expired
  BY DEF SendRequest, Call!AttemptBegins
<1>1. PICK obj \in {object, Effect} :
        /\ Becomes(obj)
        /\ \/ ~token /\ answer' = "401" /\ faults' = faults
           \/ token /\ answer' = Served /\ faults' = faults
           \/ /\ faults' = faults + 1
              /\ answer' \in {"aborted", "broken", "busy", "500", "504", "403"}
  BY DEF SendRequest
<1>2. /\ wasGone' \in BOOLEAN /\ wasReady' \in BOOLEAN
      /\ object' = obj
      /\ wasGone \/ obj = "absent" => wasGone'
      /\ wasReady \/ obj = "ready" => wasReady'
  BY <1>1, BecomesRemembers DEF CallTypes
<1>3. /\ Served \in {"pending", "ready", "terminating", "409", "404"}
      /\ obj \in Objects
      /\ obj = "absent" => object = "absent"
      /\ obj = "ready" => object = "ready"
      /\ Served = "404" => object = "absent"
      /\ Served = "ready" => object = "ready"
  BY ServedIsTrue DEF CallTypes
<1>4. answer' \in (Answers \ {"absent"}) /\ faults' \in Nat
      /\ (answer' = "404" => object = "absent")
      /\ (answer' = "ready" => object = "ready")
      /\ (faults' = 0 => faults = 0 /\ (token \/ answer' = "401"))
      /\ (answer' = "401" => ~token)
  BY <1>1, <1>3 DEF Answers, _RETRY_ON_EXCEPTIONS, Objects, CallTypes
<1>5. CallTypes'
  BY <1>0, <1>2, <1>3, <1>4 DEF CallTypes
<1>6. AnswersHappened'
  BY <1>0, <1>2, <1>3, <1>4 DEF AnswersHappened
<1>7. TokenIsValid'
  BY <1>0, <1>4 DEF TokenIsValid, Quiet, Ends, CallTypes
<1>8. AnswersAreTrue'
  BY <1>0, <1>6 DEF AnswersAreTrue, AnswersHappened
<1> QED
  BY <1>5, <1>6, <1>7, <1>8

\* What the retryer selected by the answer makes of it.
LEMMA ExecuteInv ==
  ASSUME KubernetesInv, _execute
  PROVE  KubernetesInv'
<1> USE DEF KubernetesInv
<1>0. /\ pc = "call" /\ pc' = "call" /\ callPc = "sent" /\ op' = op
      /\ answer' = answer /\ object' = object /\ faults' = faults
      /\ wasGone' = wasGone /\ wasReady' = wasReady /\ expired' = expired
  BY DEF _execute
<1>1. CASE RaisesNotFound
  <2>1. /\ answer = "404" /\ callPc' = "failed" /\ raised' = "NotFound"
        /\ retryer' = retryer /\ token' = token
    BY <1>1 DEF RaisesNotFound
  <2>2. CallTypes' /\ AnswersHappened'
    BY <1>0, <2>1 DEF CallTypes, AnswersHappened
  <2>3. TokenIsValid' /\ AnswersAreTrue'
    BY <1>0, <2>1, <2>2 DEF TokenIsValid, Quiet, AnswersAreTrue, Ends,
      AnswersHappened
  <2> QED
    BY <2>2, <2>3
<1>2. CASE Answered
  <2>1. /\ answer \in Objects /\ callPc' = "passed" /\ raised' = "none"
        /\ retryer' = retryer /\ token' = token
    BY <1>2 DEF Answered
  <2>2. CallTypes' /\ AnswersHappened'
    BY <1>0, <2>1 DEF CallTypes, AnswersHappened
  <2>3. TokenIsValid' /\ AnswersAreTrue'
    BY <1>0, <2>1 DEF TokenIsValid, Quiet, AnswersAreTrue, Ends, Objects
  <2> QED
    BY <2>2, <2>3
<1>3. CASE FirstError
  <2>1. /\ answer \in _RETRY_ON_EXCEPTIONS /\ retryer = FirstAttempt
        /\ token' = AfterRefresh(answer)
        /\ \/ /\ _handle_exception(answer) = {} /\ callPc' = "failed"
              /\ raised' = "ApiException" /\ retryer' = retryer
           \/ /\ retryer' \in _handle_exception(answer) /\ callPc' = "look"
              /\ raised' = raised
    BY <1>3 DEF FirstError
  <2>2. token' \in BOOLEAN /\ (token \/ answer = "401" => token')
    BY Zenon, <2>1 DEF AfterRefresh, CallTypes
  <2>3. CallTypes' /\ AnswersHappened'
    BY <1>0, <2>1, <2>2, SelectedRetryers DEF CallTypes, AnswersHappened
  <2>4. TokenIsValid'
    BY <1>0, <2>1, <2>2, SelectedRetryers DEF TokenIsValid, Quiet, Ends
  <2>5. AnswersAreTrue'
    BY <1>0, <2>1, <2>3 DEF AnswersAreTrue, AnswersHappened
  <2> QED
    BY <2>3, <2>4, <2>5
<1>4. CASE NextError
  <2>1. /\ answer \in _RETRY_ON_EXCEPTIONS /\ retryer # FirstAttempt
        /\ raised' \in {raised, "RetryError"}
        /\ retryer' = retryer /\ token' = token
    BY <1>4 DEF NextError
  <2>2. CallTypes' /\ AnswersHappened'
    BY <1>0, <2>1 DEF CallTypes, AnswersHappened
  <2>3. TokenIsValid' /\ AnswersAreTrue'
    BY <1>0, <2>1, <2>2 DEF TokenIsValid, Quiet, AnswersAreTrue, Ends,
      AnswersHappened
  <2> QED
    BY <2>2, <2>3
<1> QED
  BY <1>1, <1>2, <1>3, <1>4 DEF _execute

\* A request, or a wait's next request, begins: it forgets the last answer.
LEMMA OperationBeginsInv ==
  ASSUME KubernetesInv, OperationBegins
  PROVE  KubernetesInv'
<1> USE DEF KubernetesInv
<1>1. /\ pc' = "call" /\ callPc' = "look" /\ retryer' = FirstAttempt
      /\ raised' = "none" /\ answer' = "none"
      /\ UNCHANGED <<op, clusterVars>>
  BY DEF OperationBegins, AttemptBegins
<1>2. "none" \in Answers \ {"absent"}
  BY DEF Answers
<1>3. CallTypes' /\ AnswersHappened'
  BY <1>1, <1>2 DEF CallTypes, AnswersHappened, clusterVars, Retryers3
<1>4. TokenIsValid' /\ AnswersAreTrue'
  BY <1>1 DEF TokenIsValid, Quiet, AnswersAreTrue, Ends, clusterVars
<1> QED
  BY <1>3, <1>4

\* Only an object that is as wanted ends a wait.
LEMMA OperationReturnsInv ==
  ASSUME KubernetesInv, OperationReturns
  PROVE  KubernetesInv'
<1> USE DEF KubernetesInv
<1>1. /\ pc = "call" /\ callPc \in Ends /\ callPc' = "idle"
      /\ UNCHANGED <<op, retryer, answer, raised, clusterVars>>
  BY DEF OperationReturns
<1>2. CallTypes' /\ AnswersHappened'
  BY <1>1 DEF CallTypes, AnswersHappened, clusterVars
<1>3. TokenIsValid'
  BY <1>1 DEF TokenIsValid, Quiet, Ends, clusterVars
<1>4. WaitRetryer.conditions.checks = TRUE
  BY DEF WaitRetryer, constant_retryer, _build_retry_conditions
<1>5. ASSUME NEW wanted \in {"absent", "ready"},
             WaitOutcome(wanted) = "accepted"
      PROVE  _get_resource = wanted
  <2>1. _get_resource # "accepted"
    BY DEF _get_resource, CallTypes, Answers, _RETRY_ON_EXCEPTIONS, Objects
  <2> QED
    BY <1>5, <2>1 DEF WaitOutcome
<1>6. ASSUME op = "wait_deleted", pc' = "passed" PROVE wasGone
  <2>1. AttemptEnds(WaitRetryer, WaitOutcome("absent"))
    BY <1>6 DEF OperationReturns
  <2>2. WaitOutcome("absent") = "accepted"
    BY <1>4, <1>6, <2>1, PassedIsAccepted
  <2>3. _get_resource = "absent"
    BY <1>5, <2>2
  <2> QED
    BY <2>3 DEF _get_resource, CallTypes, AnswersHappened
<1>7. ASSUME op = "wait_ready", pc' = "passed" PROVE wasReady
  <2>1. AttemptEnds(WaitRetryer, WaitOutcome("ready"))
    BY <1>7 DEF OperationReturns
  <2>2. WaitOutcome("ready") = "accepted"
    BY <1>4, <1>7, <2>1, PassedIsAccepted
  <2>3. _get_resource = "ready"
    BY <1>5, <2>2
  <2> QED
    BY <2>3 DEF _get_resource, CallTypes, AnswersHappened
<1>8. ASSUME pc' = "failed", answer = "401" PROVE expired \/ faults > 0
  BY <1>1, <1>8 DEF TokenIsValid, Quiet, CallTypes, Ends
<1>9. AnswersAreTrue'
  <2>1. UNCHANGED <<op, raised, wasGone, wasReady, answer, expired, faults>>
    BY <1>1 DEF clusterVars
  <2> QED
    BY <2>1, <1>6, <1>7, <1>8 DEF AnswersAreTrue
<1> QED
  BY <1>2, <1>3, <1>9

\* Controllers, other users, and time.
LEMMA K8sWorldInv ==
  ASSUME KubernetesInv, K8sWorld
  PROVE  KubernetesInv'
<1> USE DEF KubernetesInv
<1>1. CASE ObjectChanges
  <2>1. PICK obj \in Objects : Becomes(obj)
    BY <1>1 DEF ObjectChanges, Objects
  <2>2. /\ wasGone' \in BOOLEAN /\ wasReady' \in BOOLEAN
        /\ object' = obj
        /\ wasGone \/ obj = "absent" => wasGone'
        /\ wasReady \/ obj = "ready" => wasReady'
    BY <2>1, BecomesRemembers DEF CallTypes
  <2>3. pc' = pc /\ UNCHANGED <<op, callPc, retryer, answer, raised, faults,
                                token, expired>>
    BY <1>1 DEF ObjectChanges, Change, callVars
  <2>4. CallTypes' /\ AnswersHappened'
    BY <2>1, <2>2, <2>3 DEF CallTypes, AnswersHappened
  <2>5. TokenIsValid'
    BY <2>3 DEF TokenIsValid, Quiet
  <2>6. AnswersAreTrue'
    BY <2>2, <2>3 DEF AnswersAreTrue
  <2> QED
    BY <2>4, <2>5, <2>6
<1>2. CASE TokenExpires
  <2>1. /\ pc' = pc /\ expired' = TRUE /\ token' = FALSE
        /\ UNCHANGED <<op, callPc, retryer, answer, raised, faults,
                       object, wasGone, wasReady>>
    BY <1>2 DEF TokenExpires, Change, callVars
  <2>2. CallTypes' /\ AnswersHappened'
    BY <2>1 DEF CallTypes, AnswersHappened
  <2>3. TokenIsValid' /\ AnswersAreTrue'
    BY <2>1 DEF TokenIsValid, Quiet, AnswersAreTrue
  <2> QED
    BY <2>2, <2>3
<1> QED
  BY <1>1, <1>2 DEF K8sWorld

\* Nothing has been asked yet.
LEMMA KubernetesInit == Init => K8sInv
<1> SUFFICES ASSUME Init PROVE K8sInv
  OBVIOUS
<1>1. CASE which = "Kubernetes"
  <2>1. PICK o \in Operations, obj \in Objects, tok \in BOOLEAN :
          K8sIdle(o, obj, tok)
    BY <1>1 DEF Init, K8sInit
  <2>2. pc = "look"
    BY <1>1 DEF Init, K8sInit
  <2>3. wasGone \in BOOLEAN /\ wasReady \in BOOLEAN
        /\ (obj = "absent" => wasGone) /\ (obj = "ready" => wasReady)
    BY Zenon, <2>1 DEF K8sIdle
  <2>4. /\ op = o /\ object = obj /\ token = tok /\ callPc = "idle"
        /\ retryer = FirstAttempt /\ answer = "none" /\ raised = "none"
        /\ faults = 0 /\ expired = FALSE
    BY <2>1 DEF K8sIdle
  <2>5. "none" \in Answers \ {"absent"}
    BY DEF Answers
  <2>6. CallTypes /\ AnswersHappened
    BY <2>3, <2>4, <2>5 DEF CallTypes, AnswersHappened, Retryers3
  <2>7. TokenIsValid /\ AnswersAreTrue
    BY <2>2, <2>4 DEF TokenIsValid, Quiet, AnswersAreTrue, Ends
  <2> QED
    BY <1>1, <2>6, <2>7 DEF K8sInv, KubernetesInv
<1>2. CASE which # "Kubernetes"
  BY <1>2 DEF Init, K8sIdle, K8sInv
<1> QED
  BY <1>1, <1>2

\* Only this wait and its cluster touch the request.
LEMMA KubernetesNext == K8sInv /\ [Next]_vars => K8sInv'
<1> SUFFICES ASSUME K8sInv, [Next]_vars PROVE K8sInv'
  OBVIOUS
<1>1. which' = which
  BY DEF Next, TestStep, SystemStep, Only, vars
<1>2. CASE which = "Kubernetes" /\ K8sStep
  BY <1>1, <1>2, OperationBeginsInv, SendRequestInv, ExecuteInv,
    OperationReturnsInv DEF K8sStep, K8sInv
<1>3. CASE which = "Kubernetes" /\ K8sWorld
  BY <1>1, <1>3, K8sWorldInv DEF K8sInv
<1>4. CASE UNCHANGED vars
  <2>1. UNCHANGED <<which, pc, k8sVars>>
    BY <1>4 DEF vars, channelVars, waitVars
  <2>2. UNCHANGED <<op, object, token, callPc, retryer, answer, raised, faults,
                    wasGone, wasReady, expired>>
    BY <2>1 DEF k8sVars, callVars, clusterVars
  <2> QED
    BY <2>1, <2>2 DEF K8sInv, KubernetesInv, CallTypes, AnswersHappened,
      TokenIsValid, Quiet, AnswersAreTrue
<1>5. CASE which # "Kubernetes" /\ UNCHANGED k8sVars
  BY <1>1, <1>5 DEF k8sVars, callVars, K8sInv
<1> QED
  BY <1>2, <1>3, <1>4, <1>5
  DEF Next, TestStep, SystemStep, Only, AssertionKinds, WindowKinds,
      ConfigKinds, StatsKinds

\* What an operation on the cluster is told is true through errors, repetitions
\* and lost answers, and it is not given up because its token was old
\* (k8s.py: _execute, _handle_exception, wait_for_*), for any number of them.
THEOREM AnswersAreProved == Spec => []AnswersAreTrue
<1>1. K8sInv => AnswersAreTrue
  BY DEF K8sInv, KubernetesInv, AnswersAreTrue
<1> QED
  BY KubernetesInit, KubernetesNext, <1>1, PTL DEF Spec

-------------------------------------------------------------------------------
(* What an attempt of an assertion about traffic returns *)

\* An attempt that is accepted ends the wait; an error that is not retried
\* gives it up.
LEMMA AttemptOutcome ==
  ASSUME NEW r, NEW outcome, AttemptEnds(r, outcome)
  PROVE  /\ pc' \in Ends \cup {"look"}
         /\ outcome \notin Values => pc' # "passed"
         /\ outcome \notin Values \cup r.conditions.on => pc' = "failed"
BY DEF AttemptEnds, Returned, Retried, Ends, Values

\* A check that does not hold is an AssertionError, which no wait passes.
LEMMA PassedChecks ==
  ASSUME NEW r, NEW holds \in BOOLEAN, AttemptEnds(r, Check(holds)),
         pc' = "passed"
  PROVE  holds
BY AttemptOutcome DEF Check, Values

\* The handoff is given up with any of them.
LEMMA OtherErrorsFail ==
  ASSUME NEW holds \in BOOLEAN, ~holds,
         AttemptEnds(HandoffRetryer, Check(holds))
  PROVE  pc' = "failed"
<1>1. HandoffRetryer.conditions.on = {"Retryable"}
  BY DEF HandoffRetryer, constant_retryer, _build_retry_conditions
<1> QED
  BY <1>1, AttemptOutcome DEF Check, Values

-------------------------------------------------------------------------------
(* The servers that get the traffic *)

GivenInv ==
  /\ pc \in {"look", "window", "pods"} \cup Ends
  /\ pc = "passed" =>
       /\ window.failed = 0
       /\ \A p \in window.peers : \E g \in Given : Deployment[p] = Deployment[g]

\* A replacement is a pod of the deployment of a given server.
LEMMA ExpectedAreGiven ==
  ASSUME NEW hosts \in ExpectedServers, NEW p \in hosts
  PROVE  \E g \in Given : Deployment[p] = Deployment[g]
<1> DEFINE missing == Given \ window.peers
<1>1. PICK f \in [missing -> Pods] :
        /\ \A m \in missing :
             f[m] \in IF Replacements(m) = {} THEN {m} ELSE Replacements(m)
        /\ hosts = (Given \cap window.peers) \cup {f[m] : m \in missing}
  BY DEF ExpectedServers
<1>2. CASE p \in Given
  BY <1>2
<1>3. CASE p \notin Given
  <2>1. PICK m \in missing : p = f[m]
    BY <1>1, <1>3
  <2>2. Deployment[p] = Deployment[m]
    BY <1>1, <2>1 DEF Replacements
  <2> QED
    BY <2>1, <2>2
<1> QED
  BY <1>2, <1>3

\* A step of an assertion, or of the system it looks at.
LEMMA GivenStepInv ==
  ASSUME kind = "GivenServers", GivenInv, AssertionStep \/ WorldStep
  PROVE  GivenInv'
<1> USE DEF GivenInv
<1>1. CASE Begins
  BY <1>1 DEF Begins, AttemptBegins, Ends, WindowKinds
<1>2. CASE RequestFails
  <2>1. pc' \in Ends \cup {"look"} /\ pc' # "passed"
    BY <1>2, AttemptOutcome DEF RequestFails, Finish, Values
  <2> QED
    BY <2>1
<1>3. CASE CloseWindow
  <2>1. window' = window
    BY <1>3 DEF CloseWindow
  <2>2. CASE Given \subseteq window.peers
    <3>1. Finish(Retryer, Check(assertSuccessfulRpcs /\ window.peers = Given))
      BY <1>3, <2>2 DEF CloseWindow
    <3>2. pc' \in Ends \cup {"look"}
      BY <3>1, AttemptOutcome DEF Finish
    <3>3. pc' = "passed" => assertSuccessfulRpcs /\ window.peers = Given
      BY <3>1, PassedChecks DEF Finish, assertSuccessfulRpcs
    <3> QED
      BY <2>1, <3>2, <3>3 DEF assertSuccessfulRpcs
  <2>3. CASE ~(Given \subseteq window.peers)
    <3>1. pc' = "pods"
      BY <1>3, <2>3 DEF CloseWindow, Goto
    <3> QED
      BY <3>1
  <2> QED
    BY <2>2, <2>3
<1>4. CASE CompareWithPods
  <2>1. PICK hosts \in ExpectedServers :
          Finish(Retryer, Check(assertSuccessfulRpcs /\ window.peers = hosts))
    BY <1>4 DEF CompareWithPods
  <2>2. window' = window
    BY <1>4 DEF CompareWithPods, measured
  <2>3. pc' \in Ends \cup {"look"}
    BY <2>1, AttemptOutcome DEF Finish
  <2>4. pc' = "passed" => assertSuccessfulRpcs /\ window.peers = hosts
    BY <2>1, PassedChecks DEF Finish, assertSuccessfulRpcs
  <2> QED
    BY <2>2, <2>3, <2>4, ExpectedAreGiven DEF assertSuccessfulRpcs
<1>5. CASE RpcIsLost \/ \E p \in Pods : RpcSucceeds(p)
  BY <1>5 DEF RpcIsLost, RpcSucceeds, InWindow
<1>6. CASE Move /\ UNCHANGED window
  BY <1>6 DEF Move
<1>7. pc \notin {"fetch", "measure", "second", "again"}
  BY DEF Ends
<1> QED
  BY <1>1, <1>2, <1>3, <1>4, <1>5, <1>6, <1>7
  DEF AssertionStep, WorldStep, FetchConfig, NoConfig, CompareVersions,
      CloseSecondWindow, WindowDone, Measure, MeasureAgain, PodChanges,
      ConfigChanges, ClientCalls, ClientCallEnds, StatsMove, ClientRestarts,
      ClientRecovers, Move

-------------------------------------------------------------------------------
(* The counters of the client *)

StatusKinds == {"StatusCodes", "StatusCodesWithRetry"}

Counters == [live : Nat, ended : Counts]

\* Calls that ended since the first measurement are its difference from now.
StatusInv ==
  /\ pc \in {"look", "measure", "second"} \cup Ends
  /\ stats \in Counters /\ sample \in Counters /\ done \in Counts
  /\ restarts \in Nat
  /\ pc = "second" /\ restarts = 0 =>
       \A s \in Statuses : stats.ended[s] = sample.ended[s] + done[s]
  /\ StatusesAreHonest

\* The differences of the counters are the calls that ended in between.
LEMMA DiffIsDone ==
  ASSUME stats \in Counters, sample \in Counters, done \in Counts,
         \A s \in Statuses : stats.ended[s] = sample.ended[s] + done[s],
         NEW s \in Statuses
  PROVE  Diff(s) = done[s]
BY DEF Diff, Counters, Counts

\* A measurement, or calls of the client in between.
LEMMA StatusStepInv ==
  ASSUME kind \in StatusKinds, StatusInv, AssertionStep \/ WorldStep
  PROVE  StatusInv'
<1> USE DEF StatusInv
<1>k. kind' = kind
  BY DEF AssertionStep, WorldStep, Begins, RequestFails, RpcIsLost, CloseWindow,
    CompareWithPods, FetchConfig, NoConfig, CompareVersions, CloseSecondWindow,
    Measure, MeasureAgain, RpcSucceeds, PodChanges, ConfigChanges, ClientCalls,
    ClientCallEnds, StatsMove, ClientRestarts, ClientRecovers, Move, Finish,
    Goto, unmoved
<1>n. kind \notin {"SteadyState"} \cup WindowKinds \cup ConfigKinds
  BY DEF StatusKinds, WindowKinds, ConfigKinds
<1>1. CASE Begins
  BY <1>1, <1>n, <1>k DEF Begins, AttemptBegins, unmoved, worldVars,
    StatusesAreHonest, Passed
<1>2. CASE RequestFails
  <2>1. pc' \in Ends \cup {"look"} /\ pc' # "passed"
    BY <1>2, AttemptOutcome DEF RequestFails, Finish, Values
  <2>2. UNCHANGED <<stats, sample, done, restarts>>
    BY <1>2 DEF RequestFails, Finish, unmoved, worldVars, measured
  <2> QED
    BY <1>k, <2>1, <2>2 DEF StatusesAreHonest, Passed, Ends
<1>3. CASE Measure
  <2>1. /\ pc' = "second" /\ sample' = stats /\ done' = Zero
        /\ UNCHANGED <<stats, restarts>>
    BY <1>3, <1>n DEF Measure, Goto, unmoved, worldVars
  <2>2. done' \in Counts /\ \A s \in Statuses : done'[s] = 0
    BY <2>1 DEF Zero, Counts
  <2>3. \A s \in Statuses : stats.ended[s] \in Nat
    BY DEF Counters, Counts
  <2>4. \A s \in Statuses : stats'.ended[s] = sample'.ended[s] + done'[s]
    BY <2>1, <2>2, <2>3
  <2> QED
    BY <1>k, <2>1, <2>2, <2>4 DEF StatusesAreHonest, Passed, Ends
<1>4. CASE MeasureAgain
  <2>1. /\ pc = "second" /\ UNCHANGED <<stats, sample, done, restarts>>
        /\ AttemptEnds(Retryer, Check(assertRpcStatusCodes))
    BY <1>4, <1>n DEF MeasureAgain, Finish, unmoved, worldVars, measured
  <2>2. pc' \in Ends \cup {"look"}
    BY <2>1, AttemptOutcome
  <2>3. pc' = "passed" => assertRpcStatusCodes
    BY <2>1, PassedChecks DEF assertRpcStatusCodes
  <2>4. StatusesAreHonest'
    <3>1. SUFFICES ASSUME pc' = "passed", restarts = 0
                   PROVE  /\ done["expected"] > 0
                          /\ \A s \in Statuses \ {"expected"} :
                               done[s] <= StrayLimit
      BY <2>1 DEF StatusesAreHonest, Passed
    <3>2. \A s \in Statuses : Diff(s) = done[s]
      BY <2>1, <3>1, DiffIsDone
    <3> QED
      BY <2>3, <3>1, <3>2 DEF assertRpcStatusCodes, Statuses
  <2> QED
    BY <2>1, <2>2, <2>4 DEF Ends
<1>5. CASE ClientCalls
  <2>1. /\ pc' = pc /\ UNCHANGED <<sample, done, restarts>>
        /\ stats' = [stats EXCEPT !.live = @ + 1]
    BY <1>5 DEF ClientCalls, StatsMove, Move
  <2>2. stats' \in Counters /\ stats'.ended = stats.ended
    BY <2>1 DEF Counters
  <2> QED
    BY <1>k, <2>1, <2>2 DEF StatusesAreHonest, Passed
<1>6. ASSUME NEW s \in Statuses, ClientCallEnds(s) PROVE StatusInv'
  <2>1. /\ pc' = pc /\ UNCHANGED <<sample, restarts>> /\ pc \notin Ends
        /\ stats' = [stats EXCEPT !.live = @ - 1, !.ended[s] = @ + 1]
        /\ done' = [done EXCEPT ![s] = @ + 1]
        /\ stats.live > 0
    BY <1>6 DEF ClientCallEnds, StatsMove, Move, Ends
  <2>2. /\ stats' \in Counters
        /\ stats'.ended = [stats.ended EXCEPT ![s] = @ + 1]
    <3>1. stats' = [live |-> stats.live - 1,
                    ended |-> [stats.ended EXCEPT ![s] = @ + 1]]
      BY <2>1 DEF Counters
    <3>2. stats.live - 1 \in Nat
      BY <2>1 DEF Counters
    <3>3. [stats.ended EXCEPT ![s] = @ + 1] \in Counts
      BY DEF Counters, Counts
    <3> QED
      BY <3>1, <3>2, <3>3 DEF Counters
  <2>3. done' \in Counts
    BY <2>1 DEF Counts
  <2>4. ASSUME pc = "second", restarts = 0, NEW t \in Statuses
        PROVE  stats'.ended[t] = sample.ended[t] + done'[t]
    BY <2>1, <2>2, <2>4 DEF Counters, Counts
  <2> QED
    BY <1>k, <2>1, <2>2, <2>3, <2>4 DEF StatusesAreHonest, Passed, Ends
<1>7. CASE ClientRestarts
  <2>1. /\ pc' = pc /\ UNCHANGED <<sample, done>> /\ restarts' = 1
        /\ stats' = [live |-> 0, ended |-> Zero]
    BY <1>7 DEF ClientRestarts, Move
  <2>2. stats' \in Counters
    BY <2>1 DEF Counters, Counts, Zero
  <2> QED
    BY <1>k, <2>1, <2>2 DEF StatusesAreHonest, Passed
<1>8. pc \notin {"window", "again", "pods", "fetch"}
  BY DEF Ends
<1>9. ~ConfigChanges /\ ~ClientRecovers /\ \A p, q \in Pods : ~PodChanges(p, q)
  BY DEF StatusKinds, ConfigChanges, ClientRecovers, PodChanges
<1> QED
  BY <1>1, <1>2, <1>3, <1>4, <1>5, <1>6, <1>7, <1>8, <1>9
  DEF AssertionStep, WorldStep, RpcIsLost, RpcSucceeds, InWindow, CloseWindow,
      WindowDone, CompareWithPods, FetchConfig, NoConfig, CompareVersions,
      CloseSecondWindow

-------------------------------------------------------------------------------
(* The handoff of traffic to a new route *)

\* Calls of the last window that did not fail went by the new configuration.
HandoffInv ==
  /\ pc \in {"look", "window", "fetch", "again"} \cup Ends
  /\ window \in [rpcs : Nat, failed : Nat, peers : SUBSET Pods,
                 versions : SUBSET Nat]
  /\ failures \in BOOLEAN /\ restarts \in Nat
  /\ config \in [types : SUBSET Types, version : 0..1, healthy : Nat,
                 draining : Nat]
  /\ restarts = 0 => config.types = Types
  /\ failures => pc = "failed"
  /\ pc = "again" /\ restarts = 0 =>
       /\ config.version = 1 /\ window.versions \subseteq {1}
       /\ window.rpcs > 0 /\ window.failed = 0 => window.versions = {1}
  /\ HandoffIsSeamless

\* A call, a look at the configuration, or a change of it.
LEMMA HandoffStepInv ==
  ASSUME kind = "Handoff", HandoffInv, AssertionStep \/ WorldStep
  PROVE  HandoffInv'
<1> USE DEF HandoffInv
<1>k. kind' = kind
  BY DEF AssertionStep, WorldStep, Begins, RequestFails, RpcIsLost, CloseWindow,
    CompareWithPods, FetchConfig, NoConfig, CompareVersions, CloseSecondWindow,
    Measure, MeasureAgain, RpcSucceeds, PodChanges, ConfigChanges, ClientCalls,
    ClientCallEnds, StatsMove, ClientRestarts, ClientRecovers, Move, Finish,
    Goto, unmoved
<1>n. kind \notin {"SteadyState"} \cup StatsKinds \cup ConfigKinds
  BY DEF StatsKinds, ConfigKinds
<1>r. /\ Retryer = HandoffRetryer
      /\ HandoffRetryer.conditions.on = {"Retryable"}
  BY DEF Retryer, HandoffRetryer, constant_retryer, _build_retry_conditions
<1>c. Closed \in [rpcs : Nat, failed : Nat, peers : SUBSET Pods,
                  versions : SUBSET Nat]
      /\ Closed.rpcs = 0 /\ Closed.versions = {}
  BY DEF Closed
<1>1. CASE Begins
  BY <1>1, <1>c, <1>k DEF Begins, AttemptBegins, unmoved, worldVars,
    HandoffIsSeamless, Passed, WindowKinds, Ends
<1>2. CASE RequestFails \/ NoConfig
  <2>1. UNCHANGED <<window, failures, restarts, config>>
    BY <1>2 DEF RequestFails, NoConfig, Finish, unmoved, worldVars, measured
  <2>2. \/ AttemptEnds(Retryer, "RpcError")
        \/ AttemptEnds(Retryer, "AssertionError")
    BY <1>2 DEF RequestFails, NoConfig, Finish
  <2>3. pc' = "failed"
    BY <1>r, <2>2, AttemptOutcome DEF Values
  <2> QED
    BY <1>k, <2>1, <2>3 DEF HandoffIsSeamless, Passed, Ends
<1>3. CASE CloseWindow
  <2>1. UNCHANGED <<window, restarts, config>>
    BY <1>3 DEF CloseWindow, Finish, Goto, unmoved, worldVars
  <2>2. failures' = (failures \/ window.failed > 0) /\ pc = "window"
    BY <1>3 DEF CloseWindow, WindowDone
  <2>3. failures' \in BOOLEAN /\ (failures' => window.failed > 0)
    BY Zenon, <2>2 DEF Ends
  <2>4. CASE assertSuccessfulRpcs
    <3>1. pc' = "fetch"
      BY <1>3, <2>4 DEF CloseWindow, Goto
    <3>2. ~failures'
      BY <2>3, <2>4 DEF assertSuccessfulRpcs
    <3> QED
      BY <1>k, <2>1, <2>3, <3>1, <3>2 DEF HandoffIsSeamless, Passed
  <2>5. CASE ~assertSuccessfulRpcs
    <3>1. AttemptEnds(Retryer, "AssertionError")
      BY <1>3, <2>5 DEF CloseWindow, Finish
    <3>2. pc' = "failed"
      BY <1>r, <3>1, AttemptOutcome DEF Values
    <3> QED
      BY <1>k, <2>1, <2>3, <3>2 DEF HandoffIsSeamless, Passed, Ends
  <2> QED
    BY <2>4, <2>5
<1>4. CASE CompareVersions
  <2>1. UNCHANGED <<failures, restarts, config>> /\ pc = "fetch"
    BY <1>4 DEF CompareVersions, Finish, Goto, unmoved, worldVars
  <2>2. ~failures
    BY <2>1 DEF Ends
  <2>3. CASE rds_version = 0
    <3>1. pc' \in Ends \cup {"look"} /\ pc' # "passed" /\ window' = window
      BY <1>4, <2>3, AttemptOutcome DEF CompareVersions, Finish, Values
    <3> QED
      BY <1>k, <2>1, <2>2, <3>1 DEF HandoffIsSeamless, Passed, Ends
  <2>4. CASE rds_version # 0
    <3>1. pc' = "again" /\ window' = Closed
      BY <1>4, <2>4 DEF CompareVersions, Goto
    <3>2. restarts = 0 => config.version = 1
      BY <2>4 DEF rds_version, Types
    <3> QED
      BY <1>k, <1>c, <2>1, <2>2, <3>1, <3>2 DEF HandoffIsSeamless, Passed
  <2> QED
    BY <2>3, <2>4
<1>5. CASE CloseSecondWindow
  <2>1. /\ UNCHANGED <<window, restarts, config>>
        /\ pc = "again" /\ window.rpcs = NumRpcs
        /\ failures' = (failures \/ window.failed > 0)
        /\ AttemptEnds(HandoffRetryer, Check(assertSuccessfulRpcs))
    BY <1>5, <1>r DEF CloseSecondWindow, WindowDone, Finish, unmoved, worldVars
  <2>2. failures' \in BOOLEAN /\ (failures' => window.failed > 0)
    BY Zenon, <2>1 DEF Ends
  <2>3. CASE assertSuccessfulRpcs
    <3>1. pc' \in Ends \cup {"look"}
      BY <2>1, AttemptOutcome
    <3>2. ~failures'
      BY <2>2, <2>3 DEF assertSuccessfulRpcs
    <3>3. window.rpcs > 0
      BY <2>1, AssertionConstants
    <3> QED
      BY <1>k, <2>1, <2>2, <2>3, <3>1, <3>2, <3>3
      DEF HandoffIsSeamless, Passed, Ends, assertSuccessfulRpcs
  <2>4. CASE ~assertSuccessfulRpcs
    <3>1. pc' = "failed"
      BY <2>1, <2>4, OtherErrorsFail DEF assertSuccessfulRpcs
    <3> QED
      BY <1>k, <2>1, <2>2, <3>1 DEF HandoffIsSeamless, Passed, Ends
  <2> QED
    BY <2>3, <2>4
<1>6. ASSUME NEW p \in Pods, RpcSucceeds(p) PROVE HandoffInv'
  <2>1. /\ UNCHANGED <<pc, failures, restarts, config>>
        /\ window' = [window EXCEPT !.rpcs = @ + 1, !.peers = @ \cup {p},
                                    !.versions = @ \cup {config.version}]
        /\ pc \notin Ends
    BY <1>6 DEF RpcSucceeds, InWindow, unmoved, worldVars, Ends
  <2>2. window' = [rpcs |-> window.rpcs + 1, failed |-> window.failed,
                   peers |-> window.peers \cup {p},
                   versions |-> window.versions \cup {config.version}]
    BY <2>1
  <2>3. window.versions \cup {config.version} \in SUBSET Nat
        /\ window.peers \cup {p} \in SUBSET Pods
    OBVIOUS
  <2>4. window' \in [rpcs : Nat, failed : Nat, peers : SUBSET Pods,
                     versions : SUBSET Nat]
        /\ window'.versions = window.versions \cup {config.version}
    BY <2>2, <2>3
  <2> QED
    BY <1>k, <2>1, <2>4 DEF HandoffIsSeamless, Passed, Ends
<1>7. CASE RpcIsLost
  <2>1. /\ UNCHANGED <<pc, failures, restarts, config>>
        /\ window' = [window EXCEPT !.rpcs = @ + 1, !.failed = @ + 1]
        /\ pc \notin Ends
    BY <1>7 DEF RpcIsLost, InWindow, unmoved, worldVars, Ends
  <2>0. window' = [rpcs |-> window.rpcs + 1, failed |-> window.failed + 1,
                   peers |-> window.peers, versions |-> window.versions]
    BY <2>1
  <2>2. window' \in [rpcs : Nat, failed : Nat, peers : SUBSET Pods,
                     versions : SUBSET Nat]
        /\ window'.versions = window.versions
        /\ window'.failed = window.failed + 1
    BY <2>0
  <2> QED
    BY <1>k, <2>1, <2>2 DEF HandoffIsSeamless, Passed, Ends
<1>8. CASE ConfigChanges
  <2>1. /\ UNCHANGED <<pc, failures, restarts, window>> /\ pc \notin Ends
        /\ config.version = 0
        /\ config' = [config EXCEPT !.version = 1]
    BY <1>8 DEF ConfigChanges, Move, Ends
  <2> QED
    BY <1>k, <2>1 DEF HandoffIsSeamless, Passed, Ends
<1>9. CASE ClientRestarts \/ ClientRecovers
  <2>1. /\ UNCHANGED <<pc, failures, window>> /\ pc \notin Ends
        /\ restarts' \in {restarts, 1}
        /\ restarts' = 0 => restarts = 0
        /\ \/ restarts' # 0 /\ config' = [config EXCEPT !.types = {}]
           \/ restarts' = restarts /\ config' = [config EXCEPT !.types = Types]
    BY <1>9 DEF ClientRestarts, ClientRecovers, Move, Ends
  <2> QED
    BY <1>k, <2>1 DEF HandoffIsSeamless, Passed, Ends
<1>10. pc \notin {"measure", "second", "pods"}
  BY DEF Ends
<1> QED
  BY <1>1, <1>2, <1>3, <1>4, <1>5, <1>6, <1>7, <1>8, <1>9, <1>10, <1>n
  DEF AssertionStep, WorldStep, CompareWithPods, FetchConfig, Measure,
      MeasureAgain, PodChanges, ClientCalls, ClientCallEnds, StatsMove

-------------------------------------------------------------------------------
(* All of them *)

AssertionsInv ==
  /\ kind = IF which \in AssertionKinds THEN which ELSE "none"
  /\ kind = "GivenServers" => GivenInv
  /\ kind \in StatusKinds  => StatusInv
  /\ kind = "Handoff"      => HandoffInv

\* Nothing has been looked at yet.
LEMMA AssertionsInit == Init => AssertionsInv
<1> SUFFICES ASSUME Init PROVE AssertionsInv
  OBVIOUS
<1>1. kind = IF which \in AssertionKinds THEN which ELSE "none"
  BY DEF Init, AssertionInit
<1>2. SUFFICES ASSUME kind \in {"GivenServers", "Handoff"} \cup StatusKinds
               PROVE  AssertionsInv
  BY <1>1 DEF AssertionsInv
<1>3. which \in AssertionKinds
  BY <1>1, <1>2 DEF StatusKinds
<1>4. which = kind
  BY <1>1, <1>3
<1>5. pc = "look"
  BY <1>2, <1>4 DEF Init, StatusKinds
<1>6. /\ window = Closed /\ failures = FALSE /\ restarts = 0 /\ done = Zero
      /\ stats = [live |-> 0, ended |-> Zero] /\ sample = stats
      /\ config \in [types : IF kind = "Handoff" THEN {Types}
                             ELSE {Types, {}},
                     version : {0}, healthy : {0}, draining : {0}]
  BY <1>3, <1>4 DEF Init, AssertionInit
<1>7. GivenInv
  BY <1>5 DEF GivenInv, Ends
<1>8. StatusInv
  BY <1>5, <1>6 DEF StatusInv, StatusesAreHonest, Passed, Counters, Counts,
    Zero
<1>9. ASSUME kind = "Handoff" PROVE HandoffInv
  <2>1. window \in [rpcs : Nat, failed : Nat, peers : SUBSET Pods,
                    versions : SUBSET Nat]
    BY <1>6 DEF Closed
  <2>2. config = [types |-> Types, version |-> 0, healthy |-> 0, draining |-> 0]
    BY <1>6, <1>9
  <2>3. config \in [types : SUBSET Types, version : 0..1, healthy : Nat,
                    draining : Nat] /\ config.types = Types
    BY <2>2
  <2> QED
    BY <1>5, <1>6, <2>1, <2>3 DEF HandoffInv, HandoffIsSeamless, Passed
<1> QED
  BY <1>1, <1>7, <1>8, <1>9 DEF AssertionsInv

\* Only an assertion and the system it looks at touch what it compares.
LEMMA AssertionsNext == AssertionsInv /\ [Next]_vars => AssertionsInv'
<1> SUFFICES ASSUME AssertionsInv, [Next]_vars PROVE AssertionsInv'
  OBVIOUS
<1>1. which' = which
  BY DEF Next, TestStep, SystemStep, Only, vars
<1>2. CASE which \in AssertionKinds /\ (AssertionStep \/ WorldStep)
  <2>1. kind' = kind
    BY <1>2 DEF AssertionStep, WorldStep, Begins, RequestFails, RpcIsLost,
      CloseWindow, CompareWithPods, FetchConfig, NoConfig, CompareVersions,
      CloseSecondWindow, Measure, MeasureAgain, RpcSucceeds, PodChanges,
      ConfigChanges, ClientCalls, ClientCallEnds, StatsMove, ClientRestarts,
      ClientRecovers, Move, Finish, Goto, unmoved
  <2> QED
    BY <1>1, <1>2, <2>1, GivenStepInv, StatusStepInv, HandoffStepInv
    DEF AssertionsInv
<1>3. CASE UNCHANGED vars
  <2>1. UNCHANGED <<pc, kind, config, stats, restarts, window, sample, done,
                    failures>>
    BY <1>3 DEF vars, channelVars, waitVars, assertVars, worldVars, measured
  <2> QED
    BY <1>1, <2>1 DEF AssertionsInv, GivenInv, StatusInv, HandoffInv,
      StatusesAreHonest, HandoffIsSeamless, Passed
<1>4. CASE which \notin AssertionKinds /\ UNCHANGED assertVars
  BY <1>1, <1>4 DEF assertVars, AssertionsInv, StatusKinds
<1> QED
  BY <1>2, <1>3, <1>4
  DEF Next, TestStep, SystemStep, Only, AssertionKinds, WindowKinds,
      ConfigKinds, StatsKinds

\* A handoff that passed (assertRouteConfigUpdateTrafficHandoff) had no gap,
\* from the first call that was looked at to the last, and ended on the new
\* route.
THEOREM HandoffIsProved == Spec => []HandoffIsSeamless
<1>1. AssertionsInv => HandoffIsSeamless
  BY DEF AssertionsInv, HandoffIsSeamless, Passed, HandoffInv
<1> QED
  BY AssertionsInit, AssertionsNext, <1>1, PTL DEF Spec

\* The counters that assertRpcStatusCodes compares tell the calls that ended in
\* between, in whichever attempt it passes.
THEOREM StatusesAreProved == Spec => []StatusesAreHonest
<1>1. AssertionsInv => StatusesAreHonest
  BY DEF AssertionsInv, StatusesAreHonest, Passed, StatusInv, StatusKinds
<1> QED
  BY AssertionsInit, AssertionsNext, <1>1, PTL DEF Spec

\* Traffic that was seen to go to the given servers
\* (assertRpcsEventuallyGoToGivenServers) went to their deployments only.
THEOREM GivenIsProved == Spec => []OnlyGivenDeployments
<1>1. AssertionsInv => OnlyGivenDeployments
  BY DEF AssertionsInv, OnlyGivenDeployments, Passed, GivenInv
<1> QED
  BY AssertionsInit, AssertionsNext, <1>1, PTL DEF Spec

-------------------------------------------------------------------------------
(* The types of the waits *)

\* The attempts of a wait are counted up to the bound.
LooksAreCounted ==
  looks' = looks \/ looks' = (IF looks < MaxLooks THEN looks + 1 ELSE looks)

AssertionPcs ==
  {"look", "window", "again", "pods", "fetch", "measure", "second"} \cup Ends

\* No counter has counted more than has happened.
CountersTo(n) == [live : 0..MaxLive, ended : [Statuses -> 0..n]]

Windows == [rpcs : 0..NumRpcs, failed : 0..NumRpcs, peers : SUBSET Pods,
            versions : SUBSET (0..1)]

Configs == [types : SUBSET Types, version : 0..1, healthy : 0..2,
            draining : 0..2]

AssertionTypes ==
  /\ pc \in AssertionPcs
  /\ kind \in AssertionKinds /\ events \in 0..MaxEvents
  /\ alive \subseteq Pods
  /\ config \in Configs
  /\ stats \in CountersTo(events) /\ sample \in CountersTo(events)
  /\ done \in [Statuses -> 0..events]
  /\ window \in Windows /\ window.failed <= window.rpcs
  /\ failures \in BOOLEAN /\ restarts \in 0..1

\* What happens once more leaves the counters in their range.
LEMMA CountersGrow ==
  ASSUME NEW n \in Nat, NEW c \in CountersTo(n)
  PROVE  c \in CountersTo(n + 1)
<1>1. /\ c = [live |-> c.live, ended |-> c.ended]
      /\ c.live \in 0..MaxLive /\ c.ended \in [Statuses -> 0..n]
  BY DEF CountersTo
<1>2. c.ended \in [Statuses -> 0..(n + 1)]
  BY <1>1
<1> QED
  BY <1>1, <1>2 DEF CountersTo

\* A step of the assertion.
LEMMA AssertionStepTypes ==
  ASSUME AssertionTypes, AssertionStep
  PROVE  AssertionTypes' /\ LooksAreCounted
<1> USE DEF AssertionTypes
<1>e. \A r, outcome : AttemptEnds(r, outcome) =>
        pc' \in AssertionPcs /\ looks' = looks
  BY DEF AttemptEnds, AssertionPcs, Ends
<1>g. /\ \A r, outcome : Finish(r, outcome) =>
           pc' \in AssertionPcs /\ UNCHANGED <<looks, unmoved>>
      /\ \A next : Goto(next) => pc' = next /\ UNCHANGED <<looks, unmoved>>
  BY <1>e DEF Finish, Goto
<1>c. Closed \in Windows /\ Closed.failed = 0 /\ Closed.rpcs = 0
  BY AssertionConstants DEF Closed, Windows
<1>u. SUFFICES ASSUME UNCHANGED unmoved, pc' \in AssertionPcs, LooksAreCounted,
                      sample' \in {sample, stats}, done' \in {done, Zero},
                      window' \in Windows, window'.failed <= window'.rpcs,
                      failures' \in BOOLEAN
               PROVE  AssertionTypes'
  <2>1. CASE Begins
    BY <2>1, <1>c DEF Begins, AttemptBegins, LooksAreCounted, AssertionPcs,
      unmoved, worldVars
  <2>2. CASE RequestFails
    BY <2>2, <1>g DEF RequestFails, measured, LooksAreCounted
  <2>3. CASE RpcIsLost
    <3>1. window' = [window EXCEPT !.rpcs = @ + 1, !.failed = @ + 1]
          /\ window.rpcs < NumRpcs
      BY <2>3 DEF RpcIsLost, InWindow
    <3>2. window' = [rpcs |-> window.rpcs + 1, failed |-> window.failed + 1,
                     peers |-> window.peers, versions |-> window.versions]
      BY <3>1 DEF Windows
    <3>3. /\ window' \in Windows /\ window'.rpcs = window.rpcs + 1
          /\ window'.failed = window.failed + 1
      BY <3>1, <3>2, AssertionConstants DEF Windows
    <3>4. window'.failed <= window'.rpcs
      BY <3>3 DEF Windows
    <3> QED
      BY <2>3, <3>3, <3>4 DEF RpcIsLost, LooksAreCounted, AssertionPcs
  <2>4. CASE CloseWindow \/ CloseSecondWindow
    <3>1. failures' = (failures \/ window.failed > 0)
          /\ UNCHANGED <<window, sample, done>>
      BY <2>4 DEF CloseWindow, CloseSecondWindow, WindowDone
    <3>2. failures' \in BOOLEAN
      BY Zenon, <3>1
    <3>3. pc' \in AssertionPcs /\ UNCHANGED <<looks, unmoved>>
      <4>1. CASE CloseSecondWindow
        BY <4>1, <1>g DEF CloseSecondWindow
      <4>2. CASE CloseWindow
        <5>1. \/ \E outcome : Finish(Retryer, outcome)
              \/ Goto("pods") \/ Goto("fetch")
          BY <4>2 DEF CloseWindow
        <5> QED
          BY <5>1, <1>g DEF AssertionPcs
      <4> QED
        BY <2>4, <4>1, <4>2
    <3> QED
      BY <3>1, <3>2, <3>3 DEF LooksAreCounted
  <2>5. CASE CompareWithPods
    BY <2>5, <1>g DEF CompareWithPods, measured, LooksAreCounted
  <2>6. CASE FetchConfig \/ NoConfig
    BY <2>6, <1>g DEF FetchConfig, NoConfig, measured, LooksAreCounted
  <2>7. CASE CompareVersions
    <3>1. pc' \in AssertionPcs /\ UNCHANGED <<looks, unmoved>>
          /\ window' \in {window, Closed}
      BY <2>7, <1>g DEF CompareVersions, AssertionPcs
    <3> QED
      BY <2>7, <3>1, <1>c DEF CompareVersions, LooksAreCounted
  <2>8. CASE Measure
    <3>1. pc' \in AssertionPcs /\ UNCHANGED <<looks, unmoved>>
      BY <2>8, <1>g DEF Measure, AssertionPcs
    <3> QED
      BY <2>8, <3>1 DEF Measure, LooksAreCounted
  <2>9. CASE MeasureAgain
    <3>1. pc' \in AssertionPcs /\ UNCHANGED <<looks, unmoved>>
      BY <2>9, <1>g DEF MeasureAgain
    <3> QED
      BY <2>9, <3>1 DEF MeasureAgain, measured, LooksAreCounted
  <2> QED
    BY <2>1, <2>2, <2>3, <2>4, <2>5, <2>6, <2>7, <2>8, <2>9 DEF AssertionStep
<1>1. UNCHANGED <<kind, events, alive, config, stats, restarts>>
  BY <1>u DEF unmoved, worldVars
<1>2. Zero \in [Statuses -> 0..events]
  BY AssertionConstants DEF Zero
<1> QED
  BY <1>u, <1>1, <1>2

\* A change of the system that it looks at.
LEMMA WorldStepTypes ==
  ASSUME AssertionTypes, WorldStep
  PROVE  AssertionTypes' /\ LooksAreCounted
<1> USE AssertionConstants DEF AssertionTypes
<1>m. ASSUME Move
      PROVE  /\ UNCHANGED <<pc, looks, kind, window, sample, failures>>
             /\ events' = events + 1 /\ events' \in 0..MaxEvents
             /\ stats \in CountersTo(events') /\ sample' \in CountersTo(events')
             /\ done \in [Statuses -> 0..events']
  <2>1. /\ UNCHANGED <<pc, looks, kind, window, sample, failures>>
        /\ events' = events + 1 /\ events' \in 0..MaxEvents
    BY <1>m DEF Move
  <2>2. done \in [Statuses -> 0..(events + 1)]
    OBVIOUS
  <2> QED
    BY <2>1, <2>2, CountersGrow
<1>1. ASSUME NEW p \in Pods, RpcSucceeds(p) PROVE AssertionTypes'
  <2>1. window' = [window EXCEPT !.rpcs = @ + 1, !.peers = @ \cup {p},
                                 !.versions = @ \cup {config.version}]
        /\ window.rpcs < NumRpcs
    BY <1>1 DEF RpcSucceeds, InWindow
  <2>2. window' = [rpcs |-> window.rpcs + 1, failed |-> window.failed,
                   peers |-> window.peers \cup {p},
                   versions |-> window.versions \cup {config.version}]
    BY <2>1 DEF Windows
  <2>3. /\ window.peers \cup {p} \in SUBSET Pods
        /\ window.versions \cup {config.version} \in SUBSET (0..1)
    BY DEF Windows, Configs
  <2>4. /\ window' \in Windows /\ window'.rpcs = window.rpcs + 1
        /\ window'.failed = window.failed
    BY <2>1, <2>2, <2>3 DEF Windows
  <2>5. window'.failed <= window'.rpcs
    BY <2>4 DEF Windows
  <2> QED
    BY <1>1, <2>4, <2>5 DEF RpcSucceeds, unmoved, worldVars
<1>2. ASSUME NEW p \in Pods, NEW q \in Pods, PodChanges(p, q)
      PROVE  AssertionTypes'
  BY <1>2, <1>m DEF PodChanges
<1>3. ASSUME ConfigChanges PROVE AssertionTypes'
  <2>0. /\ config.types \in SUBSET Types /\ config.version \in 0..1
        /\ config.healthy \in 0..2 /\ config.draining \in 0..2
        /\ config = [types |-> config.types, version |-> config.version,
                     healthy |-> config.healthy, draining |-> config.draining]
    BY DEF Configs
  <2>1. CASE \E t \in Types :
               config' = [config EXCEPT !.types = @ \cup {t}]
    <3>1. PICK t \in Types : config' = [config EXCEPT !.types = @ \cup {t}]
      BY <2>1
    <3>2. config' = [types |-> config.types \cup {t},
                     version |-> config.version,
                     healthy |-> config.healthy, draining |-> config.draining]
      BY <2>0, <3>1
    <3>3. config.types \cup {t} \in SUBSET Types
      BY <2>0
    <3> QED
      BY <1>3, <1>m, <2>0, <3>2, <3>3 DEF ConfigChanges, Configs
  <2>2. CASE config' = [config EXCEPT !.version = 1]
    <3>1. config' \in Configs
      BY <2>2 DEF Configs
    <3> QED
      BY <1>3, <1>m, <3>1 DEF ConfigChanges
  <2>3. CASE \E h, d \in 0..2 :
               config' = [config EXCEPT !.healthy = h, !.draining = d]
    <3>1. config' \in Configs
      BY <2>3 DEF Configs
    <3> QED
      BY <1>3, <1>m, <3>1 DEF ConfigChanges
  <2> QED
    BY <1>3, <2>1, <2>2, <2>3 DEF ConfigChanges
<1>4. ASSUME ClientCalls PROVE AssertionTypes'
  <2>1. Move /\ UNCHANGED <<alive, config, restarts, done>>
        /\ stats' = [stats EXCEPT !.live = @ + 1] /\ stats.live < MaxLive
    BY <1>4 DEF ClientCalls, StatsMove
  <2>2. stats' \in CountersTo(events')
    BY <1>m, <2>1 DEF CountersTo
  <2> QED
    BY <1>m, <2>1, <2>2
<1>5. ASSUME NEW s \in Statuses, ClientCallEnds(s) PROVE AssertionTypes'
  <2>1. Move /\ UNCHANGED <<alive, config, restarts>>
        /\ stats' = [stats EXCEPT !.live = @ - 1, !.ended[s] = @ + 1]
        /\ done' = [done EXCEPT ![s] = @ + 1] /\ stats.live > 0
    BY <1>5 DEF ClientCallEnds, StatsMove
  <2>2. /\ stats' = [live |-> stats.live - 1,
                     ended |-> [stats.ended EXCEPT ![s] = @ + 1]]
        /\ stats.live \in 0..MaxLive
        /\ stats.ended \in [Statuses -> 0..events]
    BY <2>1 DEF CountersTo
  <2>3. /\ stats.live - 1 \in 0..MaxLive
        /\ [stats.ended EXCEPT ![s] = @ + 1] \in [Statuses -> 0..(events + 1)]
        /\ done' \in [Statuses -> 0..(events + 1)]
    BY <2>1, <2>2
  <2>4. stats' \in CountersTo(events')
    BY <1>m, <2>1, <2>2, <2>3 DEF CountersTo
  <2> QED
    BY <1>m, <2>1, <2>3, <2>4
<1>6. ASSUME ClientRestarts \/ ClientRecovers PROVE AssertionTypes'
  <2>1. /\ Move /\ UNCHANGED <<alive, done>> /\ restarts' \in 0..1
        /\ stats' \in {stats, [live |-> 0, ended |-> Zero]}
        /\ config' \in {[config EXCEPT !.types = {}],
                        [config EXCEPT !.types = Types]}
    BY <1>6 DEF ClientRestarts, ClientRecovers
  <2>2. config' \in Configs
    BY <2>1 DEF Configs
  <2>3. [live |-> 0, ended |-> Zero] \in CountersTo(events')
    BY <1>m, <2>1 DEF CountersTo, Zero
  <2> QED
    BY <1>m, <2>1, <2>2, <2>3
<1>7. LooksAreCounted
  BY DEF LooksAreCounted, WorldStep, RpcSucceeds, PodChanges, ConfigChanges,
    ClientCalls, ClientCallEnds, StatsMove, ClientRestarts, ClientRecovers, Move
<1> QED
  BY <1>1, <1>2, <1>3, <1>4, <1>5, <1>6, <1>7 DEF WorldStep

\* The ranges of the counters are those of the module.
LEMMA AssertionTypesSuffice == AssertionTypes => AssertionTypeOK
<1> SUFFICES ASSUME AssertionTypes PROVE AssertionTypeOK
  OBVIOUS
<1>1. /\ stats.live \in 0..MaxLive /\ config.types \subseteq Types
      /\ stats.ended \in [Statuses -> 0..events]
      /\ sample.ended \in [Statuses -> 0..events]
      /\ done \in [Statuses -> 0..events] /\ events \in 0..MaxEvents
  BY DEF AssertionTypes, CountersTo, Configs
<1>2. {stats.ended, sample.ended, done} \subseteq [Statuses -> 0..MaxEvents]
  BY <1>1, AssertionConstants
<1>3. window.rpcs \in 0..NumRpcs /\ window.failed \in 0..window.rpcs
      /\ window.peers \subseteq Pods
  BY DEF AssertionTypes, Windows
<1> QED
  BY <1>1, <1>2, <1>3 DEF AssertionTypes, AssertionTypeOK, AssertionPcs

\* The first of some numbers is one of them.
LEMMA FirstIsThere ==
  ASSUME NEW S \in SUBSET Nat, S # {}
  PROVE  (CHOOSE j \in S : \A k \in S : j <= k) \in S
<1>1. PICK m \in S : \A k \in S : <<k, m>> \notin OpToRel(<, Nat)
  BY NatLessThanWellFounded, WFMin, Zenon
<1>2. \A k \in S : ~(k < m)
  BY <1>1, Zenon DEF OpToRel
<1>3. \A k \in S : m <= k
  BY <1>2
<1> QED
  BY <1>3

\* The rest of the types of the sockets.
SocketRest ==
  /\ pc \in {"look", "socket", "match"} \cup Ends
  /\ Reasonable(asked) /\ Len(conns) <= MaxConns
  /\ {looked, matched} \subseteq {0} \cup DOMAIN conns

\* A step of the assertion about the security of a connection.
LEMMA SecurityStepTypes ==
  ASSUME SocketInv, SocketRest, SecurityStep
  PROVE  SocketRest' /\ LooksAreCounted
<1> USE DEF SocketRest
<1>e. \A r, outcome : AttemptEnds(r, outcome) =>
        pc' \in {"look"} \cup Ends /\ looks' = looks
  BY DEF AttemptEnds, Ends
<1>1. CASE SecurityBegins
  BY <1>1 DEF SecurityBegins, AttemptBegins, worldOfSockets, Reasonable,
    LooksAreCounted
<1>2. CASE get_active_server_channel_socket
  BY <1>2 DEF get_active_server_channel_socket, worldOfSockets, Reasonable,
    ClientConns, LooksAreCounted
<1>3. CASE NoClientSocket \/ SocketRpcFails
  BY <1>3, <1>e DEF NoClientSocket, SocketRpcFails, socketVars, Reasonable,
    LooksAreCounted
<1>4. CASE get_server_socket_matching_client
  <2>1. /\ UNCHANGED <<worldOfSockets, looked, looks>>
        /\ pc' \in {"look"} \cup Ends
        /\ matched' = find_server_socket_matching_client(looked)
    BY <1>4, <1>e DEF get_server_socket_matching_client
  <2>2. matched' \in {0} \cup DOMAIN conns
    <3> DEFINE found == {j \in serverEnds : SameAddress(looked, j)}
    <3>1. found \in SUBSET Nat /\ found \subseteq DOMAIN conns
      BY DEF SocketInv
    <3>2. matched' = IF found = {} THEN 0
                     ELSE CHOOSE j \in found : \A k \in found : j <= k
      BY <2>1 DEF find_server_socket_matching_client
    <3> HIDE DEF found
    <3> QED
      BY <3>1, <3>2, FirstIsThere
  <2> QED
    BY <2>1, <2>2 DEF worldOfSockets, Reasonable, LooksAreCounted
<1> QED
  BY <1>1, <1>2, <1>3, <1>4 DEF SecurityStep

\* Connections come and go.
LEMMA SocketWorldTypes ==
  ASSUME SocketInv, SocketRest, SocketWorld
  PROVE  SocketRest' /\ LooksAreCounted
<1> USE DEF SocketRest
<1>1. ASSUME NEW conn \in Conn, Connects(conn)
      PROVE  SocketRest' /\ LooksAreCounted
  <2>1. UNCHANGED <<pc, looks, asked, looked, matched>>
        /\ Len(conns) < MaxConns /\ conns' = Append(conns, conn)
    BY <1>1 DEF Connects
  <2>2. Len(conns') = Len(conns) + 1 /\ DOMAIN conns \subseteq DOMAIN conns'
        /\ Len(conns) \in Nat
    BY <2>1 DEF SocketInv
  <2> QED
    BY <2>1, <2>2, SocketConstants DEF Reasonable, LooksAreCounted
<1>2. ASSUME NEW i \in clientEnds \cup serverEnds, Disconnects(i)
      PROVE  SocketRest' /\ LooksAreCounted
  BY <1>2 DEF Disconnects, Reasonable, LooksAreCounted
<1> QED
  BY <1>1, <1>2 DEF SocketWorld

\* The rest of the types of a request to Kubernetes.
CallRest ==
  /\ op \in Operations /\ callPc \in {"idle", "look", "sent"} \cup Ends
  /\ tries \in 0..MaxTries
  /\ faults \in 0..MaxFaults /\ changes \in 0..MaxChanges

\* A step of an operation.
LEMMA K8sStepTypes ==
  ASSUME CallRest, K8sStep
  PROVE  CallRest' /\ LooksAreCounted
<1> USE K8sConstants DEF CallRest
<1>1. CASE OperationBegins
  BY <1>1 DEF OperationBegins, AttemptBegins, clusterVars, LooksAreCounted
<1>2. CASE SendRequest
  <2>1. /\ callPc' = "sent" /\ tries' \in 0..MaxTries
        /\ UNCHANGED <<looks, op, changes>>
    BY <1>2 DEF SendRequest, Call!AttemptBegins
  <2>2. faults' \in 0..MaxFaults
    BY <1>2 DEF SendRequest
  <2> QED
    BY <2>1, <2>2 DEF LooksAreCounted
<1>3. CASE _execute
  <2>1. UNCHANGED <<looks, op, faults, changes>>
    BY <1>3 DEF _execute
  <2>2. callPc' \in {"look"} \cup Ends /\ tries' \in {tries, 0}
    BY <1>3 DEF _execute, RaisesNotFound, Answered, FirstError, NextError,
      Call!AttemptEnds, Ends
  <2> QED
    BY <2>1, <2>2 DEF LooksAreCounted
<1>4. CASE OperationReturns
  <2>1. callPc' = "idle" /\ UNCHANGED <<op, tries, faults, changes>>
    BY <1>4 DEF OperationReturns, clusterVars
  <2>2. \E r, outcome : AttemptEnds(r, outcome)
    <3>1. op \in Operations
      BY DEF CallRest
    <3> QED
      BY <1>4, <3>1 DEF OperationReturns, Operations
  <2>3. looks' = looks
    BY <2>2 DEF AttemptEnds
  <2> QED
    BY <2>1, <2>3 DEF LooksAreCounted
<1> QED
  BY <1>1, <1>2, <1>3, <1>4 DEF K8sStep

\* Controllers, other users, and time.
LEMMA K8sWorldTypes ==
  ASSUME CallRest, K8sWorld
  PROVE  CallRest' /\ LooksAreCounted
<1>1. UNCHANGED <<looks, op, callPc, tries, faults>> /\ changes' = changes + 1
      /\ changes < MaxChanges
  BY DEF K8sWorld, ObjectChanges, TokenExpires, Change, callVars
<1> QED
  BY <1>1, K8sConstants DEF CallRest, LooksAreCounted

-------------------------------------------------------------------------------
(* The waits together *)

\* What is known of each wait, and of what the others leave alone.
ChannelPart ==
  IF which = "Channel" THEN ChannelInv /\ ReasonInv
  ELSE wait = "server" /\ calm = {}

HealthPart ==
  IF which = "Health" THEN IInv /\ CalmInv
  ELSE healthy = Backends /\ zone \in [Replicas -> Backends] /\ good = 0

WaitsInv ==
  /\ looks \in 0..MaxLooks /\ which \in Kinds
  /\ ChannelPart /\ HealthPart
  /\ SecurityInv /\ K8sInv
  /\ which \in AssertionKinds  => AssertionTypes
  /\ which = "Security"        => SocketRest
  /\ which = "Kubernetes"      => CallRest

\* The kinds of waits are different from each other.
LEMMA KindsDiffer ==
  /\ {"Channel", "Security", "Kubernetes", "Health"} \cap AssertionKinds = {}
BY DEF AssertionKinds, WindowKinds, ConfigKinds, StatsKinds

\* Each wait begins as its own module says.
LEMMA WaitsInit == Init => WaitsInv
<1> SUFFICES ASSUME Init PROVE WaitsInv
  OBVIOUS
<1> USE KindsDiffer
<1>1. which \in Kinds
  BY DEF Init
<1>2. ChannelPart
  <2>1. CASE which = "Channel"
    <3>1. ChannelInit
      BY <2>1 DEF Init
    <3> QED
      BY <2>1, <3>1, InitInv DEF ChannelPart, ChannelInit, ReasonInv
  <2>2. CASE which # "Channel"
    BY <2>2 DEF Init, ChannelPart
  <2> QED
    BY <2>1, <2>2
<1>3. HealthPart
  <2>1. CASE which = "Health"
    <3>1. HealthInit
      BY <2>1 DEF Init
    <3>2. Cardinality({}) = 0
      BY FS_EmptySet
    <3> QED
      BY <2>1, <3>1, <3>2, InitIInv DEF HealthPart, HealthInit, CalmInv
  <2>2. CASE which # "Health"
    <3>1. /\ zone = [r \in Replicas |-> CHOOSE b \in Backends : TRUE]
          /\ healthy = Backends /\ good = 0
      BY <2>2 DEF Init
    <3>2. (CHOOSE b \in Backends : TRUE) \in Backends
      BY BackendHealthConstants
    <3> QED
      BY <2>2, <3>1, <3>2 DEF HealthPart
  <2> QED
    BY <2>1, <2>2
<1>4. looks = 0 /\ pc = "look"
  BY DEF Init, ChannelInit
<1>5. ASSUME which \in AssertionKinds PROVE AssertionTypes
  <2>1. /\ kind = which /\ events = 0 /\ alive \subseteq Pods
        /\ config \in [types : {Types, {}}, version : {0}, healthy : {0},
                       draining : {0}]
        /\ stats = [live |-> 0, ended |-> Zero] /\ sample = stats
        /\ window = Closed /\ done = Zero
    BY <1>5, AssertionConstants DEF Init, AssertionInit
  <2>2. stats \in CountersTo(events) /\ done \in [Statuses -> 0..events]
    BY <2>1, AssertionConstants DEF CountersTo, Zero
  <2>3. window \in Windows /\ window.failed = 0 /\ window.rpcs = 0
    BY <2>1, AssertionConstants DEF Closed, Windows
  <2>4. config \in Configs
    BY <2>1 DEF Configs
  <2>5. pc \in AssertionPcs /\ window.failed <= window.rpcs
        /\ events \in 0..MaxEvents
    BY <1>4, <2>1, <2>3, AssertionConstants DEF AssertionPcs
  <2>6. /\ kind \in AssertionKinds /\ alive \subseteq Pods
    BY <1>5, <2>1
  <2>7. sample \in CountersTo(events)
    BY Zenon, <2>1, <2>2
  <2>8. failures \in BOOLEAN /\ restarts \in 0..1
    <3>1. failures = FALSE /\ restarts = 0
      BY <1>5 DEF Init, AssertionInit
    <3>2. failures \in BOOLEAN
      BY Zenon, <3>1
    <3>3. restarts \in 0..1
      BY SMT, <3>1
    <3> QED
      BY <3>2, <3>3
  <2> QED
    BY <2>2, <2>3, <2>4, <2>5, <2>6, <2>7, <2>8 DEF AssertionTypes
<1>6. ASSUME which = "Security" PROVE SocketRest
  BY <1>6, SocketConstants DEF Init, SocketInit, SocketRest
<1>7. ASSUME which = "Kubernetes" PROVE CallRest
  BY <1>7, K8sConstants DEF Init, K8sInit, K8sIdle, CallRest
<1> QED
  BY <1>1, <1>2, <1>3, <1>4, <1>5, <1>6, <1>7, LooksConstant, SecurityInit,
     KubernetesInit DEF WaitsInv

\* A step belongs to one wait, and leaves the state of the others alone.
LEMMA WaitsNext == WaitsInv /\ [Next]_vars => WaitsInv'
<1> SUFFICES ASSUME WaitsInv, [Next]_vars PROVE WaitsInv'
  OBVIOUS
<1> USE KindsDiffer
<1>1. which' = which
  BY DEF Next, TestStep, SystemStep, Only, vars
<1>2. SecurityInv' /\ K8sInv'
  BY SecurityNext, KubernetesNext DEF WaitsInv
<1>n. LooksAreCounted => looks' \in 0..MaxLooks
  BY LooksConstant DEF WaitsInv, LooksAreCounted
<1>c. which # "Channel" /\ UNCHANGED channelRest => ChannelPart'
  BY <1>1 DEF WaitsInv, ChannelPart, channelRest, clientVars
<1>h. which # "Health" /\ UNCHANGED healthRest => HealthPart'
  BY <1>1 DEF WaitsInv, HealthPart, healthRest
<1>3. CASE which = "Channel" /\ (WaitStep \/ ClientStep)
           /\ UNCHANGED healthRest
  <2>1. ChannelInv /\ ReasonInv
    BY <1>3 DEF WaitsInv, ChannelPart
  <2>2. ChannelInv' /\ ReasonInv'
    BY <1>3, <2>1, WaitStepInv, ClientStepInv, WaitStepReason,
      ClientStepReason DEF ChannelInv
  <2>3. looks' \in 0..MaxLooks
    BY <2>2 DEF ChannelInv, ChannelTypeOK
  <2> QED
    BY <1>1, <1>2, <1>3, <1>h, <2>2, <2>3 DEF WaitsInv, ChannelPart
<1>4. CASE which \in AssertionKinds /\ (AssertionStep \/ WorldStep)
           /\ UNCHANGED <<channelRest, healthRest>>
  <2>1. AssertionTypes' /\ LooksAreCounted
    BY <1>4, AssertionStepTypes, WorldStepTypes DEF WaitsInv
  <2> QED
    BY <1>1, <1>2, <1>4, <1>c, <1>h, <1>n, <2>1 DEF WaitsInv
<1>5. CASE which = "Security" /\ (SecurityStep \/ SocketWorld)
           /\ UNCHANGED <<channelRest, healthRest>>
  <2>1. SocketRest' /\ LooksAreCounted
    BY <1>5, SecurityStepTypes, SocketWorldTypes DEF WaitsInv, SecurityInv
  <2> QED
    BY <1>1, <1>2, <1>5, <1>c, <1>h, <1>n, <2>1 DEF WaitsInv
<1>6. CASE which = "Kubernetes" /\ (K8sStep \/ K8sWorld)
           /\ UNCHANGED <<channelRest, healthRest>>
  <2>1. CallRest' /\ LooksAreCounted
    BY <1>6, K8sStepTypes, K8sWorldTypes DEF WaitsInv
  <2> QED
    BY <1>1, <1>2, <1>6, <1>c, <1>h, <1>n, <2>1 DEF WaitsInv
<1>7. CASE which = "Health" /\ HealthNext /\ UNCHANGED channelRest
  <2>1. IInv /\ CalmInv /\ looks' = looks
    BY <1>7 DEF WaitsInv, HealthPart, HealthNext, HealthStep, HealthWorld
  <2>2. IInv' /\ CalmInv'
    BY <1>7, <2>1, NextIInv, NextCalm
  <2> QED
    BY <1>1, <1>2, <1>7, <1>c, <2>1, <2>2 DEF WaitsInv, HealthPart
<1>8. CASE UNCHANGED vars
  <2>1. UNCHANGED <<channelVars, assertVars, socketVars, k8sVars, healthVars>>
    BY <1>8 DEF vars
  <2>2. ChannelPart'
    <3>1. CASE which = "Channel"
      BY <1>1, <2>1, <3>1, StutterInv
      DEF WaitsInv, ChannelPart, ReasonInv, Wanted, channelVars
    <3>2. CASE which # "Channel"
      BY <1>1, <2>1, <3>2 DEF WaitsInv, ChannelPart, channelVars
    <3> QED
      BY <3>1, <3>2
  <2>3. HealthPart'
    <3>1. CASE which = "Health"
      BY <1>1, <2>1, <3>1, NextIInv, NextCalm DEF WaitsInv, HealthPart
    <3>2. CASE which # "Health"
      BY <1>1, <2>1, <3>2 DEF WaitsInv, HealthPart, healthVars, polls
    <3> QED
      BY <3>1, <3>2
  <2>4. UNCHANGED <<pc, looks>>
    BY <2>1 DEF channelVars
  <2>5. AssertionTypes => AssertionTypes'
    BY <2>1, <2>4 DEF AssertionTypes, assertVars, worldVars, measured
  <2>6. SocketRest => SocketRest'
    BY <2>1, <2>4 DEF SocketRest, socketVars, Reasonable
  <2>7. CallRest => CallRest'
    BY <2>1 DEF CallRest, k8sVars, callVars, clusterVars
  <2> QED
    BY <1>1, <1>2, <2>2, <2>3, <2>4, <2>5, <2>6, <2>7 DEF WaitsInv
<1> QED
  BY <1>3, <1>4, <1>5, <1>6, <1>7, <1>8
  DEF Next, TestStep, SystemStep, Only, HealthNext

\* In the composition of the waits, too, the variables keep their types: each
\* wait those of its module, whichever runs.
THEOREM WaitsTypeCorrect == Spec => []TypeOK
<1>1. WaitsInv => TypeOK
  <2> SUFFICES ASSUME WaitsInv PROVE TypeOK
    OBVIOUS
  <2>1. which = "Channel" => ChannelTypeOK
    BY DEF WaitsInv, ChannelPart, ChannelInv
  <2>2. which \in AssertionKinds => AssertionTypeOK
    BY AssertionTypesSuffice DEF WaitsInv
  <2>3. which = "Security" => SocketTypeOK
    BY DEF WaitsInv, SecurityInv, SocketInv, SocketRest, SocketTypeOK
  <2>4. which = "Kubernetes" => K8sTypeOK
    BY DEF WaitsInv, K8sInv, KubernetesInv, CallTypes, CallRest, K8sTypeOK,
      Retryers3
  <2>5. which = "Health" => HealthTypeOK
    BY DEF WaitsInv, HealthPart, IInv
  <2> QED
    BY <2>1, <2>2, <2>3, <2>4, <2>5 DEF WaitsInv, TypeOK
<1> QED
  BY WaitsInit, WaitsNext, <1>1, PTL DEF Spec

\* What the modules of the waits promise of themselves holds of the composition
\* that the run checks: a channel reported active had one call alive at both
\* looks, and a wait for a channel is given up for a reason.
THEOREM ChannelsInWaits == Spec => [](ActiveMeansSameCall /\ GivesUpWithReason)
<1>1. WaitsInv => ActiveMeansSameCall /\ GivesUpWithReason
  <2> SUFFICES ASSUME WaitsInv PROVE ActiveMeansSameCall /\ GivesUpWithReason
    OBVIOUS
  <2>1. CASE which = "Channel"
    BY <2>1, InvMeansSameCall DEF WaitsInv, ChannelPart, ReasonInv, Wanted,
      GivesUpWithReason
  <2>2. CASE which # "Channel"
    BY <2>2 DEF WaitsInv, ChannelPart, ActiveMeansSameCall, GivesUpWithReason
  <2> QED
    BY <2>1, <2>2
<1> QED
  BY WaitsInit, WaitsNext, <1>1, PTL DEF Spec

\* The same of the wait for the health of the backends.
THEOREM HealthInWaits == Spec => [](ReturnCoversReplicas /\ CalmIsEnough)
<1>1. WaitsInv => ReturnCoversReplicas /\ CalmIsEnough
  <2> SUFFICES ASSUME WaitsInv PROVE ReturnCoversReplicas /\ CalmIsEnough
    OBVIOUS
  <2>1. CASE which = "Health"
    <3>1. IInv /\ CalmInv
      BY <2>1 DEF WaitsInv, HealthPart
    <3> QED
      BY <3>1, ConditionCovers, CalmMeansEnough
      DEF IInv, DoneIsDone, ReturnCoversReplicas
  <2>2. CASE which # "Health"
    <3>1. Cardinality(Backends) \in Nat
      BY BackendHealthConstants, FS_CardinalityType
    <3> QED
      BY <2>2, <3>1
      DEF WaitsInv, HealthPart, ReturnCoversReplicas, CalmIsEnough
  <2> QED
    BY <2>1, <2>2
<1> QED
  BY WaitsInit, WaitsNext, <1>1, PTL DEF Spec
===============================================================================

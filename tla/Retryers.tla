------------------------------- MODULE Retryers -------------------------------
(***************************************************************************)
(* The retryers every wait of the framework is built from                  *)
(* (framework/helpers/retryers.py over tenacity): which outcome of an      *)
(* attempt ends the wait, which is tried again, and when it is given up.   *)
(*                                                                         *)
(* An attempt ends with an error, or with a value that the callback        *)
(* check_result accepts or rejects.  Times are order only: the time of a   *)
(* wait may be up after any attempt, and is up after MaxLooks of them.     *)
(***************************************************************************)
EXTENDS Naturals

CONSTANT MaxLooks    \* bound: attempts that fit in the time of a wait

ASSUME LooksConstant == MaxLooks \in Nat \ {0}

VARIABLES
  pc,       \* where the waiting process is; "look" before an attempt
  looks     \* attempts begun

waitVars == <<pc, looks>>

Ends == {"passed", "failed"}
Values == {"accepted", "rejected"}

\* What the framework's clients raise.
Errors == {"AssertionError", "RpcError", "NotFound", "Retryable",
           "ApiException", "RetryError"}

\* Which outcomes are tried again: the given errors, and values that
\* check_result, if there is one, rejects.  A check that raises one of those
\* errors rejects.
_build_retry_conditions(retry_on_exceptions, check_result) ==
  [on |-> retry_on_exceptions, checks |-> check_result]

Retried(r, outcome) ==
  outcome \in r.on \/ (r.checks /\ outcome = "rejected")

Returned(r, outcome) ==
  outcome = "accepted" \/ (~r.checks /\ outcome = "rejected")

\* A retryer is its conditions and what stops it; 0 attempts: no limit.
exponential_retryer_with_timeout(conditions) ==
  [conditions |-> conditions, attempts |-> 0, timeout |-> TRUE]

exponential_retryer_with_attempts(conditions, attempts) ==
  [conditions |-> conditions, attempts |-> attempts, timeout |-> FALSE]

constant_retryer(conditions, attempts, timeout) ==
  [conditions |-> conditions, attempts |-> attempts, timeout |-> timeout]

\* A plain call, without a retryer.
Once == constant_retryer(_build_retry_conditions({}, FALSE), 1, FALSE)

\* Slip: the time is never looked at.
NeverStops(r, timeUp) == r.attempts > 0 /\ looks >= r.attempts

\* The time is looked at only between attempts.
Stops(r, timeUp) ==
  \/ r.attempts > 0 /\ looks >= r.attempts
  \/ r.timeout /\ timeUp

AttemptBegins(next) ==
  /\ pc = "look"
  /\ looks' = IF looks < MaxLooks THEN looks + 1 ELSE looks
  /\ pc' = next

\* The attempt of retryer r ends; a wait that is given up raises RetryError.
AttemptEnds(r, outcome) ==
  /\ UNCHANGED looks
  /\ \E timeUp \in BOOLEAN :
       /\ looks = MaxLooks => timeUp
       /\ pc' = IF Returned(r.conditions, outcome) THEN "passed"
                ELSE IF Retried(r.conditions, outcome) /\ ~Stops(r, timeUp)
                THEN "look" ELSE "failed"
===============================================================================

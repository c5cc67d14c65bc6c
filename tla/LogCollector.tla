----------------------------- MODULE LogCollector -----------------------------
(***************************************************************************)
(* PodLogCollector: the thread that copies the log of a pod to a file      *)
(* until the runner's stop event is set, and the flush() the main thread   *)
(* calls on the same file (framework/infrastructure/k8s_internal/          *)
(* k8s_log_collector.py).                                                  *)
(*                                                                         *)
(* _out_stream is read several times by flush(), with no lock: between two *)
(* reads the thread may close the file and set the field to None.          *)
(***************************************************************************)
EXTENDS Naturals

CONSTANT Pods

VARIABLES
  stop,      \* log_stop_event, shared by the collectors of a runner
  thread,    \* pod -> where its collector thread is
  out,       \* pod -> _out_stream: "none", "open" or "closed"
  unsaved    \* pod -> lines from before the stop event that only the buffer has

logVars == <<stop, thread, out, unsaved>>

ThreadStates ==
  {"none", "open", "check", "stream", "finish", "clear", "ended"}

Becomes(p, s) == thread' = [thread EXCEPT ![p] = s]

LogInit ==
  /\ stop = FALSE
  /\ thread = [p \in Pods |-> "none"] /\ out = [p \in Pods |-> "none"]
  /\ unsaved = [p \in Pods |-> FALSE]

-------------------------------------------------------------------------------
(* The thread *)

\* A line is written to the buffer of the open file.
Written(p) == unsaved' = [unsaved EXCEPT ![p] = @ \/ ~stop]
Saved(p)   == unsaved' = [unsaved EXCEPT ![p] = FALSE]

Open(p) ==
  /\ thread[p] = "open"
  /\ out' = [out EXCEPT ![p] = "open"]
  /\ Becomes(p, "check")
  /\ UNCHANGED <<stop, unsaved>>

\* Slip: the loop does not look at the stop event.
EndlessCheck(p) ==
  /\ thread[p] = "check" /\ Becomes(p, "stream") /\ Written(p)
  /\ UNCHANGED <<stop, out>>

\* The loop of run, after error_backoff_sec if there was a stream before, and
\* the line that announces the watcher.
Check(p) ==
  /\ thread[p] = "check"
  /\ IF stop THEN Becomes(p, "finish") /\ UNCHANGED unsaved
             ELSE Becomes(p, "stream") /\ Written(p)
  /\ UNCHANGED <<stop, out>>

\* _restart_stream: a message, and a look at the stop event.
Message(p) ==
  /\ thread[p] = "stream"
  /\ Written(p)
  /\ Becomes(p, IF stop THEN "finish" ELSE "stream")
  /\ UNCHANGED <<stop, out>>

\* The stream ends, maybe with an ApiException, which is written and flushed.
StreamEnds(p) ==
  /\ thread[p] = "stream"
  /\ UNCHANGED unsaved \/ Saved(p)
  /\ Becomes(p, "check")
  /\ UNCHANGED <<stop, out>>

\* Any other exception ends the thread through the finally clause of run.
StreamBreaks(p) ==
  /\ thread[p] = "stream"
  /\ Becomes(p, "finish")
  /\ UNCHANGED <<stop, out, unsaved>>

\* _stop: a last line with a flush, close(), and then None.
Close(p) ==
  /\ thread[p] = "finish"
  /\ Saved(p)
  /\ out' = [out EXCEPT ![p] = "closed"]
  /\ Becomes(p, "clear")
  /\ UNCHANGED stop

Clear(p) ==
  /\ thread[p] = "clear"
  /\ out' = [out EXCEPT ![p] = "none"]
  /\ Becomes(p, "ended")
  /\ UNCHANGED <<stop, unsaved>>

\* What the thread does on its own, whether its pod writes anything or not.
ThreadProgress(p) == Open(p) \/ Check(p) \/ Close(p) \/ Clear(p)

ThreadStep(p) ==
  ThreadProgress(p) \/ Message(p) \/ StreamEnds(p) \/ StreamBreaks(p)

-------------------------------------------------------------------------------
(* What the main thread does *)

pod_start_logging(p) ==
  Becomes(p, "open") /\ UNCHANGED <<stop, out, unsaved>>

maybe_stop_logging == stop' = TRUE /\ UNCHANGED <<thread, out, unsaved>>

\* The statements of flush() that need _out_stream: each looks again.
FlushSkips(p)  == out[p] = "none"
FlushRaises(p) == out[p] # "open"

LogTypeOK ==
  /\ stop \in BOOLEAN /\ unsaved \in [Pods -> BOOLEAN]
  /\ thread \in [Pods -> ThreadStates]
  /\ out \in [Pods -> {"none", "open", "closed"}]
===============================================================================

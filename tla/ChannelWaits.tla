----------------------------- MODULE ChannelWaits -----------------------------
(***************************************************************************)
(* Waits for a channel of the test client, framework/test_app/             *)
(* client_app.py: for one to the control plane with a call that lives, and *)
(* for one to the server that is ready.  Both look through the channels    *)
(* that channelz listed a while ago; the client goes on in the meantime.   *)
(***************************************************************************)
EXTENDS Retryers, FiniteSets

CONSTANTS
  Channels,    \* channels of the client to the target of the wait
  MaxCalls,    \* bound: calls ever started on a channel
  MaxMoves     \* bound: steps of the client in the course of a wait

ASSUME ChannelConstants == MaxCalls \in Nat /\ MaxMoves \in Nat

VARIABLES
  wait,      \* "xds" or "server": which wait
  chan,      \* the client's channels
  snap,      \* channels as they were listed
  todo,      \* listed channels not looked at yet
  cur,       \* the channel looked at, or looked at last
  second,    \* what the second look at cur returned
  moves,     \* steps of the client
  calm,      \* history: channels on which nothing has happened
  disturbed  \* history: a request to channelz failed

sampleVars == <<snap, todo, cur, second>>
clientVars == <<chan, moves, calm>>
channelVars == <<pc, looks, wait, chan, snap, todo, cur, second, moves,
                 calm, disturbed>>

ChannelKinds == {"xds", "server"}

\* What channelz says of a channel.  Calls are numbered as they start; live,
\* the ones that have not ended, is known to the client only.
Data == [open : BOOLEAN, ready : BOOLEAN, sub : BOOLEAN, started : Nat,
         ended : Nat, live : SUBSET Nat]
Idle == [open |-> TRUE, ready |-> FALSE, sub |-> FALSE, started |-> 0,
         ended |-> 0, live |-> {}]
Serving == [open |-> TRUE, ready |-> TRUE, sub |-> TRUE, started |-> 1,
            ended |-> 0, live |-> {1}]

calc_calls_in_flight(d) == IF d.ready THEN d.started - d.ended ELSE 0

\* All errors are retried, NotFound among them.
Patient == exponential_retryer_with_timeout(
             _build_retry_conditions(Errors, FALSE))

ChannelInit ==
  /\ wait \in ChannelKinds
  /\ chan \in [Channels -> {Idle, Serving}]
  /\ snap = chan
  /\ todo = {}
  /\ cur \in Channels
  /\ second = Idle
  /\ moves = 0
  /\ calm = Channels
  /\ disturbed = FALSE
  /\ pc = "look"
  /\ looks = 0

-------------------------------------------------------------------------------
(* The wait *)

AttemptFails(outcome) ==
  AttemptEnds(Patient, outcome)
  /\ UNCHANGED <<wait, sampleVars, clientVars>>

list_channels ==
  /\ AttemptBegins("check")
  /\ snap' = chan
  /\ todo' = {c \in Channels : chan[c].open}
  /\ UNCHANGED <<wait, cur, second, clientVars, disturbed>>

RpcFails ==
  /\ pc \in {"check", "recheck"}
  /\ disturbed' = TRUE
  /\ AttemptFails("RpcError")

\* check_channel_in_flight_calls, the data of the listing.
FirstLook(c) ==
  /\ pc = "check" /\ wait = "xds" /\ c \in todo
  /\ todo' = todo \ {c}
  /\ cur' = c
  /\ pc' = IF calc_calls_in_flight(snap[c]) = 0 THEN "check" ELSE "recheck"
  /\ UNCHANGED <<looks, wait, snap, second, clientVars, disturbed>>

\* Slip: only the calls in flight are looked at again.
StillInFlight(before, after) == calc_calls_in_flight(after) > 0

IsActive(before, after) ==
  calc_calls_in_flight(after) > 0 /\ before.started = after.started

\* Slip: a channel that is gone ends the attempt.
GoneEndsAttempt ==
  /\ pc = "recheck" /\ ~chan[cur].open
  /\ AttemptFails("NotFound")
  /\ UNCHANGED disturbed

\* ... and two seconds later; NotFound: on to the next channel.
SecondLookNotFound ==
  /\ pc = "recheck" /\ ~chan[cur].open
  /\ pc' = "check"
  /\ UNCHANGED <<looks, wait, sampleVars, clientVars, disturbed>>

SecondLook ==
  /\ pc = "recheck" /\ chan[cur].open
  /\ second' = chan[cur]
  /\ pc' = IF IsActive(snap[cur], chan[cur]) THEN "passed" ELSE "check"
  /\ UNCHANGED <<looks, wait, snap, todo, cur, clientVars, disturbed>>

\* find_server_channel_with_state: the state as it was listed, but the
\* subchannels as they are now.  A subchannel that is gone is an RPC error.
CheckState(c) ==
  /\ pc = "check" /\ wait = "server" /\ c \in todo
  /\ chan[c].open \/ ~snap[c].ready
  /\ todo' = todo \ {c}
  /\ cur' = c
  /\ second' = chan[c]
  /\ pc' = IF snap[c].ready /\ chan[c].sub THEN "passed" ELSE "check"
  /\ UNCHANGED <<looks, wait, snap, clientVars, disturbed>>

\* ChannelNotActive, ChannelNotFound
NoChannel ==
  /\ pc = "check" /\ todo = {}
  /\ AttemptFails("NotFound")
  /\ UNCHANGED disturbed

WaitStep ==
  \/ list_channels \/ SecondLookNotFound \/ SecondLook \/ NoChannel
  \/ \E c \in Channels : FirstLook(c) \/ CheckState(c)
  \/ RpcFails

-------------------------------------------------------------------------------
(* The client under test *)

Disturb(c, data) ==
  /\ pc \notin Ends /\ moves < MaxMoves
  /\ moves' = moves + 1
  /\ chan[c].open
  /\ chan' = [chan EXCEPT ![c] = data]
  /\ calm' = calm \ {c}
  /\ UNCHANGED <<pc, looks, wait, sampleVars, disturbed>>

\* The counters of channel d, with other calls.
Calls(d, started, ended, live) ==
  [open |-> d.open, ready |-> d.ready, sub |-> d.sub, started |-> started,
   ended |-> ended, live |-> live]

CallStarts(c) ==
  LET d == chan[c] IN
  /\ wait = "xds" /\ d.started < MaxCalls
  /\ Disturb(c, Calls(d, d.started + 1, d.ended,
                      d.live \cup {d.started + 1}))

CallEnds(c) ==
  LET d == chan[c] IN
  \E call \in d.live :
    Disturb(c, Calls(d, d.started, d.ended + 1, d.live \ {call}))

StateChanges(c) == Disturb(c, [chan[c] EXCEPT !.ready = ~@])

SubchannelChanges(c) ==
  wait = "server" /\ Disturb(c, [chan[c] EXCEPT !.sub = ~@])

ChannelCloses(c) == Disturb(c, [chan[c] EXCEPT !.open = FALSE])

ClientStep ==
  \E c \in Channels :
    \/ CallStarts(c) \/ CallEnds(c) \/ StateChanges(c) \/ SubchannelChanges(c)
    \/ ChannelCloses(c)

ChannelNext == WaitStep \/ ClientStep
ChannelSpec == ChannelInit /\ [][ChannelNext]_channelVars

-------------------------------------------------------------------------------
(* Properties *)

ChannelTypeOK ==
  /\ pc \in {"look", "check", "recheck"} \cup Ends
  /\ looks \in 0..MaxLooks
  /\ wait \in ChannelKinds
  /\ chan \in [Channels -> Data]
  /\ snap \in [Channels -> Data]
  /\ todo \subseteq Channels
  /\ cur \in Channels
  /\ second \in Data
  /\ moves \in 0..MaxMoves
  /\ calm \subseteq Channels
  /\ disturbed \in BOOLEAN

\* A channel to the control plane that is reported active was ready at both
\* looks, and one and the same call was alive all the time between them: the
\* two counts are of a moving client, but no call can have failed and been
\* replaced (client_app.py:540).
ActiveMeansSameCall ==
  pc = "passed" /\ wait = "xds" =>
    /\ snap[cur].ready /\ second.ready
    /\ snap[cur].live \cap second.live # {}

\* A wait is given up only for a reason: unless a request to channelz failed,
\* there is no channel that was what it waited for from its beginning on.
\* Other channels, closing and failing, do not hide it.
GivesUpWithReason ==
  pc = "failed" /\ wait \in ChannelKinds /\ ~disturbed =>
    \A c \in calm :
      /\ chan[c].open
      => IF wait = "xds" THEN calc_calls_in_flight(chan[c]) = 0
                         ELSE ~(chan[c].ready /\ chan[c].sub)
===============================================================================

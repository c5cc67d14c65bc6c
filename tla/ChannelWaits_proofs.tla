-------------------------- MODULE ChannelWaits_proofs --------------------------
(***************************************************************************)
(* What the waits for a channel promise, for any number of channels and    *)
(* calls, and any bounds: the two looks of a wait that passed saw one call *)
(* alive, and a wait is given up for a reason.                             *)
(*                                                                         *)
(* The counters of a channel say how many calls live, not which; the       *)
(* argument is that calls are numbered as they start.  If none started     *)
(* between the looks, whatever lives at the second one lived at the first. *)
(***************************************************************************)
EXTENDS ChannelWaits, FiniteSetTheorems, TLAPS

\* The counters count the calls.
Counted(d) ==
  /\ d \in Data
  /\ IsFiniteSet(d.live)
  /\ d.live \subseteq 1..d.started
  /\ Cardinality(d.live) = d.started - d.ended

\* e is d some time later.
Later(d, e) ==
  /\ d.started <= e.started
  /\ e.live \cap (1..d.started) \subseteq d.live

SeenActive ==
  /\ wait = "xds"
  /\ pc = "recheck" => calc_calls_in_flight(snap[cur]) > 0
  /\ pc = "passed" =>
       /\ calc_calls_in_flight(snap[cur]) > 0
       /\ IsActive(snap[cur], second)
       /\ Counted(second) /\ Later(snap[cur], second)

ChannelInv ==
  /\ ChannelTypeOK
  /\ \A c \in Channels :
       Counted(chan[c]) /\ Counted(snap[c]) /\ Later(snap[c], chan[c])
  /\ wait = "xds" => SeenActive
  /\ pc = "recheck" => wait = "xds"

\* A new channel, and one with its first call, are counted.
LEMMA InitialCounted == Counted(Idle) /\ Counted(Serving)
<1>1. Cardinality({}) = 0 /\ IsFiniteSet({})
  BY FS_EmptySet
<1>2. Cardinality({1}) = 1 /\ IsFiniteSet({1})
  BY FS_Singleton
<1> QED BY <1>1, <1>2 DEF Counted, Idle, Serving, Data

\* A call that starts is counted and is in no earlier look.
LEMMA StartCounted ==
  ASSUME NEW s \in Data, NEW d \in Data, Counted(d), Later(s, d),
         NEW e,
         e = Calls(d, d.started + 1, d.ended, d.live \cup {d.started + 1})
  PROVE  Counted(e) /\ Later(s, e)
<1>1. /\ e \in Data /\ e.started = d.started + 1 /\ e.ended = d.ended
      /\ e.live = d.live \cup {d.started + 1}
  BY DEF Data, Calls, Counted
<1>2. /\ d.started \in Nat /\ d.ended \in Nat /\ IsFiniteSet(d.live)
      /\ d.live \subseteq 1..d.started
      /\ Cardinality(d.live) = d.started - d.ended
  BY DEF Counted, Data
<1>3. d.started + 1 \notin d.live
  BY <1>2
<1> DEFINE more == d.live \cup {d.started + 1}
<1>4. IsFiniteSet(more) /\ Cardinality(more) = Cardinality(d.live) + 1
  BY <1>2, <1>3, FS_AddElement
<1>5. IsFiniteSet(e.live) /\ Cardinality(e.live) = Cardinality(d.live) + 1
  BY <1>1, <1>4
<1>6. 1..d.started \subseteq 1..d.started + 1
      /\ d.started + 1 \in 1..d.started + 1
  BY <1>2
<1>7. e.live \subseteq 1..e.started
  BY <1>1, <1>2, <1>6
<1>8. Cardinality(e.live) = e.started - e.ended
  BY <1>1, <1>2, <1>5
<1>9. Counted(e)
  BY <1>1, <1>5, <1>7, <1>8 DEF Counted
<1>10. Later(s, e)
  BY <1>1 DEF Later, Data
<1> QED BY <1>9, <1>10

\* ... and so is one that ends.
LEMMA EndCounted ==
  ASSUME NEW s \in Data, NEW d \in Data, Counted(d), Later(s, d),
         NEW call \in d.live,
         NEW e, e = Calls(d, d.started, d.ended + 1, d.live \ {call})
  PROVE  Counted(e) /\ Later(s, e)
<1>1. /\ e \in Data /\ e.started = d.started /\ e.ended = d.ended + 1
      /\ e.live = d.live \ {call}
  BY DEF Data, Calls, Counted
<1>2. /\ d.started \in Nat /\ d.ended \in Nat /\ IsFiniteSet(d.live)
      /\ d.live \subseteq 1..d.started
      /\ Cardinality(d.live) = d.started - d.ended
  BY DEF Counted, Data
<1>3. IsFiniteSet(e.live) /\ Cardinality(e.live) = Cardinality(d.live) - 1
  BY <1>1, <1>2, FS_RemoveElement
<1>4. Cardinality(e.live) = e.started - e.ended
  BY <1>1, <1>2, <1>3
<1>5. Counted(e)
  BY <1>1, <1>2, <1>3, <1>4 DEF Counted
<1>6. Later(s, e)
  BY <1>1 DEF Later
<1> QED BY <1>5, <1>6

\* What is not about calls changes neither.
LEMMA OtherCounted ==
  ASSUME NEW s \in Data, NEW d \in Data, Counted(d), Later(s, d),
         NEW e \in Data, e.started = d.started, e.ended = d.ended,
         e.live = d.live
  PROVE  Counted(e) /\ Later(s, e)
BY DEF Counted, Later

\* A look is no later than itself.
LEMMA LaterItself == ASSUME NEW d \in Data PROVE Later(d, d)
BY DEF Later, Data

\* An attempt that fails with an error never passes the wait.
LEMMA ErrorFails ==
  ASSUME NEW error \in {"RpcError", "NotFound"}, AttemptFails(error)
  PROVE  pc' \in {"look", "failed"}
BY DEF AttemptFails, AttemptEnds, Patient, exponential_retryer_with_timeout,
       _build_retry_conditions, Returned, Retried, Errors

\* The client's steps keep the invariant: nothing passes, no look changes.
LEMMA DisturbKeeps ==
  ASSUME ChannelInv, NEW c \in Channels, NEW data, Disturb(c, data),
         Counted(data), Later(snap[c], data)
  PROVE  ChannelInv'
<1> USE ChannelConstants, LooksConstant
<1>1. /\ pc' = pc /\ pc \notin Ends /\ wait' = wait /\ snap' = snap
      /\ cur' = cur /\ second' = second /\ looks' = looks /\ todo' = todo
      /\ chan' = [chan EXCEPT ![c] = data] /\ disturbed' = disturbed
      /\ calm' = calm \ {c} /\ moves' = moves + 1 /\ moves < MaxMoves
  BY DEF Disturb, sampleVars
<1>2. data \in Data
  BY DEF Counted
<1>3. ChannelTypeOK'
  BY <1>1, <1>2 DEF ChannelInv, ChannelTypeOK
<1>4. \A x \in Channels :
        (Counted(chan[x]) /\ Counted(snap[x]) /\ Later(snap[x], chan[x]))'
  BY <1>1 DEF ChannelInv, ChannelTypeOK
<1>5. wait' = "xds" => SeenActive'
  BY <1>1 DEF ChannelInv, SeenActive, Ends
<1> QED BY <1>1, <1>3, <1>4, <1>5 DEF ChannelInv

\* The initial states satisfy the invariant.
LEMMA InitInv == ChannelInit => ChannelInv
<1> SUFFICES ASSUME ChannelInit PROVE ChannelInv
  OBVIOUS
<1> USE ChannelConstants, LooksConstant
<1>1. \A c \in Channels : chan[c] \in {Idle, Serving} /\ snap[c] = chan[c]
  BY DEF ChannelInit
<1>2. Idle \in Data /\ Serving \in Data
  BY DEF Idle, Serving, Data
<1>3. chan \in [Channels -> Data] /\ snap \in [Channels -> Data]
  BY <1>1, <1>2 DEF ChannelInit
<1>4. 0 \in 0..MaxLooks /\ 0 \in 0..MaxMoves
  OBVIOUS
<1>5. ChannelTypeOK
  BY <1>2, <1>3, <1>4 DEF ChannelInit, ChannelTypeOK
<1>6. \A c \in Channels :
        Counted(chan[c]) /\ Counted(snap[c]) /\ Later(snap[c], chan[c])
  BY <1>1, <1>2, InitialCounted, LaterItself
<1>7. wait = "xds" => SeenActive
  BY DEF ChannelInit, SeenActive
<1> QED BY <1>5, <1>6, <1>7 DEF ChannelInv, ChannelInit

\* The steps of the wait keep it.
LEMMA WaitStepInv == ChannelInv /\ WaitStep => ChannelInv'
<1> SUFFICES ASSUME ChannelInv, WaitStep PROVE ChannelInv'
  OBVIOUS
<1> USE ChannelConstants, LooksConstant
<1>a. /\ ChannelTypeOK
      /\ \A c \in Channels :
           Counted(chan[c]) /\ Counted(snap[c]) /\ Later(snap[c], chan[c])
  BY DEF ChannelInv
<1>1. CASE list_channels
  <2>1. /\ pc' = "check" /\ snap' = chan /\ chan' = chan /\ wait' = wait
        /\ todo' \subseteq Channels /\ looks' \in 0..MaxLooks
        /\ cur' = cur /\ second' = second /\ moves' = moves /\ calm' = calm
        /\ disturbed' = disturbed
    BY <1>1, <1>a DEF list_channels, AttemptBegins, clientVars, ChannelTypeOK
  <2>2. ChannelTypeOK'
    BY <2>1, <1>a DEF ChannelTypeOK
  <2>3. \A c \in Channels : Later(chan[c], chan[c])
    BY <1>a, LaterItself DEF ChannelTypeOK
  <2> QED BY <2>1, <2>2, <2>3, <1>a DEF ChannelInv, SeenActive
<1>2. CASE RpcFails
  <2>1. /\ pc' \in {"look", "failed"}
        /\ UNCHANGED <<wait, sampleVars, clientVars>>
        /\ looks' = looks /\ disturbed' = TRUE
    BY <1>2, ErrorFails DEF RpcFails, AttemptFails, AttemptEnds
  <2> QED BY <2>1, <1>a DEF ChannelInv, ChannelTypeOK, SeenActive, sampleVars,
                            clientVars, Ends
<1>3. ASSUME NEW c \in Channels, FirstLook(c) PROVE ChannelInv'
  <2>1. /\ wait = "xds" /\ cur' = c /\ snap' = snap /\ wait' = wait
        /\ pc' = IF calc_calls_in_flight(snap[c]) = 0 THEN "check"
                                                      ELSE "recheck"
        /\ looks' = looks /\ todo' = todo \ {c} /\ second' = second
        /\ chan' = chan /\ moves' = moves /\ calm' = calm
        /\ disturbed' = disturbed
    BY <1>3 DEF FirstLook, clientVars
  <2>2. ChannelTypeOK'
    BY <2>1, <1>a DEF ChannelTypeOK
  <2>3. snap[c].started - snap[c].ended >= 0
    BY <1>a, FS_CardinalityType DEF Counted
  <2>4. calc_calls_in_flight(snap[c]) \in Nat
    BY <2>3, <1>a DEF calc_calls_in_flight, Counted, Data
  <2>5. SeenActive'
    BY <2>1, <2>4 DEF SeenActive, calc_calls_in_flight
  <2> QED BY <2>1, <2>2, <2>5, <1>a DEF ChannelInv
<1>4. ASSUME NEW c \in Channels, CheckState(c) PROVE ChannelInv'
  <2>1. /\ wait = "server" /\ cur' = c /\ snap' = snap /\ wait' = wait
        /\ pc' \in {"passed", "check"} /\ looks' = looks
        /\ todo' = todo \ {c} /\ second' = chan[c]
        /\ chan' = chan /\ moves' = moves /\ calm' = calm
        /\ disturbed' = disturbed
    BY <1>4 DEF CheckState, clientVars
  <2> QED BY <2>1, <1>a DEF ChannelInv, ChannelTypeOK, Ends
<1>5. CASE SecondLookNotFound
  BY <1>5, <1>a DEF SecondLookNotFound, ChannelInv, ChannelTypeOK, SeenActive,
                    sampleVars, clientVars
<1>6. CASE SecondLook
  <2>1. /\ pc = "recheck" /\ second' = chan[cur] /\ snap' = snap /\ cur' = cur
        /\ pc' = IF IsActive(snap[cur], chan[cur]) THEN "passed" ELSE "check"
        /\ wait' = wait /\ looks' = looks /\ todo' = todo /\ chan' = chan
        /\ moves' = moves /\ calm' = calm /\ disturbed' = disturbed
    BY <1>6 DEF SecondLook, clientVars
  <2>2. wait = "xds" /\ calc_calls_in_flight(snap[cur]) > 0
    BY <2>1 DEF ChannelInv, SeenActive
  <2>3. cur \in Channels
    BY <1>a DEF ChannelTypeOK
  <2>4. ChannelTypeOK'
    BY <2>1, <2>3, <1>a DEF ChannelTypeOK, Ends
  <2>5. SeenActive'
    BY <2>1, <2>2, <2>3, <1>a DEF SeenActive
  <2> QED BY <2>1, <2>2, <2>4, <2>5, <1>a DEF ChannelInv
<1>7. CASE NoChannel
  <2>1. /\ pc' \in {"look", "failed"}
        /\ UNCHANGED <<wait, sampleVars, clientVars>>
        /\ looks' = looks /\ disturbed' = disturbed
    BY <1>7, ErrorFails DEF NoChannel, AttemptFails, AttemptEnds
  <2> QED BY <2>1, <1>a DEF ChannelInv, ChannelTypeOK, SeenActive, sampleVars,
                            clientVars, Ends
<1> QED BY <1>1, <1>2, <1>3, <1>4, <1>5, <1>6, <1>7 DEF WaitStep

\* The steps of the client keep it.
LEMMA ClientStepInv == ChannelInv /\ ClientStep => ChannelInv'
<1> SUFFICES ASSUME ChannelInv, NEW c \in Channels,
                    \/ CallStarts(c) \/ CallEnds(c) \/ StateChanges(c)
                    \/ SubchannelChanges(c) \/ ChannelCloses(c)
             PROVE  ChannelInv'
  BY DEF ClientStep
<1>a. /\ chan[c] \in Data /\ snap[c] \in Data
      /\ Counted(chan[c]) /\ Later(snap[c], chan[c])
  BY DEF ChannelInv, ChannelTypeOK
<1>1. CASE CallStarts(c)
  BY <1>1, <1>a, StartCounted, DisturbKeeps DEF CallStarts
<1>2. CASE CallEnds(c)
  BY <1>2, <1>a, EndCounted, DisturbKeeps DEF CallEnds
<1>3. CASE StateChanges(c)
  <2> DEFINE e == [chan[c] EXCEPT !.ready = ~@]
  <2>1. e \in Data /\ e.started = chan[c].started /\ e.ended = chan[c].ended
        /\ e.live = chan[c].live
    BY <1>a DEF Data
  <2>2. Counted(e) /\ Later(snap[c], e)
    BY <2>1, <1>a, OtherCounted
  <2> QED BY <1>3, <2>2, DisturbKeeps DEF StateChanges
<1>4. CASE SubchannelChanges(c)
  <2> DEFINE e == [chan[c] EXCEPT !.sub = ~@]
  <2>1. e \in Data /\ e.started = chan[c].started /\ e.ended = chan[c].ended
        /\ e.live = chan[c].live
    BY <1>a DEF Data
  <2>2. Counted(e) /\ Later(snap[c], e)
    BY <2>1, <1>a, OtherCounted
  <2> QED BY <1>4, <2>2, DisturbKeeps DEF SubchannelChanges
<1>5. CASE ChannelCloses(c)
  <2> DEFINE e == [chan[c] EXCEPT !.open = FALSE]
  <2>1. e \in Data /\ e.started = chan[c].started /\ e.ended = chan[c].ended
        /\ e.live = chan[c].live
    BY <1>a DEF Data
  <2>2. Counted(e) /\ Later(snap[c], e)
    BY <2>1, <1>a, OtherCounted
  <2> QED BY <1>5, <2>2, DisturbKeeps DEF ChannelCloses
<1> QED BY <1>1, <1>2, <1>3, <1>4, <1>5

\* A step that changes nothing keeps it.
LEMMA StutterInv == ChannelInv /\ UNCHANGED channelVars => ChannelInv'
BY DEF ChannelInv, ChannelTypeOK, SeenActive, channelVars

\* The calls seen alive at the second look were alive at the first.
LEMMA InvMeansSameCall == ChannelInv => ActiveMeansSameCall
<1> SUFFICES ASSUME ChannelInv, pc = "passed", wait = "xds"
             PROVE  /\ snap[cur].ready /\ second.ready
                    /\ snap[cur].live \cap second.live # {}
  BY DEF ActiveMeansSameCall
<1>1. /\ calc_calls_in_flight(snap[cur]) > 0
      /\ calc_calls_in_flight(second) > 0
      /\ snap[cur].started = second.started
      /\ Counted(second) /\ Later(snap[cur], second)
  BY DEF ChannelInv, SeenActive, IsActive
<1>2. snap[cur].ready /\ second.ready /\ second.started - second.ended > 0
  BY <1>1 DEF calc_calls_in_flight
<1>3. second.live # {}
  BY <1>1, <1>2, FS_EmptySet DEF Counted
<1>4. second.live \subseteq snap[cur].live
  BY <1>1 DEF Counted, Later
<1> QED BY <1>2, <1>3, <1>4

\* The invariant holds in every reachable state.
THEOREM ChannelInvariant == ChannelSpec => []ChannelInv
<1>1. ChannelInv /\ [ChannelNext]_channelVars => ChannelInv'
  BY WaitStepInv, ClientStepInv, StutterInv DEF ChannelNext
<1> QED BY <1>1, InitInv, PTL DEF ChannelSpec

\* Type correctness of the waits for a channel.
THEOREM ChannelTypes == ChannelSpec => []ChannelTypeOK
<1>1. ChannelInv => ChannelTypeOK
  BY DEF ChannelInv
<1> QED BY <1>1, ChannelInvariant, PTL

\* A channel to the control plane reported active had one and the same call
\* alive at both looks (check_channel_in_flight_calls, client_app.py:525).
THEOREM ActiveChannels == ChannelSpec => []ActiveMeansSameCall
BY InvMeansSameCall, ChannelInvariant, PTL

-------------------------------------------------------------------------------
(* Giving up *)

\* What the wait waits for.
Wanted(c) ==
  /\ chan[c].open
  /\ IF wait = "xds" THEN calc_calls_in_flight(chan[c]) # 0
                     ELSE chan[c].ready /\ chan[c].sub

\* A channel that is what the wait waits for, and was so from the beginning on,
\* is as it was listed, and an attempt has still to look at it.
ReasonInv ==
  /\ \A c \in calm : snap[c] = chan[c]
  /\ ~disturbed =>
       \A c \in calm : Wanted(c) =>
         /\ pc = "check" => c \in todo
         /\ pc = "recheck" => c \in todo \cup {cur}
         /\ pc # "failed"

\* Nothing happens to the channels that are calm after a step of the client.
LEMMA ClientStepReason ==
  ASSUME ChannelTypeOK, ReasonInv, ClientStep
  PROVE  ReasonInv'
<1>0. PICK c \in Channels : \E data : Disturb(c, data)
  BY DEF ClientStep, CallStarts, CallEnds, StateChanges, SubchannelChanges,
         ChannelCloses
<1>1. PICK data : Disturb(c, data)
  BY <1>0
<1>2. /\ UNCHANGED <<pc, wait, snap, todo, cur, disturbed>>
      /\ calm' = calm \ {c} /\ chan' = [chan EXCEPT ![c] = data]
  BY <1>1 DEF Disturb, sampleVars
<1>3. \A x \in calm' : x \in calm /\ chan'[x] = chan[x]
  BY <1>2 DEF ChannelTypeOK
<1> QED
  BY <1>2, <1>3 DEF ReasonInv, Wanted

\* An attempt that looks past such a channel passes the wait.
LEMMA WaitStepReason ==
  ASSUME ChannelInv, ReasonInv, WaitStep
  PROVE  ReasonInv'
<1>a. /\ ChannelTypeOK /\ (pc = "recheck" => wait = "xds")
      /\ \A c \in Channels : calc_calls_in_flight(chan[c]) \in Nat
  <2>1. ASSUME NEW c \in Channels PROVE calc_calls_in_flight(chan[c]) \in Nat
    <3>1. Counted(chan[c])
      BY DEF ChannelInv
    <3>2. chan[c].started - chan[c].ended \in Nat
      BY <3>1, FS_CardinalityType DEF Counted
    <3> QED
      BY <3>1, <3>2 DEF calc_calls_in_flight
  <2> QED
    BY <2>1 DEF ChannelInv
<1>b. calm \subseteq Channels
  BY <1>a DEF ChannelTypeOK
<1>1. CASE list_channels
  <2>1. /\ pc' = "check" /\ snap' = chan
        /\ todo' = {c \in Channels : chan[c].open}
        /\ UNCHANGED <<wait, chan, calm, disturbed>>
    BY <1>1 DEF list_channels, AttemptBegins, clientVars
  <2> QED
    BY <1>b, <2>1 DEF ReasonInv, Wanted
<1>2. CASE RpcFails
  <2>1. disturbed' = TRUE /\ UNCHANGED <<snap, chan, calm>>
    BY <1>2 DEF RpcFails, AttemptFails, sampleVars, clientVars
  <2> QED
    BY <2>1 DEF ReasonInv
<1>3. ASSUME NEW c \in Channels, FirstLook(c) PROVE ReasonInv'
  <2>1. /\ pc = "check" /\ wait = "xds" /\ cur' = c /\ todo' = todo \ {c}
        /\ pc' = IF calc_calls_in_flight(snap[c]) = 0 THEN "check"
                                                      ELSE "recheck"
        /\ UNCHANGED <<wait, snap, chan, calm, disturbed>>
    BY <1>3 DEF FirstLook, clientVars
  <2>2. CASE calc_calls_in_flight(snap[c]) = 0
    BY <2>1, <2>2 DEF ReasonInv, Wanted
  <2>3. CASE calc_calls_in_flight(snap[c]) # 0
    BY <2>1, <2>3 DEF ReasonInv, Wanted
  <2> QED
    BY <2>2, <2>3
<1>4. ASSUME NEW c \in Channels, CheckState(c) PROVE ReasonInv'
  <2>1. /\ pc = "check" /\ wait = "server" /\ todo' = todo \ {c}
        /\ pc' = IF snap[c].ready /\ chan[c].sub THEN "passed" ELSE "check"
        /\ UNCHANGED <<wait, snap, chan, calm, disturbed>>
    BY <1>4 DEF CheckState, clientVars
  <2> QED
    BY <2>1 DEF ReasonInv, Wanted
<1>5. CASE SecondLookNotFound
  <2>1. /\ pc = "recheck" /\ ~chan[cur].open /\ pc' = "check"
        /\ UNCHANGED <<wait, snap, todo, chan, calm, disturbed>>
    BY <1>5 DEF SecondLookNotFound, sampleVars, clientVars
  <2> QED
    BY <2>1 DEF ReasonInv, Wanted
<1>6. CASE SecondLook
  <2>1. /\ pc = "recheck"
        /\ pc' = IF IsActive(snap[cur], chan[cur]) THEN "passed" ELSE "check"
        /\ UNCHANGED <<wait, snap, todo, cur, chan, calm, disturbed>>
    BY <1>6 DEF SecondLook, clientVars
  <2>2. cur \in calm /\ Wanted(cur) => IsActive(snap[cur], chan[cur])
    BY <1>a, <1>b, <2>1 DEF ReasonInv, Wanted, IsActive
  <2> QED
    BY <2>1, <2>2 DEF ReasonInv, Wanted
<1>7. CASE NoChannel
  <2>1. /\ pc = "check" /\ todo = {}
        /\ UNCHANGED <<wait, snap, chan, calm, disturbed>>
    BY <1>7 DEF NoChannel, AttemptFails, sampleVars, clientVars
  <2>2. ~disturbed => \A c \in calm : ~Wanted(c)
    BY <2>1 DEF ReasonInv
  <2> QED
    BY <2>1, <2>2 DEF ReasonInv, Wanted
<1> QED
  BY <1>1, <1>2, <1>3, <1>4, <1>5, <1>6, <1>7 DEF WaitStep

\* A wait for a channel is given up only if there is no channel that was what it
\* waited for from its beginning on, or a request to channelz failed
\* (wait_for_xds_channel_active, wait_for_server_channel_state).
THEOREM ReasonsAreGood == ChannelSpec => []GivesUpWithReason
<1>1. ChannelInit => ReasonInv
  BY DEF ChannelInit, ReasonInv
<1>2. ChannelInv /\ ReasonInv /\ [ChannelNext]_channelVars => ReasonInv'
  <2>1. ChannelInv /\ ReasonInv /\ UNCHANGED channelVars => ReasonInv'
    BY DEF ReasonInv, Wanted, channelVars
  <2> QED
    BY <2>1, ClientStepReason, WaitStepReason DEF ChannelNext, ChannelInv
<1>3. ReasonInv => GivesUpWithReason
  BY DEF ReasonInv, Wanted, GivesUpWithReason
<1> QED
  BY <1>1, <1>2, <1>3, ChannelInvariant, PTL DEF ChannelSpec
===============================================================================

-------------------------- MODULE NettyClient_proofs --------------------------
(***************************************************************************)
(* Proofs about NettyClient, for any number of callers, channels, calls,     *)
(* faults and ids: no channel is lost or shared, close waits for every one,  *)
(* an answer goes to the call it belongs to, and responseMap is left empty. *)
(***************************************************************************)
EXTENDS NettyClient, SequenceTheorems, FiniteSetTheorems, TLAPS

(* The shape of the state, without the bounds on the pool.                  *)
CallerShape ==
    /\ pc \in [Callers -> Labels]
    /\ number \in [Callers -> 0 .. MaxSends]
    /\ msgId \in [Callers -> Ids \cup {NoCall}]
    /\ channel \in [Callers -> Channels \cup {NoChannel}]
    /\ found \in [Callers -> Calls \cup {NoCall}]
    /\ answer \in [Callers -> Responses \cup {NoCall}]

MapShape ==
    /\ responseMap \in [Ids -> Calls \cup {NoCall}]
    /\ slot \in [Calls -> Responses \cup {NoCall}]

PoolShape ==
    /\ channelQueue \in Seq(Channels)
    /\ pool \in {"open", "closed"}
    /\ closer \in {"none", "started", "taking", "waiting", "clearing", "nulling", "done"}
    /\ closeTurn \in Nat
    /\ closeWaits \in Channels \cup {NoChannel}

NetShape ==
    /\ up \in [Channels -> BOOLEAN]
    /\ outbox \in [Channels -> Seq(Requests)]
    /\ toServer \in [Channels -> Seq(Requests)]
    /\ toClient \in [Channels -> Seq(Responses)]
    /\ delivering \in [Channels -> {Nothing} \cup (Responses \X Calls)]
    /\ lost \in Nat /\ interrupts \in Nat

Shape == CallerShape /\ MapShape /\ PoolShape /\ NetShape

(* What a caller has at the place where it is.                              *)
CallersKnow ==
    \A c \in Callers :
        /\ pc[c] \in Sending => /\ number[c] >= 1
                               /\ msgId[c] \in {Call(c)} \cup SharedIds
        /\ pc[c] \in WithChannel => channel[c] \in Channels
        /\ pc[c] = "take" => found[c] \in Calls

Base == Shape /\ CallersKnow
-----------------------------------------------------------------------------
(* Channels.                                                               *)

Queued(h) == \E i \in DOMAIN channelQueue : channelQueue[i] = h
Holds(c, h) == channel[c] = h /\ pc[c] \in WithChannel
Gone == {h \in Channels : ~ Queued(h) /\ \A c \in Callers : ~ Holds(c, h)}

(* A channel is in one place at most.                                       *)
OnePlace ==
    /\ \A i, j \in DOMAIN channelQueue : channelQueue[i] = channelQueue[j] => i = j
    /\ \A c \in Callers, h \in Channels : Holds(c, h) => ~ Queued(h)
    /\ \A c, d \in Callers, h \in Channels : Holds(c, h) /\ Holds(d, h) => c = d

(* Only close takes channels away, one in a turn, and waits for each.       *)
CloseCounts ==
    /\ closer \notin {"clearing", "nulling", "done"} =>
          /\ pool = "open"
          /\ Cardinality(Gone) = closeTurn
          /\ \A h \in Gone : up[h] => closer = "waiting" /\ h = closeWaits
    /\ closer \in {"none", "started"} => closeTurn = 0
    /\ CloseWaitsForEveryChannel

ChannelInv == OnePlace /\ CloseCounts
-----------------------------------------------------------------------------
(* Answers.                                                                *)

(* A message with the id that NettyRequest drew belongs to that call.       *)
OwnMessage(m) == m.id \in Calls => m.id = m.call

AllOwn(list) == \A i \in DOMAIN list : OwnMessage(list[i])

OwnMessages ==
    /\ \A h \in Channels :
         /\ AllOwn(outbox[h]) /\ AllOwn(toServer[h]) /\ AllOwn(toClient[h])
         /\ delivering[h] # Nothing => OwnMessage(delivering[h][1])
    /\ \A k \in Calls : slot[k] # NoCall => OwnMessage(slot[k])

(* Whatever knows the queue of a call knows it under the id it was filed.   *)
FiledUnder(idOf) ==
    /\ \A i \in Ids : responseMap[i] # NoCall => idOf[responseMap[i]] = i
    /\ \A h \in Channels : delivering[h] # Nothing =>
          idOf[delivering[h][2]] = delivering[h][1].id
    /\ \A k \in Calls : slot[k] # NoCall => slot[k].id = idOf[k]
    /\ \A c \in Callers : found[c] # NoCall => idOf[found[c]] = msgId[c]

(* Only calls that were made have queues.                                   *)
Made(k) == k[2] <= number[k[1]]
OnlyMade ==
    /\ \A i \in Ids : responseMap[i] # NoCall => Made(responseMap[i])
    /\ \A h \in Channels : delivering[h] # Nothing => Made(delivering[h][2])
    /\ \A k \in Calls : slot[k] # NoCall => Made(k)
    /\ \A c \in Callers : found[c] # NoCall => Made(found[c])

OwnAnswers ==
    \A c \in Callers : answer[c] # NoCall =>
        /\ answer[c].id = msgId[c] /\ OwnMessage(answer[c])
        /\ msgId[c] \in {Call(c)} \cup SharedIds

AnswerInv == /\ OwnMessages /\ OnlyMade /\ OwnAnswers
             /\ \E idOf \in [Calls -> Ids] : FiledUnder(idOf)
-----------------------------------------------------------------------------
(* Entries of responseMap.                                                 *)

SendsAs(k, i) ==
    Call(k[1]) = k /\ msgId[k[1]] = i /\ pc[k[1]] \in Sending \ {"giveBack"}

EntriesOfSenders ==
    interrupts = 0 /\ closer = "none" =>
        \A i \in Ids : responseMap[i] # NoCall => SendsAs(responseMap[i], i)

(* Without interrupts, and if every request has an id of its own, an entry   *)
(* is there as long as its call needs it, and a channel that holds no call   *)
(* which waits is silent.                                                  *)
Undisturbed == interrupts = 0 /\ UniqueIds

OwnEntries ==
    Undisturbed =>
        /\ \A i \in Ids : responseMap[i] # NoCall => responseMap[i] = i
        /\ \A c \in Callers : pc[c] \in Sending \ {"giveBack"} =>
              responseMap[Call(c)] = Call(c)
        /\ \A c \in Callers : pc[c] = "take" => found[c] = Call(c)
        /\ \A c \in Callers : pc[c] \in {"getChannel", "takeChannel", "write"} =>
              slot[Call(c)] = NoCall
        /\ \A h \in Channels : delivering[h] # Nothing =>
              delivering[h][2] = delivering[h][1].call

WaitsOn(k, h) == /\ channel[k[1]] = h /\ Call(k[1]) = k /\ pc[k[1]] \in {"lookup", "take"}
                 /\ slot[k] = NoCall

Silent ==
    Undisturbed =>
        \A h \in Channels : InTransit(h) <= 1 /\ \A k \in CallsOn(h) : WaitsOn(k, h)

ClientInv == Base /\ ChannelInv /\ AnswerInv /\ EntriesOfSenders /\ OwnEntries /\ Silent
-----------------------------------------------------------------------------
(* The shape of the state, and what a caller has where it is.               *)

LEMMA CallIsOwn ==
    ASSUME Base, NEW c \in Callers, pc[c] \in Sending
    PROVE  Call(c) \in Calls /\ msgId[c] \in Ids
BY BoundsAssumption DEF Base, Shape, CallerShape, CallersKnow, Call, Calls, Ids

LEMMA InitBase == Init => Base
<1> SUFFICES ASSUME Init PROVE Base
  OBVIOUS
<1>1. CallerShape
  BY BoundsAssumption DEF Init, CallerShape, Labels
<1>2. MapShape
  BY DEF Init, MapShape
<1>3. PoolShape
  <2>1. Cardinality(Channels) \in Nat
    BY BoundsAssumption, FS_CardinalityType
  <2>2. channelQueue \in Seq(Channels)
    BY <2>1, SeqDef DEF Init
  <2> QED
    BY <2>2 DEF Init, PoolShape
<1>4. NetShape
  BY EmptySeq DEF Init, NetShape, Nothing
<1>5. CallersKnow
  BY DEF Init, CallersKnow, Sending, WithChannel
<1> QED
  BY <1>1, <1>2, <1>3, <1>4, <1>5 DEF Base, Shape

LEMMA CallerStepsKeepBase ==
    ASSUME Base, NEW c \in Callers,
           \/ \E i \in Ids : Send(c, i)
           \/ CallerStep(c) \/ TakeChannelInterrupted(c) \/ TakeInterrupted(c)
    PROVE  Base'
<1> USE DEF Base, Shape, CallerShape, MapShape, PoolShape, NetShape, CallersKnow,
            Goto, Call, Labels, Sending, WithChannel,
            callerVars, mapVars, poolVars, netVars, closeVars, faultVars
<1>1. ASSUME NEW i \in Ids, Send(c, i) PROVE Base'
  <2> DEFINE k == <<c, number[c] + 1>>
  <2>1. k \in Calls /\ number[c] + 1 \in 1 .. MaxSends
    BY <1>1, BoundsAssumption DEF Send, Calls
  <2>2. CallerShape' /\ MapShape'
    BY <1>1, <2>1 DEF Send
  <2>3. PoolShape' /\ NetShape'
    BY <1>1 DEF Send
  <2>4. CallersKnow'
    BY <1>1, <2>1 DEF Send
  <2> QED
    BY <2>2, <2>3, <2>4
<1>2. ASSUME GetChannel(c) PROVE Base'
  BY <1>2 DEF GetChannel
<1>3. ASSUME TakeChannel(c) PROVE Base'
  <2>1. Head(channelQueue) \in Channels /\ Tail(channelQueue) \in Seq(Channels)
    BY <1>3, HeadTailProperties DEF TakeChannel
  <2> QED
    BY <1>3, <2>1 DEF TakeChannel
<1>4. ASSUME Write(c) PROVE Base'
  <2> DEFINE m == [id |-> msgId[c], call |-> Call(c)]
  <2>1. m \in Requests
    BY <1>4, CallIsOwn DEF Write, Requests
  <2>2. \A h \in Channels : Append(outbox[h], m) \in Seq(Requests)
    BY <2>1, AppendProperties
  <2>3. outbox' \in [Channels -> Seq(Requests)]
    BY <1>4, <2>2 DEF Write
  <2>4. CallerShape' /\ MapShape' /\ PoolShape' /\ CallersKnow'
    BY <1>4 DEF Write
  <2> QED
    BY <1>4, <2>3, <2>4 DEF Write
<1>5. ASSUME Lookup(c) PROVE Base'
  <2>1. responseMap[msgId[c]] \in Calls \cup {NoCall}
    BY <1>5, CallIsOwn DEF Lookup
  <2> QED
    BY <1>5, <2>1 DEF Lookup
<1>6. ASSUME TakeResponse(c) PROVE Base'
  BY <1>6 DEF TakeResponse
<1>7. ASSUME RemoveEntry(c) PROVE Base'
  BY <1>7 DEF RemoveEntry
<1>8. ASSUME GiveChannelBack(c) PROVE Base'
  <2>1. Append(channelQueue, channel[c]) \in Seq(Channels)
    BY <1>8, AppendProperties DEF GiveChannelBack
  <2> QED
    BY <1>8, <2>1 DEF GiveChannelBack
<1>9. ASSUME TakeChannelInterrupted(c) PROVE Base'
  BY <1>9 DEF TakeChannelInterrupted, Interrupt
<1>10. ASSUME TakeInterrupted(c) PROVE Base'
  BY <1>10 DEF TakeInterrupted, Interrupt
<1> QED
  BY <1>1, <1>2, <1>3, <1>4, <1>5, <1>6, <1>7, <1>8, <1>9, <1>10 DEF CallerStep

LEMMA NetStepsKeepBase ==
    ASSUME Base, NEW h \in Channels,
           \/ LoopStep(h) \/ ServerStep(h) \/ ServerCannotEncode(h) \/ Drop(h) \/ Shutdown(h)
    PROVE  Base'
<1> USE DEF Base, Shape, CallerShape, MapShape, PoolShape, NetShape, CallersKnow,
            Call, callerVars, mapVars, poolVars, netVars, closeVars, faultVars
<1>1. ASSUME Flush(h) PROVE Base'
  <2>1. Head(outbox[h]) \in Requests /\ Tail(outbox[h]) \in Seq(Requests)
    BY <1>1, HeadTailProperties DEF Flush
  <2>2. Append(toServer[h], Head(outbox[h])) \in Seq(Requests)
    BY <2>1, AppendProperties
  <2> QED
    BY <1>1, <2>1, <2>2 DEF Flush
<1>2. ASSUME NEW exception \in BOOLEAN, ServerRead(h, exception) PROVE Base'
  <2> DEFINE m == [id |-> Head(toServer[h]).id, call |-> Head(toServer[h]).call,
                   exception |-> exception]
  <2>1. Head(toServer[h]) \in Requests /\ Tail(toServer[h]) \in Seq(Requests)
    BY <1>2, HeadTailProperties DEF ServerRead
  <2>2. m \in Responses
    BY <2>1 DEF Requests, Responses
  <2>3. Append(toClient[h], m) \in Seq(Responses)
    BY <2>2, AppendProperties
  <2> QED
    BY <1>2, <2>1, <2>3 DEF ServerRead
<1>3. ASSUME ServerCannotEncode(h) PROVE Base'
  <2>1. Tail(toServer[h]) \in Seq(Requests)
    BY <1>3, HeadTailProperties DEF ServerCannotEncode
  <2> QED
    BY <1>3, <2>1 DEF ServerCannotEncode, Lose
<1>4. ASSUME ClientRead(h) PROVE Base'
  <2>1. Head(toClient[h]) \in Responses /\ Tail(toClient[h]) \in Seq(Responses)
    BY <1>4, HeadTailProperties DEF ClientRead
  <2>2. responseMap[Head(toClient[h]).id] \in Calls \cup {NoCall}
    BY <2>1 DEF Responses
  <2>3. delivering' \in [Channels -> {Nothing} \cup (Responses \X Calls)]
    BY <1>4, <2>1, <2>2 DEF ClientRead
  <2> QED
    BY <1>4, <2>1, <2>3 DEF ClientRead
<1>5. ASSUME Deliver(h) PROVE Base'
  <2>1. delivering[h] \in Responses \X Calls
    BY <1>5 DEF Deliver
  <2>2. slot' \in [Calls -> Responses \cup {NoCall}]
    BY <1>5, <2>1 DEF Deliver
  <2> QED
    BY <1>5, <2>2 DEF Deliver
<1>6. ASSUME Disconnect(h), lost' \in Nat, interrupts' \in Nat PROVE Base'
  BY <1>6, EmptySeq DEF Disconnect
<1>7. ASSUME Drop(h) \/ Shutdown(h) PROVE Base'
  <2>1. Disconnect(h) /\ lost' \in Nat /\ interrupts' \in Nat
    BY <1>7 DEF Drop, Shutdown, Lose
  <2> QED
    BY <1>6, <2>1
<1> QED
  BY <1>1, <1>2, <1>3, <1>4, <1>5, <1>7 DEF LoopStep, ServerStep

LEMMA CloseStepsKeepBase ==
    ASSUME Base, Close \/ CloseStep
    PROVE  Base'
<1>1. PoolShape' /\ UNCHANGED <<callerVars, mapVars, netVars, faultVars>>
  <2> USE DEF Base, Shape, PoolShape, closeVars, poolVars
  <2>1. CASE Close
    BY <2>1 DEF Close
  <2>2. CASE CloseChecksQueue
    BY <2>2 DEF CloseChecksQueue
  <2>3. CASE CloseTakes
    <3>1. channelQueue # <<>> => /\ Head(channelQueue) \in Channels
                                 /\ Tail(channelQueue) \in Seq(Channels)
      BY HeadTailProperties
    <3> QED
      BY <2>3, <3>1 DEF CloseTakes
  <2>4. CASE CloseFutureDone
    BY <2>4 DEF CloseFutureDone
  <2>5. CASE CloseClears
    BY <2>5, EmptySeq DEF CloseClears
  <2>6. CASE CloseSetsNull
    BY <2>6 DEF CloseSetsNull
  <2> QED
    BY <2>1, <2>2, <2>3, <2>4, <2>5, <2>6 DEF CloseStep
<1>2. CallerShape' /\ MapShape' /\ NetShape' /\ CallersKnow'
  BY <1>1 DEF Base, Shape, CallerShape, MapShape, NetShape, CallersKnow, Call,
              callerVars, mapVars, netVars, faultVars
<1> QED
  BY <1>1, <1>2 DEF Base, Shape

LEMMA NextBase == Base /\ [Next]_vars => Base'
<1> SUFFICES ASSUME Base, [Next]_vars PROVE Base'
  OBVIOUS
<1>1. CASE UNCHANGED vars
  BY <1>1 DEF Base, Shape, CallerShape, MapShape, PoolShape, NetShape, CallersKnow, Call,
              vars, callerVars, mapVars, poolVars, netVars, closeVars, faultVars
<1>2. CASE Next
  BY <1>2, CallerStepsKeepBase, NetStepsKeepBase, CloseStepsKeepBase DEF Next
<1> QED
  BY <1>1, <1>2
-----------------------------------------------------------------------------
(* The channels.                                                           *)

LEMMA QueueProperties ==
    ASSUME Base
    PROVE  /\ Len(channelQueue) \in Nat /\ DOMAIN channelQueue = 1 .. Len(channelQueue)
           /\ \A i \in DOMAIN channelQueue : channelQueue[i] \in Channels
           /\ channelQueue = <<>> <=> Len(channelQueue) = 0
<1>1. channelQueue \in Seq(Channels)
  BY DEF Base, Shape, PoolShape
<1> QED
  BY <1>1, LenProperties, ElementOfSeq, EmptySeq

(* Taking the head of the queue and putting a channel at its end.           *)
LEMMA QueueTail ==
    ASSUME Base, OnePlace, channelQueue # <<>>, channelQueue' = Tail(channelQueue)
    PROVE  /\ Head(channelQueue) \in Channels /\ Queued(Head(channelQueue))
           /\ \A h \in Channels : Queued(h)' <=> Queued(h) /\ h # Head(channelQueue)
           /\ \A i, j \in DOMAIN channelQueue' :
                channelQueue'[i] = channelQueue'[j] => i = j
<1> DEFINE len == Len(channelQueue)
<1>1. /\ channelQueue \in Seq(Channels) /\ len \in Nat \ {0}
      /\ DOMAIN channelQueue = 1 .. len
      /\ Head(channelQueue) = channelQueue[1]
  BY QueueProperties, EmptySeq DEF Base, Shape, PoolShape
<1>2. /\ Head(channelQueue) \in Channels
      /\ DOMAIN channelQueue' = 1 .. len - 1
      /\ \A i \in 1 .. len - 1 : channelQueue'[i] = channelQueue[i + 1]
  <2>1. /\ Head(channelQueue) \in Channels /\ Tail(channelQueue) \in Seq(Channels)
        /\ Len(Tail(channelQueue)) = len - 1
        /\ \A i \in 1 .. Len(Tail(channelQueue)) : Tail(channelQueue)[i] = channelQueue[i + 1]
    BY <1>1, HeadTailProperties
  <2>2. DOMAIN Tail(channelQueue) = 1 .. Len(Tail(channelQueue))
    BY <2>1, LenProperties
  <2> QED
    BY <2>1, <2>2
<1> HIDE DEF len
<1>3. Queued(Head(channelQueue))
  BY <1>1 DEF Queued
<1>4. \A i, j \in DOMAIN channelQueue' : channelQueue'[i] = channelQueue'[j] => i = j
  BY <1>1, <1>2 DEF OnePlace
<1>5. ASSUME NEW h \in Channels
      PROVE  Queued(h)' <=> Queued(h) /\ h # Head(channelQueue)
  <2>1. ASSUME NEW i \in 1 .. len - 1, channelQueue'[i] = h
        PROVE  Queued(h) /\ h # Head(channelQueue)
    BY <1>1, <1>2, <2>1 DEF Queued, OnePlace
  <2>2. ASSUME NEW i \in 1 .. len, channelQueue[i] = h, h # Head(channelQueue)
        PROVE  i - 1 \in 1 .. len - 1 /\ channelQueue'[i - 1] = h
    <3>1. i - 1 \in 1 .. len - 1
      BY <1>1, <2>2
    <3> QED
      BY <1>1, <1>2, <2>2, <3>1
  <2> QED
    BY <1>1, <1>2, <2>1, <2>2 DEF Queued
<1> QED
  BY <1>2, <1>3, <1>4, <1>5

LEMMA QueueAppend ==
    ASSUME Base, OnePlace, NEW h0 \in Channels, ~ Queued(h0),
           channelQueue' = Append(channelQueue, h0)
    PROVE  /\ \A h \in Channels : Queued(h)' <=> Queued(h) \/ h = h0
           /\ \A i, j \in DOMAIN channelQueue' :
                channelQueue'[i] = channelQueue'[j] => i = j
<1> DEFINE len == Len(channelQueue)
<1>1. /\ channelQueue \in Seq(Channels) /\ len \in Nat
      /\ DOMAIN channelQueue = 1 .. len
  BY QueueProperties DEF Base, Shape, PoolShape
<1>2. /\ DOMAIN channelQueue' = 1 .. len + 1
      /\ \A i \in 1 .. len : channelQueue'[i] = channelQueue[i]
      /\ channelQueue'[len + 1] = h0
  <2>1. Append(channelQueue, h0) \in Seq(Channels)
    BY <1>1, AppendProperties
  <2> QED
    BY <1>1, <2>1, AppendProperties, LenProperties
<1> HIDE DEF len
<1>3. \A i \in 1 .. len + 1 : i = len + 1 \/ i \in 1 .. len
  BY <1>1
<1>4. \A i \in 1 .. len : channelQueue[i] # h0
  BY <1>1 DEF Queued
<1>5. \A i, j \in DOMAIN channelQueue' : channelQueue'[i] = channelQueue'[j] => i = j
  BY <1>1, <1>2, <1>3, <1>4 DEF OnePlace
<1>6. ASSUME NEW h \in Channels PROVE Queued(h)' <=> Queued(h) \/ h = h0
  <2>1. len + 1 \in DOMAIN channelQueue' /\ \A i \in 1 .. len : i \in DOMAIN channelQueue'
    BY <1>1, <1>2
  <2> QED
    BY <1>1, <1>2, <1>3, <2>1 DEF Queued
<1> QED
  BY <1>5, <1>6

LEMMA InitChannels == Init => ChannelInv
<1> SUFFICES ASSUME Init PROVE ChannelInv
  OBVIOUS
<1> DEFINE n == Cardinality(Channels)
<1>1. n \in Nat /\ IsFiniteSet(1 .. n) /\ Cardinality(1 .. n) = n
  BY BoundsAssumption, FS_CardinalityType, FS_Interval
<1>2. /\ channelQueue \in [1 .. n -> Channels] /\ DOMAIN channelQueue = 1 .. n
      /\ \A h \in Channels : \E i \in DOMAIN channelQueue : channelQueue[i] = h
  BY DEF Init
<1>3. channelQueue \in Injection(1 .. n, Channels)
  <2>1. channelQueue \in Surjection(1 .. n, Channels)
    BY <1>2 DEF Surjection
  <2> QED
    BY <1>1, <2>1, FS_SurjSameCardinalityImpliesInj
<1>4. \A c \in Callers : pc[c] \notin WithChannel
  BY DEF Init, WithChannel
<1> HIDE DEF n
<1>5. OnePlace
  <2>1. \A i, j \in 1 .. n : channelQueue[i] = channelQueue[j] => i = j
    BY <1>2, <1>3 DEF Injection, IsInjective
  <2> QED
    BY <1>2, <1>4, <2>1 DEF OnePlace, Holds
<1>6. Gone = {}
  BY <1>2 DEF Gone, Queued
<1>7. CloseCounts
  BY <1>6, FS_EmptySet DEF Init, CloseCounts, CloseWaitsForEveryChannel
<1> QED
  BY <1>5, <1>7 DEF ChannelInv

(* A step that leaves the pool and the hands of the callers alone.          *)
LEMMA SamePlaces ==
    ASSUME ChannelInv, UNCHANGED <<poolVars, closeVars>>,
           \A c \in Callers, h \in Channels : Holds(c, h)' <=> Holds(c, h),
           \A h \in Channels : up'[h] => up[h]
    PROVE  ChannelInv'
<1>1. OnePlace'
  BY DEF ChannelInv, OnePlace, Queued, poolVars
<1>2. Gone' = Gone
  BY DEF Gone, Queued, poolVars
<1>3. CloseCounts'
  BY <1>2 DEF ChannelInv, CloseCounts, CloseWaitsForEveryChannel, Gone, poolVars, closeVars
<1> QED
  BY <1>1, <1>3 DEF ChannelInv

LEMMA TakeChannelKeepsChannels ==
    ASSUME Base, ChannelInv, NEW c \in Callers, TakeChannel(c)
    PROVE  ChannelInv'
<1> DEFINE h0 == Head(channelQueue)
<1>1. /\ pc[c] = "takeChannel" /\ channelQueue # <<>> /\ channelQueue' = Tail(channelQueue)
      /\ UNCHANGED <<pool, netVars, closeVars>>
      /\ channel' = [channel EXCEPT ![c] = h0] /\ pc' = [pc EXCEPT ![c] = "write"]
  BY DEF TakeChannel, Goto
<1>2. /\ h0 \in Channels /\ Queued(h0)
      /\ \A h \in Channels : Queued(h)' <=> Queued(h) /\ h # h0
      /\ \A i, j \in DOMAIN channelQueue' : channelQueue'[i] = channelQueue'[j] => i = j
  BY <1>1, QueueTail DEF ChannelInv
<1> HIDE DEF h0
<1>3. /\ channel'[c] = h0 /\ pc'[c] = "write"
      /\ \A d \in Callers : d # c => channel'[d] = channel[d] /\ pc'[d] = pc[d]
  BY <1>1 DEF Base, Shape, CallerShape
<1>4. \A d \in Callers, h \in Channels :
          Holds(d, h)' <=> Holds(d, h) \/ (d = c /\ h = h0)
  BY <1>1, <1>3 DEF Holds, WithChannel
<1>5. OnePlace'
  BY <1>2, <1>4 DEF ChannelInv, OnePlace
<1>6. Gone' = Gone
  BY <1>2, <1>4 DEF Gone
<1>7. CloseCounts'
  BY <1>1, <1>6 DEF ChannelInv, CloseCounts, CloseWaitsForEveryChannel, Gone, closeVars, netVars
<1> QED
  BY <1>5, <1>7 DEF ChannelInv

LEMMA GiveChannelBackKeepsChannels ==
    ASSUME Base, ChannelInv, NEW c \in Callers, GiveChannelBack(c)
    PROVE  ChannelInv'
<1>1. /\ pc[c] = "giveBack" /\ UNCHANGED <<pool, netVars, closeVars>>
      /\ channelQueue' = IF pool = "open" THEN Append(channelQueue, channel[c])
                                          ELSE channelQueue
      /\ channel' = [channel EXCEPT ![c] = NoChannel] /\ pc' = [pc EXCEPT ![c] = "idle"]
  BY DEF GiveChannelBack, Goto
<1>2. /\ channel[c] \in Channels /\ Holds(c, channel[c]) /\ ~ Queued(channel[c])
  BY <1>1 DEF Base, CallersKnow, ChannelInv, OnePlace, Holds, WithChannel
<1>3. /\ pc'[c] = "idle"
      /\ \A d \in Callers : d # c => channel'[d] = channel[d] /\ pc'[d] = pc[d]
  BY <1>1 DEF Base, Shape, CallerShape
<1>4. \A d \in Callers, h \in Channels : Holds(d, h)' <=> Holds(d, h) /\ d # c
  BY <1>3 DEF Holds, WithChannel
<1>5. CASE pool = "open"
  <2>1. /\ \A h \in Channels : Queued(h)' <=> Queued(h) \/ h = channel[c]
        /\ \A i, j \in DOMAIN channelQueue' : channelQueue'[i] = channelQueue'[j] => i = j
    BY <1>1, <1>2, <1>5, QueueAppend DEF ChannelInv
  <2>2. \A d \in Callers : Holds(d, channel[c]) => d = c
    BY <1>2 DEF ChannelInv, OnePlace
  <2>3. OnePlace'
    BY <1>4, <2>1, <2>2 DEF ChannelInv, OnePlace
  <2>4. \A h \in Channels : Holds(c, h) => h = channel[c]
    BY DEF Holds
  <2>5. Gone' = Gone
    BY <1>2, <1>4, <2>1, <2>4 DEF Gone
  <2>6. CloseCounts'
    BY <1>1, <2>5 DEF ChannelInv, CloseCounts, CloseWaitsForEveryChannel, Gone,
                      closeVars, netVars
  <2> QED
    BY <2>3, <2>6 DEF ChannelInv
<1>6. CASE pool # "open"
  <2>1. OnePlace'
    BY <1>1, <1>4, <1>6 DEF ChannelInv, OnePlace, Queued
  <2>2. closer \in {"clearing", "nulling", "done"}
    BY <1>6 DEF ChannelInv, CloseCounts
  <2>3. CloseCounts'
    BY <1>1, <2>2 DEF ChannelInv, CloseCounts, CloseWaitsForEveryChannel, closeVars, netVars
  <2> QED
    BY <2>1, <2>3 DEF ChannelInv
<1> QED
  BY <1>5, <1>6

(* No other step of a caller takes a channel or gives one back.             *)
LEMMA CallerStepsKeepChannels ==
    ASSUME Base, ChannelInv, NEW c \in Callers,
           \/ \E i \in Ids : Send(c, i)
           \/ CallerStep(c) \/ TakeChannelInterrupted(c) \/ TakeInterrupted(c)
    PROVE  ChannelInv'
<1>1. ASSUME UNCHANGED <<channel, poolVars, netVars, closeVars>>,
             NEW l \in Labels, pc' = [pc EXCEPT ![c] = l],
             l \in WithChannel <=> pc[c] \in WithChannel
      PROVE  ChannelInv'
  <2>1. \A d \in Callers, h \in Channels : Holds(d, h)' <=> Holds(d, h)
    BY <1>1 DEF Holds, Base, Shape, CallerShape
  <2>2. \A h \in Channels : up'[h] => up[h]
    BY <1>1 DEF netVars
  <2> QED
    BY <1>1, <2>1, <2>2, SamePlaces
<1>2. ASSUME NEW i \in Ids, Send(c, i) PROVE ChannelInv'
  BY <1>1, <1>2 DEF Send, Goto, Labels, WithChannel
<1>3. ASSUME GetChannel(c) PROVE ChannelInv'
  BY <1>1, <1>3 DEF GetChannel, Goto, Labels, WithChannel
<1>4. ASSUME Write(c) PROVE ChannelInv'
  <2>1. /\ UNCHANGED <<channel, poolVars, closeVars, up>> /\ pc[c] = "write"
        /\ pc' = [pc EXCEPT ![c] = "lookup"]
    BY <1>4 DEF Write, Goto
  <2>2. \A d \in Callers, h \in Channels : Holds(d, h)' <=> Holds(d, h)
    BY <2>1 DEF Holds, WithChannel, Base, Shape, CallerShape
  <2> QED
    BY <2>1, <2>2, SamePlaces
<1>5. ASSUME Lookup(c) PROVE ChannelInv'
  BY <1>1, <1>5 DEF Lookup, Goto, Labels, WithChannel
<1>6. ASSUME TakeResponse(c) \/ TakeInterrupted(c) PROVE ChannelInv'
  BY <1>1, <1>6 DEF TakeResponse, TakeInterrupted, Goto, Labels, WithChannel
<1>7. ASSUME RemoveEntry(c) PROVE ChannelInv'
  BY <1>1, <1>7 DEF RemoveEntry, Goto, Labels, WithChannel
<1>8. ASSUME TakeChannelInterrupted(c) PROVE ChannelInv'
  BY <1>1, <1>8 DEF TakeChannelInterrupted, Goto, Labels, WithChannel
<1> QED
  BY <1>2, <1>3, <1>4, <1>5, <1>6, <1>7, <1>8, TakeChannelKeepsChannels,
     GiveChannelBackKeepsChannels DEF CallerStep

LEMMA NetStepsKeepChannels ==
    ASSUME Base, ChannelInv, NEW h \in Channels,
           \/ LoopStep(h) \/ ServerStep(h) \/ ServerCannotEncode(h) \/ Drop(h) \/ Shutdown(h)
    PROVE  ChannelInv'
<1>1. UNCHANGED <<callerVars, poolVars, closeVars>>
  BY DEF LoopStep, Flush, ClientRead, Deliver, ServerStep, ServerRead,
         ServerCannotEncode, Drop, Shutdown, Disconnect
<1>2. up' = up \/ up' = [up EXCEPT ![h] = FALSE]
  BY DEF LoopStep, Flush, ClientRead, Deliver, ServerStep, ServerRead,
         ServerCannotEncode, Drop, Shutdown, Disconnect
<1>3. \A g \in Channels : up'[g] => up[g]
  BY <1>2 DEF Base, Shape, NetShape
<1>4. \A d \in Callers, g \in Channels : Holds(d, g)' <=> Holds(d, g)
  BY <1>1 DEF Holds, callerVars
<1> QED
  BY <1>1, <1>3, <1>4, SamePlaces

(* close takes each channel once: when it has counted them all, all are      *)
(* gone, and it has waited for each.                                       *)
LEMMA CloseStepsKeepChannels ==
    ASSUME Base, ChannelInv, Close \/ CloseStep
    PROVE  ChannelInv'
<1>1. UNCHANGED <<callerVars, netVars>> /\ IsFiniteSet(Channels) /\ Cardinality(Channels) \in Nat
  BY BoundsAssumption, FS_CardinalityType
  DEF Close, CloseStep, CloseChecksQueue, CloseTakes, CloseFutureDone, CloseClears, CloseSetsNull
<1>2. /\ \A d \in Callers, h \in Channels : Holds(d, h)' <=> Holds(d, h)
      /\ up' = up
  BY <1>1 DEF Holds, callerVars, netVars
<1>3. channelQueue' = channelQueue => OnePlace' /\ Gone' = Gone
  BY <1>2 DEF ChannelInv, OnePlace, Gone, Queued
<1>4. CASE Close
  BY <1>2, <1>3, <1>4 DEF Close, ChannelInv, CloseCounts, CloseWaitsForEveryChannel, Gone, poolVars
<1>5. CASE CloseChecksQueue
  <2>1. closer = "started" /\ UNCHANGED <<poolVars, closeTurn, closeWaits>> /\ closeTurn = 0
    BY <1>5 DEF CloseChecksQueue, ChannelInv, CloseCounts
  <2>2. closeTurn = Cardinality(Channels) => Channels = {}
    BY <1>1, <2>1, FS_EmptySet
  <2>3. CloseCounts'
    BY <1>2, <1>3, <1>5, <2>1, <2>2
    DEF CloseChecksQueue, ChannelInv, CloseCounts, CloseWaitsForEveryChannel, Gone, poolVars
  <2> QED
    BY <1>3, <2>1, <2>3 DEF ChannelInv, poolVars
<1>6. CASE CloseTakes
  <2>1. /\ closer = "taking" /\ pool = "open" /\ pool' = pool
        /\ Cardinality(Gone) = closeTurn /\ closeTurn \in Nat
        /\ \A h \in Gone : ~ up[h]
    BY <1>6 DEF CloseTakes, ChannelInv, CloseCounts, Gone, Base, Shape, PoolShape
  <2>2. Gone \in SUBSET Channels /\ IsFiniteSet(Gone)
    BY <1>1, FS_Subset DEF Gone
  <2>3. CASE closeTurn = Cardinality(Channels)
    <3>1. closer' = "clearing" /\ UNCHANGED <<closeTurn, closeWaits, channelQueue>>
      BY <1>6, <2>3 DEF CloseTakes
    <3>2. Gone = Channels
      BY <1>1, <2>1, <2>2, <2>3, FS_Subset
    <3>3. CloseCounts'
      BY <1>2, <2>1, <3>1, <3>2 DEF CloseCounts, CloseWaitsForEveryChannel
    <3> QED
      BY <1>3, <3>1, <3>3 DEF ChannelInv
  <2>4. CASE closeTurn # Cardinality(Channels)
    <3> DEFINE h0 == Head(channelQueue)
    <3>1. /\ channelQueue # <<>> /\ channelQueue' = Tail(channelQueue)
          /\ closeWaits' = h0 /\ closeTurn' = closeTurn + 1 /\ closer' = "waiting"
      BY <1>6, <2>4 DEF CloseTakes
    <3>2. /\ h0 \in Channels /\ Queued(h0)
          /\ \A h \in Channels : Queued(h)' <=> Queued(h) /\ h # h0
          /\ \A i, j \in DOMAIN channelQueue' : channelQueue'[i] = channelQueue'[j] => i = j
      BY <3>1, QueueTail DEF ChannelInv
    <3> HIDE DEF h0
    <3>3. OnePlace'
      BY <1>2, <3>2 DEF ChannelInv, OnePlace
    <3>4. Gone' = Gone \cup {h0} /\ h0 \notin Gone
      BY <1>2, <3>2 DEF Gone, ChannelInv, OnePlace
    <3>5. Cardinality(Gone') = closeTurn + 1
      BY <2>1, <2>2, <3>4, FS_AddElement
    <3>6. CloseCounts'
      BY <1>2, <2>1, <3>1, <3>4, <3>5 DEF CloseCounts, CloseWaitsForEveryChannel
    <3> QED
      BY <3>3, <3>6 DEF ChannelInv
  <2> QED
    BY <2>3, <2>4
<1>7. CASE CloseFutureDone
  BY <1>2, <1>3, <1>7
  DEF CloseFutureDone, ChannelInv, CloseCounts, CloseWaitsForEveryChannel, Gone, poolVars
<1>8. CASE CloseClears
  <2>1. channelQueue' = <<>> /\ DOMAIN channelQueue' = {}
    <3>1. DOMAIN <<>> = {}
      BY EmptySeq, LenProperties
    <3> QED
      BY <1>8, <3>1 DEF CloseClears
  <2>2. OnePlace'
    BY <1>2, <2>1 DEF ChannelInv, OnePlace, Queued
  <2>3. CloseCounts'
    BY <1>2, <1>8 DEF CloseClears, ChannelInv, CloseCounts, CloseWaitsForEveryChannel
  <2> QED
    BY <2>2, <2>3 DEF ChannelInv
<1>9. CASE CloseSetsNull
  <2>1. CloseCounts'
    BY <1>2, <1>9 DEF CloseSetsNull, ChannelInv, CloseCounts, CloseWaitsForEveryChannel
  <2> QED
    BY <1>3, <1>9, <2>1 DEF CloseSetsNull, ChannelInv
<1> QED
  BY <1>4, <1>5, <1>6, <1>7, <1>8, <1>9 DEF CloseStep

LEMMA NextChannels == Base /\ ChannelInv /\ [Next]_vars => ChannelInv'
<1> SUFFICES ASSUME Base, ChannelInv, [Next]_vars PROVE ChannelInv'
  OBVIOUS
<1>1. CASE UNCHANGED vars
  <2>1. /\ UNCHANGED <<poolVars, closeVars>> /\ up' = up
        /\ \A d \in Callers, h \in Channels : Holds(d, h)' <=> Holds(d, h)
    BY <1>1 DEF vars, callerVars, netVars, Holds
  <2> QED
    BY <2>1, SamePlaces
<1>2. CASE Next
  BY <1>2, CallerStepsKeepChannels, NetStepsKeepChannels, CloseStepsKeepChannels DEF Next
<1> QED
  BY <1>1, <1>2
-----------------------------------------------------------------------------
(* The answers.                                                            *)

LEMMA AllOwnKept ==
    ASSUME NEW S, NEW list \in Seq(S), AllOwn(list)
    PROVE  /\ list # <<>> => OwnMessage(Head(list)) /\ AllOwn(Tail(list))
           /\ \A m \in S : OwnMessage(m) => AllOwn(Append(list, m))
<1>1. Len(list) \in Nat /\ DOMAIN list = 1 .. Len(list)
  BY LenProperties
<1>2. ASSUME list # <<>> PROVE OwnMessage(Head(list)) /\ AllOwn(Tail(list))
  <2>1. Len(list) \in Nat \ {0} /\ Head(list) = list[1] /\ 1 \in DOMAIN list
    BY <1>1, <1>2, EmptySeq
  <2>2. /\ Tail(list) \in Seq(S) /\ Len(Tail(list)) = Len(list) - 1
        /\ \A i \in 1 .. Len(Tail(list)) : Tail(list)[i] = list[i + 1]
    BY <1>2, HeadTailProperties
  <2>3. DOMAIN Tail(list) = 1 .. Len(list) - 1
    BY <2>2, LenProperties
  <2>4. \A i \in 1 .. Len(list) - 1 : i + 1 \in DOMAIN list
    BY <1>1
  <2> QED
    BY <2>1, <2>2, <2>3, <2>4 DEF AllOwn
<1>3. ASSUME NEW m \in S, OwnMessage(m) PROVE AllOwn(Append(list, m))
  <2>1. /\ Append(list, m) \in Seq(S) /\ Len(Append(list, m)) = Len(list) + 1
        /\ \A i \in 1 .. Len(list) : Append(list, m)[i] = list[i]
        /\ Append(list, m)[Len(list) + 1] = m
    BY AppendProperties
  <2>2. DOMAIN Append(list, m) = 1 .. Len(list) + 1
    BY <2>1, LenProperties
  <2>3. \A i \in 1 .. Len(list) + 1 : i = Len(list) + 1 \/ i \in 1 .. Len(list)
    BY <1>1
  <2> QED
    BY <1>1, <1>3, <2>1, <2>2, <2>3 DEF AllOwn
<1> QED
  BY <1>2, <1>3

LEMMA InitAnswers == Init => AnswerInv
<1> SUFFICES ASSUME Init PROVE AnswerInv
  OBVIOUS
<1>1. AllOwn(<<>>)
  <2>1. DOMAIN <<>> = {}
    BY EmptySeq, LenProperties
  <2> QED
    BY <2>1 DEF AllOwn
<1>2. OwnMessages /\ OnlyMade /\ OwnAnswers
  BY <1>1 DEF Init, OwnMessages, OnlyMade, OwnAnswers, Nothing
<1>3. \A idOf \in [Calls -> Ids] : FiledUnder(idOf)
  BY DEF Init, FiledUnder, Nothing
<1>4. [k \in Calls |-> k] \in [Calls -> Ids]
  BY DEF Ids
<1> QED
  BY <1>2, <1>3, <1>4 DEF AnswerInv

LEMMA SendKeepsAnswers ==
    ASSUME Base, AnswerInv, NEW c \in Callers, NEW i \in Ids, Send(c, i)
    PROVE  AnswerInv'
<1> DEFINE MadeNow(m) == m[2] <= number'[m[1]]
<1>0. PICK k \in Calls : k = <<c, number[c] + 1>>
  <2>1. number[c] \in 0 .. MaxSends /\ number[c] < MaxSends
    BY DEF Send, Base, Shape, CallerShape
  <2>2. number[c] + 1 \in 1 .. MaxSends
    BY <2>1, BoundsAssumption
  <2>3. <<c, number[c] + 1>> \in Calls
    BY <2>2 DEF Calls
  <2> QED
    BY <2>3
<1>1. /\ number[c] \in Nat
      /\ number' = [number EXCEPT ![c] = number[c] + 1]
      /\ msgId' = [msgId EXCEPT ![c] = i]
      /\ responseMap' = [responseMap EXCEPT ![i] = k]
      /\ answer' = [answer EXCEPT ![c] = NoCall]
      /\ found' = [found EXCEPT ![c] = NoCall]
      /\ UNCHANGED <<slot, netVars>>
  BY <1>0 DEF Send, Base, Shape, CallerShape
<1>2. \A m \in Calls : Made(m) => m # k /\ MadeNow(m)
  <2> SUFFICES ASSUME NEW m \in Calls, Made(m) PROVE m # k /\ MadeNow(m)
    OBVIOUS
  <2>1. m[1] \in Callers /\ m[2] \in Nat /\ m[2] <= number[m[1]] /\ number[m[1]] \in Nat
    BY BoundsAssumption DEF Calls, Made, Base, Shape, CallerShape
  <2>2. m # k
    BY <1>0, <1>1, <2>1
  <2>3. m[2] <= number'[m[1]]
    BY <1>1, <2>1 DEF Base, Shape, CallerShape
  <2> QED
    BY <2>2, <2>3
<1>3. MadeNow(k)
  BY <1>0, <1>1 DEF Base, Shape, CallerShape
<1> HIDE DEF MadeNow
<1>4. OwnMessages'
  BY <1>1 DEF AnswerInv, OwnMessages, netVars
<1>5. OnlyMade'
  <2>1. \A j \in Ids : responseMap'[j] # NoCall => MadeNow(responseMap'[j])
    BY <1>1, <1>2, <1>3 DEF AnswerInv, OnlyMade, Base, Shape, MapShape
  <2>2. \A h \in Channels : delivering[h] # Nothing => MadeNow(delivering[h][2])
    BY <1>2 DEF AnswerInv, OnlyMade, Base, Shape, NetShape
  <2>3. \A m \in Calls : slot[m] # NoCall => MadeNow(m)
    BY <1>2 DEF AnswerInv, OnlyMade
  <2>4. \A d \in Callers : found'[d] # NoCall => MadeNow(found'[d])
    BY <1>1, <1>2 DEF AnswerInv, OnlyMade, Base, Shape, CallerShape
  <2> QED
    BY <1>1, <2>1, <2>2, <2>3, <2>4 DEF OnlyMade, Made, MadeNow, netVars
<1>6. OwnAnswers'
  <2>1. \A d \in Callers : d = c => answer'[d] = NoCall
    BY <1>1 DEF Base, Shape, CallerShape
  <2>2. \A d \in Callers : d # c => /\ answer'[d] = answer[d] /\ msgId'[d] = msgId[d]
                                    /\ Call(d)' = Call(d)
    BY <1>1 DEF Base, Shape, CallerShape, Call
  <2> QED
    BY <2>1, <2>2 DEF AnswerInv, OwnAnswers
<1>7. PICK idOf \in [Calls -> Ids] : FiledUnder(idOf)
  BY DEF AnswerInv
<1>8. PICK idNow \in [Calls -> Ids] :
          /\ idNow[k] = i
          /\ \A m \in Calls : Made(m) => idNow[m] = idOf[m]
  <2>1. [idOf EXCEPT ![k] = i] \in [Calls -> Ids]
    OBVIOUS
  <2> QED
    BY <1>2, <2>1
<1>9. FiledUnder(idNow)'
  <2>1. \A j \in Ids : responseMap'[j] # NoCall => idNow[responseMap'[j]] = j
    BY <1>1, <1>7, <1>8 DEF AnswerInv, OnlyMade, FiledUnder, Base, Shape, MapShape
  <2>2. \A h \in Channels : delivering[h] # Nothing =>
            idNow[delivering[h][2]] = delivering[h][1].id
    BY <1>7, <1>8 DEF AnswerInv, OnlyMade, FiledUnder, Base, Shape, NetShape
  <2>3. \A m \in Calls : slot[m] # NoCall => slot[m].id = idNow[m]
    BY <1>7, <1>8 DEF AnswerInv, OnlyMade, FiledUnder
  <2>4. \A d \in Callers : found'[d] # NoCall => idNow[found'[d]] = msgId'[d]
    BY <1>1, <1>7, <1>8 DEF AnswerInv, OnlyMade, FiledUnder, Base, Shape, CallerShape
  <2> QED
    BY <1>1, <2>1, <2>2, <2>3, <2>4 DEF FiledUnder, netVars
<1> QED
  BY <1>4, <1>5, <1>6, <1>8, <1>9 DEF AnswerInv

(* A step that changes no queue, no id and no message.                      *)
LEMMA SameAnswers ==
    ASSUME AnswerInv, OwnMessages',
           UNCHANGED <<responseMap, slot, number, msgId, found, answer>>,
           \A h \in Channels : delivering'[h] \in {delivering[h], Nothing}
    PROVE  AnswerInv'
<1>1. OnlyMade' /\ OwnAnswers'
  BY DEF AnswerInv, OnlyMade, Made, OwnAnswers, Call
<1>2. PICK idOf \in [Calls -> Ids] : FiledUnder(idOf)
  BY DEF AnswerInv
<1>3. FiledUnder(idOf)'
  BY <1>2 DEF FiledUnder
<1> QED
  BY <1>1, <1>3 DEF AnswerInv

LEMMA CallerStepsKeepAnswers ==
    ASSUME Base, AnswerInv, NEW c \in Callers,
           CallerStep(c) \/ TakeChannelInterrupted(c) \/ TakeInterrupted(c)
    PROVE  AnswerInv'
<1>1. ASSUME UNCHANGED <<mapVars, netVars, number, msgId, found, answer>>
      PROVE  AnswerInv'
  <2>1. OwnMessages'
    BY <1>1 DEF AnswerInv, OwnMessages, mapVars, netVars
  <2> QED
    BY <1>1, <2>1, SameAnswers DEF mapVars, netVars
<1>2. ASSUME Write(c) PROVE AnswerInv'
  <2> DEFINE m == [id |-> msgId[c], call |-> Call(c)]
  <2>1. m \in Requests /\ pc[c] \in Sending
    BY <1>2, CallIsOwn DEF Write, Requests, Sending, Labels
  <2>2. OwnMessage(m)
    BY <1>2, <2>1, IdentityAssumption DEF OwnMessage, Base, CallersKnow
  <2>3. \A h \in Channels : AllOwn(Append(outbox[h], m))
    BY <2>1, <2>2, AllOwnKept DEF AnswerInv, OwnMessages, Base, Shape, NetShape
  <2> HIDE DEF m
  <2>4. outbox' = outbox \/ outbox' = [outbox EXCEPT ![channel[c]] = Append(outbox[channel[c]], m)]
    BY <1>2 DEF Write, m
  <2>5. \A h \in Channels : AllOwn(outbox'[h])
    <3>1. DOMAIN outbox = Channels /\ \A h \in Channels : AllOwn(outbox[h])
      BY DEF AnswerInv, OwnMessages, Base, Shape, NetShape
    <3>2. \A h \in Channels : outbox'[h] = outbox[h] \/ outbox'[h] = Append(outbox[h], m)
      BY <2>4, <3>1
    <3> QED
      BY <2>3, <3>1, <3>2
  <2>6. OwnMessages'
    BY <1>2, <2>5 DEF Write, AnswerInv, OwnMessages, mapVars
  <2> QED
    BY <1>2, <2>6, SameAnswers DEF Write, mapVars
<1>3. ASSUME Lookup(c) PROVE AnswerInv'
  <2>1. /\ found' = [found EXCEPT ![c] = responseMap[msgId[c]]]
        /\ UNCHANGED <<mapVars, netVars, number, msgId, answer>>
        /\ msgId[c] \in Ids
    BY <1>3, CallIsOwn DEF Lookup, Sending, Labels
  <2>2. OwnMessages' /\ OwnAnswers'
    BY <2>1 DEF AnswerInv, OwnMessages, OwnAnswers, Call, mapVars, netVars
  <2>3. OnlyMade'
    BY <2>1 DEF AnswerInv, OnlyMade, Made, mapVars, netVars, Base, Shape, CallerShape
  <2>4. PICK idOf \in [Calls -> Ids] : FiledUnder(idOf)
    BY DEF AnswerInv
  <2>5. FiledUnder(idOf)'
    BY <2>1, <2>4 DEF FiledUnder, mapVars, netVars, Base, Shape, CallerShape
  <2> QED
    BY <2>2, <2>3, <2>5 DEF AnswerInv
<1>4. ASSUME TakeResponse(c) PROVE AnswerInv'
  <2>1. /\ answer' = [answer EXCEPT ![c] = slot[found[c]]]
        /\ slot' = [slot EXCEPT ![found[c]] = NoCall]
        /\ UNCHANGED <<responseMap, netVars, number, msgId, found>>
        /\ found[c] \in Calls /\ found[c] # NoCall /\ slot[found[c]] # NoCall
        /\ pc[c] \in Sending
    BY <1>4, IdentityAssumption DEF TakeResponse, Base, CallersKnow, Sending, Labels
  <2>2. PICK idOf \in [Calls -> Ids] : FiledUnder(idOf)
    BY DEF AnswerInv
  <2>3. OwnMessage(slot[found[c]]) /\ slot[found[c]].id = msgId[c]
    BY <2>1, <2>2 DEF AnswerInv, OwnMessages, FiledUnder
  <2>4. OwnAnswers'
    BY <2>1, <2>3 DEF AnswerInv, OwnAnswers, Call, Base, CallersKnow, Shape, CallerShape
  <2>5. \A k \in Calls : slot'[k] # NoCall => slot'[k] = slot[k]
    BY <2>1 DEF Base, Shape, MapShape
  <2>6. OwnMessages' /\ OnlyMade'
    BY <2>1, <2>5 DEF AnswerInv, OwnMessages, OnlyMade, Made, netVars
  <2>7. FiledUnder(idOf)'
    BY <2>1, <2>2, <2>5 DEF FiledUnder, netVars
  <2> QED
    BY <2>4, <2>6, <2>7 DEF AnswerInv
<1>5. ASSUME RemoveEntry(c) PROVE AnswerInv'
  <2>1. /\ responseMap' = [responseMap EXCEPT ![msgId[c]] = NoCall]
        /\ UNCHANGED <<slot, netVars, number, msgId, found, answer>>
    BY <1>5 DEF RemoveEntry
  <2>2. \A i \in Ids : responseMap'[i] # NoCall => responseMap'[i] = responseMap[i]
    BY <2>1 DEF Base, Shape, MapShape
  <2>3. OwnMessages' /\ OwnAnswers' /\ OnlyMade'
    BY <2>1, <2>2 DEF AnswerInv, OwnMessages, OwnAnswers, OnlyMade, Made, Call, netVars
  <2>4. PICK idOf \in [Calls -> Ids] : FiledUnder(idOf)
    BY DEF AnswerInv
  <2>5. FiledUnder(idOf)'
    BY <2>1, <2>2, <2>4 DEF FiledUnder, netVars
  <2> QED
    BY <2>3, <2>5 DEF AnswerInv
<1>6. ASSUME \/ GetChannel(c) \/ TakeChannel(c) \/ GiveChannelBack(c)
             \/ TakeChannelInterrupted(c) \/ TakeInterrupted(c)
      PROVE  UNCHANGED <<mapVars, netVars, number, msgId, found, answer>>
  BY <1>6 DEF GetChannel, TakeChannel, GiveChannelBack, TakeChannelInterrupted, TakeInterrupted
<1> QED
  BY <1>1, <1>2, <1>3, <1>4, <1>5, <1>6 DEF CallerStep

LEMMA NetStepsKeepAnswers ==
    ASSUME Base, AnswerInv, NEW h \in Channels,
           \/ LoopStep(h) \/ ServerStep(h) \/ ServerCannotEncode(h) \/ Drop(h) \/ Shutdown(h)
    PROVE  AnswerInv'
<1>0. /\ \A g \in Channels : /\ outbox[g] \in Seq(Requests) /\ AllOwn(outbox[g])
                             /\ toServer[g] \in Seq(Requests) /\ AllOwn(toServer[g])
                             /\ toClient[g] \in Seq(Responses) /\ AllOwn(toClient[g])
      /\ \A g \in Channels : delivering[g] # Nothing =>
            OwnMessage(delivering[g][1]) /\ delivering[g] \in Responses \X Calls
      /\ \A k \in Calls : slot[k] # NoCall => OwnMessage(slot[k])
  BY DEF Base, Shape, NetShape, AnswerInv, OwnMessages
<1>1. ASSUME Flush(h) PROVE AnswerInv'
  <2>1. /\ OwnMessage(Head(outbox[h])) /\ AllOwn(Tail(outbox[h]))
        /\ Head(outbox[h]) \in Requests
    BY <1>0, <1>1, AllOwnKept, HeadTailProperties DEF Flush
  <2>2. AllOwn(Append(toServer[h], Head(outbox[h])))
    BY <1>0, <2>1, AllOwnKept
  <2>3. \A g \in Channels : AllOwn(outbox'[g]) /\ AllOwn(toServer'[g])
    BY <1>0, <1>1, <2>1, <2>2 DEF Flush, Base, Shape, NetShape
  <2>4. OwnMessages'
    BY <1>0, <1>1, <2>3 DEF Flush, OwnMessages, mapVars
  <2> QED
    BY <1>1, <2>4, SameAnswers DEF Flush, mapVars, callerVars
<1>2. ASSUME NEW exception \in BOOLEAN, ServerRead(h, exception) PROVE AnswerInv'
  <2> DEFINE request == Head(toServer[h])
             m == [id |-> request.id, call |-> request.call, exception |-> exception]
  <2>1. OwnMessage(request) /\ AllOwn(Tail(toServer[h])) /\ request \in Requests
    BY <1>0, <1>2, AllOwnKept, HeadTailProperties DEF ServerRead
  <2>2. m \in Responses /\ OwnMessage(m)
    BY <2>1 DEF Requests, Responses, OwnMessage
  <2>3. AllOwn(Append(toClient[h], m))
    BY <1>0, <2>2, AllOwnKept
  <2>4. \A g \in Channels : AllOwn(toServer'[g]) /\ AllOwn(toClient'[g])
    BY <1>0, <1>2, <2>1, <2>3 DEF ServerRead, Base, Shape, NetShape
  <2>5. OwnMessages'
    BY <1>0, <1>2, <2>4 DEF ServerRead, OwnMessages, mapVars
  <2> QED
    BY <1>2, <2>5, SameAnswers DEF ServerRead, mapVars, callerVars
<1>3. ASSUME ServerCannotEncode(h) PROVE AnswerInv'
  <2>1. AllOwn(Tail(toServer[h]))
    BY <1>0, <1>3, AllOwnKept DEF ServerCannotEncode
  <2>2. \A g \in Channels : AllOwn(toServer'[g])
    BY <1>0, <1>3, <2>1 DEF ServerCannotEncode, Base, Shape, NetShape
  <2>3. OwnMessages'
    BY <1>0, <1>3, <2>2 DEF ServerCannotEncode, OwnMessages, mapVars
  <2> QED
    BY <1>3, <2>3, SameAnswers DEF ServerCannotEncode, mapVars, callerVars
<1>4. PICK idOf \in [Calls -> Ids] : FiledUnder(idOf)
  BY DEF AnswerInv
<1>5. ASSUME ClientRead(h) PROVE AnswerInv'
  <2>1. PICK response \in Responses : response = Head(toClient[h])
    BY <1>0, <1>5, HeadTailProperties DEF ClientRead
  <2>2. OwnMessage(response) /\ AllOwn(Tail(toClient[h])) /\ response.id \in Ids
    BY <1>0, <1>5, <2>1, AllOwnKept DEF ClientRead, Responses
  <2>3. PICK entry \in Calls \cup {NoCall} : entry = responseMap[response.id]
    BY <2>2 DEF Base, Shape, MapShape
  <2>4. /\ toClient' = [toClient EXCEPT ![h] = Tail(toClient[h])]
        /\ delivering' = IF entry = NoCall THEN delivering
                         ELSE [delivering EXCEPT ![h] = <<response, entry>>]
        /\ UNCHANGED <<callerVars, mapVars, outbox, toServer>>
    BY <1>5, <2>1, <2>3 DEF ClientRead
  <2>5. entry # NoCall => Made(entry) /\ idOf[entry] = response.id
    BY <1>4, <2>2, <2>3 DEF AnswerInv, OnlyMade, FiledUnder
  <2>6. \A g \in Channels : delivering'[g] # Nothing =>
            \/ delivering'[g] = delivering[g]
            \/ entry # NoCall /\ delivering'[g] = <<response, entry>>
    BY <2>4 DEF Base, Shape, NetShape
  <2>7. OwnMessages'
    <3>1. \A g \in Channels : AllOwn(toClient'[g])
      BY <1>0, <2>2, <2>4 DEF Base, Shape, NetShape
    <3>2. \A g \in Channels : delivering'[g] # Nothing => OwnMessage(delivering'[g][1])
      BY <1>0, <2>2, <2>6
    <3> QED
      BY <1>0, <2>4, <3>1, <3>2 DEF OwnMessages, mapVars
  <2>8. OnlyMade' /\ OwnAnswers'
    <3>1. \A g \in Channels : delivering'[g] # Nothing => Made(delivering'[g][2])
      BY <2>5, <2>6 DEF AnswerInv, OnlyMade
    <3> QED
      BY <2>4, <3>1 DEF AnswerInv, OnlyMade, OwnAnswers, Made, Call, callerVars, mapVars
  <2>9. FiledUnder(idOf)'
    <3>1. \A g \in Channels : delivering'[g] # Nothing =>
              idOf[delivering'[g][2]] = delivering'[g][1].id
      BY <1>4, <2>5, <2>6 DEF FiledUnder
    <3> QED
      BY <1>4, <2>4, <3>1 DEF FiledUnder, callerVars, mapVars
  <2> QED
    BY <2>7, <2>8, <2>9 DEF AnswerInv
<1>6. ASSUME Deliver(h) PROVE AnswerInv'
  <2>1. PICK response \in Responses, k \in Calls :
            /\ delivering[h][1] = response /\ delivering[h][2] = k
            /\ delivering[h] # Nothing
    BY <1>0, <1>6 DEF Deliver
  <2>2. /\ slot' = [slot EXCEPT ![k] = response]
        /\ delivering' = [delivering EXCEPT ![h] = Nothing]
        /\ UNCHANGED <<callerVars, responseMap, outbox, toServer, toClient>>
    BY <1>6, <2>1 DEF Deliver
  <2>3. OwnMessage(response) /\ Made(k) /\ idOf[k] = response.id
    BY <1>0, <1>4, <2>1 DEF AnswerInv, OnlyMade, FiledUnder
  <2>4. /\ \A m \in Calls : slot'[m] = slot[m] \/ (m = k /\ slot'[m] = response)
        /\ \A g \in Channels : delivering'[g] # Nothing => delivering'[g] = delivering[g]
    <3>1. slot \in [Calls -> Responses \cup {NoCall}] /\ DOMAIN delivering = Channels
      BY DEF Base, Shape, MapShape, NetShape
    <3>2. \A m \in Calls : slot'[m] = slot[m] \/ (m = k /\ slot'[m] = response)
      BY <2>2, <3>1
    <3>3. \A g \in Channels : delivering'[g] # Nothing => delivering'[g] = delivering[g]
      BY <2>2, <3>1
    <3> QED
      BY <3>2, <3>3
  <2>5. OwnMessages'
    BY <1>0, <2>2, <2>3, <2>4 DEF OwnMessages
  <2>6. OnlyMade' /\ OwnAnswers'
    BY <2>2, <2>3, <2>4 DEF AnswerInv, OnlyMade, OwnAnswers, Made, Call, callerVars
  <2>7. FiledUnder(idOf)'
    BY <1>4, <2>2, <2>3, <2>4 DEF FiledUnder, callerVars
  <2> QED
    BY <2>5, <2>6, <2>7 DEF AnswerInv
<1>7. ASSUME Drop(h) \/ Shutdown(h) PROVE AnswerInv'
  <2>1. /\ outbox' = [outbox EXCEPT ![h] = <<>>] /\ toServer' = [toServer EXCEPT ![h] = <<>>]
        /\ toClient' = [toClient EXCEPT ![h] = <<>>]
        /\ UNCHANGED <<callerVars, mapVars, delivering>>
    BY <1>7 DEF Drop, Shutdown, Disconnect
  <2>2. AllOwn(<<>>)
    BY EmptySeq, LenProperties DEF AllOwn
  <2>3. OwnMessages'
    BY <1>0, <2>1, <2>2 DEF OwnMessages, mapVars, Base, Shape, NetShape
  <2> QED
    BY <2>1, <2>3, SameAnswers DEF callerVars, mapVars
<1> QED
  BY <1>1, <1>2, <1>3, <1>5, <1>6, <1>7 DEF LoopStep, ServerStep

LEMMA NextAnswers == Base /\ AnswerInv /\ [Next]_vars => AnswerInv'
<1> SUFFICES ASSUME Base, AnswerInv, [Next]_vars PROVE AnswerInv'
  OBVIOUS
<1>1. ASSUME UNCHANGED <<callerVars, mapVars, netVars>> PROVE AnswerInv'
  <2>1. OwnMessages'
    BY <1>1 DEF AnswerInv, OwnMessages, mapVars, netVars
  <2> QED
    BY <1>1, <2>1, SameAnswers DEF callerVars, mapVars, netVars
<1>2. UNCHANGED vars \/ Close \/ CloseStep => UNCHANGED <<callerVars, mapVars, netVars>>
  BY DEF vars, Close, CloseStep, CloseChecksQueue, CloseTakes, CloseFutureDone,
         CloseClears, CloseSetsNull
<1> QED
  BY <1>1, <1>2, SendKeepsAnswers, CallerStepsKeepAnswers, NetStepsKeepAnswers DEF Next
-----------------------------------------------------------------------------
(* The entries of responseMap.                                             *)

LEMMA NextEntries ==
    Base /\ ChannelInv /\ EntriesOfSenders /\ [Next]_vars => EntriesOfSenders'
<1> SUFFICES ASSUME Base, ChannelInv, EntriesOfSenders, [Next]_vars,
                    interrupts' = 0, closer' = "none",
                    NEW i \in Ids, responseMap'[i] # NoCall
             PROVE  SendsAs(responseMap[i], i)'
  BY DEF EntriesOfSenders
<1>1. interrupts = 0 /\ closer = "none" /\ UNCHANGED closer
  <2>1. CASE UNCHANGED vars
    BY <2>1 DEF vars, faultVars, closeVars
  <2>2. ASSUME NEW c \in Callers,
               \/ \E j \in Ids : Send(c, j)
               \/ CallerStep(c) \/ TakeChannelInterrupted(c) \/ TakeInterrupted(c)
        PROVE  interrupts = 0 /\ closer = "none" /\ UNCHANGED closer
    <3>1. UNCHANGED closer
      BY <2>2 DEF Send, CallerStep, GetChannel, TakeChannel, Write, Lookup, TakeResponse,
                  RemoveEntry, GiveChannelBack, TakeChannelInterrupted, TakeInterrupted, closeVars
    <3>2. interrupts' = interrupts \/ interrupts' = interrupts + 1
      BY <2>2 DEF Send, CallerStep, GetChannel, TakeChannel, Write, Lookup, TakeResponse,
                  RemoveEntry, GiveChannelBack, TakeChannelInterrupted, TakeInterrupted,
                  faultVars, Interrupt
    <3> QED
      BY <3>1, <3>2 DEF Base, Shape, NetShape
  <2>3. ASSUME NEW h \in Channels,
               \/ LoopStep(h) \/ ServerStep(h) \/ ServerCannotEncode(h) \/ Drop(h) \/ Shutdown(h)
        PROVE  UNCHANGED <<closer, interrupts>>
    BY <2>3 DEF LoopStep, Flush, ClientRead, Deliver, ServerStep, ServerRead,
                ServerCannotEncode, Drop, Shutdown, Disconnect, closeVars, faultVars
  <2>4. ~ (Close \/ CloseStep)
    BY DEF Close, CloseStep, CloseChecksQueue, CloseTakes, CloseFutureDone, CloseClears,
           CloseSetsNull
  <2> QED
    BY <2>1, <2>2, <2>3, <2>4 DEF Next
<1>2. \A j \in Ids : responseMap[j] # NoCall => SendsAs(responseMap[j], j)
  BY <1>1 DEF EntriesOfSenders
<1> DEFINE k == responseMap[i]
<1>3. ASSUME UNCHANGED <<responseMap, number, msgId, pc>> PROVE SendsAs(responseMap[i], i)'
  BY <1>2, <1>3 DEF SendsAs, Call
<1>4. ASSUME NEW c \in Callers, CallerStep(c) \/ \E j \in Ids : Send(c, j)
      PROVE  SendsAs(responseMap[i], i)'
  <2> USE DEF Goto, Base, Shape, CallerShape, MapShape, SendsAs, Call, Sending, Labels
  <2>1. ASSUME NEW j \in Ids, Send(c, j) PROVE SendsAs(responseMap[i], i)'
    <3>1. PICK m : m = <<c, number[c] + 1>>
      OBVIOUS
    <3>2. /\ responseMap' = [responseMap EXCEPT ![j] = m]
          /\ number' = [number EXCEPT ![c] = number[c] + 1]
          /\ msgId' = [msgId EXCEPT ![c] = j]
          /\ pc' = [pc EXCEPT ![c] = "getChannel"] /\ pc[c] = "idle"
      BY <2>1, <3>1 DEF Send
    <3>3. CASE i = j
      <4>1. responseMap'[i] = m /\ m[1] = c
        BY <3>1, <3>2, <3>3
      <4>2. number'[c] = number[c] + 1 /\ msgId'[c] = i /\ pc'[c] = "getChannel"
        BY <3>2, <3>3
      <4> QED
        BY <3>1, <4>1, <4>2
    <3>4. CASE i # j
      <4>1. PICK n \in Calls : n = responseMap[i] /\ n = responseMap'[i]
        BY <3>2, <3>4
      <4>2. n[1] \in Callers /\ SendsAs(n, i) /\ n[1] # c
        BY <1>2, <3>2, <4>1, IdentityAssumption DEF Calls
      <4>3. SendsAs(n, i)'
        BY <3>2, <4>2
      <4> QED
        BY <4>1, <4>3
    <3> QED
      BY <3>3, <3>4
  <2>2. ASSUME responseMap' = responseMap, number' = number, msgId' = msgId,
               NEW label \in Labels, pc' = [pc EXCEPT ![c] = label],
               pc[c] \in Sending \ {"giveBack"} => label \in Sending \ {"giveBack"}
        PROVE  SendsAs(responseMap[i], i)'
    <3>1. PICK n \in Calls : n = responseMap[i]
      BY <2>2
    <3>2. n[1] \in Callers /\ SendsAs(n, i)
      BY <1>2, <2>2, <3>1 DEF Calls
    <3>3. SendsAs(n, i)'
      BY <2>2, <3>2
    <3> QED
      BY <2>2, <3>1, <3>3
  <2>3. ASSUME RemoveEntry(c) PROVE SendsAs(responseMap[i], i)'
    <3>1. /\ responseMap' = [responseMap EXCEPT ![msgId[c]] = NoCall]
          /\ UNCHANGED <<number, msgId>> /\ pc' = [pc EXCEPT ![c] = "giveBack"]
      BY <2>3 DEF RemoveEntry
    <3>2. PICK n \in Calls : n = responseMap[i] /\ n = responseMap'[i] /\ i # msgId[c]
      BY <3>1
    <3>3. n # NoCall /\ n[1] \in Callers
      BY IdentityAssumption DEF Calls
    <3>4. SendsAs(n, i) /\ n[1] # c
      <4>1. SendsAs(n, i)
        BY <1>2, <3>2, <3>3 DEF SendsAs
      <4> QED
        BY <3>2, <4>1 DEF SendsAs
    <3>5. SendsAs(n, i)'
      BY <3>1, <3>3, <3>4
    <3> QED
      BY <3>2, <3>5
  <2>4. CASE GetChannel(c)
    <3>1. pool = "open"
      BY <1>1 DEF ChannelInv, CloseCounts
    <3> QED
      BY <2>2, <2>4, <3>1 DEF GetChannel, mapVars
  <2>5. CASE TakeChannel(c)
    BY <2>2, <2>5 DEF TakeChannel, mapVars
  <2>6. CASE Write(c)
    BY <2>2, <2>6 DEF Write, mapVars
  <2>7. CASE Lookup(c)
    BY <2>2, <2>7 DEF Lookup, mapVars
  <2>8. CASE TakeResponse(c)
    BY <2>2, <2>8 DEF TakeResponse
  <2>9. CASE GiveChannelBack(c)
    BY <2>2, <2>9 DEF GiveChannelBack, mapVars
  <2> QED
    BY <1>4, <2>1, <2>3, <2>4, <2>5, <2>6, <2>7, <2>8, <2>9 DEF CallerStep
<1>5. ASSUME NEW c \in Callers PROVE ~ TakeChannelInterrupted(c) /\ ~ TakeInterrupted(c)
  BY <1>1 DEF TakeChannelInterrupted, TakeInterrupted, Interrupt
<1>6. ASSUME NEW h \in Channels,
             \/ LoopStep(h) \/ ServerStep(h) \/ ServerCannotEncode(h) \/ Drop(h) \/ Shutdown(h)
      PROVE  UNCHANGED <<responseMap, number, msgId, pc>>
  BY <1>6 DEF LoopStep, Flush, ClientRead, Deliver, ServerStep, ServerRead,
              ServerCannotEncode, Drop, Shutdown, Disconnect, callerVars, mapVars
<1>7. UNCHANGED vars \/ Close \/ CloseStep => UNCHANGED <<responseMap, number, msgId, pc>>
  BY DEF vars, Close, CloseStep, CloseChecksQueue, CloseTakes, CloseFutureDone, CloseClears,
         CloseSetsNull, callerVars, mapVars
<1> QED
  BY <1>3, <1>4, <1>5, <1>6, <1>7 DEF Next
-----------------------------------------------------------------------------
(* Silent channels.                                                        *)

CallsIn(list) == {list[i].call : i \in DOMAIN list}

LEMMA CallsInKept ==
    ASSUME NEW S, NEW list \in Seq(S)
    PROVE  /\ Len(list) \in Nat
           /\ CallsIn(<<>>) = {} /\ Len(<<>>) = 0
           /\ list # <<>> => /\ Head(list).call \in CallsIn(list) /\ Head(list) \in S
                             /\ CallsIn(Tail(list)) \subseteq CallsIn(list)
                             /\ Len(list) >= 1 /\ Len(Tail(list)) = Len(list) - 1
           /\ \A m \in S : /\ CallsIn(Append(list, m)) = CallsIn(list) \cup {m.call}
                           /\ Len(Append(list, m)) = Len(list) + 1
           /\ Len(list) >= 1 => CallsIn(list) # {}
<1>1. Len(list) \in Nat /\ DOMAIN list = 1 .. Len(list) /\ Len(<<>>) = 0 /\ DOMAIN <<>> = {}
  <2>1. <<>> \in Seq(S) /\ Len(<<>>) = 0
    BY EmptySeq
  <2>2. DOMAIN <<>> = 1 .. Len(<<>>)
    BY <2>1, LenProperties
  <2> QED
    BY <2>1, <2>2, LenProperties
<1>2. CallsIn(<<>>) = {}
  BY <1>1 DEF CallsIn
<1>3. ASSUME list # <<>>
      PROVE  /\ Head(list).call \in CallsIn(list) /\ Head(list) \in S
             /\ CallsIn(Tail(list)) \subseteq CallsIn(list)
             /\ Len(list) >= 1 /\ Len(Tail(list)) = Len(list) - 1
  <2>1. Len(list) \in Nat \ {0} /\ Head(list) = list[1] /\ 1 \in DOMAIN list
    BY <1>1, <1>3, EmptySeq
  <2>2. /\ Tail(list) \in Seq(S) /\ Len(Tail(list)) = Len(list) - 1 /\ Head(list) \in S
        /\ \A i \in 1 .. Len(Tail(list)) : Tail(list)[i] = list[i + 1]
    BY <1>3, HeadTailProperties
  <2>3. DOMAIN Tail(list) = 1 .. Len(list) - 1
    BY <2>2, LenProperties
  <2>4. \A i \in 1 .. Len(list) - 1 : i + 1 \in DOMAIN list /\ Tail(list)[i] = list[i + 1]
    BY <1>1, <2>2
  <2> QED
    BY <2>1, <2>2, <2>3, <2>4 DEF CallsIn
<1>4. ASSUME NEW m \in S
      PROVE  /\ CallsIn(Append(list, m)) = CallsIn(list) \cup {m.call}
             /\ Len(Append(list, m)) = Len(list) + 1
  <2>1. /\ Append(list, m) \in Seq(S) /\ Len(Append(list, m)) = Len(list) + 1
        /\ \A i \in 1 .. Len(list) : Append(list, m)[i] = list[i]
        /\ Append(list, m)[Len(list) + 1] = m
    BY AppendProperties
  <2>2. DOMAIN Append(list, m) = 1 .. Len(list) + 1
    BY <2>1, LenProperties
  <2>3. \A i : i \in 1 .. Len(list) + 1 <=> i = Len(list) + 1 \/ i \in 1 .. Len(list)
    BY <1>1
  <2> QED
    BY <1>1, <2>1, <2>2, <2>3 DEF CallsIn
<1>5. Len(list) >= 1 => 1 \in DOMAIN list
  BY <1>1
<1> QED
  BY <1>1, <1>2, <1>3, <1>4, <1>5 DEF CallsIn

(* What a channel carries.                                                 *)
LEMMA Carried ==
    ASSUME Base, NEW h \in Channels
    PROVE  /\ CallsOn(h) = CallsIn(outbox[h]) \cup CallsIn(toServer[h]) \cup CallsIn(toClient[h])
                   \cup (IF delivering[h] = Nothing THEN {} ELSE {delivering[h][1].call})
           /\ InTransit(h) \in Nat
           /\ InTransit(h) = 0 \/ CallsOn(h) # {}
           /\ CallsOn(h) \subseteq Calls
<1>1. /\ outbox[h] \in Seq(Requests) /\ toServer[h] \in Seq(Requests)
      /\ toClient[h] \in Seq(Responses)
      /\ delivering[h] \in {Nothing} \cup (Responses \X Calls)
  BY DEF Base, Shape, NetShape
<1>2. CallsOn(h) = CallsIn(outbox[h]) \cup CallsIn(toServer[h]) \cup CallsIn(toClient[h])
                   \cup (IF delivering[h] = Nothing THEN {} ELSE {delivering[h][1].call})
  BY DEF CallsOn, CallsIn
<1>3. /\ Len(outbox[h]) \in Nat /\ Len(toServer[h]) \in Nat /\ Len(toClient[h]) \in Nat
      /\ Len(outbox[h]) >= 1 => CallsIn(outbox[h]) # {}
      /\ Len(toServer[h]) >= 1 => CallsIn(toServer[h]) # {}
      /\ Len(toClient[h]) >= 1 => CallsIn(toClient[h]) # {}
  BY <1>1, CallsInKept
<1>4. PICK x \in Nat, y \in Nat, z \in Nat, d \in {0, 1} :
          /\ x = Len(outbox[h]) /\ y = Len(toServer[h]) /\ z = Len(toClient[h])
          /\ d = IF delivering[h] = Nothing THEN 0 ELSE 1
  <2>1. (IF delivering[h] = Nothing THEN 0 ELSE 1) \in {0, 1}
    OBVIOUS
  <2> QED
    BY <1>3, <2>1
<1>5. InTransit(h) = x + y + z + d
  BY <1>4 DEF InTransit
<1>7. InTransit(h) \in Nat
  BY <1>5
<1>8. InTransit(h) = 0 \/ x >= 1 \/ y >= 1 \/ z >= 1 \/ d = 1
  BY <1>5
<1>9. d = 1 => delivering[h] # Nothing
  BY <1>4
<1>10. InTransit(h) = 0 \/ CallsOn(h) # {}
  BY <1>2, <1>3, <1>4, <1>8, <1>9
<1>6. CallsOn(h) \subseteq Calls
  <2>1. /\ CallsIn(outbox[h]) \subseteq Calls /\ CallsIn(toServer[h]) \subseteq Calls
        /\ CallsIn(toClient[h]) \subseteq Calls
    <3>1. ASSUME NEW S, \A m \in S : m.call \in Calls, NEW list \in Seq(S)
          PROVE  CallsIn(list) \subseteq Calls
      BY <3>1, ElementOfSeq, LenProperties DEF CallsIn
    <3>2. /\ \A m \in Requests : m.call \in Calls
          /\ \A m \in Responses : m.call \in Calls
      BY DEF Requests, Responses
    <3> QED
      BY <1>1, <3>1, <3>2
  <2>2. delivering[h] # Nothing => delivering[h][1].call \in Calls
    BY <1>1 DEF Responses
  <2> QED
    BY <1>2, <2>1, <2>2
<1> QED
  BY <1>2, <1>6, <1>7, <1>10

(* What a channel carries, counted.                                        *)
LEMMA InTransitGrows ==
    ASSUME Base, NEW h \in Channels, NEW a \in {-1, 0, 1}, NEW b \in {-1, 0, 1},
           NEW c \in {-1, 0, 1}, NEW e \in {-1, 0, 1},
           Len(outbox'[h]) = Len(outbox[h]) + a,
           Len(toServer'[h]) = Len(toServer[h]) + b,
           Len(toClient'[h]) = Len(toClient[h]) + c,
           (IF delivering'[h] = Nothing THEN 0 ELSE 1)
               = (IF delivering[h] = Nothing THEN 0 ELSE 1) + e
    PROVE  InTransit(h)' = InTransit(h) + a + b + c + e
<1>1. /\ outbox[h] \in Seq(Requests) /\ toServer[h] \in Seq(Requests)
      /\ toClient[h] \in Seq(Responses)
  BY DEF Base, Shape, NetShape
<1>2. PICK x \in Nat, y \in Nat, z \in Nat, d \in {0, 1} :
          /\ x = Len(outbox[h]) /\ y = Len(toServer[h]) /\ z = Len(toClient[h])
          /\ d = IF delivering[h] = Nothing THEN 0 ELSE 1
  <2>1. (IF delivering[h] = Nothing THEN 0 ELSE 1) \in {0, 1}
    OBVIOUS
  <2> QED
    BY <1>1, <2>1, LenProperties
<1>3. InTransit(h) = x + y + z + d
  BY <1>2 DEF InTransit
<1>4. InTransit(h)' = (x + a) + (y + b) + (z + c) + (d + e)
  BY <1>2 DEF InTransit
<1> QED
  BY <1>3, <1>4

LEMMA OwnIds ==
    ASSUME Base, UniqueIds
    PROVE  /\ Ids = Calls /\ NoCall \notin Calls /\ NoCall \notin Responses
           /\ \A c \in Callers : pc[c] \in Sending => msgId[c] = Call(c) /\ Call(c) \in Calls
           /\ \A k \in Calls : k[1] \in Callers
<1>1. Ids = Calls /\ \A k \in Calls : k[1] \in Callers
  BY DEF UniqueIds, Ids, Calls
<1>2. ASSUME NEW c \in Callers, pc[c] \in Sending PROVE msgId[c] = Call(c) /\ Call(c) \in Calls
  BY <1>2, CallIsOwn DEF Base, CallersKnow, UniqueIds
<1> QED
  BY <1>1, <1>2, IdentityAssumption

(* A step of c does not disturb the calls of the others.                    *)
LEMMA SilenceKept ==
    ASSUME Base, Silent, Undisturbed, NEW c \in Callers, UNCHANGED netVars,
           \A d \in Callers : d # c => /\ pc'[d] = pc[d] /\ number'[d] = number[d]
                                       /\ channel'[d] = channel[d],
           \A k \in Calls : slot'[k] \in {slot[k], NoCall},
           \A k \in Calls, h \in Channels :
               k[1] = c /\ k \in CallsOn(h) /\ WaitsOn(k, h) => WaitsOn(k, h)'
    PROVE  Silent'
<1>1. ASSUME NEW h \in Channels PROVE InTransit(h)' = InTransit(h) /\ CallsOn(h)' = CallsOn(h)
  BY DEF InTransit, CallsOn, netVars
<1>2. ASSUME NEW h \in Channels, NEW k \in CallsOn(h) PROVE WaitsOn(k, h)'
  <2>1. k \in Calls /\ WaitsOn(k, h) /\ k[1] \in Callers
    BY <1>2, Carried, OwnIds DEF Silent, Undisturbed
  <2>2. CASE k[1] # c
    BY <2>1, <2>2 DEF WaitsOn, Call
  <2> QED
    BY <2>1, <2>2
<1> QED
  BY <1>1, <1>2 DEF Silent, Undisturbed

LEMMA SendKeepsSilence ==
    ASSUME Base, AnswerInv, OwnEntries, Silent, Undisturbed,
           NEW c \in Callers, NEW i \in Ids, Send(c, i)
    PROVE  OwnEntries' /\ Silent'
<1>1. PICK k \in Calls : k = <<c, number[c] + 1>>
  <2>1. number[c] \in 0 .. MaxSends /\ number[c] < MaxSends
    BY DEF Send, Base, Shape, CallerShape
  <2>2. number[c] + 1 \in 1 .. MaxSends
    BY <2>1, BoundsAssumption
  <2>3. <<c, number[c] + 1>> \in Calls
    BY <2>2 DEF Calls
  <2> QED
    BY <2>3
<1>2. /\ number' = [number EXCEPT ![c] = number[c] + 1] /\ number[c] \in Nat
      /\ responseMap' = [responseMap EXCEPT ![k] = k]
      /\ found' = [found EXCEPT ![c] = NoCall]
      /\ pc' = [pc EXCEPT ![c] = "getChannel"] /\ pc[c] = "idle"
      /\ UNCHANGED <<channel, slot, netVars>>
  <2>1. i = k
    BY <1>1 DEF Send, Undisturbed, UniqueIds
  <2>2. responseMap' = [responseMap EXCEPT ![k] = k]
    BY <1>1, <2>1 DEF Send
  <2>3. number[c] \in Nat
    BY DEF Base, Shape, CallerShape
  <2> QED
    BY <2>2, <2>3 DEF Send, Goto
<1>3. /\ Call(c)' = k
      /\ \A d \in Callers : d # c => /\ Call(d)' = Call(d) /\ pc'[d] = pc[d]
                                     /\ found'[d] = found[d] /\ number'[d] = number[d]
      /\ \A d \in Callers : Call(d) # k
  BY <1>1, <1>2 DEF Call, Base, Shape, CallerShape
<1>4. slot[k] = NoCall
  <2>1. ~ Made(k)
    BY <1>1, <1>2 DEF Made
  <2> QED
    BY <2>1 DEF AnswerInv, OnlyMade
<1>5. /\ responseMap'[k] = k
      /\ \A j \in Ids : j # k => responseMap'[j] = responseMap[j]
      /\ pc'[c] = "getChannel"
  BY <1>2, OwnIds DEF Base, Shape, MapShape, CallerShape, Undisturbed
<1>6. OwnEntries'
  <2>1. \A j \in Ids : responseMap'[j] # NoCall => responseMap'[j] = j
    BY <1>5 DEF OwnEntries
  <2>2. \A d \in Callers : pc'[d] \in Sending \ {"giveBack"} => responseMap'[Call(d)'] = Call(d)'
    <3>1. ASSUME NEW d \in Callers, d # c, pc'[d] \in Sending \ {"giveBack"}
          PROVE  responseMap'[Call(d)'] = Call(d)'
      <4>1. Call(d) \in Ids /\ responseMap[Call(d)] = Call(d) /\ Call(d) # k
        BY <1>3, <3>1, OwnIds DEF OwnEntries, Undisturbed
      <4> QED
        BY <1>3, <1>5, <3>1, <4>1
    <3> QED
      BY <1>3, <1>5, <3>1
  <2>3. \A d \in Callers : pc'[d] = "take" => found'[d] = Call(d)'
    BY <1>3, <1>5 DEF OwnEntries
  <2>4. \A d \in Callers : pc'[d] \in {"getChannel", "takeChannel", "write"} =>
            slot'[Call(d)'] = NoCall
    BY <1>2, <1>3, <1>4, <1>5 DEF OwnEntries
  <2>5. \A h \in Channels : delivering'[h] # Nothing => delivering'[h][2] = delivering'[h][1].call
    BY <1>2 DEF OwnEntries, netVars
  <2> QED
    BY <2>1, <2>2, <2>3, <2>4, <2>5 DEF OwnEntries
<1>7. \A m \in Calls, h \in Channels : m[1] = c => ~ WaitsOn(m, h)
  BY <1>2 DEF WaitsOn
<1>8. Silent'
  BY <1>2, <1>3, <1>7, SilenceKept
<1> QED
  BY <1>6, <1>8

LEMMA CallerStepsKeepSilence ==
    ASSUME Base, ChannelInv, OwnEntries, Silent, Undisturbed,
           NEW c \in Callers, CallerStep(c)
    PROVE  OwnEntries' /\ Silent'
<1>0. /\ pc \in [Callers -> Labels] /\ found \in [Callers -> Calls \cup {NoCall}]
      /\ channel \in [Callers -> Channels \cup {NoChannel}]
      /\ responseMap \in [Ids -> Calls \cup {NoCall}]
      /\ slot \in [Calls -> Responses \cup {NoCall}]
  BY DEF Base, Shape, CallerShape, MapShape
<1>1. /\ Ids = Calls /\ NoCall \notin Calls
      /\ \A d \in Callers : pc[d] \in Sending => msgId[d] = Call(d) /\ Call(d) \in Calls
      /\ \A d \in Callers : d # c => Call(d) # Call(c)
  BY OwnIds DEF Undisturbed, Call
<1>2. /\ \A i \in Ids : responseMap[i] # NoCall => responseMap[i] = i
      /\ \A d \in Callers : pc[d] \in Sending \ {"giveBack"} => responseMap[Call(d)] = Call(d)
      /\ \A d \in Callers : pc[d] = "take" => found[d] = Call(d)
      /\ \A d \in Callers : pc[d] \in {"getChannel", "takeChannel", "write"} =>
            slot[Call(d)] = NoCall
      /\ \A h \in Channels : delivering[h] # Nothing =>
            delivering[h][2] = delivering[h][1].call
  BY DEF OwnEntries
(* c goes on without touching the map.                                      *)
<1>3. ASSUME UNCHANGED <<mapVars, number, msgId, delivering>>,
             NEW label \in Labels, pc' = [pc EXCEPT ![c] = label], pc[c] \in Sending,
             label \in Sending \ {"giveBack"} => pc[c] # "giveBack",
             label = "take" => found'[c] = Call(c),
             label \in {"takeChannel", "write"} => pc[c] \in {"getChannel", "takeChannel"},
             label # "getChannel",
             \A d \in Callers : d # c => found'[d] = found[d]
      PROVE  OwnEntries'
  <2>1. /\ \A d \in Callers : Call(d)' = Call(d)
        /\ pc'[c] = label /\ \A d \in Callers : d # c => pc'[d] = pc[d]
    BY <1>0, <1>3 DEF Call
  <2>2. \A d \in Callers : pc'[d] \in Sending \ {"giveBack"} => pc[d] \in Sending \ {"giveBack"}
    BY <1>3, <2>1
  <2>3. \A d \in Callers : pc'[d] \in {"getChannel", "takeChannel", "write"} =>
                           pc[d] \in {"getChannel", "takeChannel", "write"}
    BY <1>3, <2>1
  <2>4. \A d \in Callers : pc'[d] = "take" => found'[d] = Call(d)
    BY <1>2, <1>3, <2>1
  <2> QED
    BY <1>2, <1>3, <2>1, <2>2, <2>3, <2>4 DEF OwnEntries, mapVars
(* c was not waiting for a message, nor is it now.                          *)
<1>4. ASSUME UNCHANGED <<netVars, number>>, pc[c] \notin {"lookup", "take"},
             \A d \in Callers : d # c => pc'[d] = pc[d] /\ channel'[d] = channel[d],
             \A k \in Calls : slot'[k] \in {slot[k], NoCall}
      PROVE  Silent'
  <2>1. \A k \in Calls, h \in Channels : k[1] = c => ~ WaitsOn(k, h)
    BY <1>4 DEF WaitsOn
  <2> QED
    BY <1>4, <2>1, SilenceKept
<1>5. CASE GetChannel(c)
  <2>1. pool = "open" \/ pool # "open"
    OBVIOUS
  <2>2. PICK label \in {"takeChannel", "idle"} : pc' = [pc EXCEPT ![c] = label]
    BY <1>5 DEF GetChannel, Goto
  <2>3. OwnEntries'
    BY <1>3, <1>5, <2>2 DEF GetChannel, Sending, Labels, netVars
  <2>4. Silent'
    BY <1>0, <1>4, <1>5, <2>2 DEF GetChannel, netVars, mapVars
  <2> QED
    BY <2>3, <2>4
<1>6. CASE TakeChannel(c)
  <2>1. OwnEntries'
    BY <1>3, <1>6 DEF TakeChannel, Goto, Sending, Labels, netVars
  <2>2. Silent'
    BY <1>0, <1>4, <1>6 DEF TakeChannel, Goto, netVars, mapVars
  <2> QED
    BY <2>1, <2>2
<1>7. CASE Lookup(c)
  <2>1. /\ responseMap[msgId[c]] = Call(c) /\ Call(c) # NoCall /\ pc[c] = "lookup"
    BY <1>1, <1>2, <1>7 DEF Lookup, Sending, Labels
  <2>2. /\ pc' = [pc EXCEPT ![c] = "take"] /\ found' = [found EXCEPT ![c] = Call(c)]
        /\ UNCHANGED <<number, msgId, channel, mapVars, netVars>>
    BY <1>7, <2>1 DEF Lookup, Goto
  <2>3. OwnEntries'
    BY <1>0, <1>3, <2>1, <2>2 DEF Sending, Labels, netVars
  <2>4. \A k \in Calls, h \in Channels : WaitsOn(k, h) => WaitsOn(k, h)'
    BY <1>0, <2>2 DEF WaitsOn, Call, mapVars
  <2>5. Silent'
    BY <1>0, <2>2, <2>4, SilenceKept DEF mapVars
  <2> QED
    BY <2>3, <2>5
<1>8. CASE TakeResponse(c)
  <2>1. found[c] = Call(c) /\ Call(c) \in Calls /\ slot[Call(c)] # NoCall /\ pc[c] = "take"
    BY <1>1, <1>2, <1>8 DEF TakeResponse, Sending, Labels
  <2>2. /\ pc' = [pc EXCEPT ![c] = "remove"] /\ slot' = [slot EXCEPT ![Call(c)] = NoCall]
        /\ UNCHANGED <<number, msgId, channel, found, responseMap, netVars>>
    BY <1>8, <2>1 DEF TakeResponse, Goto
  <2>3. /\ \A k \in Calls : slot'[k] \in {slot[k], NoCall}
        /\ pc'[c] = "remove" /\ \A d \in Callers : d # c => pc'[d] = pc[d]
        /\ \A d \in Callers : Call(d)' = Call(d)
    BY <1>0, <2>2 DEF Call
  <2>4. OwnEntries'
    <3>1. \A d \in Callers : pc'[d] \in {"getChannel", "takeChannel", "write"} =>
              slot'[Call(d)] = NoCall
      BY <1>1, <1>2, <2>3 DEF Sending, Labels
    <3> QED
      BY <1>2, <2>1, <2>2, <2>3, <3>1 DEF OwnEntries, Sending, Labels, netVars
  <2>5. \A k \in Calls, h \in Channels : k[1] = c => ~ WaitsOn(k, h)
    BY <2>1 DEF WaitsOn
  <2>6. Silent'
    BY <2>2, <2>3, <2>5, SilenceKept
  <2> QED
    BY <2>4, <2>6
<1>9. CASE RemoveEntry(c)
  <2>1. /\ pc[c] = "remove" /\ msgId[c] = Call(c) /\ Call(c) \in Calls
        /\ pc' = [pc EXCEPT ![c] = "giveBack"]
        /\ responseMap' = [responseMap EXCEPT ![Call(c)] = NoCall]
        /\ UNCHANGED <<slot, number, msgId, channel, found, netVars>>
    BY <1>1, <1>9 DEF RemoveEntry, Goto, Sending, Labels
  <2>2. /\ \A i \in Ids : responseMap'[i] # NoCall => responseMap'[i] = responseMap[i]
        /\ \A i \in Ids : i # Call(c) => responseMap'[i] = responseMap[i]
        /\ pc'[c] = "giveBack" /\ \A d \in Callers : d # c => pc'[d] = pc[d]
        /\ \A d \in Callers : Call(d)' = Call(d)
    BY <1>0, <2>1 DEF Call
  <2>3. \A d \in Callers : pc'[d] \in Sending \ {"giveBack"} => responseMap'[Call(d)] = Call(d)
    BY <1>1, <1>2, <2>2
  <2>4. OwnEntries'
    BY <1>2, <2>1, <2>2, <2>3 DEF OwnEntries, netVars
  <2>5. Silent'
    BY <1>4, <2>1, <2>2
  <2> QED
    BY <2>4, <2>5
<1>10. CASE GiveChannelBack(c)
  <2>1. /\ pc[c] = "giveBack" /\ pc' = [pc EXCEPT ![c] = "idle"]
        /\ channel' = [channel EXCEPT ![c] = NoChannel]
        /\ UNCHANGED <<number, msgId, found, mapVars, netVars>>
    BY <1>10 DEF GiveChannelBack, Goto
  <2>2. OwnEntries'
    BY <1>3, <2>1 DEF Sending, Labels, netVars
  <2>3. Silent'
    BY <1>0, <1>4, <2>1 DEF mapVars
  <2> QED
    BY <2>2, <2>3
<1>11. CASE Write(c)
  <2>1. pc[c] = "write" /\ pc' = [pc EXCEPT ![c] = "lookup"]
        /\ UNCHANGED <<number, msgId, channel, found, mapVars, delivering>>
    BY <1>11 DEF Write, Goto
  <2>2. OwnEntries'
    BY <1>3, <2>1 DEF Sending, Labels
  <2>3. PICK h \in Channels : h = channel[c]
    BY <2>1 DEF Base, CallersKnow, WithChannel
  <2>4. CallsOn(h) = {} /\ InTransit(h) = 0
    <3>1. ASSUME NEW k \in CallsOn(h) PROVE FALSE
      <4>1. k[1] \in Callers /\ WaitsOn(k, h)
        BY Carried, OwnIds DEF Silent, Undisturbed
      <4>2. Holds(k[1], h) /\ Holds(c, h)
        BY <2>1, <2>3, <4>1 DEF WaitsOn, Holds, WithChannel
      <4> QED
        BY <2>1, <4>1, <4>2 DEF ChannelInv, OnePlace, WaitsOn
    <3> QED
      BY <3>1, Carried
  <2>5. PICK m \in Requests : m = [id |-> msgId[c], call |-> Call(c)]
    BY <1>1, <2>1 DEF Requests, Sending, Labels
  <2>6. /\ outbox' = outbox \/ outbox' = [outbox EXCEPT ![h] = Append(outbox[h], m)]
        /\ UNCHANGED <<toServer, toClient>>
    BY <1>11, <2>3, <2>5 DEF Write
  <2>7. ASSUME NEW g \in Channels PROVE InTransit(g)' <= 1 /\ \A k \in CallsOn(g)' : WaitsOn(k, g)'
    <3>1. \A k \in CallsOn(g) : WaitsOn(k, g)'
      <4>1. ASSUME NEW k \in CallsOn(g) PROVE WaitsOn(k, g) /\ k[1] \in Callers /\ k[1] # c
        BY <2>1, Carried, OwnIds DEF Silent, Undisturbed, WaitsOn
      <4> QED
        BY <1>0, <2>1, <4>1 DEF WaitsOn, Call, mapVars
    <3>2. CASE outbox'[g] = outbox[g]
      <4>1. InTransit(g)' = InTransit(g) /\ CallsOn(g)' = CallsOn(g)
        BY <2>1, <2>6, <3>2 DEF InTransit, CallsOn
      <4> QED
        BY <3>1, <4>1 DEF Silent, Undisturbed
    <3>3. CASE outbox'[g] # outbox[g]
      <4>1. g = h /\ outbox'[g] = Append(outbox[g], m) /\ outbox[g] \in Seq(Requests)
        BY <2>6, <3>3 DEF Base, Shape, NetShape
      <4>2. Len(outbox'[g]) = Len(outbox[g]) + 1 /\ CallsIn(outbox'[g]) = CallsIn(outbox[g]) \cup {Call(c)}
        BY <2>5, <4>1, CallsInKept
      <4>3. /\ CallsOn(g)' = CallsOn(g) \cup {Call(c)}
        BY <2>1, <2>6, <4>2 DEF CallsOn, CallsIn
      <4>4. InTransit(g)' = 1
        <5>1. InTransit(g)' = InTransit(g) + 1
          <6>1. /\ Len(toServer'[g]) = Len(toServer[g]) + 0
                /\ Len(toClient'[g]) = Len(toClient[g]) + 0
            BY <2>6, LenProperties DEF Base, Shape, NetShape
          <6>2. (IF delivering'[g] = Nothing THEN 0 ELSE 1)
                   = (IF delivering[g] = Nothing THEN 0 ELSE 1) + 0
            BY <2>1
          <6>3. InTransit(g)' = InTransit(g) + 1 + 0 + 0 + 0
            BY <4>2, <6>1, <6>2, InTransitGrows
          <6> QED
            BY <6>3, Carried
        <5> QED
          BY <2>4, <4>1, <5>1
      <4>5. \A k \in {Call(c)} : WaitsOn(k, g)'
        BY <1>0, <1>2, <2>1, <2>3, <4>1 DEF WaitsOn, Call, mapVars
      <4> QED
        BY <3>1, <4>3, <4>4, <4>5
    <3> QED
      BY <3>2, <3>3
  <2>8. Silent'
    BY <2>7 DEF Silent
  <2> QED
    BY <2>2, <2>8
<1> QED
  BY <1>5, <1>6, <1>7, <1>8, <1>9, <1>10, <1>11 DEF CallerStep

LEMMA NetStepsKeepSilence ==
    ASSUME Base, AnswerInv, OwnEntries, Silent, Undisturbed, NEW h \in Channels,
           \/ LoopStep(h) \/ ServerStep(h) \/ ServerCannotEncode(h) \/ Drop(h) \/ Shutdown(h)
    PROVE  OwnEntries' /\ Silent'
<1>0. /\ outbox[h] \in Seq(Requests) /\ toServer[h] \in Seq(Requests)
      /\ toClient[h] \in Seq(Responses)
      /\ DOMAIN outbox = Channels /\ DOMAIN toServer = Channels /\ DOMAIN toClient = Channels
      /\ DOMAIN delivering = Channels
      /\ slot \in [Calls -> Responses \cup {NoCall}]
      /\ Len(outbox[h]) \in Nat /\ Len(toServer[h]) \in Nat /\ Len(toClient[h]) \in Nat
      /\ InTransit(h) \in Nat
  BY LenProperties, Carried DEF Base, Shape, NetShape, MapShape
<1>1. /\ InTransit(h) <= 1
      /\ CallsOn(h) = CallsIn(outbox[h]) \cup CallsIn(toServer[h]) \cup CallsIn(toClient[h])
              \cup (IF delivering[h] = Nothing THEN {} ELSE {delivering[h][1].call})
  BY Carried DEF Silent, Undisturbed
<1>2. CallsOn(h)' = CallsIn(outbox'[h]) \cup CallsIn(toServer'[h]) \cup CallsIn(toClient'[h])
              \cup (IF delivering'[h] = Nothing THEN {} ELSE {delivering'[h][1].call})
  BY DEF CallsOn, CallsIn
(* What the step leaves of the calls on h still waits.                      *)
<1>3. ASSUME UNCHANGED callerVars,
             \A g \in Channels : g # h => /\ outbox'[g] = outbox[g] /\ toServer'[g] = toServer[g]
                                          /\ toClient'[g] = toClient[g]
                                          /\ delivering'[g] = delivering[g],
             InTransit(h)' <= 1,
             \A k \in CallsOn(h)' : k \in CallsOn(h) /\ slot'[k] = slot[k],
             \A k \in Calls : slot'[k] = slot[k] \/ k \in CallsOn(h)
      PROVE  Silent'
  <2>1. ASSUME NEW g \in Channels, g # h PROVE InTransit(g)' = InTransit(g) /\ CallsOn(g)' = CallsOn(g)
    <3>1. /\ outbox'[g] = outbox[g] /\ toServer'[g] = toServer[g]
          /\ toClient'[g] = toClient[g] /\ delivering'[g] = delivering[g]
      BY <1>3, <2>1
    <3>2. InTransit(g)' = InTransit(g)
      BY <3>1 DEF InTransit
    <3>3. CallsOn(g)' = CallsOn(g)
      BY <3>1 DEF CallsOn
    <3> QED
      BY <3>2, <3>3
  <2>2. ASSUME NEW g \in Channels, NEW k \in CallsOn(g)' PROVE WaitsOn(k, g)'
    <3>1. k \in CallsOn(g) /\ WaitsOn(k, g) /\ k \in Calls
      BY <1>3, <2>1, Carried DEF Silent, Undisturbed
    <3>2. slot'[k] = slot[k]
      <4>1. k \in CallsOn(h) => g = h
        BY <3>1 DEF Silent, Undisturbed, WaitsOn
      <4> QED
        BY <1>3, <3>1, <4>1
    <3> QED
      BY <1>3, <3>1, <3>2 DEF WaitsOn, Call, callerVars
  <2>3. \A g \in Channels : InTransit(g)' <= 1
    BY <1>3, <2>1 DEF Silent, Undisturbed
  <2> QED
    BY <2>2, <2>3 DEF Silent
<1>4. ASSUME UNCHANGED <<callerVars, mapVars, delivering>> PROVE OwnEntries'
  BY <1>4 DEF OwnEntries, Undisturbed, Call, callerVars, mapVars
<1>5. CASE Flush(h)
  <2>1. /\ outbox[h] # <<>> /\ outbox' = [outbox EXCEPT ![h] = Tail(outbox[h])]
        /\ toServer' = [toServer EXCEPT ![h] = Append(toServer[h], Head(outbox[h]))]
        /\ UNCHANGED <<callerVars, mapVars, toClient, delivering>>
    BY <1>5 DEF Flush
  <2>2. /\ outbox'[h] = Tail(outbox[h]) /\ toServer'[h] = Append(toServer[h], Head(outbox[h]))
    BY <1>0, <2>1
  <2>3. /\ CallsIn(outbox'[h]) \subseteq CallsIn(outbox[h])
        /\ CallsIn(toServer'[h]) = CallsIn(toServer[h]) \cup {Head(outbox[h]).call}
        /\ Head(outbox[h]).call \in CallsIn(outbox[h])
        /\ Len(outbox'[h]) = Len(outbox[h]) + (-1)
        /\ Len(toServer'[h]) = Len(toServer[h]) + 1
    BY <1>0, <2>1, <2>2, CallsInKept
  <2>4. InTransit(h)' = InTransit(h) + (-1) + 1 + 0 + 0
    <3>1. /\ Len(toClient'[h]) = Len(toClient[h]) + 0
          /\ (IF delivering'[h] = Nothing THEN 0 ELSE 1)
                = (IF delivering[h] = Nothing THEN 0 ELSE 1) + 0
      BY <1>0, <2>1
    <3> QED
      BY <2>3, <3>1, InTransitGrows
  <2>5. \A k \in CallsOn(h)' : k \in CallsOn(h) /\ slot'[k] = slot[k]
    BY <1>1, <1>2, <2>1, <2>3 DEF mapVars
  <2>6. Silent'
    <3>1. InTransit(h)' <= 1
      BY <1>0, <1>1, <2>4
    <3> QED
      BY <1>0, <1>3, <2>1, <2>5, <3>1 DEF mapVars
  <2> QED
    BY <1>4, <2>1, <2>6
<1>6. ASSUME NEW exception \in BOOLEAN, ServerRead(h, exception) PROVE OwnEntries' /\ Silent'
  <2>1. PICK m \in Responses : m = [id |-> Head(toServer[h]).id, call |-> Head(toServer[h]).call,
                                    exception |-> exception]
    <3>1. Head(toServer[h]) \in Requests
      BY <1>0, <1>6, CallsInKept DEF ServerRead
    <3> QED
      BY <3>1 DEF Requests, Responses
  <2>2. /\ toServer[h] # <<>> /\ toServer' = [toServer EXCEPT ![h] = Tail(toServer[h])]
        /\ toClient' = [toClient EXCEPT ![h] = Append(toClient[h], m)]
        /\ UNCHANGED <<callerVars, mapVars, outbox, delivering>>
    BY <1>6, <2>1 DEF ServerRead
  <2>3. /\ toServer'[h] = Tail(toServer[h]) /\ toClient'[h] = Append(toClient[h], m)
        /\ m.call = Head(toServer[h]).call
    BY <1>0, <2>1, <2>2
  <2>4. /\ CallsIn(toServer'[h]) \subseteq CallsIn(toServer[h])
        /\ CallsIn(toClient'[h]) = CallsIn(toClient[h]) \cup {m.call}
        /\ m.call \in CallsIn(toServer[h])
        /\ Len(toServer'[h]) = Len(toServer[h]) + (-1)
        /\ Len(toClient'[h]) = Len(toClient[h]) + 1
    BY <1>0, <2>2, <2>3, CallsInKept
  <2>5. InTransit(h)' = InTransit(h) + 0 + (-1) + 1 + 0
    <3>1. /\ Len(outbox'[h]) = Len(outbox[h]) + 0
          /\ (IF delivering'[h] = Nothing THEN 0 ELSE 1)
                = (IF delivering[h] = Nothing THEN 0 ELSE 1) + 0
      BY <1>0, <2>2
    <3> QED
      BY <2>4, <3>1, InTransitGrows
  <2>6. \A k \in CallsOn(h)' : k \in CallsOn(h) /\ slot'[k] = slot[k]
    BY <1>1, <1>2, <2>2, <2>4 DEF mapVars
  <2>7. Silent'
    <3>1. InTransit(h)' <= 1
      BY <1>0, <1>1, <2>5
    <3> QED
      BY <1>0, <1>3, <2>2, <2>6, <3>1 DEF mapVars
  <2> QED
    BY <1>4, <2>2, <2>7
<1>7. CASE ServerCannotEncode(h)
  <2>1. /\ toServer[h] # <<>> /\ toServer' = [toServer EXCEPT ![h] = Tail(toServer[h])]
        /\ UNCHANGED <<callerVars, mapVars, outbox, toClient, delivering>>
    BY <1>7 DEF ServerCannotEncode
  <2>2. toServer'[h] = Tail(toServer[h])
    BY <1>0, <2>1
  <2>3. /\ CallsIn(toServer'[h]) \subseteq CallsIn(toServer[h])
        /\ Len(toServer'[h]) = Len(toServer[h]) + (-1)
    BY <1>0, <2>1, <2>2, CallsInKept
  <2>4. InTransit(h)' = InTransit(h) + 0 + (-1) + 0 + 0
    <3>1. /\ Len(outbox'[h]) = Len(outbox[h]) + 0 /\ Len(toClient'[h]) = Len(toClient[h]) + 0
          /\ (IF delivering'[h] = Nothing THEN 0 ELSE 1)
                = (IF delivering[h] = Nothing THEN 0 ELSE 1) + 0
      BY <1>0, <2>1
    <3> QED
      BY <2>3, <3>1, InTransitGrows
  <2>5. \A k \in CallsOn(h)' : k \in CallsOn(h) /\ slot'[k] = slot[k]
    BY <1>1, <1>2, <2>1, <2>3 DEF mapVars
  <2>6. Silent'
    <3>1. InTransit(h)' <= 1
      BY <1>0, <1>1, <2>4
    <3> QED
      BY <1>0, <1>3, <2>1, <2>5, <3>1 DEF mapVars
  <2> QED
    BY <1>4, <2>1, <2>6
<1>8. CASE ClientRead(h)
  <2>1. PICK m \in Responses : m = Head(toClient[h]) /\ m.call \in CallsIn(toClient[h])
    BY <1>0, <1>8, CallsInKept DEF ClientRead
  <2>2. PICK entry \in Calls \cup {NoCall} : entry = responseMap[m.id]
    BY <2>1 DEF Responses, Base, Shape, MapShape
  <2>3. /\ toClient[h] # <<>> /\ toClient' = [toClient EXCEPT ![h] = Tail(toClient[h])]
        /\ delivering[h] = Nothing
        /\ delivering' = IF entry = NoCall THEN delivering
                         ELSE [delivering EXCEPT ![h] = <<m, entry>>]
        /\ UNCHANGED <<callerVars, mapVars, outbox, toServer>>
    BY <1>8, <2>1, <2>2 DEF ClientRead, LoopFree
  <2>4. entry # NoCall => entry = m.call
    <3>1. OwnMessage(m) /\ m.id \in Ids /\ Ids = Calls
      <4>1. AllOwn(toClient[h])
        BY DEF AnswerInv, OwnMessages
      <4> QED
        BY <1>0, <2>1, <2>3, <4>1, AllOwnKept, OwnIds DEF Undisturbed, Responses
    <3> QED
      BY <2>2, <3>1 DEF OwnEntries, OwnMessage
  <2>5. /\ toClient'[h] = Tail(toClient[h])
        /\ \A g \in Channels : g # h => delivering'[g] = delivering[g]
        /\ delivering'[h] = Nothing \/ (entry # NoCall /\ delivering'[h] = <<m, entry>>)
    BY <1>0, <2>3
  <2>6. /\ CallsIn(toClient'[h]) \subseteq CallsIn(toClient[h])
        /\ Len(toClient'[h]) = Len(toClient[h]) + (-1)
    BY <1>0, <2>3, <2>5, CallsInKept
  <2>7. PICK e \in {0, 1} : e = IF delivering'[h] = Nothing THEN 0 ELSE 1
    OBVIOUS
  <2>8. InTransit(h)' = InTransit(h) + 0 + 0 + (-1) + e
    <3>1. /\ Len(outbox'[h]) = Len(outbox[h]) + 0 /\ Len(toServer'[h]) = Len(toServer[h]) + 0
          /\ (IF delivering'[h] = Nothing THEN 0 ELSE 1)
                = (IF delivering[h] = Nothing THEN 0 ELSE 1) + e
      BY <1>0, <2>3, <2>7
    <3> QED
      BY <2>6, <2>7, <3>1, InTransitGrows
  <2>9. \A k \in CallsOn(h)' : k \in CallsOn(h) /\ slot'[k] = slot[k]
    BY <1>1, <1>2, <2>1, <2>3, <2>5, <2>6 DEF mapVars
  <2>10. Silent'
    <3>1. InTransit(h)' <= 1
      BY <1>0, <1>1, <2>7, <2>8
    <3> QED
      BY <1>0, <1>3, <2>3, <2>5, <2>9, <3>1 DEF mapVars
  <2>11. OwnEntries'
    <3>1. \A g \in Channels : delivering'[g] # Nothing => delivering'[g][2] = delivering'[g][1].call
      BY <2>4, <2>5 DEF OwnEntries, Undisturbed
    <3> QED
      BY <2>3, <3>1 DEF OwnEntries, Undisturbed, Call, callerVars, mapVars
  <2> QED
    BY <2>10, <2>11
<1>9. CASE Deliver(h)
  <2>1. PICK m \in Responses, k \in Calls :
            delivering[h][1] = m /\ delivering[h][2] = k /\ delivering[h] # Nothing
    BY <1>9 DEF Deliver, Base, Shape, NetShape
  <2>2. /\ slot' = [slot EXCEPT ![k] = m] /\ delivering' = [delivering EXCEPT ![h] = Nothing]
        /\ UNCHANGED <<callerVars, responseMap, outbox, toServer, toClient>>
    BY <1>9, <2>1 DEF Deliver
  <2>3. k = m.call /\ k \in CallsOn(h) /\ WaitsOn(k, h)
    BY <1>1, <2>1 DEF OwnEntries, Silent, Undisturbed
  <2>4. delivering'[h] = Nothing /\ \A j \in Calls : j # k => slot'[j] = slot[j]
    BY <1>0, <2>2
  <2>5. InTransit(h)' = InTransit(h) + 0 + 0 + 0 + (-1)
    <3>1. /\ Len(outbox'[h]) = Len(outbox[h]) + 0 /\ Len(toServer'[h]) = Len(toServer[h]) + 0
          /\ Len(toClient'[h]) = Len(toClient[h]) + 0
          /\ (IF delivering'[h] = Nothing THEN 0 ELSE 1)
                = (IF delivering[h] = Nothing THEN 0 ELSE 1) + (-1)
      BY <1>0, <2>1, <2>2, <2>4
    <3> QED
      BY <3>1, InTransitGrows
  <2>6. InTransit(h)' <= 0
    BY <1>0, <1>1, <2>5
  <2>7. CallsOn(h)' = {}
    <3>1. PICK x \in Nat, y \in Nat, z \in Nat :
              x = Len(outbox[h]) /\ y = Len(toServer[h]) /\ z = Len(toClient[h])
      BY <1>0
    <3>2. InTransit(h)' = x + y + z + 0
      BY <2>2, <2>4, <3>1 DEF InTransit
    <3>3. x = 0 /\ y = 0 /\ z = 0
      BY <2>6, <3>2
    <3>4. outbox[h] = <<>> /\ toServer[h] = <<>> /\ toClient[h] = <<>>
      BY <1>0, <3>1, <3>3, EmptySeq
    <3> QED
      BY <1>0, <1>2, <2>2, <2>4, <3>4, CallsInKept
  <2>8. Silent'
    <3>1. InTransit(h)' <= 1 /\ \A j \in Calls : slot'[j] = slot[j] \/ j \in CallsOn(h)
      BY <1>0, <1>1, <2>3, <2>4, <2>5
    <3> QED
      BY <1>0, <1>3, <2>2, <2>7, <3>1
  <2>9. OwnEntries'
    <3>1. \A g \in Channels : delivering'[g] # Nothing => delivering'[g] = delivering[g]
      BY <1>0, <2>2
    <3>2. \A d \in Callers : pc[d] \in {"getChannel", "takeChannel", "write"} =>
              slot'[Call(d)] = NoCall
      <4>1. ASSUME NEW d \in Callers, pc[d] \in {"getChannel", "takeChannel", "write"}
            PROVE  Call(d) \in Calls /\ Call(d) # k
        BY <2>3, <4>1, OwnIds DEF WaitsOn, Call, Sending, Labels, Undisturbed
      <4> QED
        BY <2>4, <4>1 DEF OwnEntries, Undisturbed
    <3> QED
      BY <2>2, <3>1, <3>2 DEF OwnEntries, Undisturbed, Call, callerVars
  <2> QED
    BY <2>8, <2>9
<1>10. CASE Drop(h) \/ Shutdown(h)
  <2>1. /\ outbox' = [outbox EXCEPT ![h] = <<>>] /\ toServer' = [toServer EXCEPT ![h] = <<>>]
        /\ toClient' = [toClient EXCEPT ![h] = <<>>]
        /\ UNCHANGED <<callerVars, mapVars, delivering>>
    BY <1>10 DEF Drop, Shutdown, Disconnect
  <2>2. outbox'[h] = <<>> /\ toServer'[h] = <<>> /\ toClient'[h] = <<>>
    BY <1>0, <2>1
  <2>3. CallsIn(<<>>) = {} /\ Len(<<>>) = 0
    BY <1>0, CallsInKept
  <2>4. InTransit(h)' <= 1
    <3>1. PICK d \in {0, 1} : d = IF delivering'[h] = Nothing THEN 0 ELSE 1
      OBVIOUS
    <3>2. InTransit(h)' = 0 + 0 + 0 + d
      BY <2>2, <2>3, <3>1 DEF InTransit
    <3> QED
      BY <3>2
  <2>5. \A k \in CallsOn(h)' : k \in CallsOn(h) /\ slot'[k] = slot[k]
    BY <1>1, <1>2, <2>1, <2>2, <2>3 DEF mapVars
  <2>6. Silent'
    BY <1>0, <1>3, <2>1, <2>4, <2>5 DEF mapVars
  <2> QED
    BY <1>4, <2>1, <2>6
<1> QED
  BY <1>5, <1>6, <1>7, <1>8, <1>9, <1>10 DEF LoopStep, ServerStep

LEMMA NextSilence ==
    Base /\ ChannelInv /\ AnswerInv /\ OwnEntries /\ Silent /\ [Next]_vars
        => OwnEntries' /\ Silent'
<1> SUFFICES ASSUME Base, ChannelInv, AnswerInv, OwnEntries, Silent, [Next]_vars
             PROVE  OwnEntries' /\ Silent'
  OBVIOUS
<1>1. CASE ~ Undisturbed'
  BY <1>1 DEF OwnEntries, Silent
<1>2. CASE Undisturbed'
  <2>1. ASSUME UNCHANGED <<callerVars, mapVars, netVars, interrupts>>
        PROVE  OwnEntries' /\ Silent'
    <3>1. UNCHANGED <<pc, number, channel, found, responseMap, slot, outbox, toServer,
                      toClient, delivering, interrupts>>
      BY <2>1 DEF callerVars, mapVars, netVars
    <3>2. OwnEntries'
      BY <3>1 DEF OwnEntries, Undisturbed, Call
    <3>3. \A h \in Channels : /\ InTransit(h)' = InTransit(h) /\ CallsOn(h)' = CallsOn(h)
                              /\ \A k : WaitsOn(k, h)' <=> WaitsOn(k, h)
      BY <3>1 DEF InTransit, CallsOn, WaitsOn, Call
    <3>4. Silent'
      BY <3>1, <3>3 DEF Silent, Undisturbed
    <3> QED
      BY <3>2, <3>4
  <2>2. UNCHANGED vars \/ Close \/ CloseStep
            => UNCHANGED <<callerVars, mapVars, netVars, interrupts>>
    BY DEF vars, Close, CloseStep, CloseChecksQueue, CloseTakes, CloseFutureDone,
           CloseClears, CloseSetsNull, faultVars
  <2>3. ASSUME NEW c \in Callers, CallerStep(c) \/ \E i \in Ids : Send(c, i)
        PROVE  OwnEntries' /\ Silent'
    <3>1. Undisturbed
      BY <1>2, <2>3
      DEF Undisturbed, Send, CallerStep, GetChannel, TakeChannel, Write, Lookup,
          TakeResponse, RemoveEntry, GiveChannelBack, faultVars
    <3> QED
      BY <2>3, <3>1, CallerStepsKeepSilence, SendKeepsSilence
  <2>4. ASSUME NEW c \in Callers PROVE ~ TakeChannelInterrupted(c) /\ ~ TakeInterrupted(c)
    BY <1>2 DEF Undisturbed, TakeChannelInterrupted, TakeInterrupted, Interrupt,
                Base, Shape, NetShape
  <2>5. ASSUME NEW h \in Channels,
               \/ LoopStep(h) \/ ServerStep(h) \/ ServerCannotEncode(h) \/ Drop(h) \/ Shutdown(h)
        PROVE  OwnEntries' /\ Silent'
    <3>1. Undisturbed
      BY <1>2, <2>5
      DEF Undisturbed, LoopStep, Flush, ClientRead, Deliver, ServerStep, ServerRead,
          ServerCannotEncode, Drop, Shutdown, faultVars
    <3> QED
      BY <2>5, <3>1, NetStepsKeepSilence
  <2> QED
    BY <2>1, <2>2, <2>3, <2>4, <2>5 DEF Next
<1> QED
  BY <1>1, <1>2
-----------------------------------------------------------------------------
(* The invariant and what follows from it.                                 *)

LEMMA InitClient == Init => ClientInv
<1> SUFFICES ASSUME Init PROVE ClientInv
  OBVIOUS
<1>1. EntriesOfSenders /\ OwnEntries
  <2>1. \A i \in Ids : responseMap[i] = NoCall
    BY DEF Init
  <2>2. \A c \in Callers : pc[c] = "idle"
    BY DEF Init
  <2>3. \A h \in Channels : delivering[h] = Nothing
    BY DEF Init
  <2> QED
    BY <2>1, <2>2, <2>3 DEF EntriesOfSenders, OwnEntries, Sending, Labels
<1>2. Silent
  <2>1. ASSUME NEW h \in Channels PROVE InTransit(h) <= 1 /\ CallsOn(h) = {}
    <3>1. outbox[h] = <<>> /\ toServer[h] = <<>> /\ toClient[h] = <<>> /\ delivering[h] = Nothing
      BY DEF Init
    <3>2. Len(<<>>) = 0 /\ DOMAIN <<>> = {}
      BY EmptySeq, LenProperties
    <3> QED
      BY <3>1, <3>2 DEF InTransit, CallsOn
  <2> QED
    BY <2>1 DEF Silent
<1> QED
  BY <1>1, <1>2, InitBase, InitChannels, InitAnswers DEF ClientInv

LEMMA ClientInvariant == Spec => []ClientInv
<1>1. ClientInv /\ [Next]_vars => ClientInv'
  BY NextBase, NextChannels, NextAnswers, NextEntries, NextSilence DEF ClientInv
<1> QED
  BY <1>1, InitClient, PTL DEF Spec

(* No channel is lost or shared as long as nobody closes the client: a       *)
(* channel is in the queue once or held by one call, however many callers    *)
(* there are and whatever breaks.                                          *)
THEOREM ChannelsConservedAlways == Spec => []ChannelsConserved
<1>1. ClientInv => ChannelsConserved
  <2> SUFFICES ASSUME ClientInv, closer = "none", NEW h \in Channels
               PROVE  Cardinality({i \in DOMAIN channelQueue : channelQueue[i] = h})
                        + Cardinality({c \in Callers : channel[c] = h /\ pc[c] \in WithChannel}) = 1
    BY DEF ChannelsConserved
  <2> DEFINE idle == {i \in DOMAIN channelQueue : channelQueue[i] = h}
             held == {c \in Callers : channel[c] = h /\ pc[c] \in WithChannel}
  <2>1. h \notin Gone
    <3>1. IsFiniteSet(Gone) /\ Cardinality(Gone) = 0
      <4>1. Gone \in SUBSET Channels
        BY DEF Gone
      <4> QED
        BY <4>1, BoundsAssumption, FS_Subset DEF ClientInv, ChannelInv, CloseCounts
    <3> QED
      BY <3>1, FS_EmptySet
  <2>2. CASE Queued(h)
    <3>1. PICK i \in DOMAIN channelQueue : channelQueue[i] = h
      BY <2>2 DEF Queued
    <3>2. idle = {i} /\ held = {}
      BY <2>2, <3>1 DEF ClientInv, ChannelInv, OnePlace, Holds
    <3>3. Cardinality(idle) = 1 /\ Cardinality(held) = 0
      BY <3>2, FS_EmptySet, FS_Singleton
    <3> QED
      BY <3>3
  <2>3. CASE ~ Queued(h)
    <3>1. PICK c \in Callers : Holds(c, h)
      BY <2>1, <2>3 DEF Gone
    <3>2. held = {c} /\ idle = {}
      BY <2>3, <3>1 DEF ClientInv, ChannelInv, OnePlace, Holds, Queued
    <3>3. Cardinality(idle) = 0 /\ Cardinality(held) = 1
      BY <3>2, FS_EmptySet, FS_Singleton
    <3> QED
      BY <3>3
  <2> QED
    BY <2>2, <2>3
<1> QED
  BY <1>1, ClientInvariant, PTL

(* close has waited for the close future of every channel when it leaves its *)
(* loop, although calls give channels back while it takes them.             *)
THEOREM CloseWaitsAlways == Spec => []CloseWaitsForEveryChannel
<1>1. ClientInv => CloseWaitsForEveryChannel
  BY DEF ClientInv, ChannelInv, CloseCounts
<1> QED
  BY <1>1, ClientInvariant, PTL

(* send returns the answer to its own request, with any number of callers    *)
(* and channels, and however late an answer comes after an interrupt.       *)
THEOREM AnswerIsForRequestAlways == Spec => []AnswerIsForRequest
<1>1. ClientInv => AnswerIsForRequest
  <2> SUFFICES ASSUME ClientInv, NEW c \in Callers, answer[c] # NoCall
               PROVE  /\ answer[c].id = msgId[c]
                      /\ msgId[c] \notin SharedIds => answer[c].call = Call(c)
    BY DEF AnswerIsForRequest
  <2>1. /\ answer[c].id = msgId[c] /\ OwnMessage(answer[c])
        /\ msgId[c] \in {Call(c)} \cup SharedIds
    BY DEF ClientInv, AnswerInv, OwnAnswers
  <2>2. answer[c] \in Responses
    BY DEF ClientInv, Base, Shape, CallerShape
  <2>3. answer[c].id \in Ids
    BY <2>2 DEF Responses
  <2> QED
    BY <2>1, <2>3 DEF OwnMessage, Ids
<1> QED
  BY <1>1, ClientInvariant, PTL

(* responseMap holds no entry of a call that has ended, unless a call was    *)
(* interrupted or the client is being closed.                              *)
THEOREM EntriesAreInUseAlways == Spec => []EntriesAreInUse
<1>1. ClientInv => EntriesAreInUse
  <2> SUFFICES ASSUME ClientInv, interrupts = 0, closer = "none",
                      NEW i \in Ids, responseMap[i] # NoCall
               PROVE  \E c \in Callers : msgId[c] = i /\ pc[c] \in Sending
    BY DEF EntriesAreInUse
  <2>1. SendsAs(responseMap[i], i) /\ responseMap[i] \in Calls
    BY DEF ClientInv, EntriesOfSenders, Base, Shape, MapShape
  <2>2. responseMap[i][1] \in Callers
    BY <2>1 DEF Calls
  <2> QED
    BY <2>1, <2>2 DEF SendsAs
<1> QED
  BY <1>1, ClientInvariant, PTL

(* A channel carries one message at most, of the call that holds it and      *)
(* waits: without an interrupt and with ids of their own no answer meets a   *)
(* full queue, and the channel is silent when it is given back.             *)
THEOREM ChannelIsExclusiveAlways == Spec => []ChannelIsExclusive
<1>1. ClientInv => ChannelIsExclusive
  BY DEF ClientInv, Silent, Undisturbed, WaitsOn, ChannelIsExclusive
<1> QED
  BY <1>1, ClientInvariant, PTL

(* A call of send leaves neither a channel nor an entry behind, for any      *)
(* callers, faults and ids, with the exceptions of the two parts.           *)
THEOREM NothingIsLeftBehindAlways == Spec => []NothingIsLeftBehind
<1>1. ChannelsConserved /\ EntriesAreInUse => NothingIsLeftBehind
  BY DEF NothingIsLeftBehind
<1> QED
  BY <1>1, ChannelsConservedAlways, EntriesAreInUseAlways, PTL
=============================================================================

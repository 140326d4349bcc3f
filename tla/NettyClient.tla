---------------------------- MODULE NettyClient ----------------------------
(***************************************************************************)
(* The netty component: NettyClient.send and close over a pool of channels, *)
(* NettyConstants.responseMap, which hands a response to the thread that    *)
(* waits for it, the inbound handlers of client and server, and the network *)
(* between them.                                                           *)
(*                                                                         *)
(* send registers a fresh ArrayBlockingQueue of one element under the id of *)
(* the request, takes a channel from the pool, writes, and waits without a  *)
(* time limit.  A call is <<caller, number>>; it also names the queue that  *)
(* the call creates and the id it uses unless the application sets one      *)
(* itself (NettyRequest draws a random UUID).  Each channel has an event    *)
(* loop of its own: the group has chanelSize of them.                       *)
(***************************************************************************)
EXTENDS Naturals, Sequences, FiniteSets

CONSTANTS Callers,      \* the threads that call send
          Channels,     \* the connections; chanelSize is their number
          SharedIds,    \* message ids that applications set themselves
          NoCall,       \* no entry in responseMap, or an empty response queue
          NoChannel,    \* a caller that holds no channel
          MaxSends,     \* how many calls a caller makes
          MaxFaults,    \* how often a connection breaks, a response cannot
                        \* be encoded or a waiting caller is interrupted
          MayClose      \* TRUE: somebody calls close

ASSUME BoundsAssumption ==
    /\ MaxSends \in Nat /\ MaxFaults \in Nat /\ MayClose \in BOOLEAN
    /\ IsFiniteSet(Channels)

Calls == Callers \X (1 .. MaxSends)
Ids == Calls \cup SharedIds
Requests == [id : Ids, call : Calls]            \* call is a history field
Responses == [id : Ids, call : Calls, exception : BOOLEAN]

ASSUME IdentityAssumption == /\ NoCall \notin Calls \cup Responses
                             /\ NoChannel \notin Channels
                             /\ SharedIds \cap Calls = {}

VARIABLES responseMap,  \* responseMap[i]: the call whose queue is filed under i
          slot,         \* slot[k]: the response in the queue of call k
          channelQueue, \* the idle channels, in the order of the queue
          pool,         \* "open", "closed": channelQueue is null
          pc, number,   \* of a caller: where it is, and in which of its calls
          msgId,        \* msgId[c]: request.getMessageId()
          channel,      \* channel[c]: the channel c took
          found,        \* found[c]: the queue that responseMap.get returned
          answer,       \* answer[c]: the response that take returned
          up,           \* up[h]: channel h is connected
          outbox,       \* outbox[h]: writes the event loop of h has not flushed
          toServer, toClient,  \* what is on the way over h
          delivering,   \* delivering[h]: a response whose put has not returned
          closer,       \* the state of close
          closeTurn,    \* how many channels close has taken from the queue
          closeWaits,   \* the channel whose close future it waits for
          lost,         \* breaks and failed encodings so far
          interrupts    \* interrupts so far

callerVars == <<pc, number, msgId, channel, found, answer>>
mapVars    == <<responseMap, slot>>
poolVars   == <<channelQueue, pool>>
netVars    == <<up, outbox, toServer, toClient, delivering>>
closeVars  == <<closer, closeTurn, closeWaits>>
faultVars  == <<lost, interrupts>>
vars == <<callerVars, mapVars, poolVars, netVars, closeVars, faultVars>>

Labels == {"idle", "getChannel", "takeChannel", "write", "lookup", "take", "remove", "giveBack"}
Nothing == <<>>         \* delivering[h] when the event loop of h is free

TypeOK ==
    /\ responseMap \in [Ids -> Calls \cup {NoCall}]
    /\ slot \in [Calls -> Responses \cup {NoCall}]
    /\ channelQueue \in Seq(Channels) /\ Len(channelQueue) <= Cardinality(Channels)
    /\ pool \in {"open", "closed"}
    /\ pc \in [Callers -> Labels]
    /\ number \in [Callers -> 0 .. MaxSends]
    /\ msgId \in [Callers -> Ids \cup {NoCall}]
    /\ channel \in [Callers -> Channels \cup {NoChannel}]
    /\ found \in [Callers -> Calls \cup {NoCall}]
    /\ answer \in [Callers -> Responses \cup {NoCall}]
    /\ up \in [Channels -> BOOLEAN]
    /\ outbox \in [Channels -> Seq(Requests)]
    /\ toServer \in [Channels -> Seq(Requests)]
    /\ toClient \in [Channels -> Seq(Responses)]
    /\ delivering \in [Channels -> {Nothing} \cup (Responses \X Calls)]
    /\ closer \in {"none", "started", "taking", "waiting", "clearing", "nulling", "done"}
    /\ closeTurn \in 0 .. Cardinality(Channels)
    /\ closeWaits \in Channels \cup {NoChannel}
    /\ lost \in Nat /\ interrupts \in Nat /\ lost + interrupts <= MaxFaults

(* init has connected every channel and put it into the queue.              *)
Init ==
    /\ responseMap = [i \in Ids |-> NoCall]
    /\ slot = [k \in Calls |-> NoCall]
    /\ channelQueue \in {s \in [1 .. Cardinality(Channels) -> Channels] :
                           \A h \in Channels : \E i \in DOMAIN s : s[i] = h}
    /\ pool = "open"
    /\ pc = [c \in Callers |-> "idle"]
    /\ number = [c \in Callers |-> 0]
    /\ msgId = [c \in Callers |-> NoCall]
    /\ channel = [c \in Callers |-> NoChannel]
    /\ found = [c \in Callers |-> NoCall]
    /\ answer = [c \in Callers |-> NoCall]
    /\ up = [h \in Channels |-> TRUE]
    /\ outbox = [h \in Channels |-> <<>>]
    /\ toServer = [h \in Channels |-> <<>>]
    /\ toClient = [h \in Channels |-> <<>>]
    /\ delivering = [h \in Channels |-> Nothing]
    /\ closer = "none" /\ closeTurn = 0 /\ closeWaits = NoChannel
    /\ lost = 0 /\ interrupts = 0

Goto(c, label) == pc' = [pc EXCEPT ![c] = label]
Call(c) == <<c, number[c]>>

Interrupt == lost + interrupts < MaxFaults /\ interrupts' = interrupts + 1
Lose      == lost + interrupts < MaxFaults /\ lost' = lost + 1

-----------------------------------------------------------------------------
(* NettyClient.send and getResponse. *)

Send(c, i) ==
    LET k == <<c, number[c] + 1>>
    IN  /\ pc[c] = "idle"
        /\ number[c] < MaxSends
        /\ i \in {k} \cup SharedIds
        /\ number' = [number EXCEPT ![c] = @ + 1]
        /\ msgId' = [msgId EXCEPT ![c] = i]
        /\ responseMap' = [responseMap EXCEPT ![i] = k]
        /\ answer' = [answer EXCEPT ![c] = NoCall]
        /\ found' = [found EXCEPT ![c] = NoCall]
        /\ Goto(c, "getChannel")
        /\ UNCHANGED <<slot, channel, poolVars, netVars, closeVars, faultVars>>

(* getChannel reads the field channelQueue, which close sets to null, then  *)
(* waits in take.  It is outside the try of getResponse: what it throws     *)
(* ends send at once.                                                      *)
GetChannel(c) ==
    /\ pc[c] = "getChannel"
    /\ Goto(c, IF pool = "open" THEN "takeChannel" ELSE "idle")
    /\ UNCHANGED <<number, msgId, channel, found, answer, mapVars, poolVars,
                   netVars, closeVars, faultVars>>

TakeChannel(c) ==
    /\ pc[c] = "takeChannel"
    /\ channelQueue # <<>>
    /\ channel' = [channel EXCEPT ![c] = Head(channelQueue)]
    /\ channelQueue' = Tail(channelQueue)
    /\ Goto(c, "write")
    /\ UNCHANGED <<number, msgId, found, answer, pool, mapVars, netVars,
                   closeVars, faultVars>>

TakeChannelInterrupted(c) ==
    /\ pc[c] = "takeChannel"
    /\ Interrupt
    /\ Goto(c, "idle")
    /\ UNCHANGED <<number, msgId, channel, found, answer, mapVars, poolVars,
                   netVars, closeVars, lost>>

(* Mutant: the channel goes back to the pool as soon as the write is out.   *)
WriteAndGiveBack(c) ==
    /\ pc[c] = "write"
    /\ outbox' = [outbox EXCEPT ![channel[c]] =
                     Append(@, [id |-> msgId[c], call |-> Call(c)])]
    /\ channelQueue' = Append(channelQueue, channel[c])
    /\ Goto(c, "lookup")
    /\ UNCHANGED <<number, msgId, channel, found, answer, up, toServer, toClient,
                   delivering, mapVars, pool, closeVars, faultVars>>

(* The future of writeAndFlush is ignored: on a broken channel the request  *)
(* is dropped.                                                             *)
Write(c) ==
    /\ pc[c] = "write"
    /\ outbox' = IF up[channel[c]]
                 THEN [outbox EXCEPT ![channel[c]] =
                          Append(@, [id |-> msgId[c], call |-> Call(c)])]
                 ELSE outbox
    /\ Goto(c, "lookup")
    /\ UNCHANGED <<number, msgId, channel, found, answer, up, toServer, toClient,
                   delivering, mapVars, poolVars, closeVars, faultVars>>

(* responseMap.get(id).take(): a missing entry is a NullPointerException.   *)
Lookup(c) ==
    /\ pc[c] = "lookup"
    /\ found' = [found EXCEPT ![c] = responseMap[msgId[c]]]
    /\ Goto(c, IF responseMap[msgId[c]] = NoCall THEN "remove" ELSE "take")
    /\ UNCHANGED <<number, msgId, channel, answer, mapVars, poolVars, netVars,
                   closeVars, faultVars>>

TakeResponse(c) ==
    /\ pc[c] = "take"
    /\ slot[found[c]] # NoCall
    /\ answer' = [answer EXCEPT ![c] = slot[found[c]]]
    /\ slot' = [slot EXCEPT ![found[c]] = NoCall]
    /\ Goto(c, "remove")
    /\ UNCHANGED <<number, msgId, channel, found, responseMap, poolVars, netVars,
                   closeVars, faultVars>>

(* Mutant: no finally around take.                                          *)
TakeInterruptedLeaves(c) ==
    /\ pc[c] = "take"
    /\ Interrupt
    /\ Goto(c, "idle")
    /\ UNCHANGED <<number, msgId, channel, found, answer, mapVars, poolVars,
                   netVars, closeVars, lost>>

TakeInterrupted(c) ==
    /\ pc[c] = "take"
    /\ Interrupt
    /\ Goto(c, "remove")
    /\ UNCHANGED <<number, msgId, channel, found, answer, mapVars, poolVars,
                   netVars, closeVars, lost>>

(* The finally block, whether take returned or threw.                       *)
RemoveEntry(c) ==
    /\ pc[c] = "remove"
    /\ responseMap' = [responseMap EXCEPT ![msgId[c]] = NoCall]
    /\ Goto(c, "giveBack")
    /\ UNCHANGED <<slot, number, msgId, channel, found, answer, poolVars, netVars,
                   closeVars, faultVars>>

(* Mutant: the channel is given back and remembered, and given back again.  *)
GiveChannelBackTwice(c) ==
    /\ pc[c] = "giveBack"
    /\ channelQueue' = Append(Append(channelQueue, channel[c]), channel[c])
    /\ channel' = [channel EXCEPT ![c] = NoChannel]
    /\ Goto(c, "idle")
    /\ UNCHANGED <<number, msgId, found, answer, pool, mapVars, netVars, closeVars,
                   faultVars>>

GiveChannelBack(c) ==
    /\ pc[c] = "giveBack"
    /\ channelQueue' = IF pool = "open" THEN Append(channelQueue, channel[c])
                                        ELSE channelQueue
    /\ channel' = [channel EXCEPT ![c] = NoChannel]
    /\ Goto(c, "idle")
    /\ UNCHANGED <<number, msgId, found, answer, pool, mapVars, netVars, closeVars,
                   faultVars>>

CallerStep(c) == \/ GetChannel(c) \/ TakeChannel(c) \/ Write(c)
                 \/ Lookup(c) \/ TakeResponse(c)
                 \/ RemoveEntry(c) \/ GiveChannelBack(c)

-----------------------------------------------------------------------------
(* The event loop of a client channel, and the server. *)

(* An event loop blocked in put neither flushes nor reads.                  *)
LoopFree(h) == up[h] /\ delivering[h] = Nothing

Flush(h) ==
    /\ LoopFree(h)
    /\ outbox[h] # <<>>
    /\ toServer' = [toServer EXCEPT ![h] = Append(@, Head(outbox[h]))]
    /\ outbox' = [outbox EXCEPT ![h] = Tail(@)]
    /\ UNCHANGED <<callerVars, mapVars, poolVars, up, toClient, delivering,
                   closeVars, faultVars>>

(* Mutant: an exception of process leaves channelRead0.                     *)
ServerReadUncaught(h, exception) ==
    LET request == Head(toServer[h])
    IN  /\ up[h]
        /\ toServer[h] # <<>>
        /\ toServer' = [toServer EXCEPT ![h] = Tail(@)]
        /\ toClient' = IF exception THEN toClient
                       ELSE [toClient EXCEPT ![h] =
                           Append(@, [id |-> request.id, call |-> request.call,
                                      exception |-> FALSE])]
        /\ UNCHANGED <<callerVars, mapVars, poolVars, up, outbox, delivering,
                       closeVars, faultVars>>

(* NettyServerChannelInboundHandler.channelRead0: process returned or threw *)
(* (a null result throws when its class is asked for).                      *)
ServerRead(h, exception) ==
    LET request == Head(toServer[h])
    IN  /\ up[h]
        /\ toServer[h] # <<>>
        /\ toServer' = [toServer EXCEPT ![h] = Tail(@)]
        /\ toClient' = [toClient EXCEPT ![h] =
                           Append(@, [id |-> request.id, call |-> request.call,
                                      exception |-> exception])]
        /\ UNCHANGED <<callerVars, mapVars, poolVars, up, outbox, delivering,
                       closeVars, faultVars>>

(* SerializationUtil.serialize returns null and the encoder throws: the     *)
(* response is never sent.                                                 *)
ServerCannotEncode(h) ==
    /\ up[h]
    /\ toServer[h] # <<>>
    /\ Lose
    /\ toServer' = [toServer EXCEPT ![h] = Tail(@)]
    /\ UNCHANGED <<callerVars, mapVars, poolVars, up, outbox, toClient, delivering,
                   closeVars, interrupts>>

(* Mutant: the response goes to whoever holds the channel now.              *)
ClientReadForHolder(h) ==
    LET holders == {c \in Callers : channel[c] = h}
    IN  /\ LoopFree(h)
        /\ toClient[h] # <<>>
        /\ toClient' = [toClient EXCEPT ![h] = Tail(@)]
        /\ delivering' = IF holders = {} THEN delivering
                         ELSE [delivering EXCEPT ![h] =
                                  <<Head(toClient[h]), Call(CHOOSE c \in holders : TRUE)>>]
        /\ UNCHANGED <<callerVars, mapVars, poolVars, up, outbox, toServer,
                       closeVars, faultVars>>

(* NettyClientChannelInboundHandler.channelRead0 looks the queue up; without *)
(* an entry it throws and the response is dropped.                          *)
ClientRead(h) ==
    LET response == Head(toClient[h])
        entry    == responseMap[response.id]
    IN  /\ LoopFree(h)
        /\ toClient[h] # <<>>
        /\ toClient' = [toClient EXCEPT ![h] = Tail(@)]
        /\ delivering' = IF entry = NoCall THEN delivering
                         ELSE [delivering EXCEPT ![h] = <<response, entry>>]
        /\ UNCHANGED <<callerVars, mapVars, poolVars, up, outbox, toServer,
                       closeVars, faultVars>>

(* put blocks the event loop while the queue of one element is full.        *)
Deliver(h) ==
    /\ delivering[h] # Nothing
    /\ slot[delivering[h][2]] = NoCall
    /\ slot' = [slot EXCEPT ![delivering[h][2]] = delivering[h][1]]
    /\ delivering' = [delivering EXCEPT ![h] = Nothing]
    /\ UNCHANGED <<callerVars, responseMap, poolVars, up, outbox, toServer, toClient,
                   closeVars, faultVars>>

LoopStep(h) == Flush(h) \/ ClientRead(h) \/ Deliver(h)
ServerStep(h) == \E exception \in BOOLEAN : ServerRead(h, exception)

(* A broken connection loses what is on the way; nobody is told.            *)
Disconnect(h) ==
    /\ up' = [up EXCEPT ![h] = FALSE]
    /\ outbox' = [outbox EXCEPT ![h] = <<>>]
    /\ toServer' = [toServer EXCEPT ![h] = <<>>]
    /\ toClient' = [toClient EXCEPT ![h] = <<>>]
    /\ UNCHANGED <<callerVars, mapVars, poolVars, delivering, closeVars>>

Drop(h) ==
    /\ up[h]
    /\ Lose
    /\ UNCHANGED interrupts
    /\ Disconnect(h)

-----------------------------------------------------------------------------
(* NettyClient.close. *)

(* shutdownGracefully: every event loop will end and close its channel.     *)
Close ==
    /\ MayClose
    /\ closer = "none"
    /\ closer' = "started"
    /\ UNCHANGED <<callerVars, mapVars, poolVars, netVars, closeTurn, closeWaits,
                   faultVars>>

Shutdown(h) ==
    /\ closer # "none"
    /\ LoopFree(h)
    /\ UNCHANGED faultVars
    /\ Disconnect(h)

CloseChecksQueue ==
    /\ closer = "started"
    /\ closer' = IF channelQueue = <<>> THEN "clearing" ELSE "taking"
    /\ UNCHANGED <<callerVars, mapVars, poolVars, netVars, closeTurn, closeWaits,
                   faultVars>>

(* Mutant: one channel too many.                                            *)
CloseTakesOneMore ==
    /\ closer = "taking"
    /\ IF closeTurn > Cardinality(Channels)
       THEN closer' = "clearing" /\ UNCHANGED <<closeTurn, closeWaits, channelQueue>>
       ELSE /\ channelQueue # <<>>
            /\ closeWaits' = Head(channelQueue)
            /\ channelQueue' = Tail(channelQueue)
            /\ closeTurn' = closeTurn + 1
            /\ closer' = "waiting"
    /\ UNCHANGED <<callerVars, mapVars, pool, netVars, faultVars>>

(* chanelSize times: take a channel, then wait for its close future.        *)
CloseTakes ==
    /\ closer = "taking"
    /\ IF closeTurn = Cardinality(Channels)
       THEN closer' = "clearing" /\ UNCHANGED <<closeTurn, closeWaits, channelQueue>>
       ELSE /\ channelQueue # <<>>
            /\ closeWaits' = Head(channelQueue)
            /\ channelQueue' = Tail(channelQueue)
            /\ closeTurn' = closeTurn + 1
            /\ closer' = "waiting"
    /\ UNCHANGED <<callerVars, mapVars, pool, netVars, faultVars>>

CloseFutureDone ==
    /\ closer = "waiting"
    /\ ~ up[closeWaits]
    /\ closer' = "taking"
    /\ closeWaits' = NoChannel
    /\ UNCHANGED <<callerVars, mapVars, poolVars, netVars, closeTurn, faultVars>>

CloseClears ==
    /\ closer = "clearing"
    /\ closer' = "nulling"
    /\ channelQueue' = <<>>
    /\ UNCHANGED <<callerVars, mapVars, pool, netVars, closeTurn, closeWaits, faultVars>>

CloseSetsNull ==
    /\ closer = "nulling"
    /\ closer' = "done"
    /\ pool' = "closed"
    /\ UNCHANGED <<callerVars, mapVars, channelQueue, netVars, closeTurn, closeWaits,
                   faultVars>>

CloseStep == \/ CloseChecksQueue \/ CloseTakes \/ CloseFutureDone
             \/ CloseClears \/ CloseSetsNull

-----------------------------------------------------------------------------
Next == \/ \E c \in Callers : \/ \E i \in Ids : Send(c, i)
                              \/ CallerStep(c)
                              \/ TakeChannelInterrupted(c) \/ TakeInterrupted(c)
        \/ \E h \in Channels : \/ LoopStep(h) \/ ServerStep(h)
                               \/ ServerCannotEncode(h)
                               \/ Drop(h) \/ Shutdown(h)
        \/ Close \/ CloseStep

Spec == Init /\ [][Next]_vars

(* Threads run, process returns, an event loop that was asked to end ends.  *)
(* The lock of channelQueue is fair: a caller that finds a channel in it    *)
(* again and again gets one.                                               *)
Fairness == /\ \A c \in Callers : /\ WF_vars(CallerStep(c))
                                  /\ SF_vars(TakeChannel(c))
            /\ \A h \in Channels : /\ WF_vars(LoopStep(h))
                                   /\ WF_vars(ServerStep(h))
                                   /\ WF_vars(Shutdown(h))
            /\ WF_vars(CloseStep)

FairSpec == Spec /\ Fairness

-----------------------------------------------------------------------------
(* Properties. *)

Sending == Labels \ {"idle"}
WithChannel == {"write", "lookup", "take", "remove", "giveBack"}

(* Until somebody closes the client, every channel is either idle in the    *)
(* pool, once, or in the hands of exactly one call of send: none is lost or *)
(* shared, whatever call is interrupted, fails or waits, and whatever ids   *)
(* the calls use.                                                          *)
ChannelsConserved ==
    closer = "none" =>
        \A h \in Channels :
            LET idle == {i \in DOMAIN channelQueue : channelQueue[i] = h}
                held == {c \in Callers : channel[c] = h /\ pc[c] \in WithChannel}
            IN  Cardinality(idle) + Cardinality(held) = 1

(* What send returns is the answer to its own request, also when an earlier *)
(* call on the same channel was interrupted and its answer comes late.  A   *)
(* call with an id that other calls use too gets an answer with that id.    *)
AnswerIsForRequest ==
    \A c \in Callers :
        answer[c] # NoCall => /\ answer[c].id = msgId[c]
                              /\ msgId[c] \notin SharedIds => answer[c].call = Call(c)

InTransit(h) ==
    Len(outbox[h]) + Len(toServer[h]) + Len(toClient[h])
        + (IF delivering[h] = Nothing THEN 0 ELSE 1)

CallsOn(h) ==
    {outbox[h][i].call : i \in DOMAIN outbox[h]}
        \cup {toServer[h][i].call : i \in DOMAIN toServer[h]}
        \cup {toClient[h][i].call : i \in DOMAIN toClient[h]}
        \cup (IF delivering[h] = Nothing THEN {} ELSE {delivering[h][1].call})

UniqueIds == SharedIds = {}

(* A channel carries at most one request or response, and it belongs to the *)
(* call that holds the channel and still waits for it: the event loop never *)
(* blocks in put, and an idle channel is silent.  Not so after an interrupt *)
(* and with ids used twice.                                                *)
ChannelIsExclusive ==
    interrupts = 0 /\ UniqueIds =>
        \A h \in Channels :
            /\ InTransit(h) <= 1
            /\ \A k \in CallsOn(h) : /\ channel[k[1]] = h
                                     /\ Call(k[1]) = k
                                     /\ pc[k[1]] \in {"lookup", "take"}

(* responseMap has an entry only while a call of send with that id is under *)
(* way: the finally block leaves nothing behind, except when the call is    *)
(* interrupted or finds the client closed before it has a channel.          *)
EntriesAreInUse ==
    interrupts = 0 /\ closer = "none" =>
        \A i \in Ids : responseMap[i] # NoCall =>
            \E c \in Callers : msgId[c] = i /\ pc[c] \in Sending

(* Neither a channel nor an entry is lost with a call: what send took it    *)
(* gives back, on every way out.                                           *)
NothingIsLeftBehind == ChannelsConserved /\ EntriesAreInUse

(* Every call of send returns, with an answer or an exception, unless a     *)
(* message is lost, the client is closed or an id is used twice.            *)
EverySendReturns ==
    \A c \in Callers :
        pc[c] \in Sending ~> \/ pc[c] = "idle"
                              \/ lost > 0 \/ closer # "none" \/ ~ UniqueIds

(* When close has gone round its loop every connection of the client is     *)
(* down: it counted each channel once, although calls of send that were     *)
(* under way kept giving channels back while it took them.                  *)
CloseWaitsForEveryChannel ==
    closer \in {"clearing", "nulling", "done"} /\ closeTurn = Cardinality(Channels)
        => \A h \in Channels : ~ up[h]

(* close ends when no call is under way and none follows.                   *)
QuietCloseTerminates ==
    (closer = "started" /\ \A c \in Callers : pc[c] = "idle" /\ number[c] = MaxSends)
        ~> closer = "done"

(* close ends.                                                             *)
CloseTerminates == closer = "started" ~> closer = "done"
=============================================================================

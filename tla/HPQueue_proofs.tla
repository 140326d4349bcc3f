--------------------------- MODULE HPQueue_proofs ---------------------------
(***************************************************************************)
(* Proofs about HPQueue, for any number of producers, beans, tasks, topics  *)
(* and messages.  TypeOK needs no assumption; the rest assumes what an      *)
(* application has to arrange: every consumer bean is up before the first   *)
(* send, and every topic has a bean (EveryTopicHasBean).                   *)
(***************************************************************************)
EXTENDS HPQueue, SequenceTheorems, TLAPS

EveryTopicHasBean == \A t \in Topics : \E b \in Beans : TopicOf[b] = t

BeansUp == \A b \in Beans : pc[b] = "started"
Busy(b) == pc[b] \in {"get", "register", "put"}

(* A producer that sends has a message, and a task that runs has a queue.    *)
Ready ==
    /\ \A p \in Producers : pc[p] # "idle" => sent[p] >= 1 /\ pc[p] # "started"
    /\ \A c \in Consumers : worker[c] \in {"take", "execute"} => pc[c[1]] = "started"

(* The beans start one at a time, and producers have no part in it.         *)
Startup ==
    /\ \A b \in Beans : topic[b] = TopicOf[b]
    /\ \A b, d \in Beans : Busy(b) /\ Busy(d) => b = d
    /\ \A p \in Producers : /\ pc[p] # "idle" \/ queue[p] # NoQueue => BeansUp
                            /\ pc[p] \in {"idle", "get", "put"}

(* A bean that is about to register a queue still finds none.               *)
Registered ==
    /\ FactoryHoldsAllQueues
    /\ \A b \in Beans : pc[b] = "register" => queueMap[topic[b]] = NoQueue
    /\ \A t \in Topics, h \in Threads : content[t][h] # <<>> => queueMap[t] = h

Working == \A c \in Consumers : hand[c] # NoMessage <=> worker[c] = "execute"

(* What has gone through a topic: the messages taken and those that wait.    *)
Line(t) == taken[t] \o Buffer[t]

Accepted(m) == m[2] <= sent[m[1]] /\ (pc[m[1]] # "idle" => m[2] < sent[m[1]])

InLine ==
    \A t \in Topics : /\ Ascending(Line(t))
                      /\ \A i \in DOMAIN Line(t) : Accepted(Line(t)[i])

Base == TypeOK /\ Ready
QueueInv == Startup /\ Registered /\ Working /\ InLine
-----------------------------------------------------------------------------
(* Types.                                                                  *)

LEMMA InitTypes == Init => Base
<1> SUFFICES ASSUME Init PROVE Base
  OBVIOUS
<1>1. content \in [Topics -> [Threads -> Seq(Messages)]] /\ taken \in [Topics -> Seq(Messages)]
  BY EmptySeq DEF Init
<1>2. \A h \in Threads : pc[h] = "idle"
  BY DEF Init
<1>3. TypeOK
  BY <1>1, <1>2, BoundsAssumption DEF Init, TypeOK
<1>4. Ready
  BY <1>2 DEF Init, Ready, Threads
<1> QED
  BY <1>3, <1>4 DEF Base

LEMMA SentIsMessage ==
    ASSUME TypeOK, NEW p \in Producers, sent[p] >= 1
    PROVE  <<p, sent[p]>> \in Messages
<1>1. sent[p] \in 1 .. MaxSends
  BY BoundsAssumption DEF TypeOK
<1> QED
  BY <1>1 DEF Messages

LEMMA ThreadStepKeepsTypes ==
    ASSUME TypeOK, NEW h \in Threads, ThreadStep(h)
    PROVE  TypeOK'
<1>1. CASE GetQueue(h)
  <2>1. queueMap[topic[h]] \in Threads \cup {NoQueue}
    BY DEF TypeOK
  <2> QED
    BY <1>1, <2>1 DEF GetQueue, Goto, TypeOK
<1>2. CASE RegisterQueue(h)
  <2>1. h # NoQueue
    BY IdentityAssumption
  <2> QED
    BY <1>2, <2>1 DEF RegisterQueue, Goto, TypeOK
<1> QED
  BY <1>1, <1>2 DEF ThreadStep

LEMMA NextTypes == Base /\ [Next]_vars => Base'
<1> SUFFICES ASSUME TypeOK, Ready, [Next]_vars
             PROVE  TypeOK' /\ Ready'
  BY DEF Base
<1>0. /\ \A p \in Producers : p \in Threads /\ p \notin Beans /\ sent[p] \in Nat
      /\ \A c \in Consumers : c[1] \in Beans /\ c[1] \in Threads
  BY BoundsAssumption, IdentityAssumption DEF Threads, TypeOK, Consumers
<1>1. CASE UNCHANGED vars
  BY <1>1 DEF vars, TypeOK, Ready
<1>2. ASSUME NEW h \in Threads, ThreadStep(h) PROVE TypeOK' /\ Ready'
  <2>1. Ready'
    BY <1>0, <1>2 DEF ThreadStep, GetQueue, RegisterQueue, Goto, Ready, TypeOK
  <2> QED
    BY <1>2, <2>1, ThreadStepKeepsTypes
<1>3. ASSUME NEW p \in Producers, NEW t \in Topics, Send(p, t)
      PROVE  TypeOK' /\ Ready'
  <2>1. sent[p] + 1 \in 0 .. MaxSends
    BY <1>3, BoundsAssumption DEF Send, TypeOK
  <2> QED
    BY <1>0, <1>3, <2>1 DEF Send, Goto, TypeOK, Ready
<1>4. ASSUME NEW p \in Producers, Put(p) PROVE TypeOK' /\ Ready'
  <2>1. topic[p] \in Topics /\ queue[p] \in Threads
    BY <1>0, <1>4 DEF Put, TypeOK
  <2>2. <<p, sent[p]>> \in Messages
    BY <1>4, SentIsMessage DEF Put, Ready
  <2>3. Append(content[topic[p]][queue[p]], <<p, sent[p]>>) \in Seq(Messages)
    BY <2>1, <2>2, AppendProperties DEF TypeOK
  <2>4. content' \in [Topics -> [Threads -> Seq(Messages)]]
    BY <1>4, <2>1, <2>3 DEF Put, TypeOK
  <2> QED
    BY <1>0, <1>4, <2>4 DEF Put, Goto, TypeOK, Ready
<1>5. ASSUME NEW p \in Producers, PutInterrupted(p) PROVE TypeOK' /\ Ready'
  <2>1. interrupts' \in 0 .. MaxInterrupts
    BY <1>5, BoundsAssumption DEF PutInterrupted, TypeOK
  <2> QED
    BY <1>0, <1>5, <2>1 DEF PutInterrupted, Goto, TypeOK, Ready
<1>6. ASSUME NEW b \in Beans, StartInit(b) \/ StartWorkers(b)
      PROVE  TypeOK' /\ Ready'
  <2>1. CASE StartInit(b)
    BY <1>0, <2>1 DEF StartInit, Goto, TypeOK, Ready, Threads
  <2>2. CASE StartWorkers(b)
    <3>1. pc' = [pc EXCEPT ![b] = "started"] /\ pc[b] = "put" /\ b \in Threads /\ b \notin Producers
      BY <1>0, <2>2, IdentityAssumption DEF StartWorkers, Goto, Threads
    <3>2. worker' \in [Consumers -> {"new", "take", "execute", "dead"}]
      BY <2>2 DEF StartWorkers, TypeOK
    <3>3. TypeOK'
      BY <2>2, <3>1, <3>2 DEF StartWorkers, TypeOK
    <3>4. \A c \in Consumers : worker'[c] \in {"take", "execute"} => c[1] = b \/ pc[c[1]] = "started"
      BY <2>2 DEF StartWorkers, Ready
    <3>5. Ready'
      BY <1>0, <2>2, <3>1, <3>4 DEF StartWorkers, Ready, TypeOK
    <3> QED
      BY <3>3, <3>5
  <2> QED
    BY <1>6, <2>1, <2>2
<1>7. ASSUME NEW c \in Consumers, Take(c) PROVE TypeOK' /\ Ready'
  <2> DEFINE t == TopicOf[c[1]]
             q == content[t][queue[c[1]]]
  <2>1. t \in Topics /\ c[1] \in Threads
    BY TopicAssumption DEF Consumers, Threads
  <2>2. q # <<>> /\ worker[c] = "take"
    BY <1>7 DEF Take
  <2>3. queue[c[1]] \in Threads
    BY <2>1, <2>2 DEF TypeOK, Ready
  <2>4. q \in Seq(Messages)
    BY <2>1, <2>3 DEF TypeOK
  <2>5. Head(q) \in Messages /\ Tail(q) \in Seq(Messages)
    BY <2>2, <2>4, HeadTailProperties
  <2>6. Append(taken[t], Head(q)) \in Seq(Messages)
    BY <2>1, <2>5, AppendProperties DEF TypeOK
  <2>7. content' \in [Topics -> [Threads -> Seq(Messages)]] /\ taken' \in [Topics -> Seq(Messages)]
    BY <1>7, <2>1, <2>3, <2>5, <2>6 DEF Take, TypeOK
  <2> QED
    BY <1>7, <2>5, <2>7 DEF Take, TypeOK, Ready
<1>8. ASSUME NEW c \in Consumers, Execute(c) \/ ExecuteThrows(c)
      PROVE  TypeOK' /\ Ready'
  <2>1. errors' \in 0 .. MaxErrors
    BY <1>8, BoundsAssumption DEF Execute, ExecuteThrows, TypeOK
  <2> QED
    BY <1>8, <2>1 DEF Execute, ExecuteThrows, TypeOK, Ready
<1> QED
  BY <1>1, <1>2, <1>3, <1>4, <1>5, <1>6, <1>7, <1>8 DEF Next
-----------------------------------------------------------------------------
(* The start of the beans, and the queues on record.                       *)

LEMMA InitQueues == Init => QueueInv
<1> SUFFICES ASSUME Init PROVE QueueInv
  OBVIOUS
<1>1. Startup /\ Registered /\ Working
  BY DEF Init, Startup, Registered, Working, Busy, FactoryHoldsAllQueues, Threads, Consumers
<1>2. InLine
  <2>1. \A t \in Topics : Line(t) = <<>> \o <<>>
    BY DEF Init, Line, Buffer
  <2>2. <<>> \o <<>> = <<>> /\ DOMAIN <<>> = {}
    BY ConcatEmptySeq, EmptySeq, LenProperties
  <2> QED
    BY <2>1, <2>2 DEF InLine, Ascending
<1> QED
  BY <1>1, <1>2 DEF QueueInv

(* Once the beans are up every topic has its queue.                         *)
LEMMA AllRegistered ==
    ASSUME Base, Startup, Registered, EveryTopicHasBean, BeansUp
    PROVE  \A t \in Topics : queueMap[t] # NoQueue
<1> SUFFICES ASSUME NEW t \in Topics PROVE queueMap[t] # NoQueue
  OBVIOUS
<1>1. PICK b \in Beans : TopicOf[b] = t
  BY DEF EveryTopicHasBean
<1>2. queue[b] # NoQueue /\ b \in Threads
  BY <1>1 DEF BeansUp, Base, TypeOK, Threads
<1> QED
  BY <1>1, <1>2 DEF Startup, Registered, FactoryHoldsAllQueues

LEMMA NextStartup ==
    ASSUME StartupFirst, EveryTopicHasBean, Base, Startup, Registered, [Next]_vars
    PROVE  Startup'
<1>0. /\ \A b \in Beans : b \in Threads /\ b \notin Producers
      /\ \A p \in Producers : p \in Threads /\ p \notin Beans
      /\ pc \in [Threads -> {"idle", "get", "register", "put", "started"}]
      /\ topic \in [Threads -> Topics] /\ queue \in [Threads -> Threads \cup {NoQueue}]
  BY IdentityAssumption DEF Threads, Base, TypeOK
<1> USE DEF Startup, BeansUp, Busy, Goto
<1>1. CASE UNCHANGED vars
  BY <1>1 DEF vars
<1>2. ASSUME NEW h \in Threads, GetQueue(h) PROVE Startup'
  <2>1. CASE h \in Beans
    BY <1>0, <1>2, <2>1 DEF GetQueue
  <2>2. CASE h \in Producers
    <3>1. BeansUp /\ queueMap[topic[h]] # NoQueue
      BY <1>0, <1>2, <2>2, AllRegistered DEF GetQueue
    <3> QED
      BY <1>0, <1>2, <2>2, <3>1 DEF GetQueue
  <2> QED
    BY <2>1, <2>2 DEF Threads
<1>3. ASSUME NEW h \in Threads, RegisterQueue(h) PROVE Startup'
  <2>1. h \in Beans
    BY <1>3 DEF RegisterQueue, Threads
  <2> QED
    BY <1>0, <1>3, <2>1 DEF RegisterQueue
<1>4. ASSUME NEW p \in Producers, NEW t \in Topics, Send(p, t) PROVE Startup'
  BY <1>0, <1>4 DEF Send
<1>5. ASSUME NEW p \in Producers, Put(p) \/ PutInterrupted(p) PROVE Startup'
  BY <1>0, <1>5 DEF Put, PutInterrupted
<1>6. ASSUME NEW b \in Beans, StartInit(b) \/ StartWorkers(b) PROVE Startup'
  BY <1>0, <1>6 DEF StartInit, StartWorkers
<1>7. ASSUME NEW c \in Consumers, Take(c) \/ Execute(c) \/ ExecuteThrows(c) PROVE Startup'
  BY <1>7 DEF Take, Execute, ExecuteThrows
<1> QED
  BY <1>1, <1>2, <1>3, <1>4, <1>5, <1>6, <1>7 DEF Next, ThreadStep

LEMMA NextRegistered ==
    ASSUME StartupFirst, EveryTopicHasBean, Base, Startup, Registered, [Next]_vars
    PROVE  Registered'
<1>0. /\ \A b \in Beans : b \in Threads /\ b \notin Producers
      /\ \A p \in Producers : p \in Threads /\ p \notin Beans
      /\ \A c \in Consumers : c[1] \in Beans
      /\ pc \in [Threads -> {"idle", "get", "register", "put", "started"}]
      /\ topic \in [Threads -> Topics] /\ queue \in [Threads -> Threads \cup {NoQueue}]
      /\ queueMap \in [Topics -> Threads \cup {NoQueue}] /\ NoQueue \notin Threads
      /\ content \in [Topics -> [Threads -> Seq(Messages)]]
  BY IdentityAssumption DEF Threads, Consumers, Base, TypeOK
<1> USE DEF Registered, FactoryHoldsAllQueues, Goto
<1>1. CASE UNCHANGED vars
  BY <1>1 DEF vars
<1>2. ASSUME NEW h \in Threads, GetQueue(h) PROVE Registered'
  BY <1>0, <1>2 DEF GetQueue
<1>3. ASSUME NEW h \in Threads, RegisterQueue(h) PROVE Registered'
  <2>1. h \in Beans /\ queueMap[topic[h]] = NoQueue
    BY <1>3 DEF RegisterQueue, Threads, Startup
  <2>2. /\ \A t \in Topics, g \in Threads : content[t][g] # <<>> => t # topic[h]
        /\ \A g \in Threads : queue[g] # NoQueue => topic[g] # topic[h]
    BY <1>0, <2>1
  <2>3. \A b \in Beans : b # h => pc[b] # "register"
    BY <1>3, <2>1 DEF RegisterQueue, Startup, Busy
  <2>4. /\ queueMap' = [queueMap EXCEPT ![topic[h]] = h] /\ queue' = [queue EXCEPT ![h] = h]
        /\ pc' = [pc EXCEPT ![h] = "put"] /\ UNCHANGED <<content, topic>>
    BY <1>3 DEF RegisterQueue
  <2>5. FactoryHoldsAllQueues'
    BY <1>0, <2>2, <2>4
  <2>6. \A b \in Beans : pc'[b] # "register"
    BY <1>0, <2>1, <2>3, <2>4
  <2>7. \A t \in Topics, g \in Threads : content'[t][g] # <<>> => queueMap'[t] = g
    BY <1>0, <2>2, <2>4
  <2> QED
    BY <2>5, <2>6, <2>7
<1>4. ASSUME NEW p \in Producers, NEW t \in Topics, Send(p, t) PROVE Registered'
  BY <1>0, <1>4 DEF Send
<1>5. ASSUME NEW p \in Producers, Put(p) PROVE Registered'
  <2>1. queue[p] \in Threads /\ queue[p] = queueMap[topic[p]] /\ topic[p] \in Topics
    BY <1>0, <1>5 DEF Put, Base, TypeOK
  <2>2. \A t \in Topics, g \in Threads :
            content'[t][g] = content[t][g] \/ (t = topic[p] /\ g = queue[p])
    BY <1>0, <1>5, <2>1 DEF Put
  <2> QED
    BY <1>0, <1>5, <2>1, <2>2 DEF Put
<1>6. ASSUME NEW p \in Producers, PutInterrupted(p) PROVE Registered'
  BY <1>0, <1>6 DEF PutInterrupted
<1>7. ASSUME NEW b \in Beans, StartInit(b) \/ StartWorkers(b) PROVE Registered'
  BY <1>0, <1>7 DEF StartInit, StartWorkers
<1>8. ASSUME NEW c \in Consumers, Take(c) PROVE Registered'
  <2>1. TopicOf[c[1]] \in Topics
    BY <1>0, TopicAssumption
  <2>2. \A t \in Topics, g \in Threads :
            content'[t][g] = content[t][g] \/ content[t][g] # <<>>
    BY <1>0, <1>8, <2>1 DEF Take
  <2> QED
    BY <1>0, <1>8, <2>2 DEF Take
<1>9. ASSUME NEW c \in Consumers, Execute(c) \/ ExecuteThrows(c) PROVE Registered'
  BY <1>9 DEF Execute, ExecuteThrows
<1> QED
  BY <1>1, <1>2, <1>3, <1>4, <1>5, <1>6, <1>7, <1>8, <1>9 DEF Next, ThreadStep

LEMMA NextWorking == Base /\ Working /\ [Next]_vars => Working'
<1> SUFFICES ASSUME Base, Working, [Next]_vars PROVE Working'
  OBVIOUS
<1>0. /\ worker \in [Consumers -> {"new", "take", "execute", "dead"}]
      /\ hand \in [Consumers -> Messages \cup {NoMessage}]
      /\ NoMessage \notin Messages
  BY IdentityAssumption DEF Base, TypeOK
<1>1. CASE UNCHANGED vars
  BY <1>1 DEF vars, Working
<1>2. ASSUME NEW h \in Threads, ThreadStep(h) PROVE Working'
  BY <1>2 DEF ThreadStep, GetQueue, RegisterQueue, Working
<1>3. ASSUME NEW p \in Producers, Put(p) \/ PutInterrupted(p) \/ \E t \in Topics : Send(p, t)
      PROVE  Working'
  BY <1>3 DEF Put, PutInterrupted, Send, Working
<1>4. ASSUME NEW b \in Beans, StartInit(b) PROVE Working'
  BY <1>4 DEF StartInit, Working
<1>5. ASSUME NEW b \in Beans, StartWorkers(b) PROVE Working'
  <2>1. \A c \in Consumers : c[1] = b => worker[c] # "execute"
    BY <1>5 DEF StartWorkers, Base, Ready
  <2>2. \A c \in Consumers : worker'[c] = "execute" <=> worker[c] = "execute"
    BY <1>5, <2>1 DEF StartWorkers
  <2> QED
    BY <1>5, <2>2 DEF StartWorkers, Working
<1>6. ASSUME NEW c \in Consumers, Take(c) PROVE Working'
  <2>1. /\ hand' = [hand EXCEPT ![c] = Head(content[TopicOf[c[1]]][queue[c[1]]])]
        /\ worker' = [worker EXCEPT ![c] = "execute"]
    BY <1>6 DEF Take
  <2>2. hand'[c] # NoMessage
    <3>1. c[1] \in Threads /\ TopicOf[c[1]] \in Topics /\ c[1] \in Beans
      BY TopicAssumption DEF Consumers, Threads
    <3>2. queue[c[1]] \in Threads
      BY <1>6, <3>1 DEF Take, Base, TypeOK, Ready
    <3>3. Head(content[TopicOf[c[1]]][queue[c[1]]]) \in Messages
      BY <1>6, <3>1, <3>2, HeadTailProperties DEF Take, Base, TypeOK
    <3> QED
      BY <1>0, <2>1, <3>3
  <2> QED
    BY <1>0, <2>1, <2>2 DEF Working
<1>7. ASSUME NEW c \in Consumers, Execute(c) \/ ExecuteThrows(c) PROVE Working'
  BY <1>0, <1>7 DEF Execute, ExecuteThrows, Working
<1> QED
  BY <1>1, <1>2, <1>3, <1>4, <1>5, <1>6, <1>7 DEF Next
-----------------------------------------------------------------------------
(* One FIFO buffer per topic behind the queues, and the order in it.        *)

LEMMA BufferType ==
    ASSUME Base
    PROVE  \A t \in Topics : Buffer[t] \in Seq(Messages) /\ taken[t] \in Seq(Messages)
BY EmptySeq DEF Base, TypeOK, Buffer

(* A step that leaves the maps and the contents alone leaves the buffer.     *)
LEMMA SameBuffer ==
    ASSUME UNCHANGED <<queueMap, content>> PROVE Buffer' = Buffer
BY DEF Buffer

(* What a step does to the buffers.                                        *)
LEMMA RegisterKeepsBuffer ==
    ASSUME Base, Startup, Registered, NEW h \in Threads, RegisterQueue(h)
    PROVE  Buffer' = Buffer
<1>1. h \in Beans /\ queueMap[topic[h]] = NoQueue /\ topic[h] \in Topics
  BY DEF RegisterQueue, Threads, Startup, Registered, Base, TypeOK
<1>2. content[topic[h]][h] = <<>> /\ h # NoQueue
  BY <1>1, IdentityAssumption DEF Registered
<1>3. queueMap' = [queueMap EXCEPT ![topic[h]] = h] /\ content' = content
  BY DEF RegisterQueue
<1>4. queueMap \in [Topics -> Threads \cup {NoQueue}]
  BY DEF Base, TypeOK
<1>5. ASSUME NEW t \in Topics
      PROVE  (IF queueMap'[t] = NoQueue THEN <<>> ELSE content[t][queueMap'[t]])
               = (IF queueMap[t] = NoQueue THEN <<>> ELSE content[t][queueMap[t]])
  <2>1. CASE t = topic[h]
    BY <1>1, <1>2, <1>3, <1>4, <2>1
  <2>2. CASE t # topic[h]
    BY <1>3, <1>4, <2>2
  <2> QED
    BY <2>1, <2>2
<1> QED
  BY <1>3, <1>5 DEF Buffer

LEMMA PutAppends ==
    ASSUME Base, Startup, Registered, NEW p \in Producers, Put(p)
    PROVE  /\ topic[p] \in Topics /\ <<p, sent[p]>> \in Messages
           /\ Len(Buffer[topic[p]]) < QueueMaxSize
           /\ Buffer' = [Buffer EXCEPT ![topic[p]] = Append(Buffer[topic[p]], <<p, sent[p]>>)]
<1>1. /\ p \in Threads /\ pc[p] = "put" /\ topic[p] \in Topics /\ queue[p] \in Threads
      /\ queue[p] = queueMap[topic[p]] /\ NoQueue \notin Threads
  BY IdentityAssumption DEF Put, Threads, Base, TypeOK, Registered, FactoryHoldsAllQueues
<1>2. <<p, sent[p]>> \in Messages
  BY <1>1, SentIsMessage DEF Base, Ready
<1>3. Buffer[topic[p]] = content[topic[p]][queue[p]]
  BY <1>1 DEF Buffer
<1>4. /\ content' = [content EXCEPT ![topic[p]][queue[p]] = Append(@, <<p, sent[p]>>)]
      /\ queueMap' = queueMap /\ Len(content[topic[p]][queue[p]]) < QueueMaxSize
  BY DEF Put
<1>5. /\ content'[topic[p]][queue[p]] = Append(content[topic[p]][queue[p]], <<p, sent[p]>>)
      /\ \A t \in Topics : t # topic[p] => content'[t] = content[t]
  BY <1>1, <1>4 DEF Base, TypeOK
<1>6. /\ Buffer'[topic[p]] = Append(Buffer[topic[p]], <<p, sent[p]>>)
      /\ \A t \in Topics : t # topic[p] => Buffer'[t] = Buffer[t]
  <2>1. \A t \in Topics : t # topic[p] => Buffer'[t] = Buffer[t]
    BY <1>4, <1>5 DEF Buffer
  <2>2. Buffer'[topic[p]] = content'[topic[p]][queueMap[topic[p]]]
    BY <1>1, <1>4 DEF Buffer
  <2> QED
    BY <1>1, <1>3, <1>5, <2>1, <2>2
<1>7. Buffer' = [t \in Topics |-> Buffer'[t]] /\ DOMAIN Buffer = Topics
  BY DEF Buffer
<1> QED
  BY <1>1, <1>2, <1>3, <1>4, <1>6, <1>7

LEMMA TakeRemovesHead ==
    ASSUME Base, Startup, Registered, NEW c \in Consumers, Take(c), NEW t, t = TopicOf[c[1]]
    PROVE  /\ t \in Topics /\ Buffer[t] # <<>>
           /\ hand' = [hand EXCEPT ![c] = Head(Buffer[t])]
           /\ taken' = [taken EXCEPT ![t] = Append(taken[t], Head(Buffer[t]))]
           /\ Buffer' = [Buffer EXCEPT ![t] = Tail(Buffer[t])]
<1> DEFINE b == c[1]
<1>1. b \in Beans /\ b \in Threads /\ t \in Topics /\ pc[b] = "started"
  BY TopicAssumption DEF Take, Consumers, Threads, Base, Ready
<1>2. queue[b] \in Threads /\ queue[b] = queueMap[t] /\ NoQueue \notin Threads
  BY <1>1, IdentityAssumption DEF Base, TypeOK, Startup, Registered, FactoryHoldsAllQueues
<1>3. Buffer[t] = content[t][queue[b]]
  BY <1>1, <1>2 DEF Buffer
<1>4. /\ Buffer[t] # <<>> /\ hand' = [hand EXCEPT ![c] = Head(Buffer[t])]
      /\ taken' = [taken EXCEPT ![t] = Append(taken[t], Head(Buffer[t]))]
      /\ content' = [content EXCEPT ![t][queue[b]] = Tail(Buffer[t])]
      /\ queueMap' = queueMap
  BY <1>3 DEF Take
<1>5. /\ content'[t][queue[b]] = Tail(Buffer[t])
      /\ \A u \in Topics : u # t => content'[u] = content[u]
  BY <1>1, <1>2, <1>4 DEF Base, TypeOK
<1>6. /\ Buffer'[t] = Tail(Buffer[t])
      /\ \A u \in Topics : u # t => Buffer'[u] = Buffer[u]
  <2>1. Buffer'[t] = content'[t][queue[b]]
    BY <1>1, <1>2, <1>4 DEF Buffer
  <2>2. \A u \in Topics : u # t => Buffer'[u] = Buffer[u]
    BY <1>4, <1>5 DEF Buffer
  <2> QED
    BY <1>5, <2>1, <2>2
<1>7. Buffer' = [u \in Topics |-> Buffer'[u]] /\ DOMAIN Buffer = Topics
  BY DEF Buffer
<1> QED
  BY <1>1, <1>4, <1>6, <1>7

(* Taking the head of a buffer leaves the line as it is, an accepted message *)
(* goes to its end.                                                        *)
LEMMA TakeInLine ==
    ASSUME NEW S, NEW s \in Seq(S), NEW q \in Seq(S), q # <<>>
    PROVE  Append(s, Head(q)) \o Tail(q) = s \o q
<1>1. Head(q) \in S /\ Tail(q) \in Seq(S) /\ Len(q) \in Nat \ {0} /\ Head(q) = q[1]
  BY HeadTailProperties, EmptySeq
<1>2. q = <<Head(q)>> \o Tail(q)
  <2>1. <<Head(q)>> \in Seq(S) /\ Len(<<Head(q)>>) = 1 /\ <<Head(q)>>[1] = Head(q)
    BY <1>1
  <2>2. /\ <<Head(q)>> \o Tail(q) \in Seq(S) /\ Len(<<Head(q)>> \o Tail(q)) = Len(q)
        /\ \A i \in 1 .. Len(q) : (<<Head(q)>> \o Tail(q))[i] = q[i]
    BY <1>1, <2>1, HeadTailProperties, ConcatProperties
  <2> QED
    BY <2>2, SeqEqual
<1>3. Append(s, Head(q)) = s \o <<Head(q)>> /\ <<Head(q)>> \in Seq(S)
  BY <1>1, AppendIsConcat
<1> QED
  BY <1>1, <1>2, <1>3, ConcatAssociative

LEMMA AppendInLine ==
    ASSUME NEW S, NEW s \in Seq(S), NEW q \in Seq(S), NEW m \in S
    PROVE  s \o Append(q, m) = Append(s \o q, m)
<1>1. <<m>> \in Seq(S) /\ Append(q, m) = q \o <<m>>
  BY AppendIsConcat
<1>2. s \o q \in Seq(S) /\ Append(s \o q, m) = (s \o q) \o <<m>>
  BY ConcatProperties, AppendIsConcat
<1> QED
  BY <1>1, <1>2, ConcatAssociative

LEMMA NextInLine ==
    ASSUME Base, Startup, Registered, InLine, [Next]_vars
    PROVE  InLine'
<1>0. \A t \in Topics : /\ Buffer[t] \in Seq(Messages) /\ taken[t] \in Seq(Messages)
                        /\ Line(t) \in Seq(Messages)
  BY BufferType, ConcatProperties DEF Line
(* Most steps change no line, and no number of a message that was sent.     *)
<1>1. ASSUME \A t \in Topics : Line(t)' = Line(t),
             \A p \in Producers, n \in Nat :
                 /\ n <= sent[p] /\ (pc[p] # "idle" => n < sent[p])
                 => n <= sent'[p] /\ (pc'[p] # "idle" => n < sent'[p])
      PROVE  InLine'
  <2>1. \A m \in Messages : Accepted(m) => Accepted(m)'
    BY <1>1 DEF Accepted, Messages
  <2>2. ASSUME NEW t \in Topics, NEW i \in DOMAIN Line(t)' PROVE Accepted(Line(t)[i])'
    <3>1. Line(t)[i] \in Messages /\ Accepted(Line(t)[i]) /\ Line(t)'[i] = Line(t)[i]
      BY <1>0, <1>1, <2>2, LenProperties, ElementOfSeq DEF InLine
    <3> QED
      BY <2>1, <3>1 DEF Accepted
  <2> QED
    BY <1>1, <2>2 DEF InLine, Ascending
<1>2. ASSUME UNCHANGED <<taken, sent>>, Buffer' = Buffer,
             \A p \in Producers : pc'[p] # "idle" => pc[p] # "idle"
      PROVE  InLine'
  BY <1>1, <1>2 DEF Line
<1>3. \A p \in Producers : sent[p] \in Nat /\ p \in Threads /\ p \notin Beans
  BY BoundsAssumption, IdentityAssumption DEF Base, TypeOK, Threads
<1>4. CASE UNCHANGED vars
  BY <1>2, <1>4, SameBuffer DEF vars
<1>5. ASSUME NEW h \in Threads, GetQueue(h) PROVE InLine'
  <2>1. \A p \in Producers : pc'[p] # "idle" => pc[p] # "idle"
    BY <1>3, <1>5 DEF GetQueue, Goto, Base, TypeOK
  <2> QED
    BY <1>2, <1>5, <2>1, SameBuffer DEF GetQueue
<1>6. ASSUME NEW h \in Threads, RegisterQueue(h) PROVE InLine'
  <2>1. \A p \in Producers : pc'[p] # "idle" => pc[p] # "idle"
    BY <1>3, <1>6 DEF RegisterQueue, Goto, Base, TypeOK
  <2> QED
    BY <1>2, <1>6, <2>1, RegisterKeepsBuffer DEF RegisterQueue
<1>7. ASSUME NEW p \in Producers, NEW t \in Topics, Send(p, t) PROVE InLine'
  <2>1. Buffer' = Buffer /\ taken' = taken
    BY <1>7, SameBuffer DEF Send
  <2>2. /\ sent' = [sent EXCEPT ![p] = sent[p] + 1] /\ pc' = [pc EXCEPT ![p] = "get"]
    BY <1>7 DEF Send, Goto
  <2>3. ASSUME NEW q \in Producers, NEW n \in Nat, n <= sent[q], pc[q] # "idle" => n < sent[q]
        PROVE  n <= sent'[q] /\ (pc'[q] # "idle" => n < sent'[q])
    BY <1>3, <2>2, <2>3 DEF Base, TypeOK
  <2>4. \A u \in Topics : Line(u)' = Line(u)
    BY <2>1 DEF Line
  <2> QED
    BY <1>1, <2>3, <2>4
<1>8. ASSUME NEW p \in Producers, Put(p) PROVE InLine'
  <2>1. PICK t \in Topics, m \in Messages : t = topic[p] /\ m = <<p, sent[p]>>
    BY <1>8, PutAppends
  <2>2. Buffer' = [Buffer EXCEPT ![t] = Append(Buffer[t], m)]
    BY <1>8, <2>1, PutAppends
  <2>3. /\ \A u \in Topics : u # t => Line(u)' = Line(u)
        /\ Line(t)' = Append(Line(t), m)
    <3>1. Buffer'[t] = Append(Buffer[t], m) /\ \A u \in Topics : u # t => Buffer'[u] = Buffer[u]
      BY <2>2 DEF Buffer
    <3>2. taken' = taken
      BY <1>8 DEF Put
    <3>3. taken[t] \o Append(Buffer[t], m) = Append(taken[t] \o Buffer[t], m)
      <4>1. PICK s \in Seq(Messages), q \in Seq(Messages) : s = taken[t] /\ q = Buffer[t]
        BY <1>0
      <4>2. s \o Append(q, m) = Append(s \o q, m)
        BY AppendInLine
      <4> QED
        BY <4>1, <4>2
    <3>4. \A u \in Topics : Line(u)' = taken[u] \o Buffer'[u]
      BY <3>2 DEF Line
    <3> QED
      BY <3>1, <3>3, <3>4 DEF Line
  <2>4. /\ pc[p] = "put" /\ pc' = [pc EXCEPT ![p] = "idle"] /\ sent' = sent
    BY <1>8 DEF Put, Goto
  <2>5. \A k \in Messages : Accepted(k) => Accepted(k)'
    BY <1>3, <2>4 DEF Accepted, Messages, Base, TypeOK
  <2>6. Accepted(m)'
    BY <1>3, <2>1, <2>4 DEF Accepted, Base, TypeOK
  <2>7. ASSUME NEW u \in Topics, u # t
        PROVE  Ascending(Line(u))' /\ \A i \in DOMAIN Line(u)' : Accepted(Line(u)[i])'
    <3>1. Line(u)' = Line(u)
      BY <2>3, <2>7
    <3>2. ASSUME NEW i \in DOMAIN Line(u) PROVE Line(u)[i] \in Messages /\ Accepted(Line(u)[i])
      BY <1>0, <3>2, LenProperties, ElementOfSeq DEF InLine
    <3>3. ASSUME NEW i \in DOMAIN Line(u)' PROVE Accepted(Line(u)[i])'
      BY <2>5, <3>1, <3>2, <3>3 DEF Accepted
    <3> QED
      BY <3>1, <3>3 DEF InLine, Ascending
  <2>8. Ascending(Line(t))' /\ \A i \in DOMAIN Line(t)' : Accepted(Line(t)[i])'
    <3>1. PICK n \in Nat : n = Len(Line(t))
      BY <1>0, LenProperties
    <3>2. /\ DOMAIN Line(t) = 1 .. n /\ DOMAIN Line(t)' = 1 .. n + 1
          /\ \A i \in 1 .. n : Line(t)'[i] = Line(t)[i]
          /\ Line(t)'[n + 1] = m
      BY <1>0, <2>3, <3>1, AppendProperties, LenProperties
    <3>3. \A i \in 1 .. n : Line(t)[i] \in Messages /\ Accepted(Line(t)[i])
      BY <1>0, <3>1, <3>2, ElementOfSeq DEF InLine
    <3>4. ASSUME NEW i \in 1 .. n + 1 PROVE Accepted(Line(t)[i])'
      <4>1. CASE i = n + 1
        BY <2>6, <3>2, <4>1 DEF Accepted
      <4>2. CASE i # n + 1
        <5>1. i \in 1 .. n
          BY <3>1, <4>2
        <5> QED
          BY <2>5, <3>2, <3>3, <5>1 DEF Accepted
      <4> QED
        BY <4>1, <4>2
    <3>5. ASSUME NEW i \in 1 .. n + 1, NEW j \in 1 .. n + 1, i < j,
                 Line(t)'[i][1] = Line(t)'[j][1]
          PROVE  Line(t)'[i][2] < Line(t)'[j][2]
      <4>1. i \in 1 .. n
        BY <3>1, <3>5
      <4>2. CASE j = n + 1
        BY <2>1, <2>4, <3>2, <3>3, <3>5, <4>1, <4>2 DEF Accepted
      <4>3. CASE j # n + 1
        <5>1. j \in 1 .. n
          BY <3>1, <4>3
        <5> QED
          BY <3>2, <3>5, <4>1, <5>1 DEF InLine, Ascending
      <4> QED
        BY <4>2, <4>3
    <3> QED
      BY <3>2, <3>4, <3>5 DEF Ascending
  <2> QED
    BY <2>7, <2>8 DEF InLine
<1>9. ASSUME NEW p \in Producers, PutInterrupted(p) PROVE InLine'
  BY <1>2, <1>9, SameBuffer DEF PutInterrupted, Goto, Base, TypeOK
<1>10. ASSUME NEW b \in Beans, StartInit(b) \/ StartWorkers(b) PROVE InLine'
  BY <1>2, <1>3, <1>10, SameBuffer DEF StartInit, StartWorkers, Goto, Base, TypeOK
<1>11. ASSUME NEW c \in Consumers, Take(c) PROVE InLine'
  <2>1. PICK t \in Topics : t = TopicOf[c[1]]
    BY <1>11, TakeRemovesHead
  <2>2. /\ Buffer[t] # <<>>
        /\ taken' = [taken EXCEPT ![t] = Append(taken[t], Head(Buffer[t]))]
        /\ Buffer' = [Buffer EXCEPT ![t] = Tail(Buffer[t])]
    BY <1>11, <2>1, TakeRemovesHead
  <2>3. /\ taken'[t] = Append(taken[t], Head(Buffer[t])) /\ Buffer'[t] = Tail(Buffer[t])
        /\ \A u \in Topics : u # t => taken'[u] = taken[u] /\ Buffer'[u] = Buffer[u]
    BY <2>2 DEF Buffer, Base, TypeOK
  <2>4. \A u \in Topics : Line(u)' = Line(u)
    <3>1. Append(taken[t], Head(Buffer[t])) \o Tail(Buffer[t]) = taken[t] \o Buffer[t]
      BY <1>0, <2>2, TakeInLine
    <3>2. \A u \in Topics : Line(u)' = taken'[u] \o Buffer'[u]
      BY DEF Line
    <3> QED
      BY <2>3, <3>1, <3>2 DEF Line
  <2> QED
    BY <1>1, <1>11, <2>4 DEF Take
<1>12. ASSUME NEW c \in Consumers, Execute(c) \/ ExecuteThrows(c) PROVE InLine'
  BY <1>2, <1>12, SameBuffer DEF Execute, ExecuteThrows
<1> QED
  BY <1>4, <1>5, <1>6, <1>7, <1>8, <1>9, <1>10, <1>11, <1>12 DEF Next, ThreadStep
-----------------------------------------------------------------------------
(* The invariant and what follows from it.                                 *)

(* The variables keep their types, whatever the order of the start, and a    *)
(* call of send that has left getQueue always has a queue in hand.          *)
THEOREM TypesAlways == Spec => []TypeOK
<1>1. Base => TypeOK
  BY DEF Base
<1> QED
  BY <1>1, InitTypes, NextTypes, PTL DEF Spec

LEMMA QueueInvariant ==
    ASSUME StartupFirst, EveryTopicHasBean
    PROVE  Spec => [](Base /\ QueueInv)
<1>1. Base /\ QueueInv /\ [Next]_vars => Base' /\ QueueInv'
  BY NextTypes, NextStartup, NextRegistered, NextWorking, NextInLine DEF QueueInv
<1>2. Init => Base /\ QueueInv
  BY InitTypes, InitQueues
<1> QED
  BY <1>1, <1>2, PTL DEF Spec

(* The factory has every queue on record that a thread obtained from it, if  *)
(* the beans are up before the first send and every topic has a bean.       *)
THEOREM FactoryHoldsAllQueuesAlways ==
    ASSUME StartupFirst, EveryTopicHasBean
    PROVE  Spec => []FactoryHoldsAllQueues
<1>1. Base /\ QueueInv => FactoryHoldsAllQueues
  BY DEF QueueInv, Registered
<1> QED
  BY <1>1, QueueInvariant, PTL

(* Then no message waits where no consumer takes.                           *)
THEOREM NoMessageIsStrandedAlways ==
    ASSUME StartupFirst, EveryTopicHasBean
    PROVE  Spec => []NoMessageIsStranded
<1>1. Base /\ QueueInv => NoMessageIsStranded
  <2> SUFFICES ASSUME Base, QueueInv, NEW t \in Topics, NEW h \in Threads, NEW b \in Beans,
                      content[t][h] # <<>>, pc[b] = "started", TopicOf[b] = t
               PROVE  queue[b] = h
    BY DEF NoMessageIsStranded
  <2>1. b \in Threads /\ queue[b] # NoQueue
    BY DEF Threads, Base, TypeOK
  <2> QED
    BY <2>1 DEF QueueInv, Startup, Registered, FactoryHoldsAllQueues
<1> QED
  BY <1>1, QueueInvariant, PTL

(* And the messages of a producer go through a topic in the order in which   *)
(* it sent them, none twice, with any number of tasks that take them.       *)
THEOREM TakenInSendOrderAlways ==
    ASSUME StartupFirst, EveryTopicHasBean
    PROVE  Spec => []TakenInSendOrder
<1>1. Base /\ QueueInv => TakenInSendOrder
  BY DEF QueueInv, InLine, Line, Buffer, TakenInSendOrder
<1> QED
  BY <1>1, QueueInvariant, PTL

(* The component does what TopicQueues says, step by step: it begins empty,  *)
(* and every step accepts, takes or finishes a message of one FIFO buffer   *)
(* per topic or leaves the buffers alone.                                  *)
THEOREM RefinesTopicQueues ==
    ASSUME StartupFirst, EveryTopicHasBean
    PROVE  Spec => Abstract!Init /\ [][Abstract!Next]_(Abstract!vars)
<1>1. Init => Abstract!Init
  BY DEF Init, Abstract!Init, Buffer
<1>2. Base /\ QueueInv /\ [Next]_vars => [Abstract!Next]_(Abstract!vars)
  <2> SUFFICES ASSUME Base, Startup, Registered, Working, [Next]_vars
               PROVE  Abstract!Next \/ UNCHANGED <<Buffer, hand>>
    BY DEF QueueInv, Abstract!vars
  <2>1. CASE UNCHANGED vars
    BY <2>1, SameBuffer DEF vars
  <2>2. ASSUME NEW h \in Threads, ThreadStep(h) PROVE UNCHANGED <<Buffer, hand>>
    BY <2>2, SameBuffer, RegisterKeepsBuffer DEF ThreadStep, GetQueue, RegisterQueue
  <2>3. ASSUME NEW p \in Producers, Put(p) PROVE Abstract!Next
    <3>1. Abstract!Accept(topic[p], <<p, sent[p]>>)
      BY <2>3, PutAppends DEF Abstract!Accept, Put
    <3> QED
      BY <2>3, <3>1, PutAppends DEF Abstract!Next
  <2>4. ASSUME NEW p \in Producers, PutInterrupted(p) \/ \E t \in Topics : Send(p, t)
        PROVE  UNCHANGED <<Buffer, hand>>
    BY <2>4, SameBuffer DEF PutInterrupted, Send
  <2>5. ASSUME NEW b \in Beans, StartInit(b) \/ StartWorkers(b)
        PROVE  UNCHANGED <<Buffer, hand>>
    BY <2>5, SameBuffer DEF StartInit, StartWorkers
  <2>6. ASSUME NEW c \in Consumers, Take(c) PROVE Abstract!Next
    <3>1. hand[c] = NoMessage
      BY <2>6 DEF Take, Working
    <3>2. Abstract!Take(TopicOf[c[1]], c)
      BY <2>6, <3>1, TakeRemovesHead DEF Abstract!Take
    <3> QED
      BY <2>6, <3>2, TakeRemovesHead DEF Abstract!Next, Abstract!TakeOrFinish
  <2>7. ASSUME NEW c \in Consumers, Execute(c) \/ ExecuteThrows(c) PROVE Abstract!Next
    <3>1. Buffer' = Buffer
      BY <2>7, SameBuffer DEF Execute, ExecuteThrows
    <3>2. Abstract!Finish(c)
      BY <2>7, <3>1 DEF Abstract!Finish, Execute, ExecuteThrows, Working
    <3> QED
      BY <3>2 DEF Abstract!Next, Abstract!TakeOrFinish
  <2> QED
    BY <2>1, <2>2, <2>3, <2>4, <2>5, <2>6, <2>7 DEF Next
<1> QED
  BY <1>1, <1>2, QueueInvariant, PTL DEF Spec
=============================================================================

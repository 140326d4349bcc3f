------------------------------ MODULE HPQueue ------------------------------
(***************************************************************************)
(* The in-process queue component: HPQueueFactory.getQueue, which creates   *)
(* the queue of a topic on first use, HPQueueProducer.send, and the init    *)
(* and consumer tasks of AbstractHPQueueConsumer.                          *)
(*                                                                         *)
(* getQueue is three steps (get, new, put) on a ConcurrentHashMap, without  *)
(* a lock around them.  A queue object is identified by its topic and the   *)
(* thread that created it: a thread creates at most one per topic, because  *)
(* it finds an entry in the map from then on.                              *)
(***************************************************************************)
EXTENDS Naturals, Sequences

CONSTANTS Producers,    \* application threads that call send
          Beans,        \* consumer beans, subclasses of AbstractHPQueueConsumer
          Workers,      \* the tasks of a bean, getConsumerSize() of them
          Topics,       \* the topic names
          TopicOf,      \* TopicOf[b]: getTopic() of bean b
          NoQueue,      \* no entry in the map, or no queue obtained yet
          NoMessage,    \* an empty hand
          QueueMaxSize, \* the capacity of a queue (5000 in the code)
          StartupFirst, \* TRUE: no send before all beans are initialised
          MaxSends,     \* how many messages a producer sends
          MaxErrors,    \* how many calls of execute throw
          MaxInterrupts \* how many producers are interrupted in put

ASSUME TopicAssumption == TopicOf \in [Beans -> Topics]
ASSUME SizeAssumption == QueueMaxSize \in Nat \ {0}
ASSUME BoundsAssumption == /\ MaxSends \in Nat /\ MaxErrors \in Nat
                           /\ MaxInterrupts \in Nat
                           /\ StartupFirst \in BOOLEAN

Threads == Producers \cup Beans         \* the callers of getQueue
Consumers == Beans \X Workers
Messages == Producers \X (1 .. MaxSends)

ASSUME IdentityAssumption == /\ Producers \cap Beans = {}
                             /\ NoQueue \notin Threads
                             /\ NoMessage \notin Messages

VARIABLES queueMap,     \* queueMap[t]: creator of the queue registered for t
          content,      \* content[t][h]: content of the queue h created for t
          pc,           \* pc[h]: where thread h is in send or in init
          topic,        \* topic[h]: the argument of getQueue
          queue,        \* queue[h]: creator of the queue getQueue returned
          sent,         \* sent[p]: the number of the message p is sending
          worker,       \* worker[c]: state of a consumer task
          hand,         \* hand[c]: the message execute is working on
          taken,        \* history: taken[t], messages in the order of the takes
          errors, interrupts

vars == <<queueMap, content, pc, topic, queue, sent, worker, hand, taken,
          errors, interrupts>>

TypeOK ==
    /\ queueMap \in [Topics -> Threads \cup {NoQueue}]
    /\ content \in [Topics -> [Threads -> Seq(Messages)]]
    /\ pc \in [Threads -> {"idle", "get", "register", "put", "started"}]
    /\ topic \in [Threads -> Topics]
    /\ queue \in [Threads -> Threads \cup {NoQueue}]
    /\ \A h \in Threads : pc[h] \in {"put", "started"} => queue[h] # NoQueue
    /\ sent \in [Producers -> 0 .. MaxSends]
    /\ worker \in [Consumers -> {"new", "take", "execute", "dead"}]
    /\ hand \in [Consumers -> Messages \cup {NoMessage}]
    /\ taken \in [Topics -> Seq(Messages)]
    /\ errors \in 0 .. MaxErrors
    /\ interrupts \in 0 .. MaxInterrupts

Init ==
    /\ queueMap = [t \in Topics |-> NoQueue]
    /\ content = [t \in Topics |-> [h \in Threads |-> <<>>]]
    /\ pc = [h \in Threads |-> "idle"]
    /\ topic \in {f \in [Threads -> Topics] : \A b \in Beans : f[b] = TopicOf[b]}
    /\ queue = [h \in Threads |-> NoQueue]
    /\ sent = [p \in Producers |-> 0]
    /\ worker = [c \in Consumers |-> "new"]
    /\ hand = [c \in Consumers |-> NoMessage]
    /\ taken = [t \in Topics |-> <<>>]
    /\ errors = 0
    /\ interrupts = 0

Goto(h, label) == pc' = [pc EXCEPT ![h] = label]

-----------------------------------------------------------------------------
(* HPQueueFactory.getQueue(topic[h]), called by producers and by init.      *)

(* Mutant: a new queue on every call.                                       *)
GetQueueAlwaysNew(h) ==
    /\ pc[h] = "get"
    /\ Goto(h, "register")
    /\ UNCHANGED <<queueMap, content, topic, queue, sent, worker, hand, taken,
                   errors, interrupts>>

GetQueue(h) ==
    /\ pc[h] = "get"
    /\ IF queueMap[topic[h]] # NoQueue
       THEN queue' = [queue EXCEPT ![h] = queueMap[topic[h]]] /\ Goto(h, "put")
       ELSE UNCHANGED queue /\ Goto(h, "register")
    /\ UNCHANGED <<queueMap, content, topic, sent, worker, hand, taken,
                   errors, interrupts>>

(* Mutant: the new queue is returned but not put into the map.              *)
RegisterForgotten(h) ==
    /\ pc[h] = "register"
    /\ queue' = [queue EXCEPT ![h] = h]
    /\ Goto(h, "put")
    /\ UNCHANGED <<queueMap, content, topic, sent, worker, hand, taken,
                   errors, interrupts>>

RegisterQueue(h) ==
    /\ pc[h] = "register"
    /\ queueMap' = [queueMap EXCEPT ![topic[h]] = h]
    /\ queue' = [queue EXCEPT ![h] = h]
    /\ Goto(h, "put")
    /\ UNCHANGED <<content, topic, sent, worker, hand, taken, errors, interrupts>>

-----------------------------------------------------------------------------
(* HPQueueProducer.send. *)

Send(p, t) ==
    /\ pc[p] = "idle"
    /\ sent[p] < MaxSends
    /\ StartupFirst => \A b \in Beans : pc[b] = "started"
    /\ topic' = [topic EXCEPT ![p] = t]
    /\ sent' = [sent EXCEPT ![p] = @ + 1]
    /\ queue' = [queue EXCEPT ![p] = NoQueue]
    /\ Goto(p, "get")
    /\ UNCHANGED <<queueMap, content, worker, hand, taken, errors, interrupts>>

(* Mutant: an unbounded queue.                                              *)
PutUnbounded(p) ==
    /\ pc[p] = "put"
    /\ content' = [content EXCEPT ![topic[p]][queue[p]] = Append(@, <<p, sent[p]>>)]
    /\ Goto(p, "idle")
    /\ UNCHANGED <<queueMap, topic, queue, sent, worker, hand, taken, errors, interrupts>>

(* queue.put blocks while the queue is full.                               *)
Put(p) ==
    /\ pc[p] = "put"
    /\ Len(content[topic[p]][queue[p]]) < QueueMaxSize
    /\ content' = [content EXCEPT ![topic[p]][queue[p]] = Append(@, <<p, sent[p]>>)]
    /\ Goto(p, "idle")
    /\ UNCHANGED <<queueMap, topic, queue, sent, worker, hand, taken, errors, interrupts>>

(* The InterruptedException is logged and the message is gone.             *)
PutInterrupted(p) ==
    /\ pc[p] = "put"
    /\ interrupts < MaxInterrupts
    /\ interrupts' = interrupts + 1
    /\ Goto(p, "idle")
    /\ UNCHANGED <<queueMap, content, topic, queue, sent, worker, hand, taken, errors>>

-----------------------------------------------------------------------------
(* AbstractHPQueueConsumer.init.  One container thread initialises the      *)
(* beans, one after the other.                                             *)

StartInit(b) ==
    /\ pc[b] = "idle"
    /\ \A d \in Beans : pc[d] \in {"idle", "started"}
    /\ Goto(b, "get")
    /\ UNCHANGED <<queueMap, content, topic, queue, sent, worker, hand, taken,
                   errors, interrupts>>

(* Mutant: the loop that starts the tasks ends one too early.               *)
StartWorkersOneShort(b) ==
    /\ pc[b] = "put"
    /\ Goto(b, "started")
    /\ \E w \in Workers :
           worker' = [c \in Consumers |-> IF c[1] = b /\ c[2] # w THEN "take" ELSE worker[c]]
    /\ UNCHANGED <<queueMap, content, topic, queue, sent, hand, taken,
                   errors, interrupts>>

StartWorkers(b) ==
    /\ pc[b] = "put"
    /\ Goto(b, "started")
    /\ worker' = [c \in Consumers |-> IF c[1] = b THEN "take" ELSE worker[c]]
    /\ UNCHANGED <<queueMap, content, topic, queue, sent, hand, taken,
                   errors, interrupts>>

(* Mutant: the consumer takes from the end to which producers append.       *)
TakeLast(c) ==
    LET t == TopicOf[c[1]]
        q == content[t][queue[c[1]]]
    IN  /\ worker[c] = "take"
        /\ q # <<>>
        /\ hand' = [hand EXCEPT ![c] = q[Len(q)]]
        /\ content' = [content EXCEPT ![t][queue[c[1]]] = SubSeq(q, 1, Len(q) - 1)]
        /\ taken' = [taken EXCEPT ![t] = Append(@, q[Len(q)])]
        /\ worker' = [worker EXCEPT ![c] = "execute"]
        /\ UNCHANGED <<queueMap, pc, topic, queue, sent, errors, interrupts>>

(* The loop of a consumer task: execute(queue.take()).                      *)
Take(c) ==
    LET t == TopicOf[c[1]]
        q == content[t][queue[c[1]]]
    IN  /\ worker[c] = "take"
        /\ q # <<>>
        /\ hand' = [hand EXCEPT ![c] = Head(q)]
        /\ content' = [content EXCEPT ![t][queue[c[1]]] = Tail(q)]
        /\ taken' = [taken EXCEPT ![t] = Append(@, Head(q))]
        /\ worker' = [worker EXCEPT ![c] = "execute"]
        /\ UNCHANGED <<queueMap, pc, topic, queue, sent, errors, interrupts>>

(* Mutant: no loop around take and execute.                                 *)
ExecuteOnce(c) ==
    /\ worker[c] = "execute"
    /\ hand' = [hand EXCEPT ![c] = NoMessage]
    /\ worker' = [worker EXCEPT ![c] = "dead"]
    /\ UNCHANGED <<queueMap, content, pc, topic, queue, sent, taken, errors, interrupts>>

Execute(c) ==
    /\ worker[c] = "execute"
    /\ hand' = [hand EXCEPT ![c] = NoMessage]
    /\ worker' = [worker EXCEPT ![c] = "take"]
    /\ UNCHANGED <<queueMap, content, pc, topic, queue, sent, taken, errors, interrupts>>

(* Only InterruptedException is caught: anything else ends the task, and    *)
(* the executor does not submit it again.                                  *)
ExecuteThrows(c) ==
    /\ worker[c] = "execute"
    /\ errors < MaxErrors
    /\ errors' = errors + 1
    /\ hand' = [hand EXCEPT ![c] = NoMessage]
    /\ worker' = [worker EXCEPT ![c] = "dead"]
    /\ UNCHANGED <<queueMap, content, pc, topic, queue, sent, taken, interrupts>>

-----------------------------------------------------------------------------
ThreadStep(h) == GetQueue(h) \/ RegisterQueue(h)

Next == \/ \E h \in Threads : ThreadStep(h)
        \/ \E p \in Producers : \/ \E t \in Topics : Send(p, t)
                                \/ Put(p) \/ PutInterrupted(p)
        \/ \E b \in Beans : StartInit(b) \/ StartWorkers(b)
        \/ \E c \in Consumers : Take(c) \/ Execute(c) \/ ExecuteThrows(c)

Spec == Init /\ [][Next]_vars

(* Threads run, the container finishes its start, and execute returns.      *)
Fairness == /\ \A h \in Threads : WF_vars(ThreadStep(h))
            /\ \A p \in Producers : WF_vars(Put(p))
            /\ \A b \in Beans : WF_vars(StartInit(b) \/ StartWorkers(b))
            /\ \A c \in Consumers : WF_vars(Take(c) \/ Execute(c))

FairSpec == Spec /\ Fairness

-----------------------------------------------------------------------------
(* Properties. *)

(* A queue that some thread obtained from the factory is the queue the      *)
(* factory has on record for its topic: the factory holds all the queues.   *)
FactoryHoldsAllQueues ==
    \A h \in Threads : queue[h] # NoQueue => queue[h] = queueMap[topic[h]]

(* No message waits in a queue from which the consumers of its topic do not *)
(* take: once the beans are up, what put has accepted can be consumed.      *)
NoMessageIsStranded ==
    \A t \in Topics, h \in Threads, b \in Beans :
        content[t][h] # <<>> /\ pc[b] = "started" /\ TopicOf[b] = t
            => queue[b] = h

(* The messages of a producer are taken in the order in which it sent them, *)
(* and none twice, whichever of the tasks of a topic takes them.            *)
Ascending(s) ==
    \A i, j \in DOMAIN s : i < j /\ s[i][1] = s[j][1] => s[i][2] < s[j][2]

TakenInSendOrder ==
    \A t \in Topics :
        Ascending(taken[t] \o (IF queueMap[t] = NoQueue THEN <<>>
                               ELSE content[t][queueMap[t]]))

(* A call of send returns, also when it found the queue full.               *)
SendReturns == \A p \in Producers : pc[p] \in {"get", "register", "put"} ~> pc[p] = "idle"

(* An accepted message is handed to execute, also when other messages made  *)
(* execute throw, as long as one task of the topic is left.                 *)
AcceptedIsTaken ==
    \A t \in Topics, m \in Messages :
        (\E h \in Threads : \E i \in DOMAIN content[t][h] : content[t][h][i] = m)
            ~> (\E i \in DOMAIN taken[t] : taken[t][i] = m)

(* Behind the factory, threads and maps there is one FIFO buffer per topic. *)
Buffer == [t \in Topics |-> IF queueMap[t] = NoQueue THEN <<>>
                            ELSE content[t][queueMap[t]]]

Abstract == INSTANCE TopicQueues WITH buffer <- Buffer

ImplementsTopicQueues == Abstract!Spec
=============================================================================

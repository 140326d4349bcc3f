----------------------- MODULE DistributedLock_proofs -----------------------
(***************************************************************************)
(* Proofs about DistributedLock, for any number of clients and keys, any   *)
(* lease and any waiting times.                                            *)
(***************************************************************************)
EXTENDS DistributedLock, TLAPS

USE NoClientAssumption, LeaseAssumption, WaitAssumption, BoundsAssumption

LEMMA TypeInit == Init => TypeOK
  BY DEF Init, TypeOK, Labels

LEMMA TypeStep ==
  ASSUME TypeOK, [Next]_vars
  PROVE  TypeOK'
<1> USE DEF TypeOK, Labels, Waiting, Holding, Goto
<1>1. ASSUME NEW c \in Clients, NEW k \in Keys, NEW w \in WaitTimes, GetLock(c, k, w)
      PROVE  TypeOK'
  BY <1>1 DEF GetLock
<1>2. ASSUME NEW c \in Clients, SetIfAbsent(c) PROVE TypeOK'
  BY <1>2 DEF SetIfAbsent, RedisSet, Present
<1>3. ASSUME NEW c \in Clients, SetIfAbsentReply(c) PROVE TypeOK'
  BY <1>3 DEF SetIfAbsentReply
<1>4. ASSUME NEW c \in Clients, Delete(c) PROVE TypeOK'
  BY <1>4 DEF Delete, RedisDelete, AfterDelete
<1>5. ASSUME NEW c \in Clients, GiveUp(c) \/ Sleep(c) \/ Wake(c) \/ ReleaseLock(c)
      PROVE  TypeOK'
  BY <1>5 DEF GiveUp, Sleep, Wake, ReleaseLock
<1>6. ASSUME NEW c \in Clients, SetIfAbsentFails(c) PROVE TypeOK'
  BY <1>6 DEF SetIfAbsentFails
<1>7. ASSUME NEW c \in Clients, DeleteFails(c) PROVE TypeOK'
  BY <1>7 DEF DeleteFails, RedisDeleteFails, RedisDelete
<1>8. ASSUME NEW c \in Clients, Crash(c) PROVE TypeOK'
  BY <1>8 DEF Crash
<1>9. CASE Tick
  BY <1>9 DEF Tick
<1>10. CASE UNCHANGED vars
  BY <1>10 DEF vars
<1> QED
  BY <1>1, <1>2, <1>3, <1>4, <1>5, <1>6, <1>7, <1>8, <1>9, <1>10 DEF Next, Step

(* The variables only take the values TypeOK gives them: in particular the *)
(* waiting time of getLock and the time to live of a key stay bounded.     *)
THEOREM TypeCorrect == Spec => []TypeOK
  BY TypeInit, TypeStep, PTL DEF Spec

-----------------------------------------------------------------------------
(* Mutual exclusion.  It is not inductive: what keeps a second client out is *)
(* that the key of a holder is in redis, for exactly the rest of its lease,  *)
(* and that nobody is about to delete a key it does not hold.               *)
NoStrayDelete == \A c \in Clients : pc[c] \in {"clean1", "clean2", "release2"} => faults > 0

HoldStartsAtZero == \A c \in Clients : pc[c] \notin Holding => held[c] = 0

LockInv == TypeOK /\ OwnLease /\ NoStrayDelete /\ HoldStartsAtZero

LEMMA LockInit == Init => LockInv
  BY TypeInit DEF Init, LockInv, OwnLease, Holding, NoStrayDelete, HoldStartsAtZero

LEMMA LockStep ==
  ASSUME HoldersAreQuick, LockInv, [Next]_vars, TypeOK'
  PROVE  LockInv'
<1> USE DEF LockInv, TypeOK, OwnLease, NoStrayDelete, HoldStartsAtZero, Labels, Waiting, Holding, Goto
<1>1. ASSUME NEW c \in Clients, NEW k \in Keys, NEW w \in WaitTimes, GetLock(c, k, w)
      PROVE  LockInv'
  BY <1>1 DEF GetLock
<1>2. ASSUME NEW c \in Clients, SetIfAbsent(c) PROVE LockInv'
  <2>1. CASE RedisSet(c, key[c]) /\ pc' = [pc EXCEPT ![c] = "granted"]
    <3>1. faults = 0 => \A d \in Clients : pc[d] \in Holding => key[d] # key[c]
      BY <2>1 DEF RedisSet, Present, HoldersAreQuick
    <3>2. held[c] = 0
      BY <1>2 DEF SetIfAbsent
    <3> QED
      BY <1>2, <2>1, <3>1, <3>2 DEF SetIfAbsent, RedisSet
  <2>2. CASE UNCHANGED <<ttl, setter>> /\ pc' = [pc EXCEPT ![c] = "refused"]
    BY <1>2, <2>2 DEF SetIfAbsent
  <2> QED
    BY <1>2, <2>1, <2>2 DEF SetIfAbsent
<1>3. ASSUME NEW c \in Clients, SetIfAbsentReply(c) PROVE LockInv'
  BY <1>3 DEF SetIfAbsentReply
<1>4. ASSUME NEW c \in Clients, Delete(c) PROVE LockInv'
  <2>1. faults = 0 => pc[c] = "release1"
    BY <1>4 DEF Delete
  <2>2. faults = 0 => \A d \in Clients : d # c /\ pc[d] \in Holding => key[d] # key[c]
    BY <2>1
  <2> QED
    BY <1>4, <2>1, <2>2 DEF Delete, RedisDelete, AfterDelete
<1>5. ASSUME NEW c \in Clients, GiveUp(c) \/ Sleep(c) \/ Wake(c) \/ ReleaseLock(c)
      PROVE  LockInv'
  BY <1>5 DEF GiveUp, Sleep, Wake, ReleaseLock
<1>6. ASSUME NEW c \in Clients, SetIfAbsentFails(c) PROVE LockInv'
  BY <1>6 DEF SetIfAbsentFails
<1>7. ASSUME NEW c \in Clients, DeleteFails(c) PROVE LockInv'
  BY <1>7 DEF DeleteFails, RedisDeleteFails
<1>8. ASSUME NEW c \in Clients, Crash(c) PROVE LockInv'
  BY <1>8 DEF Crash
<1>9. CASE Tick
  <2>1. ASSUME NEW c \in Clients, faults = 0, pc[c] \in Holding
        PROVE  /\ ttl[key[c]] + held[c] = Lease
               /\ held[c] + 1 < Lease
    BY <1>9, <2>1 DEF Tick, HoldersAreQuick
  <2>2. OwnLease'
    <3> SUFFICES ASSUME faults = 0, NEW c \in Clients, pc[c] \in Holding
                 PROVE  setter'[key[c]] = c /\ ttl'[key[c]] + held'[c] = Lease
      BY <1>9 DEF Tick
    <3> QED
      BY <1>9, <2>1 DEF Tick
  <2> QED
    BY <1>9, <2>2 DEF Tick
<1>10. CASE UNCHANGED vars
  BY <1>10 DEF vars
<1> QED
  BY <1>1, <1>2, <1>3, <1>4, <1>5, <1>6, <1>7, <1>8, <1>9, <1>10 DEF Next, Step

THEOREM LockInvariant == HoldersAreQuick => (Spec => []LockInv)
<1> SUFFICES ASSUME HoldersAreQuick PROVE Spec => []LockInv
  OBVIOUS
<1>1. Init => LockInv
  BY LockInit
<1>2. LockInv /\ [Next]_vars => LockInv'
  BY LockStep, TypeStep DEF LockInv
<1> QED
  BY <1>1, <1>2, PTL DEF Spec

(* With callers that release before their lease is over a lock has at most  *)
(* one user until a redis command fails, however many clients compete and   *)
(* die.                                                                    *)
THEOREM LockIsExclusive == HoldersAreQuick => (Spec => []ExclusiveUntilFault)
<1> SUFFICES ASSUME HoldersAreQuick PROVE Spec => []ExclusiveUntilFault
  OBVIOUS
<1>1. LockInv => ExclusiveUntilFault
  BY DEF LockInv, OwnLease, ExclusiveUntilFault, MutualExclusion, Holding
<1> QED
  BY <1>1, LockInvariant, PTL

(* Under the same conditions the key in redis is the holder's own and lives *)
(* for exactly the rest of its lease.                                       *)
THEOREM LeaseIsOwn == HoldersAreQuick => (Spec => []OwnLease)
<1> SUFFICES ASSUME HoldersAreQuick PROVE Spec => []OwnLease
  OBVIOUS
<1>1. LockInv => OwnLease
  BY DEF LockInv
<1> QED
  BY <1>1, LockInvariant, PTL

-----------------------------------------------------------------------------
(* The lock implements the abstract lock service.  Besides LockInv this      *)
(* needs to know whose a key in redis is: a client that relies on it, or a  *)
(* client that died before it deleted it.                                   *)
KeyHasUser ==
    faults = 0 =>
        \A k \in Keys :
            \/ ttl[k] = 0 /\ setter[k] = NoClient
            \/ /\ ttl[k] > 0
               /\ setter[k] \in Clients
               /\ \/ pc[setter[k]] = "dead"
                  \/ pc[setter[k]] \in Holding /\ key[setter[k]] = k

ServiceInv == LockInv /\ KeyHasUser

LEMMA KeyHasUserStep ==
  ASSUME ServiceInv, [Next]_vars
  PROVE  KeyHasUser'
<1> USE DEF ServiceInv, LockInv, TypeOK, NoStrayDelete, KeyHasUser,
            Labels, Waiting, Holding, Goto
<1>1. ASSUME NEW c \in Clients, NEW k \in Keys, NEW w \in WaitTimes, GetLock(c, k, w)
      PROVE  KeyHasUser'
  BY <1>1 DEF GetLock
<1>2. ASSUME NEW c \in Clients, SetIfAbsent(c) PROVE KeyHasUser'
  BY <1>2 DEF SetIfAbsent, RedisSet, Present
<1>3. ASSUME NEW c \in Clients, SetIfAbsentReply(c) PROVE KeyHasUser'
  BY <1>3 DEF SetIfAbsentReply
<1>4. ASSUME NEW c \in Clients, Delete(c) PROVE KeyHasUser'
  BY <1>4 DEF Delete, RedisDelete, AfterDelete
<1>5. ASSUME NEW c \in Clients, GiveUp(c) \/ Sleep(c) \/ Wake(c) \/ ReleaseLock(c)
      PROVE  KeyHasUser'
  BY <1>5 DEF GiveUp, Sleep, Wake, ReleaseLock
<1>6. ASSUME NEW c \in Clients, SetIfAbsentFails(c) \/ DeleteFails(c) PROVE KeyHasUser'
  BY <1>6 DEF SetIfAbsentFails, DeleteFails, RedisDeleteFails
<1>7. ASSUME NEW c \in Clients, Crash(c) PROVE KeyHasUser'
  BY <1>7 DEF Crash
<1>8. CASE Tick
  BY <1>8 DEF Tick
<1>9. CASE UNCHANGED vars
  BY <1>9 DEF vars
<1> QED
  BY <1>1, <1>2, <1>3, <1>4, <1>5, <1>6, <1>7, <1>8, <1>9 DEF Next, Step

(* A step while no command has failed.                                      *)
LEMMA PromisedStep ==
  ASSUME HoldersAreQuick, ServiceInv, [Next]_vars, faults = 0, faults' = 0
  PROVE  Service!Promised \/ UNCHANGED <<setter, Relies>>
<1>1. ASSUME NEW c \in Clients, NEW k \in Keys, NEW w \in WaitTimes, GetLock(c, k, w)
      PROVE  UNCHANGED <<setter, Relies>>
  BY <1>1 DEF GetLock, Goto, Relies, Holding, ServiceInv, LockInv, TypeOK
<1>2. ASSUME NEW c \in Clients, SetIfAbsent(c)
      PROVE  Service!Acquire(c, key[c]) \/ UNCHANGED <<setter, Relies>>
  <2> USE DEF SetIfAbsent, Goto, Relies, Holding, ServiceInv, LockInv, TypeOK
  <2>1. CASE RedisSet(c, key[c]) /\ Goto(c, "granted")
    <3>1. Relies' = [Relies EXCEPT ![c] = @ \cup {key[c]}]
      BY <1>2, <2>1
    <3>2. setter[key[c]] = NoClient /\ setter' = [setter EXCEPT ![key[c]] = c]
      BY <2>1 DEF RedisSet, Present, KeyHasUser
    <3> QED
      BY <3>1, <3>2 DEF Service!Acquire
  <2>2. CASE UNCHANGED setter /\ Goto(c, "refused")
    BY <1>2, <2>2
  <2> QED
    BY <1>2, <2>1, <2>2
<1>3. ASSUME NEW c \in Clients, SetIfAbsentReply(c) PROVE UNCHANGED <<setter, Relies>>
  BY <1>3 DEF SetIfAbsentReply, Goto, Relies, Holding, ServiceInv, LockInv, TypeOK
<1>4. ASSUME NEW c \in Clients, Delete(c) PROVE Service!Release(c, key[c])
  <2> USE <1>4 DEF Delete, Goto, Relies, Holding, AfterDelete,
                   ServiceInv, LockInv, NoStrayDelete, TypeOK
  <2>1. pc[c] = "release1" /\ key[c] \in Relies[c]
    OBVIOUS
  <2>2. Relies' = [Relies EXCEPT ![c] = @ \ {key[c]}]
    BY <2>1
  <2> QED
    BY <2>1, <2>2 DEF RedisDelete, Service!Release
<1>5. ASSUME NEW c \in Clients, GiveUp(c) \/ Sleep(c) \/ Wake(c) \/ ReleaseLock(c)
      PROVE  UNCHANGED <<setter, Relies>>
  BY <1>5 DEF GiveUp, Sleep, Wake, ReleaseLock, Goto, Relies, Holding,
              ServiceInv, LockInv, TypeOK
<1>6. ASSUME NEW c \in Clients, Crash(c) PROVE Service!Crash(c)
  <2>1. Relies' = [Relies EXCEPT ![c] = {}]
    BY <1>6 DEF Crash, Goto, Relies, Holding, ServiceInv, LockInv, TypeOK
  <2> QED
    BY <1>6, <2>1 DEF Crash, Service!Crash
<1>7. ASSUME Tick
      PROVE  Service!Expire \/ UNCHANGED <<setter, Relies>>
  <2> DEFINE S == {k \in Keys : ttl[k] = 1}
  <2>1. UNCHANGED Relies
    BY <1>7 DEF Tick, Relies
  <2>2. setter' = [k \in Keys |-> IF k \in S THEN NoClient ELSE setter[k]]
    BY <1>7 DEF Tick, KeyHasUser, ServiceInv, LockInv, TypeOK
  <2>3. S \subseteq Service!Abandoned
    <3> SUFFICES ASSUME NEW k \in Keys, ttl[k] = 1
                 PROVE  setter[k] # NoClient /\ \A c \in Clients : k \notin Relies[c]
      BY DEF Service!Abandoned
    <3>1. setter[k] # NoClient
      BY DEF KeyHasUser, ServiceInv
    <3>2. ASSUME NEW c \in Clients, k \in Relies[c] PROVE FALSE
      <4>1. pc[c] \in Holding /\ key[c] = k
        BY <3>2 DEF Relies
      <4>2. held[c] \in 0 .. MaxHold /\ held[c] < MaxHold /\ MaxHold < Lease
        BY <1>7, <4>1 DEF Tick, HoldersAreQuick, ServiceInv, LockInv, TypeOK
      <4>3. 1 + held[c] = Lease
        BY <4>1 DEF OwnLease, ServiceInv, LockInv
      <4> QED
        BY <4>2, <4>3
    <3> QED
      BY <3>1, <3>2
  <2>4. CASE S = {}
    BY <2>1, <2>2, <2>4 DEF ServiceInv, LockInv, TypeOK
  <2>5. CASE S # {}
    BY <2>1, <2>2, <2>3, <2>5 DEF Service!Expire
  <2> QED
    BY <2>4, <2>5
<1>8. CASE UNCHANGED vars
  BY <1>8 DEF vars, Relies
<1>9. \A c \in Clients : key[c] \in Keys
  BY DEF ServiceInv, LockInv, TypeOK
<1>10. \A c \in Clients : ~ SetIfAbsentFails(c) /\ ~ DeleteFails(c)
  BY DEF SetIfAbsentFails, DeleteFails, RedisDeleteFails
<1>11. /\ \A c \in Clients, k \in Keys :
            Service!Acquire(c, k) \/ Service!Release(c, k) \/ Service!Crash(c)
                => Service!Promised
       /\ Service!Expire => Service!Promised
  BY DEF Service!Promised
<1> QED
  BY <1>1, <1>2, <1>3, <1>4, <1>5, <1>6, <1>7, <1>8, <1>9, <1>10, <1>11 DEF Next, Step

LEMMA FaultsGrow ==
  ASSUME TypeOK, [Next]_vars
  PROVE  faults' = faults \/ faults' # 0
<1> USE DEF TypeOK
<1> QED
  BY DEF Next, Step, vars, GetLock, SetIfAbsent, SetIfAbsentReply, Delete, GiveUp, Sleep,
         Wake, ReleaseLock, SetIfAbsentFails, DeleteFails, RedisDeleteFails, Crash, Tick

LEMMA StepImplementsService ==
  ASSUME HoldersAreQuick, ServiceInv, [Next]_vars
  PROVE  [Service!Next]_(Service!vars)
<1>1. CASE faults' # 0
  BY <1>1 DEF Service!Next
<1>2. CASE faults' = 0
  <2>1. faults = 0
    BY <1>2, FaultsGrow DEF ServiceInv, LockInv
  <2>2. Service!Promised \/ UNCHANGED <<setter, Relies>>
    BY <1>2, <2>1, PromisedStep
  <2> QED
    BY <1>2, <2>1, <2>2 DEF Service!Next, Service!vars
<1> QED
  BY <1>1, <1>2

(* Seen by its callers the lock is the lock service until a command fails:  *)
(* every step is an Acquire of a free key, a Release by the client that     *)
(* relies on it, a Crash, or the expiry of keys on which nobody relies.     *)
THEOREM LockImplementsService ==
  HoldersAreQuick => (Spec => Service!Init /\ [][Service!Next]_(Service!vars))
<1> SUFFICES ASSUME HoldersAreQuick
             PROVE  Spec => Service!Init /\ [][Service!Next]_(Service!vars)
  OBVIOUS
<1>1. Init => ServiceInv /\ Service!Init
  BY LockInit DEF Init, ServiceInv, KeyHasUser, Service!Init, Relies, Holding
<1>2. ServiceInv /\ [Next]_vars => ServiceInv'
  BY LockStep, TypeStep, KeyHasUserStep DEF ServiceInv, LockInv
<1>3. ServiceInv /\ [Next]_vars => [Service!Next]_(Service!vars)
  BY StepImplementsService
<1> QED
  BY <1>1, <1>2, <1>3, PTL DEF Spec

-----------------------------------------------------------------------------
(* What the delete in the catch block of setIfAbsent and the second try of  *)
(* HPRedisTemplate.delete are worth.                                        *)
OrphanInv == TypeOK /\ NoOrphanLock /\ NoStrayDelete

LEMMA OrphanStep ==
  ASSUME OrphanInv, [Next]_vars, TypeOK'
  PROVE  OrphanInv'
<1> USE DEF OrphanInv, TypeOK, NoOrphanLock, NoStrayDelete, Present,
            Labels, Waiting, Holding, Goto
<1>1. ASSUME NEW c \in Clients, NEW k \in Keys, NEW w \in WaitTimes, GetLock(c, k, w)
      PROVE  OrphanInv'
  BY <1>1 DEF GetLock
<1>2. ASSUME NEW c \in Clients, SetIfAbsent(c) PROVE OrphanInv'
  BY <1>2 DEF SetIfAbsent, RedisSet
<1>3. ASSUME NEW c \in Clients, SetIfAbsentReply(c) PROVE OrphanInv'
  BY <1>3 DEF SetIfAbsentReply
<1>4. ASSUME NEW c \in Clients, Delete(c) PROVE OrphanInv'
  BY <1>4 DEF Delete, RedisDelete, AfterDelete
<1>5. ASSUME NEW c \in Clients, GiveUp(c) \/ Sleep(c) \/ Wake(c) \/ ReleaseLock(c)
      PROVE  OrphanInv'
  BY <1>5 DEF GiveUp, Sleep, Wake, ReleaseLock
<1>6. ASSUME NEW c \in Clients, SetIfAbsentFails(c) PROVE OrphanInv'
  BY <1>6 DEF SetIfAbsentFails
<1>7. ASSUME NEW c \in Clients, DeleteFails(c) PROVE OrphanInv'
  BY <1>7 DEF DeleteFails, RedisDeleteFails, RedisDelete
<1>8. ASSUME NEW c \in Clients, Crash(c) PROVE OrphanInv'
  BY <1>8 DEF Crash
<1>9. CASE Tick
  BY <1>9 DEF Tick
<1>10. CASE UNCHANGED vars
  BY <1>10 DEF vars
<1> QED
  BY <1>1, <1>2, <1>3, <1>4, <1>5, <1>6, <1>7, <1>8, <1>9, <1>10 DEF Next, Step

(* Whichever single redis command fails, before or after redis ran it, no   *)
(* key is left in redis that no client is going to delete, even when the    *)
(* callers outlive their leases.                                            *)
THEOREM OneFaultLeavesNoOrphan == Spec => []NoOrphanLock
<1>1. Init => OrphanInv
  BY TypeInit DEF Init, OrphanInv, NoOrphanLock, NoStrayDelete, Present
<1>2. OrphanInv /\ [Next]_vars => OrphanInv'
  BY OrphanStep, TypeStep DEF OrphanInv
<1>3. OrphanInv => NoOrphanLock
  BY DEF OrphanInv
<1> QED
  BY <1>1, <1>2, <1>3, PTL DEF Spec
=============================================================================

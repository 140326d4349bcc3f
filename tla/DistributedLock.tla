-------------------------- MODULE DistributedLock --------------------------
(***************************************************************************)
(* The distributed lock of the redis component: DistributedLockHelper      *)
(* (getLock, releaseLock) on top of HPValueOperations.setIfAbsent and      *)
(* HPRedisTemplate.delete, with the part of redis they use: SET key "1" NX *)
(* EX timeout, DEL key and the expiry of keys.                             *)
(*                                                                         *)
(* A redis command and its reply are two steps: a command can fail before  *)
(* redis runs it, or after, when only the reply is lost; the Java code     *)
(* sees the same exception.  The value stored is always "1": nothing in    *)
(* redis says whose lock it is.  setter and held are history variables.    *)
(***************************************************************************)
EXTENDS Naturals

CONSTANTS Clients,      \* the threads, of any JVM, that use the lock
          Keys,         \* the lock keys
          NoClient,     \* "nobody", not a client
          Lease,        \* the timeout given to getLock, in ticks
          WaitTimes,    \* the maxWaitTime values callers pass, in ticks
          WaitCap,      \* a number above every maxWaitTime, where elapsed stops
          MaxHold,      \* ticks a caller may keep the lock, reply time included
          MaxFaults,    \* how many redis commands fail in a behaviour
          MaxCrashes    \* how many clients die in a behaviour

ASSUME NoClientAssumption == NoClient \notin Clients
ASSUME LeaseAssumption == Lease \in Nat \ {0}
ASSUME WaitAssumption == WaitCap \in Nat /\ WaitTimes \subseteq 0 .. (WaitCap - 1)
ASSUME BoundsAssumption == MaxHold \in Nat /\ MaxFaults \in Nat /\ MaxCrashes \in Nat

VARIABLES ttl,          \* ttl[k]: ticks until redis drops k, 0 when k is absent
          setter,       \* history: setter[k] is the client whose SET made k
          pc,           \* pc[c]: where c is in getLock or releaseLock
          key,          \* key[c]: the argument key of the call in progress
          maxWait,      \* maxWait[c]: the argument maxWaitTime
          elapsed,      \* elapsed[c]: end - start of getLock, up to WaitCap
          held,         \* history: ticks since redis granted c the lock
          faults,       \* commands failed so far
          crashes       \* clients dead so far

vars == <<ttl, setter, pc, key, maxWait, elapsed, held, faults, crashes>>

(* "set" and "granted"/"refused" are setIfAbsent before and after redis ran *)
(* the command, "clean1" and "clean2" the two deletes of its catch block,   *)
(* "denied" the part of the loop after setIfAbsent returned false,          *)
(* "release1" and "release2" the two deletes of releaseLock.                *)
Waiting == {"set", "refused", "clean1", "clean2", "denied", "sleep"}
Holding == {"granted", "locked", "release1", "release2"}
Labels  == Waiting \cup Holding \cup {"idle", "dead"}

TypeOK ==
    /\ ttl \in [Keys -> 0 .. Lease]
    /\ setter \in [Keys -> Clients \cup {NoClient}]
    /\ pc \in [Clients -> Labels]
    /\ key \in [Clients -> Keys]
    /\ maxWait \in [Clients -> WaitTimes]
    /\ elapsed \in [Clients -> 0 .. WaitCap]
    /\ held \in [Clients -> 0 .. MaxHold]
    /\ faults \in 0 .. MaxFaults
    /\ crashes \in 0 .. MaxCrashes

Init ==
    /\ ttl = [k \in Keys |-> 0]
    /\ setter = [k \in Keys |-> NoClient]
    /\ pc = [c \in Clients |-> "idle"]
    /\ key \in [Clients -> Keys]
    /\ maxWait \in [Clients -> WaitTimes]
    /\ elapsed = [c \in Clients |-> 0]
    /\ held = [c \in Clients |-> 0]
    /\ faults = 0
    /\ crashes = 0

Goto(c, label) == pc' = [pc EXCEPT ![c] = label]

-----------------------------------------------------------------------------
(* Redis. *)

Present(k) == ttl[k] > 0

(* Mutant: a plain SET, as HPValueOperations.set does.                      *)
RedisSetAlways(c, k) ==
    /\ ttl' = [ttl EXCEPT ![k] = Lease]
    /\ setter' = [setter EXCEPT ![k] = c]

(* SET k "1" NX EX timeout, when k is absent.                              *)
RedisSet(c, k) ==
    /\ ~ Present(k)
    /\ ttl' = [ttl EXCEPT ![k] = Lease]
    /\ setter' = [setter EXCEPT ![k] = c]

(* DEL k, whoever set it.                                                  *)
RedisDelete(k) ==
    /\ ttl' = [ttl EXCEPT ![k] = 0]
    /\ setter' = [setter EXCEPT ![k] = NoClient]

(* A command that raises an exception may have been run or not.            *)
RedisDeleteFails(k) ==
    /\ faults < MaxFaults
    /\ faults' = faults + 1
    /\ RedisDelete(k) \/ UNCHANGED <<ttl, setter>>

-----------------------------------------------------------------------------
(* getLock. *)

GetLock(c, k, w) ==
    /\ pc[c] = "idle"
    /\ Goto(c, "set")
    /\ key' = [key EXCEPT ![c] = k]
    /\ maxWait' = [maxWait EXCEPT ![c] = w]
    /\ elapsed' = [elapsed EXCEPT ![c] = 0]
    /\ held' = [held EXCEPT ![c] = 0]
    /\ UNCHANGED <<ttl, setter, faults, crashes>>

(* Mutant: set and expire as two commands, the second sent in any case.     *)
SetThenExpire(c) ==
    /\ pc[c] = "set"
    /\ \/ RedisSet(c, key[c]) /\ Goto(c, "granted")
       \/ /\ Present(key[c])
          /\ Goto(c, "refused")
          /\ ttl' = [ttl EXCEPT ![key[c]] = Lease]
          /\ UNCHANGED setter
    /\ UNCHANGED <<key, maxWait, elapsed, held, faults, crashes>>

SetIfAbsent(c) ==
    /\ pc[c] = "set"
    /\ \/ RedisSet(c, key[c]) /\ Goto(c, "granted")
       \/ Present(key[c]) /\ Goto(c, "refused") /\ UNCHANGED <<ttl, setter>>
    /\ UNCHANGED <<key, maxWait, elapsed, held, faults, crashes>>

SetIfAbsentReply(c) ==
    /\ \/ pc[c] = "granted" /\ Goto(c, "locked")
       \/ pc[c] = "refused" /\ Goto(c, "denied")
    /\ UNCHANGED <<ttl, setter, key, maxWait, elapsed, held, faults, crashes>>

(* Mutant: the catch block only logs, as that of HPValueOperations.set.     *)
SetIfAbsentGivesUp(c) ==
    /\ pc[c] \in {"set", "granted", "refused"}
    /\ faults < MaxFaults
    /\ faults' = faults + 1
    /\ Goto(c, "denied")
    /\ held' = [held EXCEPT ![c] = 0]
    /\ UNCHANGED <<ttl, setter, key, maxWait, elapsed, crashes>>

(* The catch block of setIfAbsent goes on to delete the key.               *)
SetIfAbsentFails(c) ==
    /\ pc[c] \in {"set", "granted", "refused"}
    /\ faults < MaxFaults
    /\ faults' = faults + 1
    /\ Goto(c, "clean1")
    /\ held' = [held EXCEPT ![c] = 0]
    /\ UNCHANGED <<ttl, setter, key, maxWait, elapsed, crashes>>

(* HPRedisTemplate.delete, called by that catch block or by releaseLock:    *)
(* it tries once more after an exception, and throws the second exception.  *)
AfterDelete(label) == IF label \in {"clean1", "clean2"} THEN "denied" ELSE "idle"

Delete(c) ==
    /\ pc[c] \in {"clean1", "clean2", "release1", "release2"}
    /\ RedisDelete(key[c])
    /\ Goto(c, AfterDelete(pc[c]))
    /\ held' = [held EXCEPT ![c] = 0]
    /\ UNCHANGED <<key, maxWait, elapsed, faults, crashes>>

DeleteFails(c) ==
    /\ RedisDeleteFails(key[c])
    /\ \/ pc[c] = "clean1" /\ Goto(c, "clean2") /\ UNCHANGED held
       \/ pc[c] = "release1" /\ Goto(c, "release2") /\ UNCHANGED held
       \/ /\ pc[c] \in {"clean2", "release2"}
          /\ Goto(c, "idle")
          /\ held' = [held EXCEPT ![c] = 0]
    /\ UNCHANGED <<key, maxWait, elapsed, crashes>>

(* Mutant: the deadline is not looked at.                                   *)
NeverTimedOut(c) == maxWait[c] = 0

(* setIfAbsent returned false: give up or sleep 200 ms and try again.       *)
TimedOut(c) == maxWait[c] = 0 \/ elapsed[c] > maxWait[c]

(* Mutant: a caller that gives up deletes the key, as a finally would.      *)
GiveUpAndRelease(c) ==
    /\ pc[c] = "denied"
    /\ TimedOut(c)
    /\ RedisDelete(key[c])
    /\ Goto(c, "idle")
    /\ UNCHANGED <<key, maxWait, elapsed, held, faults, crashes>>

GiveUp(c) ==
    /\ pc[c] = "denied"
    /\ TimedOut(c)
    /\ Goto(c, "idle")
    /\ UNCHANGED <<ttl, setter, key, maxWait, elapsed, held, faults, crashes>>

Sleep(c) ==
    /\ pc[c] = "denied"
    /\ ~ TimedOut(c)
    /\ Goto(c, "sleep")
    /\ UNCHANGED <<ttl, setter, key, maxWait, elapsed, held, faults, crashes>>

Wake(c) ==
    /\ pc[c] = "sleep"
    /\ Goto(c, "set")
    /\ UNCHANGED <<ttl, setter, key, maxWait, elapsed, held, faults, crashes>>

ReleaseLock(c) ==
    /\ pc[c] = "locked"
    /\ Goto(c, "release1")
    /\ UNCHANGED <<ttl, setter, key, maxWait, elapsed, held, faults, crashes>>

-----------------------------------------------------------------------------
(* The environment. *)

Crash(c) ==
    /\ pc[c] \notin {"idle", "dead"}
    /\ crashes < MaxCrashes
    /\ crashes' = crashes + 1
    /\ Goto(c, "dead")
    /\ held' = [held EXCEPT ![c] = 0]
    /\ UNCHANGED <<ttl, setter, key, maxWait, elapsed, faults>>

(* One tick of every clock.  A caller gives the lock back within MaxHold.   *)
Tick ==
    /\ \A c \in Clients : pc[c] \in Holding => held[c] < MaxHold
    /\ ttl' = [k \in Keys |-> IF ttl[k] = 0 THEN 0 ELSE ttl[k] - 1]
    /\ setter' = [k \in Keys |-> IF ttl[k] <= 1 THEN NoClient ELSE setter[k]]
    /\ elapsed' = [c \in Clients |->
                      IF pc[c] \in Waiting /\ elapsed[c] < WaitCap
                      THEN elapsed[c] + 1 ELSE elapsed[c]]
    /\ held' = [c \in Clients |-> IF pc[c] \in Holding THEN held[c] + 1 ELSE held[c]]
    /\ UNCHANGED <<pc, key, maxWait, faults, crashes>>

(* The steps a live client takes by itself once it has called getLock.     *)
Step(c) == \/ SetIfAbsent(c) \/ SetIfAbsentReply(c)
           \/ Delete(c)
           \/ GiveUp(c) \/ Sleep(c) \/ Wake(c)
           \/ ReleaseLock(c)

Next == \/ \E c \in Clients : \/ \E k \in Keys, w \in WaitTimes : GetLock(c, k, w)
                              \/ Step(c)
                              \/ SetIfAbsentFails(c) \/ DeleteFails(c)
                              \/ Crash(c)
        \/ Tick

Spec == Init /\ [][Next]_vars

(* Time passes, threads run, and a caller that got the lock releases it.   *)
Fairness == /\ \A c \in Clients : WF_vars(Step(c))
            /\ WF_vars(Tick)

FairSpec == Spec /\ Fairness
-----------------------------------------------------------------------------
(* Properties. *)

(* A caller releases before the lease it asked for runs out.                *)
HoldersAreQuick == MaxHold < Lease

(* Two clients are never both between getLock(k) = true and releaseLock(k). *)
MutualExclusion ==
    \A c, d \in Clients :
        c # d /\ pc[c] = "locked" /\ pc[d] = "locked" => key[c] # key[d]

(* The helper is a lock as long as no redis command has failed: a fault of  *)
(* the network, not a load of callers, timeouts or deaths, ends exclusion.  *)
ExclusiveUntilFault == faults = 0 => MutualExclusion

(* While a client relies on a lock, from the moment redis set the key to    *)
(* the moment it is deleted, the key in redis is the one this client set,   *)
(* and has exactly the rest of the client's lease to live: no release,      *)
(* retry or expiry of another client touched it.                            *)
OwnLease ==
    faults = 0 =>
        \A c \in Clients :
            pc[c] \in Holding => /\ setter[key[c]] = c
                                /\ ttl[key[c]] + held[c] = Lease

(* A key in redis always has a client that will delete it, unless a client  *)
(* died: whatever command fails, once in a behaviour, the second try of     *)
(* HPRedisTemplate.delete and the delete in setIfAbsent's catch block leave  *)
(* no key behind for which the others would wait until the lease is over.   *)
NoOrphanLock ==
    faults <= 1 /\ crashes = 0 =>
        \A k \in Keys :
            Present(k) => /\ setter[k] \in Clients
                          /\ key[setter[k]] = k
                          /\ pc[setter[k]] \in Holding \cup {"clean1", "clean2"}

(* A call of getLock returns, with true, with false or with an exception.   *)
GetLockReturns ==
    \A c \in Clients :
        pc[c] \in Waiting \cup {"granted"} ~> pc[c] \in {"locked", "idle", "dead"}

(* Until a command fails the lock implements the abstract lock service: only *)
(* the client that relies on a key gives it back, redis takes it only after *)
(* its setter died, and takes it some day.                                  *)
Relies == [c \in Clients |-> IF pc[c] \in Holding THEN {key[c]} ELSE {}]

Service == INSTANCE LockService WITH holder <- setter, relies <- Relies, errors <- faults

ImplementsLockService == Service!Spec
=============================================================================

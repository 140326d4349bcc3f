----------------------------- MODULE CachedCalls -----------------------------
(***************************************************************************)
(* Methods whose results the redis plugin caches: AroundInterceptHandle     *)
(* .around with RedisInterceptPlugin over HPHashOperations (useHash, the    *)
(* default).  getReturnValue looks the call up and leaves its key in a      *)
(* ThreadLocal; onAfter puts the result under the key it finds there and    *)
(* removes it.  put is two commands, HSET and EXPIRE of the whole hash.     *)
(*                                                                         *)
(* A call stands for a method with its arguments.  The method is the key of *)
(* a hash, and buildKey makes the field of the method and the arguments: it *)
(* leaves out null arguments and joins the others with "_", so that several *)
(* calls may have one field, and then answer for each other.  A result is   *)
(* named by the call it is the result of.  redis is external, and so is the *)
(* method.                                                                 *)
(***************************************************************************)
EXTENDS Integers, Sequences, FiniteSets

CONSTANTS Workers,   \* threads of the application
          Calls,     \* the calls of cached methods
          Fields,    \* the fields of the hashes
          Hashes,    \* the keys, one per method
          FieldOf,   \* FieldOf[c]: what buildKey makes of call c
          HashOf,    \* HashOf[f]: the key of the hash of field f
          NoResult,  \* no field in the cache
          NoKey,     \* the ThreadLocal is empty
          MaxNesting, \* bound: how deep cached methods nest
          MaxCached, \* bound: calls
          MaxOutages \* bound: redis commands that fail, and crashes

ASSUME CacheAssumption == /\ FieldOf \in [Calls -> Fields]
                          /\ HashOf \in [Fields -> Hashes]
                          /\ NoResult \notin Calls /\ NoKey \notin Fields
                          /\ MaxNesting \in Nat /\ MaxCached \in Nat
                          /\ MaxOutages \in Nat

VARIABLES cache,    \* cache[f]: whose result is stored in field f
          expires,  \* the hashes that have an expiry
          stack,    \* stack[w]: the cached calls that worker w is in
          redisKey, \* redisKey[w]: the ThreadLocal of the plugin
          calls,    \* calls so far
          outages,
          leftover,  \* history: calls in which an inner one left a field behind
          innerMiss, \* history: calls in which an inner one ran its method
          broken,    \* history: calls whose onAfter found no key and threw
          skipped    \* history: fields whose last put did not get to EXPIRE

cacheVars == <<cache, expires, stack, redisKey, calls, outages, leftover,
               innerMiss, broken, skipped>>

CacheTypeOK ==
    /\ cache \in [Fields -> Calls \cup {NoResult}]
    /\ expires \subseteq Hashes
    /\ stack \in [Workers -> Seq([call : Calls, at : {"run", "expire"}])]
    /\ redisKey \in [Workers -> Fields \cup {NoKey}]
    /\ calls \in 0 .. MaxCached /\ outages \in 0 .. MaxOutages
    /\ leftover \subseteq Calls \X Fields
    /\ innerMiss \subseteq Calls /\ broken \subseteq Calls /\ skipped \subseteq Fields

CacheInit ==
    /\ cache = [f \in Fields |-> NoResult]
    /\ expires = {}
    /\ stack = [w \in Workers |-> <<>>]
    /\ redisKey = [w \in Workers |-> NoKey]
    /\ calls = 0 /\ outages = 0
    /\ leftover = {} /\ innerMiss = {} /\ broken = {} /\ skipped = {}

----------------------------------------------------------------------------
Frame(w) == stack[w][Len(stack[w])]
At(w, place) == stack[w] # <<>> /\ Frame(w).at = place
Leave(w) == [stack EXCEPT ![w] = SubSeq(@, 1, Len(@) - 1)]
\* The calls of w inside which the next one is made: the top one, if any.
Around(w) == IF stack[w] = <<>> THEN {} ELSE {Frame(w).call}

\* A hash without fields is no key, and has no expiry.
Live(c) == {HashOf[f] : f \in {g \in Fields : c[g] # NoResult}}

\* A mutation: the key is a field of the plugin and not a ThreadLocal.
SharedKey(w, c) ==
    /\ stack[w] = <<>> \/ At(w, "run")
    /\ Len(stack[w]) < MaxNesting /\ calls < MaxCached
    /\ calls' = calls + 1
    /\ redisKey' = [v \in Workers |-> FieldOf[c]]

\* getReturnValue of call c.
Key(w, c) ==
    /\ stack[w] = <<>> \/ At(w, "run")
    /\ Len(stack[w]) < MaxNesting /\ calls < MaxCached
    /\ calls' = calls + 1
    /\ redisKey' = [redisKey EXCEPT ![w] = FieldOf[c]]

\* The cache has a result: around returns it and leaves the ThreadLocal.
Hit(w, c) ==
    /\ Key(w, c)
    /\ cache[FieldOf[c]] # NoResult
    /\ leftover' = leftover \cup (Around(w) \X {FieldOf[c]})
    /\ UNCHANGED <<cache, expires, stack, outages, innerMiss, broken, skipped>>

\* It has none, or the command failed, which get answers with null.
Miss(w, c) ==
    /\ Key(w, c)
    /\ \/ cache[FieldOf[c]] = NoResult /\ UNCHANGED outages
       \/ outages < MaxOutages /\ outages' = outages + 1
    /\ stack' = [stack EXCEPT ![w] = Append(@, [call |-> c, at |-> "run"])]
    /\ innerMiss' = innerMiss \cup Around(w)
    /\ UNCHANGED <<cache, expires, leftover, broken, skipped>>

\* onAfter has no key and throws in place of the result of the method.
NoKeyLeft(w) ==
    /\ At(w, "run") /\ redisKey[w] = NoKey
    /\ stack' = Leave(w)
    /\ broken' = broken \cup {Frame(w).call}
    /\ UNCHANGED <<cache, expires, redisKey, calls, outages, leftover, innerMiss,
                   skipped>>

\* put without a value (the method threw or returned null), or with an HSET
\* that fails: the catch clause deletes the field.
PutNothing(w) ==
    /\ At(w, "run") /\ redisKey[w] # NoKey
    /\ cache' = [cache EXCEPT ![redisKey[w]] = NoResult]
    /\ expires' = expires \cap Live(cache')
    /\ stack' = Leave(w)
    /\ redisKey' = [redisKey EXCEPT ![w] = NoKey]
    /\ UNCHANGED <<calls, outages, leftover, innerMiss, broken, skipped>>

\* put: HSET of the result of the call that ends.
PutField(w) ==
    /\ At(w, "run") /\ redisKey[w] # NoKey
    /\ cache' = [cache EXCEPT ![redisKey[w]] = Frame(w).call]
    /\ stack' = [stack EXCEPT ![w][Len(stack[w])].at = "expire"]
    /\ skipped' = skipped \ {redisKey[w]}
    /\ UNCHANGED <<expires, redisKey, calls, outages, leftover, innerMiss, broken>>

AfterPut(w) ==
    /\ At(w, "expire")
    /\ stack' = Leave(w)
    /\ redisKey' = [redisKey EXCEPT ![w] = NoKey]
    /\ UNCHANGED <<calls, leftover, innerMiss, broken, skipped>>

\* put: EXPIRE of the hash, if it still is there.
Expire(w) ==
    /\ AfterPut(w)
    /\ expires' = expires \cup ({HashOf[redisKey[w]]} \cap Live(cache))
    /\ UNCHANGED <<cache, outages>>

\* EXPIRE fails: the field is deleted.
ExpireFails(w) ==
    /\ AfterPut(w)
    /\ outages < MaxOutages /\ outages' = outages + 1
    /\ cache' = [cache EXCEPT ![redisKey[w]] = NoResult]
    /\ expires' = expires \cap Live(cache')

\* HSET or EXPIRE fails and so does the DEL, twice: put throws out of
\* onAfter, which does not come to remove the key.
PutThrows(w) ==
    /\ At(w, "expire") \/ (At(w, "run") /\ redisKey[w] # NoKey)
    /\ outages < MaxOutages /\ outages' = outages + 1
    /\ stack' = Leave(w)
    /\ leftover' = IF Len(stack[w]) = 1 THEN leftover
                   ELSE leftover \cup {<<stack[w][Len(stack[w]) - 1].call, redisKey[w]>>}
    /\ skipped' = IF At(w, "expire") THEN skipped \cup {redisKey[w]} ELSE skipped
    /\ UNCHANGED <<cache, expires, redisKey, calls, innerMiss, broken>>

\* The application dies and is started again.
Crash ==
    /\ outages < MaxOutages /\ outages' = outages + 1
    /\ stack' = [w \in Workers |-> <<>>]
    /\ redisKey' = [w \in Workers |-> NoKey]
    /\ skipped' = skipped \cup {redisKey[w] : w \in {v \in Workers : At(v, "expire")}}
    /\ UNCHANGED <<cache, expires, calls, leftover, innerMiss, broken>>

\* redis removes a hash that has expired.
Vanish(h) ==
    /\ h \in expires
    /\ cache' = [f \in Fields |-> IF HashOf[f] = h THEN NoResult ELSE cache[f]]
    /\ expires' = expires \ {h}
    /\ UNCHANGED <<stack, redisKey, calls, outages, leftover, innerMiss, broken,
                   skipped>>

CachedStep(w) ==
    \/ \E c \in Calls : Hit(w, c) \/ Miss(w, c)
    \/ NoKeyLeft(w) \/ PutNothing(w) \/ PutField(w)
    \/ Expire(w) \/ ExpireFails(w) \/ PutThrows(w)

CachedNext ==
    \/ \E w \in Workers : CachedStep(w)
    \/ Crash
    \/ \E h \in Hashes : Vanish(h)

----------------------------------------------------------------------------
(* Properties.                                                             *)

(* What a field holds is the result of a call that has this field, so that  *)
(* a call gets its own result or that of a call that buildKey does not tell *)
(* from it.  Only a call c that called another cached method breaks this,   *)
(* and only for the field of that method: redis answered the inner call, or *)
(* its put threw, its field stayed in the ThreadLocal, and the result of c  *)
(* was put there (RedisInterceptPlugin.java:66).                           *)
CacheHoldsOwnResults ==
    \A f \in Fields :
        LET c == cache[f]
        IN  c # NoResult => FieldOf[c] = f \/ <<c, f>> \in leftover

(* onAfter finds a key: a call that ran its method returns what the method  *)
(* returned.  Only a call inside which another one ran its method does not: *)
(* that one has removed the key (RedisInterceptPlugin.java:72).            *)
OnAfterFindsKey == broken \subseteq innerMiss

(* Whatever is cached expires: the hash of a field has an expiry, or a      *)
(* worker that has put the field is about to set one, or the EXPIRE after   *)
(* the last put of this very field was lost in a crash or threw together    *)
(* with both deletions (HPHashOperations.java:247-248).                    *)
CachedHasExpiry ==
    \A f \in Fields \ skipped :
        cache[f] # NoResult /\ HashOf[f] \notin expires =>
            \E w \in Workers : At(w, "expire") /\ redisKey[w] = f

(* The three together: a cached result belongs to its field, a call that    *)
(* ran its method can store what it got, and nothing stored stays for ever. *)
CacheIsSound == CacheHoldsOwnResults /\ OnAfterFindsKey /\ CachedHasExpiry
=============================================================================

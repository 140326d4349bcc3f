---------------------------- MODULE LockService ----------------------------
(***************************************************************************)
(* What the distributed lock of the redis component promises, without      *)
(* redis: a key has at most one holder, only the client that relies on a   *)
(* key gives it back, and a key is taken from its holder only after the    *)
(* holder died, when nobody relies on the key any more.  The promise ends   *)
(* with the first operation that fails.                                    *)
(***************************************************************************)
CONSTANTS Clients,      \* the processes that call getLock and releaseLock
          Keys,         \* the names of the locks
          NoClient      \* "nobody", not a client

VARIABLES holder,       \* holder[k]: the client k was last given to, or NoClient
          relies,       \* relies[c]: the keys c has and counts on
          errors        \* the number of operations that failed

vars == <<holder, relies, errors>>

Init == /\ holder = [k \in Keys |-> NoClient]
        /\ relies = [c \in Clients |-> {}]
        /\ errors = 0

Acquire(c, k) == /\ holder[k] = NoClient
                 /\ holder' = [holder EXCEPT ![k] = c]
                 /\ relies' = [relies EXCEPT ![c] = @ \cup {k}]

Release(c, k) == /\ k \in relies[c]
                 /\ holder' = [holder EXCEPT ![k] = NoClient]
                 /\ relies' = [relies EXCEPT ![c] = @ \ {k}]

Crash(c) == /\ relies' = [relies EXCEPT ![c] = {}]
            /\ UNCHANGED holder

Abandoned == {k \in Keys : /\ holder[k] # NoClient
                           /\ \A c \in Clients : k \notin relies[c]}

(* The keys whose leases run out at the same instant are freed together.   *)
Expire == \E S \in (SUBSET Abandoned) \ {{}} :
             /\ holder' = [k \in Keys |-> IF k \in S THEN NoClient ELSE holder[k]]
             /\ UNCHANGED relies

Promised == \/ \E c \in Clients, k \in Keys : Acquire(c, k) \/ Release(c, k)
            \/ \E c \in Clients : Crash(c)
            \/ Expire

Next == \/ errors = 0 /\ Promised /\ UNCHANGED errors
        \/ errors' # 0

(* An abandoned key does not stay taken for ever.                          *)
Spec == Init /\ [][Next]_vars /\ WF_vars(errors = 0 /\ Expire /\ UNCHANGED errors)
=============================================================================

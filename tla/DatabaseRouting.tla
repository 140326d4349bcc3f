--------------------------- MODULE DatabaseRouting ---------------------------
(***************************************************************************)
(* The database component: DynamicDatasource, which loads the databases of *)
(* databases.yml and chooses a master or a slave for every connection,     *)
(* ForceMasterInterceptor around methods annotated with @ForceMaster or    *)
(* @Transactional, and DAOMethodInterceptorHandle around DAO methods.      *)
(*                                                                         *)
(* Both interceptors keep their state in thread locals; the flag of        *)
(* ForceMasterInterceptor is an InheritableThreadLocal, which a new thread *)
(* copies from the thread that starts it.  A statement runs at the moment   *)
(* its connection is used, and slaves lag behind their master.             *)
(***************************************************************************)
EXTENDS Naturals, Sequences

CONSTANTS Threads,      \* requests run on some threads, which start others
          FirstThreads, \* the threads that exist from the start
          DatabaseList, \* the databases, in the order of the configuration
          DaosOf,       \* DaosOf[d]: the list "daos" of database d
          Daos,         \* all DAO interfaces, listed or not
          MasterCount,  \* MasterCount[d], SlaveCount[d]: the servers of d
          SlaveCount,
          Nobody,       \* no database, DAO call or connection
          MaxDepth,     \* how deep service methods call each other
          MaxWrites,    \* how many statements change data
          Nested,       \* annotated methods call annotated methods
          Mixed         \* transactions use DAOs of any database

Databases == {DatabaseList[n] : n \in DOMAIN DatabaseList}

(* The keys "master_<database>_<i>" and "slave_<database>_<i>".             *)
Masters(d) == {<<"master", d, i>> : i \in 0 .. MasterCount[d] - 1}
Slaves(d)  == {<<"slave", d, i>> : i \in 0 .. SlaveCount[d] - 1}
Sources    == UNION {Masters(d) \cup Slaves(d) : d \in Databases}

DaoCalls   == [dao : Daos, select : BOOLEAN]

ASSUME ConfigAssumption ==
    /\ DatabaseList \in Seq(Databases) /\ Len(DatabaseList) > 0
    /\ DaosOf \in [Databases -> SUBSET Daos]
    /\ MasterCount \in [Databases -> Nat \ {0}]
    /\ SlaveCount \in [Databases -> Nat]
    /\ Nobody \notin Databases \cup Daos \cup Sources \cup DaoCalls
    /\ FirstThreads \subseteq Threads
    /\ MaxDepth \in Nat /\ MaxWrites \in Nat
    /\ Nested \in BOOLEAN /\ Mixed \in BOOLEAN

VARIABLES startup,           \* "loading", "ready", "failed": logged, not thrown
          position,          \* how many databases afterPropertiesSet has read
          databaseNameMap,   \* the database of a DAO
          masterCount,       \* databaseIPCountMap, 0 for no entry
          slaveCount,
          defaultDatabase,   \* DEFAULT_DATABASE_NAME
          targetDataSources, \* the keys the parent class knows
          started,           \* the threads that exist
          forceMaster,       \* the flag of ForceMasterInterceptor
          calls,             \* calls[t]: the annotations of t's service calls
          routeKey,          \* routeKey[t]: the DAO call of t, its thread local
          connection,        \* connection[t]: where the statement of t runs
          transaction,       \* transaction[t]: the connection Spring bound to t
          inherited,         \* history: t was started inside a forced call and
                             \* has made no annotated call since
          master,            \* master[d]: the writes committed in database d
          replica,           \* replica[s]: those that slave s has
          pending,           \* pending[t]: the writes of t's open transaction
          own,               \* own[t]: what t, or its starter before, has written
          writes             \* the number of writes so far

config == <<startup, position, databaseNameMap, masterCount, slaveCount,
            defaultDatabase, targetDataSources>>
locals == <<started, forceMaster, calls, routeKey, inherited>>
spring == <<connection, transaction>>
data   == <<master, replica, pending, own, writes>>
vars   == <<config, locals, spring, data>>

Annotations == {"none", "ForceMaster", "Transactional"}
Writes      == (1 .. MaxWrites) \X Daos

TypeOK ==
    /\ startup \in {"loading", "ready", "failed"}
    /\ position \in 0 .. Len(DatabaseList)
    /\ databaseNameMap \in [Daos -> Databases \cup {Nobody}]
    /\ \A d \in Databases : masterCount[d] \in {0, MasterCount[d]}
    /\ \A d \in Databases : slaveCount[d] \in {0, SlaveCount[d]}
    /\ defaultDatabase \in Databases \cup {Nobody}
    /\ targetDataSources \in {{}, Sources}
    /\ started \subseteq Threads
    /\ forceMaster \in [Threads -> BOOLEAN]
    /\ calls \in [Threads -> Seq(Annotations)]
    /\ routeKey \in [Threads -> DaoCalls \cup {Nobody}]
    /\ connection \in [Threads -> Sources \cup {Nobody}]
    /\ transaction \in [Threads -> Sources \cup {Nobody}]
    /\ inherited \in [Threads -> BOOLEAN]
    /\ master \in [Databases -> SUBSET Writes]
    /\ replica \in [Sources -> SUBSET Writes]
    /\ pending \in [Threads -> SUBSET Writes]
    /\ own \in [Threads -> SUBSET Writes]
    /\ writes \in 0 .. MaxWrites

Init ==
    /\ startup = "loading" /\ position = 0
    /\ databaseNameMap = [d \in Daos |-> Nobody]
    /\ masterCount = [d \in Databases |-> 0]
    /\ slaveCount = [d \in Databases |-> 0]
    /\ defaultDatabase = Nobody
    /\ targetDataSources = {}
    /\ started = FirstThreads
    /\ forceMaster = [t \in Threads |-> FALSE]
    /\ calls = [t \in Threads |-> <<>>]
    /\ routeKey = [t \in Threads |-> Nobody]
    /\ connection = [t \in Threads |-> Nobody]
    /\ transaction = [t \in Threads |-> Nobody]
    /\ inherited = [t \in Threads |-> FALSE]
    /\ master = [d \in Databases |-> {}]
    /\ replica = [s \in Sources |-> {}]
    /\ pending = [t \in Threads |-> {}]
    /\ own = [t \in Threads |-> {}]
    /\ writes = 0

-----------------------------------------------------------------------------
(* DynamicDatasource.afterPropertiesSet. *)

NextDatabase == DatabaseList[position + 1]

(* One turn of the loop: the first database becomes the default, a DAO      *)
(* belongs to the last database that lists it.                              *)
LoadDatabase ==
    /\ startup = "loading" /\ position < Len(DatabaseList)
    /\ LET d == NextDatabase
       IN  /\ masterCount' = [masterCount EXCEPT ![d] = MasterCount[d]]
           /\ slaveCount' = [slaveCount EXCEPT ![d] = SlaveCount[d]]
           /\ defaultDatabase' = IF position = 0 THEN d ELSE defaultDatabase
           /\ databaseNameMap' = [e \in Daos |-> IF e \in DaosOf[d] THEN d
                                                 ELSE databaseNameMap[e]]
    /\ position' = position + 1
    /\ UNCHANGED <<startup, targetDataSources, locals, spring, data>>

(* An unusable entry: the loop ends, what it has put into the maps stays,   *)
(* and the application starts without data sources.                         *)
LoadFails ==
    /\ startup = "loading" /\ position < Len(DatabaseList)
    /\ startup' = "failed"
    /\ UNCHANGED <<position, databaseNameMap, masterCount, slaveCount, defaultDatabase,
                   targetDataSources, locals, spring, data>>

SetTargetDataSources ==
    /\ startup = "loading" /\ position = Len(DatabaseList)
    /\ startup' = "ready"
    /\ targetDataSources' = Sources
    /\ UNCHANGED <<position, databaseNameMap, masterCount, slaveCount, defaultDatabase,
                   locals, spring, data>>

-----------------------------------------------------------------------------
(* DynamicDatasource.determineCurrentLookupKey: the keys it may return, none *)
(* when it throws.                                                         *)

(* Mutant: selects go anywhere and so does everything else.                 *)
FromMasterByChance(t, call) == IF forceMaster[t] THEN {TRUE} ELSE BOOLEAN

(* getForceMaster: the flag, or by the name of the statement: a select goes *)
(* either way, anything else, and a connection for no DAO, to a master.     *)
FromMaster(t, call) ==
    IF ~ forceMaster[t] /\ call # Nobody /\ call.select THEN BOOLEAN ELSE {TRUE}

DatabaseName(call) ==
    IF call = Nobody \/ databaseNameMap[call.dao] = Nobody
    THEN defaultDatabase ELSE databaseNameMap[call.dao]

DatasourceByKey(d, fromMaster) ==
    IF d = Nobody \/ masterCount[d] = 0 THEN {}
    ELSE IF fromMaster \/ slaveCount[d] = 0
         THEN {<<"master", d, i>> : i \in 0 .. masterCount[d] - 1}
         ELSE {<<"slave", d, i>> : i \in 0 .. slaveCount[d] - 1}

LookupKeys(t, call) ==
    UNION {DatasourceByKey(DatabaseName(call), m) : m \in FromMaster(t, call)}

(* The parent class throws when it has no data source under the key.        *)
Connections(t, call) == LookupKeys(t, call) \cap targetDataSources

-----------------------------------------------------------------------------
(* Service methods, threads and transactions. *)

Annotated(t)   == \E n \in DOMAIN calls[t] : calls[t][n] # "none"
Working(t)     == startup # "loading" /\ t \in started /\ routeKey[t] = Nobody
LastAnnotated(t, a) == \A n \in 1 .. Len(calls[t]) - 1 : calls[t][n] # a

MayCall(t, a) ==
    /\ Working(t)
    /\ Len(calls[t]) < MaxDepth
    /\ a # "none" /\ Annotated(t) => Nested

(* A method with @Transactional opens a transaction unless one is open; it  *)
(* gets its connection before any DAO is called.                           *)
Begin(t, a) ==
    IF a = "Transactional" /\ transaction[t] = Nobody
    THEN \E s \in Connections(t, routeKey[t]) :
            transaction' = [transaction EXCEPT ![t] = s]
    ELSE UNCHANGED transaction

CallService(t, a) ==
    /\ MayCall(t, a)
    /\ Begin(t, a)
    /\ calls' = [calls EXCEPT ![t] = Append(@, a)]
    /\ forceMaster' = [forceMaster EXCEPT ![t] = @ \/ a # "none"]
    /\ UNCHANGED <<config, started, routeKey, inherited, connection, data>>

(* Without a connection the call throws; the order of the two interceptors  *)
(* is not configured, so the flag was set and removed or never set.         *)
BeginFails(t) ==
    /\ MayCall(t, "Transactional")
    /\ transaction[t] = Nobody /\ Connections(t, routeKey[t]) = {}
    /\ forceMaster' \in {forceMaster, [forceMaster EXCEPT ![t] = FALSE]}
    /\ inherited' = [inherited EXCEPT ![t] = @ /\ forceMaster'[t]]
    /\ UNCHANGED <<config, started, calls, routeKey, spring, data>>

(* The outermost transactional method commits or rolls back.                *)
Commit(t) ==
    /\ master' = [master EXCEPT ![transaction[t][2]] = @ \cup pending[t]]
    /\ UNCHANGED own
Rollback(t) ==
    /\ own' = [own EXCEPT ![t] = @ \ pending[t]]
    /\ UNCHANGED master

EndTransaction(t, a) ==
    IF a = "Transactional" /\ LastAnnotated(t, a)
    THEN /\ Commit(t) \/ Rollback(t)
         /\ pending' = [pending EXCEPT ![t] = {}]
         /\ transaction' = [transaction EXCEPT ![t] = Nobody]
         /\ UNCHANGED <<replica, writes>>
    ELSE UNCHANGED <<data, transaction>>

(* Mutant: the flag is removed only when the method returns normally.       *)
ReturnWithoutFinally(t) ==
    /\ Working(t) /\ calls[t] # <<>>
    /\ LET a == calls[t][Len(calls[t])]
       IN  /\ EndTransaction(t, a)
           /\ \E thrown \in BOOLEAN :
                forceMaster' = [forceMaster EXCEPT ![t] = @ /\ (a = "none" \/ thrown)]
           /\ inherited' = [inherited EXCEPT ![t] = @ /\ a = "none"]
    /\ calls' = [calls EXCEPT ![t] = SubSeq(@, 1, Len(@) - 1)]
    /\ UNCHANGED <<config, started, routeKey, connection>>

(* A service method returns or throws; the finally block removes the flag.  *)
Return(t) ==
    /\ Working(t) /\ calls[t] # <<>>
    /\ LET a == calls[t][Len(calls[t])]
       IN  /\ EndTransaction(t, a)
           /\ forceMaster' = [forceMaster EXCEPT ![t] = @ /\ a = "none"]
           /\ inherited' = [inherited EXCEPT ![t] = @ /\ a = "none"]
    /\ calls' = [calls EXCEPT ![t] = SubSeq(@, 1, Len(@) - 1)]
    /\ UNCHANGED <<config, started, routeKey, connection>>

(* Mutant: the flag is an ordinary ThreadLocal.                             *)
StartPlainThread(t, u) ==
    /\ Working(t) /\ calls[t] # <<>> /\ u \notin started
    /\ started' = started \cup {u}
    /\ inherited' = [inherited EXCEPT ![u] = forceMaster[t]]
    /\ own' = [own EXCEPT ![u] = own[t] \ pending[t]]
    /\ UNCHANGED <<config, forceMaster, calls, routeKey, spring, master, replica,
                   pending, writes>>

(* A service method starts a thread, which inherits the flag but not the    *)
(* transaction.                                                            *)
StartThread(t, u) ==
    /\ Working(t) /\ calls[t] # <<>> /\ u \notin started
    /\ started' = started \cup {u}
    /\ forceMaster' = [forceMaster EXCEPT ![u] = forceMaster[t]]
    /\ inherited' = [inherited EXCEPT ![u] = forceMaster[t]]
    /\ own' = [own EXCEPT ![u] = own[t] \ pending[t]]
    /\ UNCHANGED <<config, calls, routeKey, spring, master, replica, pending, writes>>

-----------------------------------------------------------------------------
(* DAO methods: DAOMethodInterceptorHandle.invoke. *)

CallDao(t, call) ==
    /\ Working(t)
    /\ transaction[t] # Nobody /\ ~ Mixed
          => DatabaseName(call) = defaultDatabase
    /\ writes < MaxWrites \/ call.select
    /\ routeKey' = [routeKey EXCEPT ![t] = call]
    /\ UNCHANGED <<config, started, forceMaster, calls, inherited, spring, data>>

(* The statement uses the connection of the transaction, or asks for one.   *)
Connect(t) ==
    /\ routeKey[t] # Nobody /\ connection[t] = Nobody
    /\ \E s \in IF transaction[t] # Nobody THEN {transaction[t]}
                ELSE Connections(t, routeKey[t]) :
          connection' = [connection EXCEPT ![t] = s]
    /\ UNCHANGED <<config, locals, transaction, data>>

ConnectFails(t) ==
    /\ routeKey[t] # Nobody /\ connection[t] = Nobody
    /\ transaction[t] = Nobody /\ Connections(t, routeKey[t]) = {}
    /\ routeKey' = [routeKey EXCEPT ![t] = Nobody]
    /\ UNCHANGED <<config, started, forceMaster, calls, inherited, spring, data>>

Write(t) ==
    LET w == <<writes + 1, routeKey[t].dao>>
    IN  /\ writes < MaxWrites
        /\ writes' = writes + 1
        /\ own' = [own EXCEPT ![t] = @ \cup {w}]
        /\ IF transaction[t] # Nobody
           THEN /\ pending' = [pending EXCEPT ![t] = @ \cup {w}]
                /\ UNCHANGED <<master, replica>>
           ELSE /\ master' = [master EXCEPT ![connection[t][2]] = @ \cup {w}]
                /\ UNCHANGED <<pending, replica>>

(* The statement runs, or fails, and the finally block clears routeKey.     *)
Execute(t) ==
    /\ connection[t] # Nobody
    /\ (~ routeKey[t].select /\ Write(t)) \/ UNCHANGED data
    /\ connection' = [connection EXCEPT ![t] = Nobody]
    /\ routeKey' = [routeKey EXCEPT ![t] = Nobody]
    /\ UNCHANGED <<config, started, forceMaster, calls, inherited, transaction>>

(* A slave catches up.                                                     *)
Replicate(d, i) ==
    /\ replica[<<"slave", d, i>>] # master[d]
    /\ replica' = [replica EXCEPT ![<<"slave", d, i>>] = master[d]]
    /\ UNCHANGED <<config, locals, spring, master, pending, own, writes>>

-----------------------------------------------------------------------------
Next == \/ LoadDatabase \/ LoadFails \/ SetTargetDataSources
        \/ \E t \in Threads :
              \/ \E a \in Annotations : CallService(t, a)
              \/ BeginFails(t) \/ Return(t)
              \/ \E u \in Threads : StartThread(t, u)
              \/ \E call \in DaoCalls : CallDao(t, call)
              \/ Connect(t) \/ ConnectFails(t) \/ Execute(t)
        \/ \E d \in Databases : \E i \in 0 .. SlaveCount[d] - 1 : Replicate(d, i)

Spec == Init /\ [][Next]_vars

-----------------------------------------------------------------------------
(* Properties. *)

Listed(dao, d) == dao \in DaosOf[d]

(* A statement runs on a server of a database that lists its DAO, or of the *)
(* first database when none does; only a select runs on a slave.  When a    *)
(* database could not be loaded no statement runs at all, whatever the      *)
(* loop had already put into the maps.                                     *)
StatementOnOwnDatabase ==
    \A t \in Threads : connection[t] # Nobody =>
        LET s == connection[t]
            dao == routeKey[t].dao
        IN  /\ startup = "ready"
            /\ \/ Listed(dao, s[2])
               \/ s[2] = DatabaseList[1] /\ \A d \in Databases : ~ Listed(dao, d)
            /\ s[1] = "slave" => routeKey[t].select

(* What a statement of t sees of the writes made through its DAO.           *)
Visible(t) == LET s == connection[t]
              IN  IF s[1] = "slave" THEN replica[s]
                  ELSE master[s[2]] \cup (IF transaction[t] = s THEN pending[t] ELSE {})

(* A select inside a method annotated with @ForceMaster or @Transactional,  *)
(* or on a thread started inside one, sees all that the thread, and before  *)
(* it its starter, has written through the same DAO, however far the slaves *)
(* lag behind.                                                             *)
ReadYourWrites ==
    \A t \in Threads :
        connection[t] # Nobody /\ (Annotated(t) \/ inherited[t]) =>
            {w \in own[t] : w[2] = routeKey[t].dao} \subseteq Visible(t)

(* Between requests a pooled thread carries nothing of the last request:    *)
(* the flag is up only inside an annotated call or on a thread that was     *)
(* born with it, whatever threw on the way.                                 *)
FlagIsScoped ==
    \A t \in Threads : forceMaster[t] => Annotated(t) \/ inherited[t]
=============================================================================

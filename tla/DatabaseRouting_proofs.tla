------------------------ MODULE DatabaseRouting_proofs ------------------------
(***************************************************************************)
(* Proofs about DatabaseRouting, for any databases, servers, DAOs, threads,  *)
(* depth of calls and number of writes: where statements run, how far the   *)
(* flag of ForceMasterInterceptor reaches, and what forced reads see.       *)
(***************************************************************************)
EXTENDS DatabaseRouting, SequenceTheorems, TLAPS

(* The shape of the configuration and of the state of the threads.          *)
ConfigShape ==
    /\ startup \in {"loading", "ready", "failed"}
    /\ position \in 0 .. Len(DatabaseList)
    /\ databaseNameMap \in [Daos -> Databases \cup {Nobody}]
    /\ masterCount \in [Databases -> Nat] /\ slaveCount \in [Databases -> Nat]
    /\ \A d \in Databases : masterCount[d] \in {0, MasterCount[d]}
    /\ \A d \in Databases : slaveCount[d] \in {0, SlaveCount[d]}
    /\ defaultDatabase \in Databases \cup {Nobody}
    /\ targetDataSources \in {{}, Sources}

ThreadShape ==
    /\ started \subseteq Threads
    /\ forceMaster \in [Threads -> BOOLEAN]
    /\ calls \in [Threads -> Seq(Annotations)]
    /\ routeKey \in [Threads -> DaoCalls \cup {Nobody}]
    /\ connection \in [Threads -> Sources \cup {Nobody}]
    /\ transaction \in [Threads -> Sources \cup {Nobody}]
    /\ inherited \in [Threads -> BOOLEAN]

DataShape ==
    /\ master \in [Databases -> SUBSET Writes]
    /\ replica \in [Sources -> SUBSET Writes]
    /\ pending \in [Threads -> SUBSET Writes]
    /\ own \in [Threads -> SUBSET Writes]
    /\ writes \in 0 .. MaxWrites

(* What the loop of afterPropertiesSet has read: a DAO has a database as     *)
(* soon as one of those read lists it, and it is one that does.            *)
Loaded ==
    /\ position > 0 => defaultDatabase = DatabaseList[1]
    /\ startup = "ready" => position = Len(DatabaseList)
    /\ targetDataSources # {} => startup = "ready"
    /\ \A e \in Daos : databaseNameMap[e] # Nobody => e \in DaosOf[databaseNameMap[e]]
    /\ \A e \in Daos, n \in 1 .. position :
         e \in DaosOf[DatabaseList[n]] => databaseNameMap[e] # Nobody

(* A thread that has not been started does nothing.                         *)
Unstarted ==
    \A t \in Threads \ started :
        /\ routeKey[t] = Nobody /\ connection[t] = Nobody
        /\ transaction[t] = Nobody /\ calls[t] = <<>>

(* A transaction is open inside a transactional call, on a master of the    *)
(* first database; only a statement under way has a connection.             *)
TransactionsNest ==
    \A t \in Threads :
        /\ transaction[t] # Nobody
              <=> \E n \in DOMAIN calls[t] : calls[t][n] = "Transactional"
        /\ transaction[t] # Nobody =>
              /\ startup = "ready"
              /\ transaction[t][1] = "master" /\ transaction[t][2] = DatabaseList[1]

(* The database in which the rows of a DAO live.                            *)
Home(dao) == IF databaseNameMap[dao] = Nobody THEN defaultDatabase
                                              ELSE databaseNameMap[dao]

(* The connection of a statement is the transaction's, or one of the         *)
(* database of its DAO, and a forced statement has no slave.               *)
Connected ==
    \A t \in Threads : connection[t] # Nobody =>
        /\ startup = "ready" /\ routeKey[t] # Nobody
        /\ transaction[t] # Nobody => connection[t] = transaction[t]
        /\ transaction[t] = Nobody =>
              /\ connection[t][2] = Home(routeKey[t].dao)
              /\ connection[t][1] = "slave" => routeKey[t].select /\ ~ forceMaster[t]

(* A transaction uses the DAOs of its own database.                         *)
Unmixed ==
    ~ Mixed => \A t \in Threads :
        transaction[t] # Nobody /\ routeKey[t] # Nobody =>
            Home(routeKey[t].dao) = defaultDatabase

(* Without calls of annotated methods by annotated ones the flag is up all   *)
(* through an annotated call and on a thread that was born in one.          *)
FlagIsUp ==
    ~ Nested => \A t \in Threads :
        /\ Annotated(t) \/ inherited[t] => forceMaster[t]
        /\ \A n, m \in DOMAIN calls[t] :
             calls[t][n] # "none" /\ calls[t][m] # "none" => n = m

(* What a thread has written is in its open transaction or committed in the *)
(* database of the DAO it was written through.                             *)
OwnIsStored ==
    ~ Mixed => \A t \in Threads :
        /\ transaction[t] = Nobody => pending[t] = {}
        /\ own[t] # {} \/ pending[t] # {} => startup = "ready"
        /\ \A w \in pending[t] : Home(w[2]) = defaultDatabase
        /\ \A w \in own[t] : w \in pending[t] \/ w \in master[Home(w[2])]

RoutingInv ==
    /\ ConfigShape /\ ThreadShape /\ DataShape
    /\ Loaded /\ Unstarted /\ TransactionsNest /\ Connected /\ Unmixed
    /\ FlagIsScoped /\ FlagIsUp /\ OwnIsStored
-----------------------------------------------------------------------------
(* What a connection can be, and what a step that leaves the configuration  *)
(* alone keeps.                                                            *)

LEMMA FirstDatabase ==
    /\ DatabaseList[1] \in Databases
    /\ \A n \in 1 .. Len(DatabaseList) : DatabaseList[n] \in Databases
BY ConfigAssumption, ElementOfSeq, LenProperties

LEMMA SourceShape ==
    ASSUME NEW s \in Sources
    PROVE  s[1] \in {"master", "slave"} /\ s[2] \in Databases /\ s # Nobody
<1>1. PICK d \in Databases : s \in Masters(d) \cup Slaves(d)
  BY DEF Sources
<1>2. s # Nobody
  BY ConfigAssumption
<1> QED
  BY <1>1, <1>2 DEF Masters, Slaves

(* determineCurrentLookupKey: the server belongs to the database of the DAO, *)
(* or to the first one, and is a slave only for an unforced select.        *)
LEMMA ConnectionShape ==
    ASSUME RoutingInv, NEW t \in Threads, NEW call \in DaoCalls \cup {Nobody},
           NEW s \in Connections(t, call)
    PROVE  /\ startup = "ready" /\ s \in Sources
           /\ call = Nobody => s[1] = "master" /\ s[2] = DatabaseList[1]
           /\ call # Nobody => /\ s[2] = Home(call.dao)
                               /\ s[1] = "slave" => call.select /\ ~ forceMaster[t]
<1>1. s \in targetDataSources /\ startup = "ready" /\ s \in Sources
  BY DEF Connections, RoutingInv, Loaded, ConfigShape
<1>2. PICK m \in FromMaster(t, call) : s \in DatasourceByKey(DatabaseName(call), m)
  BY DEF Connections, LookupKeys
<1>3. /\ s[2] = DatabaseName(call)
      /\ s[1] = "master" \/ (s[1] = "slave" /\ ~ m)
  BY <1>2 DEF DatasourceByKey
<1>4. m \in BOOLEAN /\ (~ m => ~ forceMaster[t] /\ call # Nobody /\ call.select)
  BY <1>2 DEF FromMaster
<1>5. defaultDatabase = DatabaseList[1]
  BY <1>1, ConfigAssumption, LenProperties DEF RoutingInv, Loaded
<1> QED
  BY <1>1, <1>3, <1>4, <1>5 DEF DatabaseName, Home

LEMMA ConfigKept ==
    ASSUME RoutingInv, UNCHANGED config
    PROVE  /\ ConfigShape' /\ Loaded'
           /\ \A e : Home(e)' = Home(e)
           /\ startup' = startup /\ defaultDatabase' = defaultDatabase
BY DEF RoutingInv, config, ConfigShape, Loaded, Home

LEMMA InitRouting == Init => RoutingInv
<1> SUFFICES ASSUME Init PROVE RoutingInv
  OBVIOUS
<1>1. \A t \in Threads : calls[t] = <<>> /\ DOMAIN calls[t] = {}
  <2>1. DOMAIN <<>> = {}
    BY EmptySeq, LenProperties
  <2> QED
    BY <2>1 DEF Init
<1>2. ConfigShape
  BY ConfigAssumption, LenProperties DEF Init, ConfigShape
<1>3. ThreadShape
  BY ConfigAssumption, EmptySeq DEF Init, ThreadShape
<1>4. DataShape
  BY ConfigAssumption DEF Init, DataShape
<1>5. Loaded /\ Unstarted /\ Connected /\ Unmixed
  BY ConfigAssumption DEF Init, Loaded, Unstarted, Connected, Unmixed
<1>6. TransactionsNest /\ FlagIsScoped /\ FlagIsUp
  BY <1>1 DEF Init, TransactionsNest, FlagIsScoped, FlagIsUp, Annotated
<1>7. OwnIsStored
  BY DEF Init, OwnIsStored
<1> QED
  BY <1>2, <1>3, <1>4, <1>5, <1>6, <1>7 DEF RoutingInv
-----------------------------------------------------------------------------
(* The start: no statement runs and no transaction is open while the loop    *)
(* reads the configuration.                                                *)

LEMMA LoadingKeepsInv ==
    ASSUME RoutingInv, startup = "loading", ConfigShape', Loaded',
           UNCHANGED <<locals, spring, data>>
    PROVE  RoutingInv'
<1>1. \A t \in Threads : connection[t] = Nobody /\ transaction[t] = Nobody
  BY DEF RoutingInv, TransactionsNest, Connected
<1>2. ThreadShape' /\ DataShape' /\ Unstarted'
  BY DEF RoutingInv, ThreadShape, DataShape, Unstarted, locals, spring, data
<1>3. TransactionsNest' /\ Connected' /\ Unmixed'
  BY <1>1 DEF RoutingInv, TransactionsNest, Connected, Unmixed, locals, spring
<1>4. FlagIsScoped' /\ FlagIsUp'
  BY DEF RoutingInv, FlagIsScoped, FlagIsUp, Annotated, locals
<1>5. OwnIsStored'
  BY <1>1 DEF RoutingInv, OwnIsStored, spring, data
<1> QED
  BY <1>2, <1>3, <1>4, <1>5 DEF RoutingInv

LEMMA LoadDatabaseKeepsInv ==
    ASSUME RoutingInv, LoadDatabase
    PROVE  RoutingInv'
<1>1. /\ startup = "loading" /\ position' = position + 1
      /\ position \in 0 .. Len(DatabaseList) - 1 /\ Len(DatabaseList) \in Nat
      /\ NextDatabase \in Databases
  BY ConfigAssumption, FirstDatabase, LenProperties
  DEF LoadDatabase, RoutingInv, ConfigShape, NextDatabase
<1>2. ConfigShape'
  <2>1. /\ masterCount' = [masterCount EXCEPT ![NextDatabase] = MasterCount[NextDatabase]]
        /\ slaveCount' = [slaveCount EXCEPT ![NextDatabase] = SlaveCount[NextDatabase]]
    BY DEF LoadDatabase
  <2>2. MasterCount[NextDatabase] \in Nat /\ SlaveCount[NextDatabase] \in Nat
    BY <1>1, ConfigAssumption
  <2>3. /\ masterCount' \in [Databases -> Nat]
        /\ \A d \in Databases : masterCount'[d] \in {0, MasterCount[d]}
    BY <2>1, <2>2 DEF RoutingInv, ConfigShape
  <2>4. /\ slaveCount' \in [Databases -> Nat]
        /\ \A d \in Databases : slaveCount'[d] \in {0, SlaveCount[d]}
    BY <2>1, <2>2 DEF RoutingInv, ConfigShape
  <2>5. /\ databaseNameMap' \in [Daos -> Databases \cup {Nobody}]
        /\ defaultDatabase' \in Databases \cup {Nobody}
    BY <1>1 DEF LoadDatabase, RoutingInv, ConfigShape
  <2> QED
    BY <1>1, <2>3, <2>4, <2>5 DEF LoadDatabase, RoutingInv, ConfigShape
<1>3. Loaded'
  <2>1. position' > 0 /\ defaultDatabase' = DatabaseList[1]
    BY <1>1 DEF LoadDatabase, RoutingInv, Loaded, NextDatabase
  <2>2. startup' = "loading" /\ targetDataSources' = {}
    BY <1>1 DEF LoadDatabase, RoutingInv, Loaded
  <2>3. \A e \in Daos : databaseNameMap'[e] = IF e \in DaosOf[NextDatabase]
                                             THEN NextDatabase ELSE databaseNameMap[e]
    BY DEF LoadDatabase
  <2>4. \A e \in Daos : databaseNameMap'[e] # Nobody => e \in DaosOf[databaseNameMap'[e]]
    BY <2>3 DEF RoutingInv, Loaded
  <2>5. \A e \in Daos, n \in 1 .. position' :
            e \in DaosOf[DatabaseList[n]] => databaseNameMap'[e] # Nobody
    <3> SUFFICES ASSUME NEW e \in Daos, NEW n \in 1 .. position',
                        e \in DaosOf[DatabaseList[n]]
                 PROVE  databaseNameMap'[e] # Nobody
      OBVIOUS
    <3>1. CASE e \in DaosOf[NextDatabase]
      BY <1>1, <2>3, <3>1, ConfigAssumption
    <3>2. CASE e \notin DaosOf[NextDatabase]
      <4>1. n # position + 1
        BY <3>2 DEF NextDatabase
      <4>2. n \in 1 .. position
        BY <1>1, <4>1
      <4>3. databaseNameMap[e] # Nobody
        BY <4>2 DEF RoutingInv, Loaded
      <4> QED
        BY <2>3, <3>2, <4>3
    <3> QED
      BY <3>1, <3>2
  <2> QED
    BY <2>1, <2>2, <2>4, <2>5 DEF Loaded
<1>4. UNCHANGED <<locals, spring, data>>
  BY DEF LoadDatabase
<1> QED
  BY <1>1, <1>2, <1>3, <1>4, LoadingKeepsInv

LEMMA LoadFailsKeepsInv ==
    ASSUME RoutingInv, LoadFails
    PROVE  RoutingInv'
<1>1. ConfigShape'
  BY DEF LoadFails, RoutingInv, ConfigShape
<1>2. Loaded'
  BY DEF LoadFails, RoutingInv, Loaded
<1>3. startup = "loading" /\ UNCHANGED <<locals, spring, data>>
  BY DEF LoadFails
<1> QED
  BY <1>1, <1>2, <1>3, LoadingKeepsInv

LEMMA SetTargetDataSourcesKeepsInv ==
    ASSUME RoutingInv, SetTargetDataSources
    PROVE  RoutingInv'
<1>1. ConfigShape'
  BY DEF SetTargetDataSources, RoutingInv, ConfigShape
<1>2. Loaded'
  BY DEF SetTargetDataSources, RoutingInv, Loaded
<1>3. startup = "loading" /\ UNCHANGED <<locals, spring, data>>
  BY DEF SetTargetDataSources
<1> QED
  BY <1>1, <1>2, <1>3, LoadingKeepsInv
-----------------------------------------------------------------------------
(* Service methods and threads.                                            *)

LEMMA CallServiceKeepsInv ==
    ASSUME RoutingInv, NEW t \in Threads, NEW a \in Annotations, CallService(t, a)
    PROVE  RoutingInv'
<1>1. /\ UNCHANGED config /\ UNCHANGED data /\ UNCHANGED <<started, routeKey, inherited, connection>>
      /\ t \in started /\ routeKey[t] = Nobody /\ connection[t] = Nobody
      /\ Annotated(t) /\ a # "none" => Nested
  BY DEF CallService, MayCall, Working, RoutingInv, Connected
<1>2. ConfigShape' /\ Loaded' /\ (\A e : Home(e)' = Home(e))
      /\ startup' = startup /\ defaultDatabase' = defaultDatabase
  BY <1>1, ConfigKept
<1>3. /\ calls[t] \in Seq(Annotations) /\ calls' = [calls EXCEPT ![t] = Append(calls[t], a)]
      /\ forceMaster' = [forceMaster EXCEPT ![t] = forceMaster[t] \/ a # "none"]
  BY DEF CallService, RoutingInv, ThreadShape
<1>4. /\ Len(calls[t]) \in Nat /\ DOMAIN calls[t] = 1 .. Len(calls[t])
      /\ calls'[t] \in Seq(Annotations) /\ DOMAIN calls'[t] = 1 .. Len(calls[t]) + 1
      /\ \A n \in 1 .. Len(calls[t]) + 1 :
           calls'[t][n] = IF n <= Len(calls[t]) THEN calls[t][n] ELSE a
  <2>1. calls'[t] = Append(calls[t], a)
    BY <1>3 DEF RoutingInv, ThreadShape
  <2>2. Append(calls[t], a) \in Seq(Annotations)
    BY <1>3, AppendProperties
  <2>3. DOMAIN Append(calls[t], a) = 1 .. Len(Append(calls[t], a))
    BY <2>2, LenProperties
  <2> QED
    BY <1>3, <2>1, <2>2, <2>3, AppendProperties, LenProperties
<1>5. \A u \in Threads : u # t =>
         /\ calls'[u] = calls[u] /\ forceMaster'[u] = forceMaster[u]
         /\ transaction'[u] = transaction[u]
  BY <1>3 DEF CallService, Begin, RoutingInv, ThreadShape
<1>6. \/ transaction' = transaction /\ (a # "Transactional" \/ transaction[t] # Nobody)
      \/ /\ a = "Transactional" /\ transaction[t] = Nobody
         /\ transaction' \in [Threads -> Sources \cup {Nobody}]
         /\ transaction'[t] # Nobody /\ startup = "ready"
         /\ transaction'[t][1] = "master" /\ transaction'[t][2] = DatabaseList[1]
  <2>1. CASE a = "Transactional" /\ transaction[t] = Nobody
    <3>1. PICK s \in Connections(t, routeKey[t]) : transaction' = [transaction EXCEPT ![t] = s]
      BY <2>1 DEF CallService, Begin
    <3>2. /\ startup = "ready" /\ s \in Sources /\ s[1] = "master" /\ s[2] = DatabaseList[1]
      BY <1>1, ConnectionShape
    <3> QED
      BY <2>1, <3>1, <3>2, SourceShape DEF RoutingInv, ThreadShape
  <2>2. CASE ~ (a = "Transactional" /\ transaction[t] = Nobody)
    BY <2>2 DEF CallService, Begin
  <2> QED
    BY <2>1, <2>2
<1>7. ThreadShape'
  BY <1>1, <1>3, <1>4, <1>6 DEF RoutingInv, ThreadShape
<1>8. DataShape'
  BY <1>1 DEF RoutingInv, DataShape, data
<1>9. Unstarted'
  BY <1>1, <1>5 DEF RoutingInv, Unstarted
<1>10. TransactionsNest'
  <2>1. (\E n \in DOMAIN calls'[t] : calls'[t][n] = "Transactional")
          <=> \/ a = "Transactional"
              \/ \E n \in DOMAIN calls[t] : calls[t][n] = "Transactional"
    BY <1>4
  <2>2. /\ transaction'[t] # Nobody
             <=> \E n \in DOMAIN calls'[t] : calls'[t][n] = "Transactional"
        /\ transaction'[t] # Nobody =>
             /\ startup = "ready" /\ transaction'[t][1] = "master"
             /\ transaction'[t][2] = DatabaseList[1]
    BY <1>6, <2>1 DEF RoutingInv, TransactionsNest
  <2>3. \A u \in Threads : u # t =>
          /\ transaction'[u] # Nobody
               <=> \E n \in DOMAIN calls'[u] : calls'[u][n] = "Transactional"
          /\ transaction'[u] # Nobody =>
               /\ startup = "ready" /\ transaction'[u][1] = "master"
               /\ transaction'[u][2] = DatabaseList[1]
    BY <1>5 DEF RoutingInv, TransactionsNest
  <2> QED
    BY <1>2, <2>2, <2>3 DEF TransactionsNest
<1>11. Connected' /\ Unmixed'
  BY <1>1, <1>2, <1>5 DEF RoutingInv, Connected, Unmixed
<1>12. FlagIsScoped' /\ FlagIsUp'
  <2>1. forceMaster'[t] = (forceMaster[t] \/ a # "none")
    BY <1>3 DEF RoutingInv, ThreadShape
  <2>2. Annotated(t)' <=> Annotated(t) \/ a # "none"
    BY <1>4 DEF Annotated
  <2>3. \A u \in Threads : u # t => (Annotated(u)' <=> Annotated(u))
    BY <1>5 DEF Annotated
  <2>4. FlagIsScoped'
    BY <1>1, <1>5, <2>1, <2>2, <2>3 DEF RoutingInv, FlagIsScoped
  <2>5. ~ Nested => \A n, m \in DOMAIN calls'[t] :
            calls'[t][n] # "none" /\ calls'[t][m] # "none" => n = m
    BY <1>1, <1>4 DEF RoutingInv, FlagIsUp, Annotated
  <2>6. ~ Nested => (Annotated(t)' \/ inherited'[t] => forceMaster'[t])
    BY <1>1, <2>1, <2>2 DEF RoutingInv, FlagIsUp
  <2>7. FlagIsUp'
    BY <1>1, <1>5, <2>3, <2>5, <2>6 DEF RoutingInv, FlagIsUp
  <2> QED
    BY <2>4, <2>7
<1>13. OwnIsStored'
  BY <1>1, <1>2, <1>5, <1>6 DEF RoutingInv, OwnIsStored, data
<1> QED
  BY <1>2, <1>7, <1>8, <1>9, <1>10, <1>11, <1>12, <1>13 DEF RoutingInv

LEMMA BeginFailsKeepsInv ==
    ASSUME RoutingInv, NEW t \in Threads, BeginFails(t)
    PROVE  RoutingInv'
<1>1. /\ UNCHANGED config /\ UNCHANGED <<spring, data, started, calls, routeKey>>
      /\ routeKey[t] = Nobody /\ connection[t] = Nobody
      /\ Annotated(t) => Nested
  BY DEF BeginFails, MayCall, Working, RoutingInv, Connected
<1>2. ConfigShape' /\ Loaded' /\ (\A e : Home(e)' = Home(e))
      /\ startup' = startup /\ defaultDatabase' = defaultDatabase
  BY <1>1, ConfigKept
<1>3. /\ forceMaster' \in [Threads -> BOOLEAN]
      /\ forceMaster'[t] => forceMaster[t]
      /\ inherited' \in [Threads -> BOOLEAN]
      /\ inherited'[t] = (inherited[t] /\ forceMaster'[t])
      /\ \A u \in Threads : u # t => /\ forceMaster'[u] = forceMaster[u]
                                     /\ inherited'[u] = inherited[u]
  <2>1. forceMaster' = forceMaster \/ forceMaster' = [forceMaster EXCEPT ![t] = FALSE]
    BY DEF BeginFails
  <2>2. inherited' = [inherited EXCEPT ![t] = inherited[t] /\ forceMaster'[t]]
    BY DEF BeginFails
  <2>3. /\ forceMaster' \in [Threads -> BOOLEAN]
        /\ forceMaster'[t] => forceMaster[t]
        /\ \A u \in Threads : u # t => forceMaster'[u] = forceMaster[u]
    BY <2>1 DEF RoutingInv, ThreadShape
  <2> QED
    BY <2>2, <2>3 DEF RoutingInv, ThreadShape
<1>4. ThreadShape' /\ DataShape' /\ Unstarted'
  BY <1>1, <1>3 DEF RoutingInv, ThreadShape, DataShape, Unstarted, spring, data
<1>5. TransactionsNest' /\ Unmixed' /\ OwnIsStored'
  BY <1>1, <1>2 DEF RoutingInv, TransactionsNest, Unmixed, OwnIsStored, spring, data
<1>6. Connected'
  BY <1>1, <1>2, <1>3 DEF RoutingInv, Connected, spring
<1>7. \A u \in Threads : Annotated(u)' <=> Annotated(u)
  BY <1>1 DEF Annotated
<1>8. FlagIsScoped'
  <2>1. forceMaster'[t] => Annotated(t)' \/ inherited'[t]
    BY <1>3, <1>7 DEF RoutingInv, FlagIsScoped
  <2> QED
    BY <1>3, <1>7, <2>1 DEF RoutingInv, FlagIsScoped
<1>9. FlagIsUp'
  <2>1. ~ Nested => (Annotated(t)' \/ inherited'[t] => forceMaster'[t])
    BY <1>1, <1>3, <1>7
  <2> QED
    BY <1>1, <1>3, <1>7, <2>1 DEF RoutingInv, FlagIsUp
<1> QED
  BY <1>2, <1>4, <1>5, <1>6, <1>8, <1>9 DEF RoutingInv

(* The end of the outermost transactional call stores what the transaction  *)
(* wrote, or forgets it; no other call ends it.                            *)
LEMMA EndTransactionStores ==
    ASSUME RoutingInv, NEW t \in Threads, NEW a \in Annotations,
           a = "Transactional" => transaction[t] # Nobody,
           EndTransaction(t, a), UNCHANGED config
    PROVE  /\ DataShape' /\ OwnIsStored'
           /\ transaction' \in [Threads -> Sources \cup {Nobody}]
           /\ \A u \in Threads : u # t => transaction'[u] = transaction[u]
           /\ transaction'[t] = IF a = "Transactional" /\ LastAnnotated(t, a)
                                THEN Nobody ELSE transaction[t]
<1>1. (\A e : Home(e)' = Home(e)) /\ startup' = startup /\ defaultDatabase' = defaultDatabase
  BY ConfigKept
<1>2. CASE ~ (a = "Transactional" /\ LastAnnotated(t, a))
  <2>1. UNCHANGED data /\ UNCHANGED transaction
    BY <1>2 DEF EndTransaction
  <2> QED
    BY <1>1, <1>2, <2>1 DEF RoutingInv, ThreadShape, DataShape, OwnIsStored, data
<1>3. CASE a = "Transactional" /\ LastAnnotated(t, a)
  <2> DEFINE d == transaction[t][2]
  <2>1. /\ transaction[t] # Nobody /\ startup = "ready"
        /\ d = DatabaseList[1] /\ d \in Databases /\ defaultDatabase = d
    BY <1>3, FirstDatabase, ConfigAssumption, LenProperties
    DEF RoutingInv, TransactionsNest, Loaded
  <2>2. /\ pending' = [pending EXCEPT ![t] = {}]
        /\ transaction' = [transaction EXCEPT ![t] = Nobody]
        /\ UNCHANGED <<replica, writes>>
        /\ \/ master' = [master EXCEPT ![d] = master[d] \cup pending[t]] /\ own' = own
           \/ own' = [own EXCEPT ![t] = own[t] \ pending[t]] /\ master' = master
    BY <1>3 DEF EndTransaction, Commit, Rollback
  <2>3. DataShape'
    BY <2>1, <2>2 DEF RoutingInv, DataShape
  <2>4. /\ transaction' \in [Threads -> Sources \cup {Nobody}]
        /\ transaction'[t] = Nobody
        /\ \A u \in Threads : u # t => transaction'[u] = transaction[u]
    BY <2>2 DEF RoutingInv, ThreadShape
  <2>5. /\ pending'[t] = {}
        /\ \A u \in Threads : u # t => pending'[u] = pending[u]
        /\ \A e \in Databases : master[e] \subseteq master'[e]
        /\ \A u \in Threads : own'[u] \subseteq own[u]
    BY <2>1, <2>2 DEF RoutingInv, DataShape
  <2>6. OwnIsStored'
    <3> SUFFICES ASSUME ~ Mixed, NEW u \in Threads
                 PROVE  /\ transaction'[u] = Nobody => pending'[u] = {}
                        /\ own'[u] # {} \/ pending'[u] # {} => startup = "ready"
                        /\ \A w \in pending'[u] : Home(w[2]) = defaultDatabase
                        /\ \A w \in own'[u] : w \in pending'[u] \/ w \in master'[Home(w[2])]
      BY <1>1 DEF OwnIsStored
    <3>1. \A w \in own[u] : Home(w[2]) \in Databases
      <4>1. \A w \in own[u] : w[2] \in Daos
        BY DEF RoutingInv, DataShape, Writes
      <4> QED
        BY <2>1, <4>1 DEF Home, RoutingInv, ConfigShape
    <3>2. \A w \in own'[u] : w \in pending'[u] \/ w \in master'[Home(w[2])]
      <4>1. CASE u # t
        BY <2>5, <3>1, <4>1 DEF RoutingInv, OwnIsStored
      <4>2. CASE /\ u = t /\ own' = own
                 /\ master' = [master EXCEPT ![d] = master[d] \cup pending[t]]
        <5>1. master'[d] = master[d] \cup pending[t]
          BY <2>1, <4>2 DEF RoutingInv, DataShape
        <5> QED
          BY <2>1, <2>5, <3>1, <4>2, <5>1 DEF RoutingInv, OwnIsStored
      <4>3. CASE u = t /\ own'[t] = own[t] \ pending[t]
        BY <2>5, <3>1, <4>3 DEF RoutingInv, OwnIsStored
      <4> QED
        BY <2>2, <4>1, <4>2, <4>3 DEF RoutingInv, DataShape
    <3> QED
      BY <2>1, <2>4, <2>5, <3>2 DEF RoutingInv, OwnIsStored
  <2> QED
    BY <1>3, <2>3, <2>4, <2>6
<1> QED
  BY <1>2, <1>3

LEMMA ReturnKeepsInv ==
    ASSUME RoutingInv, NEW t \in Threads, Return(t)
    PROVE  RoutingInv'
<1> DEFINE last == Len(calls[t])
           a    == calls[t][last]
<1>1. /\ UNCHANGED config /\ UNCHANGED <<started, routeKey, connection>>
      /\ t \in started /\ routeKey[t] = Nobody /\ connection[t] = Nobody
      /\ EndTransaction(t, a)
      /\ forceMaster' = [forceMaster EXCEPT ![t] = forceMaster[t] /\ a = "none"]
      /\ inherited' = [inherited EXCEPT ![t] = inherited[t] /\ a = "none"]
      /\ calls' = [calls EXCEPT ![t] = SubSeq(calls[t], 1, last - 1)]
  BY DEF Return, Working, RoutingInv, Connected
<1>2. ConfigShape' /\ Loaded' /\ (\A e : Home(e)' = Home(e))
      /\ startup' = startup /\ defaultDatabase' = defaultDatabase
  BY <1>1, ConfigKept
<1>3. /\ calls[t] \in Seq(Annotations) /\ calls[t] # <<>> /\ last \in Nat \ {0}
      /\ DOMAIN calls[t] = 1 .. last /\ a \in Annotations
  <2>1. calls[t] \in Seq(Annotations) /\ calls[t] # <<>>
    BY DEF Return, RoutingInv, ThreadShape
  <2>2. last \in Nat \ {0}
    BY <2>1, EmptySeq
  <2> QED
    BY <2>1, <2>2, LenProperties, ElementOfSeq
<1>4. /\ calls'[t] \in Seq(Annotations) /\ DOMAIN calls'[t] = 1 .. last - 1
      /\ \A n \in 1 .. last - 1 : calls'[t][n] = calls[t][n]
  <2> DEFINE rest == SubSeq(calls[t], 1, last - 1)
  <2>1. calls'[t] = rest
    BY <1>1 DEF RoutingInv, ThreadShape
  <2>2. \A n \in 1 .. last - 1 : calls[t][n] \in Annotations
    BY <1>3, ElementOfSeq
  <2>3. /\ rest \in Seq(Annotations)
        /\ Len(rest) = IF 1 <= last - 1 THEN (last - 1) - 1 + 1 ELSE 0
        /\ \A n \in 1 .. (last - 1) - 1 + 1 : rest[n] = calls[t][1 + n - 1]
    BY <1>3, <2>2, SubSeqProperties
  <2>4. Len(rest) = last - 1 /\ DOMAIN rest = 1 .. Len(rest)
    BY <1>3, <2>3, LenProperties
  <2> HIDE DEF rest
  <2> QED
    BY <1>3, <2>1, <2>3, <2>4
<1>5. a = "Transactional" => transaction[t] # Nobody
  BY <1>3 DEF RoutingInv, TransactionsNest
<1>6. /\ DataShape' /\ OwnIsStored'
      /\ transaction' \in [Threads -> Sources \cup {Nobody}]
      /\ \A u \in Threads : u # t => transaction'[u] = transaction[u]
      /\ transaction'[t] = IF a = "Transactional" /\ LastAnnotated(t, a)
                           THEN Nobody ELSE transaction[t]
  BY <1>1, <1>3, <1>5, EndTransactionStores
<1>7. \A u \in Threads : u # t =>
         /\ calls'[u] = calls[u] /\ forceMaster'[u] = forceMaster[u]
         /\ inherited'[u] = inherited[u]
  BY <1>1 DEF RoutingInv, ThreadShape
<1>8. forceMaster'[t] = (forceMaster[t] /\ a = "none") /\ inherited'[t] = (inherited[t] /\ a = "none")
  BY <1>1 DEF RoutingInv, ThreadShape
<1>9. ThreadShape'
  BY <1>1, <1>4, <1>6 DEF RoutingInv, ThreadShape
<1>10. Unstarted' /\ Connected' /\ Unmixed'
  BY <1>1, <1>2, <1>6, <1>7 DEF RoutingInv, Unstarted, Connected, Unmixed
<1>11. TransactionsNest'
  <2>1. CASE a = "Transactional" /\ LastAnnotated(t, a)
    <3>1. \A n \in DOMAIN calls'[t] : calls'[t][n] # "Transactional"
      BY <1>3, <1>4, <2>1 DEF LastAnnotated
    <3> QED
      BY <1>2, <1>6, <1>7, <2>1, <3>1 DEF RoutingInv, TransactionsNest
  <2>2. CASE ~ (a = "Transactional" /\ LastAnnotated(t, a))
    <3>1. (\E n \in DOMAIN calls'[t] : calls'[t][n] = "Transactional")
             <=> \E n \in DOMAIN calls[t] : calls[t][n] = "Transactional"
      <4>1. ASSUME NEW n \in DOMAIN calls'[t], calls'[t][n] = "Transactional"
            PROVE  n \in DOMAIN calls[t] /\ calls[t][n] = "Transactional"
        BY <1>3, <1>4, <4>1
      <4>2. ASSUME NEW n \in DOMAIN calls[t], calls[t][n] = "Transactional"
            PROVE  \E m \in DOMAIN calls'[t] : calls'[t][m] = "Transactional"
        <5>1. CASE n = last
          BY <1>3, <1>4, <2>2, <4>2, <5>1 DEF LastAnnotated
        <5>2. CASE n # last
          <6>1. n \in 1 .. last - 1
            BY <1>3, <5>2
          <6> QED
            BY <1>4, <4>2, <6>1
        <5> QED
          BY <5>1, <5>2
      <4> QED
        BY <4>1, <4>2
    <3> QED
      BY <1>2, <1>6, <1>7, <2>2, <3>1 DEF RoutingInv, TransactionsNest
  <2> QED
    BY <2>1, <2>2
<1>12. FlagIsScoped' /\ FlagIsUp'
  <2>1. a = "none" => (Annotated(t)' <=> Annotated(t))
    <3>1. \A n \in DOMAIN calls'[t] : n \in DOMAIN calls[t] /\ calls'[t][n] = calls[t][n]
      BY <1>3, <1>4
    <3>2. \A n \in DOMAIN calls[t] : n = last \/ n \in DOMAIN calls'[t]
      BY <1>3, <1>4
    <3> QED
      BY <3>1, <3>2 DEF Annotated
  <2>2. \A u \in Threads : u # t => (Annotated(u)' <=> Annotated(u))
    BY <1>7 DEF Annotated
  <2>3. FlagIsScoped'
    <3>1. forceMaster'[t] => Annotated(t)' \/ inherited'[t]
      BY <1>8, <2>1 DEF RoutingInv, FlagIsScoped
    <3> QED
      BY <1>7, <2>2, <3>1 DEF RoutingInv, FlagIsScoped
  <2>4. ~ Nested /\ a # "none" => ~ Annotated(t)'
    BY <1>3, <1>4 DEF RoutingInv, FlagIsUp, Annotated
  <2>5. ~ Nested => (Annotated(t)' \/ inherited'[t] => forceMaster'[t])
    BY <1>8, <2>1, <2>4 DEF RoutingInv, FlagIsUp
  <2>6. ~ Nested => \A n, m \in DOMAIN calls'[t] :
            calls'[t][n] # "none" /\ calls'[t][m] # "none" => n = m
    BY <1>3, <1>4 DEF RoutingInv, FlagIsUp
  <2>7. FlagIsUp'
    BY <1>7, <2>2, <2>5, <2>6 DEF RoutingInv, FlagIsUp
  <2> QED
    BY <2>3, <2>7
<1> QED
  BY <1>2, <1>6, <1>9, <1>10, <1>11, <1>12 DEF RoutingInv

LEMMA StartThreadKeepsInv ==
    ASSUME RoutingInv, NEW t \in Threads, NEW u \in Threads, StartThread(t, u)
    PROVE  RoutingInv'
<1>1. /\ UNCHANGED config /\ UNCHANGED <<spring, calls, routeKey>>
      /\ UNCHANGED <<master, replica, pending, writes>>
      /\ started' = started \cup {u} /\ u \notin started /\ t # u
      /\ forceMaster' = [forceMaster EXCEPT ![u] = forceMaster[t]]
      /\ inherited' = [inherited EXCEPT ![u] = forceMaster[t]]
      /\ own' = [own EXCEPT ![u] = own[t] \ pending[t]]
  BY DEF StartThread, Working
<1>2. ConfigShape' /\ Loaded' /\ (\A e : Home(e)' = Home(e))
      /\ startup' = startup /\ defaultDatabase' = defaultDatabase
  BY <1>1, ConfigKept
<1>3. /\ routeKey[u] = Nobody /\ connection[u] = Nobody /\ transaction[u] = Nobody
      /\ DOMAIN calls[u] = {}
  <2>1. DOMAIN <<>> = {}
    BY EmptySeq, LenProperties
  <2> QED
    BY <1>1, <2>1 DEF RoutingInv, Unstarted
<1>4. /\ \A v \in Threads : v # u => /\ forceMaster'[v] = forceMaster[v]
                                     /\ inherited'[v] = inherited[v]
                                     /\ own'[v] = own[v]
      /\ forceMaster'[u] = forceMaster[t] /\ inherited'[u] = forceMaster[t]
      /\ own'[u] = own[t] \ pending[t]
  BY <1>1 DEF RoutingInv, ThreadShape, DataShape
<1>5. ThreadShape' /\ DataShape'
  BY <1>1 DEF RoutingInv, ThreadShape, DataShape, spring
<1>6. Unstarted' /\ TransactionsNest' /\ Unmixed'
  BY <1>1, <1>2 DEF RoutingInv, Unstarted, TransactionsNest, Unmixed, spring
<1>7. Connected'
  BY <1>1, <1>2, <1>3, <1>4 DEF RoutingInv, Connected, spring
<1>8. \A v \in Threads : (Annotated(v)' <=> Annotated(v)) /\ ~ Annotated(u)
  BY <1>1, <1>3 DEF Annotated
<1>9. FlagIsScoped' /\ FlagIsUp'
  <2>1. FlagIsScoped'
    BY <1>4, <1>8 DEF RoutingInv, FlagIsScoped
  <2>2. ~ Nested => \A v \in Threads : Annotated(v)' \/ inherited'[v] => forceMaster'[v]
    BY <1>4, <1>8 DEF RoutingInv, FlagIsUp
  <2> QED
    BY <1>1, <2>1, <2>2 DEF RoutingInv, FlagIsUp
<1>10. OwnIsStored'
  <2> SUFFICES ASSUME ~ Mixed, NEW v \in Threads
               PROVE  /\ transaction[v] = Nobody => pending[v] = {}
                      /\ own'[v] # {} \/ pending[v] # {} => startup = "ready"
                      /\ \A w \in pending[v] : Home(w[2]) = defaultDatabase
                      /\ \A w \in own'[v] : w \in pending[v] \/ w \in master[Home(w[2])]
    BY <1>1, <1>2 DEF OwnIsStored, spring
  <2>1. CASE v # u
    BY <1>4, <2>1 DEF RoutingInv, OwnIsStored
  <2>2. CASE v = u
    BY <1>3, <1>4, <2>2 DEF RoutingInv, OwnIsStored
  <2> QED
    BY <2>1, <2>2
<1> QED
  BY <1>2, <1>5, <1>6, <1>7, <1>9, <1>10 DEF RoutingInv
-----------------------------------------------------------------------------
(* Statements.  What they do not touch is kept by a lemma of its own.        *)

LEMMA OutsideStatementsKept ==
    ASSUME RoutingInv, UNCHANGED <<config, started, forceMaster, calls, inherited,
                                   transaction>>
    PROVE  /\ ConfigShape' /\ Loaded' /\ TransactionsNest' /\ FlagIsScoped' /\ FlagIsUp'
           /\ \A e : Home(e)' = Home(e)
           /\ startup' = startup /\ defaultDatabase' = defaultDatabase
<1>1. ConfigShape' /\ Loaded' /\ (\A e : Home(e)' = Home(e))
      /\ startup' = startup /\ defaultDatabase' = defaultDatabase
  BY ConfigKept
<1>2. TransactionsNest'
  BY <1>1 DEF RoutingInv, TransactionsNest
<1>3. FlagIsScoped' /\ FlagIsUp'
  BY DEF RoutingInv, FlagIsScoped, FlagIsUp, Annotated
<1> QED
  BY <1>1, <1>2, <1>3

LEMMA CallDaoKeepsInv ==
    ASSUME RoutingInv, NEW t \in Threads, NEW call \in DaoCalls, CallDao(t, call)
    PROVE  RoutingInv'
<1>1. /\ UNCHANGED <<config, started, forceMaster, calls, inherited, transaction>>
      /\ UNCHANGED <<connection, data>>
      /\ routeKey' = [routeKey EXCEPT ![t] = call]
      /\ t \in started /\ connection[t] = Nobody /\ call # Nobody
  BY ConfigAssumption DEF CallDao, Working, spring, RoutingInv, Connected
<1>2. /\ ConfigShape' /\ Loaded' /\ TransactionsNest' /\ FlagIsScoped' /\ FlagIsUp'
      /\ (\A e : Home(e)' = Home(e))
      /\ startup' = startup /\ defaultDatabase' = defaultDatabase
  BY <1>1, OutsideStatementsKept
<1>3. routeKey'[t] = call /\ \A u \in Threads : u # t => routeKey'[u] = routeKey[u]
  BY <1>1 DEF RoutingInv, ThreadShape
<1>4. ThreadShape' /\ DataShape'
  BY <1>1 DEF RoutingInv, ThreadShape, DataShape, data
<1>5. Unstarted' /\ Connected'
  BY <1>1, <1>2, <1>3 DEF RoutingInv, Unstarted, Connected
<1>6. Unmixed'
  <2>1. transaction[t] # Nobody /\ ~ Mixed => Home(call.dao) = defaultDatabase
    BY <1>1 DEF CallDao, DatabaseName, Home
  <2> QED
    BY <1>1, <1>2, <1>3, <2>1 DEF RoutingInv, Unmixed
<1>7. OwnIsStored'
  BY <1>1, <1>2 DEF RoutingInv, OwnIsStored, data
<1> QED
  BY <1>2, <1>4, <1>5, <1>6, <1>7 DEF RoutingInv

LEMMA ConnectKeepsInv ==
    ASSUME RoutingInv, NEW t \in Threads, Connect(t)
    PROVE  RoutingInv'
<1>1. /\ UNCHANGED <<config, started, forceMaster, calls, inherited, transaction>>
      /\ UNCHANGED <<routeKey, data>>
      /\ routeKey[t] # Nobody /\ routeKey[t] \in DaoCalls \cup {Nobody}
  BY DEF Connect, locals, RoutingInv, ThreadShape
<1>2. /\ ConfigShape' /\ Loaded' /\ TransactionsNest' /\ FlagIsScoped' /\ FlagIsUp'
      /\ (\A e : Home(e)' = Home(e))
      /\ startup' = startup /\ defaultDatabase' = defaultDatabase
  BY <1>1, OutsideStatementsKept
<1>3. PICK s : /\ connection' = [connection EXCEPT ![t] = s]
               /\ s \in IF transaction[t] # Nobody THEN {transaction[t]}
                        ELSE Connections(t, routeKey[t])
  BY DEF Connect
<1>4. /\ s \in Sources /\ startup = "ready"
      /\ transaction[t] # Nobody => s = transaction[t]
      /\ transaction[t] = Nobody =>
            /\ s[2] = Home(routeKey[t].dao)
            /\ s[1] = "slave" => routeKey[t].select /\ ~ forceMaster[t]
  <2>1. CASE transaction[t] # Nobody
    BY <1>3, <2>1 DEF RoutingInv, ThreadShape, TransactionsNest
  <2>2. CASE transaction[t] = Nobody
    BY <1>1, <1>3, <2>2, ConnectionShape
  <2> QED
    BY <2>1, <2>2
<1>5. connection'[t] = s /\ \A u \in Threads : u # t => connection'[u] = connection[u]
  BY <1>3 DEF RoutingInv, ThreadShape
<1>6. ThreadShape' /\ DataShape'
  BY <1>1, <1>3, <1>4 DEF RoutingInv, ThreadShape, DataShape, data
<1>7. Unstarted'
  BY <1>1, <1>5 DEF RoutingInv, Unstarted
<1>8. Connected'
  BY <1>1, <1>2, <1>4, <1>5 DEF RoutingInv, Connected
<1>9. Unmixed' /\ OwnIsStored'
  BY <1>1, <1>2 DEF RoutingInv, Unmixed, OwnIsStored, data
<1> QED
  BY <1>2, <1>6, <1>7, <1>8, <1>9 DEF RoutingInv

LEMMA ConnectFailsKeepsInv ==
    ASSUME RoutingInv, NEW t \in Threads, ConnectFails(t)
    PROVE  RoutingInv'
<1>1. /\ UNCHANGED <<config, started, forceMaster, calls, inherited, transaction>>
      /\ UNCHANGED <<connection, data>>
      /\ routeKey' = [routeKey EXCEPT ![t] = Nobody] /\ connection[t] = Nobody
  BY DEF ConnectFails, spring
<1>2. /\ ConfigShape' /\ Loaded' /\ TransactionsNest' /\ FlagIsScoped' /\ FlagIsUp'
      /\ (\A e : Home(e)' = Home(e))
      /\ startup' = startup /\ defaultDatabase' = defaultDatabase
  BY <1>1, OutsideStatementsKept
<1>3. routeKey'[t] = Nobody /\ \A u \in Threads : u # t => routeKey'[u] = routeKey[u]
  BY <1>1 DEF RoutingInv, ThreadShape
<1>4. ThreadShape' /\ DataShape'
  BY <1>1 DEF RoutingInv, ThreadShape, DataShape, data
<1>5. Unstarted' /\ Connected' /\ Unmixed'
  BY <1>1, <1>2, <1>3 DEF RoutingInv, Unstarted, Connected, Unmixed
<1>6. OwnIsStored'
  BY <1>1, <1>2 DEF RoutingInv, OwnIsStored, data
<1> QED
  BY <1>2, <1>4, <1>5, <1>6 DEF RoutingInv

(* A write of a thread goes into its transaction, or to a master of the      *)
(* database of its DAO.                                                    *)
LEMMA WriteStores ==
    ASSUME RoutingInv, NEW t \in Threads, connection[t] # Nobody, Write(t),
           UNCHANGED <<config, transaction>>
    PROVE  DataShape' /\ OwnIsStored'
<1> DEFINE w == <<writes + 1, routeKey[t].dao>>
           d == connection[t][2]
<1>1. /\ startup = "ready" /\ routeKey[t] \in DaoCalls /\ routeKey[t].dao \in Daos
      /\ transaction[t] = Nobody => d = Home(routeKey[t].dao)
  BY DEF RoutingInv, Connected, ThreadShape, DaoCalls
<1>2. connection[t] \in Sources /\ d \in Databases
  BY SourceShape DEF RoutingInv, ThreadShape
<1>3. writes \in Nat /\ writes + 1 \in 1 .. MaxWrites /\ w \in Writes
  BY <1>1, ConfigAssumption DEF Write, RoutingInv, DataShape, Writes
<1>4. /\ writes' = writes + 1
      /\ own' = [own EXCEPT ![t] = own[t] \cup {w}]
      /\ replica' = replica
      /\ \/ /\ transaction[t] # Nobody
            /\ pending' = [pending EXCEPT ![t] = pending[t] \cup {w}]
            /\ master' = master
         \/ /\ transaction[t] = Nobody
            /\ master' = [master EXCEPT ![d] = master[d] \cup {w}]
            /\ pending' = pending
  BY DEF Write
<1>5. DataShape'
  BY <1>2, <1>3, <1>4 DEF RoutingInv, DataShape
<1>6. (\A e : Home(e)' = Home(e)) /\ startup' = startup /\ defaultDatabase' = defaultDatabase
  BY ConfigKept
<1>7. OwnIsStored'
  <2> SUFFICES ASSUME ~ Mixed, NEW u \in Threads
               PROVE  /\ transaction[u] = Nobody => pending'[u] = {}
                      /\ \A v \in pending'[u] : Home(v[2]) = defaultDatabase
                      /\ \A v \in own'[u] : v \in pending'[u] \/ v \in master'[Home(v[2])]
    BY <1>1, <1>6 DEF OwnIsStored
  <2>1. Home(w[2]) = Home(routeKey[t].dao)
    OBVIOUS
  <2>2. transaction[t] # Nobody => Home(w[2]) = defaultDatabase
    BY <2>1 DEF RoutingInv, Unmixed, Connected
  <2>3. own'[u] = own[u] \/ (u = t /\ own'[u] = own[u] \cup {w})
    BY <1>4 DEF RoutingInv, DataShape
  <2> HIDE DEF w, d
  <2>4. CASE transaction[t] # Nobody
    <3>1. /\ pending'[t] = pending[t] \cup {w} /\ master' = master
          /\ \A v \in Threads : v # t => pending'[v] = pending[v]
      BY <1>4, <2>4 DEF RoutingInv, DataShape
    <3> QED
      BY <2>2, <2>3, <2>4, <3>1 DEF RoutingInv, OwnIsStored
  <2>5. CASE transaction[t] = Nobody
    <3>1. /\ pending' = pending /\ w \in master'[d]
          /\ \A e \in Databases : master[e] \subseteq master'[e]
      BY <1>2, <1>4, <2>5 DEF RoutingInv, DataShape
    <3>2. w \in master'[Home(w[2])]
      BY <1>1, <2>1, <2>5, <3>1
    <3>3. \A v \in own[u] : Home(v[2]) \in Databases
      <4>1. \A v \in own[u] : v[2] \in Daos
        BY DEF RoutingInv, DataShape, Writes
      <4>2. defaultDatabase \in Databases
        BY <1>1, FirstDatabase, ConfigAssumption, LenProperties DEF RoutingInv, Loaded
      <4> QED
        BY <4>1, <4>2 DEF Home, RoutingInv, ConfigShape
    <3>4. \A v \in own[u] : v \in pending[u] \/ v \in master'[Home(v[2])]
      BY <3>1, <3>3 DEF RoutingInv, OwnIsStored
    <3> QED
      BY <2>3, <3>1, <3>2, <3>4 DEF RoutingInv, OwnIsStored
  <2> QED
    BY <2>4, <2>5
<1> QED
  BY <1>5, <1>7

LEMMA ExecuteKeepsInv ==
    ASSUME RoutingInv, NEW t \in Threads, Execute(t)
    PROVE  RoutingInv'
<1>1. /\ UNCHANGED <<config, started, forceMaster, calls, inherited, transaction>>
      /\ routeKey' = [routeKey EXCEPT ![t] = Nobody]
      /\ connection' = [connection EXCEPT ![t] = Nobody]
      /\ connection[t] # Nobody
  BY DEF Execute
<1>2. /\ ConfigShape' /\ Loaded' /\ TransactionsNest' /\ FlagIsScoped' /\ FlagIsUp'
      /\ (\A e : Home(e)' = Home(e))
      /\ startup' = startup /\ defaultDatabase' = defaultDatabase
  BY <1>1, OutsideStatementsKept
<1>3. /\ routeKey'[t] = Nobody /\ connection'[t] = Nobody
      /\ \A u \in Threads : u # t => /\ routeKey'[u] = routeKey[u]
                                     /\ connection'[u] = connection[u]
  BY <1>1 DEF RoutingInv, ThreadShape
<1>4. ThreadShape'
  BY <1>1 DEF RoutingInv, ThreadShape
<1>5. Unstarted' /\ Connected' /\ Unmixed'
  BY <1>1, <1>2, <1>3 DEF RoutingInv, Unstarted, Connected, Unmixed
<1>6. DataShape' /\ OwnIsStored'
  <2>1. CASE Write(t)
    BY <1>1, <2>1, WriteStores
  <2>2. CASE UNCHANGED data
    BY <1>1, <1>2, <2>2 DEF RoutingInv, DataShape, OwnIsStored, data
  <2> QED
    BY <2>1, <2>2 DEF Execute
<1> QED
  BY <1>2, <1>4, <1>5, <1>6 DEF RoutingInv

LEMMA ReplicateKeepsInv ==
    ASSUME RoutingInv, NEW d \in Databases, NEW i \in 0 .. SlaveCount[d] - 1,
           Replicate(d, i)
    PROVE  RoutingInv'
<1>1. /\ UNCHANGED <<config, started, forceMaster, calls, inherited, transaction>>
      /\ UNCHANGED <<routeKey, connection, master, pending, own, writes>>
      /\ replica' = [replica EXCEPT ![<<"slave", d, i>>] = master[d]]
  BY DEF Replicate, locals, spring
<1>2. /\ ConfigShape' /\ Loaded' /\ TransactionsNest' /\ FlagIsScoped' /\ FlagIsUp'
      /\ (\A e : Home(e)' = Home(e))
      /\ startup' = startup /\ defaultDatabase' = defaultDatabase
  BY <1>1, OutsideStatementsKept
<1>3. ThreadShape' /\ DataShape'
  BY <1>1 DEF RoutingInv, ThreadShape, DataShape
<1>4. Unstarted' /\ Connected' /\ Unmixed' /\ OwnIsStored'
  BY <1>1, <1>2 DEF RoutingInv, Unstarted, Connected, Unmixed, OwnIsStored
<1> QED
  BY <1>2, <1>3, <1>4 DEF RoutingInv

LEMMA NextRouting ==
    RoutingInv /\ [Next]_vars => RoutingInv'
<1> SUFFICES ASSUME RoutingInv, [Next]_vars PROVE RoutingInv'
  OBVIOUS
<1>1. CASE UNCHANGED vars
  <2>1. /\ UNCHANGED <<config, started, forceMaster, calls, inherited, transaction>>
        /\ UNCHANGED <<routeKey, connection, data>>
    BY <1>1 DEF vars, locals, spring
  <2>2. /\ ConfigShape' /\ Loaded' /\ TransactionsNest' /\ FlagIsScoped' /\ FlagIsUp'
        /\ (\A e : Home(e)' = Home(e))
        /\ startup' = startup /\ defaultDatabase' = defaultDatabase
    BY <2>1, OutsideStatementsKept
  <2>3. ThreadShape' /\ DataShape'
    BY <2>1 DEF RoutingInv, ThreadShape, DataShape, data
  <2>4. Unstarted' /\ Connected' /\ Unmixed' /\ OwnIsStored'
    BY <2>1, <2>2 DEF RoutingInv, Unstarted, Connected, Unmixed, OwnIsStored, data
  <2> QED
    BY <2>2, <2>3, <2>4 DEF RoutingInv
<1>2. CASE Next
  BY <1>2, LoadDatabaseKeepsInv, LoadFailsKeepsInv, SetTargetDataSourcesKeepsInv,
     CallServiceKeepsInv, BeginFailsKeepsInv, ReturnKeepsInv, StartThreadKeepsInv,
     CallDaoKeepsInv, ConnectKeepsInv, ConnectFailsKeepsInv, ExecuteKeepsInv,
     ReplicateKeepsInv
  DEF Next
<1> QED
  BY <1>1, <1>2

LEMMA RoutingInvariant == Spec => []RoutingInv
BY InitRouting, NextRouting, PTL DEF Spec
-----------------------------------------------------------------------------
(* The theorems.                                                           *)

(* Between requests a thread carries nothing of the last one, whatever       *)
(* methods call each other, throw, start threads or fail to begin.         *)
THEOREM FlagIsScopedAlways == Spec => []FlagIsScoped
<1>1. RoutingInv => FlagIsScoped
  BY DEF RoutingInv
<1> QED
  BY <1>1, RoutingInvariant, PTL

(* As long as transactions keep to the DAOs of the first database, every     *)
(* statement runs on a server of a database that lists its DAO, or of the   *)
(* first one when none does, and nothing but a select runs on a slave.     *)
THEOREM StatementOnOwnDatabaseAlways ==
    ASSUME ~ Mixed
    PROVE  Spec => []StatementOnOwnDatabase
<1>1. RoutingInv => StatementOnOwnDatabase
  <2> SUFFICES ASSUME RoutingInv, NEW t \in Threads, connection[t] # Nobody
               PROVE  /\ startup = "ready"
                      /\ \/ Listed(routeKey[t].dao, connection[t][2])
                         \/ /\ connection[t][2] = DatabaseList[1]
                            /\ \A d \in Databases : ~ Listed(routeKey[t].dao, d)
                      /\ connection[t][1] = "slave" => routeKey[t].select
    BY DEF StatementOnOwnDatabase
  <2>1. /\ startup = "ready" /\ routeKey[t] # Nobody /\ routeKey[t].dao \in Daos
        /\ position = Len(DatabaseList) /\ defaultDatabase = DatabaseList[1]
    BY ConfigAssumption, LenProperties
    DEF RoutingInv, Connected, Loaded, ThreadShape, DaoCalls
  <2>2. /\ connection[t][2] = Home(routeKey[t].dao)
        /\ connection[t][1] = "slave" => routeKey[t].select
    <3>1. CASE transaction[t] # Nobody
      <4>1. /\ connection[t] = transaction[t]
            /\ transaction[t][1] = "master" /\ transaction[t][2] = DatabaseList[1]
            /\ Home(routeKey[t].dao) = defaultDatabase
        BY <2>1, <3>1 DEF RoutingInv, Connected, TransactionsNest, Unmixed
      <4> QED
        BY <2>1, <4>1
    <3>2. CASE transaction[t] = Nobody
      BY <3>2 DEF RoutingInv, Connected
    <3> QED
      BY <3>1, <3>2
  <2>3. CASE databaseNameMap[routeKey[t].dao] = Nobody
    <3>1. \A n \in 1 .. Len(DatabaseList) : routeKey[t].dao \notin DaosOf[DatabaseList[n]]
      BY <2>1, <2>3 DEF RoutingInv, Loaded
    <3>2. \A d \in Databases : \E n \in 1 .. Len(DatabaseList) : d = DatabaseList[n]
      BY ConfigAssumption, LenProperties DEF Databases
    <3> QED
      BY <2>1, <2>2, <2>3, <3>1, <3>2 DEF Home, Listed
  <2>4. CASE databaseNameMap[routeKey[t].dao] # Nobody
    BY <2>1, <2>2, <2>4 DEF RoutingInv, Loaded, Home, Listed
  <2> QED
    BY <2>1, <2>2, <2>3, <2>4
<1> QED
  BY <1>1, RoutingInvariant, PTL

(* A forced read sees what its thread wrote through the same DAO, however    *)
(* far the slaves lag behind, if transactions keep to the DAOs of the first *)
(* database and annotated methods do not call each other: both are needed,  *)
(* as two runs show.                                                       *)
THEOREM ReadYourWritesAlways ==
    ASSUME ~ Mixed, ~ Nested
    PROVE  Spec => []ReadYourWrites
<1>1. RoutingInv => ReadYourWrites
  <2> SUFFICES ASSUME RoutingInv, NEW t \in Threads, connection[t] # Nobody,
                      Annotated(t) \/ inherited[t],
                      NEW w \in own[t], w[2] = routeKey[t].dao
               PROVE  w \in Visible(t)
    BY DEF ReadYourWrites
  <2>1. /\ forceMaster[t] /\ startup = "ready" /\ routeKey[t] # Nobody
        /\ w \in pending[t] \/ w \in master[Home(w[2])]
        /\ defaultDatabase = DatabaseList[1]
    BY ConfigAssumption, LenProperties
    DEF RoutingInv, FlagIsUp, Connected, OwnIsStored, Loaded
  <2>2. CASE transaction[t] # Nobody
    <3>1. /\ connection[t] = transaction[t]
          /\ transaction[t][1] = "master" /\ transaction[t][2] = DatabaseList[1]
          /\ Home(routeKey[t].dao) = defaultDatabase
      BY <2>1, <2>2 DEF RoutingInv, Connected, TransactionsNest, Unmixed
    <3> QED
      BY <2>1, <3>1 DEF Visible
  <2>3. CASE transaction[t] = Nobody
    <3>1. /\ pending[t] = {} /\ connection[t][2] = Home(routeKey[t].dao)
          /\ connection[t][1] # "slave"
      BY <2>1, <2>3 DEF RoutingInv, OwnIsStored, Connected
    <3> QED
      BY <2>1, <3>1 DEF Visible
  <2> QED
    BY <2>2, <2>3
<1> QED
  BY <1>1, RoutingInvariant, PTL
=============================================================================

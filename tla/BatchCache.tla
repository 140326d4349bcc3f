----------------------------- MODULE BatchCache -----------------------------
(***************************************************************************)
(* BatchGetData.batchGetForMap: many ids are looked up in redis with one    *)
(* MGET on the read-only connection, those that miss are read from the      *)
(* database, and their values are put into redis one by one on the other    *)
(* connection.                                                             *)
(*                                                                         *)
(* redis is external: a replica that serves the read-only connection and    *)
(* lags, commands that fail, keys that expire.  So are the database and the *)
(* application, which changes a row and then deletes its key with           *)
(* HPValueOperations.delete.  A value is the number of the row's change.    *)
(***************************************************************************)
EXTENDS Integers, FiniteSets

CONSTANTS Readers,    \* threads that call batchGetForMap
          Ids,
          NoRow,      \* no row in the database, no value in redis
          MaxChanges, \* bound: changes of rows
          MaxGets,    \* bound: calls of batchGetForMap
          MaxFailed   \* bound: commands of redis that fail

ASSUME BatchAssumption == /\ NoRow \notin Nat
                          /\ MaxChanges \in Nat /\ MaxGets \in Nat
                          /\ MaxFailed \in Nat

VARIABLES row,      \* row[k]: the database
          key,      \* key[k]: redis, which takes the writes
          replica,  \* replica[k]: redis as the read-only connection sees it
          getPc,    \* the next step of a call
          idList,   \* the ids that a call asks for
          missUidList, \* those that redis has not
          list,     \* what the database answered and is not in redis yet
          found,    \* the map that the call returns
          changing, \* rows changed whose key the application has not deleted
          changes, gets, failed,
          began,    \* history: the rows of the ids of a call when it began
          trusted,  \* history: those that redis had right or not at all then
          outrun    \* history: keys that a call may hold an old value for, or
                    \* have set to one, although the delete is over

batchVars == <<row, key, replica, getPc, idList, missUidList, list, found,
               changing, changes, gets, failed, began, trusted, outrun>>
call == <<getPc, idList, missUidList, list, found, gets, began, trusted>>

Versions == 0 .. MaxChanges
VersionOrNone == Versions \cup {NoRow}

BatchTypeOK ==
    /\ row \in [Ids -> VersionOrNone] /\ key \in [Ids -> VersionOrNone]
    /\ replica \in [Ids -> VersionOrNone]
    /\ getPc \in [Readers -> {"idle", "multiGet", "query", "set"}]
    /\ idList \in [Readers -> SUBSET Ids] /\ missUidList \in [Readers -> SUBSET Ids]
    /\ list \in [Readers -> [Ids -> VersionOrNone]]
    /\ found \in [Readers -> [Ids -> VersionOrNone]]
    /\ changing \subseteq Ids /\ outrun \subseteq Ids
    /\ began \in [Readers -> [Ids -> VersionOrNone]]
    /\ trusted \in [Readers -> SUBSET Ids]
    /\ changes \in 0 .. MaxChanges /\ gets \in 0 .. MaxGets
    /\ failed \in 0 .. MaxFailed

Nothing == [k \in Ids |-> NoRow]

BatchInit ==
    /\ row \in [Ids -> {0, NoRow}]
    /\ key = Nothing /\ replica = Nothing
    /\ getPc = [r \in Readers |-> "idle"]
    /\ idList = [r \in Readers |-> {}] /\ missUidList = idList /\ trusted = idList
    /\ list = [r \in Readers |-> Nothing] /\ found = list /\ began = list
    /\ changing = {} /\ outrun = {}
    /\ changes = 0 /\ gets = 0 /\ failed = 0

----------------------------------------------------------------------------
GetGoesTo(r, pc) == getPc' = [getPc EXCEPT ![r] = pc]

Fails == failed < MaxFailed /\ failed' = failed + 1

\* Neither redis nor its replica has an old value of k, or will get one from a
\* call under way.
NothingOld(k) == k \notin changing \cup outrun /\ replica[k] \in {NoRow, row[k]}

BatchGet(r, ids) ==
    /\ getPc[r] = "idle" /\ ids # {}
    /\ gets < MaxGets /\ gets' = gets + 1
    /\ GetGoesTo(r, "multiGet")
    /\ idList' = [idList EXCEPT ![r] = ids]
    /\ began' = [began EXCEPT ![r] = [k \in Ids |-> IF k \in ids THEN row[k] ELSE NoRow]]
    /\ trusted' = [trusted EXCEPT ![r] = {k \in ids : NothingOld(k)}]
    /\ found' = [found EXCEPT ![r] = Nothing]
    /\ UNCHANGED <<row, key, replica, missUidList, list, changing, changes,
                   failed, outrun>>

\* What redis has goes into the map; a call with nothing to ask the database
\* returns.
MultiGet(r) ==
    /\ getPc[r] = "multiGet"
    /\ LET hits == {k \in idList[r] : replica[k] # NoRow}
       IN  /\ found' = [found EXCEPT ![r] =
                            [k \in Ids |-> IF k \in hits THEN replica[k] ELSE NoRow]]
           /\ missUidList' = [missUidList EXCEPT ![r] = idList[r] \ hits]
           /\ GetGoesTo(r, IF idList[r] = hits THEN "idle" ELSE "query")
    /\ UNCHANGED <<row, key, replica, idList, list, changing, changes, gets,
                   failed, began, trusted, outrun>>

\* A mutation: a failure of MGET is taken for an answer without values.
MultiGetGivesUp(r) ==
    /\ getPc[r] = "multiGet" /\ Fails
    /\ GetGoesTo(r, "idle")
    /\ UNCHANGED <<row, key, replica, idList, missUidList, list, found, changing,
                   changes, gets, began, trusted, outrun>>

\* MGET fails: multiGet returns null, and all ids are missing.
MultiGetFails(r) ==
    /\ getPc[r] = "multiGet" /\ Fails
    /\ missUidList' = [missUidList EXCEPT ![r] = idList[r]]
    /\ GetGoesTo(r, "query")
    /\ UNCHANGED <<row, key, replica, idList, list, found, changing, changes,
                   gets, began, trusted, outrun>>

\* batchDataFromDatabase: the rows of the missing ids, if there are any.
BatchDataFromDatabase(r) ==
    /\ getPc[r] = "query"
    /\ LET rows == [k \in Ids |-> IF k \in missUidList[r] THEN row[k] ELSE NoRow]
       IN  /\ list' = [list EXCEPT ![r] = rows]
           /\ GetGoesTo(r, IF rows = Nothing THEN "idle" ELSE "set")
    /\ UNCHANGED <<row, key, replica, idList, missUidList, found, changing,
                   changes, gets, failed, began, trusted, outrun>>

\* One turn of the loop over the rows, in any order: the map gets the value,
\* and redis if the command succeeds; its exception is caught.
SetInRedis(r, k) ==
    /\ getPc[r] = "set" /\ list[r][k] # NoRow
    /\ found' = [found EXCEPT ![r][k] = list[r][k]]
    /\ list' = [list EXCEPT ![r][k] = NoRow]
    /\ GetGoesTo(r, IF list'[r] = Nothing THEN "idle" ELSE "set")
    /\ \/ /\ key' = [key EXCEPT ![k] = list[r][k]] /\ UNCHANGED failed
       \/ /\ Fails
          /\ key' \in {key, [key EXCEPT ![k] = list[r][k]]}
    /\ UNCHANGED <<row, replica, idList, missUidList, changing, changes, gets,
                   began, trusted, outrun>>

----------------------------------------------------------------------------
(* The surroundings.                                                       *)

\* The application inserts or updates a row.
ChangeRow(k) ==
    /\ k \notin changing /\ changes < MaxChanges
    /\ row' = [row EXCEPT ![k] = changes + 1]
    /\ changes' = changes + 1
    /\ changing' = changing \cup {k}
    /\ UNCHANGED <<key, replica, call, failed, outrun>>

Holds(k) == \E r \in Readers : list[r][k] \notin {NoRow, row[k]}

\* delete of the key, and a second try when it fails.
DeleteKey(k) ==
    /\ k \in changing
    /\ changing' = changing \ {k}
    /\ outrun' = IF Holds(k) THEN outrun \cup {k} ELSE outrun \ {k}
    /\ key' = [key EXCEPT ![k] = NoRow]
    /\ failed' \in {failed, failed + 1} \cap 0 .. MaxFailed
    /\ UNCHANGED <<row, replica, call, changes>>

\* Both tries fail: delete throws, and the application has to try again.
DeleteThrows(k) ==
    /\ k \in changing
    /\ failed + 2 <= MaxFailed /\ failed' = failed + 2
    /\ key' \in {key, [key EXCEPT ![k] = NoRow]}
    /\ UNCHANGED <<row, replica, call, changing, changes, outrun>>

\* redis removes a key whose time is over.
KeyExpires(k) ==
    /\ key[k] # NoRow
    /\ key' = [key EXCEPT ![k] = NoRow]
    /\ outrun' = IF Holds(k) THEN outrun ELSE outrun \ {k}
    /\ UNCHANGED <<row, replica, call, changing, changes, failed>>

Replicate(k) ==
    /\ replica[k] # key[k]
    /\ replica' = [replica EXCEPT ![k] = key[k]]
    /\ UNCHANGED <<row, key, call, changing, changes, failed, outrun>>

BatchNext ==
    \/ \E r \in Readers :
           \/ \E ids \in SUBSET Ids : BatchGet(r, ids)
           \/ MultiGet(r) \/ MultiGetFails(r) \/ BatchDataFromDatabase(r)
           \/ \E k \in Ids : SetInRedis(r, k)
    \/ \E k \in Ids : \/ ChangeRow(k) \/ DeleteKey(k) \/ DeleteThrows(k)
                     \/ KeyExpires(k) \/ Replicate(k)

----------------------------------------------------------------------------
(* Properties.                                                             *)

(* redis has the value of the row, once the application that changed it has *)
(* deleted the key.  A replica that lags does not spoil it, since what is   *)
(* found there is not written back; only a call that read the row before    *)
(* the change and has not set its key before the delete does, until the     *)
(* next change of the row or the expiry of the key                          *)
(* (BatchGetData.java:75-87).                                              *)
CachedIsCurrent ==
    \A k \in Ids \ (changing \cup outrun) : key[k] \in {NoRow, row[k]}

(* A call leaves out no id that had a row when it began, whatever redis     *)
(* has, loses or fails to answer.                                          *)
ResultIsComplete ==
    \A r \in Readers : getPc[r] = "idle" =>
        \A k \in Ids : began[r][k] # NoRow => found[r][k] # NoRow

(* A call returns no row as it was before the call began, unless at that    *)
(* moment the key was not deleted yet after a change, a slow call could     *)
(* still put an old value back, or the replica lagged behind.  Changes,     *)
(* lag and slow calls that come later do not make it worse.                 *)
ResultIsRecent ==
    \A r \in Readers : getPc[r] = "idle" =>
        \A k \in trusted[r] : began[r][k] # NoRow => found[r][k] >= began[r][k]

(* The three together: a call returns every row, as new as redis could tell *)
(* when it began, and redis keeps no old value but for the race that        *)
(* CachedIsCurrent names.                                                  *)
BatchIsSound == CachedIsCurrent /\ ResultIsComplete /\ ResultIsRecent
=============================================================================

---------------------------- MODULE IndexRebuild ----------------------------
(***************************************************************************)
(* The elasticsearch component.  Searches and updates address an index by  *)
(* its alias.  reBuildIndex fills a new index from the database, adds it   *)
(* to the alias and deletes the indexes it replaces, while rows change,    *)
(* while updateByIds, insertByIds and deleteByIds push changed rows to the *)
(* alias, and while another rebuild may run: IndexRest has three threads,  *)
(* the scheduler five, and every instance of the application has its own.  *)
(*                                                                         *)
(* Every call to elasticsearch or to the database is a step.  A call may   *)
(* throw, before or after it took effect.                                  *)
(***************************************************************************)
EXTENDS Integers, FiniteSets

CONSTANTS MaxRebuilds, \* how many times reBuildIndex is called, on any thread
          MaxId,       \* the rows have the primary keys 1 .. MaxId
          Size,        \* getSize: how many rows a query asks for
          MaxInt,      \* the largest int; ids are ints
          Strategies,  \* the implementations of insertIntoES to consider
          Tables,      \* the ids of the rows that may be there at first
          MaxSecond,   \* the seconds in which rebuilds start
          MaxWrites,   \* how many row changes
          Pushable,    \* the ids that updateByIds and the others get
          MaxPushes,   \* how many different rows and versions are being pushed
          MaxFaults    \* how many calls throw or are not acknowledged

(* The calls of reBuildIndex, in the order in which they start.            *)
Rebuilds == 1 .. MaxRebuilds

Ids == 1 .. MaxId
Names == 0 .. MaxSecond   \* <indexName>_index_<second>; 0 is there at first
Ints == -(MaxInt + 1) .. MaxInt

(* Mutant: the sum does not fit the variable that it goes to.               *)
NoWrap(x) == x

(* What int arithmetic makes of x.                                         *)
Wrap(x) == ((x + MaxInt + 1) % (2 * MaxInt + 2)) - (MaxInt + 1)

AllStrategies == {"page", "minmax", "larger"}

ASSUME SizesAssumption ==
    /\ MaxRebuilds \in Nat /\ MaxSecond \in Nat \ {0}
    /\ MaxId \in Nat \ {0} /\ Size \in Nat \ {0}
    /\ MaxInt \in Nat /\ MaxId < MaxInt /\ Size <= MaxInt
    /\ Strategies \subseteq AllStrategies /\ Strategies # {}
    /\ Tables \subseteq SUBSET Ids /\ MaxWrites \in Nat
    /\ Pushable \subseteq Ids /\ MaxPushes \in Nat /\ MaxFaults \in Nat

(* The version of a row or document: 0 if there is none, 1 if it is there  *)
(* from the start, n + 1 if the n-th change wrote it.                      *)
Versions == 0 .. MaxWrites + 1
Nothing  == [id \in Ids |-> 0]

VARIABLES strategy, \* the implementation of insertIntoES of this index
          db,       \* db[id]: the version of the row
          writes,   \* the number of row changes
          second,   \* the second in which the last rebuild started
          exists,   \* the indexes in elasticsearch
          doc,      \* doc[n][id]: the version of document id in index n
          alias,    \* the indexes that the alias stands for
          pc,       \* pc[r]: the call that r makes next
          name,     \* name[r]: newIndexName, 0 before r starts
          cursor,   \* cursor[r]: currentPage, start or largeThanId
          limit,    \* limit[r]: totalPage or max
          batch,    \* batch[r]: the rows read and not yet written
          old,      \* old[r]: oldIndexList, what is left of it
          victim,   \* victim[r]: the old index that r has found to exist
          pushed,   \* what calls of updateByIds have read and not yet written
          faults,   \* how many calls have failed
          settled,  \* history: the documents that nothing has disturbed
          together, \* history: two rebuilds have overlapped
          lostDrop  \* history: an old index was deleted, but the call threw

elastic == <<exists, doc, alias>>
table   == <<db, writes>>
locals  == <<pc, name, cursor, limit, batch, old, victim>>
history == <<settled, together, lostDrop>>
vars    == <<strategy, second, pushed, faults, elastic, table, locals, history>>

Calls == {"create", "mapping", "count", "max", "read", "write", "old",
           "alias", "drop", "delete", "cleanup"}
Ended == {"done", "failed"}
Active == {r \in Rebuilds : pc[r] \in Calls}

Batches == UNION {[S -> Versions] : S \in SUBSET Ids}
NoRows  == [id \in {} |-> 0]

TypeOK ==
    /\ strategy \in Strategies
    /\ db \in [Ids -> Versions]
    /\ writes \in 0 .. MaxWrites
    /\ second \in 1 .. MaxSecond
    /\ exists \subseteq Names
    /\ doc \in [Names -> [Ids -> Versions]]
    /\ alias \subseteq exists
    /\ pc \in [Rebuilds -> {"idle"} \cup Calls \cup Ended]
    /\ name \in [Rebuilds -> Names]
    /\ cursor \in [Rebuilds -> Ints]
    /\ limit \in [Rebuilds -> Ints]
    /\ batch \in [Rebuilds -> Batches]
    /\ old \in [Rebuilds -> SUBSET Names]
    /\ victim \in [Rebuilds -> Names]
    /\ pushed \subseteq Ids \X Versions
    /\ faults \in 0 .. MaxFaults
    /\ settled \subseteq Ids
    /\ together \in BOOLEAN
    /\ lostDrop \in BOOLEAN

(* An index that holds the table serves the alias.                         *)
Init ==
    /\ strategy \in Strategies
    /\ \E rows \in Tables : db = [id \in Ids |-> IF id \in rows THEN 1 ELSE 0]
    /\ writes = 0
    /\ second = 1
    /\ exists = {0}
    /\ doc = [n \in Names |-> IF n = 0 THEN db ELSE Nothing]
    /\ alias = {0}
    /\ pc = [r \in Rebuilds |-> "idle"]
    /\ name = [r \in Rebuilds |-> 0]
    /\ cursor = [r \in Rebuilds |-> 0]
    /\ limit = [r \in Rebuilds |-> 0]
    /\ batch = [r \in Rebuilds |-> NoRows]
    /\ old = [r \in Rebuilds |-> {}]
    /\ victim = [r \in Rebuilds |-> 0]
    /\ pushed = {}
    /\ faults = 0
    /\ settled = Ids
    /\ together = FALSE
    /\ lostDrop = FALSE
-----------------------------------------------------------------------------
(* What elasticsearch does.                                                *)

Overlay(d, rows) == [id \in Ids |-> IF id \in DOMAIN rows THEN rows[id] ELSE d[id]]

RunCreate(n) ==
    /\ exists' = exists \cup {n}
    /\ doc' = [doc EXCEPT ![n] = Nothing]
    /\ UNCHANGED alias

(* Writing to an index that is not there creates it.                       *)
RunBulk(n, rows) ==
    /\ exists' = exists \cup {n}
    /\ doc' = [doc EXCEPT ![n] = Overlay(doc[n], rows)]
    /\ UNCHANGED alias

RunAddAlias(n) ==
    /\ alias' = alias \cup {n}
    /\ UNCHANGED <<exists, doc>>

RunDelete(n) ==
    /\ exists' = exists \ {n}
    /\ doc' = [doc EXCEPT ![n] = Nothing]
    /\ alias' = alias \ {n}

(* r goes on to the call "next".                                           *)
Goto(r, next) == pc' = [pc EXCEPT ![r] = next]

(* The locals of insertIntoES end with it.                                 *)
Leave(r) ==
    /\ cursor' = [cursor EXCEPT ![r] = 0]
    /\ limit' = [limit EXCEPT ![r] = 0]
    /\ batch' = [batch EXCEPT ![r] = NoRows]
-----------------------------------------------------------------------------
(* reBuildIndex names the new index after the second in which it starts.   *)
ReBuildIndex(r) ==
    /\ pc[r] = "idle" /\ \A q \in 1 .. r - 1 : pc[q] # "idle"
    /\ second' \in second .. MaxSecond
    /\ name' = [name EXCEPT ![r] = second']
    /\ Goto(r, "create")
    /\ together' = (together \/ Active # {})
    /\ UNCHANGED <<strategy, pushed, faults, elastic, table, cursor, limit, batch, old,
                   victim, settled, lostDrop>>

(* create throws if the index exists; the catch clause then deletes it.    *)
CreateIndex(r) ==
    /\ pc[r] = "create"
    /\ IF name[r] \in exists
         THEN Goto(r, "cleanup") /\ UNCHANGED elastic
         ELSE Goto(r, "mapping") /\ RunCreate(name[r])
    /\ UNCHANGED <<strategy, second, pushed, faults, table, name, cursor, limit, batch,
                   old, victim, history>>

PutMapping(r) ==
    /\ pc[r] = "mapping"
    /\ Goto(r, IF name[r] \in exists THEN "count" ELSE "cleanup")
    /\ UNCHANGED <<strategy, second, pushed, faults, elastic, table, name, cursor,
                   limit, batch, old, victim, history>>

(* A call that is not acknowledged makes createNewIndex return null: the   *)
(* rebuild ends and the new index stays.                                   *)
NotAcknowledged(r) ==
    /\ pc[r] = "mapping" /\ faults < MaxFaults
    /\ faults' = faults + 1
    /\ Goto(r, "failed")
    /\ UNCHANGED <<strategy, second, pushed, elastic, table, name, cursor, limit,
                   batch, old, victim, history>>
-----------------------------------------------------------------------------
(* insertIntoES, in its three implementations.  Without an ORDER BY the    *)
(* database returns rows in the order of their primary key.                *)

Rows == {id \in Ids : db[id] # 0}
Smallest(S) == CHOOSE x \in S : \A y \in S : x <= y
Largest(S) == CHOOSE x \in S : \A y \in S : x >= y
Before(id) == Cardinality({j \in Rows : j < id})

(* Mutant: the last page is not read unless it is full.                    *)
FullPages == Cardinality(Rows) \div Size

TotalPage == (Cardinality(Rows) + Size - 1) \div Size

RowsOfPage(p) == {id \in Rows : Before(id) \in (p - 1) * Size .. p * Size - 1}
RowsInRange(min, max) == {id \in Rows : min <= id /\ id < max}

(* Mutant: the last row is read again.                                     *)
RowsFrom(id) == {j \in Rows : j >= id}

RowsLargerThan(id) == {j \in Rows : j > id}

(* The queries before the loop.  selectMinId and selectMaxId of an empty   *)
(* table are null, and unboxing null throws.                               *)
CountRows(r) ==
    /\ pc[r] = "count"
    /\ \/ /\ strategy = "page"
          /\ limit' = [limit EXCEPT ![r] = TotalPage]
          /\ cursor' = [cursor EXCEPT ![r] = 1]
          /\ Goto(r, IF Rows = {} THEN "old" ELSE "read")
       \/ /\ strategy = "minmax"
          /\ cursor' = [cursor EXCEPT ![r] = IF Rows = {} THEN 0 ELSE Smallest(Rows)]
          /\ Goto(r, IF Rows = {} THEN "cleanup" ELSE "max")
          /\ UNCHANGED limit
       \/ /\ strategy = "larger"
          /\ cursor' = [cursor EXCEPT ![r] = 0]
          /\ Goto(r, "read")
          /\ UNCHANGED limit
    /\ UNCHANGED <<strategy, second, pushed, faults, elastic, table, name, batch, old,
                   victim, history>>

GetMaxId(r) ==
    /\ pc[r] = "max"
    /\ IF Rows = {}
         THEN Goto(r, "cleanup") /\ UNCHANGED limit
         ELSE /\ limit' = [limit EXCEPT ![r] = Largest(Rows)]
              /\ Goto(r, IF Largest(Rows) < cursor[r] THEN "old" ELSE "read")
    /\ UNCHANGED <<strategy, second, pushed, faults, elastic, table, name, cursor,
                   batch, old, victim, history>>

(* One query of the loop, which leaves the position at "next".  An empty   *)
(* result is skipped, or ends the loop if "last" says so.                  *)
Fetch(r, rows, next, last) ==
    /\ cursor' = [cursor EXCEPT ![r] = next]
    /\ batch' = [batch EXCEPT ![r] = [id \in rows |-> db[id]]]
    /\ Goto(r, IF rows # {} THEN "write" ELSE IF last THEN "old" ELSE "read")

ReadRows(r) ==
    /\ pc[r] = "read"
    /\ \/ /\ strategy = "page" /\ cursor[r] <= limit[r]
          /\ Fetch(r, RowsOfPage(cursor[r]), cursor[r] + 1, FALSE)
       \/ /\ strategy = "minmax" /\ cursor[r] <= limit[r]
          /\ Fetch(r, RowsInRange(cursor[r], Wrap(cursor[r] + Size)),
                   Wrap(cursor[r] + Size), FALSE)
       \/ /\ strategy = "larger"
          /\ LET rows == RowsLargerThan(cursor[r])
             IN  Fetch(r, rows, IF rows = {} THEN cursor[r] ELSE Largest(rows), TRUE)
    /\ UNCHANGED <<strategy, second, pushed, faults, elastic, table, name, limit, old,
                   victim, history>>

NoMoreRows(r) ==
    /\ pc[r] = "read" /\ strategy # "larger" /\ cursor[r] > limit[r]
    /\ Goto(r, "old")
    /\ UNCHANGED <<strategy, second, pushed, faults, elastic, table, name, cursor,
                   limit, batch, old, victim, history>>

BulkIndex(r) ==
    /\ pc[r] = "write"
    /\ RunBulk(name[r], batch[r])
    /\ batch' = [batch EXCEPT ![r] = NoRows]
    /\ Goto(r, "read")
    /\ UNCHANGED <<strategy, second, pushed, faults, table, name, cursor, limit, old,
                   victim, history>>
-----------------------------------------------------------------------------
(* The switch of the alias.                                                *)

(* Asking for the indexes of an alias that stands for none throws.         *)
GetIndexByAlias(r) ==
    /\ pc[r] = "old"
    /\ old' = [old EXCEPT ![r] = alias]
    /\ Goto(r, IF alias = {} THEN "cleanup" ELSE "alias")
    /\ Leave(r)
    /\ UNCHANGED <<strategy, second, pushed, faults, elastic, table, name, victim,
                   history>>

(* Mutant: the old indexes are listed after the new one has the alias.     *)
AddAliasFirst(r) ==
    /\ pc[r] = "alias"
    /\ name[r] \in exists
    /\ RunAddAlias(name[r])
    /\ old' = [old EXCEPT ![r] = alias']
    /\ Goto(r, "drop")
    /\ UNCHANGED <<strategy, second, pushed, faults, table, name, cursor, limit, batch,
                   victim, history>>

AddAlias(r) ==
    /\ pc[r] = "alias"
    /\ IF name[r] \in exists
         THEN RunAddAlias(name[r]) /\ Goto(r, "drop")
         ELSE Goto(r, "cleanup") /\ UNCHANGED elastic
    /\ UNCHANGED <<strategy, second, pushed, faults, table, name, cursor, limit, batch,
                   old, victim, history>>

(* deleteIndex asks whether the index exists and deletes it if it does.    *)
OldIndexExists(r) ==
    /\ pc[r] = "drop"
    /\ \E n \in old[r] :
         IF n \in exists
           THEN /\ victim' = [victim EXCEPT ![r] = n]
                /\ Goto(r, "delete")
                /\ UNCHANGED old
           ELSE /\ old' = [old EXCEPT ![r] = @ \ {n}]
                /\ UNCHANGED <<pc, victim>>
    /\ UNCHANGED <<strategy, second, pushed, faults, elastic, table, name, cursor,
                   limit, batch, history>>

(* It throws if the index has gone in between.                             *)
DeleteOldIndex(r) ==
    /\ pc[r] = "delete"
    /\ IF victim[r] \in exists
         THEN /\ RunDelete(victim[r])
              /\ old' = [old EXCEPT ![r] = @ \ {victim[r]}]
              /\ Goto(r, "drop")
         ELSE Goto(r, "cleanup") /\ UNCHANGED <<elastic, old>>
    /\ victim' = [victim EXCEPT ![r] = 0]
    /\ UNCHANGED <<strategy, second, pushed, faults, table, name, cursor, limit, batch,
                   history>>

RebuildSucceeds(r) ==
    /\ pc[r] = "drop" /\ old[r] = {}
    /\ Goto(r, "done")
    /\ UNCHANGED <<strategy, second, pushed, faults, elastic, table, name, cursor,
                   limit, batch, old, victim, history>>

(* Mutant: the catch clause only logs.                                     *)
KeepNewIndex(r) ==
    /\ pc[r] = "cleanup"
    /\ Goto(r, "failed")
    /\ UNCHANGED <<strategy, second, pushed, faults, elastic, table, name, cursor,
                   limit, batch, old, victim, history>>

(* The catch clauses delete the new index.                                 *)
DeleteNewIndex(r) ==
    /\ pc[r] = "cleanup"
    /\ RunDelete(name[r])
    /\ Goto(r, "failed")
    /\ Leave(r)
    /\ old' = [old EXCEPT ![r] = {}]
    /\ victim' = [victim EXCEPT ![r] = 0]
    /\ UNCHANGED <<strategy, second, pushed, faults, table, name, history>>

(* A call of the rebuild throws, or addAlias returns false, before or      *)
(* after elasticsearch has done its work.                                  *)
CallFails(r) ==
    /\ pc[r] \in Calls /\ (pc[r] = "drop" => old[r] # {})
    /\ faults < MaxFaults
    /\ faults' = faults + 1
    /\ Goto(r, IF pc[r] = "cleanup" THEN "failed" ELSE "cleanup")
    /\ \/ UNCHANGED elastic
       \/ pc[r] = "create" /\ name[r] \notin exists /\ RunCreate(name[r])
       \/ pc[r] = "write" /\ RunBulk(name[r], batch[r])
       \/ pc[r] = "alias" /\ name[r] \in exists /\ RunAddAlias(name[r])
       \/ pc[r] = "delete" /\ RunDelete(victim[r])
       \/ pc[r] = "cleanup" /\ RunDelete(name[r])
    /\ lostDrop' = (lostDrop \/ (pc[r] = "delete" /\ victim[r] \in exists \ exists'))
    /\ UNCHANGED <<strategy, second, pushed, table, name, cursor, limit, batch, old,
                   victim, settled, together>>
-----------------------------------------------------------------------------
(* Rows change, and the application pushes the changes to the alias.       *)

(* Documents become unsettled when their row changes, and all of them when *)
(* rows come or go under a rebuild that reads page by page.                *)
Unsettle(id, moves) ==
    settled' = IF moves /\ strategy = "page" /\ Active # {} THEN {}
               ELSE settled \ {id}

ChangeRow(id, version) ==
    /\ writes < MaxWrites
    /\ writes' = writes + 1
    /\ db' = [db EXCEPT ![id] = version]
    /\ Unsettle(id, version = 0 \/ db[id] = 0)
    /\ UNCHANGED <<strategy, second, pushed, faults, elastic, locals, together, lostDrop>>

SaveRow(id) == ChangeRow(id, writes + 2)
DeleteRow(id) == db[id] # 0 /\ ChangeRow(id, 0)

(* updateByIds and insertByIds read rows and then write them, on any        *)
(* number of threads, and nothing orders their writes.  Documents do not   *)
(* depend on each other, so a push is one row at the version that it read. *)
ReadForPush(id) ==
    /\ id \in Rows
    /\ pushed' = pushed \cup {<<id, db[id]>>} /\ Cardinality(pushed') <= MaxPushes
    /\ UNCHANGED <<strategy, second, faults, elastic, table, locals, history>>

(* A push of the row still holds another version than the table.           *)
Outdated(id) == \E v \in Versions \ {db[id]} : <<id, v>> \in pushed

(* What the alias takes now settles the document if it is the row, no      *)
(* rebuild runs and no push is left that would bring an older version back.*)
(* A write to an alias of several indexes is refused.                      *)
WriteToAlias(id, v) ==
    IF Cardinality(alias) = 1
      THEN /\ RunBulk(CHOOSE n \in alias : TRUE, [i \in {id} |-> v])
           /\ settled' = IF v # db[id] THEN settled \ {id}
                         ELSE IF Active = {} /\ ~Outdated(id) THEN settled \cup {id}
                         ELSE settled
      ELSE UNCHANGED <<elastic, settled>>

(* Another call that has read the same row may still have to write it.     *)
PushDone(push) == pushed' \in {pushed, pushed \ {push}}

PushRow(push) ==
    /\ push \in pushed
    /\ WriteToAlias(push[1], push[2])
    /\ PushDone(push)
    /\ UNCHANGED <<strategy, second, faults, table, locals, together, lostDrop>>

PushFails(push) ==
    /\ push \in pushed /\ faults < MaxFaults
    /\ faults' = faults + 1
    /\ PushDone(push)
    /\ \/ UNCHANGED elastic
       \/ \E n \in alias : alias = {n} /\ RunBulk(n, [i \in {push[1]} |-> push[2]])
    /\ UNCHANGED <<strategy, second, table, locals, history>>

(* deleteByIds does not look at the row.                                   *)
DeleteById(id) ==
    /\ WriteToAlias(id, 0)
    /\ UNCHANGED <<strategy, second, pushed, faults, table, locals, together, lostDrop>>
-----------------------------------------------------------------------------
Step(r) ==
    \/ ReBuildIndex(r) \/ CreateIndex(r) \/ PutMapping(r)
    \/ CountRows(r) \/ GetMaxId(r) \/ ReadRows(r) \/ NoMoreRows(r) \/ BulkIndex(r)
    \/ GetIndexByAlias(r) \/ AddAlias(r) \/ OldIndexExists(r) \/ DeleteOldIndex(r)
    \/ RebuildSucceeds(r) \/ DeleteNewIndex(r)

Next ==
    \/ \E r \in Rebuilds : Step(r) \/ NotAcknowledged(r) \/ CallFails(r)
    \/ \E id \in Ids : SaveRow(id) \/ DeleteRow(id)
    \/ \E id \in Pushable : ReadForPush(id) \/ DeleteById(id)
    \/ \E push \in pushed : PushRow(push) \/ PushFails(push)

Spec == Init /\ [][Next]_vars

(* A thread that rebuilds goes on; nothing else has to happen.             *)
FairSpec == Spec /\ \A r \in Rebuilds : WF_vars(pc[r] # "idle" /\ Step(r))
-----------------------------------------------------------------------------
(* Two rebuilds that start in the same second take the same index name.    *)
Collision == \E r, q \in Rebuilds : r # q /\ name[r] = name[q] /\ name[r] # 0

(* A document that was pushed or deleted while no rebuild ran and no push  *)
(* of an older version of its row was under way, and whose row has not     *)
(* changed since, is what a search finds, in every index of the alias: no  *)
(* later push or rebuild loses it or brings an older version back.         *)
(* (updateByIds, insertByIds, deleteByIds and insertIntoES; with the page  *)
(* strategy as long as no row comes or goes under the rebuild.)            *)
SettledIsServed ==
    ~Collision => \A id \in settled, n \in alias : doc[n][id] = db[id]

(* Searches always find an index behind the alias, whatever call of a      *)
(* rebuild throws.  (reBuildIndex deletes the old indexes after the new    *)
(* one has the alias; not so when rebuilds overlap or share a name, or     *)
(* when the deletion of an old index throws after it took effect.)         *)
AliasServes ==
    ~together /\ ~Collision /\ ~lostDrop => alias # {}

(* When no call has failed and no rebuild runs, there is one index, and it *)
(* has the alias: rebuilds leave nothing behind.  (deleteIndex)            *)
SettlesOnOneIndex ==
    ~together /\ ~Collision /\ faults = 0 /\ Active = {} =>
        alias = exists /\ Cardinality(exists) = 1

(* A rebuild ends, although rows come and go while it reads them, unless   *)
(* the largest id is so near the largest int that start overflows.         *)
(* (the loops of the three implementations of insertIntoES)                *)
RebuildEnds ==
    \A r \in Rebuilds :
        r \in Active ~> \/ pc[r] \in Ended
                        \/ strategy = "minmax" /\ limit[r] + Size > MaxInt
=============================================================================

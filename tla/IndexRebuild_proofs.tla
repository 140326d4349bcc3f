------------------------ MODULE IndexRebuild_proofs ------------------------
(***************************************************************************)
(* Proofs about IndexRebuild: for any number of rebuilds, rows, changes    *)
(* and failing calls, the alias always stands for an index, the values have *)
(* their types, a rebuild leaves one index, and a settled document is what  *)
(* a search finds, under the conditions that the properties name.          *)
(***************************************************************************)
EXTENDS IndexRebuild, FiniteSetTheorems, WellFoundedInduction, TLAPS

(* The types on which the invariant rests.                                 *)
Shape ==
    /\ second \in 1 .. MaxSecond
    /\ exists \subseteq Names
    /\ alias \subseteq exists
    /\ pc \in [Rebuilds -> {"idle"} \cup Calls \cup Ended]
    /\ name \in [Rebuilds -> Names]
    /\ old \in [Rebuilds -> SUBSET Names]
    /\ victim \in [Rebuilds -> Names]

Switched == {"drop", "delete", "cleanup"} \cup Ended

(* Every index but the first was created by the rebuild that bears its     *)
(* name, and has the alias only if that rebuild has asked for it.          *)
NamesTaken ==
    /\ \A r \in Rebuilds : pc[r] = "idle" <=> name[r] = 0
    /\ \A n \in exists :
         n = 0 \/ \E q \in Rebuilds : name[q] = n /\ pc[q] \notin {"idle", "create"}
    /\ \A n \in alias :
         n = 0 \/ \E q \in Rebuilds : name[q] = n /\ pc[q] \in Switched

OneAtATime == ~together => \A r, q \in Rebuilds : pc[r] \in Calls /\ pc[q] \in Calls => r = q

(* What keeps the alias when r goes on, or when its next call throws.      *)
Keeps(r) ==
    /\ pc[r] = "alias" => old[r] = alias
    /\ pc[r] \in {"drop", "delete"} =>
         name[r] \in alias /\ name[r] \notin old[r] /\ old[r] \subseteq alias
    /\ pc[r] = "delete" => victim[r] \in old[r]
    /\ pc[r] = "cleanup" => \E n \in alias : n # name[r]

Undisturbed == ~together /\ ~Collision /\ ~lostDrop

Serving == Undisturbed => alias # {} /\ \A r \in Rebuilds : Keeps(r)

AliasInv == Shape /\ NamesTaken /\ OneAtATime /\ Serving
-----------------------------------------------------------------------------

(* What all calls of a rebuild that has started have in common.            *)
Transition(r) ==
    /\ pc[r] \in Calls
    /\ pc' = [pc EXCEPT ![r] = pc'[r]]
    /\ pc'[r] \in (Calls \cup Ended) \ {"create"}
    /\ pc[r] \in Switched => pc'[r] \in Switched
    /\ exists' \subseteq exists \cup {name[r]}
    /\ alias' \subseteq alias \cup {name[r]}
    /\ name[r] \in alias' => name[r] \in alias \/ pc'[r] \in Switched
    /\ lostDrop => lostDrop'
    /\ UNCHANGED <<name, together>>

LEMMA TransitionKeepsNames ==
    ASSUME Shape, NamesTaken, OneAtATime, NEW r \in Rebuilds, Transition(r)
    PROVE  NamesTaken' /\ OneAtATime'
<1> USE DEF Shape, Transition, Switched, Calls, Ended
<1>1. \A q \in Rebuilds : q # r => pc'[q] = pc[q]
  OBVIOUS
<1>2. \A q \in Rebuilds : pc'[q] = "idle" <=> name'[q] = 0
  BY <1>1 DEF NamesTaken
<1>3. ASSUME NEW n \in exists'
      PROVE  n = 0 \/ \E q \in Rebuilds : name'[q] = n /\ pc'[q] \notin {"idle", "create"}
  BY <1>1, <1>3 DEF NamesTaken
<1>4. ASSUME NEW n \in alias'
      PROVE  n = 0 \/ \E q \in Rebuilds : name'[q] = n /\ pc'[q] \in Switched
  BY <1>1, <1>4 DEF NamesTaken
<1>5. OneAtATime'
  BY <1>1 DEF OneAtATime
<1> QED
  BY <1>2, <1>3, <1>4, <1>5 DEF NamesTaken

(* Only the rebuild that takes the step can lose what keeps the alias:     *)
(* undisturbed, no other one is running.                                   *)
LEMMA TransitionKeepsServing ==
    ASSUME AliasInv, NEW r \in Rebuilds, Transition(r),
           Undisturbed /\ Undisturbed' => alias' # {} /\ Keeps(r)'
    PROVE  Serving'
<1> SUFFICES ASSUME Undisturbed' PROVE alias' # {} /\ \A q \in Rebuilds : Keeps(q)'
  BY DEF Serving
<1>1. Undisturbed
  BY DEF Undisturbed, Collision, Transition
<1>2. ASSUME NEW q \in Rebuilds, q # r PROVE Keeps(q)'
  <2>1. pc'[q] = pc[q] /\ pc[q] \notin Calls
    BY <1>1, <1>2 DEF AliasInv, Shape, OneAtATime, Undisturbed, Transition
  <2> QED
    BY <2>1 DEF Keeps, Calls
<1> QED
  BY <1>1, <1>2

(* A rebuild that has not asked for the alias does not have it.            *)
LEMMA NotYetServed ==
    ASSUME AliasInv, Undisturbed, NEW r \in Rebuilds, pc[r] \in Calls \ Switched
    PROVE  name[r] \notin alias /\ alias # {}
<1>1. name[r] # 0
  BY DEF AliasInv, NamesTaken, Calls
<1>2. ASSUME NEW q \in Rebuilds, name[q] = name[r] PROVE q = r
  BY <1>1, <1>2 DEF Undisturbed, Collision
<1> QED
  BY <1>1, <1>2 DEF AliasInv, NamesTaken, Serving

LEMMA TransitionKeepsInv ==
    ASSUME AliasInv, NEW r \in Rebuilds, Shape', Transition(r),
           Undisturbed /\ Undisturbed' => alias' # {} /\ Keeps(r)'
    PROVE  AliasInv'
  BY TransitionKeepsNames, TransitionKeepsServing DEF AliasInv

LEMMA CreateIndexKeepsInv ==
    ASSUME AliasInv, NEW r \in Rebuilds, CreateIndex(r) PROVE AliasInv'
<1> USE DEF CreateIndex, RunCreate, elastic, table, locals, history, Goto, Calls, Ended, Switched
<1>1. Shape'
  BY SizesAssumption DEF AliasInv, Shape
<1>2. Transition(r)
  BY DEF AliasInv, Shape, Transition
<1>3. Undisturbed => alias' # {} /\ Keeps(r)'
  BY NotYetServed DEF AliasInv, Shape, Serving, Keeps
<1> QED
  BY <1>1, <1>2, <1>3, TransitionKeepsInv

LEMMA PutMappingKeepsInv ==
    ASSUME AliasInv, NEW r \in Rebuilds, PutMapping(r) PROVE AliasInv'
<1> USE DEF PutMapping, elastic, table, locals, history, Goto, Calls, Ended, Switched
<1>1. Shape'
  BY SizesAssumption DEF AliasInv, Shape
<1>2. Transition(r)
  BY DEF AliasInv, Shape, Transition
<1>3. Undisturbed => alias' # {} /\ Keeps(r)'
  BY NotYetServed DEF AliasInv, Shape, Serving, Keeps
<1> QED
  BY <1>1, <1>2, <1>3, TransitionKeepsInv

LEMMA CountRowsKeepsInv ==
    ASSUME AliasInv, NEW r \in Rebuilds, CountRows(r) PROVE AliasInv'
<1> USE DEF CountRows, elastic, table, locals, history, Goto, Calls, Ended, Switched
<1>1. Shape'
  BY SizesAssumption DEF AliasInv, Shape
<1>2. Transition(r)
  BY DEF AliasInv, Shape, Transition
<1>3. Undisturbed => alias' # {} /\ Keeps(r)'
  BY NotYetServed DEF AliasInv, Shape, Serving, Keeps
<1> QED
  BY <1>1, <1>2, <1>3, TransitionKeepsInv

LEMMA GetMaxIdKeepsInv ==
    ASSUME AliasInv, NEW r \in Rebuilds, GetMaxId(r) PROVE AliasInv'
<1> USE DEF GetMaxId, elastic, table, locals, history, Goto, Calls, Ended, Switched
<1>1. Shape'
  BY SizesAssumption DEF AliasInv, Shape
<1>2. Transition(r)
  BY DEF AliasInv, Shape, Transition
<1>3. Undisturbed => alias' # {} /\ Keeps(r)'
  BY NotYetServed DEF AliasInv, Shape, Serving, Keeps
<1> QED
  BY <1>1, <1>2, <1>3, TransitionKeepsInv

LEMMA ReadRowsKeepsInv ==
    ASSUME AliasInv, NEW r \in Rebuilds, ReadRows(r) PROVE AliasInv'
<1> USE DEF ReadRows, Fetch, elastic, table, locals, history, Goto, Calls, Ended, Switched
<1>1. Shape'
  BY SizesAssumption DEF AliasInv, Shape
<1>2. Transition(r)
  BY DEF AliasInv, Shape, Transition
<1>3. Undisturbed => alias' # {} /\ Keeps(r)'
  BY NotYetServed DEF AliasInv, Shape, Serving, Keeps
<1> QED
  BY <1>1, <1>2, <1>3, TransitionKeepsInv

LEMMA NoMoreRowsKeepsInv ==
    ASSUME AliasInv, NEW r \in Rebuilds, NoMoreRows(r) PROVE AliasInv'
<1> USE DEF NoMoreRows, elastic, table, locals, history, Goto, Calls, Ended, Switched
<1>1. Shape'
  BY SizesAssumption DEF AliasInv, Shape
<1>2. Transition(r)
  BY DEF AliasInv, Shape, Transition
<1>3. Undisturbed => alias' # {} /\ Keeps(r)'
  BY NotYetServed DEF AliasInv, Shape, Serving, Keeps
<1> QED
  BY <1>1, <1>2, <1>3, TransitionKeepsInv

LEMMA BulkIndexKeepsInv ==
    ASSUME AliasInv, NEW r \in Rebuilds, BulkIndex(r) PROVE AliasInv'
<1> USE DEF BulkIndex, RunBulk, elastic, table, locals, history, Goto, Calls, Ended, Switched
<1>1. Shape'
  BY SizesAssumption DEF AliasInv, Shape
<1>2. Transition(r)
  BY DEF AliasInv, Shape, Transition
<1>3. Undisturbed => alias' # {} /\ Keeps(r)'
  BY NotYetServed DEF AliasInv, Shape, Serving, Keeps
<1> QED
  BY <1>1, <1>2, <1>3, TransitionKeepsInv

LEMMA GetIndexByAliasKeepsInv ==
    ASSUME AliasInv, NEW r \in Rebuilds, GetIndexByAlias(r) PROVE AliasInv'
<1> USE DEF GetIndexByAlias, Leave, elastic, table, locals, history, Goto, Calls, Ended, Switched
<1>1. Shape'
  BY SizesAssumption DEF AliasInv, Shape
<1>2. Transition(r)
  BY DEF AliasInv, Shape, Transition
<1>3. Undisturbed => alias' # {} /\ Keeps(r)'
  BY NotYetServed DEF AliasInv, Shape, Serving, Keeps
<1> QED
  BY <1>1, <1>2, <1>3, TransitionKeepsInv

LEMMA AddAliasKeepsInv ==
    ASSUME AliasInv, NEW r \in Rebuilds, AddAlias(r) PROVE AliasInv'
<1> USE DEF AddAlias, RunAddAlias, elastic, table, locals, history, Goto, Calls, Ended, Switched
<1>1. Shape'
  BY SizesAssumption DEF AliasInv, Shape
<1>2. Transition(r)
  BY DEF AliasInv, Shape, Transition
<1>3. Undisturbed => alias' # {} /\ Keeps(r)'
  BY NotYetServed DEF AliasInv, Shape, Serving, Keeps
<1> QED
  BY <1>1, <1>2, <1>3, TransitionKeepsInv

LEMMA OldIndexExistsKeepsInv ==
    ASSUME AliasInv, NEW r \in Rebuilds, OldIndexExists(r) PROVE AliasInv'
<1> USE DEF OldIndexExists, elastic, table, locals, history, Goto, Calls, Ended, Switched
<1>1. Shape'
  BY SizesAssumption DEF AliasInv, Shape
<1>2. Transition(r)
  BY DEF AliasInv, Shape, Transition
<1>3. Undisturbed => alias' # {} /\ Keeps(r)'
  BY NotYetServed DEF AliasInv, Shape, Serving, Keeps
<1> QED
  BY <1>1, <1>2, <1>3, TransitionKeepsInv

LEMMA DeleteOldIndexKeepsInv ==
    ASSUME AliasInv, NEW r \in Rebuilds, DeleteOldIndex(r) PROVE AliasInv'
<1> USE DEF DeleteOldIndex, RunDelete, elastic, table, locals, history, Goto, Calls, Ended, Switched
<1>1. Shape'
  <2>1. exists' \subseteq Names /\ alias' \subseteq exists'
    BY DEF AliasInv, Shape
  <2>2. second' \in 1 .. MaxSecond /\ name' \in [Rebuilds -> Names]
    BY DEF AliasInv, Shape
  <2>3. pc' \in [Rebuilds -> {"idle"} \cup Calls \cup Ended]
    BY DEF AliasInv, Shape
  <2>4. old' \in [Rebuilds -> SUBSET Names] /\ victim' \in [Rebuilds -> Names]
    BY SizesAssumption DEF AliasInv, Shape, Names
  <2> QED
    BY <2>1, <2>2, <2>3, <2>4 DEF Shape
<1>2. Transition(r)
  BY DEF AliasInv, Shape, Transition
<1>3. Undisturbed => alias' # {} /\ Keeps(r)'
  BY NotYetServed DEF AliasInv, Shape, Serving, Keeps
<1> QED
  BY <1>1, <1>2, <1>3, TransitionKeepsInv

LEMMA RebuildSucceedsKeepsInv ==
    ASSUME AliasInv, NEW r \in Rebuilds, RebuildSucceeds(r) PROVE AliasInv'
<1> USE DEF RebuildSucceeds, elastic, table, locals, history, Goto, Calls, Ended, Switched
<1>1. Shape'
  BY SizesAssumption DEF AliasInv, Shape
<1>2. Transition(r)
  BY DEF AliasInv, Shape, Transition
<1>3. Undisturbed => alias' # {} /\ Keeps(r)'
  BY NotYetServed DEF AliasInv, Shape, Serving, Keeps
<1> QED
  BY <1>1, <1>2, <1>3, TransitionKeepsInv

LEMMA DeleteNewIndexKeepsInv ==
    ASSUME AliasInv, NEW r \in Rebuilds, DeleteNewIndex(r) PROVE AliasInv'
<1> USE DEF DeleteNewIndex, RunDelete, Leave, elastic, table, locals, history, Goto, Calls, Ended, Switched
<1>1. Shape'
  <2>1. exists' \subseteq Names /\ alias' \subseteq exists'
    BY DEF AliasInv, Shape
  <2>2. second' \in 1 .. MaxSecond /\ name' \in [Rebuilds -> Names]
    BY DEF AliasInv, Shape
  <2>3. pc' \in [Rebuilds -> {"idle"} \cup Calls \cup Ended]
    BY DEF AliasInv, Shape
  <2>4. old' \in [Rebuilds -> SUBSET Names] /\ victim' \in [Rebuilds -> Names]
    BY SizesAssumption DEF AliasInv, Shape, Names
  <2> QED
    BY <2>1, <2>2, <2>3, <2>4 DEF Shape
<1>2. Transition(r)
  BY DEF AliasInv, Shape, Transition
<1>3. Undisturbed => alias' # {} /\ Keeps(r)'
  BY NotYetServed DEF AliasInv, Shape, Serving, Keeps
<1> QED
  BY <1>1, <1>2, <1>3, TransitionKeepsInv

LEMMA NotAcknowledgedKeepsInv ==
    ASSUME AliasInv, NEW r \in Rebuilds, NotAcknowledged(r) PROVE AliasInv'
<1> USE DEF NotAcknowledged, elastic, table, locals, history, Goto, Calls, Ended, Switched
<1>1. Shape'
  BY SizesAssumption DEF AliasInv, Shape
<1>2. Transition(r)
  BY DEF AliasInv, Shape, Transition
<1>3. Undisturbed => alias' # {} /\ Keeps(r)'
  BY NotYetServed DEF AliasInv, Shape, Serving, Keeps
<1> QED
  BY <1>1, <1>2, <1>3, TransitionKeepsInv

LEMMA CallFailsKeepsInv ==
    ASSUME AliasInv, NEW r \in Rebuilds, CallFails(r) PROVE AliasInv'
<1> USE DEF CallFails, RunCreate, RunBulk, RunAddAlias, RunDelete, elastic, table, locals, history, Goto, Calls, Ended, Switched
<1>1. Shape'
  <2>1. exists' \subseteq Names /\ alias' \subseteq exists'
    <3>1. exists \subseteq Names /\ alias \subseteq exists /\ name[r] \in Names
      BY DEF AliasInv, Shape
    <3>2. CASE UNCHANGED elastic
      BY <3>1, <3>2
    <3>3. CASE RunCreate(name[r]) \/ RunBulk(name[r], batch[r])
      BY <3>1, <3>3
    <3>4. CASE name[r] \in exists /\ RunAddAlias(name[r])
      BY <3>1, <3>4
    <3>5. CASE RunDelete(victim[r]) \/ RunDelete(name[r])
      BY <3>1, <3>5
    <3> QED
      BY <3>2, <3>3, <3>4, <3>5
  <2>2. second' \in 1 .. MaxSecond /\ name' \in [Rebuilds -> Names]
    BY DEF AliasInv, Shape
  <2>3. pc' \in [Rebuilds -> {"idle"} \cup Calls \cup Ended]
    BY DEF AliasInv, Shape
  <2>4. old' \in [Rebuilds -> SUBSET Names] /\ victim' \in [Rebuilds -> Names]
    BY SizesAssumption DEF AliasInv, Shape, Names
  <2> QED
    BY <2>1, <2>2, <2>3, <2>4 DEF Shape
<1>2. Transition(r)
  BY DEF AliasInv, Shape, Transition
<1>3. ASSUME Undisturbed, Undisturbed' PROVE alias' # {} /\ Keeps(r)'
  <2>1. pc'[r] \in {"cleanup", "failed"} /\ name'[r] = name[r]
    BY DEF AliasInv, Shape
  <2>2. \E n \in alias' : n # name[r]
    <3>1. CASE pc[r] \in Calls \ Switched
      BY <1>3, <3>1, NotYetServed
    <3>2. CASE pc[r] = "drop"
      <4>1. old[r] \subseteq alias /\ name[r] \notin old[r] /\ old[r] # {}
        BY <1>3, <3>2 DEF AliasInv, Serving, Keeps
      <4> QED
        BY <3>2, <4>1
    <3>3. CASE pc[r] = "delete"
      <4>1. victim[r] \in alias /\ victim[r] # name[r] /\ victim[r] \in exists
        BY <1>3, <3>3 DEF AliasInv, Shape, Serving, Keeps
      <4>2. victim[r] \in exists'
        BY <1>3, <3>3, <4>1 DEF Undisturbed
      <4> QED
        BY <3>3, <4>1, <4>2
    <3>4. CASE pc[r] = "cleanup"
      BY <1>3, <3>4 DEF AliasInv, Serving, Keeps
    <3> QED
      BY <3>1, <3>2, <3>3, <3>4
  <2> QED
    BY <2>1, <2>2 DEF Keeps
<1> QED
  BY <1>1, <1>2, <1>3, TransitionKeepsInv

(* A new rebuild finds, undisturbed, no other one running, and takes a     *)
(* name under which nothing exists yet.                                    *)
LEMMA ReBuildIndexKeepsInv ==
    ASSUME AliasInv, NEW r \in Rebuilds, ReBuildIndex(r) PROVE AliasInv'
<1> USE DEF ReBuildIndex, elastic, table, locals, Goto, Calls, Ended, Switched
<1>1. Shape'
  BY SizesAssumption DEF AliasInv, Shape, Names
<1>2. /\ second' # 0 /\ pc[r] = "idle" /\ pc'[r] = "create" /\ name'[r] = second'
      /\ \A q \in Rebuilds \ {r} : pc'[q] = pc[q] /\ name'[q] = name[q]
  BY SizesAssumption DEF AliasInv, Shape
<1>3. NamesTaken'
  BY <1>2 DEF AliasInv, NamesTaken
<1>4. OneAtATime'
  BY <1>2 DEF AliasInv, OneAtATime, Active
<1>5. Serving'
  <2> SUFFICES ASSUME Undisturbed' PROVE alias' # {} /\ \A q \in Rebuilds : Keeps(q)'
    BY DEF Serving
  <2>1. ~together /\ ~lostDrop /\ Active = {}
    BY DEF Undisturbed
  <2>2. ~Collision
    <3> SUFFICES ASSUME NEW p \in Rebuilds, NEW q \in Rebuilds, p # q,
                        name[p] = name[q], name[p] # 0
                 PROVE  FALSE
      BY DEF Collision
    <3>1. p # r /\ q # r
      BY <1>2 DEF AliasInv, NamesTaken
    <3> QED
      BY <1>2, <3>1 DEF Undisturbed, Collision
  <2>3. alias # {}
    BY <2>1, <2>2 DEF AliasInv, Serving, Undisturbed
  <2>4. ASSUME NEW q \in Rebuilds PROVE Keeps(q)'
    BY <1>2, <2>1 DEF Keeps, Active
  <2> QED
    BY <2>3, <2>4
<1> QED
  BY <1>1, <1>3, <1>4, <1>5 DEF AliasInv

(* The table and the pushes do not touch the alias, and write only to an   *)
(* index that has it.                                                      *)
LEMMA OthersKeepInv ==
    ASSUME AliasInv, exists' = exists, UNCHANGED <<alias, locals, second, together, lostDrop>>
    PROVE  AliasInv'
  BY DEF AliasInv, locals, Shape, NamesTaken, OneAtATime, Serving, Keeps, Undisturbed,
         Collision

LEMMA WriteToAliasKeepsIndexes ==
    ASSUME Shape, NEW id, NEW v, WriteToAlias(id, v) PROVE UNCHANGED <<exists, alias>>
<1>1. CASE Cardinality(alias) = 1
  <2>1. alias # {}
    BY <1>1, FS_EmptySet
  <2>2. (CHOOSE n \in alias : TRUE) \in exists
    BY <2>1 DEF Shape
  <2> QED
    BY <1>1, <2>2 DEF WriteToAlias, RunBulk
<1>2. CASE Cardinality(alias) # 1
  BY <1>2 DEF WriteToAlias, elastic
<1> QED
  BY <1>1, <1>2

LEMMA AliasInit == Init => AliasInv
<1> SUFFICES ASSUME Init PROVE AliasInv
  OBVIOUS
<1> USE DEF Init
<1>1. Shape
  BY SizesAssumption DEF Shape, Names
<1>2. NamesTaken /\ OneAtATime
  BY DEF NamesTaken, OneAtATime, Calls
<1>3. Serving
  BY DEF Serving, Keeps
<1> QED
  BY <1>1, <1>2, <1>3 DEF AliasInv

LEMMA AliasStep == AliasInv /\ [Next]_vars => AliasInv'
<1> SUFFICES ASSUME AliasInv, [Next]_vars PROVE AliasInv'
  OBVIOUS
<1>1. ASSUME NEW r \in Rebuilds, Step(r) PROVE AliasInv'
  BY <1>1, ReBuildIndexKeepsInv, CreateIndexKeepsInv, PutMappingKeepsInv,
     CountRowsKeepsInv, GetMaxIdKeepsInv, ReadRowsKeepsInv, NoMoreRowsKeepsInv,
     BulkIndexKeepsInv, GetIndexByAliasKeepsInv, AddAliasKeepsInv,
     OldIndexExistsKeepsInv, DeleteOldIndexKeepsInv, RebuildSucceedsKeepsInv,
     DeleteNewIndexKeepsInv DEF Step
<1>2. ASSUME NEW r \in Rebuilds, NotAcknowledged(r) \/ CallFails(r) PROVE AliasInv'
  BY <1>2, NotAcknowledgedKeepsInv, CallFailsKeepsInv
<1>3. ASSUME NEW id \in Ids, SaveRow(id) \/ DeleteRow(id) PROVE AliasInv'
  BY <1>3, OthersKeepInv DEF SaveRow, DeleteRow, ChangeRow, elastic
<1>4. ASSUME NEW id \in Ids, ReadForPush(id) PROVE AliasInv'
  BY <1>4, OthersKeepInv DEF ReadForPush, elastic, history
<1>5. ASSUME NEW id \in Ids, DeleteById(id) PROVE AliasInv'
  BY <1>5, OthersKeepInv, WriteToAliasKeepsIndexes DEF DeleteById, AliasInv
<1>6. ASSUME NEW push \in pushed, PushRow(push) PROVE AliasInv'
  BY <1>6, OthersKeepInv, WriteToAliasKeepsIndexes DEF PushRow, AliasInv
<1>7. ASSUME NEW push \in pushed, PushFails(push) PROVE AliasInv'
  BY <1>7, OthersKeepInv DEF PushFails, RunBulk, elastic, history, AliasInv, Shape
<1>8. CASE UNCHANGED vars
  BY <1>8, OthersKeepInv DEF vars, elastic, history
<1> QED
  BY <1>1, <1>2, <1>3, <1>4, <1>5, <1>6, <1>7, <1>8, SizesAssumption DEF Next

(* However many rebuilds run one after the other, whichever of their calls *)
(* throws, and whatever happens to the rows: the alias has an index.       *)
THEOREM AliasAlwaysServes == Spec => []AliasServes
<1>1. AliasInv => AliasServes
  BY DEF AliasInv, Serving, Undisturbed, AliasServes
<1> QED
  BY <1>1, AliasInit, AliasStep, PTL DEF Spec

-----------------------------------------------------------------------------
(* Facts about numbers that the loops of insertIntoES rest on.             *)

Below == {ss \in Nat \X Nat : ss[1] < ss[2]}

LEMMA LeastNumber ==
    ASSUME NEW S \in SUBSET Nat, S # {}
    PROVE  \E x \in S : \A y \in S : x <= y
<1>1. IsWellFoundedOn(Below, Nat)
  BY NatLessThanWellFounded DEF OpToRel, Below
<1>2. PICK x \in S : \A y \in S : ~(<<y, x>> \in Below)
  BY <1>1, WFMin
<1>3. ASSUME NEW y \in S PROVE x <= y
  <2>1. <<y, x>> \in Nat \X Nat /\ <<y, x>>[1] = y /\ <<y, x>>[2] = x
    OBVIOUS
  <2>2. ~(y < x)
    BY <1>2, <2>1 DEF Below
  <2> QED
    BY <2>1, <2>2
<1> QED
  BY <1>3

LEMMA GreatestNumber ==
    ASSUME NEW n \in Nat, NEW S \in SUBSET (0 .. n), S # {}
    PROVE  \E x \in S : \A y \in S : x >= y
<1> DEFINE T == {k \in 0 .. n : n - k \in S}
<1>1. T \in SUBSET Nat /\ T # {}
  <2>1. PICK x \in S : TRUE
    OBVIOUS
  <2>2. n - x \in 0 .. n /\ n - (n - x) = x
    OBVIOUS
  <2>3. n - x \in T
    BY <2>1, <2>2
  <2>4. T \subseteq Nat
    OBVIOUS
  <2> HIDE DEF T
  <2> QED
    BY <2>3, <2>4
<1>2. PICK k \in T : \A j \in T : k <= j
  <2> HIDE DEF T
  <2> QED
    BY <1>1, LeastNumber
<1>3. ASSUME NEW y \in S PROVE n - k >= y
  <2>1. n - y \in 0 .. n /\ n - (n - y) = y
    OBVIOUS
  <2>2. n - y \in T
    BY <2>1
  <2> QED
    BY <1>2, <2>2
<1> QED
  BY <1>2, <1>3

(* n rows fill no more than n pages, and the pages hold them.               *)
LEMMA PagesHold ==
    ASSUME NEW n \in Nat, NEW s \in Nat \ {0}
    PROVE  /\ (n + s - 1) \div s \in 0 .. n
           /\ n <= ((n + s - 1) \div s) * s
<1> DEFINE q == (n + s - 1) \div s
           m == (n + s - 1) % s
<1>1. q \in Int /\ m \in 0 .. s - 1 /\ n + s - 1 = s * q + m
  OBVIOUS
<1> HIDE DEF q, m
<1>2. n <= q * s
  BY <1>1
<1>3. q >= 0
  <2> SUFFICES ASSUME q <= -1 PROVE FALSE
    BY <1>1
  <2>1. s * q <= -s
    BY <1>1
  <2> QED
    BY <1>1, <2>1
<1>4. q <= n
  <2> SUFFICES ASSUME q >= n + 1 PROVE FALSE
    BY <1>1
  <2>1. s * q >= s * (n + 1)
    BY <1>1
  <2>2. s * (n + 1) = s * n + s
    OBVIOUS
  <2>3. s * n >= n
    OBVIOUS
  <2> QED
    BY <1>1, <2>1, <2>2, <2>3
<1> QED
  BY <1>1, <1>2, <1>3, <1>4 DEF q

(* int arithmetic makes an int of every number.                             *)
LEMMA WrapIsInt == ASSUME NEW x \in Int PROVE Wrap(x) \in Ints
<1>1. MaxInt \in Nat
  BY SizesAssumption
<1>2. (x + MaxInt + 1) % (2 * MaxInt + 2) \in 0 .. 2 * MaxInt + 1
  BY <1>1
<1> QED
  BY <1>1, <1>2 DEF Wrap, Ints

(* Every set of rows has a smallest and a largest id.                       *)
LEMMA Extremes ==
    ASSUME NEW S \in SUBSET Ids, S # {}
    PROVE  /\ Smallest(S) \in S /\ \A y \in S : Smallest(S) <= y
           /\ Largest(S) \in S /\ \A y \in S : y <= Largest(S)
<1>1. MaxId \in Nat /\ S \in SUBSET Nat /\ S \in SUBSET (0 .. MaxId)
  BY SizesAssumption DEF Ids
<1>2. \E x \in S : \A y \in S : x <= y
  BY <1>1, LeastNumber
<1>3. \E x \in S : \A y \in S : x >= y
  BY <1>1, GreatestNumber
<1>4. Smallest(S) \in S /\ \A y \in S : Smallest(S) <= y
  BY <1>2 DEF Smallest
<1>5. Largest(S) \in S /\ \A y \in S : Largest(S) >= y
  BY <1>3 DEF Largest
<1> QED
  BY <1>1, <1>4, <1>5

LEMMA RowsAreIds ==
    /\ Rows \subseteq Ids /\ IsFiniteSet(Rows)
    /\ Cardinality(Rows) \in 0 .. MaxId
<1>1. MaxId \in Nat /\ IsFiniteSet(Ids) /\ Cardinality(Ids) = MaxId
  BY SizesAssumption, FS_Interval DEF Ids
<1>2. Rows \subseteq Ids
  BY DEF Rows
<1>3. IsFiniteSet(Rows) /\ Cardinality(Rows) <= MaxId /\ Cardinality(Rows) \in Nat
  BY <1>1, <1>2, FS_Subset, FS_CardinalityType
<1> QED
  BY <1>1, <1>2, <1>3

LEMMA TotalPageHolds ==
    /\ TotalPage \in 0 .. MaxId
    /\ Cardinality(Rows) <= TotalPage * Size
<1>1. Cardinality(Rows) \in 0 .. MaxId /\ MaxId \in Nat /\ Size \in Nat \ {0}
  BY RowsAreIds, SizesAssumption
<1>2. /\ (Cardinality(Rows) + Size - 1) \div Size \in 0 .. Cardinality(Rows)
      /\ Cardinality(Rows) <= ((Cardinality(Rows) + Size - 1) \div Size) * Size
  BY <1>1, PagesHold
<1> QED
  BY <1>1, <1>2 DEF TotalPage
-----------------------------------------------------------------------------
(* The types of the data.  A limit is an id or 0, so that the page after    *)
(* the last one has an int for a number.                                    *)
DataTypes ==
    /\ strategy \in Strategies
    /\ db \in [Ids -> Versions]
    /\ writes \in 0 .. MaxWrites
    /\ doc \in [Names -> [Ids -> Versions]]
    /\ pushed \subseteq Ids \X Versions
    /\ faults \in 0 .. MaxFaults
    /\ settled \subseteq Ids

LocalTypes ==
    /\ cursor \in [Rebuilds -> Ints]
    /\ limit \in [Rebuilds -> 0 .. MaxId]
    /\ batch \in [Rebuilds -> Batches]

FlagTypes == together \in BOOLEAN /\ lostDrop \in BOOLEAN

TypeInv == AliasInv /\ DataTypes /\ LocalTypes /\ FlagTypes

LEMMA TypeInvTypes == TypeInv => TypeOK
<1> SUFFICES ASSUME TypeInv PROVE TypeOK
  OBVIOUS
<1>1. 0 .. MaxId \subseteq Ints
  BY SizesAssumption DEF Ints
<1>2. limit \in [Rebuilds -> Ints]
  BY <1>1 DEF TypeInv, LocalTypes
<1> QED
  BY <1>2 DEF TypeInv, AliasInv, Shape, DataTypes, LocalTypes, FlagTypes, TypeOK

LEMMA BatchTypes ==
    /\ NoRows \in Batches
    /\ \A rows \in Batches : DOMAIN rows \subseteq Ids /\ \A id \in DOMAIN rows : rows[id] \in Versions
    /\ \A S \in SUBSET Ids : db \in [Ids -> Versions] => [id \in S |-> db[id]] \in Batches
    /\ \A id \in Ids : [i \in {id} |-> 0] \in Batches
<1>1. 0 \in Versions
  BY SizesAssumption DEF Versions
<1>2. \A S \in SUBSET Ids : [S -> Versions] \subseteq Batches
  BY DEF Batches
<1>3. NoRows \in Batches
  <2>1. NoRows \in [{} -> Versions]
    BY DEF NoRows
  <2> QED
    BY <1>2, <2>1
<1>4. ASSUME NEW rows \in Batches
      PROVE  DOMAIN rows \subseteq Ids /\ \A id \in DOMAIN rows : rows[id] \in Versions
  <2>1. PICK S \in SUBSET Ids : rows \in [S -> Versions]
    BY DEF Batches
  <2> QED
    BY <2>1
<1>5. ASSUME NEW S \in SUBSET Ids, db \in [Ids -> Versions] PROVE [id \in S |-> db[id]] \in Batches
  <2>1. [id \in S |-> db[id]] \in [S -> Versions]
    BY <1>5
  <2> QED
    BY <1>2, <2>1
<1>6. ASSUME NEW id \in Ids PROVE [i \in {id} |-> 0] \in Batches
  <2>1. [i \in {id} |-> 0] \in [{id} -> Versions]
    BY <1>1
  <2> QED
    BY <1>2, <2>1
<1> QED
  BY <1>3, <1>4, <1>5, <1>6

(* Whatever a call does to an index leaves versions in it.                  *)
LEMMA ElasticTypes ==
    ASSUME doc \in [Names -> [Ids -> Versions]], NEW n \in Names, NEW rows \in Batches,
           UNCHANGED elastic \/ RunCreate(n) \/ RunBulk(n, rows) \/ RunAddAlias(n) \/ RunDelete(n)
    PROVE  doc' \in [Names -> [Ids -> Versions]]
<1>1. Nothing \in [Ids -> Versions]
  BY SizesAssumption DEF Nothing, Versions
<1>2. Overlay(doc[n], rows) \in [Ids -> Versions]
  BY BatchTypes DEF Overlay
<1>3. CASE UNCHANGED elastic \/ RunAddAlias(n)
  BY <1>3 DEF elastic, RunAddAlias
<1>4. CASE RunCreate(n) \/ RunDelete(n)
  BY <1>1, <1>4 DEF RunCreate, RunDelete
<1>5. CASE RunBulk(n, rows)
  BY <1>2, <1>5 DEF RunBulk
<1> QED
  BY <1>3, <1>4, <1>5

(* The parts of the types that a step of r reads.                           *)
LEMMA CallTypes ==
    ASSUME TypeInv, NEW r \in Rebuilds
    PROVE  /\ name[r] \in Names /\ victim[r] \in Names /\ batch[r] \in Batches
           /\ cursor[r] \in Ints /\ cursor[r] \in Int /\ limit[r] \in 0 .. MaxId
           /\ db \in [Ids -> Versions] /\ doc \in [Names -> [Ids -> Versions]]
BY SizesAssumption DEF TypeInv, AliasInv, Shape, DataTypes, LocalTypes, Ints

LEMMA ElasticStepTypes ==
    ASSUME TypeInv, NEW r \in Rebuilds,
           \/ CreateIndex(r) \/ PutMapping(r) \/ BulkIndex(r) \/ GetIndexByAlias(r)
           \/ AddAlias(r) \/ OldIndexExists(r) \/ DeleteOldIndex(r) \/ DeleteNewIndex(r)
           \/ CallFails(r) \/ NotAcknowledged(r) \/ RebuildSucceeds(r) \/ NoMoreRows(r)
    PROVE  DataTypes' /\ LocalTypes'
<1> USE CallTypes
<1>1. doc' \in [Names -> [Ids -> Versions]]
  <2>1. UNCHANGED elastic \/ RunCreate(name[r]) \/ RunBulk(name[r], batch[r])
          \/ RunAddAlias(name[r]) \/ RunDelete(name[r]) \/ RunDelete(victim[r])
    BY DEF CreateIndex, PutMapping, BulkIndex, GetIndexByAlias, AddAlias, OldIndexExists,
           DeleteOldIndex, DeleteNewIndex, CallFails, NotAcknowledged, RebuildSucceeds, NoMoreRows
  <2> QED
    BY <2>1, ElasticTypes
<1>2. /\ UNCHANGED <<strategy, db, writes, pushed, settled>>
      /\ faults' = faults \/ (faults < MaxFaults /\ faults' = faults + 1)
  BY DEF CreateIndex, PutMapping, BulkIndex, GetIndexByAlias, AddAlias, OldIndexExists,
         DeleteOldIndex, DeleteNewIndex, CallFails, NotAcknowledged, RebuildSucceeds, NoMoreRows,
         table, history
<1>3. faults' \in 0 .. MaxFaults
  BY <1>2, SizesAssumption DEF TypeInv, DataTypes
<1>4. /\ \/ UNCHANGED <<cursor, limit, batch>>
         \/ Leave(r)
         \/ UNCHANGED <<cursor, limit>> /\ batch' = [batch EXCEPT ![r] = NoRows]
  BY DEF CreateIndex, PutMapping, BulkIndex, GetIndexByAlias, AddAlias, OldIndexExists,
         DeleteOldIndex, DeleteNewIndex, CallFails, NotAcknowledged, RebuildSucceeds, NoMoreRows
<1>5. LocalTypes'
  <2>1. 0 \in Ints /\ 0 \in 0 .. MaxId
    BY SizesAssumption DEF Ints
  <2> QED
    BY <1>4, <2>1, BatchTypes DEF TypeInv, LocalTypes, Leave
<1> QED
  BY <1>1, <1>2, <1>3, <1>5 DEF TypeInv, DataTypes

LEMMA QueryTypes ==
    ASSUME TypeInv, NEW r \in Rebuilds, CountRows(r) \/ GetMaxId(r) \/ ReadRows(r)
    PROVE  DataTypes' /\ LocalTypes'
<1> USE CallTypes
<1>1. DataTypes'
  BY DEF CountRows, GetMaxId, ReadRows, table, history, elastic, TypeInv, DataTypes
<1>2. /\ 0 \in Ints /\ 1 \in Ints /\ Ids \subseteq Ints /\ Ids \subseteq 0 .. MaxId
      /\ \A x \in 0 .. MaxId : \A y \in Ints : y <= x => y + 1 \in Ints
      /\ \A y \in Ints : Wrap(y + Size) \in Ints
  <2>1. MaxId \in Nat /\ MaxInt \in Nat /\ MaxId < MaxInt /\ Size \in Nat /\ MaxId # 0
    BY SizesAssumption
  <2>2. \A y \in Ints : Wrap(y + Size) \in Ints
    BY <2>1, WrapIsInt DEF Ints
  <2> QED
    BY <2>1, <2>2 DEF Ints, Ids
<1>3. CASE CountRows(r)
  <2>1. Rows # {} => Smallest(Rows) \in Ints
    BY <1>2, RowsAreIds, Extremes
  <2>2. TotalPage \in 0 .. MaxId
    BY TotalPageHolds
  <2>3. limit' \in [Rebuilds -> 0 .. MaxId] /\ UNCHANGED batch
    BY <1>3, <2>2 DEF CountRows, TypeInv, LocalTypes
  <2>4. cursor' \in [Rebuilds -> Ints]
    BY <1>2, <1>3, <2>1 DEF CountRows, TypeInv, LocalTypes
  <2> QED
    BY <1>1, <2>3, <2>4 DEF TypeInv, LocalTypes
<1>4. CASE GetMaxId(r)
  <2>1. Rows # {} => Largest(Rows) \in 0 .. MaxId
    BY <1>2, RowsAreIds, Extremes
  <2> QED
    BY <1>1, <1>4, <2>1 DEF GetMaxId, TypeInv, LocalTypes
<1>5. CASE ReadRows(r)
  <2>1. ASSUME NEW rows \in SUBSET Ids, NEW next \in Ints, NEW last, Fetch(r, rows, next, last)
        PROVE  cursor' \in [Rebuilds -> Ints] /\ batch' \in [Rebuilds -> Batches]
    BY <2>1, BatchTypes DEF Fetch, TypeInv, LocalTypes
  <2>2. /\ RowsOfPage(cursor[r]) \in SUBSET Ids /\ RowsLargerThan(cursor[r]) \in SUBSET Ids
        /\ RowsInRange(cursor[r], Wrap(cursor[r] + Size)) \in SUBSET Ids
    BY DEF RowsOfPage, RowsLargerThan, RowsInRange, Rows
  <2>3. (IF RowsLargerThan(cursor[r]) = {} THEN cursor[r] ELSE Largest(RowsLargerThan(cursor[r])))
           \in Ints
    BY <1>2, <2>2, Extremes
  <2>4. cursor' \in [Rebuilds -> Ints] /\ batch' \in [Rebuilds -> Batches]
    BY <1>2, <1>5, <2>1, <2>2, <2>3 DEF ReadRows
  <2> QED
    BY <1>1, <1>5, <2>4 DEF ReadRows, TypeInv, LocalTypes
<1> QED
  BY <1>1, <1>3, <1>4, <1>5

LEMMA OneRow ==
    ASSUME NEW id \in Ids, NEW v \in Versions
    PROVE  [i \in {id} |-> v] \in Batches
<1>1. {id} \in SUBSET Ids /\ [i \in {id} |-> v] \in [{id} -> Versions]
  OBVIOUS
<1> QED
  BY <1>1 DEF Batches

LEMMA WriteToAliasTypes ==
    ASSUME TypeInv, NEW id \in Ids, NEW v \in Versions, WriteToAlias(id, v)
    PROVE  doc' \in [Names -> [Ids -> Versions]] /\ settled' \subseteq Ids
<1>1. CASE Cardinality(alias) = 1
  <2>1. alias # {} /\ alias \subseteq Names
    BY <1>1, FS_EmptySet DEF TypeInv, AliasInv, Shape
  <2>2. (CHOOSE n \in alias : TRUE) \in Names
    BY <2>1
  <2>3. RunBulk(CHOOSE n \in alias : TRUE, [i \in {id} |-> v])
    BY <1>1 DEF WriteToAlias
  <2>4. doc' \in [Names -> [Ids -> Versions]]
    BY <2>2, <2>3, OneRow, ElasticTypes DEF TypeInv, DataTypes
  <2> QED
    BY <1>1, <2>4 DEF WriteToAlias, TypeInv, DataTypes
<1>2. CASE Cardinality(alias) # 1
  BY <1>2 DEF WriteToAlias, elastic, TypeInv, DataTypes
<1> QED
  BY <1>1, <1>2

LEMMA RowStepTypes ==
    ASSUME TypeInv,
           \/ \E id \in Ids : SaveRow(id) \/ DeleteRow(id) \/ ReadForPush(id) \/ DeleteById(id)
           \/ \E push \in pushed : PushRow(push) \/ PushFails(push)
    PROVE  DataTypes' /\ LocalTypes'
<1>1. LocalTypes'
  BY DEF SaveRow, DeleteRow, ChangeRow, ReadForPush, DeleteById, PushRow, PushFails, locals,
         TypeInv, LocalTypes
<1> USE DEF TypeInv, DataTypes
<1>2. ASSUME NEW id \in Ids, SaveRow(id) \/ DeleteRow(id) PROVE DataTypes'
  <2>1. /\ writes < MaxWrites /\ writes' = writes + 1
        /\ db' = [db EXCEPT ![id] = writes + 2] \/ db' = [db EXCEPT ![id] = 0]
        /\ UNCHANGED <<strategy, doc, pushed, faults>>
        /\ settled' \subseteq settled
    BY <1>2 DEF SaveRow, DeleteRow, ChangeRow, Unsettle, elastic
  <2>2. writes + 2 \in Versions /\ 0 \in Versions /\ writes' \in 0 .. MaxWrites
    BY <2>1, SizesAssumption DEF Versions
  <2> QED
    BY <2>1, <2>2
<1>3. ASSUME NEW id \in Ids, ReadForPush(id) PROVE DataTypes'
  BY <1>3 DEF ReadForPush, table, elastic, history
<1>4. ASSUME NEW id \in Ids, DeleteById(id) PROVE DataTypes'
  <2>1. 0 \in Versions
    BY SizesAssumption DEF Versions
  <2>2. doc' \in [Names -> [Ids -> Versions]] /\ settled' \subseteq Ids
    BY <1>4, <2>1, WriteToAliasTypes DEF DeleteById
  <2> QED
    BY <1>4, <2>2 DEF DeleteById, table
<1>5. ASSUME NEW push \in pushed, PushRow(push) PROVE DataTypes'
  <2>1. push[1] \in Ids /\ push[2] \in Versions
    OBVIOUS
  <2>2. doc' \in [Names -> [Ids -> Versions]] /\ settled' \subseteq Ids
    BY <1>5, <2>1, WriteToAliasTypes DEF PushRow
  <2> QED
    BY <1>5, <2>2 DEF PushRow, PushDone, table
<1>6. ASSUME NEW push \in pushed, PushFails(push) PROVE DataTypes'
  <2>1. [i \in {push[1]} |-> push[2]] \in Batches
    BY OneRow
  <2>2. doc' \in [Names -> [Ids -> Versions]]
    <3>1. CASE UNCHANGED elastic
      BY <3>1 DEF elastic
    <3>2. ASSUME NEW n \in alias, RunBulk(n, [i \in {push[1]} |-> push[2]])
          PROVE  doc' \in [Names -> [Ids -> Versions]]
      BY <2>1, <3>2, ElasticTypes DEF AliasInv, Shape
    <3> QED
      BY <1>6, <3>1, <3>2 DEF PushFails
  <2>3. faults' \in 0 .. MaxFaults
    BY <1>6, SizesAssumption DEF PushFails
  <2> QED
    BY <1>6, <2>2, <2>3 DEF PushFails, PushDone, table, history
<1> QED
  BY <1>1, <1>2, <1>3, <1>4, <1>5, <1>6

(* The two flags are made of conditions.                                    *)
LEMMA FlagStep == FlagTypes /\ [Next]_vars => FlagTypes'
<1> SUFFICES ASSUME FlagTypes, [Next]_vars PROVE FlagTypes'
  OBVIOUS
<1>1. \/ UNCHANGED together
      \/ \E r \in Rebuilds : together' = (together \/ Active # {})
  BY DEF Next, Step, ReBuildIndex, CreateIndex, PutMapping, CountRows, GetMaxId, ReadRows,
         NoMoreRows, BulkIndex, GetIndexByAlias, AddAlias, OldIndexExists, DeleteOldIndex,
         RebuildSucceeds, DeleteNewIndex, NotAcknowledged, CallFails, SaveRow, DeleteRow,
         ChangeRow, ReadForPush, DeleteById, PushRow, PushFails, history, vars
<1>2. \/ UNCHANGED lostDrop
      \/ \E r \in Rebuilds :
            lostDrop' = (lostDrop \/ (pc[r] = "delete" /\ victim[r] \in exists \ exists'))
  BY DEF Next, Step, ReBuildIndex, CreateIndex, PutMapping, CountRows, GetMaxId, ReadRows,
         NoMoreRows, BulkIndex, GetIndexByAlias, AddAlias, OldIndexExists, DeleteOldIndex,
         RebuildSucceeds, DeleteNewIndex, NotAcknowledged, CallFails, SaveRow, DeleteRow,
         ChangeRow, ReadForPush, DeleteById, PushRow, PushFails, history, vars
<1>3. together' \in BOOLEAN
  BY <1>1, Zenon DEF FlagTypes
<1>4. lostDrop' \in BOOLEAN
  BY <1>2, Zenon DEF FlagTypes
<1> QED
  BY <1>3, <1>4 DEF FlagTypes

LEMMA TypeStep == TypeInv /\ [Next]_vars => TypeInv'
<1> SUFFICES ASSUME TypeInv, [Next]_vars PROVE TypeInv'
  OBVIOUS
<1>1. AliasInv' /\ FlagTypes'
  BY AliasStep, FlagStep DEF TypeInv
<1>2. ASSUME NEW r \in Rebuilds, ReBuildIndex(r) PROVE DataTypes' /\ LocalTypes'
  BY <1>2 DEF ReBuildIndex, elastic, table, TypeInv, DataTypes, LocalTypes
<1>3. ASSUME UNCHANGED vars PROVE DataTypes' /\ LocalTypes'
  BY <1>3 DEF vars, elastic, table, locals, history, TypeInv, DataTypes, LocalTypes
<1>4. DataTypes' /\ LocalTypes'
  BY <1>2, <1>3, ElasticStepTypes, QueryTypes, RowStepTypes, SizesAssumption DEF Next, Step
<1> QED
  BY <1>1, <1>4 DEF TypeInv

LEMMA TypeInit == Init => TypeInv
<1> SUFFICES ASSUME Init PROVE TypeInv
  OBVIOUS
<1> USE DEF Init
<1>1. AliasInv
  BY AliasInit
<1>2. 0 \in Versions /\ 1 \in Versions /\ 0 \in Ints /\ 0 \in 0 .. MaxId
  BY SizesAssumption DEF Versions, Ints
<1>3. db \in [Ids -> Versions]
  BY <1>2
<1>4. doc \in [Names -> [Ids -> Versions]]
  <2>1. Nothing \in [Ids -> Versions]
    BY <1>2 DEF Nothing
  <2> QED
    BY <1>3, <2>1
<1>5. DataTypes
  BY <1>3, <1>4, BatchTypes, SizesAssumption DEF DataTypes
<1>6. LocalTypes /\ FlagTypes
  BY <1>2, BatchTypes DEF LocalTypes, FlagTypes
<1> QED
  BY <1>1, <1>5, <1>6 DEF TypeInv

(* Every value of a rebuild has its type, whatever the strategy: the loops  *)
(* read batches of rows that were in the table, pages and limits stay in    *)
(* the range of an int although start wraps, and the alias stands only for  *)
(* indexes that exist (insertIntoES of the three implementations).         *)
THEOREM RebuildTypes == Spec => []TypeOK
BY TypeInit, TypeStep, TypeInvTypes, PTL DEF Spec

-----------------------------------------------------------------------------
(* When calls neither fail nor overlap, a rebuild leaves one index.         *)

Filling == {"mapping", "count", "max", "read", "write", "old", "alias"}

One(S) == \E n \in Names : S = {n}

(* What is there while r runs, and what it has still to delete.             *)
Leaves(r) ==
    /\ pc[r] = "create" => alias = exists /\ One(exists)
    /\ pc[r] \in Filling => exists = alias \cup {name[r]}
    /\ pc[r] \in Filling \cup {"cleanup"} =>
          One(alias) /\ name[r] \notin alias /\ exists \subseteq alias \cup {name[r]}
    /\ pc[r] = "alias" => old[r] = alias
    /\ pc[r] \in {"drop", "delete"} =>
          /\ exists = alias /\ alias = old[r] \cup {name[r]} /\ name[r] \notin old[r]
          /\ old[r] = {} \/ One(old[r])
    /\ pc[r] = "delete" => victim[r] \in old[r]

Calm == ~together /\ ~Collision /\ faults = 0

CalmInv ==
    Calm => /\ Active = {} => alias = exists /\ One(exists)
            /\ \A r \in Rebuilds : Leaves(r)

(* Only the rebuild that takes the step runs.                               *)
LEMMA CalmTransition ==
    ASSUME TypeInv, CalmInv, NEW r \in Rebuilds, pc[r] \in Calls,
           pc' = [pc EXCEPT ![r] = pc'[r]],
           UNCHANGED <<name, together, faults>>,
           Calm => Leaves(r)' /\ (pc'[r] \notin Calls => alias' = exists' /\ One(exists'))
    PROVE  CalmInv'
<1> SUFFICES ASSUME Calm'
             PROVE  /\ Active' = {} => alias' = exists' /\ One(exists')
                    /\ \A q \in Rebuilds : Leaves(q)'
  BY DEF CalmInv, One
<1>1. Calm
  BY DEF Calm, Collision
<1>2. pc \in [Rebuilds -> {"idle"} \cup Calls \cup Ended]
  BY DEF TypeInv, AliasInv, Shape
<1>3. ASSUME NEW q \in Rebuilds, q # r PROVE Leaves(q)'
  <2>1. pc'[q] = pc[q] /\ pc[q] \notin Calls
    BY <1>1, <1>2, <1>3 DEF TypeInv, AliasInv, OneAtATime, Calm
  <2> QED
    BY <2>1 DEF Leaves, Calls, Filling
<1>4. Active' = {} => pc'[r] \notin Calls
  BY DEF Active
<1> QED
  BY <1>1, <1>3, <1>4

(* Nothing else creates an index under the name of r.                       *)
LEMMA NameIsNew ==
    ASSUME TypeInv, ~Collision, NEW r \in Rebuilds, pc[r] = "create"
    PROVE  name[r] \notin exists
<1>1. name[r] # 0
  BY DEF TypeInv, AliasInv, NamesTaken
<1> QED
  BY <1>1 DEF TypeInv, AliasInv, NamesTaken, Collision

LEMMA CalmCall ==
    ASSUME TypeInv, CalmInv, NEW r \in Rebuilds, Step(r), ~ReBuildIndex(r)
    PROVE  CalmInv'
<1>0. /\ pc \in [Rebuilds -> {"idle"} \cup Calls \cup Ended]
      /\ name \in [Rebuilds -> Names] /\ old \in [Rebuilds -> SUBSET Names]
      /\ victim \in [Rebuilds -> Names] /\ alias \subseteq exists
      /\ Calm => Leaves(r)
      /\ name[r] \in Names
  BY DEF TypeInv, AliasInv, Shape, CalmInv
<1> DEFINE Goal == Leaves(r)' /\ (pc'[r] \notin Calls => alias' = exists' /\ One(exists'))
<1>1. /\ pc[r] \in Calls /\ pc' = [pc EXCEPT ![r] = pc'[r]]
      /\ UNCHANGED <<name, together, faults>>
  BY <1>0 DEF Step, CreateIndex, PutMapping, CountRows, GetMaxId, ReadRows, Fetch, NoMoreRows,
              BulkIndex, GetIndexByAlias, AddAlias, OldIndexExists, DeleteOldIndex,
              RebuildSucceeds, DeleteNewIndex, Goto, Calls, locals, history
<1> USE DEF Leaves, Calls, Filling, Ended, Goto
<1>2. ASSUME Calm, CreateIndex(r) PROVE Goal
  <2>1. name[r] \notin exists
    BY <1>2, NameIsNew DEF CreateIndex, Calm
  <2> QED
    BY <1>0, <1>2, <2>1 DEF CreateIndex, RunCreate, One
<1>3. ASSUME Calm, PutMapping(r) \/ NoMoreRows(r) PROVE Goal
  BY <1>0, <1>3 DEF PutMapping, NoMoreRows, elastic, One
<1>4. ASSUME Calm, CountRows(r) \/ GetMaxId(r) PROVE Goal
  BY <1>0, <1>4 DEF CountRows, GetMaxId, elastic, One
<1>5. ASSUME Calm, ReadRows(r) PROVE Goal
  <2>1. pc[r] = "read" /\ pc'[r] \in {"read", "write", "old"} /\ UNCHANGED <<elastic, name>>
    BY <1>0, <1>5 DEF ReadRows, Fetch
  <2> QED
    BY <1>0, <1>5, <2>1 DEF elastic, One
<1>6. ASSUME Calm, BulkIndex(r) PROVE Goal
  BY <1>0, <1>6 DEF BulkIndex, RunBulk, One
<1>7. ASSUME Calm, GetIndexByAlias(r) PROVE Goal
  BY <1>0, <1>7 DEF GetIndexByAlias, elastic, One
<1>8. ASSUME Calm, AddAlias(r) PROVE Goal
  <2>1. name[r] \in exists /\ exists = alias \cup {name[r]} /\ old[r] = alias
        /\ One(old[r]) /\ name[r] \notin old[r]
    BY <1>0, <1>8 DEF AddAlias
  <2>2. pc'[r] = "drop" /\ exists' = exists /\ alias' = alias \cup {name[r]} /\ old' = old
        /\ name' = name
    BY <1>0, <1>8, <2>1 DEF AddAlias, RunAddAlias
  <2> QED
    BY <2>1, <2>2 DEF One
<1>9. ASSUME Calm, OldIndexExists(r) PROVE Goal
  BY <1>0, <1>9 DEF OldIndexExists, elastic, One
<1>10. ASSUME Calm, DeleteOldIndex(r) PROVE Goal
  <2>1. /\ exists = alias /\ alias = old[r] \cup {name[r]} /\ name[r] \notin old[r]
        /\ One(old[r]) /\ victim[r] \in old[r]
    BY <1>0, <1>10 DEF DeleteOldIndex, One
  <2>2. /\ exists' = exists \ {victim[r]} /\ alias' = alias \ {victim[r]} /\ name' = name
        /\ old'[r] = old[r] \ {victim[r]} /\ pc'[r] = "drop"
    BY <1>0, <1>10, <2>1 DEF DeleteOldIndex, RunDelete
  <2>3. old'[r] = {}
    BY <2>1, <2>2 DEF One
  <2>4. exists' = alias' /\ alias' = old'[r] \cup {name[r]} /\ name[r] \notin old'[r]
    BY <2>1, <2>2, <2>3
  <2> QED
    BY <2>2, <2>3, <2>4
<1>11. ASSUME Calm, RebuildSucceeds(r) PROVE Goal
  BY <1>0, <1>11 DEF RebuildSucceeds, elastic, One
<1>12. ASSUME Calm, DeleteNewIndex(r) PROVE Goal
  <2>1. One(alias) /\ name[r] \notin alias /\ exists \subseteq alias \cup {name[r]}
    BY <1>0, <1>12 DEF DeleteNewIndex
  <2>2. exists' = exists \ {name[r]} /\ alias' = alias \ {name[r]} /\ pc'[r] = "failed"
    BY <1>0, <1>12 DEF DeleteNewIndex, RunDelete
  <2>3. exists' = alias /\ alias' = alias
    BY <1>0, <2>1, <2>2
  <2>4. One(exists')
    BY <2>1, <2>3 DEF One
  <2> QED
    BY <2>2, <2>3, <2>4
<1>13. Calm => Goal
  <2> HIDE DEF Goal
  <2> QED
    BY <1>2, <1>3, <1>4, <1>5, <1>6, <1>7, <1>8, <1>9, <1>10, <1>11, <1>12 DEF Step
<1> QED
  BY <1>1, <1>13, CalmTransition

(* What rows and pushes do, when no call fails.                             *)
LEMMA CalmOthers ==
    ASSUME CalmInv, UNCHANGED <<exists, alias, pc, name, old, victim, together, faults>>
    PROVE  CalmInv'
BY DEF CalmInv, Calm, Collision, Active, Leaves, One

LEMMA CalmStep == TypeInv /\ CalmInv /\ [Next]_vars => CalmInv'
<1> SUFFICES ASSUME TypeInv, CalmInv, [Next]_vars PROVE CalmInv'
  OBVIOUS
<1>0. Shape /\ faults \in 0 .. MaxFaults
  BY DEF TypeInv, AliasInv, DataTypes
<1>1. ASSUME NEW r \in Rebuilds, ReBuildIndex(r) PROVE CalmInv'
  <2> SUFFICES ASSUME Calm'
               PROVE  /\ Active' = {} => alias' = exists' /\ One(exists')
                      /\ \A q \in Rebuilds : Leaves(q)'
    BY DEF CalmInv, One
  <2>1. ~together /\ faults = 0 /\ Active = {} /\ UNCHANGED elastic
    BY <1>1 DEF ReBuildIndex, Calm
  <2>2. /\ pc[r] = "idle" /\ pc' = [pc EXCEPT ![r] = "create"]
        /\ name' = [name EXCEPT ![r] = second'] /\ second' # 0
    BY <1>0, <1>1, SizesAssumption DEF ReBuildIndex, Goto, Shape
  <2>3. ~Collision
    <3> SUFFICES ASSUME NEW p \in Rebuilds, NEW q \in Rebuilds, p # q,
                        name[p] = name[q], name[p] # 0
                 PROVE  FALSE
      BY DEF Collision
    <3>1. p # r /\ q # r
      BY <2>2 DEF TypeInv, AliasInv, NamesTaken
    <3> QED
      BY <1>0, <2>2, <3>1 DEF Calm, Collision, Shape
  <2>4. alias = exists /\ One(exists)
    BY <2>1, <2>3 DEF CalmInv, Calm
  <2>5. alias' = exists' /\ One(exists')
    BY <2>1, <2>4 DEF elastic, One
  <2>6. ASSUME NEW q \in Rebuilds PROVE pc'[q] = "create" \/ pc'[q] \notin Calls
    BY <1>0, <2>1, <2>2 DEF Active, Shape
  <2>7. ASSUME NEW q \in Rebuilds PROVE Leaves(q)'
    BY <2>5, <2>6, <2>7 DEF Leaves, Filling, Calls
  <2> QED
    BY <2>5, <2>7
<1>2. ASSUME NEW r \in Rebuilds, Step(r) PROVE CalmInv'
  BY <1>1, <1>2, CalmCall
<1>3. ASSUME faults' = faults + 1 PROVE CalmInv'
  BY <1>0, <1>3, SizesAssumption DEF CalmInv, Calm
<1>4. ASSUME NEW r \in Rebuilds, NotAcknowledged(r) \/ CallFails(r) PROVE CalmInv'
  BY <1>3, <1>4 DEF NotAcknowledged, CallFails
<1>5. ASSUME NEW id \in Ids, SaveRow(id) \/ DeleteRow(id) \/ ReadForPush(id) PROVE CalmInv'
  BY <1>5, CalmOthers DEF SaveRow, DeleteRow, ChangeRow, ReadForPush, elastic, locals, history
<1>6. ASSUME NEW id \in Ids, DeleteById(id) PROVE CalmInv'
  BY <1>0, <1>6, CalmOthers, WriteToAliasKeepsIndexes DEF DeleteById, locals
<1>7. ASSUME NEW push \in pushed, PushRow(push) PROVE CalmInv'
  BY <1>0, <1>7, CalmOthers, WriteToAliasKeepsIndexes DEF PushRow, locals
<1>8. ASSUME NEW push \in pushed, PushFails(push) PROVE CalmInv'
  BY <1>3, <1>8 DEF PushFails
<1>9. CASE UNCHANGED vars
  BY <1>9, CalmOthers DEF vars, elastic, locals, history
<1> QED
  BY <1>2, <1>4, <1>5, <1>6, <1>7, <1>8, <1>9, SizesAssumption DEF Next

LEMMA CalmInit == Init => CalmInv
<1> SUFFICES ASSUME Init PROVE CalmInv
  OBVIOUS
<1>1. 0 \in Names
  BY SizesAssumption DEF Names
<1>2. One(exists)
  BY <1>1 DEF Init, One
<1> QED
  BY <1>2 DEF Init, CalmInv, Leaves, Filling

(* When no call has failed, no rebuilds overlapped and none runs, there is  *)
(* one index, and it has the alias (reBuildIndex and deleteIndex).         *)
THEOREM RebuildsLeaveOneIndex == Spec => []SettlesOnOneIndex
<1>1. CalmInv => SettlesOnOneIndex
  <2> SUFFICES ASSUME CalmInv, Calm, Active = {}
               PROVE  alias = exists /\ Cardinality(exists) = 1
    BY DEF SettlesOnOneIndex, Calm
  <2>1. alias = exists /\ One(exists)
    BY DEF CalmInv
  <2> QED
    BY <2>1, FS_Singleton DEF One
<1> QED
  BY <1>1, TypeInit, TypeStep, CalmInit, CalmStep, PTL DEF Spec

-----------------------------------------------------------------------------
(* A search finds every settled document as its row is.                     *)

(* The old indexes of a rebuild have been given the alias by another one.   *)
OldInv ==
    \A q \in Rebuilds : \A n \in old[q] \cup {victim[q]} :
        n = 0 \/ \E p \in Rebuilds : name[p] = n /\ pc[p] \in Switched

(* The rows that r has read, or reads with the batch it is about to write.  *)
Behind(r, id) ==
    \/ strategy = "page" /\ Before(id) < (cursor[r] - 1) * Size
    \/ strategy = "minmax" /\ id < cursor[r]
    \/ strategy = "larger" /\ id <= cursor[r]

(* A settled document in the index that r fills.                            *)
Filled(r, id) ==
    /\ pc[r] \in {"mapping", "count", "max"} => doc[name[r]][id] = 0
    /\ pc[r] = "max" => strategy = "minmax" /\ (db[id] # 0 => cursor[r] <= id)
    /\ pc[r] \in {"read", "write"} =>
          /\ db[id] = 0 => doc[name[r]][id] = 0
          /\ db[id] # 0 /\ Behind(r, id) =>
                doc[name[r]][id] = db[id] \/ (pc[r] = "write" /\ id \in DOMAIN batch[r])
          /\ strategy = "minmax" /\ db[id] # 0 => id <= limit[r]
          /\ strategy = "page" => limit[r] = TotalPage
    /\ pc[r] = "write" /\ id \in DOMAIN batch[r] => batch[r][id] = db[id]
    /\ pc[r] \in {"old", "alias"} => doc[name[r]][id] = db[id]

Served(n, id) == n \in alias => doc[n][id] = db[id]

ServeInv ==
    ~Collision => \A id \in settled :
        /\ \A n \in Names : Served(n, id)
        /\ \A r \in Rebuilds : Filled(r, id)
        /\ ~Outdated(id)

SettledInv == TypeInv /\ OldInv /\ ServeInv

(* What all calls of a rebuild leave alone.                                 *)
Alone(r) ==
    /\ pc[r] \in Calls
    /\ pc[r] \in Switched => pc'[r] \in Switched
    /\ \A q \in Rebuilds \ {r} :
          /\ pc'[q] = pc[q] /\ cursor'[q] = cursor[q] /\ limit'[q] = limit[q]
          /\ batch'[q] = batch[q] /\ old'[q] = old[q] /\ victim'[q] = victim[q]
    /\ old'[r] \subseteq old[r] \cup alias
    /\ victim'[r] \in old[r] \cup {0, victim[r]}
    /\ UNCHANGED <<strategy, name, db, settled, pushed>>
    /\ \A m \in Names \ {name[r], victim[r]} : doc'[m] = doc[m]
    /\ \A n \in alias' : n = name[r] \/ (n \in alias /\ doc'[n] = doc[n])

LEMMA CallsAreAlone ==
    ASSUME TypeInv, NEW r \in Rebuilds,
           (Step(r) /\ ~ReBuildIndex(r)) \/ NotAcknowledged(r) \/ CallFails(r)
    PROVE  Alone(r)
<1>0. /\ pc \in [Rebuilds -> {"idle"} \cup Calls \cup Ended]
      /\ name \in [Rebuilds -> Names] /\ old \in [Rebuilds -> SUBSET Names]
      /\ victim \in [Rebuilds -> Names] /\ alias \subseteq exists
      /\ cursor \in [Rebuilds -> Ints] /\ limit \in [Rebuilds -> 0 .. MaxId]
      /\ batch \in [Rebuilds -> Batches] /\ doc \in [Names -> [Ids -> Versions]]
  BY DEF TypeInv, AliasInv, Shape, DataTypes, LocalTypes
<1>1. /\ pc[r] \in Calls
      /\ \A q \in Rebuilds \ {r} : pc'[q] = pc[q]
      /\ UNCHANGED <<strategy, name, db, settled, pushed>>
  BY <1>0 DEF Step, CreateIndex, PutMapping, CountRows, GetMaxId, ReadRows, Fetch, NoMoreRows,
              BulkIndex, GetIndexByAlias, AddAlias, OldIndexExists, DeleteOldIndex,
              RebuildSucceeds, DeleteNewIndex, NotAcknowledged, CallFails, Goto, Calls, locals,
              table, history
<1>2. pc[r] \in Switched => pc'[r] \in Switched
  BY <1>0 DEF Step, CreateIndex, PutMapping, CountRows, GetMaxId, ReadRows, NoMoreRows,
              BulkIndex, GetIndexByAlias, AddAlias, OldIndexExists, DeleteOldIndex,
              RebuildSucceeds, DeleteNewIndex, NotAcknowledged, CallFails, Goto, Switched, Ended
<1>3. \A q \in Rebuilds \ {r} :
          /\ cursor'[q] = cursor[q] /\ limit'[q] = limit[q]
          /\ batch'[q] = batch[q] /\ old'[q] = old[q] /\ victim'[q] = victim[q]
  BY <1>0 DEF Step, CreateIndex, PutMapping, CountRows, GetMaxId, ReadRows, Fetch, NoMoreRows,
              BulkIndex, GetIndexByAlias, AddAlias, OldIndexExists, DeleteOldIndex,
              RebuildSucceeds, DeleteNewIndex, NotAcknowledged, CallFails, Leave
<1>4. old'[r] \subseteq old[r] \cup alias /\ victim'[r] \in old[r] \cup {0, victim[r]}
  BY <1>0 DEF Step, CreateIndex, PutMapping, CountRows, GetMaxId, ReadRows, Fetch, NoMoreRows,
              BulkIndex, GetIndexByAlias, AddAlias, OldIndexExists, DeleteOldIndex,
              RebuildSucceeds, DeleteNewIndex, NotAcknowledged, CallFails, Leave
<1>5. /\ \A m \in Names \ {name[r], victim[r]} : doc'[m] = doc[m]
      /\ \A n \in alias' : n = name[r] \/ (n \in alias /\ doc'[n] = doc[n])
  <2>1. \/ UNCHANGED elastic \/ RunCreate(name[r]) \/ RunBulk(name[r], batch[r])
        \/ RunAddAlias(name[r]) \/ RunDelete(name[r]) \/ RunDelete(victim[r])
    BY DEF Step, CreateIndex, PutMapping, CountRows, GetMaxId, ReadRows, NoMoreRows, BulkIndex,
           GetIndexByAlias, AddAlias, OldIndexExists, DeleteOldIndex, RebuildSucceeds,
           DeleteNewIndex, NotAcknowledged, CallFails
  <2>2. \A n \in alias : n \in Names
    BY DEF TypeInv, AliasInv, Shape
  <2> QED
    BY <1>0, <2>1, <2>2 DEF elastic, RunCreate, RunBulk, RunAddAlias, RunDelete
<1> QED
  BY <1>1, <1>2, <1>3, <1>4, <1>5 DEF Alone

(* An index that a rebuild fills does not have the alias, is no old index   *)
(* of another rebuild, and is filled by no other one.                       *)
LEMMA OwnIndex ==
    ASSUME TypeInv, OldInv, ~Collision, NEW r \in Rebuilds, pc[r] \in Calls \ Switched
    PROVE  /\ name[r] # 0 /\ name[r] \in Names /\ name[r] \notin alias
           /\ \A q \in Rebuilds : q # r => name[q] # name[r]
           /\ \A q \in Rebuilds : victim[q] # name[r]
<1>1. name[r] # 0 /\ name[r] \in Names
  BY DEF TypeInv, AliasInv, NamesTaken, Shape, Calls
<1>2. \A q \in Rebuilds : q # r => name[q] # name[r]
  BY <1>1 DEF Collision
<1>3. \A q \in Rebuilds : victim[q] # name[r]
  BY <1>1, <1>2 DEF OldInv
<1> QED
  BY <1>1, <1>2, <1>3 DEF TypeInv, AliasInv, NamesTaken

LEMMA OldStep ==
    ASSUME TypeInv, OldInv, NEW r \in Rebuilds, Alone(r)
    PROVE  OldInv'
<1>1. \A p \in Rebuilds : pc[p] \in Switched => pc'[p] \in Switched
  BY DEF Alone
<1>2. \A n \in alias : n = 0 \/ \E p \in Rebuilds : name[p] = n /\ pc[p] \in Switched
  BY DEF TypeInv, AliasInv, NamesTaken
<1>3. ASSUME NEW q \in Rebuilds, NEW n \in old'[q] \cup {victim'[q]}
      PROVE  n = 0 \/ \E p \in Rebuilds : name[p] = n /\ pc[p] \in Switched
  BY <1>2, <1>3 DEF OldInv, Alone
<1> QED
  BY <1>1, <1>3 DEF OldInv, Alone

(* The rows count for a rebuild as before as long as none comes or goes.    *)
LEMMA BehindStays ==
    ASSUME Rows' = Rows \/ strategy # "page", strategy' = strategy,
           NEW q \in Rebuilds, NEW id \in Ids, cursor'[q] = cursor[q]
    PROVE  /\ Behind(q, id)' <=> Behind(q, id)
           /\ strategy = "page" => TotalPage' = TotalPage
<1>1. strategy = "page" => Before(id)' = Before(id)
  BY DEF Before
<1>2. strategy = "page" => TotalPage' = TotalPage
  BY DEF TotalPage
<1>3. Behind(q, id)' <=> Behind(q, id)
  BY <1>1 DEF Behind
<1> QED
  BY <1>2, <1>3

(* A rebuild whose index and rows nobody touches.                           *)
LEMMA FilledStays ==
    ASSUME Rows' = Rows \/ strategy # "page", strategy' = strategy, NEW q \in Rebuilds,
           NEW id \in Ids, db'[id] = db[id], Filled(q, id),
           pc'[q] = pc[q] /\ name'[q] = name[q] /\ cursor'[q] = cursor[q],
           limit'[q] = limit[q] /\ batch'[q] = batch[q],
           pc[q] \in Calls \ Switched => doc'[name[q]][id] = doc[name[q]][id] \/ pc[q] = "create"
    PROVE  Filled(q, id)'
<1>1. /\ Behind(q, id)' <=> Behind(q, id)
      /\ strategy = "page" => TotalPage' = TotalPage
  BY BehindStays
<1>2. pc[q] \in Filling => doc'[name[q]][id] = doc[name[q]][id]
  BY DEF Filling, Calls, Switched, Ended
<1> QED
  BY <1>1, <1>2 DEF Filled, Filling

(* The step of r is right if it is right for the index of r.                *)
LEMMA ServeTransition ==
    ASSUME SettledInv, NEW r \in Rebuilds, Alone(r),
           ~Collision => \A id \in settled : Filled(r, id)' /\ Served(name[r], id)'
    PROVE  ServeInv'
<1> SUFFICES ASSUME ~Collision', NEW id \in settled
             PROVE  /\ \A n \in Names : Served(n, id)'
                    /\ \A q \in Rebuilds : Filled(q, id)'
                    /\ ~Outdated(id)
  BY DEF ServeInv, Alone, Served, Outdated
<1>0. ~Collision /\ id \in Ids /\ TypeInv /\ OldInv /\ ServeInv
  BY DEF Collision, Alone, SettledInv, TypeInv, DataTypes
<1>1. ASSUME NEW n \in Names PROVE Served(n, id)'
  <2>1. CASE n = name[r]
    BY <1>0, <2>1 DEF Served, Alone
  <2>2. CASE n # name[r]
    BY <1>0, <2>2 DEF Served, Alone, ServeInv
  <2> QED
    BY <2>1, <2>2
<1>2. ASSUME NEW q \in Rebuilds PROVE Filled(q, id)'
  <2>1. CASE q = r
    BY <1>0, <2>1
  <2>2. CASE q # r
    <3>1. Rows' = Rows
      BY DEF Rows, Alone
    <3>2. pc[q] \in Calls \ Switched => doc'[name[q]] = doc[name[q]]
      BY <1>0, <2>2, OwnIndex DEF Alone
    <3>3. Filled(q, id)
      BY <1>0 DEF ServeInv
    <3> QED
      BY <1>0, <2>2, <3>1, <3>2, <3>3, FilledStays DEF Alone
  <2> QED
    BY <2>1, <2>2
<1> QED
  BY <1>0, <1>1, <1>2 DEF ServeInv

LEMMA BeforeIsNat ==
    \A id \in Ids : /\ Before(id) \in Nat
                    /\ id \in Rows => Before(id) < Cardinality(Rows)
<1> SUFFICES ASSUME NEW id \in Ids
             PROVE  /\ Before(id) \in Nat
                    /\ id \in Rows => Before(id) < Cardinality(Rows)
  OBVIOUS
<1> DEFINE B == {j \in Rows : j < id}
<1>1. /\ IsFiniteSet(B) /\ Cardinality(B) <= Cardinality(Rows) /\ Cardinality(B) \in Nat
      /\ (Cardinality(Rows) = Cardinality(B) => Rows = B) /\ Cardinality(Rows) \in Nat
  <2>1. B \in SUBSET Rows
    OBVIOUS
  <2> HIDE DEF B
  <2> QED
    BY <2>1, RowsAreIds, FS_Subset, FS_CardinalityType
<1>2. id \notin B
  BY SizesAssumption DEF Ids
<1>3. Before(id) = Cardinality(B)
  BY DEF Before
<1> QED
  BY <1>1, <1>2, <1>3

(* What a step of r may use of a settled document.                          *)
LEMMA SettledFacts ==
    ASSUME SettledInv, ~Collision, NEW r \in Rebuilds, NEW id \in settled
    PROVE  /\ id \in Ids /\ id \in Int /\ db[id] \in Nat /\ (id \in Rows <=> db[id] # 0)
           /\ name[r] \in Names /\ cursor[r] \in Int /\ limit[r] \in Int
           /\ doc[name[r]] \in [Ids -> Versions] /\ Size \in Nat /\ Size # 0
           /\ pc[r] \in {"idle"} \cup Calls \cup Ended
           /\ Filled(r, id) /\ Served(name[r], id)
           /\ pc[r] \in Calls \ Switched => name[r] \notin alias
<1>1. TypeInv /\ OldInv /\ ServeInv
  BY DEF SettledInv
<1>2. id \in Ids /\ name[r] \in Names /\ cursor[r] \in Int /\ limit[r] \in Int
  BY <1>1, CallTypes DEF TypeInv, DataTypes
<1>3. id \in Int /\ db[id] \in Nat /\ Size \in Nat /\ Size # 0
  BY <1>1, <1>2, SizesAssumption DEF TypeInv, DataTypes, Ids, Versions
<1>4. /\ doc[name[r]] \in [Ids -> Versions] /\ pc[r] \in {"idle"} \cup Calls \cup Ended
  BY <1>1, <1>2 DEF TypeInv, DataTypes, AliasInv, Shape
<1>5. Filled(r, id) /\ Served(name[r], id)
  BY <1>1, <1>2 DEF ServeInv
<1> QED
  BY <1>1, <1>2, <1>3, <1>4, <1>5, OwnIndex DEF Rows

(* What step r has to show.                                                 *)
Right(r) ==
    ~Collision => \A id \in settled : Filled(r, id)' /\ Served(name[r], id)'

LEMMA CreateRight ==
    ASSUME SettledInv, NEW r \in Rebuilds, CreateIndex(r) \/ PutMapping(r) PROVE Right(r)
<1> SUFFICES ASSUME ~Collision, NEW id \in settled
             PROVE  Filled(r, id)' /\ Served(name[r], id)'
  BY DEF Right
<1>0. /\ pc \in [Rebuilds -> {"idle"} \cup Calls \cup Ended] /\ DOMAIN doc = Names
      /\ id \in Ids /\ name[r] \in Names /\ Filled(r, id)
  BY SettledFacts DEF SettledInv, TypeInv, AliasInv, Shape, DataTypes
<1>1. name[r] \notin alias /\ UNCHANGED <<name, alias>>
  BY SettledFacts DEF CreateIndex, PutMapping, Calls, Switched, Ended, elastic, RunCreate
<1>2. Served(name[r], id)'
  BY <1>1 DEF Served
<1>3. pc'[r] \in {"mapping", "count", "cleanup"}
  BY <1>0 DEF CreateIndex, PutMapping, Goto
<1>4. pc'[r] # "cleanup" => doc'[name[r]][id] = 0
  BY <1>0 DEF CreateIndex, PutMapping, Goto, elastic, RunCreate, Nothing, Filled
<1> QED
  BY <1>1, <1>2, <1>3, <1>4 DEF Filled

LEMMA CountRight ==
    ASSUME SettledInv, NEW r \in Rebuilds, CountRows(r) \/ GetMaxId(r) PROVE Right(r)
<1> SUFFICES ASSUME ~Collision, NEW id \in settled
             PROVE  Filled(r, id)' /\ Served(name[r], id)'
  BY DEF Right
<1>0. /\ pc \in [Rebuilds -> {"idle"} \cup Calls \cup Ended]
      /\ cursor \in [Rebuilds -> Ints] /\ limit \in [Rebuilds -> 0 .. MaxId]
  BY DEF SettledInv, TypeInv, AliasInv, Shape, LocalTypes
<1>1. /\ id \in Ids /\ id \in Int /\ (id \in Rows <=> db[id] # 0)
      /\ name[r] \notin alias /\ Filled(r, id) /\ cursor[r] \in Int
  BY SettledFacts DEF CountRows, GetMaxId, Calls, Switched, Ended
<1>2. UNCHANGED <<name, alias, doc, db, strategy>>
  BY DEF CountRows, GetMaxId, elastic, table
<1>3. Served(name[r], id)'
  BY <1>1, <1>2 DEF Served
<1>4. doc[name[r]][id] = 0
  BY <1>1 DEF CountRows, GetMaxId, Filled
<1>5. Rows' = Rows /\ TotalPage' = TotalPage /\ Before(id)' = Before(id)
  BY <1>2 DEF Rows, TotalPage, Before
<1>6. CASE CountRows(r)
  <2>1. CASE Rows = {}
    <3>1. db[id] = 0 /\ pc'[r] \in {"old", "cleanup", "read"}
      BY <1>0, <1>1, <1>6, <2>1 DEF CountRows, Goto
    <3>2. pc'[r] = "read" => strategy = "larger"
      BY <1>0, <1>6, <2>1 DEF CountRows, Goto
    <3> QED
      BY <1>2, <1>3, <1>4, <3>1, <3>2 DEF Filled
  <2>2. CASE Rows # {} /\ strategy = "page" /\ pc'[r] = "read" /\ limit'[r] = TotalPage
               /\ cursor'[r] = 1
    <3>1. ~Behind(r, id)'
      <4>1. (1 - 1) * Size = 0 /\ Before(id) \in Nat
        BY <1>1, BeforeIsNat, SizesAssumption
      <4>2. (cursor'[r] - 1) * Size = 0
        BY <2>2, <4>1
      <4>3. ~(Before(id)' < (cursor'[r] - 1) * Size)
        BY <1>5, <4>1, <4>2
      <4> QED
        BY <1>2, <2>2, <4>3 DEF Behind
    <3> QED
      BY <1>2, <1>3, <1>4, <1>5, <2>2, <3>1 DEF Filled
  <2>3. CASE Rows # {} /\ strategy = "minmax" /\ pc'[r] = "max" /\ cursor'[r] = Smallest(Rows)
    <3>1. db[id] # 0 => Smallest(Rows) <= id
      BY <1>1, <2>3, RowsAreIds, Extremes
    <3> QED
      BY <1>2, <1>3, <1>4, <2>3, <3>1 DEF Filled
  <2>4. CASE Rows # {} /\ strategy = "larger" /\ pc'[r] = "read" /\ cursor'[r] = 0
    <3>1. ~(id <= 0)
      BY <1>1, SizesAssumption DEF Ids
    <3>2. ~Behind(r, id)'
      BY <1>2, <2>4, <3>1 DEF Behind
    <3> QED
      BY <1>2, <1>3, <1>4, <2>4, <3>2 DEF Filled
  <2> QED
    BY <1>0, <1>6, <2>1, <2>2, <2>3, <2>4 DEF CountRows, Goto
<1>7. CASE GetMaxId(r)
  <2>1. strategy = "minmax" /\ (db[id] # 0 => cursor[r] <= id) /\ cursor' = cursor
    BY <1>1, <1>7 DEF GetMaxId, Filled
  <2>2. CASE Rows = {}
    <3>1. pc'[r] = "cleanup"
      BY <1>0, <1>7, <2>2 DEF GetMaxId, Goto
    <3> QED
      BY <1>3, <3>1 DEF Filled
  <2>3. CASE Rows # {}
    <3>0. Rows \in SUBSET Ids
      BY RowsAreIds
    <3>1. /\ db[id] # 0 => id <= Largest(Rows)
          /\ Largest(Rows) \in Int
      <4>1. Largest(Rows) \in Rows /\ \A y \in Rows : y <= Largest(Rows)
        BY <2>3, <3>0, Extremes
      <4>2. db[id] # 0 => id <= Largest(Rows)
        BY <1>1, <4>1
      <4>3. Largest(Rows) \in Ids
        BY <3>0, <4>1
      <4>4. \A x \in Ids : x \in Int
        BY SizesAssumption DEF Ids
      <4> QED
        BY <4>2, <4>3, <4>4
    <3>2. limit'[r] = Largest(Rows)
          /\ pc'[r] = IF Largest(Rows) < cursor[r] THEN "old" ELSE "read"
      BY <1>0, <1>7, <2>3 DEF GetMaxId, Goto
    <3>3. pc'[r] = "old" => db[id] = 0
      BY <1>1, <2>1, <3>1, <3>2
    <3>4. db[id] # 0 => ~Behind(r, id)'
      BY <1>1, <1>2, <2>1 DEF Behind
    <3>5. pc'[r] \in {"old", "read"}
      BY <3>2
    <3> QED
      BY <1>2, <1>3, <1>4, <2>1, <3>1, <3>2, <3>3, <3>4, <3>5 DEF Filled
  <2> QED
    BY <2>2, <2>3
<1> QED
  BY <1>6, <1>7

LEMMA ReadRight ==
    ASSUME SettledInv, NEW r \in Rebuilds, ReadRows(r) PROVE Right(r)
<1> SUFFICES ASSUME ~Collision, NEW id \in settled
             PROVE  Filled(r, id)' /\ Served(name[r], id)'
  BY DEF Right
<1>0. /\ pc \in [Rebuilds -> {"idle"} \cup Calls \cup Ended]
      /\ cursor \in [Rebuilds -> Ints] /\ batch \in [Rebuilds -> Batches]
  BY DEF SettledInv, TypeInv, AliasInv, Shape, LocalTypes
<1>1. /\ id \in Ids /\ id \in Int /\ (id \in Rows <=> db[id] # 0)
      /\ name[r] \notin alias /\ Filled(r, id) /\ cursor[r] \in Int /\ Size \in Nat
  BY SettledFacts DEF ReadRows, Calls, Switched, Ended
<1>2. UNCHANGED <<name, alias, doc, db, strategy, limit>> /\ pc[r] = "read"
  BY DEF ReadRows, elastic, table
<1>3. Served(name[r], id)'
  BY <1>1, <1>2 DEF Served
<1>4. /\ db[id] = 0 => doc[name[r]][id] = 0
      /\ db[id] # 0 /\ Behind(r, id) => doc[name[r]][id] = db[id]
      /\ strategy = "minmax" /\ db[id] # 0 => id <= limit[r]
      /\ strategy = "page" => limit[r] = TotalPage
  BY <1>1, <1>2 DEF Filled
<1>5. Rows' = Rows /\ TotalPage' = TotalPage /\ Before(id)' = Before(id)
  BY <1>2 DEF Rows, TotalPage, Before
(* It is enough that the query returned the rows up to the new position.    *)
<1>6. ASSUME NEW rows \in SUBSET Rows, NEW next, NEW last, Fetch(r, rows, next, last),
             db[id] # 0 /\ Behind(r, id)' => Behind(r, id) \/ id \in rows,
             rows = {} /\ last => (db[id] # 0 => Behind(r, id))
      PROVE  Filled(r, id)'
  <2>1. /\ batch'[r] = [i \in rows |-> db[i]]
        /\ pc'[r] = IF rows # {} THEN "write" ELSE IF last THEN "old" ELSE "read"
    BY <1>0, <1>6 DEF Fetch, Goto
  <2>2. /\ DOMAIN batch'[r] = rows
        /\ \A i \in rows : batch'[r][i] = db[i]
    BY <2>1
  <2>3. CASE rows # {}
    BY <1>2, <1>4, <1>5, <1>6, <2>1, <2>2, <2>3 DEF Filled
  <2>4. CASE rows = {} /\ last
    <3>1. pc'[r] = "old"
      BY <2>1, <2>4
    <3>2. doc[name[r]][id] = db[id]
      BY <1>4, <1>6, <2>4
    <3> QED
      BY <1>2, <3>1, <3>2 DEF Filled
  <2>5. CASE rows = {} /\ ~last
    <3>1. pc'[r] = "read"
      BY <2>1, <2>5
    <3> QED
      BY <1>2, <1>4, <1>5, <1>6, <2>5, <3>1 DEF Filled
  <2> QED
    BY <2>3, <2>4, <2>5
<1>7. CASE strategy = "page"
  <2> DEFINE rows == RowsOfPage(cursor[r])
  <2>1. Fetch(r, rows, cursor[r] + 1, FALSE) /\ cursor'[r] = cursor[r] + 1
    BY <1>0, <1>7 DEF ReadRows, Fetch
  <2>2. rows \in SUBSET Rows
    BY DEF RowsOfPage
  <2>3. ASSUME db[id] # 0, Behind(r, id)' PROVE Behind(r, id) \/ id \in rows
    <3>1. Before(id) \in Nat /\ Before(id) < (cursor[r] + 1 - 1) * Size
      BY <1>1, <1>2, <1>5, <1>7, <2>1, <2>3, BeforeIsNat DEF Behind
    <3>2. cursor[r] + 1 - 1 = cursor[r]
      BY <1>1
    <3>3. cursor[r] * Size \in Int /\ (cursor[r] - 1) * Size \in Int
      BY <1>1
    <3>4. Before(id) < (cursor[r] - 1) * Size
             \/ Before(id) \in (cursor[r] - 1) * Size .. cursor[r] * Size - 1
      BY <3>1, <3>2, <3>3
    <3> QED
      BY <1>1, <1>7, <2>3, <3>4 DEF Behind, RowsOfPage
  <2> HIDE DEF rows
  <2> QED
    BY <1>3, <1>6, <2>1, <2>2, <2>3
<1>8. CASE strategy = "minmax"
  <2> DEFINE next == Wrap(cursor[r] + Size)
             rows == RowsInRange(cursor[r], next)
  <2>1. Fetch(r, rows, next, FALSE) /\ cursor'[r] = next
    BY <1>0, <1>8 DEF ReadRows, Fetch
  <2>2. rows \in SUBSET Rows /\ next \in Int
    <3>1. next \in Ints
      BY <1>1, WrapIsInt
    <3> QED
      BY <3>1, SizesAssumption DEF RowsInRange, Ints
  <2>3. ASSUME db[id] # 0, Behind(r, id)' PROVE Behind(r, id) \/ id \in rows
    BY <1>1, <1>2, <1>8, <2>1, <2>2, <2>3 DEF Behind, RowsInRange
  <2> HIDE DEF rows, next
  <2> QED
    BY <1>3, <1>6, <2>1, <2>2, <2>3
<1>9. CASE strategy = "larger"
  <2> DEFINE rows == RowsLargerThan(cursor[r])
             next == IF rows = {} THEN cursor[r] ELSE Largest(rows)
  <2>1. Fetch(r, rows, next, TRUE) /\ cursor'[r] = next
    BY <1>0, <1>9 DEF ReadRows, Fetch
  <2>2. rows \in SUBSET Rows /\ (db[id] # 0 => id <= cursor[r] \/ id \in rows)
    BY <1>1 DEF RowsLargerThan
  <2>3. ASSUME db[id] # 0 PROVE Behind(r, id) \/ id \in rows
    BY <1>9, <2>2, <2>3 DEF Behind
  <2> HIDE DEF rows, next
  <2> QED
    BY <1>3, <1>6, <2>1, <2>2, <2>3
<1> QED
  BY <1>7, <1>8, <1>9 DEF ReadRows

(* When the loop ends every row is behind the position.                     *)
LEMMA LoopEndRight ==
    ASSUME SettledInv, NEW r \in Rebuilds, NoMoreRows(r) PROVE Right(r)
<1> SUFFICES ASSUME ~Collision, NEW id \in settled
             PROVE  Filled(r, id)' /\ Served(name[r], id)'
  BY DEF Right
<1>1. /\ id \in Ids /\ id \in Int /\ (id \in Rows <=> db[id] # 0)
      /\ name[r] \notin alias /\ Filled(r, id) /\ cursor[r] \in Int /\ limit[r] \in Int
      /\ Size \in Nat /\ Size # 0
  BY SettledFacts DEF NoMoreRows, Calls, Switched, Ended
<1>2. /\ UNCHANGED <<name, alias, doc, db>> /\ pc[r] = "read" /\ pc'[r] = "old"
      /\ strategy # "larger" /\ cursor[r] > limit[r]
  BY DEF NoMoreRows, Goto, elastic, table, SettledInv, TypeInv, AliasInv, Shape
<1>3. strategy \in AllStrategies
  BY SizesAssumption DEF SettledInv, TypeInv, DataTypes
<1>4. ASSUME strategy = "page", db[id] # 0 PROVE Before(id) < (cursor[r] - 1) * Size
  <2>1. /\ Before(id) \in Nat /\ Before(id) < Cardinality(Rows) /\ Cardinality(Rows) \in Nat
        /\ Cardinality(Rows) <= limit[r] * Size
    BY <1>1, <1>2, <1>4, BeforeIsNat, TotalPageHolds, RowsAreIds DEF Filled
  <2>2. limit[r] <= cursor[r] - 1
    BY <1>1, <1>2
  <2>3. limit[r] * Size <= (cursor[r] - 1) * Size
    BY <1>1, <2>2
  <2>4. limit[r] * Size \in Int /\ (cursor[r] - 1) * Size \in Int
    BY <1>1
  <2> QED
    BY <2>1, <2>3, <2>4
<1>5. ASSUME strategy = "minmax", db[id] # 0 PROVE id < cursor[r]
  BY <1>1, <1>2, <1>5 DEF Filled
<1>6. db[id] # 0 => Behind(r, id)
  BY <1>2, <1>3, <1>4, <1>5 DEF AllStrategies, Behind
<1>7. doc[name[r]][id] = db[id]
  BY <1>1, <1>2, <1>6 DEF Filled
<1> QED
  BY <1>1, <1>2, <1>7 DEF Filled, Served

LEMMA BulkRight ==
    ASSUME SettledInv, NEW r \in Rebuilds, BulkIndex(r) PROVE Right(r)
<1> SUFFICES ASSUME ~Collision, NEW id \in settled
             PROVE  Filled(r, id)' /\ Served(name[r], id)'
  BY DEF Right
<1>1. /\ id \in Ids /\ name[r] \in Names /\ name[r] \notin alias /\ Filled(r, id)
      /\ doc \in [Names -> [Ids -> Versions]]
  BY SettledFacts DEF BulkIndex, Calls, Switched, Ended, SettledInv, TypeInv, DataTypes
<1>2. /\ UNCHANGED <<name, alias, db, strategy, cursor, limit>> /\ pc[r] = "write" /\ pc'[r] = "read"
      /\ doc' = [doc EXCEPT ![name[r]] = Overlay(doc[name[r]], batch[r])]
  BY DEF BulkIndex, RunBulk, Goto, table, SettledInv, TypeInv, AliasInv, Shape
<1>3. doc'[name[r]][id] = IF id \in DOMAIN batch[r] THEN batch[r][id] ELSE doc[name[r]][id]
  BY <1>1, <1>2 DEF Overlay
<1>4. Rows' = Rows
  BY <1>2 DEF Rows
<1>5. /\ Behind(r, id)' <=> Behind(r, id)
      /\ strategy = "page" => TotalPage' = TotalPage
  BY <1>1, <1>2, <1>4, BehindStays
<1> QED
  BY <1>1, <1>2, <1>3, <1>5 DEF Filled, Served

LEMMA SwitchRight ==
    ASSUME SettledInv, NEW r \in Rebuilds, GetIndexByAlias(r) \/ AddAlias(r) PROVE Right(r)
<1> SUFFICES ASSUME ~Collision, NEW id \in settled
             PROVE  Filled(r, id)' /\ Served(name[r], id)'
  BY DEF Right
<1>1. doc[name[r]][id] = db[id]
  BY SettledFacts DEF GetIndexByAlias, AddAlias, Filled
<1>2. pc'[r] \in {"alias", "cleanup", "drop"} /\ UNCHANGED <<name, doc, db>>
  BY DEF GetIndexByAlias, AddAlias, RunAddAlias, Goto, elastic, table, SettledInv, TypeInv,
         AliasInv, Shape
<1> QED
  BY <1>1, <1>2 DEF Filled, Served

LEMMA EndRight ==
    ASSUME SettledInv, NEW r \in Rebuilds,
           \/ OldIndexExists(r) \/ DeleteOldIndex(r) \/ RebuildSucceeds(r) \/ DeleteNewIndex(r)
           \/ NotAcknowledged(r) \/ CallFails(r)
    PROVE  Right(r)
<1> SUFFICES ASSUME ~Collision, NEW id \in settled
             PROVE  Filled(r, id)' /\ Served(name[r], id)'
  BY DEF Right
<1>1. /\ name[r] \in Names /\ Filled(r, id) /\ Served(name[r], id)
      /\ pc[r] \in Calls \ Switched => name[r] \notin alias
      /\ pc \in [Rebuilds -> {"idle"} \cup Calls \cup Ended]
      /\ doc \in [Names -> [Ids -> Versions]]
  BY SettledFacts DEF SettledInv, TypeInv, DataTypes, AliasInv, Shape
<1>2. pc'[r] \in {"drop", "delete", "done", "failed", "cleanup"} /\ UNCHANGED <<name, db>>
  BY <1>1 DEF OldIndexExists, DeleteOldIndex, RebuildSucceeds, DeleteNewIndex, NotAcknowledged,
              CallFails, Goto, table
<1>3. Filled(r, id)'
  BY <1>2 DEF Filled
<1>4. \/ UNCHANGED elastic
      \/ pc[r] \in {"create", "write"} /\ UNCHANGED alias
      \/ pc[r] = "alias" /\ RunAddAlias(name[r])
      \/ RunDelete(victim[r]) \/ RunDelete(name[r])
  BY DEF OldIndexExists, DeleteOldIndex, RebuildSucceeds, DeleteNewIndex, NotAcknowledged,
         CallFails, RunCreate, RunBulk
<1>5. CASE UNCHANGED elastic
  BY <1>1, <1>2, <1>3, <1>5 DEF elastic, Served
<1>6. CASE pc[r] \in {"create", "write"} /\ UNCHANGED alias
  BY <1>1, <1>2, <1>3, <1>6 DEF Calls, Switched, Ended, Served
<1>7. CASE pc[r] = "alias" /\ RunAddAlias(name[r])
  BY <1>1, <1>2, <1>3, <1>7 DEF RunAddAlias, Filled, Served
<1>8. CASE RunDelete(victim[r]) \/ RunDelete(name[r])
  BY <1>1, <1>2, <1>3, <1>8 DEF RunDelete, Served
<1> QED
  BY <1>4, <1>5, <1>6, <1>7, <1>8

LEMMA CallServes ==
    ASSUME SettledInv, NEW r \in Rebuilds,
           (Step(r) /\ ~ReBuildIndex(r)) \/ NotAcknowledged(r) \/ CallFails(r)
    PROVE  OldInv' /\ ServeInv'
<1>1. Alone(r)
  BY CallsAreAlone DEF SettledInv
<1>2. Right(r)
  BY CreateRight, CountRight, ReadRight, LoopEndRight, BulkRight, SwitchRight, EndRight DEF Step
<1> QED
  BY <1>1, <1>2, OldStep, ServeTransition DEF Right, SettledInv

LEMMA StartServes ==
    ASSUME SettledInv, NEW r \in Rebuilds, ReBuildIndex(r)
    PROVE  OldInv' /\ ServeInv'
<1>1. /\ pc[r] = "idle" /\ pc' = [pc EXCEPT ![r] = "create"] /\ name' = [name EXCEPT ![r] = second']
      /\ UNCHANGED <<strategy, pushed, elastic, table, cursor, limit, batch, old, victim, settled>>
  BY DEF ReBuildIndex, Goto
<1>2. /\ pc \in [Rebuilds -> {"idle"} \cup Calls \cup Ended] /\ name \in [Rebuilds -> Names]
      /\ name[r] = 0
  BY <1>1 DEF SettledInv, TypeInv, AliasInv, Shape, NamesTaken
<1>3. OldInv'
  BY <1>1, <1>2 DEF SettledInv, OldInv, Switched, Ended
<1>4. ServeInv'
  <2> SUFFICES ASSUME ~Collision', NEW id \in settled
               PROVE  /\ \A n \in Names : Served(n, id)'
                      /\ \A q \in Rebuilds : Filled(q, id)'
                      /\ ~Outdated(id)
    BY <1>1 DEF ServeInv, Outdated, table
  <2>1. ~Collision
    BY <1>1, <1>2 DEF Collision
  <2>2. id \in Ids /\ (\A n \in Names : Served(n, id)) /\ (\A q \in Rebuilds : Filled(q, id))
        /\ ~Outdated(id)
    BY <2>1 DEF SettledInv, ServeInv, TypeInv, DataTypes
  <2>3. \A n \in Names : Served(n, id)'
    BY <1>1, <2>2 DEF Served, elastic, table
  <2>4. ASSUME NEW q \in Rebuilds PROVE Filled(q, id)'
    <3>1. CASE q = r
      BY <1>1, <1>2, <3>1 DEF Filled
    <3>2. CASE q # r
      <4>1. Rows' = Rows
        BY <1>1 DEF Rows, table
      <4> QED
        BY <1>1, <1>2, <2>2, <3>2, <4>1, FilledStays DEF elastic, table
    <3> QED
      BY <3>1, <3>2
  <2> QED
    BY <2>2, <2>3, <2>4
<1> QED
  BY <1>3, <1>4

(* A row that changes unsettles its document, and all of them if a page of  *)
(* a running rebuild moves.                                                 *)
LEMMA ChangeServes ==
    ASSUME SettledInv, NEW i \in Ids, SaveRow(i) \/ DeleteRow(i)
    PROVE  ServeInv'
<1>1. PICK v \in Nat : ChangeRow(i, v)
  <2>1. writes \in Nat
    BY SizesAssumption DEF SettledInv, TypeInv, DataTypes
  <2>2. writes + 2 \in Nat
    BY <2>1
  <2> QED
    BY <2>2 DEF SaveRow, DeleteRow
<1>2. /\ db' = [db EXCEPT ![i] = v] /\ UNCHANGED <<strategy, pushed, elastic, locals>>
      /\ Unsettle(i, v = 0 \/ db[i] = 0)
  BY <1>1 DEF ChangeRow
<1> SUFFICES ASSUME ~Collision', NEW id \in settled'
             PROVE  /\ \A n \in Names : Served(n, id)'
                    /\ \A q \in Rebuilds : Filled(q, id)'
                    /\ ~Outdated(id)'
  BY DEF ServeInv
<1>3. ~Collision /\ id \in settled /\ id # i /\ id \in Ids
      /\ ~((v = 0 \/ db[i] = 0) /\ strategy = "page" /\ Active # {})
  BY <1>2 DEF Collision, locals, Unsettle, SettledInv, TypeInv, DataTypes
<1>4. /\ (\A n \in Names : Served(n, id)) /\ (\A q \in Rebuilds : Filled(q, id))
      /\ ~Outdated(id) /\ db \in [Ids -> Versions]
  BY <1>3 DEF SettledInv, ServeInv, TypeInv, DataTypes
<1>5. db'[id] = db[id]
  BY <1>2, <1>3, <1>4
<1>6. \A n \in Names : Served(n, id)'
  BY <1>2, <1>4, <1>5 DEF Served, elastic
<1>7. ASSUME NEW q \in Rebuilds PROVE Filled(q, id)'
  <2>1. CASE pc[q] \notin Calls
    BY <1>2, <2>1 DEF Filled, Calls, locals
  <2>2. CASE pc[q] \in Calls
    <3>1. ~(v = 0 \/ db[i] = 0) \/ strategy # "page"
      BY <1>3, <2>2 DEF Active
    <3>2. Rows' = Rows \/ strategy # "page"
      BY <1>2, <1>4, <3>1 DEF Rows
    <3> QED
      BY <1>2, <1>3, <1>4, <1>5, <3>2, FilledStays DEF locals, elastic
  <2> QED
    BY <2>1, <2>2
<1>8. ~Outdated(id)'
  BY <1>2, <1>4, <1>5 DEF Outdated
<1> QED
  BY <1>6, <1>7, <1>8

(* Rows that are pushed as they are do not harm any document.               *)
LEMMA BulkServes ==
    ASSUME SettledInv, ~Collision, NEW m \in Names, alias = {m}, NEW rows \in Batches,
           RunBulk(m, rows), UNCHANGED <<strategy, table, locals>>,
           NEW id \in Ids, id \in DOMAIN rows => rows[id] = db[id],
           id \in settled \/ (Active = {} /\ id \in DOMAIN rows)
    PROVE  /\ \A n \in Names : Served(n, id)'
           /\ \A q \in Rebuilds : Filled(q, id)'
<1>0. /\ doc \in [Names -> [Ids -> Versions]]
      /\ doc' = [doc EXCEPT ![m] = Overlay(doc[m], rows)] /\ alias' = alias
      /\ TypeInv /\ OldInv /\ ServeInv
  BY DEF SettledInv, TypeInv, DataTypes, RunBulk
<1>1. doc'[m][id] = IF id \in DOMAIN rows THEN rows[id] ELSE doc[m][id]
  BY <1>0 DEF Overlay
<1>2. id \notin DOMAIN rows => doc[m][id] = db[id]
  BY <1>0 DEF ServeInv, Served
<1>3. \A n \in Names : Served(n, id)'
  BY <1>0, <1>1, <1>2 DEF Served, table
<1>4. ASSUME NEW q \in Rebuilds PROVE Filled(q, id)'
  <2>1. CASE pc[q] \notin Calls
    BY <2>1 DEF Filled, Calls, locals
  <2>2. CASE pc[q] \in Calls
    <3>1. id \in settled
      BY <2>2 DEF Active
    <3>2. Filled(q, id)
      BY <1>0, <3>1 DEF ServeInv
    <3>3. pc[q] \in Calls \ Switched => doc'[name[q]] = doc[name[q]]
      BY <1>0, OwnIndex
    <3>4. Rows' = Rows
      BY DEF Rows, table
    <3> QED
      BY <3>2, <3>3, <3>4, FilledStays DEF table, locals
  <2> QED
    BY <2>1, <2>2
<1> QED
  BY <1>3, <1>4

LEMMA OthersServe ==
    ASSUME SettledInv, ~Collision, NEW id \in settled,
           UNCHANGED <<strategy, elastic, table, locals>>
    PROVE  /\ \A n \in Names : Served(n, id)'
           /\ \A q \in Rebuilds : Filled(q, id)'
<1>1. /\ id \in Ids /\ (\A n \in Names : Served(n, id)) /\ (\A q \in Rebuilds : Filled(q, id))
  BY DEF SettledInv, ServeInv, TypeInv, DataTypes
<1>2. Rows' = Rows
  BY DEF Rows, table
<1>3. \A q \in Rebuilds : Filled(q, id)'
  BY <1>1, <1>2, FilledStays DEF elastic, table, locals
<1> QED
  BY <1>1, <1>3 DEF Served, elastic, table

LEMMA WriteServes ==
    ASSUME SettledInv, ~Collision, NEW i \in Ids, NEW v \in Versions, WriteToAlias(i, v),
           UNCHANGED <<strategy, table, locals>>, pushed' \subseteq pushed
    PROVE  \A id \in settled' : /\ \A n \in Names : Served(n, id)'
                                /\ \A q \in Rebuilds : Filled(q, id)'
                                /\ ~Outdated(id)'
<1>0. \A id \in settled : ~Outdated(id)
  BY DEF SettledInv, ServeInv
<1>1. ASSUME NEW id \in settled' PROVE ~Outdated(id)'
  <2>1. ~Outdated(id)
    BY <1>0 DEF WriteToAlias
  <2> QED
    BY <2>1 DEF Outdated, table
<1>2. CASE Cardinality(alias) # 1
  BY <1>1, <1>2, OthersServe DEF WriteToAlias
<1>3. CASE Cardinality(alias) = 1
  <2>1. /\ IsFiniteSet(Names) /\ alias \in SUBSET Names
    BY SizesAssumption, FS_Interval DEF Names, SettledInv, TypeInv, AliasInv, Shape
  <2>2. IsFiniteSet(alias)
    BY <2>1, FS_Subset
  <2>3. PICK m : alias = {m}
    BY <1>3, <2>2, FS_Singleton
  <2> DEFINE rows == [j \in {i} |-> v]
  <2>4. m \in Names /\ RunBulk(m, rows)
    BY <1>3, <2>1, <2>3 DEF WriteToAlias
  <2>5. rows \in Batches /\ DOMAIN rows = {i} /\ rows[i] = v
    BY OneRow
  <2>6. ASSUME NEW id \in settled'
        PROVE  /\ id \in Ids /\ (id = i => v = db[i])
               /\ id \in settled \/ (Active = {} /\ id = i)
    BY <1>3 DEF WriteToAlias, SettledInv, TypeInv, DataTypes
  <2> HIDE DEF rows
  <2>7. ASSUME NEW id \in settled'
        PROVE  /\ \A n \in Names : Served(n, id)'
               /\ \A q \in Rebuilds : Filled(q, id)'
    BY <2>3, <2>4, <2>5, <2>6, BulkServes
  <2> QED
    BY <1>1, <2>7
<1> QED
  BY <1>2, <1>3

LEMMA PushServes ==
    ASSUME SettledInv,
           \/ \E id \in Ids : ReadForPush(id) \/ DeleteById(id)
           \/ \E push \in pushed : PushRow(push) \/ PushFails(push)
    PROVE  ServeInv'
<1> SUFFICES ASSUME ~Collision', NEW id \in settled'
             PROVE  /\ \A n \in Names : Served(n, id)'
                    /\ \A q \in Rebuilds : Filled(q, id)'
                    /\ ~Outdated(id)'
  BY DEF ServeInv
<1>0. /\ UNCHANGED <<strategy, table, locals>> /\ pushed \subseteq Ids \X Versions
  BY DEF ReadForPush, DeleteById, PushRow, PushFails, SettledInv, TypeInv, DataTypes
<1>1. ~Collision
  BY <1>0 DEF Collision, locals
<1>2. \A i \in settled : i \in Ids /\ ~Outdated(i)
  BY <1>1 DEF SettledInv, ServeInv, TypeInv, DataTypes
<1>3. ASSUME NEW i \in Ids, ReadForPush(i)
      PROVE  /\ \A n \in Names : Served(n, id)'
             /\ \A q \in Rebuilds : Filled(q, id)'
             /\ ~Outdated(id)'
  <2>1. id \in settled /\ UNCHANGED elastic /\ pushed' = pushed \cup {<<i, db[i]>>}
    BY <1>3 DEF ReadForPush, history
  <2>2. ~Outdated(id)'
    BY <1>0, <1>2, <2>1 DEF Outdated, table
  <2> QED
    BY <1>0, <1>1, <2>1, <2>2, OthersServe
<1>4. ASSUME NEW i \in Ids, DeleteById(i)
      PROVE  /\ \A n \in Names : Served(n, id)'
             /\ \A q \in Rebuilds : Filled(q, id)'
             /\ ~Outdated(id)'
  <2>1. 0 \in Versions /\ WriteToAlias(i, 0) /\ pushed' = pushed
    BY <1>4, SizesAssumption DEF DeleteById, Versions
  <2> QED
    BY <1>0, <1>1, <2>1, WriteServes
<1>5. ASSUME NEW push \in pushed, PushRow(push)
      PROVE  /\ \A n \in Names : Served(n, id)'
             /\ \A q \in Rebuilds : Filled(q, id)'
             /\ ~Outdated(id)'
  <2>1. push[1] \in Ids /\ push[2] \in Versions
    BY <1>0
  <2>2. WriteToAlias(push[1], push[2]) /\ pushed' \subseteq pushed
    BY <1>5 DEF PushRow, PushDone
  <2> QED
    BY <1>0, <1>1, <2>1, <2>2, WriteServes
<1>6. ASSUME NEW push \in pushed, PushFails(push)
      PROVE  /\ \A n \in Names : Served(n, id)'
             /\ \A q \in Rebuilds : Filled(q, id)'
             /\ ~Outdated(id)'
  <2>1. /\ push = <<push[1], push[2]>> /\ push[1] \in Ids /\ push[2] \in Versions
        /\ id \in settled /\ id \in Ids /\ pushed' \subseteq pushed
    BY <1>0, <1>2, <1>6 DEF PushFails, PushDone, history
  <2>2. ~Outdated(id)'
    BY <1>0, <1>2, <2>1 DEF Outdated, table
  <2>3. CASE UNCHANGED elastic
    BY <1>0, <1>1, <2>1, <2>2, <2>3, OthersServe
  <2> DEFINE rows == [j \in {push[1]} |-> push[2]]
  <2>4. ASSUME NEW m \in alias, alias = {m}, RunBulk(m, rows)
        PROVE  /\ \A n \in Names : Served(n, id)'
               /\ \A q \in Rebuilds : Filled(q, id)'
    <3>1. m \in Names
      BY DEF SettledInv, TypeInv, AliasInv, Shape
    <3>2. rows \in Batches /\ DOMAIN rows = {push[1]} /\ rows[push[1]] = push[2]
      BY <2>1, OneRow
    <3>3. id = push[1] => push[2] = db[id]
      BY <1>2, <2>1 DEF Outdated
    <3> HIDE DEF rows
    <3> QED
      BY <1>0, <1>1, <2>1, <2>4, <3>1, <3>2, <3>3, BulkServes
  <2> QED
    BY <1>6, <2>2, <2>3, <2>4 DEF PushFails
<1> QED
  BY <1>3, <1>4, <1>5, <1>6

LEMMA SettledStep == SettledInv /\ [Next]_vars => SettledInv'
<1> SUFFICES ASSUME SettledInv, [Next]_vars PROVE SettledInv'
  OBVIOUS
<1>1. TypeInv'
  BY TypeStep DEF SettledInv
<1>2. ASSUME UNCHANGED locals PROVE OldInv'
  BY <1>2 DEF locals, OldInv, SettledInv
<1>3. ASSUME UNCHANGED vars PROVE OldInv' /\ ServeInv'
  <2>1. OldInv'
    BY <1>2, <1>3 DEF vars
  <2>2. UNCHANGED <<strategy, elastic, table, locals, pushed, settled>>
    BY <1>3 DEF vars, history
  <2>3. Collision' <=> Collision
    BY <2>2 DEF Collision, locals
  <2>4. ServeInv'
    <3> SUFFICES ASSUME ~Collision, NEW id \in settled
                 PROVE  /\ \A n \in Names : Served(n, id)'
                        /\ \A q \in Rebuilds : Filled(q, id)'
                        /\ ~Outdated(id)
      BY <2>2, <2>3 DEF ServeInv, Outdated, table
    <3> QED
      BY <2>2, OthersServe DEF SettledInv, ServeInv
  <2> QED
    BY <2>1, <2>4
<1>4. ASSUME NEW id \in Ids, SaveRow(id) \/ DeleteRow(id) PROVE OldInv' /\ ServeInv'
  BY <1>2, <1>4, ChangeServes DEF SaveRow, DeleteRow, ChangeRow
<1>5. ASSUME NEW id \in Ids, ReadForPush(id) \/ DeleteById(id) PROVE OldInv' /\ ServeInv'
  BY <1>2, <1>5, PushServes DEF ReadForPush, DeleteById
<1>6. ASSUME NEW push \in pushed, PushRow(push) \/ PushFails(push) PROVE OldInv' /\ ServeInv'
  BY <1>2, <1>6, PushServes DEF PushRow, PushFails
<1>7. OldInv' /\ ServeInv'
  BY <1>3, <1>4, <1>5, <1>6, SizesAssumption, CallServes, StartServes DEF Next
<1> QED
  BY <1>1, <1>7 DEF SettledInv

LEMMA SettledInit == Init => SettledInv
<1> SUFFICES ASSUME Init PROVE SettledInv
  OBVIOUS
<1>1. TypeInv
  BY TypeInit
<1>2. OldInv
  BY DEF Init, OldInv
<1>3. ServeInv
  BY DEF Init, ServeInv, Served, Filled, Outdated
<1> QED
  BY <1>1, <1>2, <1>3 DEF SettledInv

(* A document that was pushed or deleted while no rebuild ran and no push  *)
(* of an older version was under way, and whose row has not changed since,  *)
(* is what a search finds in every index of the alias: no later push or     *)
(* rebuild loses it or brings an older version back, whatever calls fail or *)
(* overlap, unless two rebuilds take the same name (updateByIds,            *)
(* insertByIds, deleteByIds and insertIntoES).                              *)
THEOREM SettledAlwaysServed == Spec => []SettledIsServed
<1>1. SettledInv => SettledIsServed
  BY DEF SettledInv, ServeInv, Served, SettledIsServed, TypeInv, AliasInv, Shape
<1> QED
  BY <1>1, SettledInit, SettledStep, PTL DEF Spec
=============================================================================

---------------------------- MODULE MCComponents ----------------------------
(* Small instances of the components that fit in one module each: the task  *)
(* jobs, the service discovery, the limited, the cached and the batched     *)
(* calls, the frames of a connection, and the widgets of the pages.  They   *)
(* share no state, so a behaviour is one of one component: part names it,   *)
(* and the others stay as they begin.                                      *)
EXTENDS TaskJobs, ServiceDiscovery, LimitedCalls, CachedCalls, BatchCache,
        Framing, DataTable, ImageUpload, FormCombo, TLC

CONSTANTS bean1, bean2, job1, daily, k1, k2, k3, k4, g1, g2, g3, m1, m2

ASSUME DailyAssumption == daily \in Plans

TheJobs   == bean1 :> job1 @@ bean2 :> job1
TheFields == k1 :> g1 @@ k2 :> g1 @@ k3 :> g2 @@ k4 :> g3
TheHashes == g1 :> m1 @@ g2 :> m1 @@ g3 :> m2

VARIABLE part

services == <<jobVars, discVars, limitVars, cacheVars, batchVars, framingVars>>
widgets  == <<tableVars, uploadVars, comboVars>>
vars     == <<part, services, widgets>>

Init ==
    /\ TaskInit(daily) /\ DiscInit /\ LimitInit /\ CacheInit /\ FramingInit
    /\ TableInit /\ UploadInit /\ ComboInit
    /\ part \in {"task", "discovery", "limiter", "cache", "batch", "framing",
                 "table", "upload", "combo"}
    /\ BatchInit /\ (row = Nothing \/ part = "batch")
    /\ blocking \/ part = "limiter"

NextTask == part = "task" /\ TaskNext
    /\ UNCHANGED <<part, discVars, limitVars, cacheVars, batchVars, framingVars,
                   widgets>>
NextDiscovery == part = "discovery" /\ DiscNext
    /\ UNCHANGED <<part, jobVars, limitVars, cacheVars, batchVars, framingVars,
                   widgets>>
NextLimiter == part = "limiter" /\ LimitNext
    /\ UNCHANGED <<part, jobVars, discVars, cacheVars, batchVars, framingVars,
                   widgets>>
NextCache == part = "cache" /\ CachedNext
    /\ UNCHANGED <<part, jobVars, discVars, limitVars, batchVars, framingVars,
                   widgets>>
NextBatch == part = "batch" /\ BatchNext
    /\ UNCHANGED <<part, jobVars, discVars, limitVars, cacheVars, framingVars,
                   widgets>>
NextFraming == part = "framing" /\ FramingNext
    /\ UNCHANGED <<part, jobVars, discVars, limitVars, cacheVars, batchVars,
                   widgets>>
NextTable == part = "table" /\ TableNext
    /\ UNCHANGED <<part, services, uploadVars, comboVars>>
NextUpload == part = "upload" /\ UploadNext
    /\ UNCHANGED <<part, services, tableVars, comboVars>>
NextCombo == part = "combo" /\ ComboNext
    /\ UNCHANGED <<part, services, tableVars, uploadVars>>

Next == NextTask \/ NextDiscovery \/ NextLimiter \/ NextCache \/ NextBatch
        \/ NextFraming \/ NextTable \/ NextUpload \/ NextCombo

Spec == Init /\ [][Next]_vars /\ LimitFairness /\ UploadFairness /\ ComboFairness

TypeOK == TaskTypeOK /\ DiscTypeOK /\ LimitTypeOK /\ CacheTypeOK /\ BatchTypeOK
          /\ FramingTypeOK /\ TableTypeOK /\ UploadTypeOK /\ ComboTypeOK
=============================================================================

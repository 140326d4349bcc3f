------------------------- MODULE Components_proofs -------------------------
(***************************************************************************)
(* Proofs about the small components side by side, as the run checks them:  *)
(* a behaviour of all is a behaviour of each, so that what is proved of     *)
(* each component holds of all of them together.                           *)
(***************************************************************************)
EXTENDS MCComponents, Services_proofs, Widgets_proofs

(* No component's step changes what belongs to another.                     *)
LEMMA OthersStay ==
    [Next]_vars =>
        /\ [TaskNext]_jobVars /\ [DiscNext]_discVars /\ [LimitNext]_limitVars
        /\ [CachedNext]_cacheVars /\ [BatchNext]_batchVars
        /\ [FramingNext]_framingVars /\ [TableNext]_tableVars
        /\ [UploadNext]_uploadVars /\ [ComboNext]_comboVars
<1> SUFFICES ASSUME [Next]_vars
             PROVE  /\ [TaskNext]_jobVars /\ [DiscNext]_discVars /\ [LimitNext]_limitVars
                    /\ [CachedNext]_cacheVars /\ [BatchNext]_batchVars
                    /\ [FramingNext]_framingVars /\ [TableNext]_tableVars
                    /\ [UploadNext]_uploadVars /\ [ComboNext]_comboVars
  OBVIOUS
<1>1. CASE UNCHANGED vars
  BY <1>1 DEF vars, services, widgets
<1>2. CASE NextTask
  BY <1>2 DEF NextTask, widgets
<1>3. CASE NextDiscovery
  BY <1>3 DEF NextDiscovery, widgets
<1>4. CASE NextLimiter
  BY <1>4 DEF NextLimiter, widgets
<1>5. CASE NextCache
  BY <1>5 DEF NextCache, widgets
<1>6. CASE NextBatch
  BY <1>6 DEF NextBatch, widgets
<1>7. CASE NextFraming
  BY <1>7 DEF NextFraming, widgets
<1>8. CASE NextTable
  BY <1>8 DEF NextTable, services
<1>9. CASE NextUpload
  BY <1>9 DEF NextUpload, services
<1>10. CASE NextCombo
  BY <1>10 DEF NextCombo, services
<1> QED
  BY <1>1, <1>2, <1>3, <1>4, <1>5, <1>6, <1>7, <1>8, <1>9, <1>10 DEF Next

(* Each component behaves as its own specification says, whatever the       *)
(* others do: they share no state.                                         *)
THEOREM EachComponentAlone ==
    Spec => /\ TaskSpec /\ DiscSpec /\ LimitSpec /\ CacheSpec /\ BatchSpec
            /\ FramingSpec /\ TableSpec /\ UploadSpec /\ ComboSpec
<1>1. Init => /\ \E p \in Plans : TaskInit(p)
              /\ DiscInit /\ LimitInit /\ CacheInit /\ BatchInit /\ FramingInit
              /\ TableInit /\ UploadInit /\ ComboInit
  BY DailyAssumption DEF Init
<1> QED
  BY <1>1, OthersStay, PTL
  DEF Spec, TaskSpec, DiscSpec, LimitSpec, CacheSpec, BatchSpec, FramingSpec,
      TableSpec, UploadSpec, ComboSpec

(* Every value of the small components has its type: pages are pages of the *)
(* table, counters stay under their bounds, and stacks, maps and lists hold *)
(* what the code puts there.                                               *)
THEOREM ComponentTypes == Spec => []TypeOK
<1>1. /\ TaskInv => TaskTypeOK
      /\ DiscInv => DiscTypeOK
      /\ LimitInv => LimitTypeOK
      /\ CacheInv => CacheTypeOK
      /\ BatchInv => BatchTypeOK
      /\ FramingInv => FramingTypeOK
      /\ TableInv => TableTypeOK
      /\ UploadInv => UploadTypeOK
      /\ ComboInv => ComboTypeOK
  BY LimitInvTypes DEF TaskInv, DiscInv, CacheInv, BatchInv, FramingInv, TableInv,
                       Shape, UploadInv, ComboInv
<1>2. /\ TaskTypeOK /\ DiscTypeOK /\ LimitTypeOK /\ CacheTypeOK /\ BatchTypeOK
      /\ FramingTypeOK /\ TableTypeOK /\ UploadTypeOK /\ ComboTypeOK
      => TypeOK
  BY DEF TypeOK
<1> QED
  BY <1>1, <1>2, EachComponentAlone, TaskAlways, DiscoveryInvariant, LimitAlways,
     CacheAlways, BatchAlways, FramingAlways, TableInvariant, UploadInvariant,
     ComboAlways, PTL

(* What the services promise holds of the small components side by side.    *)
THEOREM ServicesKeepPromises ==
    Spec => [](/\ JobsAreTracked /\ ProvidersAreKept /\ PermitsAreConserved
               /\ CacheIsSound /\ BatchIsSound /\ FramingIsSound)
BY EachComponentAlone, JobsStayTracked, ProvidersAreKeptAlways,
   LimiterConservesPermits, CachedCallsAreSound, BatchResultsAreSound,
   FramesBecomeMessages, PTL

(* And so does what the widgets of a page promise.                          *)
THEOREM WidgetsKeepPromises ==
    Spec => [](/\ TableShowsAsked /\ PagerIsRight /\ BoxesAreRight
               /\ ImagesAreRight /\ FormShowsValues)
BY EachComponentAlone, TableShowsAskedAlways, PagerIsRightAlways,
   BoxesAreRightAlways, ImagesAreRightAlways, FormKeepsValues, PTL
=============================================================================

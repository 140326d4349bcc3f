------------------------------ MODULE TaskJobs ------------------------------
(***************************************************************************)
(* The dynamic jobs of the task component: TaskJob.addOrUpdateJob and       *)
(* cancel over the map of TaskJobManager, called by several threads.        *)
(*                                                                         *)
(* The map stores the caller's own JobBean, which the caller may change.    *)
(* A plan stands for activeMode and timeExpression together; PastPlans are  *)
(* those for a single run at a time that is over.  The scheduler of Spring  *)
(* is external: schedule starts a future, cancel ends it, and the future of *)
(* a single run ends by itself.                                             *)
(***************************************************************************)
EXTENDS Integers, FiniteSets

CONSTANTS Callers,   \* threads that add, update and cancel jobs
          JobNames,
          Beans,     \* the JobBean objects of the callers
          NameOf,    \* NameOf[b]: the name of bean b
          Plans,     \* mode and time
          LoopPlans, \* the plans of mode LOOP
          PastPlans, \* the plans of mode SINGLE whose time is over
          NoBean, NoPlan,
          MaxJobCalls \* bound: calls of all threads

ASSUME JobAssumption == /\ NameOf \in [Beans -> JobNames]
                        /\ LoopPlans \subseteq Plans
                        /\ PastPlans \subseteq Plans \ LoopPlans
                        /\ NoBean \notin Beans /\ NoPlan \notin Plans
                        /\ MaxJobCalls \in Nat

VARIABLES jobMap,   \* TaskJobManager.jobMap
          plan,     \* plan[b]: the plan written in bean b
          future,   \* future[b]: the future set in bean b, 0 for none
          futures,  \* the futures scheduled: their number, name and plan
          alive,    \* the futures that are not cancelled or over
          jobPc,    \* where each caller is in addOrUpdateJob
          job, old, \* its argument, and the bean it found in the map
          made,     \* the future it has scheduled
          jobCalls,
          race,     \* history: names on which two calls overlapped
          reused,   \* history: beans changed while the map holds them
          ended     \* history: names whose plan was cancelled or was over

jobVars == <<jobMap, plan, future, futures, alive, jobPc, job, old, made,
             jobCalls, race, reused, ended>>

FutureIds == 1 .. MaxJobCalls

TaskTypeOK ==
    /\ jobMap \in [JobNames -> Beans \cup {NoBean}]
    /\ plan \in [Beans -> Plans]
    /\ future \in [Beans -> 0 .. MaxJobCalls]
    /\ futures \subseteq [id : FutureIds, name : JobNames, plan : Plans]
    /\ alive \subseteq futures
    /\ jobPc \in [Callers -> {"idle", "look", "schedule", "store"}]
    /\ job \in [Callers -> Beans \cup {NoBean}]
    /\ old \in [Callers -> Beans \cup {NoBean}]
    /\ made \in [Callers -> 0 .. MaxJobCalls]
    /\ jobCalls \in 0 .. MaxJobCalls
    /\ race \subseteq JobNames /\ reused \subseteq Beans
    /\ ended \subseteq JobNames

\* p is the plan that every bean is created with.
TaskInit(p) ==
    /\ jobMap = [n \in JobNames |-> NoBean]
    /\ plan = [b \in Beans |-> p]
    /\ future = [b \in Beans |-> 0]
    /\ futures = {} /\ alive = {}
    /\ jobPc = [c \in Callers |-> "idle"]
    /\ job = [c \in Callers |-> NoBean] /\ old = [c \in Callers |-> NoBean]
    /\ made = [c \in Callers |-> 0]
    /\ jobCalls = 0 /\ race = {} /\ reused = {} /\ ended = {}

----------------------------------------------------------------------------
Busy(b) == \E c \in Callers : jobPc[c] # "idle" /\ job[c] = b

\* A caller writes another plan into a bean that no call is working on.
ChangeBean(b, p) ==
    /\ plan[b] # p /\ ~Busy(b)
    /\ plan' = [plan EXCEPT ![b] = p]
    /\ reused' = IF jobMap[NameOf[b]] = b THEN reused \cup {b} ELSE reused
    /\ UNCHANGED <<jobMap, future, futures, alive, jobPc, job, old, made,
                   jobCalls, race, ended>>

Overlaps(c, n) == \E d \in Callers \ {c} : jobPc[d] # "idle" /\ NameOf[job[d]] = n

\* addOrUpdateJob is called, and looks the name up in the map.
Add(c, b) ==
    /\ jobPc[c] = "idle" /\ jobCalls < MaxJobCalls
    /\ jobCalls' = jobCalls + 1
    /\ job' = [job EXCEPT ![c] = b]
    /\ old' = [old EXCEPT ![c] = jobMap[NameOf[b]]]
    /\ jobPc' = [jobPc EXCEPT ![c] = "look"]
    /\ race' = IF Overlaps(c, NameOf[b]) THEN race \cup {NameOf[b]} ELSE race
    /\ UNCHANGED <<jobMap, plan, future, futures, alive, made, reused, ended>>

FutureOf(b) == {f \in futures : f.id = future[b]}

Return(c) ==
    /\ jobPc' = [jobPc EXCEPT ![c] = "idle"]
    /\ job' = [job EXCEPT ![c] = NoBean]
    /\ old' = [old EXCEPT ![c] = NoBean]
    /\ made' = [made EXCEPT ![c] = 0]

\* A job of that name has the same mode and time: nothing to do.  The two
\* beans may be one object.
SamePlan(c) == old[c] # NoBean /\ plan[old[c]] = plan[job[c]]

\* A mutation: an unchanged job is replaced in the map by the new bean.
KeepPlanStoreBean(c) ==
    /\ jobPc[c] = "look" /\ SamePlan(c)
    /\ jobMap' = [jobMap EXCEPT ![NameOf[job[c]]] = job[c]]
    /\ Return(c)
    /\ UNCHANGED <<plan, future, futures, alive, jobCalls, race, reused, ended>>

KeepJob(c) ==
    /\ jobPc[c] = "look" /\ SamePlan(c)
    /\ Return(c)
    /\ UNCHANGED <<jobMap, plan, future, futures, alive, jobCalls, race, reused,
                   ended>>

\* The old future, if there is one, is cancelled.
ReplaceJob(c) ==
    /\ jobPc[c] = "look" /\ ~SamePlan(c)
    /\ alive' = IF old[c] = NoBean THEN alive ELSE alive \ FutureOf(old[c])
    /\ jobPc' = [jobPc EXCEPT ![c] = "schedule"]
    /\ UNCHANGED <<jobMap, plan, future, futures, job, old, made, jobCalls,
                   race, reused, ended>>

\* A single run whose time is over, or of no known mode, is refused, after
\* the old future has been cancelled.
Refuse(c) ==
    /\ jobPc[c] = "schedule" /\ plan[job[c]] \in PastPlans
    /\ Return(c)
    /\ ended' = IF old[c] = NoBean THEN ended ELSE ended \cup {NameOf[job[c]]}
    /\ UNCHANGED <<jobMap, plan, future, futures, alive, jobCalls, race, reused>>

\* scheduler.schedule.
Schedule(c) ==
    /\ jobPc[c] = "schedule" /\ plan[job[c]] \notin PastPlans
    /\ LET id == Cardinality(futures) + 1
           f  == [id |-> id, name |-> NameOf[job[c]], plan |-> plan[job[c]]]
       IN  /\ futures' = futures \cup {f}
           /\ alive' = alive \cup {f}
           /\ made' = [made EXCEPT ![c] = id]
    /\ jobPc' = [jobPc EXCEPT ![c] = "store"]
    /\ UNCHANGED <<jobMap, plan, future, job, old, jobCalls, race, reused, ended>>

\* setFuture, and the bean is put into the map.
Store(c) ==
    /\ jobPc[c] = "store"
    /\ future' = [future EXCEPT ![job[c]] = made[c]]
    /\ jobMap' = [jobMap EXCEPT ![NameOf[job[c]]] = job[c]]
    /\ reused' = reused \ {job[c]}
    /\ ended' = IF \E f \in alive : f.id = made[c]
                THEN ended \ {NameOf[job[c]]} ELSE ended
    /\ Return(c)
    /\ UNCHANGED <<plan, futures, alive, jobCalls, race>>

\* cancel(jobName): the future ends, the bean stays in the map.
CancelJob(n) ==
    /\ jobCalls < MaxJobCalls
    /\ jobCalls' = jobCalls + 1
    /\ jobMap[n] # NoBean
    /\ alive' = alive \ FutureOf(jobMap[n])
    /\ ended' = ended \cup {n}
    /\ race' = IF \E d \in Callers : jobPc[d] # "idle" /\ NameOf[job[d]] = n
               THEN race \cup {n} ELSE race
    /\ UNCHANGED <<jobMap, plan, future, futures, jobPc, job, old, made, reused>>

\* The time of a single run comes (external).
RunOnce(f) ==
    /\ f.plan \notin LoopPlans
    /\ alive' = alive \ {f}
    /\ ended' = ended \cup {f.name}
    /\ UNCHANGED <<jobMap, plan, future, futures, jobPc, job, old, made,
                   jobCalls, race, reused>>

TaskNext ==
    \/ \E b \in Beans, p \in Plans : ChangeBean(b, p)
    \/ \E c \in Callers, b \in Beans : Add(c, b)
    \/ \E c \in Callers : KeepJob(c) \/ ReplaceJob(c) \/ Refuse(c)
                          \/ Schedule(c) \/ Store(c)
    \/ \E n \in JobNames : CancelJob(n)
    \/ \E f \in alive : RunOnce(f)

----------------------------------------------------------------------------
(* Properties.                                                             *)

AliveOf(n) == {f \in alive : f.name = n}

(* A name has at most one future that still runs: an update ends the one    *)
(* before it.  Two calls for one name that overlap break this, because get,*)
(* schedule and put are not one step (TaskJob.java:41-67).                 *)
OneFuturePerName == \A n \in JobNames \ race : Cardinality(AliveOf(n)) <= 1

(* Every future that runs can be cancelled by its name: the bean in the map *)
(* holds it, once no call is between schedule and put.  The exceptions are  *)
(* overlapping calls and nothing else, also when callers change and reuse   *)
(* their beans.                                                            *)
RunningCanBeCancelled ==
    \A f \in alive :
        f.name \notin race /\ (\A c \in Callers : made[c] # f.id)
            => jobMap[f.name] # NoBean /\ future[jobMap[f.name]] = f.id

(* What the map says is what runs: when no call for a name is under way,   *)
(* the name has a future and it has the plan in its bean.  Three things     *)
(* break this: the name was cancelled or its single run is over, which      *)
(* addOrUpdateJob does not see (TaskJob.java:44), the bean was changed by   *)
(* its owner while the map held it, so that it is compared with itself, or  *)
(* calls overlapped.                                                       *)
MapIsSchedule ==
    \A n \in JobNames \ (race \cup ended) :
        LET b == jobMap[n]
        IN  b # NoBean /\ b \notin reused
            /\ (\A c \in Callers : jobPc[c] # "idle" => NameOf[job[c]] # n)
            => \E f \in AliveOf(n) : f.id = future[b] /\ f.plan = plan[b]

(* The three together: the map of jobs is a true account of the schedule.  *)
JobsAreTracked == OneFuturePerName /\ RunningCanBeCancelled /\ MapIsSchedule
=============================================================================

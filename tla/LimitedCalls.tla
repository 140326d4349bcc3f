---------------------------- MODULE LimitedCalls ----------------------------
(***************************************************************************)
(* Calls of methods that the limiter plugin intercepts:                     *)
(* AroundInterceptHandle.around with LimiterInterceptPlugin over the        *)
(* SemaphoreLimiterImpl that the plugin makes when it is initialised, in    *)
(* blocking mode or with a timeout.  A method may call another intercepted  *)
(* method.  Nothing in the code destroys the limiter of a plugin, so its    *)
(* semaphore stays.  java.util.concurrent.Semaphore is external.            *)
(***************************************************************************)
EXTENDS Integers, Sequences, FiniteSets

CONSTANTS CallerThreads,
          PERMITS,    \* permits of the semaphore
          MaxDepth,   \* bound: how deep intercepted methods nest
          MaxLimited  \* bound: intercepted calls

ASSUME LimiterAssumption == /\ PERMITS \in Nat \ {0}
                            /\ MaxDepth \in Nat /\ MaxLimited \in Nat

VARIABLES blocking,  \* the plugin waits for a permit without a limit
          available, \* the free permits of the semaphore
          frames,    \* frames[t]: where the intercepted calls of thread t are
          limited    \* intercepted calls so far

limitVars == <<blocking, available, frames, limited>>

LimitTypeOK ==
    /\ blocking \in BOOLEAN
    /\ available \in 0 .. PERMITS
    /\ frames \in [CallerThreads -> Seq({"acquire", "run"})]
    /\ limited \in 0 .. MaxLimited

LimitInit ==
    /\ blocking \in BOOLEAN
    /\ available = PERMITS
    /\ frames = [t \in CallerThreads |-> <<>>]
    /\ limited = 0

----------------------------------------------------------------------------
Top(t) == frames[t][Len(frames[t])]
In(t, place) == frames[t] # <<>> /\ Top(t) = place
Pop(t) == frames' = [frames EXCEPT ![t] = SubSeq(@, 1, Len(@) - 1)]

\* around: onBefore asks the semaphore for a permit, acquire without a
\* limit, tryAcquire with one.
CallMethod(t) ==
    /\ frames[t] = <<>> \/ In(t, "run")
    /\ Len(frames[t]) < MaxDepth /\ limited < MaxLimited
    /\ limited' = limited + 1
    /\ frames' = [frames EXCEPT ![t] = Append(@, "acquire")]
    /\ UNCHANGED <<blocking, available>>

Grant(t) ==
    /\ In(t, "acquire") /\ available > 0
    /\ available' = available - 1
    /\ frames' = [frames EXCEPT ![t][Len(frames[t])] = "run"]
    /\ UNCHANGED <<blocking, limited>>

\* tryAcquire gives up; the exception of onBefore is caught, and around
\* returns null without the method.
TimeOut(t) ==
    /\ In(t, "acquire") /\ ~blocking
    /\ Pop(t)
    /\ UNCHANGED <<blocking, available, limited>>

\* The thread is interrupted while it waits, with the same end.
Interrupt(t) ==
    /\ In(t, "acquire")
    /\ Pop(t)
    /\ UNCHANGED <<blocking, available, limited>>

\* A mutation: onAfter is skipped when the method throws.
FinishUncaught(t) ==
    /\ In(t, "run")
    /\ Pop(t)
    /\ available' \in {available, available + 1}
    /\ UNCHANGED <<blocking, limited>>

\* The method returns or throws, and onAfter releases its permit.
FinishMethod(t) ==
    /\ In(t, "run")
    /\ Pop(t)
    /\ available' = available + 1
    /\ UNCHANGED <<blocking, limited>>

LimitNext ==
    \E t \in CallerThreads :
        CallMethod(t) \/ Grant(t) \/ TimeOut(t) \/ Interrupt(t) \/ FinishMethod(t)

\* A permit that is free is granted, the intercepted methods return, and
\* timeouts elapse; nobody has to interrupt a thread.
LimitFairness ==
    \A t \in CallerThreads : /\ WF_limitVars(Grant(t))
                             /\ WF_limitVars(TimeOut(t))
                             /\ WF_limitVars(FinishMethod(t))

----------------------------------------------------------------------------
(* Properties.                                                             *)

Running ==
    {p \in CallerThreads \X (1 .. MaxDepth) :
        p[2] <= Len(frames[p[1]]) /\ frames[p[1]][p[2]] = "run"}

(* No permit is lost or made: what is free and what running calls hold add  *)
(* up, whether the methods return, throw, nest, give up or are interrupted  *)
(* while they wait (AroundInterceptHandle.java:82).                        *)
PermitsAreConserved == available + Cardinality(Running) = PERMITS

\* All permits are with threads that wait without a limit for another one.
Stuck == blocking /\ Cardinality({p \in Running : In(p[1], "acquire")}) = PERMITS

(* Every intercepted call returns, also where more threads call than there  *)
(* are permits and where limited methods call limited methods, unless all   *)
(* permits are held by calls that wait for a second one: then they block    *)
(* each other for ever (LimiterInterceptPlugin.java:79).                   *)
LimitedCallsReturn ==
    \A t \in CallerThreads : frames[t] # <<>> ~> (frames[t] = <<>> \/ Stuck)
=============================================================================

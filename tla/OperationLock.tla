---------------------------- MODULE OperationLock ----------------------------
(***************************************************************************)
(* The lock that is to keep two hosts from running one scheduled task at   *)
(* the same time: OperationLockManager, called by RunTask around the task. *)
(* One Redis key is the lock.  Taking it is GETSET and then EXPIRE, giving *)
(* it back is DEL, and nobody's name is in it.                             *)
(*                                                                         *)
(* The class is in the repository but not in the build, and RunTask calls  *)
(* stubs of it; this is the protocol as these lines state it, for the day  *)
(* they are restored.  ImportPipeline models what runs without it.         *)
(***************************************************************************)
EXTENDS Integers, FiniteSets

CONSTANTS
    Hosts,        \* processes that run the scheduled service with needLock = true
    MaxOverruns,  \* bound: expiries of the lock while a run is in progress
    MaxFailures,  \* bound: Redis calls that throw
    MaxCrashes    \* bound: processes that die

ASSUME HostsAssumption == IsFiniteSet(Hosts)
ASSUME BoundsAssumption ==
    MaxOverruns \in Nat /\ MaxFailures \in Nat /\ MaxCrashes \in Nat

VARIABLES
    key,       \* the Redis key: absent, present for ever, or with a time to live
    pc,        \* pc[h]: where RunTask of host h stands
    overruns,  \* history: how often the lock expired under a run
    failures,  \* Redis calls that have thrown so far
    crashes    \* processes that have died so far

vars == <<key, pc, overruns, failures, crashes>>

TypeOK ==
    /\ key \in {"absent", "persistent", "expiring"}
    /\ pc \in [Hosts -> {"idle", "acquired", "running", "down"}]
    /\ overruns \in 0..MaxOverruns
    /\ failures \in 0..MaxFailures
    /\ crashes \in 0..MaxCrashes

Init ==
    /\ key = "absent"
    /\ pc = [h \in Hosts |-> "idle"]
    /\ overruns = 0
    /\ failures = 0
    /\ crashes = 0

\* The hosts that hold the lock or believe they do.
Running == {h \in Hosts : pc[h] \in {"acquired", "running"}}

CallThrows == failures < MaxFailures /\ failures' = failures + 1

(***************************************************************************)
(* RunTask.                                                                *)
(***************************************************************************)

\* Mutant of GetSet: the key is read and then set, in two calls.
GetThenSet(h) ==
    /\ pc[h] = "idle"
    /\ key' = "persistent"
    /\ \/ pc' = [pc EXCEPT ![h] = "acquired"]
       \/ key # "absent" /\ UNCHANGED pc
    /\ UNCHANGED <<overruns, failures, crashes>>

\* GETSET writes the key whoever has it, and a write discards the time to live: a
\* host that finds the lock taken leaves it taken for ever.
GetSet(h) ==
    /\ pc[h] = "idle"
    /\ key' = "persistent"
    /\ pc' = IF key = "absent" THEN [pc EXCEPT ![h] = "acquired"] ELSE pc
    /\ UNCHANGED <<overruns, failures, crashes>>

\* EXPIRE of a key that is gone does nothing, and its answer is not looked at.
KeyExpire(h) ==
    /\ pc[h] = "acquired"
    /\ key' = IF key = "absent" THEN "absent" ELSE "expiring"
    /\ pc' = [pc EXCEPT ![h] = "running"]
    /\ UNCHANGED <<overruns, failures, crashes>>

\* Mutant of ReleaseLock: the host is left in a state from which no run starts.
ReleaseLockStuck(h) ==
    /\ pc[h] = "running"
    /\ key' = "absent"
    /\ pc' = [pc EXCEPT ![h] = "released"]
    /\ UNCHANGED <<overruns, failures, crashes>>

\* The finally block, whether the task returned or threw: DEL of the key, also when
\* it has expired meanwhile and another host has taken it.
ReleaseLock(h) ==
    /\ pc[h] = "running"
    /\ key' = "absent"
    /\ pc' = [pc EXCEPT ![h] = "idle"]
    /\ UNCHANGED <<overruns, failures, crashes>>

\* A Redis call throws, its effect done or not done, and RunTask ends with it: an
\* EXPIRE that throws is outside the try block, so nothing gives the lock back.
RunThrows(h) ==
    /\ CallThrows
    /\ pc[h] \in {"idle", "acquired", "running"}
    /\ \/ UNCHANGED key
       \/ pc[h] = "idle" /\ key' = "persistent"
       \/ pc[h] = "acquired" /\ key' = IF key = "absent" THEN "absent" ELSE "expiring"
       \/ pc[h] = "running" /\ key' = "absent"
    /\ pc' = [pc EXCEPT ![h] = "idle"]
    /\ UNCHANGED <<overruns, crashes>>

(***************************************************************************)
(* Redis and the processes.                                                *)
(***************************************************************************)

\* The time to live runs out: _executionTimeout, 10 minutes.
Expire ==
    /\ key = "expiring"
    /\ key' = "absent"
    /\ IF Running = {}
         THEN UNCHANGED overruns
         ELSE overruns < MaxOverruns /\ overruns' = overruns + 1
    /\ UNCHANGED <<pc, failures, crashes>>

Crash(h) ==
    /\ pc[h] # "down"
    /\ crashes < MaxCrashes
    /\ crashes' = crashes + 1
    /\ pc' = [pc EXCEPT ![h] = "down"]
    /\ UNCHANGED <<key, overruns, failures>>

Restart(h) ==
    /\ pc[h] = "down"
    /\ pc' = [pc EXCEPT ![h] = "idle"]
    /\ UNCHANGED <<key, overruns, failures, crashes>>

RunTask(h) == GetSet(h) \/ KeyExpire(h) \/ ReleaseLock(h)

Next ==
    \/ Expire
    \/ \E h \in Hosts : RunTask(h) \/ RunThrows(h) \/ Crash(h) \/ Restart(h)

Spec == Init /\ [][Next]_vars

\* The schedule fires again, calls return or throw, tasks end, time passes in Redis
\* and dead processes are started again.
Fairness ==
    /\ WF_vars(Expire)
    /\ \A h \in Hosts : WF_vars(RunTask(h)) /\ WF_vars(Restart(h))

FairSpec == Spec /\ Fairness

-----------------------------------------------------------------------------
(***************************************************************************)
(* What must hold.                                                         *)
(***************************************************************************)

\* Two runs at a time go back to a run that outlived the timeout: as long as none
\* has, at most one host runs, and each one that does lets in one more at most,
\* although it then deletes a lock that is not its own.
OverrunsPayForOverlaps == Cardinality(Running) <= 1 + overruns

\* "When Execution Timeout reaches, the OperationLock will be released
\* automatically." (ScheduledBackgroundService.cs:21)
ReleasedAtTimeout == key # "absent" ~> key = "absent"

-----------------------------------------------------------------------------
\* A run is covered by the key, or by an expiry that took the key from a run.
Covered ==
    Cardinality(Running) <= overruns + (IF key = "absent" THEN 0 ELSE 1)

IndInv == TypeOK /\ Covered
=============================================================================

----------------------------- MODULE HostsProofs -----------------------------
(***************************************************************************)
(* Proofs about what hosts do to each other, for any hosts and any number  *)
(* of crashes and failures: when they contend for the lock of a scheduled  *)
(* task (OperationLock), and when several of them start at once (Startup). *)
(***************************************************************************)
EXTENDS OperationLock, Startup, FiniteSetTheorems, TLAPS

-----------------------------------------------------------------------------
(***************************************************************************)
(* The lock.                                                               *)
(***************************************************************************)

\* The hosts with a run in progress are finitely many, before and after a step.
LEMMA RunningFinite ==
    /\ IsFiniteSet(Running) /\ Cardinality(Running) \in Nat
    /\ IsFiniteSet(Running') /\ Cardinality(Running') \in Nat
<1>1. Running \in SUBSET Hosts /\ Running' \in SUBSET Hosts
  BY DEF Running
<1> QED  BY <1>1, HostsAssumption, FS_Subset, FS_CardinalityType

\* A step that starts no run leaves no more runs than there were.
LEMMA NoNewRun ==
    ASSUME Running' \subseteq Running
    PROVE  Cardinality(Running') <= Cardinality(Running)
BY RunningFinite, FS_Subset

\* A run that ends is one run less.
LEMMA RunEnds ==
    ASSUME NEW h \in Running, Running' = Running \ {h}
    PROVE  Cardinality(Running') = Cardinality(Running) - 1
BY RunningFinite, FS_RemoveElement

\* A run that starts is one run more.
LEMMA RunStarts ==
    ASSUME NEW h, h \notin Running, Running' = Running \cup {h}
    PROVE  Cardinality(Running') = Cardinality(Running) + 1
BY RunningFinite, FS_AddElement

\* The initial state: no key, no run.
LEMMA InitLock == Init => IndInv
<1> SUFFICES ASSUME Init PROVE IndInv
  OBVIOUS
<1>1. TypeOK
  BY BoundsAssumption DEF Init, TypeOK
<1>2. Running = {}
  BY DEF Init, Running
<1>3. Cardinality(Running) = 0
  BY <1>2, FS_EmptySet
<1> QED  BY <1>1, <1>3 DEF IndInv, Covered, Init

\* RunTask takes the key with each run it starts, and a DEL that removes a key
\* ends a run.
LEMMA RunTaskCovered ==
    ASSUME IndInv, NEW h \in Hosts, RunTask(h)
    PROVE  IndInv'
<1> USE RunningFinite DEF IndInv, Covered, TypeOK
<1>1. CASE GetSet(h)
  <2>1. TypeOK'
    BY <1>1 DEF GetSet
  <2>2. CASE key = "absent"
    <3>1. h \notin Running /\ Running' = Running \cup {h}
      BY <1>1, <2>2 DEF GetSet, Running
    <3>2. Cardinality(Running') = Cardinality(Running) + 1
      BY <3>1, RunStarts
    <3> QED  BY <1>1, <2>1, <2>2, <3>2 DEF GetSet
  <2>3. CASE key # "absent"
    <3>1. Running' = Running
      BY <1>1, <2>3 DEF GetSet, Running
    <3> QED  BY <1>1, <2>1, <2>3, <3>1 DEF GetSet
  <2> QED  BY <2>2, <2>3
<1>2. CASE KeyExpire(h)
  <2>1. TypeOK'
    BY <1>2 DEF KeyExpire
  <2>2. Running' = Running
    BY <1>2 DEF KeyExpire, Running
  <2> QED  BY <1>2, <2>1, <2>2 DEF KeyExpire
<1>3. CASE ReleaseLock(h)
  <2>1. TypeOK'
    BY <1>3 DEF ReleaseLock
  <2>2. h \in Running /\ Running' = Running \ {h}
    BY <1>3 DEF ReleaseLock, Running
  <2>3. Cardinality(Running') = Cardinality(Running) - 1
    BY <2>2, RunEnds
  <2> QED  BY <1>3, <2>1, <2>3 DEF ReleaseLock
<1> QED  BY <1>1, <1>2, <1>3 DEF RunTask

\* A run that throws ends; it removes the key only by its own DEL.
LEMMA FailureCovered ==
    ASSUME IndInv, NEW h \in Hosts, RunThrows(h) \/ Crash(h) \/ Restart(h)
    PROVE  IndInv'
<1> USE RunningFinite DEF IndInv, Covered, TypeOK
<1>1. CASE RunThrows(h)
  <2>1. TypeOK'
    BY <1>1, BoundsAssumption DEF RunThrows, CallThrows
  <2>2. CASE h \in Running
    <3>1. Running' = Running \ {h}
      BY <1>1 DEF RunThrows, Running
    <3>2. Cardinality(Running') = Cardinality(Running) - 1
      BY <2>2, <3>1, RunEnds
    <3> QED  BY <1>1, <2>1, <3>2 DEF RunThrows
  <2>3. CASE h \notin Running
    <3>1. Running' = Running
      BY <1>1, <2>3 DEF RunThrows, Running
    <3>2. key' = key \/ key' = "persistent"
      BY <1>1, <2>3 DEF RunThrows, Running
    <3> QED  BY <1>1, <2>1, <3>1, <3>2 DEF RunThrows
  <2> QED  BY <2>2, <2>3
<1>2. CASE Crash(h)
  <2>1. TypeOK'
    BY <1>2, BoundsAssumption DEF Crash
  <2>2. Running' \subseteq Running
    BY <1>2 DEF Crash, Running
  <2>3. Cardinality(Running') <= Cardinality(Running)
    BY <2>2, NoNewRun
  <2> QED  BY <1>2, <2>1, <2>3 DEF Crash
<1>3. CASE Restart(h)
  <2>1. TypeOK'
    BY <1>3 DEF Restart
  <2>2. Running' = Running
    BY <1>3 DEF Restart, Running
  <2> QED  BY <1>3, <2>1, <2>2 DEF Restart
<1> QED  BY <1>1, <1>2, <1>3

\* An expiry either takes the key from a run, and is counted, or from nobody.
LEMMA ExpireCovered == ASSUME IndInv, Expire PROVE IndInv'
<1> USE RunningFinite DEF IndInv, Covered, TypeOK
<1>1. TypeOK'
  BY BoundsAssumption DEF Expire
<1>2. Running' = Running
  BY DEF Expire, Running
<1>3. Running = {} => Cardinality(Running) = 0
  BY FS_EmptySet
<1> QED  BY <1>1, <1>2, <1>3 DEF Expire

\* The invariant is inductive.
LEMMA NextCovered == IndInv /\ [Next]_vars => IndInv'
<1> SUFFICES ASSUME IndInv, [Next]_vars PROVE IndInv'
  OBVIOUS
<1>1. CASE UNCHANGED vars
  BY <1>1 DEF vars, IndInv, TypeOK, Covered, Running
<1>2. CASE Next
  BY <1>2, RunTaskCovered, FailureCovered, ExpireCovered DEF Next
<1> QED  BY <1>1, <1>2

\* Every reachable state is well typed.
THEOREM TypeCorrect == Spec => []TypeOK
<1>1. IndInv => TypeOK
  BY DEF IndInv
<1> QED  BY <1>1, InitLock, NextCovered, PTL DEF Spec

\* However many hosts contend, throw and die, GETSET and DEL let two runs overlap
\* only after a run that outlived the timeout, and no more of them than such runs.
THEOREM OverlapsPaidFor == Spec => []OverrunsPayForOverlaps
<1>1. IndInv => OverrunsPayForOverlaps
  BY RunningFinite DEF IndInv, Covered, TypeOK, OverrunsPayForOverlaps
<1> QED  BY <1>1, InitLock, NextCovered, PTL DEF Spec

-----------------------------------------------------------------------------
(***************************************************************************)
(* The startup.                                                            *)
(***************************************************************************)

\* Nothing is lost before the first startup.
LEMMA InitReady == StartupInit => ReadyInv
BY StartupAssumption
   DEF StartupInit, ReadyInv, StartupTypeOK, ServingIsReady, LossesAreBounded, ListedLosses, Steps

\* A step of a startup only adds to the stores, and loses one that is done.
LEMMA StartReady == ASSUME ReadyInv, NEW h \in Servers, Start(h) PROVE ReadyInv'
<1> USE StartupAssumption
        DEF ReadyInv, StartupTypeOK, ServingIsReady, LossesAreBounded, ListedLosses, Steps
<1>1. CASE ListPending(h)
  BY <1>1 DEF ListPending
<1>2. CASE ApplyMigration(h)
  <2>1. CASE schema < next[h]
    BY <1>2, <2>1 DEF ApplyMigration
  <2>2. CASE ~(schema < next[h])
    BY <1>2, <2>2 DEF ApplyMigration, StartupThrows
  <2> QED  BY <2>1, <2>2
<1>3. CASE Migrated(h)
  BY <1>3 DEF Migrated
<1>4. CASE CheckCollection(h)
  BY <1>4 DEF CheckCollection
<1>5. CASE CreateCollection(h)
  <2>1. CASE collection = 1
    BY <1>5, <2>1 DEF CreateCollection, StartupThrows
  <2>2. CASE collection # 1
    BY <1>5, <2>2 DEF CreateCollection
  <2> QED  BY <2>1, <2>2
<1> QED  BY <1>1, <1>2, <1>3, <1>4, <1>5 DEF Start

\* So does a crash, whether or not its last call took effect.
LEMMA CrashReady == ASSUME ReadyInv, NEW h \in Servers, Dies(h) PROVE ReadyInv'
BY StartupAssumption
   DEF ReadyInv, StartupTypeOK, ServingIsReady, LossesAreBounded, ListedLosses, Steps,
       Dies

\* The invariant is inductive.
LEMMA NextReady == ReadyInv /\ [StartupNext]_startupVars => ReadyInv'
<1> SUFFICES ASSUME ReadyInv, [StartupNext]_startupVars PROVE ReadyInv'
  OBVIOUS
<1>1. CASE UNCHANGED startupVars
  BY <1>1 DEF startupVars, ReadyInv, StartupTypeOK, ServingIsReady, LossesAreBounded,
     ListedLosses, Steps
<1>2. CASE StartupNext
  BY <1>2, StartReady, CrashReady DEF StartupNext
<1> QED  BY <1>1, <1>2

\* The invariant holds in every reachable state.
LEMMA AlwaysReady == StartupSpec => []ReadyInv
BY InitReady, NextReady, PTL DEF StartupSpec

\* Every variable of a startup keeps its type.
THEOREM StartupTypeCorrect == StartupSpec => []StartupTypeOK
<1>1. ReadyInv => StartupTypeOK
  BY DEF ReadyInv
<1> QED  BY <1>1, AlwaysReady, PTL

\* However many hosts start at once, one that serves has the whole schema and the
\* collection.
THEOREM Ready == StartupSpec => []ServingIsReady
<1>1. ReadyInv => ServingIsReady
  BY DEF ReadyInv
<1> QED  BY <1>1, AlwaysReady, PTL

\* No host loses more startups to races than there are steps to race for.
THEOREM FewLosses == StartupSpec => []LossesAreBounded
<1>1. ReadyInv => LossesAreBounded
  BY DEF ReadyInv
<1> QED  BY <1>1, AlwaysReady, PTL
=============================================================================

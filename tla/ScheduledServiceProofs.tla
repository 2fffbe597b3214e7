----------------------- MODULE ScheduledServiceProofs -----------------------
(***************************************************************************)
(* Proofs about ScheduledService for any number of pool threads, timers    *)
(* and late events.  The chain of runs is a baton: it is held by a timer   *)
(* that will call a handler or by one handler, and passed on when the      *)
(* timer is disposed and when the next one is subscribed to.  A late event *)
(* lets two handlers take it from one timer: what is still to be taken     *)
(* that way is Credit.                                                     *)
(***************************************************************************)
EXTENDS ScheduledService, FiniteSetTheorems, TLAPS

\* While no event was late, only the timer in the field can be armed, one handler at
\* most is going, and from its reset to the next run it has the field to itself.
Baton ==
    late = 0 =>
        /\ armed \subseteq {timer} \cap Timers
        /\ due = {}
        /\ \A t, u \in Threads : t # u => pc[t] = "free" \/ pc[u] = "free"
        /\ \A t \in Threads :
              /\ pc[t] = "fired" => timer # Null
              /\ pc[t] = "disposed" => timer # Null /\ armed = {}
              /\ pc[t] \in {"running", "sending", "ran"} => timer = Null
              /\ pc[t] = "sending" => mediator = t
              /\ pc[t] \in {"built", "subscribed"} => timer # Null /\ ~spent /\ armed = {}

\* What the field holds: a handler that disposed a timer resets the field, one that
\* built a timer subscribes to it, and the handlers of an event wait for its first.
Field ==
    /\ spent => timer # Null /\ \E t \in Threads : pc[t] = "disposed"
    /\ timer # Null /\ ~spent =>
          (\E p \in subs : p[1] = timer) \/ \E t \in Threads : pc[t] = "built"
    /\ \A p \in due : pc[p[1]] \in {"fired", "disposed", "running"}

\* What is left of the chain in each phase of the host.
Phases ==
    /\ phase = "built" => timer = Null /\ ~spent /\ subs = {}
    /\ phase \in {"built", "exited", "crashed"} => armed = {} /\ Busy = {} /\ due = {}
    /\ cancelled = TRUE => phase \in {"stopping", "exited", "crashed"}
    /\ CrashHasACause
    /\ StillScheduled

ChainInv == TypeOK /\ Baton /\ Field /\ Phases

\* Subscriptions to timers that will fire, or that their handler has yet to start.
Live == {p \in subs : p[1] \in armed \/ (p[1] = timer /\ ~spent)}

\* Handlers that have taken the chain from a timer and not given it to the next.
Past == At({"disposed", "running", "sending", "ran", "built"})

\* Handlers that were called, or will be, and have yet to take a chain.
ComingCount == Cardinality(At({"fired"})) + Cardinality(due)

\* The next of them takes the field's chain, or finds the field null.
Covered == timer = Null \/ (~spent /\ \E p \in subs : p[1] = timer)

\* Chains that they can still add: each that disposes a timer nobody waits for adds one.
Credit == IF ComingCount = 0 THEN 0 ELSE IF Covered THEN ComingCount - 1 ELSE ComingCount

Paid == Cardinality(Live) + Cardinality(Past) + Credit <= 1 + late

USE TimersAssumption, ThreadsAssumption, MaxLateAssumption

-----------------------------------------------------------------------------
(***************************************************************************)
(* The chain as long as no event was late.                                 *)
(***************************************************************************)

\* Before StartAsync there is no timer and no handler.
LEMMA InitChain == Init => ChainInv
<1>0. 0 \in 0 .. MaxLate
  OBVIOUS
<1>1. Init => TypeOK
  BY <1>0 DEF Init, TypeOK, Subscribers
<1>2. Init => Baton /\ Field /\ Phases
  BY DEF Init, Baton, Field, Phases, CrashHasACause, StillScheduled, Busy
<1> QED  BY <1>1, <1>2 DEF ChainInv

\* The subscribers of an event but the first are finitely many, and so are the handlers
\* it leaves due; there is none only if the count is zero.
LEMMA OthersCounted ==
    ASSUME NEW t \in Threads, NEW k, NEW s
    PROVE  LET others == {t} \X (Handlers(k) \ {s}) IN
           /\ IsFiniteSet(others) /\ Cardinality(others) \in Nat
           /\ Cardinality(others) = 0 => others = {}
<1> DEFINE others == {t} \X (Handlers(k) \ {s})
<1>1. IsFiniteSet(Subscribers)
  BY FS_AddElement DEF Subscribers
<1>2. IsFiniteSet({t}) /\ IsFiniteSet(Handlers(k) \ {s})
  BY <1>1, FS_Subset, FS_Singleton DEF Handlers
<1>3. IsFiniteSet(others)
  BY <1>2, FS_Product
<1> QED  BY <1>3, FS_CardinalityType, FS_EmptySet

\* A handler that gives its thread back goes on as itself unless another is due there.
LEMMA GoOn ==
    ASSUME TypeOK, NEW t \in Threads, NEW u \in Threads, NEW place, GoOnAs(t, u, place),
           place \in {"sending", "ran"}, pc[t] \in {"disposed", "running"}
    PROVE  /\ pc' \in [Threads -> {"free", "fired", "disposed", "running", "sending", "ran",
                                   "built", "subscribed"}]
           /\ due' \subseteq due
           /\ due = {} => u = t
           /\ u = t => due' = due /\ pc' = [pc EXCEPT ![t] = place]
                       /\ \A s \in Subscribers : <<t, s>> \notin due
           /\ u # t => pc[u] = "free" /\ pc' = [pc EXCEPT ![t] = "fired", ![u] = place]
                       /\ \E s \in Subscribers : <<t, s>> \in due /\ due' = due \ {<<t, s>>}
BY DEF GoOnAs, TypeOK

-----------------------------------------------------------------------------
\* The steps of the host.
LEMMA HostChain ==
    ASSUME ChainInv,
           StartAsync \/ StartAsyncThrows \/ StartupEnds \/ StartupCancelled \/ StopAsync \/ Exit
    PROVE  ChainInv'
<1> USE DEF ChainInv, TypeOK, Baton, Field, Phases, CrashHasACause, StillScheduled, Busy,
            Subscribers, hostVars, timerVars, ThrowFromTimer, ProcessEnds, Gone
<1>1. CASE StartAsync
  BY <1>1 DEF StartAsync
<1>2. CASE StartAsyncThrows
  BY <1>2 DEF StartAsyncThrows
<1>3. CASE StartupEnds
  BY <1>3 DEF StartupEnds
<1>4. CASE StartupCancelled
  BY <1>4 DEF StartupCancelled
<1>5. CASE StopAsync
  BY <1>5 DEF StopAsync
<1>6. CASE Exit
  BY <1>6 DEF Exit
<1> QED  BY <1>1, <1>2, <1>3, <1>4, <1>5, <1>6

\* An event.
LEMMA FireChain ==
    ASSUME ChainInv, NEW t \in Threads, NEW k \in Timers, Fire(t, k)
    PROVE  ChainInv'
<1> USE DEF Fire, hostVars, timerVars
<1>1. PICK s \in Handlers(k) :
         LET others == {t} \X (Handlers(k) \ {s}) IN
         /\ due' = due \cup others
         /\ Late(Cardinality(others) + IF AtField = {} /\ due = {} THEN 0 ELSE 1)
  OBVIOUS
<1> DEFINE others == {t} \X (Handlers(k) \ {s})
<1>2. Cardinality(others) \in Nat /\ (Cardinality(others) = 0 => others = {})
  BY OthersCounted
<1>3. late \in Nat /\ late' \in 0 .. MaxLate /\ late' >= late
  BY <1>1, <1>2 DEF Late, ChainInv, TypeOK
<1>4. late' = 0 => late = 0 /\ AtField = {} /\ due = {} /\ due' = {}
  <2>1. Cardinality(others) + (IF AtField = {} /\ due = {} THEN 0 ELSE 1) = late' - late
    BY <1>1, <1>2, <1>3 DEF Late
  <2>2. late' = 0 => late = 0 /\ Cardinality(others) = 0 /\ AtField = {} /\ due = {}
    BY <2>1, <1>2, <1>3
  <2> QED  BY <2>2, <1>1, <1>2
<1>5. others \subseteq Threads \X Subscribers
  BY DEF Handlers
<1>6. TypeOK'
  BY <1>1, <1>3, <1>5 DEF ChainInv, TypeOK
<1>7. Baton'
  BY <1>4 DEF ChainInv, TypeOK, Baton, AtField, At
<1>8. Field'
  <2>1. \A p \in others : p[1] = t
    OBVIOUS
  <2> QED  BY <1>1, <2>1 DEF ChainInv, TypeOK, Field
<1>9. Phases'
  BY <1>3 DEF ChainInv, TypeOK, Phases, Up, CrashHasACause, StillScheduled, Busy
<1> QED  BY <1>6, <1>7, <1>8, <1>9 DEF ChainInv

\* The steps that may give a thread back.
LEMMA GoOnChain ==
    ASSUME ChainInv, NEW t \in Threads, ResetTimer(t) \/ UseScope(t)
    PROVE  ChainInv'
<1> USE DEF ChainInv, TypeOK, Baton, Field, Phases, CrashHasACause, StillScheduled, Busy, Up,
            Subscribers, hostVars, timerVars
<1>1. CASE ResetTimer(t) /\ pc' = [pc EXCEPT ![t] = "running"] /\ due' = due
  BY <1>1 DEF ResetTimer
<1>2. ASSUME ResetTimer(t), cancelled, NEW u \in Threads, GoOnAs(t, u, "ran") PROVE ChainInv'
  <2>1. pc[t] = "disposed"
    BY <1>2 DEF ResetTimer
  <2>2. CASE u = t
    <3>1. TypeOK'
      BY <1>2, <2>1, <2>2, GoOn DEF ResetTimer
    <3>2. Baton'
      BY <1>2, <2>1, <2>2, GoOn DEF ResetTimer
    <3>3. Field'
      BY <1>2, <2>1, <2>2, GoOn DEF ResetTimer
    <3>4. Phases'
      BY <1>2, <2>1, <2>2, GoOn DEF ResetTimer
    <3> QED  BY <3>1, <3>2, <3>3, <3>4
  <2>3. CASE u # t
    <3>1. TypeOK'
      BY <1>2, <2>1, <2>3, GoOn DEF ResetTimer
    <3>2. Baton'
      BY <1>2, <2>1, <2>3, GoOn DEF ResetTimer
    <3>3. Field'
      BY <1>2, <2>1, <2>3, GoOn DEF ResetTimer
    <3>4. Phases'
      BY <1>2, <2>1, <2>3, GoOn DEF ResetTimer
    <3> QED  BY <3>1, <3>2, <3>3, <3>4
  <2> QED  BY <2>2, <2>3
<1>3. ASSUME UseScope(t), NEW u \in Threads, GoOnAs(t, u, "sending"), mediator' = u PROVE ChainInv'
  <2>1. pc[t] = "running"
    BY <1>3 DEF UseScope
  <2>2. CASE u = t
    BY <1>3, <2>1, <2>2, GoOn DEF UseScope
  <2>3. CASE u # t
    BY <1>3, <2>1, <2>3, GoOn DEF UseScope
  <2> QED  BY <2>2, <2>3
<1> QED  BY <1>1, <1>2, <1>3 DEF ResetTimer, UseScope

\* The other steps of a handler.
LEMMA HandlerChain ==
    ASSUME ChainInv, NEW t \in Threads,
           \/ DisposeTimer(t) \/ MeetNull(t) \/ TaskEnds(t) \/ EndCancelled(t) \/ BuildTimer(t)
           \/ Subscribe(t) \/ StartTimer(t) \/ StartDisposed(t) \/ BuildTimerThrows(t)
    PROVE  ChainInv'
<1> USE DEF ChainInv, TypeOK, Baton, Field, Phases, CrashHasACause, StillScheduled, Busy, Up,
            Subscribers, hostVars, timerVars, ThrowFromTimer, ProcessEnds, Gone
<1>1. CASE DisposeTimer(t)
  BY <1>1 DEF DisposeTimer
<1>2. CASE MeetNull(t)
  <2>1. late > 0
    BY <1>2 DEF MeetNull
  <2>2. TypeOK'
    BY <1>2 DEF MeetNull
  <2>3. Baton' /\ Field' /\ Phases'
    BY <1>2, <2>1 DEF MeetNull
  <2> QED  BY <2>2, <2>3
<1>3. CASE TaskEnds(t)
  BY <1>3 DEF TaskEnds
<1>4. CASE EndCancelled(t)
  BY <1>4 DEF EndCancelled
<1>5. CASE BuildTimer(t)
  <2>1. late \in Nat /\ late' \in 0 .. MaxLate /\ late' >= late
    BY <1>5 DEF BuildTimer, Late
  <2>2. TypeOK'
    BY <1>5, <2>1 DEF BuildTimer, NewTimers
  <2>3. Baton'
    BY <1>5, <2>1 DEF BuildTimer, NewTimers
  <2>4. Field'
    BY <1>5 DEF BuildTimer, NewTimers
  <2>5. Phases'
    BY <1>5, <2>1 DEF BuildTimer, NewTimers
  <2> QED  BY <2>2, <2>3, <2>4, <2>5
<1>6. CASE Subscribe(t)
  <2>1. TypeOK'
    BY <1>6 DEF Subscribe
  <2>2. Baton'
    BY <1>6 DEF Subscribe
  <2>3. <<timer, t>> \in subs' /\ <<timer, t>>[1] = timer'
    BY <1>6 DEF Subscribe
  <2>4. Field'
    BY <1>6, <2>3 DEF Subscribe
  <2>5. Phases'
    BY <1>6 DEF Subscribe
  <2> QED  BY <2>1, <2>2, <2>4, <2>5
<1>7. CASE StartTimer(t)
  BY <1>7 DEF StartTimer
<1>8. CASE StartDisposed(t)
  <2>1. late > 0
    BY <1>8 DEF StartDisposed
  <2>2. TypeOK'
    BY <1>8 DEF StartDisposed
  <2>3. Baton' /\ Field' /\ Phases'
    BY <1>8, <2>1 DEF StartDisposed
  <2> QED  BY <2>2, <2>3
<1>9. CASE BuildTimerThrows(t)
  BY <1>9 DEF BuildTimerThrows
<1> QED  BY <1>1, <1>2, <1>3, <1>4, <1>5, <1>6, <1>7, <1>8, <1>9

\* The invariant is inductive.
LEMMA NextChain == ChainInv /\ [Next]_vars => ChainInv'
<1> SUFFICES ASSUME ChainInv, [Next]_vars PROVE ChainInv'
  OBVIOUS
<1>1. CASE UNCHANGED vars
  BY <1>1 DEF vars, hostVars, timerVars, ChainInv, TypeOK, Baton, Field, Phases,
              CrashHasACause, StillScheduled, Busy
<1>2. CASE Next
  BY <1>2, HostChain, FireChain, GoOnChain, HandlerChain DEF Next, Handle
<1> QED  BY <1>1, <1>2

\* It holds in every reachable state.
LEMMA AlwaysChain == Spec => []ChainInv
BY InitChain, NextChain, PTL DEF Spec

-----------------------------------------------------------------------------
(***************************************************************************)
(* Counting chains when events are late.                                   *)
(***************************************************************************)

\* The handlers at a place can be counted.
LEMMA AtFinite ==
    ASSUME NEW S
    PROVE  IsFiniteSet(At(S)) /\ Cardinality(At(S)) \in Nat /\ ((Cardinality(At(S)) = 0) <=> (At(S) = {}))
<1>1. IsFiniteSet(At(S))
  BY FS_Subset DEF At
<1> QED  BY <1>1, FS_CardinalityType, FS_EmptySet

\* How many handlers stand at a place after one of them has moved.
LEMMA Move ==
    ASSUME TypeOK, NEW S, NEW t \in Threads, NEW place, pc' = [pc EXCEPT ![t] = place]
    PROVE  /\ place \in S /\ pc[t] \notin S => Cardinality(At(S)') = Cardinality(At(S)) + 1
           /\ place \notin S /\ pc[t] \in S => Cardinality(At(S)') = Cardinality(At(S)) - 1
           /\ (place \in S <=> pc[t] \in S) => At(S)' = At(S)
<1>0. IsFiniteSet(At(S))
  BY AtFinite
<1>1. ASSUME place \in S, pc[t] \notin S PROVE Cardinality(At(S)') = Cardinality(At(S)) + 1
  <2>1. At(S)' = At(S) \cup {t} /\ t \notin At(S)
    BY <1>1 DEF At, TypeOK
  <2> QED  BY <2>1, <1>0, FS_AddElement
<1>2. ASSUME place \notin S, pc[t] \in S PROVE Cardinality(At(S)') = Cardinality(At(S)) - 1
  <2>1. At(S)' = At(S) \ {t} /\ t \in At(S)
    BY <1>2 DEF At, TypeOK
  <2> QED  BY <2>1, <1>0, FS_RemoveElement
<1>3. ASSUME place \in S <=> pc[t] \in S PROVE At(S)' = At(S)
  BY <1>3 DEF At, TypeOK
<1> QED  BY <1>1, <1>2, <1>3

\* Subscriptions and calls that are due can be counted.
LEMMA PairsFinite ==
    ASSUME TypeOK
    PROVE  /\ IsFiniteSet(subs) /\ IsFiniteSet(Live) /\ IsFiniteSet(due)
           /\ Cardinality(Live) \in Nat /\ Cardinality(due) \in Nat
           /\ (Cardinality(due) = 0) <=> (due = {})
<1>1. IsFiniteSet(Subscribers)
  BY FS_AddElement DEF Subscribers
<1>2. IsFiniteSet(Timers \X Subscribers) /\ IsFiniteSet(Threads \X Subscribers)
  BY <1>1, FS_Product
<1>3. IsFiniteSet(subs) /\ IsFiniteSet(due)
  BY <1>2, FS_Subset DEF TypeOK
<1>4. IsFiniteSet(Live)
  BY <1>3, FS_Subset DEF Live
<1> QED  BY <1>3, <1>4, FS_CardinalityType, FS_EmptySet

\* A chain that is lost is one less to count.
LEMMA FewerLive ==
    ASSUME TypeOK, Live' \subseteq Live
    PROVE  /\ Cardinality(Live') \in Nat
           /\ Cardinality(Live') <= Cardinality(Live)
           /\ Live' # Live => Cardinality(Live') < Cardinality(Live)
<1>1. IsFiniteSet(Live)
  BY PairsFinite
<1> QED  BY <1>1, FS_Subset, FS_CardinalityType

\* The counts a step works with.
LEMMA Counts ==
    ASSUME TypeOK
    PROVE  /\ Cardinality(Live) \in Nat
           /\ Cardinality(Past) \in Nat
           /\ ComingCount \in Nat
           /\ (ComingCount = 0) <=> (At({"fired"}) = {} /\ due = {})
           /\ late \in Nat
BY AtFinite, PairsFinite DEF TypeOK, Past, ComingCount

\* Giving a thread back moves a handler from what is due to what was called, and the
\* chain to another thread.
LEMMA GoOnCounts ==
    ASSUME ChainInv, NEW t \in Threads, NEW u \in Threads, NEW place, GoOnAs(t, u, place),
           place \in {"sending", "ran"}, pc[t] \in {"disposed", "running"}
    PROVE  Cardinality(Past') = Cardinality(Past) /\ ComingCount' = ComingCount
<1>0. TypeOK
  BY DEF ChainInv
<1>1. CASE u = t
  <2>1. due' = due /\ pc' = [pc EXCEPT ![t] = place]
    BY <1>0, <1>1, GoOn
  <2>2. At({"fired"})' = At({"fired"})
    BY <1>0, <2>1 DEF At, TypeOK
  <2>3. Past' = Past
    BY <1>0, <2>1 DEF At, Past, TypeOK
  <2> QED  BY <2>1, <2>2, <2>3 DEF ComingCount
<1>2. CASE u # t
  <2>1. PICK s \in Subscribers : <<t, s>> \in due /\ due' = due \ {<<t, s>>}
    BY <1>0, <1>2, GoOn
  <2>2. pc[u] = "free" /\ pc' = [pc EXCEPT ![t] = "fired", ![u] = place]
    BY <1>0, <1>2, GoOn
  <2>3. Cardinality(due') = Cardinality(due) - 1 /\ Cardinality(due) \in Nat
    BY <1>0, <2>1, PairsFinite, FS_RemoveElement
  <2>4. At({"fired"})' = At({"fired"}) \cup {t} /\ t \notin At({"fired"})
    BY <1>0, <1>2, <2>2 DEF At, TypeOK
  <2>5. Cardinality(At({"fired"})') = Cardinality(At({"fired"})) + 1
        /\ Cardinality(At({"fired"})) \in Nat
    BY <2>4, AtFinite, FS_AddElement
  <2>6. Past' = (Past \ {t}) \cup {u} /\ t \in Past /\ u \notin Past \ {t}
    BY <1>0, <1>2, <2>2 DEF At, Past, TypeOK
  <2>7. IsFiniteSet(Past) /\ Cardinality(Past) \in Nat
    BY AtFinite DEF Past
  <2>8. IsFiniteSet(Past \ {t}) /\ Cardinality(Past \ {t}) = Cardinality(Past) - 1
    BY <2>6, <2>7, FS_RemoveElement
  <2>9. Cardinality(Past') = Cardinality(Past)
    <3> DEFINE rest == Past \ {t}
    <3>1. Cardinality(rest \cup {u}) = Cardinality(rest) + 1
      BY <2>6, <2>8, FS_AddElement
    <3> QED  BY <2>6, <2>7, <2>8, <3>1
  <2> QED  BY <2>3, <2>5, <2>9 DEF ComingCount
<1> QED  BY <1>1, <1>2

\* A process that has ended holds no chain.
LEMMA NoChains ==
    ASSUME Gone, late' = late, late \in Nat
    PROVE  Paid'
<1>1. At({"fired"})' = {} /\ Past' = {} /\ Live' = {} /\ due' = {}
  BY DEF At, Past, Live, Gone
<1>2. Cardinality({}) = 0
  BY FS_EmptySet
<1>3. ComingCount' = 0
  BY <1>1, <1>2 DEF ComingCount
<1>4. Credit' = 0
  BY <1>3 DEF Credit
<1> QED  BY <1>1, <1>2, <1>4 DEF Paid

-----------------------------------------------------------------------------
\* Every step of the host keeps the account.
LEMMA HostPaid ==
    ASSUME ChainInv, Paid,
           StartAsync \/ StartAsyncThrows \/ StartupEnds \/ StartupCancelled \/ StopAsync \/ Exit
    PROVE  Paid'
<1> USE DEF hostVars, timerVars
<1>0. TypeOK /\ late \in Nat
  BY DEF ChainInv, TypeOK
<1>1. CASE StartAsync
  <2>1. Busy = {} /\ due = {}
    BY <1>1 DEF StartAsync, ChainInv, Phases
  <2>2. At({"fired"})' = {} /\ Past' = {} /\ due' = {} /\ late' = late
    BY <2>1, <1>1 DEF StartAsync, At, Past, Busy
  <2>3. PICK k \in Timers : subs' = {<<k, Null>>}
    BY <1>1 DEF StartAsync
  <2>4. Live' \subseteq {<<k, Null>>}
    BY <2>3 DEF Live
  <2>5. Cardinality(Live') \in Nat /\ Cardinality(Live') <= 1
    <3>1. IsFiniteSet({<<k, Null>>}) /\ Cardinality({<<k, Null>>}) = 1
      BY FS_Singleton
    <3>2. IsFiniteSet(Live') /\ Cardinality(Live') <= 1
      BY <2>4, <3>1, FS_Subset
    <3> QED  BY <3>2, FS_CardinalityType
  <2>6. ComingCount' = 0
    BY <2>2, FS_EmptySet DEF ComingCount
  <2>7. Credit' = 0
    BY <2>6 DEF Credit
  <2> QED  BY <2>2, <2>5, <2>7, <1>0, FS_EmptySet DEF Paid
<1>2. CASE StartAsyncThrows \/ Exit
  BY <1>2, <1>0, NoChains DEF StartAsyncThrows, ThrowFromTimer, ProcessEnds, Exit
<1>3. CASE StartupEnds \/ StartupCancelled
  <2>1. UNCHANGED <<timer, spent, subs, armed, pc, due, late>>
    BY <1>3 DEF StartupEnds, StartupCancelled
  <2> QED  BY <2>1 DEF Paid, Live, Past, Credit, Covered, ComingCount, At
<1>4. CASE StopAsync
  <2>1. UNCHANGED <<timer, spent, subs, pc, due, late>> /\ armed' = armed \ {timer}
    BY <1>4 DEF StopAsync
  <2>2. UNCHANGED <<Past, Credit>>
    BY <2>1 DEF Past, Credit, Covered, ComingCount, At
  <2>3. Live' \subseteq Live
    BY <2>1 DEF Live
  <2>4. Credit \in Int
    BY <1>0, Counts DEF Credit
  <2> QED  BY <2>1, <2>2, <2>3, <2>4, <1>0, FewerLive, Counts DEF Paid
<1> QED  BY <1>1, <1>2, <1>3, <1>4

\* An event that comes while a handler is at the field, and each of its handlers but
\* the first, is paid for.
LEMMA FirePaid ==
    ASSUME ChainInv, Paid, NEW t \in Threads, NEW k \in Timers, Fire(t, k)
    PROVE  Paid'
<1> USE DEF Fire, hostVars, timerVars
<1>0. TypeOK /\ late \in Nat
  BY DEF ChainInv, TypeOK
<1>1. PICK s \in Handlers(k) :
         LET others == {t} \X (Handlers(k) \ {s}) IN
         /\ due' = due \cup others
         /\ Late(Cardinality(others) + IF AtField = {} /\ due = {} THEN 0 ELSE 1)
  OBVIOUS
<1> DEFINE others == {t} \X (Handlers(k) \ {s})
<1>2. IsFiniteSet(others) /\ Cardinality(others) \in Nat
  BY OthersCounted
<1>3. UNCHANGED <<Past, Live, Covered>>
  BY <1>0 DEF Past, Live, Covered, At, TypeOK
<1>4. Cardinality(due') = Cardinality(due) + Cardinality(others)
  <2>1. due \cap others = {}
    BY <1>0 DEF ChainInv, Field, TypeOK
  <2>2. Cardinality(due \cap others) = 0
    BY <2>1, FS_EmptySet
  <2>3. IsFiniteSet(due) /\ Cardinality(due) \in Nat
    BY <1>0, PairsFinite
  <2> HIDE DEF others
  <2>4. Cardinality(due \cup others)
           = Cardinality(due) + Cardinality(others) - Cardinality(due \cap others)
    BY <1>2, <2>3, FS_Union
  <2>5. due' = due \cup others
    BY <1>1 DEF others
  <2>6. Cardinality(due') = Cardinality(due \cup others)
    BY <2>5, Zenon
  <2>7. Cardinality(others) \in Nat /\ Cardinality(due \cap others) = 0
    BY <1>2, <2>2 DEF others
  <2> HIDE DEF Fire
  <2> QED  BY <2>3, <2>4, <2>6, <2>7
<1>5. Cardinality(At({"fired"})') = Cardinality(At({"fired"})) + 1
  <2>1. pc' = [pc EXCEPT ![t] = "fired"] /\ pc[t] \notin {"fired"}
    OBVIOUS
  <2> QED  BY <2>1, <1>0, Move
<1>6. ComingCount' = ComingCount + 1 + Cardinality(others)
  BY <1>0, <1>2, <1>4, <1>5, PairsFinite, AtFinite DEF ComingCount
<1>7. late' = late + Cardinality(others) + IF AtField = {} /\ due = {} THEN 0 ELSE 1
  BY <1>0, <1>1, <1>2 DEF Late
<1>8. CASE AtField = {} /\ due = {}
  <2>1. ComingCount = 0
    BY <1>0, <1>8, Counts DEF AtField, At
  <2>2. Covered
    BY <1>8 DEF Covered, ChainInv, Field, AtField, At
  <2>3. Credit = 0 /\ Credit' = Cardinality(others)
    BY <2>1, <2>2, <1>2, <1>3, <1>6 DEF Credit
  <2> QED  BY <1>0, <1>2, <1>3, <1>7, <1>8, <2>3, Counts DEF Paid
<1>9. CASE ~(AtField = {} /\ due = {})
  <2>1. Credit \in Int /\ Credit' \in Int /\ Credit' <= Credit + 1 + Cardinality(others)
    BY <1>0, <1>2, <1>3, <1>6, Counts DEF Credit
  <2> QED  BY <1>0, <1>2, <1>3, <1>7, <1>9, <2>1, Counts DEF Paid
<1> QED  BY <1>8, <1>9

\* The steps that take a chain from a timer and carry it to the next keep the account.
LEMMA HandlerPaid ==
    ASSUME ChainInv, Paid, NEW t \in Threads, Handle(t) \/ BuildTimerThrows(t)
    PROVE  Paid'
<1> USE DEF hostVars, timerVars
<1>0. TypeOK /\ late \in Nat
  BY DEF ChainInv, TypeOK
<1> DEFINE past == Cardinality(Past)
<1> DEFINE live == Cardinality(Live)
<1>a. live \in Nat /\ past \in Nat /\ ComingCount \in Nat
  BY <1>0, Counts
<1>1. CASE DisposeTimer(t)
  <2>0. /\ pc' = [pc EXCEPT ![t] = "disposed"] /\ pc[t] = "fired" /\ timer # Null
        /\ armed' = armed \ {timer} /\ spent' = TRUE
        /\ UNCHANGED <<timer, subs, due, late>>
    BY <1>1 DEF DisposeTimer
  <2>1. past' = past + 1
    <3>1. pc[t] \notin {"disposed", "running", "sending", "ran", "built"}
      BY <2>0
    <3> QED  BY <1>0, <2>0, <3>1, Move DEF Past
  <2>2. ComingCount' = ComingCount - 1 /\ ComingCount >= 1
    <3>1. "disposed" \notin {"fired"} /\ pc[t] \in {"fired"}
      BY <2>0
    <3>2. Cardinality(At({"fired"})') = Cardinality(At({"fired"})) - 1
      BY <1>0, <2>0, <3>1, Move
    <3>3. At({"fired"}) # {}
      BY <2>0 DEF At
    <3> QED  BY <1>0, <2>0, <3>2, <3>3, AtFinite, PairsFinite DEF ComingCount
  <2>3. Live' \subseteq Live
    BY <2>0 DEF Live
  <2>4. Credit' = ComingCount - 1
    BY <2>0, <2>2, <1>a DEF Credit, Covered
  <2>5. CASE Covered
    <3>1. PICK p \in subs : p[1] = timer /\ ~spent
      BY <2>0, <2>5 DEF Covered
    <3>2. p \in Live /\ p \notin Live'
      BY <2>0, <3>1 DEF Live
    <3>3. live' < live /\ live' \in Nat
      BY <1>0, <2>3, <3>2, FewerLive
    <3>4. Credit = ComingCount - 1
      BY <2>2, <2>5, <1>a DEF Credit
    <3> QED  BY <1>0, <1>a, <2>0, <2>1, <2>4, <3>3, <3>4 DEF Paid
  <2>6. CASE ~Covered
    <3>1. live' <= live /\ live' \in Nat
      BY <1>0, <2>3, FewerLive
    <3>2. Credit = ComingCount
      BY <2>2, <2>6, <1>a DEF Credit
    <3> QED  BY <1>0, <1>a, <2>0, <2>1, <2>4, <3>1, <3>2 DEF Paid
  <2> QED  BY <2>5, <2>6
<1>2. CASE MeetNull(t) \/ StartDisposed(t) \/ BuildTimerThrows(t)
  BY <1>2, <1>0, NoChains DEF MeetNull, StartDisposed, BuildTimerThrows, ThrowFromTimer, ProcessEnds
<1>3. CASE ResetTimer(t)
  <2>0. pc[t] = "disposed" /\ timer' = Null /\ UNCHANGED <<armed, subs, late>>
    BY <1>3 DEF ResetTimer
  <2>1. past' = past /\ ComingCount' = ComingCount
    <3>1. CASE pc' = [pc EXCEPT ![t] = "running"] /\ due' = due
      BY <1>0, <2>0, <3>1 DEF Past, ComingCount, At, TypeOK
    <3>2. CASE \E u \in Threads : GoOnAs(t, u, "ran")
      BY <2>0, <3>2, GoOnCounts
    <3> QED  BY <1>3, <3>1, <3>2 DEF ResetTimer
  <2>2. Live' \subseteq Live
    BY <2>0, <1>0 DEF Live, TypeOK
  <2>3. live' <= live /\ live' \in Nat
    BY <1>0, <2>2, FewerLive
  <2>4. Credit' <= Credit /\ Credit' \in Int /\ Credit \in Int
    BY <2>0, <2>1, <1>a DEF Credit, Covered
  <2> QED  BY <1>0, <1>a, <2>0, <2>1, <2>3, <2>4 DEF Paid
<1>4. CASE UseScope(t)
  <2>0. pc[t] = "running" /\ UNCHANGED <<timer, spent, armed, subs, late>>
    BY <1>4 DEF UseScope
  <2>1. past' = past /\ ComingCount' = ComingCount
    BY <1>4, <2>0, GoOnCounts DEF UseScope
  <2>2. UNCHANGED <<Live, Covered>>
    BY <2>0 DEF Live, Covered
  <2> QED  BY <2>0, <2>1, <2>2 DEF Paid, Credit
<1>5. CASE TaskEnds(t)
  <2>1. UNCHANGED <<Live, Covered, Past, ComingCount, late>>
    BY <1>0, <1>5 DEF TaskEnds, Live, Covered, Past, ComingCount, At, TypeOK
  <2> QED  BY <2>1 DEF Paid, Credit
<1>6. CASE EndCancelled(t)
  <2>1. UNCHANGED <<Live, Covered, ComingCount, late>>
    BY <1>0, <1>6 DEF EndCancelled, Live, Covered, ComingCount, At, TypeOK
  <2>2. past' = past - 1
    <3>1. /\ pc' = [pc EXCEPT ![t] = "free"]
          /\ pc[t] \in {"disposed", "running", "sending", "ran", "built"}
          /\ "free" \notin {"disposed", "running", "sending", "ran", "built"}
      BY <1>6 DEF EndCancelled
    <3> QED  BY <1>0, <3>1, Move DEF Past
  <2>3. Credit \in Int
    BY <1>a DEF Credit
  <2> QED  BY <1>0, <1>a, <2>1, <2>2, <2>3 DEF Paid, Credit
<1>7. CASE BuildTimer(t)
  <2>0. PICK k \in NewTimers : timer' = k /\ subs' = {p \in subs : p[1] # k}
    BY <1>7 DEF BuildTimer
  <2>1. UNCHANGED <<armed, due, Past, ComingCount>>
    BY <1>0, <1>7 DEF BuildTimer, Past, ComingCount, At, TypeOK
  <2>2. Live' \subseteq Live
    BY <2>0, <2>1 DEF Live
  <2>3. live' <= live /\ live' \in Nat
    BY <1>0, <2>2, FewerLive
  <2>4. late' = late + IF ComingCount = 0 THEN 0 ELSE 1
    BY <1>0, <1>7, Counts DEF BuildTimer, Late, Coming
  <2>5. Credit \in Int /\ Credit' \in Int
        /\ Credit' <= Credit + IF ComingCount = 0 THEN 0 ELSE 1
    BY <1>a, <2>1 DEF Credit
  <2> QED  BY <1>0, <1>a, <2>1, <2>3, <2>4, <2>5 DEF Paid
<1>8. CASE Subscribe(t)
  <2>0. subs' = subs \cup {<<timer, t>>} /\ UNCHANGED <<timer, spent, armed, due, late>>
    BY <1>8 DEF Subscribe
  <2>1. UNCHANGED ComingCount
    BY <1>0, <1>8 DEF Subscribe, ComingCount, At, TypeOK
  <2>2. past' = past - 1
    <3>1. /\ pc' = [pc EXCEPT ![t] = "subscribed"]
          /\ pc[t] \in {"disposed", "running", "sending", "ran", "built"}
          /\ "subscribed" \notin {"disposed", "running", "sending", "ran", "built"}
      BY <1>8 DEF Subscribe
    <3> QED  BY <1>0, <3>1, Move DEF Past
  <2>3. live' \in Nat /\ live' <= live + 1
    <3>1. Live' \subseteq Live \cup {<<timer, t>>}
      BY <2>0 DEF Live
    <3> DEFINE more == Live \cup {<<timer, t>>}
    <3>2. IsFiniteSet(Live)
      BY <1>0, PairsFinite
    <3>3. /\ IsFiniteSet(more)
          /\ Cardinality(more) = Cardinality(Live) \/ Cardinality(more) = Cardinality(Live) + 1
      BY <3>2, FS_AddElement
    <3>4. /\ IsFiniteSet(Live') /\ Cardinality(Live') <= Cardinality(more)
      BY <3>1, <3>3, FS_Subset
    <3>5. Cardinality(Live') \in Nat
      BY <3>4, FS_CardinalityType
    <3> QED  BY <1>a, <3>3, <3>4, <3>5
  <2>4. Covered => Covered'
    BY <2>0 DEF Covered
  <2>5. Credit \in Int /\ Credit' \in Int /\ Credit' <= Credit
    BY <1>a, <2>1, <2>4 DEF Credit
  <2> QED  BY <1>0, <1>a, <2>0, <2>2, <2>3, <2>5 DEF Paid
<1>9. CASE StartTimer(t)
  <2>0. armed' = armed \cup {timer} /\ ~spent /\ UNCHANGED <<timer, spent, subs, due, late>>
    BY <1>9 DEF StartTimer
  <2>1. UNCHANGED <<Live, Covered>>
    BY <2>0 DEF Live, Covered
  <2>2. UNCHANGED <<Past, ComingCount>>
    BY <1>0, <1>9 DEF StartTimer, Past, ComingCount, At, TypeOK
  <2> QED  BY <2>0, <2>1, <2>2 DEF Paid, Credit
<1> QED  BY <1>1, <1>2, <1>3, <1>4, <1>5, <1>6, <1>7, <1>8, <1>9 DEF Handle

\* The account holds in every reachable state.
LEMMA AlwaysPaid == Spec => []Paid
<1>1. Init => Paid
  <2> SUFFICES ASSUME Init PROVE Paid
    OBVIOUS
  <2>1. At({"fired"}) = {} /\ Past = {} /\ Live = {} /\ due = {} /\ late = 0
    BY DEF Init, At, Past, Live
  <2>2. Cardinality({}) = 0
    BY FS_EmptySet
  <2>3. ComingCount = 0
    BY <2>1, <2>2 DEF ComingCount
  <2> QED  BY <2>1, <2>2, <2>3 DEF Paid, Credit
<1>2. ChainInv /\ Paid /\ [Next]_vars => Paid'
  <2> SUFFICES ASSUME ChainInv, Paid, [Next]_vars PROVE Paid'
    OBVIOUS
  <2>1. CASE UNCHANGED vars
    BY <2>1 DEF vars, hostVars, timerVars, Paid, Live, Past, Credit, Covered, ComingCount, At
  <2>2. CASE Next
    BY <2>2, HostPaid, FirePaid, HandlerPaid DEF Next
  <2> QED  BY <2>1, <2>2
<1> QED  BY <1>1, <1>2, AlwaysChain, PTL DEF Spec

-----------------------------------------------------------------------------
\* Every variable keeps its type.
THEOREM TypeCorrect == Spec => []TypeOK
<1>1. ChainInv => TypeOK
  BY DEF ChainInv
<1> QED  BY <1>1, AlwaysChain, PTL

\* Runs and handlers that an armed timer will call are at most one, and one more for
\* each handler that was late.
THEOREM LatenessPays == Spec => []RunsPayForLateness
<1>1. ChainInv /\ Paid => RunsPayForLateness
  <2> SUFFICES ASSUME TypeOK, Paid PROVE RunsPayForLateness
    BY DEF ChainInv
  <2>1. Credit \in Nat
    BY Counts DEF Credit
  <2>2. /\ Cardinality({p \in subs : p[1] \in armed}) \in Nat
        /\ Cardinality({p \in subs : p[1] \in armed}) <= Cardinality(Live)
    <3>1. {p \in subs : p[1] \in armed} \subseteq Live
      BY DEF Live
    <3> QED  BY <3>1, PairsFinite, FS_Subset, FS_CardinalityType
  <2> QED  BY <2>1, <2>2, Counts DEF Paid, Past, Chains, RunsPayForLateness
<1> QED  BY <1>1, AlwaysChain, AlwaysPaid, PTL

\* With no late handler the process does not end at a null field or a disposed timer,
\* whatever StopAsync and startup do meanwhile.
THEOREM CauseOfCrash == Spec => []CrashHasACause
<1>1. ChainInv => CrashHasACause
  BY DEF ChainInv, Phases
<1> QED  BY <1>1, AlwaysChain, PTL

\* The chain of runs is not lost while the host is up, late handlers or not.
THEOREM NeverForgotten == Spec => []StillScheduled
<1>1. ChainInv => StillScheduled
  BY DEF ChainInv, Phases
<1> QED  BY <1>1, AlwaysChain, PTL

\* With no late handler a run sends through the scope it opened, although the field
\* that holds its mediator belongs to the service.
THEOREM OwnScope == Spec => []SendsThroughOwnScope
<1>1. ChainInv => SendsThroughOwnScope
  BY DEF ChainInv, Baton, SendsThroughOwnScope
<1> QED  BY <1>1, AlwaysChain, PTL
=============================================================================

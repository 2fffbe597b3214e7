-------------------------- MODULE ScheduledService --------------------------
(***************************************************************************)
(* ScheduledBackgroundService: a hosted service that runs a task at each   *)
(* time of a cron schedule.  There is no loop: a System.Timers.Timer fires *)
(* an async-void handler on a pool thread, which disposes the timer, runs  *)
(* the task and builds the timer of the next run.  Handlers, StartAsync    *)
(* and StopAsync share the field _timer; runs share the field _mediator    *)
(* too, through which the task sends its commands.                         *)
(*                                                                         *)
(* The service registered with the host passes needLock = needLog = false. *)
(* What the task sends is left to ImportPipeline, and what two runs do to  *)
(* each other in one scope to CommandScope.                                *)
(***************************************************************************)
EXTENDS Integers, FiniteSets

CONSTANTS
    Threads,  \* activations of the Elapsed handler that can be going on at once
    Timers,   \* Timer objects; one that nothing refers to can be built again
    Null,     \* null; as a subscriber, StartAsync
    MaxLate   \* bound on the handlers that are late for another's use of the field

ASSUME TimersAssumption == Null \notin Timers /\ IsFiniteSet(Timers)
ASSUME ThreadsAssumption == Null \notin Threads /\ IsFiniteSet(Threads)
ASSUME MaxLateAssumption == MaxLate \in Nat

VARIABLES
    phase,      \* of the host
    cancelled,  \* the token StartAsync was given
    timer,      \* the field _timer
    spent,      \* the timer in the field is disposed
    armed,      \* timers that will fire; AutoReset leaves them armed when they do
    subs,       \* <<k, s>>: s has subscribed a handler to timer k
    mediator,   \* the field _mediator: whose scope it sends through
    pc,         \* pc[t]: where the handler on thread t stands
    due,        \* <<t, s>>: the handler of s is to be called after the one on t
    late,       \* history: handlers that came to the field, or were called for the same
                \* event, while another was to use it
    intervals   \* history: the signs of the intervals passed to new Timer

hostVars == <<phase, cancelled>>
timerVars == <<timer, spent, armed, subs, intervals>>
vars == <<hostVars, timerVars, mediator, pc, due, late>>

Subscribers == Threads \cup {Null}

TypeOK ==
    /\ phase \in {"built", "starting", "started", "stopping", "exited", "crashed"}
    /\ cancelled \in BOOLEAN
    /\ timer \in Timers \cup {Null}
    /\ spent \in BOOLEAN
    /\ armed \subseteq Timers
    /\ subs \subseteq Timers \X Subscribers
    /\ mediator \in Threads \cup {Null}
    /\ pc \in [Threads -> {"free", "fired", "disposed", "running", "sending", "ran",
                           "built", "subscribed"}]
    /\ due \subseteq Threads \X Subscribers
    /\ late \in 0 .. MaxLate
    /\ intervals \subseteq {"positive", "nonpositive"}

Init ==
    /\ phase = "built"
    /\ cancelled = FALSE
    /\ timer = Null /\ spent = FALSE /\ armed = {} /\ subs = {}
    /\ mediator = Null
    /\ pc = [t \in Threads |-> "free"] /\ due = {}
    /\ late = 0
    /\ intervals = {}

Up == phase \in {"starting", "started", "stopping"}

At(places) == {t \in Threads : pc[t] \in places}

Busy == {t \in Threads : pc[t] # "free"}

\* Handlers that are between two uses of the field.
AtField == At({"fired", "disposed", "built", "subscribed"})

\* Handlers that were called, or will be, and have not got to the field.
Coming == At({"fired"}) # {} \/ due # {}

\* Who has subscribed to a timer.
Handlers(k) == {s \in Subscribers : <<k, s>> \in subs}

NewTimers == Timers \ (armed \cup {timer})

\* The process is gone, or going.
Gone ==
    /\ timer' = Null /\ spent' = FALSE /\ armed' = {} /\ subs' = {}
    /\ mediator' = Null
    /\ pc' = [t \in Threads |-> "free"] /\ due' = {}

\* StartAsync has failed, or an async-void handler has thrown: the process ends.
ProcessEnds == phase' = "crashed" /\ Gone

\* ScheduleNextRun computes the delay as the next cron time less a second reading of
\* the clock, so it is not positive when the clock passes that time in between.  The
\* method calls itself then, and the inner call starts a timer; but it does not
\* return, and its own delay reaches the constructor, which throws.
ThrowFromTimer ==
    /\ ProcessEnds
    /\ intervals' = intervals \cup {"positive", "nonpositive"}

(***************************************************************************)
(* The host.                                                               *)
(***************************************************************************)

\* The first timer is built, subscribed to and started before there is a handler.
StartAsync ==
    /\ phase = "built"
    /\ \E k \in Timers : timer' = k /\ armed' = {k} /\ subs' = {<<k, Null>>}
    /\ intervals' = intervals \cup {"positive"}
    /\ phase' = "starting"
    /\ UNCHANGED <<cancelled, spent, mediator, pc, due, late>>

StartAsyncThrows ==
    /\ phase = "built"
    /\ ThrowFromTimer
    /\ UNCHANGED <<cancelled, late>>

\* The token is linked to the host's stop only until startup is over.
StartupEnds ==
    /\ phase = "starting"
    /\ phase' = "started"
    /\ UNCHANGED <<cancelled, timerVars, mediator, pc, due, late>>

StartupCancelled ==
    /\ phase = "starting"
    /\ phase' = "stopping"
    /\ cancelled' = TRUE
    /\ UNCHANGED <<timerVars, mediator, pc, due, late>>

\* Mutant of StopAsync: the field is reset once the timer is stopped.
StopAsyncResetting ==
    /\ phase = "started"
    /\ phase' = "stopping"
    /\ armed' = armed \ {timer}
    /\ timer' = Null /\ spent' = FALSE
    /\ UNCHANGED <<cancelled, subs, intervals, mediator, pc, due, late>>

\* Only a waiting timer can be stopped: during a run the field is null, and the
\* run goes on to schedule the next.
StopAsync ==
    /\ phase = "started"
    /\ phase' = "stopping"
    /\ armed' = armed \ {timer}
    /\ UNCHANGED <<cancelled, timer, spent, subs, intervals, mediator, pc, due, late>>

Exit ==
    /\ phase = "stopping"
    /\ phase' = "exited"
    /\ Gone
    /\ UNCHANGED <<cancelled, intervals, late>>

(***************************************************************************)
(* The Elapsed handler.                                                    *)
(***************************************************************************)

\* Handlers that are late may cost the chain of runs its shape; their number is bound.
Late(n) == late + n <= MaxLate /\ late' = late + n

\* An event gets past the timer's own check that it was not stopped, and the handlers
\* subscribed to it are called one after another.  The interval reaches to the next
\* cron time, which can be a millisecond away, and AutoReset raises the event at each
\* interval: the handler of an earlier event may still be short of resetting the field.
Fire(t, k) ==
    /\ Up
    /\ k \in armed
    /\ pc[t] = "free"
    /\ \E s \in Handlers(k) :
          LET others == {t} \X (Handlers(k) \ {s}) IN
            /\ due' = due \cup others
            /\ Late(Cardinality(others) + IF AtField = {} /\ due = {} THEN 0 ELSE 1)
    /\ pc' = [pc EXCEPT ![t] = "fired"]
    /\ UNCHANGED <<hostVars, timerVars, mediator>>

\* The handler disposes the timer in the field, which is not checked to be the one
\* that fired.
DisposeTimer(t) ==
    /\ Up
    /\ pc[t] = "fired"
    /\ timer # Null
    /\ armed' = armed \ {timer}
    /\ spent' = TRUE
    /\ pc' = [pc EXCEPT ![t] = "disposed"]
    /\ UNCHANGED <<hostVars, timer, subs, intervals, mediator, due, late>>

\* Another handler has reset the field: a NullReferenceException out of an async-void
\* handler, at Dispose, at the subscription or at Start.
MeetNull(t) ==
    /\ Up
    /\ pc[t] \in {"fired", "built", "subscribed"}
    /\ timer = Null
    /\ ProcessEnds
    /\ UNCHANGED <<cancelled, intervals, late>>

\* Another handler has disposed the timer, and Start refuses.
StartDisposed(t) ==
    /\ Up
    /\ pc[t] = "subscribed"
    /\ spent
    /\ ProcessEnds
    /\ UNCHANGED <<cancelled, intervals, late>>

\* At its first await, or at its end, the handler gives its thread back: the next
\* handler of the event is called there, and this one goes on as u.
GoOnAs(t, u, place) ==
    \/ /\ u = t
       /\ \A s \in Subscribers : <<t, s>> \notin due
       /\ pc' = [pc EXCEPT ![t] = place]
       /\ UNCHANGED due
    \/ /\ pc[u] = "free"
       /\ \E s \in Subscribers : <<t, s>> \in due /\ due' = due \ {<<t, s>>}
       /\ pc' = [pc EXCEPT ![t] = "fired", ![u] = place]

\* Mutant of ResetTimer: the next run is scheduled before the task starts.
ResetTimerAndSchedule(t) ==
    /\ Up
    /\ pc[t] = "disposed"
    /\ \E k \in NewTimers : timer' = k /\ armed' = armed \cup {k}
                            /\ subs' = {p \in subs : p[1] # k} \cup {<<k, t>>}
    /\ spent' = FALSE
    /\ pc' = [pc EXCEPT ![t] = "running"]
    /\ UNCHANGED <<hostVars, intervals, mediator, due, late>>

\* The field is reset, and the task starts unless the token is cancelled.
ResetTimer(t) ==
    /\ Up
    /\ pc[t] = "disposed"
    /\ timer' = Null /\ spent' = FALSE
    /\ \/ /\ ~cancelled
          /\ pc' = [pc EXCEPT ![t] = "running"]
          /\ UNCHANGED due
       \/ /\ cancelled
          /\ \E u \in Threads : GoOnAs(t, u, "ran")
    /\ UNCHANGED <<hostVars, armed, subs, intervals, mediator, late>>

\* Mutant of UseScope: the mediator of the first run is kept.
UseScopeOnce(t) ==
    /\ Up
    /\ pc[t] = "running"
    /\ \E u \in Threads : /\ GoOnAs(t, u, "sending")
                          /\ mediator' = IF mediator = Null THEN u ELSE mediator
    /\ UNCHANGED <<hostVars, timerVars, late>>

\* RunTask opens a scope and puts its mediator into the field, where a run that is
\* still going finds it at its next Send.
UseScope(t) ==
    /\ Up
    /\ pc[t] = "running"
    /\ \E u \in Threads : GoOnAs(t, u, "sending") /\ mediator' = u
    /\ UNCHANGED <<hostVars, timerVars, late>>

\* Mutant of TaskEnds: what the task throws escapes the handler, which ends there.
TaskEndsOrEscapes(t) ==
    /\ Up
    /\ pc[t] = "sending"
    /\ \E end \in {"ran", "escaped"} : pc' = [pc EXCEPT ![t] = end]
    /\ UNCHANGED <<hostVars, timerVars, mediator, due, late>>

\* The task ends, or throws and the exception is logged.
TaskEnds(t) ==
    /\ Up
    /\ pc[t] = "sending"
    /\ pc' = [pc EXCEPT ![t] = "ran"]
    /\ UNCHANGED <<hostVars, timerVars, mediator, due, late>>

\* The handler ends without a next run.
EndCancelled(t) ==
    /\ Up
    /\ pc[t] = "ran"
    /\ cancelled
    /\ pc' = [pc EXCEPT ![t] = "free"]
    /\ UNCHANGED <<hostVars, timerVars, mediator, due, late>>

(***************************************************************************)
(* ScheduleNextRun, called by a handler, uses the field three times: it    *)
(* assigns it, subscribes through it and starts what it holds.             *)
(***************************************************************************)
BuildTimer(t) ==
    /\ Up
    /\ pc[t] = "ran"
    /\ ~cancelled
    /\ \E k \in NewTimers : timer' = k /\ subs' = {p \in subs : p[1] # k}
    /\ spent' = FALSE
    /\ intervals' = intervals \cup {"positive"}
    /\ pc' = [pc EXCEPT ![t] = "built"]
    /\ Late(IF Coming THEN 1 ELSE 0)
    /\ UNCHANGED <<hostVars, armed, mediator, due>>

BuildTimerThrows(t) ==
    /\ Up
    /\ pc[t] = "ran"
    /\ ~cancelled
    /\ ThrowFromTimer
    /\ UNCHANGED <<cancelled, late>>

Subscribe(t) ==
    /\ Up
    /\ pc[t] = "built"
    /\ timer # Null
    /\ subs' = subs \cup {<<timer, t>>}
    /\ pc' = [pc EXCEPT ![t] = "subscribed"]
    /\ UNCHANGED <<hostVars, timer, spent, armed, intervals, mediator, due, late>>

\* Mutant of StartTimer: the next run is given up if the task has failed.
StartTimerOrNot(t) ==
    /\ Up
    /\ pc[t] = "subscribed"
    /\ timer # Null /\ ~spent
    /\ armed' \in {armed, armed \cup {timer}}
    /\ pc' = [pc EXCEPT ![t] = "free"]
    /\ UNCHANGED <<hostVars, timer, spent, subs, intervals, mediator, due, late>>

StartTimer(t) ==
    /\ Up
    /\ pc[t] = "subscribed"
    /\ timer # Null /\ ~spent
    /\ armed' = armed \cup {timer}
    /\ pc' = [pc EXCEPT ![t] = "free"]
    /\ UNCHANGED <<hostVars, timer, spent, subs, intervals, mediator, due, late>>

Handle(t) ==
    \/ DisposeTimer(t) \/ MeetNull(t) \/ ResetTimer(t) \/ UseScope(t) \/ TaskEnds(t)
    \/ EndCancelled(t) \/ BuildTimer(t) \/ Subscribe(t) \/ StartTimer(t) \/ StartDisposed(t)

Next ==
    \/ StartAsync \/ StartAsyncThrows \/ StartupEnds \/ StartupCancelled
    \/ StopAsync \/ Exit
    \/ \E t \in Threads :
          \/ \E k \in Timers : Fire(t, k)
          \/ Handle(t) \/ BuildTimerThrows(t)

Spec == Init /\ [][Next]_vars

\* Timers fire on some thread, pool threads run what they were given, and the task
\* ends: it has no loop of its own and its calls return or throw.
Fairness ==
    /\ WF_vars(StartupEnds)
    /\ WF_vars(\E t \in Threads, k \in Timers : Fire(t, k))
    /\ \A t \in Threads : WF_vars(Handle(t))

FairSpec == Spec /\ Fairness

-----------------------------------------------------------------------------
(***************************************************************************)
(* What must hold.                                                         *)
(***************************************************************************)

\* A run of the service, or a handler that an armed timer will call, exists once in a
\* process, and once more for each handler that came while another was using the
\* field.  ImportPipeline gives each host one run: this is what that takes.
Chains ==
    Cardinality({p \in subs : p[1] \in armed})
        + Cardinality(At({"disposed", "running", "sending", "ran", "built"}))

RunsPayForLateness == Chains <= 1 + late

\* Whatever StopAsync and the handler do to the field at the same time, a handler
\* meets null or a disposed timer, which ends the process, only after an event that
\* came while another handler was using the field.
CrashHasACause == phase = "crashed" => "nonpositive" \in intervals \/ late > 0

\* As long as nobody stops it, the service has a timer waiting that calls a handler, or
\* a handler going: no exception, no overlap with StopAsync or startup, and no handlers
\* that dispose, replace or start each other's timers end the chain and leave the
\* process up.
StillScheduled ==
    phase \in {"starting", "started"} => Busy # {} \/ \E p \in subs : p[1] \in armed

\* A run sends its commands through its own scope, whatever runs came before it.  Only
\* after a late event can two be going, and then the earlier one sends through the
\* scope of the later: CommandScope shows what becomes of its commands.
SendsThroughOwnScope ==
    late = 0 => \A t \in Threads : pc[t] = "sending" => mediator = t

\* The task runs again and again until the host stops or the process ends.  Nothing is
\* said once the bound on lateness is met, for then it is the bound that keeps the
\* events of a timer with two handlers away.
RunsAgain ==
    phase = "started"
        ~> (\E t \in Threads : pc[t] = "sending") \/ phase # "started" \/ late = MaxLate

\* "prevent non-positive values from being passed into Timer"
\* (ScheduledBackgroundService.cs:133).
OnlyPositiveIntervals == "nonpositive" \notin intervals
=============================================================================

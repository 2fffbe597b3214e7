---------------------------- MODULE CommandScope ----------------------------
(***************************************************************************)
(* One dependency-injection scope: an HTTP request, which sends one        *)
(* command, or a background run, which sends several in a row.  Whatever   *)
(* is sent in the scope shares one AIContext (its change tracker and its   *)
(* current transaction) and one CommandHelper (NeedCommitting).            *)
(*                                                                         *)
(* A scope has the sender that opened it.  It may have guests as well:     *)
(* runs of one background service reach their mediator through one field,  *)
(* RunTask of a later run assigns it, and the foreach of an earlier one    *)
(* that is still going reads it again at its next Send.  ScheduledService  *)
(* shows when that happens.                                                *)
(*                                                                         *)
(* TranasactionBehavior wraps every command: one that finds no current     *)
(* transaction begins one, runs its handler, dispatches domain events in   *)
(* rounds while NeedCommitting, and commits; one that finds a transaction  *)
(* only sets NeedCommitting and runs its handler.  What a handler does is  *)
(* left open: it changes entities, raises events, sends commands, throws.  *)
(***************************************************************************)
EXTENDS Integers, FiniteSets

CONSTANTS
    Owner,        \* the request or run that opened the scope
    Guests,       \* runs whose foreach sends through this scope though it is not theirs
    MaxCommands,  \* bound: commands sent one after another in the scope
    MaxDepth,     \* bound: commands nested in one another
    MaxWork,      \* bound: changes, events and nested commands in the scope
    Aggregates    \* aggregate roots that raise domain events

ASSUME BoundsAssumption ==
    MaxCommands \in Nat \ {0} /\ MaxDepth \in Nat /\ MaxWork \in Nat

ASSUME SendersAssumption == Owner \notin Guests

Senders == Guests \cup {Owner}

VARIABLES
    \* of each sender
    pc,              \* where its command stands
    cmd,             \* number of its command, 0 before the first
    depth,           \* commands nested in the running handler
    begun,           \* depth of its command that began a transaction, None if none did
    dispatching,     \* events taken by its dispatch round in progress
    nesting,         \* history: since it began a transaction, a command it sent joined it
    \* of the scope
    transaction,     \* AIContext._currentTransaction: null, live, or left behind disposed
    needCommitting,  \* CommandHelper.NeedCommitting
    tracked,         \* changes not committed: tracked, or saved in the transaction
    raised,          \* domain events on tracked entities
    durable,         \* committed changes
    sent,            \* commands sent so far; numbers them
    work,            \* counts changes, events and nested commands; names them
    \* history
    written,         \* every change a handler made
    outcome,         \* what the sender of each command saw
    joined           \* commands that found a transaction when they were sent

scopeVars == <<transaction, needCommitting>>
dataVars == <<tracked, durable, written>>
eventVars == <<raised, dispatching>>
sendVars == <<cmd, sent, joined>>
nestVars == <<depth, begun, nesting>>
vars == <<pc, sendVars, nestVars, scopeVars, dataVars, eventVars, outcome, work>>

None == -1
Commands == 1..MaxCommands
Changes == [cmd : Commands, id : 1..MaxWork]
Kinds == {"INotificationDomainEvent", "IMessageDomainEvent"}
Events == [cmd : Commands, id : 1..MaxWork, by : {"command", "event"},
           kind : Kinds, on : Aggregates]

TypeOK ==
    /\ pc \in [Senders -> {"idle", "beginning", "handling", "dispatch", "round", "onEvent",
                           "publish", "failed", "closed"}]
    /\ cmd \in [Senders -> 0..MaxCommands]
    /\ depth \in [Senders -> 0..MaxDepth]
    /\ begun \in [Senders -> {None} \cup 0..MaxDepth]
    /\ dispatching \in [Senders -> SUBSET Events]
    /\ nesting \in [Senders -> BOOLEAN]
    /\ transaction \in {"null", "live", "disposed"}
    /\ needCommitting \in BOOLEAN
    /\ tracked \subseteq Changes /\ durable \subseteq Changes /\ written \subseteq Changes
    /\ raised \subseteq Events
    /\ sent \in 0..MaxCommands
    /\ work \in 0..MaxWork
    /\ outcome \in [Commands -> {"pending", "ok", "threw", "commitFailed"}]
    /\ joined \subseteq Commands

Init ==
    /\ pc = [s \in Senders |-> "idle"]
    /\ cmd = [s \in Senders |-> 0]
    /\ depth = [s \in Senders |-> 0]
    /\ begun = [s \in Senders |-> None]
    /\ dispatching = [s \in Senders |-> {}]
    /\ nesting = [s \in Senders |-> FALSE]
    /\ transaction = "null"
    /\ needCommitting = TRUE
    /\ tracked = {} /\ durable = {} /\ written = {}
    /\ raised = {}
    /\ sent = 0
    /\ work = 0
    /\ outcome = [c \in Commands |-> "pending"]
    /\ joined = {}

WrittenBy(c) == {w \in written : w.cmd = c}

HasActiveTransaction == transaction # "null"

\* The scope is not disposed: its services and its context can still be used.
Open == pc[Owner] # "closed"

\* Handler code runs for the sender's command, one nested in it, or an event.
InHandler(s) == pc[s] \in {"handling", "onEvent"}

\* The depth at which the sender's handler has nothing nested in it to return to.
Base(s) == IF begun[s] = None THEN 0 ELSE begun[s]

\* A guest has sent a command here.
Shared == \E g \in Guests : cmd[g] # 0

NextId == work < MaxWork /\ work' = work + 1

(***************************************************************************)
(* The behavior around a command.                                          *)
(***************************************************************************)
SendCommand(s) ==
    /\ pc[s] = "idle"
    /\ sent < MaxCommands
    /\ sent' = sent + 1
    /\ cmd' = [cmd EXCEPT ![s] = sent']

\* A command that finds a transaction runs its handler in it, whoever began it.
BeginCommand(s) ==
    /\ Open
    /\ SendCommand(s)
    /\ \/ /\ HasActiveTransaction
          /\ needCommitting' = TRUE
          /\ joined' = joined \cup {sent'}
          /\ pc' = [pc EXCEPT ![s] = "handling"]
       \/ /\ ~HasActiveTransaction
          /\ pc' = [pc EXCEPT ![s] = "beginning"]
          /\ UNCHANGED <<needCommitting, joined>>
    /\ UNCHANGED <<nestVars, transaction, dataVars, eventVars, outcome, work>>

\* ValidatorBehavior wraps this one: an invalid command throws before the transaction.
\* So does every command sent through a disposed scope.
CommandInvalid(s) ==
    /\ SendCommand(s)
    /\ outcome' = [outcome EXCEPT ![sent'] = "threw"]
    /\ pc' = [pc EXCEPT ![s] = "failed"]
    /\ UNCHANGED <<joined, nestVars, scopeVars, dataVars, eventVars, work>>

\* Mutant of BeginTransaction: a transaction that came up meanwhile is overwritten.
BeginTransactionOver(s) ==
    /\ pc[s] = "beginning"
    /\ Open
    /\ transaction' = "live"
    /\ begun' = [begun EXCEPT ![s] = depth[s]]
    /\ nesting' = [nesting EXCEPT ![s] = FALSE]
    /\ pc' = [pc EXCEPT ![s] = "handling"]
    /\ UNCHANGED <<sendVars, depth, needCommitting, dataVars, eventVars, outcome, work>>

\* BeginTransactionAsync.  Another sender may have begun one since the check: then
\* it returns null, or the connection refuses a second one, and the command throws.
BeginTransaction(s) ==
    /\ pc[s] = "beginning"
    /\ Open
    /\ ~HasActiveTransaction
    /\ transaction' = "live"
    /\ begun' = [begun EXCEPT ![s] = depth[s]]
    /\ nesting' = [nesting EXCEPT ![s] = FALSE]
    /\ pc' = [pc EXCEPT ![s] = "handling"]
    /\ UNCHANGED <<sendVars, depth, needCommitting, dataVars, eventVars, outcome, work>>

\* A command that joined a transaction returns without a commit.
HandlerReturns(s) ==
    /\ pc[s] = "handling"
    /\ depth[s] = Base(s)
    /\ \/ /\ begun[s] # None
          /\ pc' = [pc EXCEPT ![s] = "dispatch"]
          /\ UNCHANGED outcome
       \/ /\ begun[s] = None
          /\ pc' = [pc EXCEPT ![s] = "idle"]
          /\ outcome' = [outcome EXCEPT ![cmd[s]] = "ok"]
    /\ UNCHANGED <<sendVars, nestVars, scopeVars, dataVars, eventVars, work>>

\* A round takes the events of the aggregates that have a notification among them,
\* messages and all; an aggregate with messages alone keeps them.
Taken ==
    {e \in raised : \E n \in raised : n.on = e.on /\ n.kind = "INotificationDomainEvent"}

\* The flag is cleared first, so that a command sent by an event handler asks for
\* another round.
DispatchRound(s) ==
    /\ pc[s] = "dispatch"
    /\ Open
    /\ needCommitting
    /\ needCommitting' = FALSE
    /\ dispatching' = [dispatching EXCEPT ![s] = Taken]
    /\ raised' = raised \ Taken
    /\ pc' = [pc EXCEPT ![s] = "round"]
    /\ UNCHANGED <<sendVars, nestVars, transaction, dataVars, outcome, work>>

HandleEvent(s) ==
    /\ pc[s] = "round"
    /\ Open
    /\ \E e \in dispatching[s] :
          /\ e.kind = "INotificationDomainEvent"
          /\ dispatching' = [dispatching EXCEPT ![s] = @ \ {e}]
    /\ pc' = [pc EXCEPT ![s] = "onEvent"]
    /\ UNCHANGED <<sendVars, nestVars, scopeVars, dataVars, raised, outcome, work>>

EventHandled(s) ==
    /\ pc[s] = "onEvent"
    /\ depth[s] = Base(s)
    /\ pc' = [pc EXCEPT ![s] = "round"]
    /\ UNCHANGED <<sendVars, nestVars, scopeVars, dataVars, eventVars, outcome, work>>

\* Mutant of EndRound: the flag is cleared after the round, with what its handlers set.
EndRoundClearing(s) ==
    /\ pc[s] = "round"
    /\ dispatching[s] = {}
    /\ pc' = [pc EXCEPT ![s] = "dispatch"]
    /\ needCommitting' = FALSE
    /\ UNCHANGED <<sendVars, nestVars, transaction, dataVars, eventVars, outcome, work>>

EndRound(s) ==
    /\ pc[s] = "round"
    /\ dispatching[s] = {}
    /\ pc' = [pc EXCEPT ![s] = "dispatch"]
    /\ UNCHANGED <<sendVars, nestVars, scopeVars, dataVars, eventVars, outcome, work>>

\* CommitTransactionAsync: SaveChanges, then Commit.  All that the context tracks is
\* saved, the changes of another sender's half-done command too.
Commit(s) ==
    /\ pc[s] = "dispatch"
    /\ Open
    /\ ~needCommitting
    /\ durable' = durable \cup tracked
    /\ tracked' = {}
    /\ transaction' = "null"
    /\ pc' = [pc EXCEPT ![s] = "publish"]
    /\ UNCHANGED <<sendVars, nestVars, needCommitting, written, eventVars, outcome, work>>

\* Mutant of CommitThrows: the behavior logs the exception and does not rethrow it.
CommitThrowsLogged(s) ==
    /\ pc[s] = "dispatch"
    /\ ~needCommitting
    /\ transaction' = "null"
    /\ outcome' = [outcome EXCEPT ![cmd[s]] = "ok"]
    /\ pc' = [pc EXCEPT ![s] = "idle"]
    /\ UNCHANGED <<sendVars, nestVars, needCommitting, dataVars, eventVars, work>>

\* SaveChanges throws and the changes stay tracked, or Commit throws and they may
\* be committed all the same.  Either way the transaction is let go.
CommitThrows(s) ==
    /\ pc[s] = "dispatch"
    /\ ~needCommitting
    /\ \/ UNCHANGED <<tracked, durable>>
       \/ Open /\ tracked' = {} /\ durable' \in {durable, durable \cup tracked}
    /\ transaction' = "null"
    /\ outcome' = [outcome EXCEPT ![cmd[s]] = "commitFailed"]
    /\ pc' = [pc EXCEPT ![s] = "failed"]
    /\ UNCHANGED <<sendVars, nestVars, needCommitting, written, eventVars, work>>

\* Integration events are published; what their handlers throw is only logged.  What
\* they send is left to IntegrationEvents: no code of the program adds an event yet.
\* A command sent from one that had joined returns to that one's handler.
Publish(s) ==
    /\ pc[s] = "publish"
    /\ begun' = [begun EXCEPT ![s] = None]
    /\ \/ /\ begun[s] = 0
          /\ pc' = [pc EXCEPT ![s] = "idle"]
          /\ outcome' = [outcome EXCEPT ![cmd[s]] = "ok"]
          /\ UNCHANGED depth
       \/ /\ begun[s] > 0
          /\ pc' = [pc EXCEPT ![s] = "handling"]
          /\ depth' = [depth EXCEPT ![s] = begun[s] - 1]
          /\ UNCHANGED outcome
    /\ UNCHANGED <<sendVars, nesting, scopeVars, dataVars, eventVars, work>>

(***************************************************************************)
(* What handlers do.                                                       *)
(***************************************************************************)
Change(s) ==
    /\ InHandler(s)
    /\ Open
    /\ NextId
    /\ LET w == [cmd |-> cmd[s], id |-> work'] IN
         /\ tracked' = tracked \cup {w}
         /\ written' = written \cup {w}
    /\ UNCHANGED <<pc, sendVars, nestVars, scopeVars, durable, eventVars, outcome>>

\* Raised by a command's handler, or by an event handler outside any command.
Raise(s) ==
    /\ InHandler(s)
    /\ Open
    /\ NextId
    /\ LET by == IF pc[s] = "onEvent" /\ depth[s] = Base(s) THEN "event" ELSE "command" IN
         \E kind \in Kinds, a \in Aggregates :
            raised' = raised \cup
                        {[cmd |-> cmd[s], id |-> work', by |-> by, kind |-> kind, on |-> a]}
    /\ UNCHANGED <<pc, sendVars, nestVars, scopeVars, dataVars, dispatching, outcome>>

\* A command sent by a handler joins the transaction.  There is none only when the
\* sender's command had joined one that is committed by now: then the nested command
\* begins its own.
SendNested(s) ==
    /\ InHandler(s)
    /\ Open
    /\ depth[s] < MaxDepth
    /\ NextId
    /\ depth' = [depth EXCEPT ![s] = @ + 1]
    /\ \/ /\ HasActiveTransaction
          /\ needCommitting' = TRUE
          /\ nesting' = [nesting EXCEPT ![s] = TRUE]
          /\ UNCHANGED pc
       \/ /\ ~HasActiveTransaction
          /\ pc' = [pc EXCEPT ![s] = "beginning"]
          /\ UNCHANGED <<needCommitting, nesting>>
    /\ UNCHANGED <<sendVars, begun, transaction, dataVars, eventVars, outcome>>

\* Mutant of NestedReturns: the return of the outermost command is taken for one.
NestedReturnsTooOften(s) ==
    /\ InHandler(s)
    /\ depth[s] >= Base(s)
    /\ depth' = [depth EXCEPT ![s] = @ - 1]
    /\ UNCHANGED <<pc, sendVars, begun, nesting, scopeVars, dataVars, eventVars, outcome, work>>

NestedReturns(s) ==
    /\ InHandler(s)
    /\ depth[s] > Base(s)
    /\ depth' = [depth EXCEPT ![s] = @ - 1]
    /\ UNCHANGED <<pc, sendVars, begun, nesting, scopeVars, dataVars, eventVars, outcome, work>>

\* Mutant of CommandThrows: AIContext lets the disposed transaction go.
CommandThrowsClearing(s) ==
    /\ transaction' = IF begun[s] # None THEN "null" ELSE transaction
    /\ outcome' = [outcome EXCEPT ![cmd[s]] = "threw"]
    /\ depth' = [depth EXCEPT ![s] = 0]
    /\ begun' = [begun EXCEPT ![s] = None]
    /\ dispatching' = [dispatching EXCEPT ![s] = {}]
    /\ pc' = [pc EXCEPT ![s] = "failed"]
    /\ UNCHANGED <<sendVars, nesting, needCommitting, dataVars, raised, work>>

\* The transaction is disposed by the command that began it, which rolls it back, but
\* AIContext still holds it and the tracker keeps the changes.  The sender lets the
\* exception through: the request ends, the run's foreach ends.  Other senders go on.
CommandThrows(s) ==
    /\ transaction' = IF begun[s] # None THEN "disposed" ELSE transaction
    /\ outcome' = [outcome EXCEPT ![cmd[s]] = "threw"]
    /\ depth' = [depth EXCEPT ![s] = 0]
    /\ begun' = [begun EXCEPT ![s] = None]
    /\ dispatching' = [dispatching EXCEPT ![s] = {}]
    /\ pc' = [pc EXCEPT ![s] = "failed"]
    /\ UNCHANGED <<sendVars, nesting, needCommitting, dataVars, raised, work>>

HandlerThrows(s) == InHandler(s) /\ CommandThrows(s)

BeginThrows(s) == pc[s] = "beginning" /\ CommandThrows(s)

\* MediatR publishes notifications only: a message that a round took is refused.  And
\* the context refuses to be used by two senders at a time, or disposed.
DispatchThrows(s) ==
    /\ \/ pc[s] = "round" /\ \E e \in dispatching[s] : e.kind = "IMessageDomainEvent"
       \/ pc[s] \in {"dispatch", "round"} /\ Shared
    /\ CommandThrows(s)

\* The owner disposes the scope, and its context with everything it still tracks.
CloseScope ==
    /\ pc[Owner] \in {"idle", "failed"}
    /\ pc' = [pc EXCEPT ![Owner] = "closed"]
    /\ transaction' = IF transaction = "live" THEN "disposed" ELSE transaction
    /\ tracked' = {}
    /\ raised' = {}
    /\ UNCHANGED <<sendVars, nestVars, needCommitting, durable, written, dispatching,
                   outcome, work>>

Behavior(s) ==
    \/ BeginCommand(s) \/ CommandInvalid(s) \/ BeginTransaction(s) \/ BeginThrows(s)
    \/ HandlerReturns(s)
    \/ DispatchRound(s) \/ HandleEvent(s) \/ EventHandled(s) \/ EndRound(s)
    \/ DispatchThrows(s)
    \/ Commit(s) \/ CommitThrows(s) \/ Publish(s)

Handler(s) ==
    \/ Change(s) \/ Raise(s) \/ SendNested(s) \/ NestedReturns(s) \/ HandlerThrows(s)

Next == CloseScope \/ \E s \in Senders : Behavior(s) \/ Handler(s)

Spec == Init /\ [][Next]_vars

-----------------------------------------------------------------------------
(***************************************************************************)
(* What must hold.                                                         *)
(***************************************************************************)

\* The command ran in a transaction of another sender of the scope, or one that it left
\* behind.  In a scope with one sender no command does.
JoinedAnother(c) == c \in joined /\ Shared

\* The changes of a command, of those it sent and of the event handlers that ran
\* for it are committed together or not at all, even when another run commits them;
\* only a command that joined another run's transaction may be torn by its commit.
AllOrNothing ==
    \A c \in Commands :
        WrittenBy(c) \cap durable # {} => WrittenBy(c) \subseteq durable \/ JoinedAnother(c)

\* A command that returned to its sender has its changes committed, unless it joined
\* the transaction, live or disposed, that another run left in the shared scope: such
\* a command returns uncommitted.
OkIsDurable ==
    \A c \in Commands :
        outcome[c] = "ok" => WrittenBy(c) \subseteq durable \/ JoinedAnother(c)

\* A command whose handler threw leaves nothing: no later save of the shared context,
\* the owner's or a guest's, picks up the changes it left in the tracker.  Again a
\* command that joined another run's transaction has no such promise.
ThrowLeavesNothing ==
    \A c \in Commands :
        outcome[c] = "threw" => WrittenBy(c) \cap durable = {} \/ JoinedAnother(c)

\* At the commit no notification raised by a command's handler is left over, for the
\* first command of a scope with one sender and for every command that sent another.
\* NeedCommitting promises no more: it starts true once per scope, and events that
\* event handlers raise outside a command do not set it.
DispatchedBeforeCommit ==
    \A s \in Senders :
        pc[s] = "publish" /\ (nesting[s] \/ (cmd[s] = 1 /\ ~Shared)) =>
            \A e \in raised :
                e.cmd = cmd[s] /\ e.kind = "INotificationDomainEvent" => e.by = "event"
=============================================================================

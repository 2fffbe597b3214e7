-------------------------- MODULE IntegrationEvents --------------------------
(***************************************************************************)
(* Integration events of one dependency-injection scope.  A handler adds   *)
(* an event to the scope's store under the current transaction; once the   *)
(* behavior has committed, AIMediatrIntegrationEventService publishes the  *)
(* events of that transaction, one after another, and clears the store.    *)
(*                                                                         *)
(* A handler of a published event may send commands of its own.  They run  *)
(* inside the publishing of the first command, with transactions of their  *)
(* own, share store and AIContext with it, and publish and clear before it *)
(* goes on.  What a handler throws is logged and the loop goes on too.     *)
(*                                                                         *)
(* CommandScope models what a command does up to its commit and takes the  *)
(* publishing as one step; this module models the publishing.  The scope   *)
(* has one sender here: its owner.                                         *)
(***************************************************************************)
EXTENDS Integers, Sequences

CONSTANTS
    MaxCommands,  \* bound: commands sent in the scope
    MaxEvents,    \* bound: events added in the scope
    MaxNesting    \* bound: commands running inside one another

ASSUME BoundsAssumption ==
    MaxCommands \in Nat /\ MaxEvents \in Nat /\ MaxNesting \in Nat \ {0}

Commands == 1..MaxCommands
EventIds == 1..MaxEvents
NoCommand == 0

VARIABLES
    current,    \* AIContext._currentTransaction, by the command that began it
    stack,      \* the commands under way, the innermost one last
    store,      \* MediatrIntegrationEventStore._events
    added,      \* added[e]: the transaction under which event e was added
    committed,  \* commands whose transaction is committed
    delivered,  \* history: the events in the order in which they were published
    sent,       \* number of commands sent so far
    outcome,    \* what the sender of each command saw
    sender      \* history: the command whose publishing sent it, if any

commandVars == <<committed, sent, outcome, sender>>
vars == <<current, stack, store, added, delivered, commandVars>>

\* A command under way: the transaction it runs in, which is its own or one it met,
\* and the events it has still to publish.
Frames == [cmd : Commands, tx : Commands,
           at : {"handling", "publishing", "delivering"}, pending : SUBSET EventIds]

TypeOK ==
    /\ current \in Commands \cup {NoCommand}
    /\ stack \in Seq(Frames) /\ Len(stack) <= MaxNesting
    /\ store \subseteq 1..Len(added)
    /\ added \in Seq(Commands) /\ Len(added) <= MaxEvents
    /\ committed \subseteq Commands
    /\ delivered \in Seq(1..Len(added))
    /\ sent \in 0..MaxCommands
    /\ outcome \in [Commands -> {"pending", "ok", "threw"}]
    /\ sender \in [Commands -> Commands \cup {NoCommand}]

Init ==
    /\ current = NoCommand
    /\ stack = <<>>
    /\ store = {}
    /\ added = <<>>
    /\ committed = {}
    /\ delivered = <<>>
    /\ sent = 0
    /\ outcome = [c \in Commands |-> "pending"]
    /\ sender = [c \in Commands |-> NoCommand]

Top == stack[Len(stack)]
Below == SubSeq(stack, 1, Len(stack) - 1)
At(place) == stack # <<>> /\ Top.at = place

\* The innermost command goes on, with what it has left to publish.
Move(place, rest) ==
    [stack EXCEPT ![Len(stack)] = [cmd |-> Top.cmd, tx |-> Top.tx, at |-> place, pending |-> rest]]

\* A command sent by the scope's owner ends the scope if it throws.
Open == \A c \in Commands : outcome[c] = "threw" => sender[c] # NoCommand

(***************************************************************************)
(* Commands.                                                               *)
(***************************************************************************)

\* By the scope's owner, or by the handler of an event.  A transaction that is still
\* in the context is taken for an active one, also when it is long disposed.
Send ==
    /\ Open
    /\ stack = <<>> \/ At("delivering")
    /\ sent < MaxCommands /\ Len(stack) < MaxNesting
    /\ sent' = sent + 1
    /\ LET tx == IF current = NoCommand THEN sent' ELSE current IN
         /\ current' = tx
         /\ stack' = Append(stack, [cmd |-> sent', tx |-> tx, at |-> "handling", pending |-> {}])
    /\ sender' = [sender EXCEPT ![sent'] = IF stack = <<>> THEN NoCommand ELSE Top.cmd]
    /\ UNCHANGED <<store, added, committed, delivered, outcome>>

\* Mutant of AddEvent: outside a transaction the event is added under none.
AddEventAnywhere ==
    /\ At("handling") \/ At("delivering")
    /\ Len(added) < MaxEvents
    /\ added' = Append(added, current)
    /\ store' = store \cup {Len(added')}
    /\ UNCHANGED <<current, stack, delivered, commandVars>>

\* Without a transaction there is no TransactionId to add it under, and AddEvent
\* throws: that is Delivered.
AddEvent ==
    /\ At("handling") \/ At("delivering")
    /\ current # NoCommand
    /\ Len(added) < MaxEvents
    /\ added' = Append(added, current)
    /\ store' = store \cup {Len(added')}
    /\ UNCHANGED <<current, stack, delivered, commandVars>>

\* A command that met a transaction returns without a commit.
ReturnJoined ==
    /\ At("handling")
    /\ Top.tx # Top.cmd
    /\ outcome' = [outcome EXCEPT ![Top.cmd] = "ok"]
    /\ stack' = Below
    /\ UNCHANGED <<current, store, added, delivered, committed, sent, sender>>

\* Mutant of Commit: the pending events are not told apart by transaction.
CommitPublishingAll ==
    /\ At("handling")
    /\ Top.tx = Top.cmd
    /\ committed' = committed \cup {Top.cmd}
    /\ current' = NoCommand
    /\ stack' = Move("publishing", store)
    /\ UNCHANGED <<store, added, delivered, sent, outcome, sender>>

\* Mutant of Commit: the context keeps the transaction.
CommitKeeping ==
    /\ At("handling")
    /\ Top.tx = Top.cmd
    /\ committed' = committed \cup {Top.cmd}
    /\ stack' = Move("publishing", {e \in store : added[e] = Top.cmd})
    /\ UNCHANGED <<current, store, added, delivered, sent, outcome, sender>>

\* The pending events are read once, when the publishing starts.
Commit ==
    /\ At("handling")
    /\ Top.tx = Top.cmd
    /\ committed' = committed \cup {Top.cmd}
    /\ current' = NoCommand
    /\ stack' = Move("publishing", {e \in store : added[e] = Top.cmd})
    /\ UNCHANGED <<store, added, delivered, sent, outcome, sender>>

\* The handler throws and leaves its disposed transaction in the context, or the
\* commit throws, in doubt, and the context lets go of it.
CommandThrows ==
    /\ At("handling")
    /\ outcome' = [outcome EXCEPT ![Top.cmd] = "threw"]
    /\ stack' = Below
    /\ \/ UNCHANGED <<current, committed>>
       \/ /\ Top.tx = Top.cmd
          /\ current' = NoCommand
          /\ committed' \in {committed, committed \cup {Top.cmd}}
    /\ UNCHANGED <<store, added, delivered, sent, sender>>

(***************************************************************************)
(* PublishEventsThroughEventAsync.                                         *)
(***************************************************************************)

\* Mutant of Deliver: in no particular order.
DeliverAny ==
    /\ At("publishing")
    /\ \E e \in Top.pending :
          /\ delivered' = Append(delivered, e)
          /\ stack' = Move("delivering", Top.pending \ {e})
    /\ UNCHANGED <<current, store, added, commandVars>>

\* In the order in which they were added.
Deliver ==
    /\ At("publishing")
    /\ \E e \in Top.pending :
          /\ \A f \in Top.pending : e <= f
          /\ delivered' = Append(delivered, e)
          /\ stack' = Move("delivering", Top.pending \ {e})
    /\ UNCHANGED <<current, store, added, commandVars>>

\* Mutant of Delivered: the first exception ends the loop.
DeliveredOrAborted ==
    /\ At("delivering")
    /\ \/ stack' = Move("publishing", Top.pending)
       \/ stack' = Move("publishing", {})
    /\ UNCHANGED <<current, store, added, delivered, commandVars>>

\* The event's handlers are done, or one threw and the loop goes on.
Delivered ==
    /\ At("delivering")
    /\ stack' = Move("publishing", Top.pending)
    /\ UNCHANGED <<current, store, added, delivered, commandVars>>

\* It keeps the events of the transaction and drops all others.
ClearTransactionEvents ==
    /\ At("publishing")
    /\ Top.pending = {}
    /\ store' = {e \in store : added[e] = Top.cmd}
    /\ outcome' = [outcome EXCEPT ![Top.cmd] = "ok"]
    /\ stack' = Below
    /\ UNCHANGED <<current, added, delivered, committed, sent, sender>>

Next ==
    \/ Send \/ AddEvent \/ ReturnJoined \/ Commit \/ CommandThrows
    \/ Deliver \/ Delivered \/ ClearTransactionEvents

Spec == Init /\ [][Next]_vars

-----------------------------------------------------------------------------
(***************************************************************************)
(* What must hold.                                                         *)
(***************************************************************************)

\* Although the store keeps what it should clear, and a nested command empties it of
\* the events being published around it, no event is published twice.
PublishedOnce == \A i, k \in DOMAIN delivered : delivered[i] = delivered[k] => i = k

\* Nobody hears of an event whose transaction was not committed.
OnlyCommittedPublished == \A i \in DOMAIN delivered : added[delivered[i]] \in committed

\* A command that returned to its sender has published each event of its transaction,
\* whatever the handlers of the others threw or sent.
OkIsPublished ==
    \A c \in committed : outcome[c] = "ok" =>
        \A e \in DOMAIN added : added[e] = c => \E i \in DOMAIN delivered : delivered[i] = e

\* The events of a transaction are published in the order in which they were added.
PublishedInOrder ==
    \A i, k \in DOMAIN delivered :
        i < k /\ added[delivered[i]] = added[delivered[k]] => delivered[i] < delivered[k]

\* A command can return without being committed: it met the disposed transaction of
\* another.  That takes a handler of an integration event that swallowed nothing but
\* was logged: a command it sent has thrown, earlier in the scope.
LossNeedsFailedDelivery ==
    \A c \in Commands \ committed : outcome[c] = "ok" =>
        \E d \in Commands : d < c /\ outcome[d] = "threw" /\ sender[d] # NoCommand
=============================================================================

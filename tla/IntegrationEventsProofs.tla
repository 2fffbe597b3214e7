----------------------- MODULE IntegrationEventsProofs -----------------------
(***************************************************************************)
(* Proofs about the publishing of integration events, for any number of    *)
(* commands, events and commands inside one another.                       *)
(***************************************************************************)
EXTENDS IntegrationEvents, SequenceTheorems, TLAPS

Types ==
    /\ sent \in Nat
    /\ current \in Commands \cup {NoCommand}
    /\ stack \in Seq(Frames)
    /\ added \in Seq(Commands \cup {NoCommand}) /\ Len(added) <= MaxEvents
    /\ delivered \in Seq(Nat)
    /\ store \subseteq DOMAIN added
    /\ committed \subseteq 1..sent

\* Commands under way are numbered from the outside in, and only the innermost one
\* can be in its handler, before its commit.
Nested ==
    /\ \A i \in DOMAIN stack : stack[i].cmd \in 1..sent
    /\ \A i, k \in DOMAIN stack : i < k => stack[i].cmd < stack[k].cmd
    /\ \A i \in DOMAIN stack :
          IF stack[i].at = "handling"
            THEN i = Len(stack) /\ stack[i].cmd \notin committed /\ stack[i].pending = {}
            ELSE stack[i].cmd \in committed

\* What a command has still to publish is its own, is not published yet, and comes
\* after everything of its own that is.
PendingIsNew ==
    \A i \in DOMAIN stack : \A e \in stack[i].pending :
        /\ e \in DOMAIN added /\ added[e] = stack[i].cmd
        /\ \A k \in DOMAIN delivered :
              delivered[k] # e /\ (added[delivered[k]] = stack[i].cmd => delivered[k] < e)

DeliveredIsAdded == \A k \in DOMAIN delivered : delivered[k] \in DOMAIN added

EventsInv ==
    /\ Types /\ Nested /\ PendingIsNew /\ DeliveredIsAdded
    /\ PublishedOnce /\ OnlyCommittedPublished /\ PublishedInOrder

-----------------------------------------------------------------------------
(***************************************************************************)
(* The stack of commands under way.                                        *)
(***************************************************************************)

\* The innermost command is a frame of the stack.
LEMMA TopIsFrame ==
    ASSUME stack \in Seq(Frames), stack # <<>>
    PROVE  Len(stack) \in DOMAIN stack /\ Top \in Frames /\ Top = stack[Len(stack)]
  BY DEF Top

\* When it is done, the others stay as they are.
LEMMA BelowKeeps ==
    ASSUME stack \in Seq(Frames), stack # <<>>
    PROVE  /\ Below \in Seq(Frames)
           /\ Len(Below) = Len(stack) - 1
           /\ \A i \in DOMAIN Below : i \in DOMAIN stack /\ i < Len(stack) /\ Below[i] = stack[i]
<1>1. Len(stack) \in Nat /\ Len(stack) > 0
  OBVIOUS
<1>2. 1 \in Int /\ Len(stack) - 1 \in Int /\ \A i \in 1..(Len(stack) - 1) : stack[i] \in Frames
  BY <1>1
<1>3. /\ Below \in Seq(Frames)
      /\ Len(Below) = Len(stack) - 1
      /\ \A i \in 1..(Len(stack) - 1) : Below[i] = stack[i]
  <2>1. Below = Restrict(stack, 1..(Len(stack) - 1))
    BY <1>1, SubSeqRestrict DEF Below
  <2>2. Below = [i \in 1..(Len(stack) - 1) |-> stack[i]]
    BY <2>1 DEF Restrict
  <2>3. Below \in Seq(Frames)
    BY <1>1, <1>2, <2>2, IsASeq
  <2>4. Len(Below) = Len(stack) - 1
    BY <1>1, <2>2, <2>3
  <2>5. QED
    BY <2>2, <2>3, <2>4
<1>4. QED
  BY <1>1, <1>3

\* When it goes on, it alone changes.
LEMMA ReplaceTop ==
    ASSUME stack \in Seq(Frames), stack # <<>>, NEW f \in Frames,
           stack' = [stack EXCEPT ![Len(stack)] = f]
    PROVE  /\ stack' \in Seq(Frames)
           /\ Len(stack') = Len(stack)
           /\ DOMAIN stack' = DOMAIN stack
           /\ stack'[Len(stack)] = f
           /\ \A i \in DOMAIN stack : i # Len(stack) => stack'[i] = stack[i]
<1>1. Len(stack) \in 1..Len(stack) /\ DOMAIN stack = 1..Len(stack)
  OBVIOUS
<1>2. QED
  BY <1>1, ExceptSeq
-----------------------------------------------------------------------------
(***************************************************************************)
(* EventsInv is inductive.                                                 *)
(***************************************************************************)
LEMMA InitEvents == Init => EventsInv
  BY BoundsAssumption DEF Init, EventsInv, Types, Nested, PendingIsNew, DeliveredIsAdded,
         PublishedOnce, OnlyCommittedPublished, PublishedInOrder

\* A command that ends takes nothing from the others, committed or not.
LEMMA PopKeepsEvents ==
    ASSUME EventsInv, stack # <<>>, stack' = Below,
           UNCHANGED <<added, delivered, sent>>, store' \subseteq store,
           current' \in {current, NoCommand},
           committed' \in {committed, committed \cup {Top.cmd}}
    PROVE  EventsInv'
<1> USE DEF EventsInv, Types
<1>1. /\ stack' \in Seq(Frames) /\ Len(stack') = Len(stack) - 1
      /\ \A i \in DOMAIN stack' : i \in DOMAIN stack /\ i < Len(stack) /\ stack'[i] = stack[i]
  BY BelowKeeps
<1>2. Top.cmd \in 1..sent
  BY TopIsFrame DEF Nested
<1>3. Types'
  BY <1>1, <1>2
<1>4. Nested'
  <2>1. \A i \in DOMAIN stack' : stack[i].at # "handling"
    BY <1>1 DEF Nested
  <2>2. QED
    BY <1>1, <2>1 DEF Nested
<1>5. PendingIsNew'
  BY <1>1 DEF PendingIsNew
<1>6. DeliveredIsAdded' /\ PublishedOnce' /\ OnlyCommittedPublished' /\ PublishedInOrder'
  BY DEF DeliveredIsAdded, PublishedOnce, OnlyCommittedPublished, PublishedInOrder
<1>7. QED
  BY <1>3, <1>4, <1>5, <1>6

\* A new command has nothing to publish yet.
LEMMA SendKeepsEvents == EventsInv /\ Send => EventsInv'
<1> SUFFICES ASSUME EventsInv, Send PROVE EventsInv'
  OBVIOUS
<1> USE DEF EventsInv, Types
<1> DEFINE tx == IF current = NoCommand THEN sent' ELSE current
           f == [cmd |-> sent', tx |-> tx, at |-> "handling", pending |-> {}]
<1>1. /\ sent' = sent + 1 /\ sent' \in Commands
      /\ current' = tx /\ tx \in Commands
      /\ stack' = Append(stack, f) /\ f \in Frames
      /\ UNCHANGED <<added, delivered, store, committed>>
  BY BoundsAssumption DEF Send, Frames, Commands
<1>2. /\ stack' \in Seq(Frames) /\ Len(stack') = Len(stack) + 1
      /\ stack'[Len(stack) + 1] = f
      /\ \A i \in DOMAIN stack : stack'[i] = stack[i]
      /\ DOMAIN stack' = DOMAIN stack \cup {Len(stack) + 1}
  BY <1>1
<1> HIDE DEF tx
<1>3. \A i \in DOMAIN stack : stack[i].at # "handling"
  <2>1. stack = <<>> \/ Top.at = "delivering"
    BY DEF Send, At
  <2>2. QED
    BY <2>1 DEF Nested, Top
<1>4. Types'
  BY <1>1, <1>2
<1>5. Nested'
  BY <1>1, <1>2, <1>3 DEF Nested
<1>6. PendingIsNew'
  BY <1>1, <1>2 DEF PendingIsNew
<1>7. DeliveredIsAdded' /\ PublishedOnce' /\ OnlyCommittedPublished' /\ PublishedInOrder'
  BY <1>1 DEF DeliveredIsAdded, PublishedOnce, OnlyCommittedPublished, PublishedInOrder
<1>8. QED
  BY <1>4, <1>5, <1>6, <1>7

\* An event is added at the end and leaves the numbers of the others alone.
LEMMA AddKeepsEvents == EventsInv /\ AddEvent => EventsInv'
<1> SUFFICES ASSUME EventsInv, AddEvent PROVE EventsInv'
  OBVIOUS
<1> USE DEF EventsInv, Types
<1>1. /\ added' = Append(added, current)
      /\ store' = store \cup {Len(added')}
      /\ UNCHANGED <<current, stack, delivered, committed, sent>>
      /\ Len(added) < MaxEvents
  BY DEF AddEvent, commandVars
<1>2. /\ added' \in Seq(Commands \cup {NoCommand}) /\ Len(added') = Len(added) + 1
      /\ DOMAIN added' = DOMAIN added \cup {Len(added')}
      /\ \A e \in DOMAIN added : added'[e] = added[e]
  BY <1>1
<1>3. Types' /\ Nested'
  <2>1. Types'
    BY <1>1, <1>2, BoundsAssumption
  <2>2. Nested'
    BY <1>1 DEF Nested
  <2>3. QED
    BY <2>1, <2>2
<1>4. PendingIsNew'
  BY <1>1, <1>2 DEF PendingIsNew, DeliveredIsAdded
<1>5. DeliveredIsAdded' /\ PublishedOnce' /\ OnlyCommittedPublished' /\ PublishedInOrder'
  BY <1>1, <1>2 DEF DeliveredIsAdded, PublishedOnce, OnlyCommittedPublished, PublishedInOrder
<1>6. QED
  BY <1>3, <1>4, <1>5

\* A committed command that goes on, with something or nothing left to publish.
LEMMA GoOnKeepsStack ==
    ASSUME EventsInv, stack # <<>>, NEW f \in Frames, f.cmd = Top.cmd, f.at # "handling",
           stack' = [stack EXCEPT ![Len(stack)] = f],
           committed' = committed \cup {Top.cmd}, current' \in {current, NoCommand},
           UNCHANGED <<store, added, sent>>, delivered' \in Seq(Nat)
    PROVE  Types' /\ Nested'
<1> USE DEF EventsInv, Types
<1>1. /\ stack' \in Seq(Frames) /\ Len(stack') = Len(stack) /\ DOMAIN stack' = DOMAIN stack
      /\ Len(stack) \in DOMAIN stack /\ stack'[Len(stack)] = f
      /\ \A i \in DOMAIN stack : i # Len(stack) => stack'[i] = stack[i]
  BY ReplaceTop
<1>2. Top = stack[Len(stack)] /\ Top.cmd \in 1..sent
  BY TopIsFrame DEF Nested
<1>3. Types'
  BY <1>1, <1>2
<1>4. Nested'
  BY <1>1, <1>2 DEF Nested
<1>5. QED
  BY <1>3, <1>4

\* The events of the transaction become pending: none of them can be published before
\* its commit.
LEMMA CommitKeepsEvents == EventsInv /\ Commit => EventsInv'
<1> SUFFICES ASSUME EventsInv, Commit PROVE EventsInv'
  OBVIOUS
<1> USE DEF EventsInv, Types
<1> DEFINE own == {e \in store : added[e] = Top.cmd}
           f == [cmd |-> Top.cmd, tx |-> Top.tx, at |-> "publishing", pending |-> own]
<1>1. /\ stack # <<>> /\ Top.at = "handling"
      /\ committed' = committed \cup {Top.cmd} /\ current' = NoCommand
      /\ UNCHANGED <<store, added, delivered, sent>>
  BY DEF Commit, At
<1>2. Len(stack) \in DOMAIN stack /\ Top \in Frames /\ Top = stack[Len(stack)]
  BY <1>1, TopIsFrame
<1>3. own \subseteq EventIds
  BY BoundsAssumption DEF EventIds
<1>4. f \in Frames
  BY <1>2, <1>3 DEF Frames
<1>5. stack' = [stack EXCEPT ![Len(stack)] = f]
  BY DEF Commit, Move
<1>6. /\ stack'[Len(stack)] = f /\ DOMAIN stack' = DOMAIN stack
      /\ \A i \in DOMAIN stack : i # Len(stack) => stack'[i] = stack[i]
  BY <1>1, <1>4, <1>5, ReplaceTop
<1>7. Types' /\ Nested'
  BY <1>1, <1>4, <1>5, GoOnKeepsStack
<1>8. Top.cmd \notin committed
  BY <1>1, <1>2 DEF Nested
<1>9. PendingIsNew'
  <2>1. \A e \in own : \A k \in DOMAIN delivered : added[delivered[k]] # Top.cmd
    BY <1>8 DEF OnlyCommittedPublished
  <2>2. QED
    BY <1>1, <1>6, <2>1 DEF PendingIsNew
<1>10. DeliveredIsAdded' /\ PublishedOnce' /\ OnlyCommittedPublished' /\ PublishedInOrder'
  BY <1>1 DEF DeliveredIsAdded, PublishedOnce, OnlyCommittedPublished, PublishedInOrder
<1>11. QED
  BY <1>7, <1>9, <1>10

\* The first pending event is published: it comes after all of its transaction that are,
\* and before all that are still to come.
LEMMA DeliverKeepsEvents == EventsInv /\ Deliver => EventsInv'
<1> SUFFICES ASSUME EventsInv, Deliver PROVE EventsInv'
  OBVIOUS
<1> USE DEF EventsInv, Types
<1>1. /\ stack # <<>> /\ Top.at = "publishing"
      /\ UNCHANGED <<current, store, added, committed, sent>>
  BY DEF Deliver, At, commandVars
<1>2. Len(stack) \in DOMAIN stack /\ Top \in Frames /\ Top = stack[Len(stack)]
  BY <1>1, TopIsFrame
<1>3. PICK e \in Top.pending :
         /\ \A g \in Top.pending : e <= g
         /\ delivered' = Append(delivered, e)
         /\ stack' = Move("delivering", Top.pending \ {e})
  BY DEF Deliver
<1> DEFINE f == [cmd |-> Top.cmd, tx |-> Top.tx, at |-> "delivering", pending |-> Top.pending \ {e}]
<1>4. f \in Frames
  BY <1>2 DEF Frames
<1>5. stack' = [stack EXCEPT ![Len(stack)] = f]
  BY <1>3 DEF Move
<1>6. /\ stack'[Len(stack)] = f /\ DOMAIN stack' = DOMAIN stack
      /\ \A i \in DOMAIN stack : i # Len(stack) => stack'[i] = stack[i]
  BY <1>1, <1>4, <1>5, ReplaceTop
<1>7. Top.cmd \in committed
  BY <1>1, <1>2 DEF Nested
<1>8. /\ e \in DOMAIN added /\ added[e] = Top.cmd /\ e \in Nat
      /\ \A k \in DOMAIN delivered :
            delivered[k] # e /\ (added[delivered[k]] = Top.cmd => delivered[k] < e)
  BY <1>2 DEF PendingIsNew
<1>9. /\ delivered' \in Seq(Nat) /\ Len(delivered') = Len(delivered) + 1
      /\ delivered'[Len(delivered) + 1] = e
      /\ DOMAIN delivered' = DOMAIN delivered \cup {Len(delivered) + 1}
      /\ \A k \in DOMAIN delivered : delivered'[k] = delivered[k]
  BY <1>3, <1>8
<1>10. Types' /\ Nested'
  <2>1. committed' = committed \cup {Top.cmd}
    BY <1>1, <1>7
  <2>2. QED
    BY <1>1, <1>4, <1>5, <1>9, <2>1, GoOnKeepsStack
<1>11. PendingIsNew'
  <2>1. ASSUME NEW i \in DOMAIN stack, NEW g \in stack'[i].pending
        PROVE  /\ g \in DOMAIN added /\ added[g] = stack'[i].cmd
               /\ g # e /\ (added[e] = stack'[i].cmd => e < g)
               /\ g \in stack[i].pending /\ stack'[i].cmd = stack[i].cmd
    <3>1. CASE i = Len(stack)
      <4>1. g \in Top.pending /\ g # e /\ stack'[i].cmd = Top.cmd
        BY <1>6, <3>1
      <4>2. g \in DOMAIN added /\ added[g] = Top.cmd /\ e <= g
        BY <1>2, <1>3, <4>1 DEF PendingIsNew
      <4>3. QED
        BY <1>2, <1>8, <3>1, <4>1, <4>2
    <3>2. CASE i # Len(stack)
      <4>1. stack'[i] = stack[i]
        BY <1>6, <3>2
      <4>2. g \in DOMAIN added /\ added[g] = stack[i].cmd
        BY <4>1 DEF PendingIsNew
      <4>3. stack[i].cmd # Top.cmd
        <5>1. i < Len(stack) /\ stack[i].cmd \in Int
          BY <3>2 DEF Nested
        <5>2. stack[i].cmd < Top.cmd
          BY <1>2, <5>1 DEF Nested
        <5>3. QED
          BY <5>1, <5>2
      <4>4. QED
        BY <1>8, <4>1, <4>2, <4>3
    <3>3. QED
      BY <3>1, <3>2
  <2>2. QED
    BY <1>1, <1>6, <1>9, <2>1 DEF PendingIsNew
<1>12. DeliveredIsAdded' /\ PublishedOnce' /\ OnlyCommittedPublished' /\ PublishedInOrder'
  <2>1. DeliveredIsAdded' /\ OnlyCommittedPublished'
    BY <1>1, <1>7, <1>8, <1>9 DEF DeliveredIsAdded, OnlyCommittedPublished
  <2>2. PublishedOnce'
    BY <1>8, <1>9 DEF PublishedOnce
  <2>3. PublishedInOrder'
    BY <1>1, <1>8, <1>9 DEF PublishedInOrder
  <2>4. QED
    BY <2>1, <2>2, <2>3
<1>13. QED
  BY <1>10, <1>11, <1>12

\* After the handlers of an event the loop goes on with what is left.
LEMMA DeliveredKeepsEvents == EventsInv /\ Delivered => EventsInv'
<1> SUFFICES ASSUME EventsInv, Delivered PROVE EventsInv'
  OBVIOUS
<1> USE DEF EventsInv, Types
<1> DEFINE f == [cmd |-> Top.cmd, tx |-> Top.tx, at |-> "publishing", pending |-> Top.pending]
<1>1. /\ stack # <<>> /\ Top.at = "delivering"
      /\ UNCHANGED <<current, store, added, delivered, committed, sent>>
  BY DEF Delivered, At, commandVars
<1>2. Len(stack) \in DOMAIN stack /\ Top \in Frames /\ Top = stack[Len(stack)]
  BY <1>1, TopIsFrame
<1>3. f \in Frames
  BY <1>2 DEF Frames
<1>4. stack' = [stack EXCEPT ![Len(stack)] = f]
  BY DEF Delivered, Move
<1>5. /\ stack'[Len(stack)] = f /\ DOMAIN stack' = DOMAIN stack
      /\ \A i \in DOMAIN stack : i # Len(stack) => stack'[i] = stack[i]
  BY <1>1, <1>3, <1>4, ReplaceTop
<1>6. Types' /\ Nested'
  <2>1. committed' = committed \cup {Top.cmd}
    BY <1>1, <1>2 DEF Nested
  <2>2. QED
    BY <1>1, <1>3, <1>4, <2>1, GoOnKeepsStack
<1>7. PendingIsNew'
  <2>1. \A i \in DOMAIN stack : stack'[i].cmd = stack[i].cmd /\ stack'[i].pending = stack[i].pending
    BY <1>2, <1>5
  <2>2. QED
    BY <1>1, <1>5, <2>1 DEF PendingIsNew
<1>8. DeliveredIsAdded' /\ PublishedOnce' /\ OnlyCommittedPublished' /\ PublishedInOrder'
  BY <1>1 DEF DeliveredIsAdded, PublishedOnce, OnlyCommittedPublished, PublishedInOrder
<1>9. QED
  BY <1>6, <1>7, <1>8

LEMMA NextKeepsEvents == EventsInv /\ [Next]_vars => EventsInv'
<1> SUFFICES ASSUME EventsInv, [Next]_vars PROVE EventsInv'
  OBVIOUS
<1>1. CASE Send \/ AddEvent
  BY <1>1, SendKeepsEvents, AddKeepsEvents
<1>2. CASE Commit \/ Deliver \/ Delivered
  BY <1>2, CommitKeepsEvents, DeliverKeepsEvents, DeliveredKeepsEvents
<1>3. CASE ReturnJoined
  BY <1>3, PopKeepsEvents DEF ReturnJoined, At
<1>4. CASE CommandThrows
  BY <1>4, PopKeepsEvents DEF CommandThrows, At
<1>5. CASE ClearTransactionEvents
  BY <1>5, PopKeepsEvents DEF ClearTransactionEvents, At, commandVars
<1>6. CASE UNCHANGED vars
  BY <1>6 DEF vars, commandVars, EventsInv, Types, Nested, PendingIsNew, DeliveredIsAdded,
              PublishedOnce, OnlyCommittedPublished, PublishedInOrder
<1>7. QED
  BY <1>1, <1>2, <1>3, <1>4, <1>5, <1>6 DEF Next

-----------------------------------------------------------------------------
(***************************************************************************)
(* Nothing is lost.                                                        *)
(***************************************************************************)

\* A command is pending while it is on the stack or still to come, and one that is still to
\* come has no events.
PendingIsUnderWay ==
    /\ outcome \in [Commands -> {"pending", "ok", "threw"}]
    /\ \A c \in Commands : c > sent => outcome[c] = "pending"
    /\ \A i \in DOMAIN stack : outcome[stack[i].cmd] = "pending"
    /\ current <= sent /\ \A e \in DOMAIN added : added[e] <= sent

\* A committed transaction has left the context, so nothing is added to it.
CommittedIsClosed == current \notin committed

\* Before its commit a command that began a transaction has it in the context, and the
\* store has all of its events.
HandlingIsStored ==
    \A i \in DOMAIN stack :
        stack[i].at = "handling" /\ stack[i].tx = stack[i].cmd =>
            /\ current = stack[i].cmd
            /\ \A e \in DOMAIN added : added[e] = current => e \in store

\* After it each event of the command is published or still in the list to publish,
\* unless its sender has seen the commit throw.
CommittedIsListed ==
    \A e \in DOMAIN added :
        added[e] \in committed =>
            \/ \E k \in DOMAIN delivered : delivered[k] = e
            \/ \E i \in DOMAIN stack : stack[i].cmd = added[e] /\ e \in stack[i].pending
            \/ outcome[added[e]] = "threw"

LossInv == PendingIsUnderWay /\ CommittedIsClosed /\ HandlingIsStored /\ CommittedIsListed

LEMMA InitLoss == Init => LossInv
  BY DEF Init, LossInv, PendingIsUnderWay, CommittedIsClosed, HandlingIsStored,
         CommittedIsListed, NoCommand

\* A command that ends has nothing left to publish, and all below it are past their commit.
LEMMA PopKeepsLoss ==
    ASSUME EventsInv, LossInv, stack # <<>>, stack' = Below, Top.pending = {},
           UNCHANGED <<added, delivered, sent>>,
           NEW o \in {"ok", "threw"}, outcome' = [outcome EXCEPT ![Top.cmd] = o],
           \/ UNCHANGED <<current, committed>>
           \/ /\ o = "threw" /\ current' = NoCommand
              /\ committed' \in {committed, committed \cup {Top.cmd}}
    PROVE  LossInv'
<1> USE DEF EventsInv, Types, LossInv
<1>1. /\ stack' \in Seq(Frames) /\ Len(stack') = Len(stack) - 1
      /\ \A i \in DOMAIN stack' : i \in DOMAIN stack /\ i < Len(stack) /\ stack'[i] = stack[i]
      /\ \A i \in DOMAIN stack : i # Len(stack) => i \in DOMAIN stack'
  BY BelowKeeps
<1>2. /\ Len(stack) \in DOMAIN stack /\ Top = stack[Len(stack)]
      /\ Top \in Frames /\ Top.cmd \in Commands /\ Top.cmd \in 1..sent
  BY TopIsFrame DEF Nested, Frames
<1>3. PendingIsUnderWay'
  <2>1. /\ outcome' \in [Commands -> {"pending", "ok", "threw"}]
        /\ \A c \in Commands : c > sent => outcome'[c] = "pending"
    BY <1>2 DEF PendingIsUnderWay, Commands
  <2>2. \A i \in DOMAIN stack' : stack[i].cmd # Top.cmd
    BY <1>1, <1>2 DEF Nested
  <2>3. \A i \in DOMAIN stack' : outcome'[stack'[i].cmd] = "pending"
    <3> SUFFICES ASSUME NEW i \in DOMAIN stack' PROVE outcome'[stack'[i].cmd] = "pending"
      OBVIOUS
    <3>1. i \in DOMAIN stack /\ stack'[i] = stack[i] /\ stack[i] \in Frames
      BY <1>1
    <3>2. stack[i].cmd \in Commands /\ stack[i].cmd # Top.cmd
      BY <2>2, <3>1 DEF Frames
    <3>3. QED
      BY <3>1, <3>2 DEF PendingIsUnderWay
  <2>4. current' <= sent' /\ \A e \in DOMAIN added' : added'[e] <= sent'
    BY DEF PendingIsUnderWay, NoCommand
  <2>5. QED
    BY <2>1, <2>3, <2>4 DEF PendingIsUnderWay
<1>4. CommittedIsClosed'
  BY <1>2 DEF CommittedIsClosed, NoCommand
<1>5. HandlingIsStored'
  <2>1. \A i \in DOMAIN stack' : stack'[i].at # "handling"
    BY <1>1 DEF Nested
  <2>2. QED
    BY <2>1 DEF HandlingIsStored
<1>6. CommittedIsListed'
  <2> SUFFICES ASSUME NEW e \in DOMAIN added, added[e] \in committed',
                      ~ \E k \in DOMAIN delivered : delivered[k] = e
               PROVE  \/ \E i \in DOMAIN stack' : stack'[i].cmd = added[e] /\ e \in stack'[i].pending
                      \/ outcome'[added[e]] = "threw"
    BY DEF CommittedIsListed
  <2>1. CASE added[e] \notin committed
    <3>1. added[e] = Top.cmd /\ o = "threw"
      BY <2>1
    <3>2. QED
      BY <1>2, <3>1 DEF PendingIsUnderWay
  <2>2. CASE \E i \in DOMAIN stack : stack[i].cmd = added[e] /\ e \in stack[i].pending
    <3>1. PICK i \in DOMAIN stack : stack[i].cmd = added[e] /\ e \in stack[i].pending
      BY <2>2
    <3>2. i \in DOMAIN stack' /\ stack'[i] = stack[i]
      BY <1>1, <1>2, <3>1
    <3>3. QED
      BY <3>1, <3>2
  <2>3. CASE outcome[added[e]] = "threw"
    <3>1. outcome[Top.cmd] = "pending"
      BY <1>2 DEF PendingIsUnderWay
    <3>2. added[e] # Top.cmd
      BY <2>3, <3>1
    <3>3. outcome'[added[e]] = outcome[added[e]]
      BY <3>2 DEF PendingIsUnderWay
    <3>4. QED
      BY <2>3, <3>3
  <2>4. QED
    BY <2>1, <2>2, <2>3 DEF CommittedIsListed
<1>7. QED
  BY <1>3, <1>4, <1>5, <1>6

\* A new command finds no events of its own.
LEMMA SendKeepsLoss == EventsInv /\ LossInv /\ Send => LossInv'
<1> SUFFICES ASSUME EventsInv, LossInv, Send PROVE LossInv'
  OBVIOUS
<1> USE DEF EventsInv, Types, LossInv
<1> DEFINE tx == IF current = NoCommand THEN sent' ELSE current
           f == [cmd |-> sent', tx |-> tx, at |-> "handling", pending |-> {}]
<1>1. /\ sent' = sent + 1 /\ sent' \in Commands
      /\ current' = tx /\ tx \in Commands
      /\ stack' = Append(stack, f) /\ f \in Frames
      /\ UNCHANGED <<added, delivered, store, committed, outcome>>
  BY BoundsAssumption DEF Send, Frames, Commands
<1>2. /\ stack'[Len(stack) + 1] = f
      /\ \A i \in DOMAIN stack : stack'[i] = stack[i]
      /\ DOMAIN stack' = DOMAIN stack \cup {Len(stack) + 1}
  BY <1>1
<1>3. \A i \in DOMAIN stack : stack[i].at # "handling"
  <2>1. stack = <<>> \/ Top.at = "delivering"
    BY DEF Send, At
  <2>2. QED
    BY <2>1 DEF Nested, Top
<1>4. PendingIsUnderWay'
  <2>1. outcome[sent'] = "pending"
    BY <1>1 DEF PendingIsUnderWay
  <2>2. \A i \in DOMAIN stack' : outcome[stack'[i].cmd] = "pending"
    BY <1>1, <1>2, <2>1 DEF PendingIsUnderWay
  <2>3. current' <= sent' /\ \A e \in DOMAIN added' : added'[e] <= sent'
    <3>1. sent \in Nat /\ current \in Int /\ \A e \in DOMAIN added : added[e] \in Int
      BY DEF Commands, NoCommand
    <3>2. current <= sent /\ \A e \in DOMAIN added : added[e] <= sent
      BY DEF PendingIsUnderWay
    <3>3. tx <= sent'
      BY <1>1, <3>1, <3>2
    <3>4. QED
      BY <1>1, <3>1, <3>2, <3>3
  <2>4. \A c \in Commands : c > sent' => outcome[c] = "pending"
    BY <1>1 DEF PendingIsUnderWay, Commands
  <2>5. QED
    BY <1>1, <2>1, <2>2, <2>3, <2>4 DEF PendingIsUnderWay
<1>5. CommittedIsClosed'
  BY <1>1 DEF CommittedIsClosed
<1>6. HandlingIsStored'
  BY <1>1, <1>2, <1>3 DEF HandlingIsStored, PendingIsUnderWay, NoCommand
<1>7. CommittedIsListed'
  BY <1>1, <1>2 DEF CommittedIsListed
<1>8. QED
  BY <1>4, <1>5, <1>6, <1>7

\* An event is added to the store under a transaction that is not committed.
LEMMA AddKeepsLoss == EventsInv /\ LossInv /\ AddEvent => LossInv'
<1> SUFFICES ASSUME EventsInv, LossInv, AddEvent PROVE LossInv'
  OBVIOUS
<1> USE DEF EventsInv, Types, LossInv
<1>1. /\ added' = Append(added, current)
      /\ store' = store \cup {Len(added')}
      /\ UNCHANGED <<current, stack, delivered, committed, sent, outcome>>
  BY DEF AddEvent, commandVars
<1>2. /\ DOMAIN added' = DOMAIN added \cup {Len(added')}
      /\ added'[Len(added')] = current
      /\ \A e \in DOMAIN added : added'[e] = added[e]
  BY <1>1
<1>3. PendingIsUnderWay' /\ CommittedIsClosed' /\ HandlingIsStored'
  BY <1>1, <1>2 DEF PendingIsUnderWay, CommittedIsClosed, HandlingIsStored
<1>4. CommittedIsListed'
  BY <1>1, <1>2 DEF CommittedIsListed, CommittedIsClosed
<1>5. QED
  BY <1>3, <1>4

\* A command on the stack goes on: all of its events that are not published must be in
\* its list, and those of the others stay where they are.
LEMMA GoOnKeepsLoss ==
    ASSUME EventsInv, LossInv, stack # <<>>, NEW rest \in SUBSET EventIds,
           NEW place \in {"publishing", "delivering"}, stack' = Move(place, rest),
           UNCHANGED <<store, added, sent, outcome>>,
           \/ UNCHANGED <<current, committed>>
           \/ current' = NoCommand /\ committed' = committed \cup {Top.cmd},
           \A k \in DOMAIN delivered : \E l \in DOMAIN delivered' : delivered'[l] = delivered[k],
           \A e \in DOMAIN added :
              added[e] = Top.cmd /\ (e \in Top.pending \/ Top.cmd \notin committed) =>
                 e \in rest \/ \E k \in DOMAIN delivered' : delivered'[k] = e
    PROVE  LossInv'
<1> USE DEF EventsInv, Types, LossInv
<1> DEFINE f == [cmd |-> Top.cmd, tx |-> Top.tx, at |-> place, pending |-> rest]
<1>1. Len(stack) \in DOMAIN stack /\ Top = stack[Len(stack)] /\ Top \in Frames
  BY TopIsFrame
<1>2. f \in Frames /\ stack' = [stack EXCEPT ![Len(stack)] = f]
  BY <1>1 DEF Frames, Move
<1>3. /\ stack'[Len(stack)] = f /\ DOMAIN stack' = DOMAIN stack
      /\ \A i \in DOMAIN stack : i # Len(stack) => stack'[i] = stack[i]
  BY <1>2, ReplaceTop
<1>4. Top.cmd \in 1..sent
  BY <1>1 DEF Nested
<1>5. \A i \in DOMAIN stack : stack'[i].cmd = stack[i].cmd
  BY <1>1, <1>3
<1>6. PendingIsUnderWay'
  BY <1>3, <1>5 DEF PendingIsUnderWay, NoCommand
<1>7. CommittedIsClosed'
  BY <1>4 DEF CommittedIsClosed, NoCommand
<1>8. HandlingIsStored'
  <2>1. \A i \in DOMAIN stack' : stack'[i].at # "handling"
    BY <1>3 DEF Nested
  <2>2. QED
    BY <2>1 DEF HandlingIsStored
<1>9. CommittedIsListed'
  <2> SUFFICES ASSUME NEW e \in DOMAIN added, added[e] \in committed',
                      ~ \E k \in DOMAIN delivered' : delivered'[k] = e,
                      outcome[added[e]] # "threw"
               PROVE  \E i \in DOMAIN stack' : stack'[i].cmd = added[e] /\ e \in stack'[i].pending
    BY DEF CommittedIsListed
  <2>1. CASE added[e] \notin committed
    <3>1. added[e] = Top.cmd /\ Top.cmd \notin committed
      BY <2>1
    <3>2. QED
      BY <1>1, <1>3, <3>1
  <2>2. CASE added[e] \in committed
    <3>1. ~ \E k \in DOMAIN delivered : delivered[k] = e
      OBVIOUS
    <3>2. PICK i \in DOMAIN stack : stack[i].cmd = added[e] /\ e \in stack[i].pending
      BY <2>2, <3>1 DEF CommittedIsListed
    <3>3. CASE i = Len(stack)
      BY <1>1, <1>3, <3>2, <3>3
    <3>4. CASE i # Len(stack)
      BY <1>3, <3>2, <3>4
    <3>5. QED
      BY <3>3, <3>4
  <2>3. QED
    BY <2>1, <2>2
<1>10. QED
  BY <1>6, <1>7, <1>8, <1>9

\* At its commit a command lists all of its events, for the store has them all.
LEMMA CommitKeepsLoss == EventsInv /\ LossInv /\ Commit => LossInv'
<1> SUFFICES ASSUME EventsInv, LossInv, Commit PROVE LossInv'
  OBVIOUS
<1> USE DEF EventsInv, Types, LossInv
<1> DEFINE own == {e \in store : added[e] = Top.cmd}
<1>1. /\ stack # <<>> /\ Top.at = "handling" /\ Top.tx = Top.cmd
      /\ stack' = Move("publishing", own)
      /\ committed' = committed \cup {Top.cmd} /\ current' = NoCommand
      /\ UNCHANGED <<store, added, delivered, sent, outcome>>
  BY DEF Commit, At
<1>2. own \subseteq EventIds
  BY BoundsAssumption DEF EventIds
<1>3. Len(stack) \in DOMAIN stack /\ Top = stack[Len(stack)]
  BY <1>1, TopIsFrame
<1>4. \A e \in DOMAIN added : added[e] = Top.cmd => e \in own
  BY <1>1, <1>3 DEF HandlingIsStored
<1> HIDE DEF own
<1>5. QED
  BY <1>1, <1>2, <1>4, GoOnKeepsLoss

\* The event that leaves the list is published.
LEMMA DeliverKeepsLoss == EventsInv /\ LossInv /\ Deliver => LossInv'
<1> SUFFICES ASSUME EventsInv, LossInv, Deliver PROVE LossInv'
  OBVIOUS
<1> USE DEF EventsInv, Types, LossInv
<1>1. /\ stack # <<>> /\ Top.at = "publishing"
      /\ UNCHANGED <<current, store, added, committed, sent, outcome>>
  BY DEF Deliver, At, commandVars
<1>2. Len(stack) \in DOMAIN stack /\ Top \in Frames /\ Top = stack[Len(stack)]
  BY <1>1, TopIsFrame
<1>3. PICK e \in Top.pending :
         delivered' = Append(delivered, e) /\ stack' = Move("delivering", Top.pending \ {e})
  BY DEF Deliver
<1>4. Top.pending \ {e} \in SUBSET EventIds /\ e \in Nat
  BY <1>2 DEF Frames, EventIds
<1>5. /\ \A k \in DOMAIN delivered : \E l \in DOMAIN delivered' : delivered'[l] = delivered[k]
      /\ \E l \in DOMAIN delivered' : delivered'[l] = e
  <2>1. /\ DOMAIN delivered' = DOMAIN delivered \cup {Len(delivered) + 1}
        /\ delivered'[Len(delivered) + 1] = e
        /\ \A k \in DOMAIN delivered : delivered'[k] = delivered[k]
    BY <1>3, <1>4
  <2>2. QED
    BY <2>1
<1>6. Top.cmd \in committed
  BY <1>1, <1>2 DEF Nested
<1>7. ASSUME NEW d \in DOMAIN added,
             added[d] = Top.cmd /\ (d \in Top.pending \/ Top.cmd \notin committed)
      PROVE  d \in Top.pending \ {e} \/ \E k \in DOMAIN delivered' : delivered'[k] = d
  BY <1>5, <1>6, <1>7
<1>8. stack' = Move("delivering", Top.pending \ {e})
  BY <1>3
<1> HIDE DEF EventsInv, Types, LossInv
<1>9. QED
  BY <1>1, <1>4, <1>5, <1>7, <1>8, GoOnKeepsLoss

LEMMA DeliveredKeepsLoss == EventsInv /\ LossInv /\ Delivered => LossInv'
<1> SUFFICES ASSUME EventsInv, LossInv, Delivered PROVE LossInv'
  OBVIOUS
<1> USE DEF EventsInv, Types, LossInv
<1>1. /\ stack # <<>> /\ Top.at = "delivering" /\ stack' = Move("publishing", Top.pending)
      /\ UNCHANGED <<current, store, added, delivered, committed, sent, outcome>>
  BY DEF Delivered, At, commandVars
<1>2. Len(stack) \in DOMAIN stack /\ Top \in Frames /\ Top = stack[Len(stack)]
  BY <1>1, TopIsFrame
<1>3. Top.pending \in SUBSET EventIds /\ Top.cmd \in committed
  BY <1>1, <1>2 DEF Frames, Nested
<1>4. QED
  BY <1>1, <1>3, GoOnKeepsLoss

LEMMA NextKeepsLoss == EventsInv /\ LossInv /\ [Next]_vars => LossInv'
<1> SUFFICES ASSUME EventsInv, LossInv, [Next]_vars PROVE LossInv'
  OBVIOUS
<1>1. CASE Send \/ AddEvent \/ Commit
  BY <1>1, SendKeepsLoss, AddKeepsLoss, CommitKeepsLoss
<1>2. CASE Deliver \/ Delivered
  BY <1>2, DeliverKeepsLoss, DeliveredKeepsLoss
<1>3. ASSUME stack # <<>>, Top.at = "handling" PROVE Top.pending = {}
  BY <1>3, TopIsFrame DEF EventsInv, Types, Nested
<1>4. CASE ReturnJoined
  BY <1>3, <1>4, PopKeepsLoss DEF ReturnJoined, At
<1>5. CASE CommandThrows
  BY <1>3, <1>5, PopKeepsLoss DEF CommandThrows, At
<1>6. CASE ClearTransactionEvents
  BY <1>6, PopKeepsLoss DEF ClearTransactionEvents, At
<1>7. CASE UNCHANGED vars
  BY <1>7 DEF vars, commandVars, LossInv, PendingIsUnderWay, CommittedIsClosed,
              HandlingIsStored, CommittedIsListed
<1>8. QED
  BY <1>1, <1>2, <1>4, <1>5, <1>6, <1>7 DEF Next

-----------------------------------------------------------------------------
LEMMA EventsInvariant == Spec => []EventsInv
  BY InitEvents, NextKeepsEvents, PTL DEF Spec

\* AIMediatrIntegrationEventService publishes no event twice, although ClearTransactionEvents
\* keeps what it should remove: each publishing reads its events once, and its
\* transaction is not committed again.
THEOREM Once == Spec => []PublishedOnce
  BY EventsInvariant, PTL DEF EventsInv

\* Nothing is published of a transaction that was rolled back.
THEOREM OnlyCommitted == Spec => []OnlyCommittedPublished
  BY EventsInvariant, PTL DEF EventsInv

\* The events of a transaction leave in the order in which handlers added them, also when
\* handlers of the first add or publish others before the second.
THEOREM InOrder == Spec => []PublishedInOrder
  BY EventsInvariant, PTL DEF EventsInv

\* A command that returned has published each event of its transaction, whatever the
\* handlers of the others threw, sent and cleared.
THEOREM AllPublished == Spec => []OkIsPublished
<1>1. Spec => [](EventsInv /\ LossInv)
  BY InitEvents, InitLoss, NextKeepsEvents, NextKeepsLoss, PTL DEF Spec
<1>2. EventsInv /\ LossInv => OkIsPublished
  BY DEF EventsInv, LossInv, OkIsPublished, PendingIsUnderWay, CommittedIsListed
<1>3. QED
  BY <1>1, <1>2, PTL

-----------------------------------------------------------------------------
(***************************************************************************)
(* Types, and how a command can return without being committed.            *)
(***************************************************************************)

\* A transaction that nobody handles under any more, and that is still in the context,
\* was left there by a command that threw; so was the one a command has joined.  Open
\* lets the scope go on only if that command was sent by the handler of an event.
LeftByThrow ==
    /\ current # NoCommand /\ ~At("handling") => \E d \in 1..sent : outcome[d] = "threw"
    /\ \A i \in DOMAIN stack : stack[i].tx # stack[i].cmd =>
          \E d \in 1..sent : d < stack[i].cmd /\ outcome[d] = "threw" /\ sender[d] # NoCommand
    /\ \A i \in DOMAIN stack : outcome[stack[i].cmd] = "pending"
    /\ \A c \in Commands : c > sent => outcome[c] = "pending"

LossCause == TypeOK /\ LeftByThrow /\ LossNeedsFailedDelivery

LEMMA InitCause == Init => LossCause
<1> SUFFICES ASSUME Init PROVE LossCause
  OBVIOUS
<1>1. TypeOK
  BY BoundsAssumption DEF Init, TypeOK
<1>2. LeftByThrow /\ LossNeedsFailedDelivery
  BY DEF Init, LeftByThrow, LossNeedsFailedDelivery
<1> QED  BY <1>1, <1>2 DEF LossCause

\* The innermost command leaves: the one below it is not in its handler.
LEMMA PopUncovers ==
    ASSUME EventsInv, stack # <<>>, stack' = Below
    PROVE  /\ stack' \in Seq(Frames) /\ Len(stack') = Len(stack) - 1
           /\ \A i \in DOMAIN stack' :
                 i \in DOMAIN stack /\ i < Len(stack) /\ stack'[i] = stack[i] /\ stack[i].cmd # Top.cmd
           /\ ~At("handling")'
<1> USE DEF EventsInv, Types
<1>1. /\ stack' \in Seq(Frames) /\ Len(stack') = Len(stack) - 1
      /\ \A i \in DOMAIN stack' : i \in DOMAIN stack /\ i < Len(stack) /\ stack'[i] = stack[i]
  BY BelowKeeps
<1>2. Len(stack) \in DOMAIN stack /\ Top = stack[Len(stack)]
  BY TopIsFrame
<1>3. \A i \in DOMAIN stack' : stack[i].cmd # Top.cmd
  <2> SUFFICES ASSUME NEW i \in DOMAIN stack' PROVE stack[i].cmd # Top.cmd
    OBVIOUS
  <2>1. i \in DOMAIN stack /\ i < Len(stack) /\ Len(stack) \in DOMAIN stack
    BY <1>1, <1>2
  <2>2. stack[i].cmd < stack[Len(stack)].cmd
    BY <2>1 DEF Nested
  <2>3. stack[i].cmd \in 1..sent
    BY <2>1 DEF Nested
  <2> QED  BY <2>2, <2>3, <1>2
<1>4. \A i \in DOMAIN stack' : stack'[i].at # "handling"
  BY <1>1 DEF Nested
<1>5. ~At("handling")'
  BY <1>1, <1>4 DEF At, Top
<1> QED  BY <1>1, <1>3, <1>5

\* It returns, or it throws: what it leaves behind are the others as they were.
LEMMA PopKeepsCause ==
    ASSUME EventsInv, LossCause, stack # <<>>, stack' = Below,
           UNCHANGED <<added, delivered, sent, sender>>, store' \subseteq store,
           current' \in {current, NoCommand},
           committed' \in {committed, committed \cup {Top.cmd}},
           NEW end \in {"ok", "threw"}, outcome' = [outcome EXCEPT ![Top.cmd] = end],
           At("handling") => end = "threw" \/ Top.tx # Top.cmd,
           end = "ok" => Top.cmd \in committed \/ Top.tx # Top.cmd
    PROVE  LossCause'
<1> USE DEF EventsInv, Types
<1>1. /\ stack' \in Seq(Frames) /\ Len(stack') = Len(stack) - 1
      /\ \A i \in DOMAIN stack' :
            i \in DOMAIN stack /\ i < Len(stack) /\ stack'[i] = stack[i] /\ stack[i].cmd # Top.cmd
      /\ ~At("handling")'
  BY PopUncovers
<1>2. /\ Len(stack) \in DOMAIN stack /\ Top = stack[Len(stack)] /\ Top \in Frames
      /\ Top.cmd \in 1..sent /\ Top.cmd \in Commands
  BY TopIsFrame DEF Nested, Frames
<1>3. outcome[Top.cmd] = "pending" /\ outcome \in [Commands -> {"pending", "ok", "threw"}]
  BY <1>2 DEF LossCause, LeftByThrow, TypeOK
<1>4. \A d \in Commands : outcome[d] = "threw" => outcome'[d] = "threw"
  BY <1>2, <1>3
<1>5. TypeOK'
  <2>1. Len(stack') <= MaxNesting
    BY <1>1, BoundsAssumption DEF LossCause, TypeOK
  <2>2. outcome' \in [Commands -> {"pending", "ok", "threw"}]
    BY <1>3
  <2>3. committed' \subseteq Commands /\ current' \in Commands \cup {NoCommand}
    BY <1>2 DEF LossCause, TypeOK
  <2> QED  BY <1>1, <2>1, <2>2, <2>3 DEF LossCause, TypeOK
<1>6. 1..sent \subseteq Commands /\ sent \in Nat
  BY BoundsAssumption DEF LossCause, TypeOK, Commands
<1>7. LeftByThrow'
  <2>1. current' # NoCommand => \E d \in 1..sent : outcome'[d] = "threw"
    <3> SUFFICES ASSUME current' # NoCommand PROVE \E d \in 1..sent : outcome'[d] = "threw"
      OBVIOUS
    <3>1. CASE At("handling") /\ end = "threw"
      BY <3>1, <1>2, <1>3
    <3>2. CASE At("handling") /\ Top.tx # Top.cmd
      BY <3>2, <1>2, <1>4, <1>6 DEF LossCause, LeftByThrow
    <3>3. CASE ~At("handling")
      BY <3>3, <1>4, <1>6 DEF LossCause, LeftByThrow
    <3> QED  BY <3>1, <3>2, <3>3
  <2>2. \A i \in DOMAIN stack' : stack'[i].tx # stack'[i].cmd =>
           \E d \in 1..sent : d < stack'[i].cmd /\ outcome'[d] = "threw" /\ sender[d] # NoCommand
    BY <1>1, <1>4, <1>6 DEF LossCause, LeftByThrow
  <2>3. \A i \in DOMAIN stack' : outcome'[stack'[i].cmd] = "pending"
    <3> SUFFICES ASSUME NEW i \in DOMAIN stack' PROVE outcome'[stack'[i].cmd] = "pending"
      OBVIOUS
    <3>1. stack[i].cmd \in Commands /\ outcome[stack[i].cmd] = "pending"
      BY <1>1, <1>6 DEF LossCause, LeftByThrow, Nested
    <3> QED  BY <3>1, <1>1, <1>3
  <2>4. \A c \in Commands : c > sent => outcome'[c] = "pending"
    BY <1>2, <1>3 DEF LossCause, LeftByThrow, Commands
  <2> QED  BY <2>1, <2>2, <2>3, <2>4, Zenon DEF LeftByThrow
<1>8. LossNeedsFailedDelivery'
  <2> SUFFICES ASSUME NEW c \in Commands, c \notin committed', outcome'[c] = "ok"
               PROVE  \E d \in Commands : d < c /\ outcome'[d] = "threw" /\ sender[d] # NoCommand
    BY DEF LossNeedsFailedDelivery
  <2>1. CASE c = Top.cmd
    <3>1. Top.tx # Top.cmd
      BY <2>1, <1>2, <1>3
    <3> QED  BY <3>1, <2>1, <1>2, <1>4, <1>6 DEF LossCause, LeftByThrow
  <2>2. CASE c # Top.cmd
    BY <2>2, <1>3, <1>4 DEF LossCause, LossNeedsFailedDelivery
  <2> QED  BY <2>1, <2>2
<1> QED  BY <1>5, <1>7, <1>8 DEF LossCause

\* A command that meets a transaction comes after the one that threw it away.
LEMMA SendKeepsCause == EventsInv /\ LossCause /\ Send => LossCause'
<1> SUFFICES ASSUME EventsInv, LossCause, Send PROVE LossCause'
  OBVIOUS
<1> USE DEF EventsInv, Types
<1> DEFINE tx == IF current = NoCommand THEN sent' ELSE current
           f == [cmd |-> sent', tx |-> tx, at |-> "handling", pending |-> {}]
           by == IF stack = <<>> THEN NoCommand ELSE Top.cmd
<1>1. /\ sent' = sent + 1 /\ sent' \in Commands /\ sent' \in 0..MaxCommands
      /\ current' = tx /\ tx \in Commands
      /\ stack' = Append(stack, f) /\ f \in Frames /\ Len(stack) < MaxNesting
      /\ UNCHANGED <<added, delivered, store, committed, outcome>>
      /\ sender' = [sender EXCEPT ![sent'] = by] /\ Open
      /\ sent \in Nat
  BY BoundsAssumption DEF Send, Frames, Commands
<1>2. /\ stack' \in Seq(Frames) /\ Len(stack') = Len(stack) + 1
      /\ stack'[Len(stack) + 1] = f
      /\ \A i \in DOMAIN stack : stack'[i] = stack[i]
      /\ DOMAIN stack' = DOMAIN stack \cup {Len(stack) + 1}
      /\ f.cmd = sent' /\ f.tx = tx /\ f.at = "handling"
  BY <1>1
<1>3. by \in Commands \cup {NoCommand}
  <2>1. stack # <<>> => Top.cmd \in Commands
    BY TopIsFrame DEF Frames
  <2> QED  BY <2>1
<1>4. sender' \in [Commands -> Commands \cup {NoCommand}]
  BY <1>1, <1>3 DEF LossCause, TypeOK
<1>5. \A d \in 1..sent : d \in Commands /\ sender'[d] = sender[d]
  <2> SUFFICES ASSUME NEW d \in 1..sent PROVE d \in Commands /\ sender'[d] = sender[d]
    OBVIOUS
  <2>1. d \in Commands /\ d # sent'
    BY <1>1, BoundsAssumption DEF LossCause, TypeOK, Commands
  <2> QED  BY <2>1, <1>1 DEF LossCause, TypeOK
<1> HIDE DEF tx, f, by
<1>6. TypeOK'
  <2>1. Len(stack') <= MaxNesting
    BY <1>1, <1>2, BoundsAssumption
  <2>2. stack' \in Seq(Frames) /\ current' \in Commands \cup {NoCommand} /\ sent' \in 0..MaxCommands
    BY <1>1, <1>2
  <2> QED  BY <1>1, <1>4, <2>1, <2>2 DEF LossCause, TypeOK
<1>7. At("handling")'
  BY <1>2 DEF At, Top
<1>8. LeftByThrow'
  <2>1. \A i \in DOMAIN stack' : stack'[i].tx # stack'[i].cmd =>
           \E d \in 1..sent' : d < stack'[i].cmd /\ outcome[d] = "threw" /\ sender'[d] # NoCommand
    <3> SUFFICES ASSUME NEW i \in DOMAIN stack', stack'[i].tx # stack'[i].cmd
                 PROVE  \E d \in 1..sent : d < stack'[i].cmd /\ outcome[d] = "threw" /\ sender'[d] # NoCommand
      BY <1>1
    <3>1. CASE i \in DOMAIN stack
      BY <3>1, <1>2, <1>5 DEF LossCause, LeftByThrow
    <3>2. CASE i = Len(stack) + 1
      <4>1. current # NoCommand /\ stack'[i].cmd = sent + 1
        BY <3>2, <1>1, <1>2 DEF tx
      <4>2. ~At("handling")
        BY DEF Send, At
      <4>3. PICK d \in 1..sent : outcome[d] = "threw"
        BY <4>1, <4>2 DEF LossCause, LeftByThrow
      <4>4. d \in Commands /\ sender'[d] = sender[d]
        BY <1>5
      <4>5. d < stack'[i].cmd
        BY <4>1, <1>1
      <4> QED  BY <4>3, <4>4, <4>5, <1>1 DEF Open
    <3> QED  BY <3>1, <3>2, <1>2
  <2>2. \A i \in DOMAIN stack' : outcome[stack'[i].cmd] = "pending"
    BY <1>1, <1>2 DEF LossCause, LeftByThrow
  <2>3. \A c \in Commands : c > sent' => outcome[c] = "pending"
    BY <1>1 DEF LossCause, LeftByThrow, Commands
  <2> QED  BY <1>1, <1>7, <2>1, <2>2, <2>3 DEF LeftByThrow
<1>9. LossNeedsFailedDelivery'
  <2> SUFFICES ASSUME NEW c \in Commands \ committed, outcome[c] = "ok"
               PROVE  \E d \in Commands : d < c /\ outcome[d] = "threw" /\ sender'[d] # NoCommand
    BY <1>1 DEF LossNeedsFailedDelivery
  <2>1. PICK d \in Commands : d < c /\ outcome[d] = "threw" /\ sender[d] # NoCommand
    BY DEF LossCause, LossNeedsFailedDelivery
  <2>2. ~(d > sent)
    BY <2>1 DEF LossCause, LeftByThrow
  <2>3. d \in 1..sent
    BY <2>2, <1>1, BoundsAssumption DEF Commands
  <2> QED  BY <2>1, <2>3, <1>5
<1> QED  BY <1>6, <1>8, <1>9 DEF LossCause

\* The innermost command goes on, with its transaction.
LEMMA GoOnKeepsCause ==
    ASSUME EventsInv, LossCause, stack # <<>>, NEW place \in {"publishing", "delivering"},
           NEW rest \in SUBSET EventIds, stack' = Move(place, rest),
           At("handling") => current' = NoCommand,
           current' \in {current, NoCommand}, delivered' \in Seq(1..Len(added)),
           committed' \in {committed, committed \cup {Top.cmd}},
           UNCHANGED <<store, added, sent, outcome, sender>>
    PROVE  LossCause'
<1> USE DEF EventsInv, Types
<1> DEFINE f == [cmd |-> Top.cmd, tx |-> Top.tx, at |-> place, pending |-> rest]
<1>1. Len(stack) \in DOMAIN stack /\ Top = stack[Len(stack)] /\ Top \in Frames /\ Top.cmd \in Commands
  BY TopIsFrame DEF Frames
<1>2. f \in Frames /\ f.cmd = Top.cmd /\ f.tx = Top.tx /\ f.at = place
  BY <1>1 DEF Frames
<1>3. stack' = [stack EXCEPT ![Len(stack)] = f]
  BY DEF Move
<1>4. /\ stack' \in Seq(Frames) /\ Len(stack') = Len(stack) /\ DOMAIN stack' = DOMAIN stack
      /\ stack'[Len(stack)] = f
      /\ \A i \in DOMAIN stack : i # Len(stack) => stack'[i] = stack[i]
  BY <1>2, <1>3, ReplaceTop
<1>5. \A i \in DOMAIN stack : stack'[i].cmd = stack[i].cmd /\ stack'[i].tx = stack[i].tx
  BY <1>1, <1>2, <1>4
<1> HIDE DEF f
<1>6. TypeOK'
  BY <1>1, <1>4 DEF LossCause, TypeOK
<1>7. ~At("handling")'
  BY <1>2, <1>4 DEF At, Top
<1>8. LeftByThrow'
  BY <1>4, <1>5, <1>7 DEF LossCause, LeftByThrow
<1>9. LossNeedsFailedDelivery'
  BY DEF LossCause, LossNeedsFailedDelivery
<1> QED  BY <1>6, <1>8, <1>9 DEF LossCause

LEMMA NextKeepsCause == EventsInv /\ LossCause /\ [Next]_vars => LossCause'
<1> SUFFICES ASSUME EventsInv, LossCause, [Next]_vars PROVE LossCause'
  OBVIOUS
<1>1. CASE Send
  BY <1>1, SendKeepsCause
<1>2. CASE AddEvent
  <2>1. /\ added' = Append(added, current) /\ store' = store \cup {Len(added')}
        /\ current \in Commands /\ Len(added) < MaxEvents
        /\ UNCHANGED <<current, stack, delivered, committed, sent, outcome, sender>>
    BY <1>2 DEF AddEvent, commandVars, LossCause, TypeOK
  <2>2. /\ added' \in Seq(Commands) /\ Len(added') = Len(added) + 1 /\ Len(added) \in Nat
    BY <2>1 DEF LossCause, TypeOK
  <2>3. delivered \in Seq(1..Len(added'))
    <3>1. 1..Len(added) \subseteq 1..Len(added')
      BY <2>2
    <3>2. delivered \in Seq(1..Len(added))
      BY DEF LossCause, TypeOK
    <3> QED  BY <3>1, <3>2, SeqMonotonic
  <2>4. TypeOK'
    <3>1. Len(added') <= MaxEvents
      BY <2>1, <2>2, BoundsAssumption
    <3>2. store' \subseteq 1..Len(added')
      <4>1. \A e \in store : e \in 1..Len(added)
        BY DEF LossCause, TypeOK
      <4>2. \A e \in 1..Len(added) : e \in 1..Len(added')
        BY <2>2
      <4>3. Len(added') \in 1..Len(added')
        BY <2>2
      <4> QED  BY <2>1, <4>1, <4>2, <4>3
    <3> QED  BY <2>1, <2>2, <2>3, <3>1, <3>2 DEF LossCause, TypeOK
  <2>5. LeftByThrow' /\ LossNeedsFailedDelivery'
    BY <2>1 DEF LossCause, LeftByThrow, LossNeedsFailedDelivery, At, Top
  <2> QED  BY <2>4, <2>5 DEF LossCause
<1>3. CASE ReturnJoined
  BY <1>3, PopKeepsCause DEF ReturnJoined, At
<1>4. CASE CommandThrows
  BY <1>4, PopKeepsCause DEF CommandThrows, At
<1>5. CASE ClearTransactionEvents
  <2>1. stack # <<>> /\ Top.at = "publishing" /\ Top.cmd \in committed
    BY <1>5, TopIsFrame DEF ClearTransactionEvents, At, EventsInv, Types, Nested
  <2> QED  BY <2>1, <1>5, PopKeepsCause DEF ClearTransactionEvents, At
<1>6. CASE Commit
  <2>1. {e \in store : added[e] = Top.cmd} \in SUBSET EventIds
    <3>1. store \subseteq 1..Len(added) /\ Len(added) <= MaxEvents /\ Len(added) \in Nat
      BY DEF LossCause, TypeOK
    <3>2. \A e \in store : e \in 1..Len(added)
      BY <3>1
    <3>3. \A e \in 1..Len(added) : e \in 1..MaxEvents
      BY <3>1, BoundsAssumption
    <3> QED  BY <3>2, <3>3 DEF EventIds
  <2>2. delivered \in Seq(1..Len(added))
    BY DEF LossCause, TypeOK
  <2> QED  BY <2>1, <2>2, <1>6, GoOnKeepsCause DEF Commit, At
<1>7. CASE Deliver
  <2>1. PICK e \in Top.pending :
           delivered' = Append(delivered, e) /\ stack' = Move("delivering", Top.pending \ {e})
    BY <1>7 DEF Deliver
  <2>2. stack # <<>> /\ Top.at = "publishing" /\ UNCHANGED <<current, store, added, commandVars>>
    BY <1>7 DEF Deliver, At
  <2>3. Top.pending \in SUBSET EventIds /\ e \in 1..Len(added)
    BY <2>2, TopIsFrame DEF EventsInv, Types, Frames, PendingIsNew
  <2>4. delivered' \in Seq(1..Len(added))
    BY <2>1, <2>3 DEF LossCause, TypeOK
  <2> QED  BY <2>1, <2>2, <2>3, <2>4, GoOnKeepsCause DEF commandVars, At
<1>8. CASE Delivered
  <2>1. stack # <<>> /\ Top.at = "delivering" /\ stack' = Move("publishing", Top.pending)
    BY <1>8 DEF Delivered, At
  <2>2. Top.pending \in SUBSET EventIds
    BY <2>1, TopIsFrame DEF EventsInv, Types, Frames
  <2>3. delivered \in Seq(1..Len(added))
    BY DEF LossCause, TypeOK
  <2> QED  BY <2>1, <2>2, <2>3, <1>8, GoOnKeepsCause DEF Delivered, commandVars, At
<1>9. CASE UNCHANGED vars
  BY <1>9 DEF vars, commandVars, LossCause, TypeOK, LeftByThrow, LossNeedsFailedDelivery, At, Top
<1> QED  BY <1>1, <1>2, <1>3, <1>4, <1>5, <1>6, <1>7, <1>8, <1>9 DEF Next

LEMMA CauseInvariant == Spec => []LossCause
  BY InitEvents, InitCause, NextKeepsEvents, NextKeepsCause, PTL DEF Spec

\* Every variable keeps its type, and an event is never added without a transaction.
THEOREM TypeCorrect == Spec => []TypeOK
<1>1. LossCause => TypeOK
  BY DEF LossCause
<1> QED  BY <1>1, CauseInvariant, PTL

\* A command that returns uncommitted comes after a command that an event handler sent
\* and that threw: only there does the scope outlive a transaction left in its context.
THEOREM LossIsCaused == Spec => []LossNeedsFailedDelivery
<1>1. LossCause => LossNeedsFailedDelivery
  BY DEF LossCause
<1> QED  BY <1>1, CauseInvariant, PTL
=============================================================================

------------------------- MODULE CommandScopeProofs -------------------------
(***************************************************************************)
(* Proofs about CommandScope: whatever handlers do, for any number of      *)
(* guests and commands in the scope, any nesting and any amount of work.   *)
(***************************************************************************)
EXTENDS CommandScope, TLAPS

\* The sender's command is under way: begun, and not yet committed or failed.
Active(s) == pc[s] \in {"handling", "dispatch", "round", "onEvent"}

\* The transaction under way is the sender's.
Holds(s) == begun[s] # None /\ Active(s)

\* Commands have numbers of their own, and a command is where its sender stands: only
\* one that joined a transaction runs its handler without having begun one.
SenderInv ==
    /\ \A s \in Senders :
        /\ cmd[s] <= sent
        /\ pc[s] = "closed" => s = Owner
        /\ pc[s] \notin {"idle", "closed"} => cmd[s] \in Commands
        /\ pc[s] \in {"dispatch", "round", "onEvent", "publish"} => begun[s] # None
        /\ pc[s] \in {"dispatch", "round", "publish"} => depth[s] = begun[s]
        /\ pc[s] = "onEvent" => depth[s] >= begun[s]
        /\ pc[s] \in {"idle", "beginning"} => begun[s] = None
        /\ pc[s] = "idle" => depth[s] = 0
        /\ begun[s] > 0 => cmd[s] \in joined
        /\ pc[s] = "beginning" /\ depth[s] # 0 => cmd[s] \in joined
        /\ pc[s] = "handling" /\ begun[s] = None => cmd[s] \in joined
        /\ Active(s) \/ pc[s] \in {"beginning", "publish"} => outcome[cmd[s]] = "pending"
    /\ \A s, t \in Senders : cmd[s] = cmd[t] /\ cmd[s] # 0 => s = t
    /\ \A c \in Commands :
        c > sent => WrittenBy(c) = {} /\ outcome[c] = "pending" /\ c \notin joined

\* One sender holds the transaction, which lives as long as the scope.
HoldInv ==
    /\ \A s \in Senders :
        Holds(s) => transaction = IF Open THEN "live" ELSE "disposed"
    /\ \A s, t \in Senders : Holds(s) /\ Holds(t) => s = t
    /\ ~Open => tracked = {}

\* A sender that is alone meets no transaction but its own.
AloneInv ==
    ~Shared => /\ joined = {}
               /\ pc[Owner] \in {"idle", "beginning", "publish"} => transaction = "null"

\* The changes of a command that joined no transaction stay together: committed, or
\* tracked, or lost.  OkIsDurable alone is not inductive: the commit of a command has
\* to find all its changes in the tracker, though other senders commit before it.
Together(c) ==
    \/ WrittenBy(c) \subseteq durable
    \/ /\ WrittenBy(c) \cap durable = {}
       /\ WrittenBy(c) \subseteq tracked \/ WrittenBy(c) \cap tracked = {}

\* What its handler has written so far is not committed yet.
Unsaved(s) ==
    /\ pc[s] = "beginning" => WrittenBy(cmd[s]) = {}
    /\ Holds(s) => /\ WrittenBy(cmd[s]) \cap durable = {}
                   /\ Open => WrittenBy(cmd[s]) \subseteq tracked
    /\ pc[s] = "publish" => WrittenBy(cmd[s]) \subseteq durable

\* What a command that threw has left is safe behind the disposed transaction.
Settled(c) ==
    /\ outcome[c] = "ok" => WrittenBy(c) \subseteq durable
    /\ outcome[c] = "threw" =>
         /\ WrittenBy(c) \cap durable = {}
         /\ WrittenBy(c) \cap tracked # {} => transaction = "disposed"

ChangeInv ==
    /\ durable \subseteq written
    /\ tracked \subseteq written
    /\ \A c \in Commands \ joined : Together(c) /\ Settled(c)
    /\ \A s \in Senders : cmd[s] \in Commands \ joined => Unsaved(s)

ScopeInv == TypeOK /\ SenderInv /\ HoldInv /\ AloneInv /\ ChangeInv

-----------------------------------------------------------------------------
\* A new scope has committed and tracks nothing.
LEMMA InitScope == Init => ScopeInv
<1> SUFFICES ASSUME Init PROVE ScopeInv
  OBVIOUS
<1> USE BoundsAssumption DEF Init
<1>1. TypeOK
  <2>1. 0 \in 0..MaxCommands /\ 0 \in 0..MaxDepth /\ 0 \in 0..MaxWork
    OBVIOUS
  <2> QED  BY <2>1, Zenon DEF TypeOK
<1>2. \A c \in Commands : WrittenBy(c) = {} /\ outcome[c] = "pending"
  BY DEF WrittenBy
<1>3. SenderInv
  BY <1>2 DEF SenderInv, Active, Commands, None
<1>4. HoldInv
  BY DEF HoldInv, Holds, Open, Senders
<1>5. AloneInv
  BY DEF AloneInv
<1>6. ChangeInv
  BY <1>2 DEF ChangeInv, Together, Unsaved, Settled, Commands
<1> QED  BY <1>1, <1>3, <1>4, <1>5, <1>6 DEF ScopeInv

USE DEF Commands, None, sendVars, nestVars, scopeVars, dataVars, eventVars

\* Steps within a command that neither write nor end the transaction.
LEMMA ActiveKeeps ==
    ASSUME ScopeInv, NEW s \in Senders, TypeOK',
           pc' = [pc EXCEPT ![s] = pc'[s]], depth' = [depth EXCEPT ![s] = depth'[s]],
           Active(s), Active(s)',
           pc'[s] = "handling" => pc[s] = "handling",
           pc'[s] # "handling" => begun[s] # None,
           pc'[s] \in {"dispatch", "round"} => depth'[s] = begun[s],
           pc'[s] = "onEvent" => depth'[s] >= begun[s],
           UNCHANGED <<sendVars, begun, transaction, dataVars, outcome>>
    PROVE  ScopeInv'
<1> USE BoundsAssumption, SendersAssumption DEF ScopeInv, TypeOK, Active
<1>1. TypeOK'
  OBVIOUS
<1>2. SenderInv'
  BY <1>1 DEF SenderInv, WrittenBy, Active
<1>3. HoldInv'
  BY <1>1 DEF HoldInv, SenderInv, Holds, Active, Open, Senders
<1>4. AloneInv'
  BY <1>1 DEF AloneInv, SenderInv, Shared, Senders
<1>5. ASSUME NEW c \in Commands \ joined' PROVE (Together(c) /\ Settled(c))'
  <2>1. c \notin joined
    BY <1>5
  <2>2. WrittenBy(c)' = WrittenBy(c)
    BY DEF WrittenBy
  <2>3. Together(c) /\ Settled(c)
    BY <1>5, <2>1 DEF ChangeInv
  <2>4. Together(c)'
    BY <2>2, <2>3 DEF Together
  <2>5. Settled(c)'
    BY <1>5, <2>2, <2>3, <2>1
       DEF Settled, SenderInv, ChangeInv, HoldInv, Holds, Active, Open, Unsaved
  <2> QED  BY <2>4, <2>5
<1>6. ASSUME NEW t \in Senders, cmd'[t] \in Commands \ joined' PROVE Unsaved(t)'
  <2>1. WrittenBy(cmd[t])' = WrittenBy(cmd'[t])
    BY DEF WrittenBy
  <2>2. cmd'[t] = cmd[t] /\ cmd[t] \in Commands \ joined
    BY <1>6, <2>1
  <2>3. Unsaved(t)
    BY <2>2 DEF ChangeInv
  <2>4. Open' = Open
    BY DEF Open, SenderInv, Senders
  <2> QED  BY <2>1, <2>2, <2>3, <2>4 DEF Unsaved, SenderInv, Holds, Active, HoldInv
<1>7. ChangeInv'
  BY <1>5, <1>6 DEF ChangeInv
<1> QED  BY <1>1, <1>2, <1>3, <1>4, <1>7

\* A command that throws, wherever it stands.
LEMMA ThrowsKeeps ==
    ASSUME ScopeInv, NEW s \in Senders, CommandThrows(s),
           pc[s] = "beginning" \/ Active(s)
    PROVE  ScopeInv'
<1> USE BoundsAssumption, SendersAssumption DEF ScopeInv, TypeOK, CommandThrows, Active
<1>1. TypeOK'
  <2>1. dispatching' \in [Senders -> SUBSET Events]
    OBVIOUS
  <2>2. /\ pc' \in [Senders -> {"idle", "beginning", "handling", "dispatch", "round", "onEvent",
                                "publish", "failed", "closed"}]
        /\ depth' \in [Senders -> 0..MaxDepth]
        /\ begun' \in [Senders -> {None} \cup 0..MaxDepth]
    OBVIOUS
  <2>3. transaction' \in {"null", "live", "disposed"}
    OBVIOUS
  <2>4. outcome' \in [Commands -> {"pending", "ok", "threw", "commitFailed"}]
    OBVIOUS
  <2> QED  BY <2>1, <2>2, <2>3, <2>4
<1>2. SenderInv'
  BY <1>1 DEF SenderInv, WrittenBy, Active
<1>3. HoldInv'
  BY <1>1 DEF HoldInv, SenderInv, Holds, Active, Open, Senders
<1>4. AloneInv'
  BY <1>1 DEF AloneInv, SenderInv, Shared, Senders
<1>5. ASSUME NEW c \in Commands \ joined' PROVE (Together(c) /\ Settled(c))'
  <2>1. c \notin joined
    BY <1>5
  <2>2. WrittenBy(c)' = WrittenBy(c)
    BY DEF WrittenBy
  <2>3. Together(c) /\ Settled(c)
    BY <1>5, <2>1 DEF ChangeInv
  <2>4. Together(c)'
    BY <2>2, <2>3 DEF Together
  <2>5. Settled(c)'
    BY <1>5, <2>2, <2>3, <2>1
       DEF Settled, SenderInv, ChangeInv, HoldInv, Holds, Active, Open, Unsaved
  <2> QED  BY <2>4, <2>5
<1>6. ASSUME NEW t \in Senders, cmd'[t] \in Commands \ joined' PROVE Unsaved(t)'
  <2>1. WrittenBy(cmd[t])' = WrittenBy(cmd'[t])
    BY DEF WrittenBy
  <2>2. cmd'[t] = cmd[t] /\ cmd[t] \in Commands \ joined
    BY <1>6, <2>1
  <2>3. Unsaved(t)
    BY <2>2 DEF ChangeInv
  <2>4. Open' = Open
    BY DEF Open, SenderInv, Senders
  <2> QED  BY <2>1, <2>2, <2>3, <2>4 DEF Unsaved, SenderInv, Holds, Active, HoldInv
<1>7. ChangeInv'
  BY <1>5, <1>6 DEF ChangeInv
<1> QED  BY <1>1, <1>2, <1>3, <1>4, <1>7

\* A command that begins a transaction holds it alone.
LEMMA BeginTransactionKeeps ==
    ASSUME ScopeInv, NEW s \in Senders, BeginTransaction(s)
    PROVE  ScopeInv'
<1> USE BoundsAssumption, SendersAssumption
    DEF ScopeInv, TypeOK, BeginTransaction, HasActiveTransaction
<1>1. TypeOK'
  OBVIOUS
<1>2. SenderInv'
  BY <1>1 DEF SenderInv, WrittenBy, Active
<1>3. HoldInv'
  BY <1>1 DEF HoldInv, SenderInv, Holds, Active, Open, Senders
<1>4. AloneInv'
  BY <1>1 DEF AloneInv, SenderInv, Shared, Senders
<1>5. ASSUME NEW c \in Commands \ joined' PROVE (Together(c) /\ Settled(c))'
  <2>1. c \notin joined
    BY <1>5
  <2>2. WrittenBy(c)' = WrittenBy(c)
    BY DEF WrittenBy
  <2>3. Together(c) /\ Settled(c)
    BY <1>5, <2>1 DEF ChangeInv
  <2>4. Together(c)'
    BY <2>2, <2>3 DEF Together
  <2>5. Settled(c)'
    BY <1>5, <2>2, <2>3, <2>1
       DEF Settled, SenderInv, ChangeInv, HoldInv, Holds, Active, Open, Unsaved
  <2> QED  BY <2>4, <2>5
<1>6. ASSUME NEW t \in Senders, cmd'[t] \in Commands \ joined' PROVE Unsaved(t)'
  <2>1. WrittenBy(cmd[t])' = WrittenBy(cmd'[t])
    BY DEF WrittenBy
  <2>2. cmd'[t] = cmd[t] /\ cmd[t] \in Commands \ joined
    BY <1>6, <2>1
  <2>3. Unsaved(t)
    BY <2>2 DEF ChangeInv
  <2>4. Open' = Open
    BY DEF Open, SenderInv, Senders
  <2> QED  BY <2>1, <2>2, <2>3, <2>4 DEF Unsaved, SenderInv, Holds, Active, HoldInv
<1>7. ChangeInv'
  BY <1>5, <1>6 DEF ChangeInv
<1> QED  BY <1>1, <1>2, <1>3, <1>4, <1>7

\* A command that had joined a transaction returns.
LEMMA HandlerReturnsKeeps ==
    ASSUME ScopeInv, NEW s \in Senders, HandlerReturns(s), begun[s] = None
    PROVE  ScopeInv'
<1> USE BoundsAssumption, SendersAssumption DEF ScopeInv, TypeOK, HandlerReturns, Base
<1>1. TypeOK'
  OBVIOUS
<1>2. SenderInv'
  BY <1>1 DEF SenderInv, WrittenBy, Active
<1>3. HoldInv'
  BY <1>1 DEF HoldInv, SenderInv, Holds, Active, Open, Senders
<1>4. AloneInv'
  BY <1>1 DEF AloneInv, SenderInv, Shared, Senders
<1>5. ASSUME NEW c \in Commands \ joined' PROVE (Together(c) /\ Settled(c))'
  <2>1. c \notin joined
    BY <1>5
  <2>2. WrittenBy(c)' = WrittenBy(c)
    BY DEF WrittenBy
  <2>3. Together(c) /\ Settled(c)
    BY <1>5, <2>1 DEF ChangeInv
  <2>4. Together(c)'
    BY <2>2, <2>3 DEF Together
  <2>5. Settled(c)'
    BY <1>5, <2>2, <2>3, <2>1
       DEF Settled, SenderInv, ChangeInv, HoldInv, Holds, Active, Open, Unsaved
  <2> QED  BY <2>4, <2>5
<1>6. ASSUME NEW t \in Senders, cmd'[t] \in Commands \ joined' PROVE Unsaved(t)'
  <2>1. WrittenBy(cmd[t])' = WrittenBy(cmd'[t])
    BY DEF WrittenBy
  <2>2. cmd'[t] = cmd[t] /\ cmd[t] \in Commands \ joined
    BY <1>6, <2>1
  <2>3. Unsaved(t)
    BY <2>2 DEF ChangeInv
  <2>4. Open' = Open
    BY DEF Open, SenderInv, Senders
  <2> QED  BY <2>1, <2>2, <2>3, <2>4 DEF Unsaved, SenderInv, Holds, Active, HoldInv
<1>7. ChangeInv'
  BY <1>5, <1>6 DEF ChangeInv
<1> QED  BY <1>1, <1>2, <1>3, <1>4, <1>7

\* A commit saves whole commands only, but for those that joined.
LEMMA CommitKeeps ==
    ASSUME ScopeInv, NEW s \in Senders, Commit(s)
    PROVE  ScopeInv'
<1> USE BoundsAssumption, SendersAssumption DEF ScopeInv, TypeOK, Commit
<1>1. TypeOK'
  OBVIOUS
<1>2. SenderInv'
  BY <1>1 DEF SenderInv, WrittenBy, Active
<1>3. HoldInv'
  BY <1>1 DEF HoldInv, SenderInv, Holds, Active, Open, Senders
<1>4. AloneInv'
  BY <1>1 DEF AloneInv, SenderInv, Shared, Senders
<1>5. ASSUME NEW c \in Commands \ joined' PROVE (Together(c) /\ Settled(c))'
  <2>1. c \notin joined
    BY <1>5
  <2>2. WrittenBy(c)' = WrittenBy(c)
    BY DEF WrittenBy
  <2>3. Together(c) /\ Settled(c)
    BY <1>5, <2>1 DEF ChangeInv
  <2>4. Together(c)'
    BY <2>2, <2>3 DEF Together
  <2>5. Settled(c)'
    BY <1>5, <2>2, <2>3, <2>1
       DEF Settled, SenderInv, ChangeInv, HoldInv, Holds, Active, Open, Unsaved
  <2> QED  BY <2>4, <2>5
<1>6. ASSUME NEW t \in Senders, cmd'[t] \in Commands \ joined' PROVE Unsaved(t)'
  <2>1. WrittenBy(cmd[t])' = WrittenBy(cmd'[t])
    BY DEF WrittenBy
  <2>2. cmd'[t] = cmd[t] /\ cmd[t] \in Commands \ joined
    BY <1>6, <2>1
  <2>3. Unsaved(t)
    BY <2>2 DEF ChangeInv
  <2>4. Open' = Open
    BY DEF Open, SenderInv, Senders
  <2> QED  BY <2>1, <2>2, <2>3, <2>4 DEF Unsaved, SenderInv, Holds, Active, HoldInv
<1>7. ChangeInv'
  BY <1>5, <1>6 DEF ChangeInv
<1> QED  BY <1>1, <1>2, <1>3, <1>4, <1>7

\* So does one in doubt.
LEMMA CommitThrowsKeeps ==
    ASSUME ScopeInv, NEW s \in Senders, CommitThrows(s)
    PROVE  ScopeInv'
<1> USE BoundsAssumption, SendersAssumption DEF ScopeInv, TypeOK, CommitThrows
<1>1. TypeOK'
  OBVIOUS
<1>2. SenderInv'
  BY <1>1 DEF SenderInv, WrittenBy, Active
<1>3. HoldInv'
  BY <1>1 DEF HoldInv, SenderInv, Holds, Active, Open, Senders
<1>4. AloneInv'
  BY <1>1 DEF AloneInv, SenderInv, Shared, Senders
<1>5. ASSUME NEW c \in Commands \ joined' PROVE (Together(c) /\ Settled(c))'
  <2>1. c \notin joined
    BY <1>5
  <2>2. WrittenBy(c)' = WrittenBy(c)
    BY DEF WrittenBy
  <2>3. Together(c) /\ Settled(c)
    BY <1>5, <2>1 DEF ChangeInv
  <2>4. Together(c)'
    BY <2>2, <2>3 DEF Together
  <2>5. Settled(c)'
    BY <1>5, <2>2, <2>3, <2>1
       DEF Settled, SenderInv, ChangeInv, HoldInv, Holds, Active, Open, Unsaved
  <2> QED  BY <2>4, <2>5
<1>6. ASSUME NEW t \in Senders, cmd'[t] \in Commands \ joined' PROVE Unsaved(t)'
  <2>1. WrittenBy(cmd[t])' = WrittenBy(cmd'[t])
    BY DEF WrittenBy
  <2>2. cmd'[t] = cmd[t] /\ cmd[t] \in Commands \ joined
    BY <1>6, <2>1
  <2>3. Unsaved(t)
    BY <2>2 DEF ChangeInv
  <2>4. Open' = Open
    BY DEF Open, SenderInv, Senders
  <2> QED  BY <2>1, <2>2, <2>3, <2>4 DEF Unsaved, SenderInv, Holds, Active, HoldInv
<1>7. ChangeInv'
  BY <1>5, <1>6 DEF ChangeInv
<1> QED  BY <1>1, <1>2, <1>3, <1>4, <1>7

\* A committed command returns.
LEMMA PublishKeeps ==
    ASSUME ScopeInv, NEW s \in Senders, Publish(s)
    PROVE  ScopeInv'
<1> USE BoundsAssumption, SendersAssumption DEF ScopeInv, TypeOK, Publish
<1>1. TypeOK'
  <2>1. begun[s] > 0 => begun[s] - 1 \in 0..MaxDepth
    <3>1. begun[s] \in {-1} \cup 0..MaxDepth
      OBVIOUS
    <3> QED  BY <3>1
  <2>2. depth' \in [Senders -> 0..MaxDepth]
    BY <2>1
  <2>3. outcome' \in [Commands -> {"pending", "ok", "threw", "commitFailed"}]
    BY DEF SenderInv
  <2>4. begun' \in [Senders -> {None} \cup 0..MaxDepth]
    OBVIOUS
  <2>5. pc' \in [Senders -> {"idle", "beginning", "handling", "dispatch", "round", "onEvent",
                             "publish", "failed", "closed"}]
    OBVIOUS
  <2> QED  BY <2>2, <2>3, <2>4, <2>5
<1>2. SenderInv'
  BY <1>1 DEF SenderInv, WrittenBy, Active
<1>3. HoldInv'
  BY <1>1 DEF HoldInv, SenderInv, Holds, Active, Open, Senders
<1>4. AloneInv'
  BY <1>1 DEF AloneInv, SenderInv, Shared, Senders
<1>5. ASSUME NEW c \in Commands \ joined' PROVE (Together(c) /\ Settled(c))'
  <2>1. c \notin joined
    BY <1>5
  <2>2. WrittenBy(c)' = WrittenBy(c)
    BY DEF WrittenBy
  <2>3. Together(c) /\ Settled(c)
    BY <1>5, <2>1 DEF ChangeInv
  <2>4. Together(c)'
    BY <2>2, <2>3 DEF Together
  <2>5. Settled(c)'
    BY <1>5, <2>2, <2>3, <2>1
       DEF Settled, SenderInv, ChangeInv, HoldInv, Holds, Active, Open, Unsaved
  <2> QED  BY <2>4, <2>5
<1>6. ASSUME NEW t \in Senders, cmd'[t] \in Commands \ joined' PROVE Unsaved(t)'
  <2>1. WrittenBy(cmd[t])' = WrittenBy(cmd'[t])
    BY DEF WrittenBy
  <2>2. cmd'[t] = cmd[t] /\ cmd[t] \in Commands \ joined
    BY <1>6, <2>1
  <2>3. Unsaved(t)
    BY <2>2 DEF ChangeInv
  <2>4. Open' = Open
    BY DEF Open, SenderInv, Senders
  <2> QED  BY <2>1, <2>2, <2>3, <2>4 DEF Unsaved, SenderInv, Holds, Active, HoldInv
<1>7. ChangeInv'
  BY <1>5, <1>6 DEF ChangeInv
<1> QED  BY <1>1, <1>2, <1>3, <1>4, <1>7

\* A nested command that finds no transaction begins its own.
LEMMA SendNestedKeeps ==
    ASSUME ScopeInv, NEW s \in Senders, SendNested(s), ~HasActiveTransaction
    PROVE  ScopeInv'
<1> USE BoundsAssumption, SendersAssumption
    DEF ScopeInv, TypeOK, SendNested, HasActiveTransaction, InHandler, NextId
<1>1. TypeOK'
  <2>1. depth[s] + 1 \in 0..MaxDepth /\ work + 1 \in 0..MaxWork
    OBVIOUS
  <2>2. depth' \in [Senders -> 0..MaxDepth] /\ work' \in 0..MaxWork
    BY <2>1
  <2>3. UNCHANGED <<needCommitting, nesting>>
    BY Zenon
  <2>4. pc' \in [Senders -> {"idle", "beginning", "handling", "dispatch", "round", "onEvent",
                             "publish", "failed", "closed"}]
    OBVIOUS
  <2> QED  BY <2>2, <2>3, <2>4
<1>2. SenderInv'
  <2>1. begun[s] = None
    BY DEF HoldInv, Holds, Active
  <2> QED  BY <1>1, <2>1 DEF SenderInv, WrittenBy, Active
<1>3. HoldInv'
  BY <1>1 DEF HoldInv, SenderInv, Holds, Active, Open, Senders
<1>4. AloneInv'
  BY <1>1 DEF AloneInv, SenderInv, Shared, Senders
<1>5. ASSUME NEW c \in Commands \ joined' PROVE (Together(c) /\ Settled(c))'
  <2>1. c \notin joined
    BY <1>5
  <2>2. WrittenBy(c)' = WrittenBy(c)
    BY DEF WrittenBy
  <2>3. Together(c) /\ Settled(c)
    BY <1>5, <2>1 DEF ChangeInv
  <2>4. Together(c)'
    BY <2>2, <2>3 DEF Together
  <2>5. Settled(c)'
    BY <1>5, <2>2, <2>3, <2>1
       DEF Settled, SenderInv, ChangeInv, HoldInv, Holds, Active, Open, Unsaved
  <2> QED  BY <2>4, <2>5
<1>6. ASSUME NEW t \in Senders, cmd'[t] \in Commands \ joined' PROVE Unsaved(t)'
  <2>1. WrittenBy(cmd[t])' = WrittenBy(cmd'[t])
    BY DEF WrittenBy
  <2>2. cmd'[t] = cmd[t] /\ cmd[t] \in Commands \ joined
    BY <1>6, <2>1
  <2>3. Unsaved(t)
    BY <2>2 DEF ChangeInv
  <2>4. Open' = Open
    BY DEF Open, SenderInv, Senders
  <2> QED  BY <2>1, <2>2, <2>3, <2>4 DEF Unsaved, SenderInv, Holds, Active, HoldInv
<1>7. ChangeInv'
  BY <1>5, <1>6 DEF ChangeInv
<1> QED  BY <1>1, <1>2, <1>3, <1>4, <1>7

\* A new command has written nothing.
LEMMA BeginCommandKeeps ==
    ASSUME ScopeInv, NEW s \in Senders, BeginCommand(s)
    PROVE  ScopeInv'
<1> USE BoundsAssumption, SendersAssumption
    DEF ScopeInv, TypeOK, BeginCommand, SendCommand, HasActiveTransaction
<1>1. TypeOK'
  <2>1. sent' \in Commands /\ sent' \in 0..MaxCommands
    OBVIOUS
  <2>2. cmd' \in [Senders -> 0..MaxCommands] /\ joined' \subseteq Commands
    BY <2>1
  <2>3. needCommitting' \in BOOLEAN
    BY Zenon
  <2>4. pc' \in [Senders -> {"idle", "beginning", "handling", "dispatch", "round", "onEvent",
                             "publish", "failed", "closed"}]
    OBVIOUS
  <2>5. UNCHANGED <<nestVars, transaction, dataVars, eventVars, outcome, work>> /\ sent' = sent + 1
    BY Zenon
  <2> QED  BY <2>1, <2>2, <2>3, <2>4, <2>5
<1>2. SenderInv'
  <2>1. /\ sent' = sent + 1 /\ sent' \in Commands /\ cmd' = [cmd EXCEPT ![s] = sent']
        /\ UNCHANGED <<depth, begun, written, outcome>>
    OBVIOUS
  <2>2. \/ joined' = joined \cup {sent'} /\ pc' = [pc EXCEPT ![s] = "handling"]
        \/ joined' = joined /\ pc' = [pc EXCEPT ![s] = "beginning"]
    OBVIOUS
  <2>3. \A c \in Commands :
          c > sent => WrittenBy(c) = {} /\ outcome[c] = "pending" /\ c \notin joined
    BY DEF SenderInv
  <2>4. begun[s] = None /\ depth[s] = 0
    BY DEF SenderInv
  <2> QED  BY <1>1, <2>1, <2>2, <2>3, <2>4 DEF SenderInv, WrittenBy, Active
<1>3. HoldInv'
  BY <1>1 DEF HoldInv, SenderInv, Holds, Active, Open, Senders
<1>4. AloneInv'
  BY <1>1 DEF AloneInv, SenderInv, Shared, Senders
<1>5. ASSUME NEW c \in Commands \ joined' PROVE (Together(c) /\ Settled(c))'
  <2>1. c \notin joined
    BY <1>5
  <2>2. WrittenBy(c)' = WrittenBy(c)
    BY DEF WrittenBy
  <2>3. Together(c) /\ Settled(c)
    BY <1>5, <2>1 DEF ChangeInv
  <2>4. c > sent => WrittenBy(c) = {} /\ outcome[c] = "pending"
    BY DEF SenderInv
  <2>5. Together(c)'
    BY <2>2, <2>3 DEF Together
  <2>6. Settled(c)'
    BY <2>2, <2>3, <2>4 DEF Settled
  <2> QED  BY <2>5, <2>6
<1>6. ASSUME NEW t \in Senders, cmd'[t] \in Commands \ joined' PROVE Unsaved(t)'
  <2>1. WrittenBy(cmd[t])' = WrittenBy(cmd'[t])
    BY DEF WrittenBy
  <2>2. CASE t = s
    <3>1. cmd'[t] \in Commands /\ cmd'[t] > sent
      BY <2>2
    <3>2. WrittenBy(cmd'[t]) = {}
      BY <3>1 DEF SenderInv
    <3> QED  BY <1>2, <1>3, <1>6, <2>1, <2>2, <3>2 DEF Unsaved, Holds, Active, SenderInv
  <2>3. CASE t # s
    <3>1. cmd'[t] = cmd[t] /\ cmd[t] \in Commands \ joined /\ Unsaved(t) /\ pc'[t] = pc[t]
      BY <1>6, <2>3 DEF ChangeInv
    <3>2. Open' = Open
      BY DEF Open, SenderInv, Senders
    <3> QED  BY <2>1, <2>3, <3>1, <3>2 DEF Unsaved, SenderInv, Holds, Active, HoldInv
  <2> QED  BY <2>2, <2>3
<1>7. ChangeInv'
  BY <1>5, <1>6 DEF ChangeInv
<1> QED  BY <1>1, <1>2, <1>3, <1>4, <1>7

\* Nor has one that is refused.
LEMMA CommandInvalidKeeps ==
    ASSUME ScopeInv, NEW s \in Senders, CommandInvalid(s)
    PROVE  ScopeInv'
<1> USE BoundsAssumption, SendersAssumption DEF ScopeInv, TypeOK, CommandInvalid, SendCommand
<1>1. TypeOK'
  OBVIOUS
<1>2. SenderInv'
  BY <1>1 DEF SenderInv, WrittenBy, Active
<1>3. HoldInv'
  BY <1>1 DEF HoldInv, SenderInv, Holds, Active, Open, Senders
<1>4. AloneInv'
  BY <1>1 DEF AloneInv, SenderInv, Shared, Senders
<1>5. ASSUME NEW c \in Commands \ joined' PROVE (Together(c) /\ Settled(c))'
  <2>1. c \notin joined
    BY <1>5
  <2>2. WrittenBy(c)' = WrittenBy(c)
    BY DEF WrittenBy
  <2>3. Together(c) /\ Settled(c)
    BY <1>5, <2>1 DEF ChangeInv
  <2>4. c > sent => WrittenBy(c) = {} /\ outcome[c] = "pending"
    BY DEF SenderInv
  <2>5. Together(c)'
    BY <2>2, <2>3 DEF Together
  <2>6. Settled(c)'
    BY <2>2, <2>3, <2>4 DEF Settled
  <2> QED  BY <2>5, <2>6
<1>6. ASSUME NEW t \in Senders, cmd'[t] \in Commands \ joined' PROVE Unsaved(t)'
  <2>1. WrittenBy(cmd[t])' = WrittenBy(cmd'[t])
    BY DEF WrittenBy
  <2>2. CASE t = s
    <3>1. cmd'[t] \in Commands /\ cmd'[t] > sent
      BY <2>2
    <3>2. WrittenBy(cmd'[t]) = {}
      BY <3>1 DEF SenderInv
    <3> QED  BY <1>2, <1>3, <1>6, <2>1, <2>2, <3>2 DEF Unsaved, Holds, Active, SenderInv
  <2>3. CASE t # s
    <3>1. cmd'[t] = cmd[t] /\ cmd[t] \in Commands \ joined /\ Unsaved(t) /\ pc'[t] = pc[t]
      BY <1>6, <2>3 DEF ChangeInv
    <3>2. Open' = Open
      BY DEF Open, SenderInv, Senders
    <3> QED  BY <2>1, <2>3, <3>1, <3>2 DEF Unsaved, SenderInv, Holds, Active, HoldInv
  <2> QED  BY <2>2, <2>3
<1>7. ChangeInv'
  BY <1>5, <1>6 DEF ChangeInv
<1> QED  BY <1>1, <1>2, <1>3, <1>4, <1>7

\* A change is new, and tracked with the others of its command.
LEMMA ChangeKeeps ==
    ASSUME ScopeInv, NEW s \in Senders, Change(s)
    PROVE  ScopeInv'
<1> USE BoundsAssumption, SendersAssumption DEF ScopeInv, TypeOK, Change, InHandler, NextId
<1>1. TypeOK'
  BY DEF SenderInv, Changes
<1>2. SenderInv'
  BY <1>1 DEF SenderInv, WrittenBy, Active
<1>3. HoldInv'
  BY <1>1 DEF HoldInv, SenderInv, Holds, Active, Open, Senders
<1>4. AloneInv'
  BY <1>1 DEF AloneInv, SenderInv, Shared, Senders
<1>5. PICK w : /\ w = [cmd |-> cmd[s], id |-> work'] /\ w \in Changes
                  /\ tracked' = tracked \cup {w} /\ written' = written \cup {w}
  <2>1. cmd[s] \in Commands /\ work' \in 1..MaxWork
    BY DEF SenderInv
  <2>2. [cmd |-> cmd[s], id |-> work'] \in Changes
    BY <2>1 DEF Changes
  <2>3. /\ tracked' = tracked \cup {[cmd |-> cmd[s], id |-> work']}
        /\ written' = written \cup {[cmd |-> cmd[s], id |-> work']}
    OBVIOUS
  <2> QED  BY <2>2, <2>3, Zenon
<1>6. \A c \in Commands : c # cmd[s] => WrittenBy(c)' = WrittenBy(c)
  BY <1>5 DEF WrittenBy
<1>7. WrittenBy(cmd[s])' = WrittenBy(cmd[s]) \cup {w}
  BY <1>5 DEF WrittenBy
<1>8. ASSUME NEW c \in Commands \ joined' PROVE (Together(c) /\ Settled(c))'
  <2>1. Together(c) /\ Settled(c)
    BY <1>8 DEF ChangeInv
  <2>2. CASE c # cmd[s]
    <3>1. w \notin WrittenBy(c)
      BY <1>5, <2>2 DEF WrittenBy
    <3> QED  BY <1>5, <1>6, <2>1, <2>2, <3>1 DEF Together, Settled
  <2>3. CASE c = cmd[s]
    <3>1. Holds(s) /\ Open /\ outcome[c] = "pending"
      BY <1>8, <2>3 DEF SenderInv, Holds, Active
    <3>2. WrittenBy(c) \cap durable = {} /\ WrittenBy(c) \subseteq tracked
      BY <1>8, <2>3, <3>1 DEF ChangeInv, Unsaved
    <3>3. w \notin durable
      BY <1>5, <2>3, <3>2 DEF ChangeInv, WrittenBy
    <3> QED  BY <1>5, <1>7, <2>3, <3>1, <3>2, <3>3 DEF Together, Settled
  <2> QED  BY <2>2, <2>3
<1>9. ASSUME NEW t \in Senders, cmd'[t] \in Commands \ joined' PROVE Unsaved(t)'
  <2>1. Unsaved(t)
    BY <1>9 DEF ChangeInv
  <2>2. CASE t # s
    <3>1. WrittenBy(cmd[t])' = WrittenBy(cmd[t])
      BY <1>6, <1>9, <2>2 DEF SenderInv
    <3> QED  BY <1>5, <2>1, <3>1 DEF Unsaved, Holds, Active, Open
  <2>3. CASE t = s
    <3>1. Holds(s) /\ Open
      BY <1>9, <2>3 DEF SenderInv, Holds, Active
    <3>2. w \notin durable
      BY <1>5, <1>9, <2>1, <2>3, <3>1 DEF ChangeInv, WrittenBy, Unsaved
    <3>3. WrittenBy(cmd[t])' = WrittenBy(cmd[s]) \cup {w}
      BY <1>5, <2>3 DEF WrittenBy
    <3> QED  BY <1>5, <2>1, <2>3, <3>1, <3>2, <3>3 DEF Unsaved, Holds, Active, Open
  <2> QED  BY <2>2, <2>3
<1>10. ChangeInv'
  BY <1>5, <1>8, <1>9 DEF ChangeInv
<1> QED  BY <1>1, <1>2, <1>3, <1>4, <1>10

\* The disposed scope loses what was not committed.
LEMMA CloseScopeKeeps ==
    ASSUME ScopeInv, CloseScope
    PROVE  ScopeInv'
<1> USE BoundsAssumption, SendersAssumption DEF ScopeInv, TypeOK, CloseScope
<1>1. TypeOK'
  BY DEF Senders
<1>2. SenderInv'
  BY <1>1 DEF SenderInv, WrittenBy, Active, Senders
<1>3. HoldInv'
  BY <1>1 DEF HoldInv, SenderInv, Holds, Active, Open, Senders
<1>4. AloneInv'
  BY <1>1 DEF AloneInv, SenderInv, Shared, Senders
<1>5. ASSUME NEW c \in Commands \ joined' PROVE (Together(c) /\ Settled(c))'
  <2>1. c \notin joined
    BY <1>5
  <2>2. WrittenBy(c)' = WrittenBy(c)
    BY DEF WrittenBy
  <2>3. Together(c) /\ Settled(c)
    BY <1>5, <2>1 DEF ChangeInv
  <2>4. Together(c)'
    BY <2>2, <2>3 DEF Together
  <2>5. Settled(c)'
    BY <1>5, <2>2, <2>3, <2>1
       DEF Settled, SenderInv, ChangeInv, HoldInv, Holds, Active, Open, Unsaved
  <2> QED  BY <2>4, <2>5
<1>6. ASSUME NEW t \in Senders, cmd'[t] \in Commands \ joined' PROVE Unsaved(t)'
  <2>1. WrittenBy(cmd[t])' = WrittenBy(cmd'[t])
    BY DEF WrittenBy
  <2>2. cmd'[t] = cmd[t] /\ cmd[t] \in Commands \ joined
    BY <1>6, <2>1
  <2>3. Unsaved(t)
    BY <2>2 DEF ChangeInv
  <2>4. ~Open'
    BY DEF Open, Senders
  <2> QED  BY <2>1, <2>2, <2>3, <2>4 DEF Unsaved, SenderInv, Holds, Active, HoldInv
<1>7. ChangeInv'
  BY <1>5, <1>6 DEF ChangeInv
<1> QED  BY <1>1, <1>2, <1>3, <1>4, <1>7


\* Every step of a sender.
LEMMA SenderKeeps ==
    ASSUME ScopeInv, NEW s \in Senders, Behavior(s) \/ Handler(s)
    PROVE  ScopeInv'
<1> USE BoundsAssumption DEF Active
<1>1. CASE BeginCommand(s) \/ CommandInvalid(s) \/ BeginTransaction(s)
  BY <1>1, BeginCommandKeeps, CommandInvalidKeeps, BeginTransactionKeeps
<1>2. CASE BeginThrows(s) \/ DispatchThrows(s) \/ HandlerThrows(s)
  BY <1>2, ThrowsKeeps DEF BeginThrows, DispatchThrows, HandlerThrows, InHandler
<1>3. CASE Commit(s) \/ CommitThrows(s) \/ Publish(s) \/ Change(s)
  BY <1>3, CommitKeeps, CommitThrowsKeeps, PublishKeeps, ChangeKeeps
<1>4. CASE HandlerReturns(s)
  <2>1. CASE begun[s] = None
    BY <1>4, <2>1, HandlerReturnsKeeps
  <2>2. CASE begun[s] # None
    <3>1. TypeOK'
      BY <1>4, <2>2 DEF HandlerReturns, ScopeInv, TypeOK
    <3> QED  BY <1>4, <2>2, <3>1, ActiveKeeps DEF HandlerReturns, Base, ScopeInv, TypeOK
  <2> QED  BY <2>1, <2>2
<1>5. CASE DispatchRound(s)
  <2>1. TypeOK'
    BY <1>5 DEF DispatchRound, Taken, ScopeInv, TypeOK
  <2>2. /\ pc' = [pc EXCEPT ![s] = pc'[s]] /\ depth' = [depth EXCEPT ![s] = depth'[s]]
        /\ Active(s) /\ Active(s)'
        /\ pc'[s] = "handling" => pc[s] = "handling"
        /\ pc'[s] # "handling" => begun[s] # None
        /\ pc'[s] \in {"dispatch", "round"} => depth'[s] = begun[s]
        /\ pc'[s] = "onEvent" => depth'[s] >= begun[s]
        /\ UNCHANGED <<sendVars, begun, transaction, dataVars, outcome>>
    BY <1>5 DEF DispatchRound, ScopeInv, SenderInv, TypeOK
  <2> QED  BY <2>1, <2>2, ActiveKeeps
<1>6. CASE HandleEvent(s)
  <2>1. TypeOK'
    BY <1>6 DEF HandleEvent, ScopeInv, TypeOK
  <2>2. /\ pc' = [pc EXCEPT ![s] = pc'[s]] /\ depth' = [depth EXCEPT ![s] = depth'[s]]
        /\ Active(s) /\ Active(s)'
        /\ pc'[s] = "handling" => pc[s] = "handling"
        /\ pc'[s] # "handling" => begun[s] # None
        /\ pc'[s] \in {"dispatch", "round"} => depth'[s] = begun[s]
        /\ pc'[s] = "onEvent" => depth'[s] >= begun[s]
        /\ UNCHANGED <<sendVars, begun, transaction, dataVars, outcome>>
    BY <1>6 DEF HandleEvent, ScopeInv, SenderInv, TypeOK
  <2> QED  BY <2>1, <2>2, ActiveKeeps
<1>7. CASE EventHandled(s) \/ EndRound(s)
  <2>1. TypeOK'
    BY <1>7 DEF EventHandled, EndRound, ScopeInv, TypeOK
  <2>2. /\ pc' = [pc EXCEPT ![s] = pc'[s]] /\ depth' = [depth EXCEPT ![s] = depth'[s]]
        /\ Active(s) /\ Active(s)'
        /\ pc'[s] = "handling" => pc[s] = "handling"
        /\ pc'[s] # "handling" => begun[s] # None
        /\ pc'[s] \in {"dispatch", "round"} => depth'[s] = begun[s]
        /\ pc'[s] = "onEvent" => depth'[s] >= begun[s]
        /\ UNCHANGED <<sendVars, begun, transaction, dataVars, outcome>>
    BY <1>7 DEF EventHandled, EndRound, Base, ScopeInv, SenderInv, TypeOK
  <2> QED  BY <2>1, <2>2, ActiveKeeps
<1>8. CASE Raise(s)
  <2>1. cmd[s] \in Commands /\ work' \in 1..MaxWork
    BY <1>8 DEF Raise, InHandler, NextId, ScopeInv, SenderInv, TypeOK
  <2>2. PICK k \in Kinds, a \in Aggregates :
          raised' = raised \cup
            {[cmd |-> cmd[s], id |-> work',
              by |-> IF pc[s] = "onEvent" /\ depth[s] = Base(s) THEN "event" ELSE "command",
              kind |-> k, on |-> a]}
    BY <1>8 DEF Raise
  <2>3. raised' \subseteq Events
    BY <2>1, <2>2 DEF Events, ScopeInv, TypeOK
  <2>4. TypeOK'
    BY <1>8, <2>1, <2>3 DEF Raise, ScopeInv, TypeOK
  <2>5. /\ pc' = [pc EXCEPT ![s] = pc'[s]] /\ depth' = [depth EXCEPT ![s] = depth'[s]]
        /\ Active(s) /\ Active(s)'
        /\ pc'[s] = "handling" => pc[s] = "handling"
        /\ pc'[s] # "handling" => begun[s] # None
        /\ pc'[s] \in {"dispatch", "round"} => depth'[s] = begun[s]
        /\ pc'[s] = "onEvent" => depth'[s] >= begun[s]
        /\ UNCHANGED <<sendVars, begun, transaction, dataVars, outcome>>
    BY <1>8 DEF Raise, InHandler, ScopeInv, SenderInv, TypeOK
  <2> QED  BY <2>4, <2>5, ActiveKeeps
<1>9. CASE SendNested(s)
  <2>1. CASE ~HasActiveTransaction
    BY <1>9, <2>1, SendNestedKeeps
  <2>2. CASE HasActiveTransaction
    <3>1. depth' \in [Senders -> 0..MaxDepth] /\ work' \in 0..MaxWork
      BY <1>9 DEF SendNested, NextId, ScopeInv, TypeOK
    <3>2. needCommitting' = TRUE /\ nesting' = [nesting EXCEPT ![s] = TRUE]
      BY <1>9, <2>2, Zenon DEF SendNested
    <3>3. nesting' \in [Senders -> BOOLEAN] /\ needCommitting' \in BOOLEAN
      BY <3>2 DEF ScopeInv, TypeOK
    <3>4. UNCHANGED <<pc, sendVars, begun, transaction, dataVars, eventVars, outcome>>
      BY <1>9, <2>2 DEF SendNested
    <3>5. TypeOK'
      BY <3>1, <3>3, <3>4 DEF ScopeInv, TypeOK
    <3>6. /\ pc' = [pc EXCEPT ![s] = pc'[s]] /\ depth' = [depth EXCEPT ![s] = depth'[s]]
          /\ Active(s) /\ Active(s)'
          /\ pc'[s] = "handling" => pc[s] = "handling"
          /\ pc'[s] # "handling" => begun[s] # None
          /\ pc'[s] \in {"dispatch", "round"} => depth'[s] = begun[s]
          /\ pc'[s] = "onEvent" => depth'[s] >= begun[s]
      BY <1>9, <3>4 DEF SendNested, InHandler, ScopeInv, SenderInv, TypeOK
    <3> QED  BY <3>4, <3>5, <3>6, ActiveKeeps
  <2> QED  BY <2>1, <2>2
<1>10. CASE NestedReturns(s)
  <2>1. depth[s] - 1 \in 0..MaxDepth
    BY <1>10 DEF NestedReturns, Base, ScopeInv, TypeOK
  <2>2. TypeOK'
    BY <1>10, <2>1 DEF NestedReturns, ScopeInv, TypeOK
  <2>3. /\ pc' = [pc EXCEPT ![s] = pc'[s]] /\ depth' = [depth EXCEPT ![s] = depth'[s]]
        /\ Active(s) /\ Active(s)'
        /\ pc'[s] = "handling" => pc[s] = "handling"
        /\ pc'[s] # "handling" => begun[s] # None
        /\ pc'[s] \in {"dispatch", "round"} => depth'[s] = begun[s]
        /\ pc'[s] = "onEvent" => depth'[s] >= begun[s]
        /\ UNCHANGED <<sendVars, begun, transaction, dataVars, outcome>>
    BY <1>10 DEF NestedReturns, Base, InHandler, ScopeInv, SenderInv, TypeOK
  <2> QED  BY <2>2, <2>3, ActiveKeeps
<1> QED
  BY <1>1, <1>2, <1>3, <1>4, <1>5, <1>6, <1>7, <1>8, <1>9, <1>10 DEF Behavior, Handler

\* The invariant is inductive.
LEMMA NextScope == ScopeInv /\ [Next]_vars => ScopeInv'
<1> SUFFICES ASSUME ScopeInv, [Next]_vars PROVE ScopeInv'
  OBVIOUS
<1>1. CASE UNCHANGED vars
  <2>1. TypeOK' /\ SenderInv' /\ HoldInv'
    BY <1>1 DEF vars, ScopeInv, TypeOK, SenderInv, HoldInv, Active, Holds, Open, WrittenBy
  <2>2. AloneInv'
    BY <1>1 DEF vars, ScopeInv, AloneInv, Shared
  <2>3. ChangeInv'
    BY <1>1 DEF vars, ScopeInv, ChangeInv, Together, Settled, Unsaved, Active, Holds, Open, WrittenBy
  <2> QED  BY <2>1, <2>2, <2>3 DEF ScopeInv
<1>2. CASE Next
  BY <1>2, CloseScopeKeeps, SenderKeeps DEF Next
<1> QED  BY <1>1, <1>2

\* A command that joined a transaction did so because the scope is shared.
LEMMA JoinedIsShared == ASSUME ScopeInv, NEW c \in joined PROVE JoinedAnother(c)
  BY DEF ScopeInv, AloneInv, JoinedAnother

\* Every variable keeps its type.
THEOREM TypeCorrect == Spec => []TypeOK
<1>1. ScopeInv => TypeOK
  BY DEF ScopeInv
<1> QED  BY <1>1, InitScope, NextScope, PTL DEF Spec

\* Commands are atomic, whoever commits them: all their changes are committed, or none,
\* unless they joined the transaction of another run.
THEOREM Atomicity == Spec => []AllOrNothing
<1>1. ScopeInv => AllOrNothing
  <2> SUFFICES ASSUME ScopeInv, NEW c \in Commands, WrittenBy(c) \cap durable # {}
               PROVE  WrittenBy(c) \subseteq durable \/ JoinedAnother(c)
    BY DEF AllOrNothing
  <2>1. CASE c \in joined
    BY <2>1, JoinedIsShared
  <2>2. CASE c \notin joined
    BY <2>2 DEF ScopeInv, ChangeInv, Together
  <2> QED  BY <2>1, <2>2
<1> QED  BY <1>1, InitScope, NextScope, PTL DEF Spec

\* A command that returned has its changes committed, unless it joined the transaction
\* of another run that uses its scope.
THEOREM Durability == Spec => []OkIsDurable
<1>1. ScopeInv => OkIsDurable
  <2> SUFFICES ASSUME ScopeInv, NEW c \in Commands, outcome[c] = "ok"
               PROVE  WrittenBy(c) \subseteq durable \/ JoinedAnother(c)
    BY DEF OkIsDurable
  <2>1. CASE c \in joined
    BY <2>1, JoinedIsShared
  <2>2. CASE c \notin joined
    BY <2>2 DEF ScopeInv, ChangeInv, Settled
  <2> QED  BY <2>1, <2>2
<1> QED  BY <1>1, InitScope, NextScope, PTL DEF Spec

\* Where nobody else sends, every command that returned is durable: a scope with one
\* sender needs no exception.
THEOREM DurabilityAlone ==
    ASSUME Guests = {}
    PROVE  Spec => [](\A c \in Commands : outcome[c] = "ok" => WrittenBy(c) \subseteq durable)
<1>1. OkIsDurable =>
        \A c \in Commands : outcome[c] = "ok" => WrittenBy(c) \subseteq durable
  BY DEF OkIsDurable, JoinedAnother, Shared
<1> QED  BY <1>1, Durability, PTL

\* A command that threw left nothing behind, with the same exception.
THEOREM Rollback == Spec => []ThrowLeavesNothing
<1>1. ScopeInv => ThrowLeavesNothing
  <2> SUFFICES ASSUME ScopeInv, NEW c \in Commands, outcome[c] = "threw"
               PROVE  WrittenBy(c) \cap durable = {} \/ JoinedAnother(c)
    BY DEF ThrowLeavesNothing
  <2>1. CASE c \in joined
    BY <2>1, JoinedIsShared
  <2>2. CASE c \notin joined
    BY <2>2 DEF ScopeInv, ChangeInv, Settled
  <2> QED  BY <2>1, <2>2
<1> QED  BY <1>1, InitScope, NextScope, PTL DEF Spec

-----------------------------------------------------------------------------
\* NeedCommitting is set while the current command's handlers may have raised an
\* event that no round has taken.
AllByEvents(s) ==
    \A e \in raised : e.cmd = cmd[s] /\ e.kind = "INotificationDomainEvent" => e.by = "event"

Promised(s) == nesting[s] = TRUE \/ (cmd[s] = 1 /\ ~Shared)

DispatchInv ==
    /\ sent = 0 => needCommitting = TRUE
    /\ \A s \in Senders :
        /\ pc[s] = "beginning" /\ cmd[s] = 1 /\ ~Shared => needCommitting = TRUE
        /\ pc[s] = "handling" /\ begun[s] # None /\ Promised(s) => needCommitting = TRUE
        /\ pc[s] = "onEvent" /\ depth[s] > begun[s] => needCommitting = TRUE
        /\ pc[s] \in {"round", "onEvent"} /\ needCommitting = FALSE => AllByEvents(s)
        /\ pc[s] = "dispatch" /\ Promised(s) /\ needCommitting = FALSE => AllByEvents(s)
        /\ pc[s] = "publish" /\ Promised(s) => AllByEvents(s)

\* Only a sender that holds the transaction clears the flag, and then no other does.
LEMMA FlagIsHolders ==
    ASSUME ScopeInv, NEW s \in Senders, pc[s] = "dispatch"
    PROVE  /\ \A t \in Senders : pc[t] \in {"dispatch", "round", "onEvent"} => t = s
           /\ \A t \in Senders : pc[t] = "handling" /\ begun[t] # None => t = s
           /\ \A t \in Senders : pc[t] = "beginning" => cmd[t] # 1 \/ Shared
           /\ sent # 0
<1>1. \A t \in Senders : Holds(t) => t = s
  BY DEF ScopeInv, SenderInv, HoldInv, Holds, Active
<1>2. \A t \in Senders : t # s /\ pc[t] = "beginning" => Shared
  BY DEF ScopeInv, SenderInv, Shared, Senders, TypeOK
<1>3. cmd[s] # 0 /\ cmd[s] <= sent /\ cmd[s] \in Nat /\ sent \in Nat
  <2>1. cmd[s] \in Commands /\ cmd[s] <= sent
    BY DEF ScopeInv, SenderInv
  <2>2. sent \in 0..MaxCommands
    BY DEF ScopeInv, TypeOK
  <2> QED  BY BoundsAssumption, <2>1, <2>2
<1> QED  BY <1>1, <1>2, <1>3 DEF ScopeInv, SenderInv, Holds, Active

\* Every step preserves it, given the invariant above.
LEMMA NextDispatch ==
    ASSUME ScopeInv, ScopeInv', DispatchInv, [Next]_vars
    PROVE  DispatchInv'
<1> USE BoundsAssumption DEF DispatchInv, AllByEvents, Promised
<1>0. /\ needCommitting \in BOOLEAN /\ nesting \in [Senders -> BOOLEAN]
      /\ needCommitting' \in BOOLEAN /\ nesting' \in [Senders -> BOOLEAN]
      /\ pc \in [Senders -> {"idle", "beginning", "handling", "dispatch", "round", "onEvent",
                             "publish", "failed", "closed"}]
      /\ cmd \in [Senders -> 0..MaxCommands] /\ sent \in 0..MaxCommands
      /\ depth \in [Senders -> 0..MaxDepth] /\ begun \in [Senders -> {None} \cup 0..MaxDepth]
      /\ dispatching \in [Senders -> SUBSET Events] /\ raised \subseteq Events
  BY DEF ScopeInv, TypeOK
<1>1. CASE UNCHANGED vars
  BY <1>1 DEF vars, Shared
<1>2. CASE CloseScope
  BY <1>0, <1>2 DEF CloseScope, Shared, Senders
<1>3. ASSUME NEW s \in Senders, BeginCommand(s) PROVE DispatchInv'
  <2>1. /\ cmd' = [cmd EXCEPT ![s] = sent + 1] /\ sent' = sent + 1 /\ pc[s] = "idle"
        /\ UNCHANGED <<begun, depth, nesting, raised>>
    BY <1>3 DEF BeginCommand, SendCommand
  <2>2. \/ needCommitting' = TRUE /\ pc' = [pc EXCEPT ![s] = "handling"]
        \/ needCommitting' = needCommitting /\ pc' = [pc EXCEPT ![s] = "beginning"]
    BY <1>3, Zenon DEF BeginCommand
  <2>3. Shared => Shared'
    BY <1>0, <2>1 DEF Shared, Senders
  <2>4. begun[s] = None
    BY <2>1 DEF ScopeInv, SenderInv
  <2> QED  BY <1>0, <2>1, <2>2, <2>3, <2>4
<1>4. ASSUME NEW s \in Senders, CommandInvalid(s) PROVE DispatchInv'
  <2>1. Shared => Shared'
    BY <1>0, <1>4 DEF CommandInvalid, SendCommand, Shared, Senders
  <2> QED  BY <1>0, <1>4, <2>1 DEF CommandInvalid, SendCommand
<1>5. ASSUME NEW s \in Senders, BeginTransaction(s) PROVE DispatchInv'
  BY <1>0, <1>5 DEF BeginTransaction, Shared
<1>6. ASSUME NEW s \in Senders, HandlerReturns(s) PROVE DispatchInv'
  BY <1>0, <1>6 DEF HandlerReturns, Shared
<1>7. ASSUME NEW s \in Senders, DispatchRound(s) PROVE DispatchInv'
  <2>1. \A e \in raised' : e.kind # "INotificationDomainEvent"
    BY <1>7 DEF DispatchRound, Taken
  <2>2. /\ pc[s] = "dispatch" /\ pc' = [pc EXCEPT ![s] = "round"]
        /\ UNCHANGED <<cmd, sent, depth, begun, nesting>>
    BY <1>7 DEF DispatchRound
  <2>3. Shared' = Shared
    BY <2>2 DEF Shared
  <2> QED  BY <1>0, <2>1, <2>2, <2>3, FlagIsHolders
<1>8. ASSUME NEW s \in Senders, HandleEvent(s) PROVE DispatchInv'
  BY <1>0, <1>8 DEF HandleEvent, Shared, ScopeInv, SenderInv
<1>9. ASSUME NEW s \in Senders, EventHandled(s) \/ EndRound(s) PROVE DispatchInv'
  BY <1>0, <1>9 DEF EventHandled, EndRound, Shared
<1>10. ASSUME NEW s \in Senders, Commit(s) PROVE DispatchInv'
  <2>1. needCommitting = FALSE
    BY <1>0, <1>10, Zenon DEF Commit
  <2> QED  BY <1>0, <1>10, <2>1 DEF Commit, Shared
<1>11. ASSUME NEW s \in Senders, CommitThrows(s) \/ Publish(s) PROVE DispatchInv'
  BY <1>0, <1>11 DEF CommitThrows, Publish, Shared
<1>12. ASSUME NEW s \in Senders, CommandThrows(s) PROVE DispatchInv'
  BY <1>0, <1>12 DEF CommandThrows, Shared
<1>13. ASSUME NEW s \in Senders, Change(s) PROVE DispatchInv'
  BY <1>0, <1>13 DEF Change, Shared
<1>14. ASSUME NEW s \in Senders, Raise(s) PROVE DispatchInv'
  <2>1. PICK k \in Kinds, a \in Aggregates :
          raised' = raised \cup
            {[cmd |-> cmd[s], id |-> work',
              by |-> IF pc[s] = "onEvent" /\ depth[s] = Base(s) THEN "event" ELSE "command",
              kind |-> k, on |-> a]}
    BY <1>14 DEF Raise
  <2>2. /\ UNCHANGED <<pc, cmd, sent, depth, begun, nesting, needCommitting>>
        /\ pc[s] \in {"handling", "onEvent"}
    BY <1>14 DEF Raise, InHandler
  <2>3. Shared' = Shared
    BY <2>2 DEF Shared
  <2>4. \A t \in Senders : t # s => cmd[t] # cmd[s]
    BY <2>2 DEF ScopeInv, SenderInv
  <2>5. pc[s] = "onEvent" => begun[s] # None
    BY DEF ScopeInv, SenderInv
  <2>6. pc[s] = "onEvent" /\ needCommitting = FALSE => depth[s] = Base(s)
    <3>1. pc[s] = "onEvent" => depth[s] >= begun[s]
      BY DEF ScopeInv, SenderInv
    <3> QED  BY <1>0, <2>5, <3>1 DEF Base
  <2>7. ASSUME NEW t \in Senders, t # s, AllByEvents(t) PROVE AllByEvents(t)'
    BY <2>1, <2>2, <2>4, <2>7
  <2>8. pc[s] = "onEvent" /\ needCommitting = FALSE => AllByEvents(s)'
    BY <2>1, <2>2, <2>6
  <2> QED  BY <1>0, <2>2, <2>3, <2>7, <2>8
<1>15. ASSUME NEW s \in Senders, SendNested(s) PROVE DispatchInv'
  <2>1. \/ needCommitting' = TRUE /\ nesting' = [nesting EXCEPT ![s] = TRUE] /\ pc' = pc
        \/ UNCHANGED <<needCommitting, nesting>> /\ pc' = [pc EXCEPT ![s] = "beginning"]
           /\ transaction = "null"
    BY <1>15, Zenon DEF SendNested, HasActiveTransaction
  <2>2. /\ UNCHANGED <<cmd, sent, joined, begun, raised>> /\ depth' = [depth EXCEPT ![s] = @ + 1]
        /\ pc[s] \in {"handling", "onEvent"}
    BY <1>15 DEF SendNested, InHandler
  <2>3. Shared' = Shared
    BY <2>2 DEF Shared
  <2>4. transaction = "null" => Shared
    <3>1. transaction = "null" => begun[s] = None
      BY <2>2 DEF ScopeInv, HoldInv, Holds, Active
    <3> QED  BY <2>2, <3>1 DEF ScopeInv, SenderInv, AloneInv
  <2> QED  BY <1>0, <2>1, <2>2, <2>3, <2>4
<1>16. ASSUME NEW s \in Senders, NestedReturns(s) PROVE DispatchInv'
  BY <1>0, <1>16 DEF NestedReturns, InHandler, Shared
<1> QED
  BY <1>1, <1>2, <1>3, <1>4, <1>5, <1>6, <1>7, <1>8, <1>9, <1>10, <1>11, <1>12, <1>13,
     <1>14, <1>15, <1>16
     DEF Next, Behavior, Handler, BeginThrows, DispatchThrows, HandlerThrows

\* No event raised by a command's handler is left over at the commit, for the first
\* command of a scope with one sender and for every command that sent another.
THEOREM Dispatch == Spec => []DispatchedBeforeCommit
<1>1. Init => DispatchInv
  BY DEF Init, DispatchInv, None
<1>2. ScopeInv /\ DispatchInv => DispatchedBeforeCommit
  BY DEF ScopeInv, TypeOK, DispatchInv, DispatchedBeforeCommit, AllByEvents, Promised
<1> QED  BY <1>1, <1>2, InitScope, NextScope, NextDispatch, PTL DEF Spec
=============================================================================

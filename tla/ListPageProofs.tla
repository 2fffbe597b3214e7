--------------------------- MODULE ListPageProofs ---------------------------
(***************************************************************************)
(* Proofs about ListPage for any tabs, rows and requests: when a checkbox  *)
(* and the server disagree, and what the spinner tells.                    *)
(***************************************************************************)
EXTENDS ListPage, FiniteSetTheorems, TLAPS

\* The variables keep their types; a dialog or request names a row of the page.
THEOREM TypeCorrect == Spec => []TypeOK
<1>1. Init => TypeOK
  BY DEF Init, TypeOK
<1>2. TypeOK /\ [Next]_vars => TypeOK'
  <2> SUFFICES ASSUME TypeOK, [Next]_vars PROVE TypeOK'
    OBVIOUS
  <2> USE DEF TypeOK, serverVars, ToggleDialogs, DeleteDialogs, SentRequests
  <2>1. ASSUME NEW t \in Tabs, NEW i \in Items, Change(t, i) PROVE TypeOK'
    BY <2>1 DEF Change
  <2>2. ASSUME NEW t \in Tabs, NEW r \in Requests, ConfirmChange(t, r) PROVE TypeOK'
    BY <2>2 DEF ConfirmChange, Send, LoaderOpen
  <2>3. ASSUME NEW t \in Tabs, NEW i \in Items, AskDelete(t, i) PROVE TypeOK'
    BY <2>3 DEF AskDelete
  <2>4. ASSUME NEW t \in Tabs, NEW r \in Requests, ConfirmDelete(t, r) PROVE TypeOK'
    BY <2>4 DEF ConfirmDelete, Send
  <2>0. ASSUME NEW t \in Tabs, Dismissed(t) PROVE checked' \in [Tabs -> [Items -> BOOLEAN]]
    <3>1. CASE dialog[t] \in ToggleDialogs
      <4>1. PICK i \in Items, v \in BOOLEAN : checked' = [checked EXCEPT ![t][i] = ~v]
        BY <2>0, <3>1 DEF Dismissed
      <4>2. [checked[t] EXCEPT ![i] = ~v] \in [Items -> BOOLEAN]
        OBVIOUS
      <4> QED BY <4>1, <4>2
    <3> QED BY <2>0, <3>1 DEF Dismissed
  <2>5. ASSUME NEW t \in Tabs, Dismiss(t) PROVE TypeOK'
    <3>1. checked' \in [Tabs -> [Items -> BOOLEAN]]
      BY <2>0, <2>5 DEF Dismiss
    <3> QED BY <2>5, <3>1 DEF Dismiss
  <2>6. ASSUME NEW r \in Requests, Apply(r) PROVE TypeOK'
    <3> DEFINE q == request[r]
    <3>1. q \in SentRequests /\ ~q.applied
      BY <2>6 DEF Apply, Unsent
    <3>2. request' \in [Requests -> {Unsent} \cup SentRequests]
      <4>1. [q EXCEPT !.applied = TRUE] \in SentRequests
        BY <3>1
      <4> QED BY <2>6, <4>1 DEF Apply
    <3>3. exists' \subseteq Items /\ active' \in [Items -> BOOLEAN]
      <4>1. CASE q.method = "PATCH"
        BY <2>6, <3>1, <4>1 DEF Apply
      <4>2. CASE q.method = "DELETE"
        BY <2>6, <3>1, <4>2 DEF Apply
      <4> QED BY <3>1, <4>1, <4>2
    <3> QED BY <2>6, <3>2, <3>3 DEF Apply
  <2>7. ASSUME NEW t \in Tabs, Fire(t)
        PROVE  /\ checked' \in [Tabs -> [Items -> BOOLEAN]]
               /\ abandoned' \in [Tabs -> [Items -> Nat]]
               /\ dialog' \in [Tabs -> {NoDialog, Message} \cup ToggleDialogs \cup DeleteDialogs]
    <3>1. checked' \in [Tabs -> [Items -> BOOLEAN]]
      BY <2>0, <2>7 DEF Fire, Abandon
    <3>2. abandoned' \in [Tabs -> [Items -> Nat]]
      <4>1. CASE UNCHANGED abandoned
        BY <4>1
      <4>2. CASE Abandon(t)
        <5>1. \A i \in Items :
                 (IF dialog[t] \in ToggleDialogs /\ dialog[t].item = i
                    THEN abandoned[t][i] + 1 ELSE abandoned[t][i]) \in Nat
          OBVIOUS
        <5> QED BY <4>2, <5>1 DEF Abandon
      <4> QED BY <2>7, <4>1, <4>2 DEF Fire
    <3> QED BY <2>7, <3>1, <3>2 DEF Fire
  <2>8. ASSUME NEW r \in Requests, Close(r)
        PROVE  /\ request[r] \in SentRequests
               /\ request' \in [Requests -> {Unsent} \cup SentRequests]
    BY <2>8 DEF Close, Unsent
  <2>9. ASSUME NEW r \in Requests, Succeed(r) PROVE TypeOK'
    <3>1. CASE request[r].method = "PATCH"
      BY <2>8, <2>9, <3>1 DEF Succeed, LoaderClose
    <3>2. CASE request[r].method = "DELETE"
      BY <2>7, <2>8, <2>9, <3>2 DEF Succeed
    <3> QED BY <2>8, <2>9, <3>1, <3>2 DEF Succeed
  <2>10. ASSUME NEW r \in Requests, Fail(r) PROVE TypeOK'
    <3>1. CASE request[r].method = "PATCH"
      BY <2>8, <2>10, <3>1 DEF Fail, LoaderClose
    <3>2. CASE request[r].method = "DELETE"
      BY <2>7, <2>8, <2>10, <3>2 DEF Fail
    <3> QED BY <2>8, <2>10, <3>1, <3>2 DEF Fail
  <2>11. CASE UNCHANGED vars
    BY <2>11 DEF vars
  <2> QED BY <2>1, <2>2, <2>3, <2>4, <2>5, <2>6, <2>9, <2>10, <2>11
          DEF Next, Admin, Answer
<1> QED BY <1>1, <1>2, PTL DEF Spec

-----------------------------------------------------------------------------
(***************************************************************************)
(* The spinner.                                                            *)
(***************************************************************************)

\* A spinner has a request that will remove it; a change under way has its spinner unless
\* another change of the tab has ended.
THEOREM Loader == Spec => []LoaderFollowsRequests
<1> USE DEF LoaderFollowsRequests, Patches
<1>1. Init => LoaderFollowsRequests
  BY DEF Init, Unsent
<1>2. TypeOK /\ LoaderFollowsRequests /\ [Next]_vars => LoaderFollowsRequests'
  <2> SUFFICES ASSUME TypeOK, LoaderFollowsRequests, [Next]_vars PROVE LoaderFollowsRequests'
    OBVIOUS
  <2>1. ASSUME UNCHANGED loader,
               \A r \in Requests :
                  /\ request'[r].method = "PATCH" <=> request[r].method = "PATCH"
                  /\ request[r].method = "PATCH" =>
                        request'[r].tab = request[r].tab /\ request'[r].open = request[r].open
        PROVE  LoaderFollowsRequests'
    BY <2>1
  <2>2. ASSUME NEW t \in Tabs, NEW r \in Requests, ConfirmChange(t, r)
        PROVE  LoaderFollowsRequests'
    <3>1. /\ request[r].method # "PATCH" /\ request'[r].method = "PATCH"
          /\ request'[r].tab = t /\ request'[r].open
          /\ \A q \in Requests : q # r => request'[q] = request[q]
          /\ loader'[t] /\ \A u \in Tabs : u # t => loader'[u] = loader[u]
      BY <2>2 DEF ConfirmChange, Send, Unsent, LoaderOpen, TypeOK
    <3> QED BY <3>1
  <2>3. ASSUME NEW t \in Tabs, NEW r \in Requests, ConfirmDelete(t, r)
        PROVE  LoaderFollowsRequests'
    <3>1. request[r].method # "PATCH" /\ request'[r].method = "DELETE"
      BY <2>3 DEF ConfirmDelete, Send, Unsent, TypeOK
    <3> QED BY <2>1, <2>3, <3>1 DEF ConfirmDelete, Send, TypeOK
  <2>4. ASSUME NEW r \in Requests, Apply(r) PROVE LoaderFollowsRequests'
    <3>1. /\ request[r] \in SentRequests
          /\ request' = [request EXCEPT ![r].applied = TRUE] /\ UNCHANGED loader
      BY <2>4 DEF Apply, TypeOK
    <3>2. \A q \in Requests :
             /\ request'[q].method = request[q].method
             /\ q = r => request'[q].tab = request[q].tab /\ request'[q].open = request[q].open
             /\ q # r => request'[q] = request[q]
      BY <3>1 DEF TypeOK, SentRequests
    <3> QED BY <2>1, <3>1, <3>2
  <2>5. ASSUME NEW r \in Requests, Close(r),
               request[r].method = "PATCH" => LoaderClose(request[r].tab),
               request[r].method # "PATCH" => UNCHANGED loader
        PROVE  LoaderFollowsRequests'
    <3>1. /\ request[r] \in SentRequests /\ request[r].open
          /\ request' = [request EXCEPT ![r].open = FALSE]
      BY <2>5 DEF Close, TypeOK
    <3>2. /\ request'[r].method = request[r].method /\ request'[r].tab = request[r].tab
          /\ ~request'[r].open
          /\ \A q \in Requests : q # r => request'[q] = request[q]
      BY <3>1 DEF TypeOK, SentRequests
    <3>3. CASE request[r].method = "PATCH"
      <4>1. /\ request[r].tab \in Tabs /\ ~loader'[request[r].tab]
            /\ \A u \in Tabs : u # request[r].tab => loader'[u] = loader[u]
        BY <2>5, <3>1, <3>3 DEF LoaderClose, TypeOK, SentRequests
      <4> QED BY <3>2, <3>3, <4>1
    <3>4. CASE request[r].method # "PATCH"
      BY <2>1, <2>5, <3>2, <3>4
    <3> QED BY <3>3, <3>4
  <2>6. ASSUME NEW r \in Requests, Succeed(r) \/ Fail(r) PROVE LoaderFollowsRequests'
    BY <2>5, <2>6 DEF Succeed, Fail, Close, TypeOK, SentRequests
  <2>7. ASSUME NEW t \in Tabs, NEW i \in Items, Change(t, i) \/ AskDelete(t, i)
        PROVE  LoaderFollowsRequests'
    BY <2>1, <2>7 DEF Change, AskDelete
  <2>8. ASSUME NEW t \in Tabs, Dismiss(t) PROVE LoaderFollowsRequests'
    BY <2>1, <2>8 DEF Dismiss
  <2>9. CASE UNCHANGED vars
    BY <2>1, <2>9 DEF vars
  <2> QED BY <2>2, <2>3, <2>4, <2>6, <2>7, <2>8, <2>9 DEF Next, Admin, Answer
<1> QED BY <1>1, <1>2, TypeCorrect, PTL DEF Spec

-----------------------------------------------------------------------------
(***************************************************************************)
(* The checkbox.                                                           *)
(***************************************************************************)

Odd(n) == n % 2 = 1

LEMMA OddFlips ==
    ASSUME NEW n \in Nat
    PROVE  ~Odd(0) /\ (Odd(n + 1) <=> ~Odd(n))
BY DEF Odd

LEMMA DriftTyped ==
    ASSUME NEW t, NEW i, abandoned[t][i] \in Nat
    PROVE  /\ IsFiniteSet(Unapplied(t, i)) /\ Cardinality(Unapplied(t, i)) \in Nat
           /\ IsFiniteSet(Foreign(t, i)) /\ Cardinality(Foreign(t, i)) \in Nat
           /\ Deciding(t, i) = {} => Cardinality(Deciding(t, i)) = 0
           /\ Deciding(t, i) = {t} => Cardinality(Deciding(t, i)) = 1
           /\ Cardinality(Deciding(t, i)) \in Nat
           /\ Drift(t, i) \in Nat
<1>1. Unapplied(t, i) \subseteq Requests /\ Foreign(t, i) \subseteq Requests
  BY DEF Unapplied, Foreign, Patches
<1>2. /\ IsFiniteSet(Unapplied(t, i)) /\ Cardinality(Unapplied(t, i)) \in Nat
      /\ IsFiniteSet(Foreign(t, i)) /\ Cardinality(Foreign(t, i)) \in Nat
  BY <1>1, FiniteAssumption, FS_Subset, FS_CardinalityType
<1>3. Deciding(t, i) \in {{}, {t}}
  BY DEF Deciding
<1>4. Cardinality({}) = 0 /\ Cardinality({t}) = 1
  BY FS_EmptySet, FS_Singleton
<1>5. Cardinality(Deciding(t, i)) \in Nat
  BY <1>3, <1>4
<1>6. Drift(t, i) \in Nat
  BY <1>2, <1>5 DEF Drift
<1> QED BY <1>2, <1>4, <1>5, <1>6

\* The closure of an open question has what the box shows.
ClosureIsFresh ==
    \A t \in Tabs :
        dialog[t] \in ToggleDialogs => checked[t][dialog[t].item] = dialog[t].value

Account(t, i) == checked[t][i] # active[i] <=> Odd(Drift(t, i))

BoxInv ==
    /\ TypeOK
    /\ ClosureIsFresh
    /\ \A t \in Tabs, i \in Items : Account(t, i)

LEMMA DecidingIs ==
    ASSUME NEW t, NEW i
    PROVE  /\ dialog[t] \in ToggleDialogs /\ dialog[t].item = i => Deciding(t, i) = {t}
           /\ ~(dialog[t] \in ToggleDialogs /\ dialog[t].item = i) => Deciding(t, i) = {}
BY DEF Deciding

\* Neither what is open nor what is answered counts.
LEMMA SameRequests ==
    ASSUME NEW t, NEW i,
           \A r \in Requests :
              /\ request'[r].method = "PATCH" <=> request[r].method = "PATCH"
              /\ request[r].method = "PATCH" =>
                    /\ request'[r].tab = request[r].tab /\ request'[r].item = request[r].item
                    /\ request'[r].applied = request[r].applied
    PROVE  Unapplied(t, i)' = Unapplied(t, i) /\ Foreign(t, i)' = Foreign(t, i)
BY DEF Unapplied, Foreign, Patches

LEMMA ClosureStep == TypeOK /\ ClosureIsFresh /\ [Next]_vars => ClosureIsFresh'
<1> SUFFICES ASSUME TypeOK, ClosureIsFresh, [Next]_vars, NEW t \in Tabs,
                    dialog'[t] \in ToggleDialogs
             PROVE  checked'[t][dialog'[t].item] = dialog'[t].value
  BY DEF ClosureIsFresh
<1>1. ASSUME dialog'[t] = dialog[t], checked'[t] = checked[t]
      PROVE  checked'[t][dialog'[t].item] = dialog'[t].value
  BY <1>1 DEF ClosureIsFresh
<1>2. ASSUME NEW u \in Tabs, NEW i \in Items, Change(u, i)
      PROVE  checked'[t][dialog'[t].item] = dialog'[t].value
  <2>1. CASE u = t
    BY <1>2, <2>1 DEF Change, TypeOK
  <2>2. CASE u # t
    BY <1>1, <1>2, <2>2 DEF Change, TypeOK
  <2> QED BY <2>1, <2>2
<1>3. ASSUME NEW u \in Tabs, NEW d, d \notin ToggleDialogs, dialog' = [dialog EXCEPT ![u] = d],
             UNCHANGED checked \/ Dismissed(u)
      PROVE  checked'[t][dialog'[t].item] = dialog'[t].value
  <2>1. u # t
    BY <1>3 DEF TypeOK
  <2>2. checked'[t] = checked[t]
    BY <1>3, <2>1 DEF Dismissed, TypeOK
  <2> QED BY <1>1, <1>3, <2>1, <2>2 DEF TypeOK
<1>4. NoDialog \notin ToggleDialogs /\ Message \notin ToggleDialogs
      /\ \A i : [kind |-> "delete", item |-> i] \notin ToggleDialogs
  BY DEF NoDialog, Message, ToggleDialogs
<1>5. ASSUME NEW u \in Tabs, Fire(u)
      PROVE  checked'[t][dialog'[t].item] = dialog'[t].value
  BY <1>3, <1>4, <1>5 DEF Fire, Abandon
<1>6. ASSUME NEW r \in Requests, Answer(r)
      PROVE  checked'[t][dialog'[t].item] = dialog'[t].value
  <2>1. CASE Apply(r)
    BY <1>1, <2>1 DEF Apply
  <2>2. Close(r) => request[r].tab \in Tabs /\ request[r].method \in {"PATCH", "DELETE"}
    BY DEF Close, TypeOK, SentRequests
  <2>3. CASE Succeed(r)
    BY <1>1, <1>5, <2>2, <2>3 DEF Succeed
  <2>4. CASE Fail(r)
    BY <1>1, <1>5, <2>2, <2>4 DEF Fail
  <2> QED BY <1>6, <2>1, <2>3, <2>4 DEF Answer
<1>7. ASSUME NEW u \in Tabs, Dismiss(u)
      PROVE  checked'[t][dialog'[t].item] = dialog'[t].value
  BY <1>3, <1>4, <1>7 DEF Dismiss
<1>8. ASSUME NEW u \in Tabs, NEW r \in Requests, ConfirmChange(u, r) \/ ConfirmDelete(u, r)
      PROVE  checked'[t][dialog'[t].item] = dialog'[t].value
  BY <1>3, <1>4, <1>8 DEF ConfirmChange, ConfirmDelete
<1>9. ASSUME NEW u \in Tabs, NEW i \in Items, AskDelete(u, i)
      PROVE  checked'[t][dialog'[t].item] = dialog'[t].value
  BY <1>3, <1>4, <1>9 DEF AskDelete
<1>10. CASE UNCHANGED vars
  BY <1>1, <1>10 DEF vars
<1> QED BY <1>2, <1>6, <1>7, <1>8, <1>9, <1>10 DEF Next, Admin

LEMMA AccountStep ==
    ASSUME BoxInv, [Next]_vars, NEW t \in Tabs, NEW i \in Items
    PROVE  Account(t, i)'
<1> DEFINE D == Deciding(t, i)  U == Unapplied(t, i)  F == Foreign(t, i)  A == abandoned[t][i]
<1>0. TypeOK /\ ClosureIsFresh /\ Account(t, i)
  BY DEF BoxInv
<1>1. /\ A \in Nat /\ checked[t][i] \in BOOLEAN /\ active[i] \in BOOLEAN
      /\ IsFiniteSet(U) /\ Cardinality(U) \in Nat /\ IsFiniteSet(F) /\ Cardinality(F) \in Nat
      /\ Drift(t, i) = Cardinality(D) + A + Cardinality(U) + Cardinality(F)
      /\ Drift(t, i)' = Cardinality(D') + A' + Cardinality(U') + Cardinality(F')
      /\ Drift(t, i) \in Nat /\ Cardinality(D) \in Nat
      /\ Cardinality({}) = 0 /\ Cardinality({t}) = 1
  <2>1. A \in Nat /\ checked[t][i] \in BOOLEAN /\ active[i] \in BOOLEAN
    BY <1>0 DEF TypeOK
  <2>2. /\ Drift(t, i) = Cardinality(D) + A + Cardinality(U) + Cardinality(F)
        /\ Drift(t, i)' = Cardinality(D') + A' + Cardinality(U') + Cardinality(F')
    BY DEF Drift
  <2>3. Cardinality({}) = 0 /\ Cardinality({t}) = 1
    BY FS_EmptySet, FS_Singleton
  <2> QED BY <2>1, <2>2, <2>3, DriftTyped
\* The two ways to keep the account: box, server and drift all stay, or one of the first
\* two turns and the drift moves by one.
<1>2. ASSUME Drift(t, i)' = Drift(t, i),
             checked'[t][i] = checked[t][i], active'[i] = active[i]
      PROVE  Account(t, i)'
  BY <1>0, <1>2 DEF Account
<1>3. ASSUME Drift(t, i)' = Drift(t, i) + 1 \/ Drift(t, i) = Drift(t, i)' + 1,
             Drift(t, i)' \in Nat,
             \/ checked'[t][i] = ~checked[t][i] /\ active'[i] = active[i]
             \/ checked'[t][i] = checked[t][i] /\ active'[i] = ~active[i]
      PROVE  Account(t, i)'
  <2>1. Odd(Drift(t, i)') <=> ~Odd(Drift(t, i))
    BY <1>1, <1>3, OddFlips
  <2>2. checked'[t][i] # active'[i] <=> ~(checked[t][i] # active[i])
    BY <1>1, <1>3
  <2> QED BY <1>0, <2>1, <2>2 DEF Account
<1>4. ASSUME D' = D, U' = U, F' = F, A' = A, checked'[t][i] = checked[t][i], active'[i] = active[i]
      PROVE  Account(t, i)'
  BY <1>1, <1>2, <1>4
<1>5. /\ NoDialog \notin ToggleDialogs /\ Message \notin ToggleDialogs
      /\ \A j : [kind |-> "delete", item |-> j] \notin ToggleDialogs
      /\ \A j \in Items, v \in BOOLEAN :
            [kind |-> "toggle", item |-> j, value |-> v] \in ToggleDialogs
  BY DEF NoDialog, Message, ToggleDialogs
<1>6. /\ dialog'[t] \in ToggleDialogs /\ dialog'[t].item = i => D' = {t}
      /\ ~(dialog'[t] \in ToggleDialogs /\ dialog'[t].item = i) => D' = {}
  BY DEF Deciding
<1>7. D' = D \/ dialog'[t] # dialog[t]
  BY <1>6, DecidingIs
<1>8. UNCHANGED request => U' = U /\ F' = F
  BY DEF Unapplied, Foreign, Patches
<1>9. ASSUME NEW u \in Tabs, NEW j \in Items, Change(u, j) PROVE Account(t, i)'
  <2>1. U' = U /\ F' = F /\ A' = A /\ active'[i] = active[i]
    BY <1>8, <1>9 DEF Change, serverVars
  <2>2. CASE u = t /\ j = i
    <3>1. D = {} /\ D' = {t}
      <4>1. dialog[t] = NoDialog
        BY <1>9, <2>2 DEF Change
      <4>2. dialog'[t] = [kind |-> "toggle", item |-> i, value |-> ~checked[t][i]]
        BY <1>0, <1>9, <2>2 DEF Change, TypeOK
      <4>3. dialog'[t] \in ToggleDialogs /\ dialog'[t].item = i
        BY <1>1, <4>2 DEF ToggleDialogs
      <4> QED BY <1>5, <1>6, <4>1, <4>3, DecidingIs
    <3>2. checked'[t][i] = ~checked[t][i]
      BY <1>0, <1>9, <2>2 DEF Change, TypeOK
    <3> QED BY <1>1, <1>3, <2>1, <3>1, <3>2
  <2>3. CASE u # t \/ j # i
    <3>1. D' = D
      <4>1. CASE u # t
        BY <1>0, <1>7, <1>9, <4>1 DEF Change, TypeOK
      <4>2. CASE u = t
        BY <1>0, <1>5, <1>6, <1>9, <2>3, <4>2, DecidingIs DEF Change, TypeOK
      <4> QED BY <4>1, <4>2
    <3>2. checked'[t][i] = checked[t][i]
      BY <1>0, <1>9, <2>3 DEF Change, TypeOK
    <3> QED BY <1>4, <2>1, <3>1, <3>2
  <2> QED BY <2>2, <2>3
\* A question ends without a request: its box is put back, or it is counted as abandoned.
<1>10. ASSUME NEW u \in Tabs, NEW d, d \notin ToggleDialogs,
              dialog' = [dialog EXCEPT ![u] = d],
              (Dismissed(u) /\ UNCHANGED abandoned) \/ Abandon(u),
              U' = U, F' = F, active' = active
       PROVE  Account(t, i)'
  <2>1. CASE u = t /\ dialog[t] \in ToggleDialogs /\ dialog[t].item = i
    <3>1. D = {t} /\ D' = {}
      BY <1>0, <1>6, <1>10, <2>1, DecidingIs DEF TypeOK
    <3>2. CASE Dismissed(u) /\ UNCHANGED abandoned
      <4>1. checked'[t][i] = ~checked[t][i]
        BY <1>0, <2>1, <3>2 DEF Dismissed, ClosureIsFresh, TypeOK
      <4> QED BY <1>1, <1>3, <1>10, <3>1, <3>2, <4>1
    <3>3. CASE Abandon(u)
      <4>1. A' = A + 1 /\ checked' = checked
        BY <1>0, <2>1, <3>3 DEF Abandon, TypeOK
      <4> QED BY <1>1, <1>2, <1>10, <3>1, <4>1
    <3> QED BY <1>10, <3>2, <3>3
  <2>2. CASE ~(u = t /\ dialog[t] \in ToggleDialogs /\ dialog[t].item = i)
    <3>1. D' = D
      BY <1>0, <1>6, <1>10, <2>2, DecidingIs DEF TypeOK
    <3>2. A' = A /\ checked'[t][i] = checked[t][i]
      <4>1. CASE Dismissed(u) /\ UNCHANGED abandoned
        BY <1>0, <2>2, <4>1 DEF Dismissed, TypeOK
      <4>2. CASE Abandon(u)
        BY <1>0, <2>2, <4>2 DEF Abandon, TypeOK
      <4> QED BY <1>10, <4>1, <4>2
    <3> QED BY <1>4, <1>10, <3>1, <3>2
  <2> QED BY <2>1, <2>2
<1>11. ASSUME NEW u \in Tabs, Dismiss(u) PROVE Account(t, i)'
  BY <1>5, <1>8, <1>10, <1>11 DEF Dismiss, serverVars
<1>12. ASSUME NEW u \in Tabs, NEW j \in Items, AskDelete(u, j) PROVE Account(t, i)'
  <2>1. D' = D
    BY <1>0, <1>5, <1>6, <1>12, DecidingIs DEF AskDelete, TypeOK
  <2> QED BY <1>4, <1>8, <1>12, <2>1 DEF AskDelete, serverVars
<1>13. ASSUME NEW u \in Tabs, NEW r \in Requests, ConfirmDelete(u, r) PROVE Account(t, i)'
  <2>1. D' = D
    <3>1. dialog[u] \notin ToggleDialogs
      BY <1>13 DEF ConfirmDelete, ToggleDialogs, DeleteDialogs
    <3> QED BY <1>0, <1>5, <1>6, <1>13, <3>1, DecidingIs DEF ConfirmDelete, TypeOK
  <2>2. request[r].method # "PATCH" /\ request'[r].method = "DELETE"
    BY <1>0, <1>13 DEF ConfirmDelete, Send, Unsent, TypeOK
  <2>3. U' = U /\ F' = F
    BY <1>0, <1>13, <2>2, SameRequests DEF ConfirmDelete, Send, TypeOK
  <2> QED BY <1>4, <1>13, <2>1, <2>3 DEF ConfirmDelete, serverVars
<1>14. ASSUME NEW u \in Tabs, NEW r \in Requests, ConfirmChange(u, r) PROVE Account(t, i)'
  <2>1. /\ request[r].method = "none"
        /\ request'[r].method = "PATCH" /\ request'[r].tab = u
        /\ request'[r].item = dialog[u].item /\ request'[r].applied = FALSE
        /\ \A q \in Requests : q # r => request'[q] = request[q]
        /\ dialog' = [dialog EXCEPT ![u] = NoDialog] /\ dialog[u] \in ToggleDialogs
        /\ A' = A /\ checked' = checked /\ active' = active
    BY <1>0, <1>14 DEF ConfirmChange, Send, Unsent, TypeOK, serverVars
  <2>2. F' = F
    BY <2>1 DEF Foreign
  <2>3. CASE u = t /\ dialog[t].item = i
    <3>1. D = {t} /\ D' = {}
      BY <1>0, <1>5, <1>6, <2>1, <2>3, DecidingIs DEF TypeOK
    <3>2. U' = U \cup {r} /\ r \notin U
      BY <2>1, <2>3 DEF Unapplied, Patches
    <3>3. Cardinality(U') = Cardinality(U) + 1
      BY <1>1, <3>2, FS_AddElement
    <3> QED BY <1>1, <1>2, <2>1, <2>2, <3>1, <3>3
  <2>4. CASE ~(u = t /\ dialog[t].item = i)
    <3>1. D' = D
      BY <1>0, <1>5, <1>6, <2>1, <2>4, DecidingIs DEF TypeOK
    <3>2. U' = U
      BY <2>1, <2>4 DEF Unapplied, Patches
    <3> QED BY <1>4, <2>1, <2>2, <3>1, <3>2
  <2> QED BY <2>3, <2>4
<1>15. ASSUME NEW r \in Requests, Apply(r) PROVE Account(t, i)'
  <2>1. /\ request[r] \in SentRequests /\ ~request[r].applied
        /\ request' = [request EXCEPT ![r].applied = TRUE]
        /\ UNCHANGED <<checked, dialog, abandoned>>
    BY <1>0, <1>15 DEF Apply, TypeOK
  <2>2. /\ request'[r].method = request[r].method /\ request'[r].tab = request[r].tab
        /\ request'[r].item = request[r].item /\ request'[r].applied
        /\ \A q \in Requests : q # r => request'[q] = request[q]
    BY <1>0, <2>1 DEF TypeOK, SentRequests
  <2>3. D' = D /\ A' = A /\ checked'[t][i] = checked[t][i]
    BY <1>7, <2>1
  <2>4. CASE request[r].method = "PATCH" /\ request[r].item = i
    <3>1. active'[i] = ~active[i]
      BY <1>0, <1>15, <2>4 DEF Apply, TypeOK
    <3>2. CASE request[r].tab = t
      <4>1. U' = U \ {r} /\ r \in U /\ F' = F
        BY <2>1, <2>2, <2>4, <3>2 DEF Unapplied, Foreign, Patches
      <4>2. Cardinality(U') = Cardinality(U) - 1 /\ Cardinality(U') \in Nat
        BY <1>1, <4>1, FS_RemoveElement, FS_CardinalityType
      <4> QED BY <1>1, <1>3, <2>3, <3>1, <4>1, <4>2
    <3>3. CASE request[r].tab # t
      <4>1. F' = F \cup {r} /\ r \notin F /\ U' = U
        BY <2>1, <2>2, <2>4, <3>3 DEF Unapplied, Foreign, Patches
      <4>2. Cardinality(F') = Cardinality(F) + 1
        BY <1>1, <4>1, FS_AddElement
      <4> QED BY <1>1, <1>3, <2>3, <3>1, <4>1, <4>2
    <3> QED BY <3>2, <3>3
  <2>5. CASE ~(request[r].method = "PATCH" /\ request[r].item = i)
    <3>1. U' = U /\ F' = F
      BY <2>2, <2>5 DEF Unapplied, Foreign, Patches
    <3>2. active'[i] = active[i]
      BY <1>0, <1>15, <2>1, <2>5 DEF Apply, TypeOK, SentRequests
    <3> QED BY <1>4, <2>3, <3>1, <3>2
  <2> QED BY <2>4, <2>5
<1>16. ASSUME NEW r \in Requests, Close(r)
       PROVE  /\ U' = U /\ F' = F
              /\ request[r].tab \in Tabs /\ request[r].method \in {"PATCH", "DELETE"}
  <2>1. request[r] \in SentRequests /\ request' = [request EXCEPT ![r].open = FALSE]
    BY <1>0, <1>16 DEF Close, TypeOK
  <2>2. \A q \in Requests :
           /\ request'[q].method = request[q].method
           /\ request[q].method = "PATCH" =>
                 /\ request'[q].tab = request[q].tab /\ request'[q].item = request[q].item
                 /\ request'[q].applied = request[q].applied
    BY <1>0, <2>1 DEF TypeOK, SentRequests
  <2> QED BY <2>1, <2>2, SameRequests DEF SentRequests
<1>17. ASSUME NEW r \in Requests, Succeed(r) \/ Fail(r) PROVE Account(t, i)'
  <2>1. Close(r) /\ active' = active
    BY <1>17 DEF Succeed, Fail, serverVars
  <2>2. CASE request[r].method = "PATCH"
    <3>1. UNCHANGED <<checked, dialog, abandoned>>
      BY <1>17, <2>2 DEF Succeed, Fail
    <3>2. D' = D
      BY <1>7, <3>1
    <3> QED BY <1>4, <1>16, <2>1, <3>1, <3>2
  <2>3. CASE request[r].method = "DELETE"
    <3>1. Fire(request[r].tab)
      BY <1>17, <2>3 DEF Succeed, Fail
    <3> QED BY <1>5, <1>10, <1>16, <2>1, <3>1 DEF Fire
  <2> QED BY <1>16, <2>1, <2>2, <2>3
<1>18. CASE UNCHANGED vars
  <2>1. D' = D
    BY <1>7, <1>18 DEF vars
  <2> QED BY <1>4, <1>8, <1>18, <2>1 DEF vars, serverVars
<1> QED BY <1>9, <1>11, <1>12, <1>13, <1>14, <1>15, <1>17, <1>18 DEF Next, Admin, Answer

\* A checkbox and the server disagree exactly if an odd number of changes is known to one
\* of them only, whatever order tabs, answers and messages come in.
THEOREM BoxDrifts == Spec => []BoxDriftsByUnsharedChanges
<1>1. Init => ClosureIsFresh /\ \A t \in Tabs, i \in Items : Account(t, i)
  <2> SUFFICES ASSUME Init PROVE ClosureIsFresh /\ \A t \in Tabs, i \in Items : Account(t, i)
    OBVIOUS
  <2>1. ClosureIsFresh
    BY DEF Init, ClosureIsFresh, NoDialog, ToggleDialogs
  <2>2. ASSUME NEW t \in Tabs, NEW i \in Items PROVE Account(t, i)
    <3>1. Deciding(t, i) = {} /\ Unapplied(t, i) = {} /\ Foreign(t, i) = {}
      BY DEF Init, Deciding, Unapplied, Foreign, Patches, NoDialog, ToggleDialogs, Unsent
    <3>2. Drift(t, i) = 0
      BY <3>1, FS_EmptySet DEF Init, Drift
    <3> QED BY <3>2, OddFlips DEF Init, Account
  <2> QED BY <2>1, <2>2
<1>2. TypeOK /\ TypeOK' /\ BoxInv /\ [Next]_vars => BoxInv'
  BY ClosureStep, AccountStep DEF BoxInv
<1>3. Init /\ TypeOK => BoxInv
  BY <1>1 DEF BoxInv
<1>4. BoxInv => BoxDriftsByUnsharedChanges
  BY DEF BoxInv, TypeOK, Account, Odd, BoxDriftsByUnsharedChanges
<1> QED BY <1>2, <1>3, <1>4, TypeCorrect, PTL DEF Spec
=============================================================================

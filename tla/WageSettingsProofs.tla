------------------------- MODULE WageSettingsProofs -------------------------
(***************************************************************************)
(* Proofs about WageSettings for any pages, lists, rows, forms and         *)
(* reloads: which rows a form can take away, and what a success says.      *)
(*                                                                         *)
(* A form has one key per row and index.  The invariant says of which rows *)
(* it is the form, and the lemmas about Keys and Bind that those rows, in  *)
(* their order, are what the server makes of it.                           *)
(***************************************************************************)
EXTENDS WageSettings, FiniteSetTheorems, SequenceTheorems, TLAPS

\* The forms that have been sent.
Sent == {r \in Requests : request[r] # Unsent}

\* The keys and values of the form for the rows s.
Keys(s) == [i \in 0..(Len(s) - 1) |-> s[i + 1]]

\* The form for all lists.
Form(f) == [l \in Lists |-> Keys(f[l])]

\* The types, with the table as the render of the arrays.
Typed ==
    /\ wages \in [Pages -> [Lists -> Seq(Rows)]]
    /\ table = wages
    /\ sending \in [Pages -> Requests \cup {NoRequest}]
    /\ request = [r \in Requests |-> request[r]]
    /\ \A r \in Sent :
          /\ request[r] = [state |-> request[r].state, keys |-> request[r].keys,
                           shown |-> request[r].shown]
          /\ request[r].state \in {"sent", "saved", "answered"}
          /\ request[r].shown \subseteq Rows
    /\ saved \in [Lists -> Seq(Rows)]
    /\ reloads \in 0..MaxReloads
    /\ shown \in [Pages -> SUBSET Rows]
    /\ deleted \subseteq Rows /\ everSaved \subseteq Rows /\ unseen \subseteq Rows
    /\ last \in Requests \cup {NoRequest}
    /\ told \in [Pages -> Requests \cup {NoRequest}]
    /\ edited \in [Pages -> BOOLEAN]

\* A page or a form has rows the page has shown, and those of them it does not have any
\* more were deleted beside their button.
RowsAreShown ==
    /\ \A p \in Pages :
          /\ RowsIn(wages[p]) \subseteq shown[p]
          /\ shown[p] \ RowsIn(wages[p]) \subseteq deleted
    /\ \A r \in Sent : \E f \in [Lists -> Seq(Rows)] :
          /\ request[r].keys = Form(f)
          /\ RowsIn(f) \subseteq request[r].shown
          /\ request[r].shown \ RowsIn(f) \subseteq deleted

\* The server has the rows of the form it saved last.
LastIsSaved ==
    last # NoRequest =>
       /\ last \in Sent /\ request[last].state # "sent"
       /\ request[last].keys = Form(saved)

\* The form a page waits for, or was told of, has been sent, and it is the form of the
\* page as long as nobody edits it.
FormsAreFresh ==
    \A p \in Pages : \A r \in {sending[p], told[p]} \ {NoRequest} :
       /\ r \in Sent
       /\ ~edited[p] => request[r].keys = Form(wages[p])

\* All of it, with the rows that may be lost.
FormInv == Typed /\ RowsAreShown /\ LastIsSaved /\ FormsAreFresh /\ LostRowsWereUnseen

-----------------------------------------------------------------------------
(***************************************************************************)
(* Forms, rows and lists.                                                  *)
(***************************************************************************)

\* The binder makes the rows of their form again: its keys have no gap.
LEMMA BindKeys ==
    ASSUME NEW s \in Seq(Rows)
    PROVE  Bind(Keys(s)) = s
<1>1. Len(s) \in Nat /\ DOMAIN Keys(s) = 0..(Len(s) - 1)
  BY DEF Keys
<1>2. Cardinality(DOMAIN Keys(s)) = Len(s)
  BY <1>1, FS_Interval
<1> DEFINE D == DOMAIN Keys(s)
           Binds(k) == 0..(k - 1) \subseteq D /\ k \notin D
<1>3. \A k \in 0..Len(s) : Binds(k) <=> k = Len(s)
  BY <1>1
<1>4. (CHOOSE k \in 0..Len(s) : Binds(k)) = Len(s)
  <2>1. Len(s) \in 0..Len(s)
    BY <1>1
  <2> HIDE DEF Binds
  <2> QED BY <1>3, <2>1
<1>5. Bind(Keys(s)) = [i \in 1..Len(s) |-> Keys(s)[i - 1]]
  BY <1>2, <1>4 DEF Bind
<1>6. \A i \in 1..Len(s) : Keys(s)[i - 1] = s[i]
  BY <1>1 DEF Keys
<1> HIDE DEF D, Binds
<1> QED BY <1>1, <1>5, <1>6

\* A row of a page or form is at an index of one of its lists.
LEMMA InRows ==
    ASSUME NEW f, NEW w
    PROVE  w \in RowsIn(f) <=> \E l \in Lists : \E i \in DOMAIN f[l] : w = f[l][i]
BY DEF RowsIn

\* A form has the rows of its page.
LEMMA RowsOfKeys ==
    ASSUME NEW f \in [Lists -> Seq(Rows)]
    PROVE  RowsIn([l \in Lists |-> Keys(f[l])]) = RowsIn(f)
<1> DEFINE g == [l \in Lists |-> Keys(f[l])]
<1>1. ASSUME NEW l \in Lists
      PROVE  /\ \A i \in DOMAIN g[l] : \E j \in DOMAIN f[l] : g[l][i] = f[l][j]
             /\ \A i \in DOMAIN f[l] : \E j \in DOMAIN g[l] : g[l][j] = f[l][i]
  <2> DEFINE s == f[l]
  <2>1. s \in Seq(Rows) /\ Len(s) \in Nat /\ DOMAIN s = 1..Len(s)
    OBVIOUS
  <2>2. DOMAIN Keys(s) = 0..(Len(s) - 1) /\ \A i \in 0..(Len(s) - 1) : Keys(s)[i] = s[i + 1]
    BY DEF Keys
  <2>3. ASSUME NEW i \in 1..Len(s) PROVE \E j \in 0..(Len(s) - 1) : Keys(s)[j] = s[i]
    <3>1. i - 1 \in 0..(Len(s) - 1) /\ (i - 1) + 1 = i
      BY <2>1
    <3> QED BY <2>2, <3>1
  <2>4. \A i \in 0..(Len(s) - 1) : i + 1 \in 1..Len(s)
    BY <2>1
  <2>5. g[l] = Keys(s)
    OBVIOUS
  <2> HIDE DEF s, g
  <2>6. ASSUME NEW i \in DOMAIN g[l] PROVE \E j \in DOMAIN s : g[l][i] = s[j]
    BY <2>1, <2>2, <2>4, <2>5
  <2>7. ASSUME NEW i \in DOMAIN s PROVE \E j \in DOMAIN g[l] : g[l][j] = s[i]
    BY <2>1, <2>2, <2>3, <2>5
  <2> QED BY <2>6, <2>7 DEF s
<1> HIDE DEF g
<1>2. ASSUME NEW w \in RowsIn(g) PROVE w \in RowsIn(f)
  <2>1. PICK l \in Lists : \E i \in DOMAIN g[l] : w = g[l][i]
    BY InRows
  <2>2. \E j \in DOMAIN f[l] : w = f[l][j]
    BY <1>1, <2>1
  <2> QED BY <2>2, InRows
<1>3. ASSUME NEW w \in RowsIn(f) PROVE w \in RowsIn(g)
  <2>1. PICK l \in Lists : \E i \in DOMAIN f[l] : w = f[l][i]
    BY InRows
  <2>2. \E j \in DOMAIN g[l] : w = g[l][j]
    BY <1>1, <2>1
  <2> QED BY <2>2, InRows
<1>4. RowsIn(g) = RowsIn(f)
  BY <1>2, <1>3
<1> QED BY <1>4 DEF g

\* One row leaves the list, the others stay.
LEMMA WithoutOne ==
    ASSUME NEW s \in Seq(Rows), NEW i \in DOMAIN s
    PROVE  /\ Without(s, i) \in Seq(Rows)
           /\ {Without(s, i)[j] : j \in DOMAIN Without(s, i)} \subseteq {s[j] : j \in DOMAIN s}
           /\ {s[j] : j \in DOMAIN s} \subseteq
                 {s[i]} \cup {Without(s, i)[j] : j \in DOMAIN Without(s, i)}
<1> DEFINE a == SubSeq(s, 1, i - 1)
           b == SubSeq(s, i + 1, Len(s))
           w == a \o b
<1>1. i \in 1..Len(s) /\ Len(s) \in Nat /\ DOMAIN s = 1..Len(s)
  OBVIOUS
<1>2. /\ a \in Seq(Rows) /\ Len(a) = i - 1 /\ \A j \in 1..(i - 1) : a[j] = s[j]
      /\ b \in Seq(Rows) /\ Len(b) = Len(s) - i /\ \A j \in 1..(Len(s) - i) : b[j] = s[i + j]
  BY <1>1
<1> HIDE DEF a, b
<1>3. /\ w \in Seq(Rows) /\ Len(w) = Len(s) - 1 /\ DOMAIN w = 1..(Len(s) - 1)
      /\ \A j \in 1..(Len(s) - 1) : w[j] = IF j < i THEN s[j] ELSE s[j + 1]
  <2>0. w \in Seq(Rows) /\ Len(w) = Len(a) + Len(b)
    BY <1>2, ConcatProperties
  <2>1. w \in Seq(Rows) /\ Len(w) = Len(s) - 1
    <3> HIDE DEF w
    <3> QED BY <1>1, <1>2, <2>0
  <2>2. \A j \in 1..(Len(s) - 1) : w[j] = IF j < i THEN a[j] ELSE b[j - (i - 1)]
    BY <1>1, <1>2
  <2>3. \A j \in i..(Len(s) - 1) : b[j - (i - 1)] = s[j + 1]
    <3> SUFFICES ASSUME NEW j \in i..(Len(s) - 1) PROVE b[j - (i - 1)] = s[j + 1]
      OBVIOUS
    <3>1. j - (i - 1) \in 1..(Len(s) - i) /\ i + (j - (i - 1)) = j + 1
      BY <1>1
    <3> QED BY <1>2, <3>1
  <2> HIDE DEF w
  <2> QED BY <1>1, <1>2, <2>1, <2>2, <2>3
<1>4. Without(s, i) = w
  BY <1>1 DEF Without, a, b
<1> HIDE DEF w
<1>5. ASSUME NEW j \in 1..Len(s), j # i PROVE \E k \in 1..(Len(s) - 1) : w[k] = s[j]
  <2>1. CASE j < i
    <3>1. j \in 1..(Len(s) - 1) /\ w[j] = s[j]
      BY <1>1, <1>3, <2>1
    <3> QED BY <3>1
  <2>2. CASE j > i
    <3>1. j - 1 \in 1..(Len(s) - 1) /\ ~(j - 1 < i) /\ (j - 1) + 1 = j
      BY <1>1, <2>2
    <3>2. w[j - 1] = s[j]
      BY <1>3, <3>1
    <3> QED BY <3>1, <3>2
  <2> QED BY <1>1, <1>5, <2>1, <2>2
<1>6. ASSUME NEW k \in 1..(Len(s) - 1) PROVE \E j \in 1..Len(s) : w[k] = s[j]
  BY <1>1, <1>3
<1>7. {w[k] : k \in DOMAIN w} \subseteq {s[j] : j \in DOMAIN s}
  <2>1. \A k \in DOMAIN w : \E j \in DOMAIN s : w[k] = s[j]
    BY <1>1, <1>3, <1>6
  <2> QED BY <2>1
<1>8. {s[j] : j \in DOMAIN s} \subseteq {s[i]} \cup {w[k] : k \in DOMAIN w}
  <2>1. ASSUME NEW j \in DOMAIN s, j # i PROVE \E k \in DOMAIN w : w[k] = s[j]
    BY <1>1, <1>3, <1>5, <2>1
  <2> QED BY <2>1
<1> QED BY <1>3, <1>4, <1>7, <1>8

\* A row pushed to a list is one more row.
LEMMA RowAdded ==
    ASSUME NEW f \in [Lists -> Seq(Rows)], NEW l \in Lists, NEW w \in Rows
    PROVE  LET g == [f EXCEPT ![l] = Append(f[l], w)] IN
             g \in [Lists -> Seq(Rows)] /\ RowsIn(g) = RowsIn(f) \cup {w}
<1> DEFINE g == [f EXCEPT ![l] = Append(f[l], w)]
           s == f[l]
<1>1. /\ s \in Seq(Rows) /\ Len(s) \in Nat /\ DOMAIN s = 1..Len(s)
      /\ Append(s, w) \in Seq(Rows) /\ DOMAIN Append(s, w) = 1..(Len(s) + 1)
      /\ \A i \in 1..Len(s) : Append(s, w)[i] = s[i]
      /\ Append(s, w)[Len(s) + 1] = w
  OBVIOUS
<1>2. /\ g \in [Lists -> Seq(Rows)] /\ g[l] = Append(s, w)
      /\ \A m \in Lists : m # l => g[m] = f[m]
  BY <1>1
<1> HIDE DEF g
<1>3. ASSUME NEW x, x \in RowsIn(g) PROVE x \in RowsIn(f) \cup {w}
  <2>1. PICK m \in Lists : \E i \in DOMAIN g[m] : x = g[m][i]
    BY <1>3, InRows
  <2>2. CASE m = l
    <3>1. PICK i \in 1..(Len(s) + 1) : x = Append(s, w)[i]
      BY <1>1, <1>2, <2>1, <2>2
    <3>2. CASE i \in 1..Len(s)
      <4>1. i \in DOMAIN f[l] /\ x = f[l][i]
        BY <1>1, <3>1, <3>2
      <4> QED BY <4>1, InRows
    <3>3. CASE i = Len(s) + 1
      BY <1>1, <3>1, <3>3
    <3> QED BY <1>1, <3>2, <3>3
  <2>3. CASE m # l
    BY <1>2, <2>1, <2>3, InRows
  <2> QED BY <2>2, <2>3
<1>4. ASSUME NEW x, x \in RowsIn(f) PROVE x \in RowsIn(g)
  <2>1. PICK m \in Lists : \E i \in DOMAIN f[m] : x = f[m][i]
    BY <1>4, InRows
  <2>2. CASE m = l
    <3>1. PICK i \in 1..Len(s) : x = s[i]
      BY <1>1, <2>1, <2>2
    <3>2. i \in DOMAIN g[l] /\ x = g[l][i]
      BY <1>1, <1>2, <3>1
    <3> QED BY <3>2, InRows
  <2>3. CASE m # l
    BY <1>2, <2>1, <2>3, InRows
  <2> QED BY <2>2, <2>3
<1>5. w \in RowsIn(g)
  <2>1. Len(s) + 1 \in DOMAIN g[l] /\ g[l][Len(s) + 1] = w
    BY <1>1, <1>2
  <2> QED BY <2>1, InRows
<1>6. RowsIn(g) = RowsIn(f) \cup {w}
  BY <1>3, <1>4, <1>5
<1> QED BY <1>2, <1>6 DEF g

\* A row filtered from a list is the only one that goes.
LEMMA RowDeleted ==
    ASSUME NEW f \in [Lists -> Seq(Rows)], NEW l \in Lists, NEW i \in DOMAIN f[l]
    PROVE  LET g == [f EXCEPT ![l] = Without(f[l], i)] IN
             /\ g \in [Lists -> Seq(Rows)]
             /\ RowsIn(g) \subseteq RowsIn(f)
             /\ RowsIn(f) \subseteq RowsIn(g) \cup {f[l][i]}
<1> DEFINE g == [f EXCEPT ![l] = Without(f[l], i)]
           s == f[l]
           u == Without(s, i)
<1>1. s \in Seq(Rows)
  OBVIOUS
<1>2. /\ u \in Seq(Rows)
      /\ {u[j] : j \in DOMAIN u} \subseteq {s[j] : j \in DOMAIN s}
      /\ {s[j] : j \in DOMAIN s} \subseteq {s[i]} \cup {u[j] : j \in DOMAIN u}
  BY <1>1, WithoutOne
<1>3. /\ g \in [Lists -> Seq(Rows)] /\ g[l] = u
      /\ \A m \in Lists : m # l => g[m] = f[m]
  BY <1>2
<1> HIDE DEF g, u
<1>4. ASSUME NEW x, x \in RowsIn(g) PROVE x \in RowsIn(f)
  <2>1. PICK m \in Lists : \E j \in DOMAIN g[m] : x = g[m][j]
    BY <1>4, InRows
  <2>2. CASE m = l
    <3>1. \E j \in DOMAIN s : x = s[j]
      BY <1>2, <1>3, <2>1, <2>2
    <3> QED BY <3>1, InRows
  <2>3. CASE m # l
    BY <1>3, <2>1, <2>3, InRows
  <2> QED BY <2>2, <2>3
<1>5. ASSUME NEW x, x \in RowsIn(f), x # s[i] PROVE x \in RowsIn(g)
  <2>1. PICK m \in Lists : \E j \in DOMAIN f[m] : x = f[m][j]
    BY <1>5, InRows
  <2>2. CASE m = l
    <3>1. \E j \in DOMAIN u : x = u[j]
      BY <1>2, <1>5, <2>1, <2>2
    <3> QED BY <1>3, <3>1, InRows
  <2>3. CASE m # l
    BY <1>3, <2>1, <2>3, InRows
  <2> QED BY <2>2, <2>3
<1>6. RowsIn(g) \subseteq RowsIn(f) /\ RowsIn(f) \subseteq RowsIn(g) \cup {s[i]}
  BY <1>4, <1>5
<1> QED BY <1>3, <1>6 DEF g, u

-----------------------------------------------------------------------------
(***************************************************************************)
(* The invariant.                                                          *)
(***************************************************************************)

\* At the start there are no rows and no forms.
LEMMA InitForms == Init => FormInv
<1> SUFFICES ASSUME Init PROVE FormInv
  OBVIOUS
<1>1. NoRows \in [Lists -> Seq(Rows)] /\ RowsIn(NoRows) = {}
  BY DEF NoRows, RowsIn
<1>2. Sent = {}
  BY DEF Init, Sent
<1> QED BY <1>1, <1>2, ReloadsAssumption
        DEF Init, FormInv, Typed, RowsAreShown, LastIsSaved, FormsAreFresh, LostRowsWereUnseen

\* An edit changes the rows of one page, which keeps what it does not delete.
LEMMA EditForms ==
    ASSUME FormInv, NEW p \in Pages, NEW f \in [Lists -> Seq(Rows)],
           wages' = [wages EXCEPT ![p] = f], table' = wages', Edited(p),
           UNCHANGED <<savedVars, sending, request, reloads, told>>,
           \A q \in Pages : q # p => shown'[q] = shown[q],
           shown' \in [Pages -> SUBSET Rows],
           deleted \subseteq deleted', deleted' \subseteq Rows,
           RowsIn(f) \subseteq shown'[p], shown'[p] \ RowsIn(f) \subseteq deleted'
    PROVE  FormInv'
<1> USE DEF FormInv, savedVars
<1>0. /\ wages'[p] = f /\ edited' = [edited EXCEPT ![p] = TRUE] /\ edited'[p]
      /\ \A q \in Pages : q # p => wages'[q] = wages[q] /\ edited'[q] = edited[q]
  BY DEF Typed, Edited
<1>s. Sent' = Sent
  BY DEF Sent
<1>1. Typed'
  BY <1>0, <1>s DEF Typed
<1>2. RowsAreShown'
  <2>1. \A q \in Pages : RowsIn(wages'[q]) \subseteq shown'[q]
                            /\ shown'[q] \ RowsIn(wages'[q]) \subseteq deleted'
    BY <1>0 DEF RowsAreShown
  <2>2. \A r \in Sent : \E e \in [Lists -> Seq(Rows)] :
          /\ request[r].keys = Form(e)
          /\ RowsIn(e) \subseteq request[r].shown
          /\ request[r].shown \ RowsIn(e) \subseteq deleted'
    BY DEF RowsAreShown
  <2> QED BY <1>s, <2>1, <2>2 DEF RowsAreShown
<1>3. LastIsSaved'
  BY <1>s DEF LastIsSaved
<1>4. FormsAreFresh'
  BY <1>0, <1>s DEF FormsAreFresh
<1>5. LostRowsWereUnseen'
  BY DEF LostRowsWereUnseen, RowsIn
<1> QED BY <1>1, <1>2, <1>3, <1>4, <1>5

\* Adding a row is such an edit.
LEMMA AddForms ==
    ASSUME FormInv, NEW p \in Pages, NEW l \in Lists, AddWage(p, l)
    PROVE  FormInv'
<1>1. PICK w \in Fresh :
        /\ SetRows(p, l, Append(wages[p][l], w))
        /\ shown' = [shown EXCEPT ![p] = @ \cup {w}]
        /\ Edited(p)
        /\ UNCHANGED <<savedVars, sending, request, reloads, deleted, told>>
  BY DEF AddWage
<1> DEFINE f == [wages[p] EXCEPT ![l] = Append(wages[p][l], w)]
<1>2. w \in Rows /\ wages[p] \in [Lists -> Seq(Rows)]
  BY DEF Fresh, FormInv, Typed
<1>3. f \in [Lists -> Seq(Rows)] /\ RowsIn(f) = RowsIn(wages[p]) \cup {w}
  BY <1>2, RowAdded
<1>4. wages' = [wages EXCEPT ![p] = f] /\ table' = wages'
  BY <1>1 DEF SetRows, FormInv, Typed
<1>5. /\ shown' \in [Pages -> SUBSET Rows] /\ shown'[p] = shown[p] \cup {w}
      /\ \A q \in Pages : q # p => shown'[q] = shown[q]
      /\ deleted' = deleted /\ deleted \subseteq Rows
  BY <1>1, <1>2 DEF FormInv, Typed
<1>6. RowsIn(f) \subseteq shown'[p] /\ shown'[p] \ RowsIn(f) \subseteq deleted
  BY <1>3, <1>5 DEF FormInv, RowsAreShown
<1> HIDE DEF f
<1> QED BY <1>1, <1>3, <1>4, <1>5, <1>6, EditForms

\* So is deleting one: the button is beside the row that has its index.
LEMMA DeleteForms ==
    ASSUME FormInv, NEW p \in Pages, NEW l \in Lists, DeleteWage(p, l)
    PROVE  FormInv'
<1>1. PICK i \in DOMAIN table[p][l] :
        /\ SetRows(p, l, Without(wages[p][l], i))
        /\ deleted' = deleted \cup {table[p][l][i]}
        /\ Edited(p)
        /\ UNCHANGED <<savedVars, sending, request, reloads, shown, told>>
  BY DEF DeleteWage
<1> DEFINE f == [wages[p] EXCEPT ![l] = Without(wages[p][l], i)]
<1>2. table = wages /\ wages[p] \in [Lists -> Seq(Rows)] /\ i \in DOMAIN wages[p][l]
  BY DEF FormInv, Typed
<1>3. /\ f \in [Lists -> Seq(Rows)]
      /\ RowsIn(f) \subseteq RowsIn(wages[p])
      /\ RowsIn(wages[p]) \subseteq RowsIn(f) \cup {wages[p][l][i]}
  BY <1>2, RowDeleted
<1>4. wages' = [wages EXCEPT ![p] = f] /\ table' = wages'
  BY <1>1, <1>2 DEF SetRows
<1>5. /\ shown' \in [Pages -> SUBSET Rows] /\ shown' = shown
      /\ deleted' = deleted \cup {wages[p][l][i]} /\ deleted' \subseteq Rows
  <2>1. wages[p][l][i] \in Rows
    BY <1>2
  <2> QED BY <1>1, <1>2, <2>1 DEF FormInv, Typed
<1>6. RowsIn(f) \subseteq shown'[p] /\ shown'[p] \ RowsIn(f) \subseteq deleted'
  BY <1>3, <1>5 DEF FormInv, RowsAreShown
<1> HIDE DEF f
<1> QED BY <1>1, <1>3, <1>4, <1>5, <1>6, EditForms

\* A page that is loaded has the saved rows, and waits for no form.
LEMMA LoadForms ==
    ASSUME FormInv, NEW p \in Pages, Load(p)
    PROVE  FormInv'
<1> USE DEF FormInv, savedVars, Load
<1>0. /\ wages'[p] = saved /\ shown'[p] = RowsIn(saved)
      /\ sending'[p] = NoRequest /\ told'[p] = NoRequest
      /\ \A q \in Pages : q # p =>
            /\ wages'[q] = wages[q] /\ shown'[q] = shown[q] /\ edited'[q] = edited[q]
            /\ sending'[q] = sending[q] /\ told'[q] = told[q]
  BY DEF Typed
<1>s. Sent' = Sent
  BY DEF Sent
<1>1. Typed'
  <2>1. RowsIn(saved) \subseteq Rows
    <3>1. \A l \in Lists : \A i \in DOMAIN saved[l] : saved[l][i] \in Rows
      BY DEF Typed
    <3> QED BY <3>1, InRows
  <2>2. wages' \in [Pages -> [Lists -> Seq(Rows)]] /\ table' = wages'
    BY DEF Typed
  <2>3. reloads' \in 0..MaxReloads
    BY ReloadsAssumption DEF Typed
  <2>4. /\ sending' \in [Pages -> Requests \cup {NoRequest}]
        /\ told' \in [Pages -> Requests \cup {NoRequest}]
        /\ shown' \in [Pages -> SUBSET Rows] /\ edited' \in [Pages -> BOOLEAN]
    BY <2>1 DEF Typed
  <2> QED BY <1>s, <2>2, <2>3, <2>4 DEF Typed
<1>2. RowsAreShown'
  BY <1>0, <1>s DEF RowsAreShown
<1>3. LastIsSaved'
  BY <1>s DEF LastIsSaved
<1>4. FormsAreFresh'
  BY <1>0, <1>s DEF FormsAreFresh
<1>5. LostRowsWereUnseen'
  BY DEF LostRowsWereUnseen
<1> QED BY <1>1, <1>2, <1>3, <1>4, <1>5

\* A form is a snapshot of its page.
LEMMA SubmitForms ==
    ASSUME FormInv, NEW p \in Pages, NEW r \in Requests, Submit(p, r)
    PROVE  FormInv'
<1> USE DEF FormInv, savedVars
<1>0. /\ request' = [request EXCEPT ![r] =
            [state |-> "sent", keys |-> Form(wages[p]), shown |-> shown[p]]]
      /\ sending' = [sending EXCEPT ![p] = r]
      /\ told' = [told EXCEPT ![p] = NoRequest]
      /\ edited' = [edited EXCEPT ![p] = FALSE]
      /\ UNCHANGED <<saved, everSaved, unseen, last, wages, table, reloads, shown, deleted>>
      /\ r \notin Sent
  BY DEF Submit, FormKeys, Form, Keys, Sent
<1>s. /\ request'[r] = [state |-> "sent", keys |-> Form(wages[p]), shown |-> shown[p]]
      /\ \A q \in Sent : request'[q] = request[q]
      /\ Sent' = Sent \cup {r}
      /\ r # NoRequest
  <2>1. /\ request'[r] = [state |-> "sent", keys |-> Form(wages[p]), shown |-> shown[p]]
        /\ \A q \in Requests : q # r => request'[q] = request[q]
    BY <1>0 DEF Typed
  <2>2. request'[r] # Unsent
    BY <2>1 DEF Unsent
  <2> QED BY <1>0, <2>1, <2>2, RequestsAssumption DEF Sent
<1>1. Typed'
  BY <1>0, <1>s DEF Typed
<1>2. RowsAreShown'
  <2>1. ASSUME NEW q \in Sent'
        PROVE  \E f \in [Lists -> Seq(Rows)] :
                  /\ request'[q].keys = Form(f)
                  /\ RowsIn(f) \subseteq request'[q].shown
                  /\ request'[q].shown \ RowsIn(f) \subseteq deleted
    <3>1. CASE q = r
      <4>1. wages[p] \in [Lists -> Seq(Rows)]
        BY DEF Typed
      <4> QED BY <1>s, <3>1, <4>1 DEF RowsAreShown
    <3>2. CASE q \in Sent
      BY <1>s, <3>2 DEF RowsAreShown
    <3> QED BY <1>s, <2>1, <3>1, <3>2
  <2> QED BY <1>0, <2>1 DEF RowsAreShown
<1>3. LastIsSaved'
  BY <1>0, <1>s DEF LastIsSaved
<1>4. FormsAreFresh'
  <2> SUFFICES ASSUME NEW q \in Pages, NEW s \in {sending'[q], told'[q]}, s # NoRequest
               PROVE  s \in Sent' /\ (~edited'[q] => request'[s].keys = Form(wages[q]))
    BY <1>0 DEF FormsAreFresh
  <2>1. CASE q = p
    <3>1. s = r
      BY <1>0, <2>1 DEF Typed
    <3> QED BY <1>s, <2>1, <3>1
  <2>2. CASE q # p
    <3>1. sending'[q] = sending[q] /\ told'[q] = told[q] /\ edited'[q] = edited[q]
      BY <1>0, <2>2 DEF Typed
    <3> QED BY <1>s, <3>1 DEF FormsAreFresh
  <2> QED BY <2>1, <2>2
<1>5. LostRowsWereUnseen'
  BY <1>0 DEF LostRowsWereUnseen
<1> QED BY <1>1, <1>2, <1>3, <1>4, <1>5

\* The progress of a form changes neither what it holds nor any other form.
LEMMA AnsweredStates ==
    ASSUME Typed, NEW r \in Sent, NEW s \in {"sent", "saved", "answered"},
           request' = [request EXCEPT ![r].state = s]
    PROVE  /\ Sent' = Sent
           /\ request'[r] = [state |-> s, keys |-> request[r].keys, shown |-> request[r].shown]
           /\ \A q \in Requests : q # r => request'[q] = request[q]
           /\ request' = [q \in Requests |-> request'[q]]
<1>1. /\ r \in Requests
      /\ request[r] = [state |-> request[r].state, keys |-> request[r].keys,
                       shown |-> request[r].shown]
      /\ request = [q \in Requests |-> request[q]]
  BY DEF Sent, Typed
<1>2. /\ request'[r] = [request[r] EXCEPT !.state = s]
      /\ \A q \in Requests : q # r => request'[q] = request[q]
      /\ request' = [q \in Requests |-> request'[q]]
  BY <1>1
<1>3. request'[r] = [state |-> s, keys |-> request[r].keys, shown |-> request[r].shown]
  BY <1>1, <1>2
<1>4. request'[r] # Unsent
  BY <1>3 DEF Unsent
<1> QED BY <1>1, <1>2, <1>3, <1>4 DEF Sent

\* A form that is saved takes the place of what was there.
LEMMA SaveForms ==
    ASSUME FormInv, NEW r \in Requests, Save(r)
    PROVE  FormInv'
<1> USE DEF FormInv, pageVars
<1>0. /\ request[r].state = "sent"
      /\ request' = [request EXCEPT ![r].state = "saved"]
      /\ saved' = [l \in Lists |-> Bind(request[r].keys[l])]
      /\ everSaved' = everSaved \cup RowsIn(saved')
      /\ unseen' = (unseen \cup (RowsIn(saved) \ request[r].shown)) \ RowsIn(saved')
      /\ last' = r
      /\ UNCHANGED <<wages, table, sending, reloads, shown, deleted, told, edited>>
  BY DEF Save
<1>a. r \in Sent /\ r # NoRequest
  BY <1>0, RequestsAssumption DEF Unsent, Sent
<1>b. PICK f \in [Lists -> Seq(Rows)] :
          /\ request[r].keys = Form(f)
          /\ RowsIn(f) \subseteq request[r].shown
          /\ request[r].shown \ RowsIn(f) \subseteq deleted
  BY <1>a DEF RowsAreShown
<1>c. saved' = f
  <2>1. \A l \in Lists : Bind(request[r].keys[l]) = f[l]
    BY <1>b, BindKeys DEF Form
  <2> QED BY <1>0, <2>1
<1>s. /\ Sent' = Sent
      /\ request'[r] = [state |-> "saved", keys |-> request[r].keys, shown |-> request[r].shown]
      /\ \A q \in Requests : q # r => request'[q] = request[q]
      /\ request' = [q \in Requests |-> request'[q]]
  BY <1>0, <1>a, AnsweredStates
<1>d. \A q \in Sent : request'[q].keys = request[q].keys /\ request'[q].shown = request[q].shown
  BY <1>s DEF Sent
<1>1. Typed'
  <2>1. RowsIn(f) \subseteq Rows
    BY <1>a, <1>b DEF Typed
  <2>3. everSaved' \subseteq Rows /\ last' \in Requests \cup {NoRequest}
    BY <1>0, <1>c, <2>1 DEF Typed
  <2>4. unseen' \subseteq Rows
    <3>1. RowsIn(saved) \subseteq Rows
      <4>1. \A l \in Lists : \A i \in DOMAIN saved[l] : saved[l][i] \in Rows
        BY DEF Typed
      <4> QED BY <4>1, InRows
    <3> QED BY <1>0, <3>1 DEF Typed
  <2>5. ASSUME NEW q \in Sent'
        PROVE  /\ request'[q] = [state |-> request'[q].state, keys |-> request'[q].keys,
                                 shown |-> request'[q].shown]
               /\ request'[q].state \in {"sent", "saved", "answered"}
               /\ request'[q].shown \subseteq Rows
    <3>1. q \in Requests /\ q \in Sent
      BY <1>s DEF Sent
    <3>2. CASE q = r
      <4>1. request[r].shown \subseteq Rows
        BY <1>a DEF Typed
      <4> QED BY <1>s, <3>2, <4>1
    <3>3. CASE q # r
      BY <1>s, <3>1, <3>3 DEF Typed
    <3> QED BY <3>2, <3>3
  <2> QED BY <1>0, <1>c, <1>s, <2>3, <2>4, <2>5 DEF Typed
<1>2. RowsAreShown'
  <2>1. \A q \in Sent : \E e \in [Lists -> Seq(Rows)] :
          /\ request'[q].keys = Form(e)
          /\ RowsIn(e) \subseteq request'[q].shown
          /\ request'[q].shown \ RowsIn(e) \subseteq deleted
    BY <1>d DEF RowsAreShown
  <2>2. \A q \in Pages :
          RowsIn(wages[q]) \subseteq shown[q] /\ shown[q] \ RowsIn(wages[q]) \subseteq deleted
    BY DEF RowsAreShown
  <2> QED BY <1>0, <1>s, <2>1, <2>2 DEF RowsAreShown
<1>3. LastIsSaved'
  BY <1>0, <1>a, <1>b, <1>c, <1>s DEF LastIsSaved
<1>4. FormsAreFresh'
  BY <1>0, <1>s, <1>d DEF FormsAreFresh
<1>5. LostRowsWereUnseen'
  BY <1>0, <1>b, <1>c DEF LostRowsWereUnseen
<1> QED BY <1>1, <1>2, <1>3, <1>4, <1>5

\* The answer tells the page, and leaves the rows alone.
LEMMA AnswerForms ==
    ASSUME FormInv, NEW p \in Pages, Succeed(p) \/ Fail(p)
    PROVE  FormInv'
<1> USE DEF FormInv, savedVars
<1>1. CASE Fail(p)
  <2>0. /\ sending' = [sending EXCEPT ![p] = NoRequest]
        /\ UNCHANGED <<saved, everSaved, unseen, last, wages, table, request, reloads, shown,
                       deleted, told, edited>>
        /\ Sent' = Sent
    BY <1>1 DEF Fail, Sent
  <2>1. Typed' /\ LostRowsWereUnseen'
    BY <2>0 DEF Typed, LostRowsWereUnseen
  <2>2. RowsAreShown' /\ LastIsSaved'
    BY <2>0 DEF RowsAreShown, LastIsSaved
  <2>3. FormsAreFresh'
    BY <2>0 DEF FormsAreFresh, Typed
  <2> QED BY <2>1, <2>2, <2>3
<1>2. CASE Succeed(p)
  <2>0. PICK r : r = sending[p]
    OBVIOUS
  <2>1. /\ r # NoRequest /\ r \in Sent /\ r \in Requests
        /\ ~edited[p] => request[r].keys = Form(wages[p])
    BY <1>2, <2>0 DEF Succeed, FormsAreFresh, Sent
  <2>2. /\ request' = [request EXCEPT ![r].state = "answered"]
        /\ told' = [told EXCEPT ![p] = r]
        /\ sending' = [sending EXCEPT ![p] = NoRequest]
        /\ UNCHANGED <<saved, everSaved, unseen, last, wages, table, reloads, shown, deleted,
                       edited>>
    BY <1>2, <2>0 DEF Succeed
  <2>3. /\ Sent' = Sent
        /\ request'[r] = [state |-> "answered", keys |-> request[r].keys,
                          shown |-> request[r].shown]
        /\ \A q \in Requests : q # r => request'[q] = request[q]
        /\ request' = [q \in Requests |-> request'[q]]
    BY <2>1, <2>2, AnsweredStates
  <2>4. /\ \A q \in Sent : request'[q].keys = request[q].keys
        /\ \A q \in Sent : request'[q].shown = request[q].shown
        /\ \A q \in Sent : request[q].state # "sent" => request'[q].state # "sent"
    BY <2>3 DEF Sent
  <2>5. Typed'
    <3>1. ASSUME NEW q \in Sent'
          PROVE  /\ request'[q] = [state |-> request'[q].state, keys |-> request'[q].keys,
                                   shown |-> request'[q].shown]
                 /\ request'[q].state \in {"sent", "saved", "answered"}
                 /\ request'[q].shown \subseteq Rows
      <4>1. q \in Requests /\ q \in Sent
        BY <2>3 DEF Sent
      <4>2. CASE q = r
        <5>1. request[r].shown \subseteq Rows
          BY <2>1 DEF Typed
        <5> QED BY <2>3, <4>2, <5>1
      <4>3. CASE q # r
        BY <2>3, <4>1, <4>3 DEF Typed
      <4> QED BY <4>2, <4>3
    <3> QED BY <2>1, <2>2, <2>3, <3>1 DEF Typed
  <2>6. RowsAreShown'
    BY <2>2, <2>3, <2>4 DEF RowsAreShown
  <2>7. LastIsSaved'
    BY <2>2, <2>3, <2>4 DEF LastIsSaved
  <2>8. FormsAreFresh'
    <3> SUFFICES ASSUME NEW q \in Pages, NEW s \in {sending'[q], told'[q]}, s # NoRequest
                 PROVE  s \in Sent /\ (~edited[q] => request[s].keys = Form(wages[q]))
      BY <2>2, <2>3, <2>4 DEF FormsAreFresh
    <3>1. CASE q = p
      <4>1. s = r
        BY <2>2, <3>1 DEF Typed
      <4> QED BY <2>1, <3>1, <4>1
    <3>2. CASE q # p
      <4>1. sending'[q] = sending[q] /\ told'[q] = told[q]
        BY <2>2, <3>2 DEF Typed
      <4> QED BY <4>1 DEF FormsAreFresh
    <3> QED BY <3>1, <3>2
  <2>9. LostRowsWereUnseen'
    BY <2>2 DEF LostRowsWereUnseen
  <2> QED BY <2>5, <2>6, <2>7, <2>8, <2>9
<1> QED BY <1>1, <1>2

\* In every reachable state a form is the form of rows its page had when it was sent.
THEOREM FormInvariance == Spec => []FormInv
<1>1. FormInv /\ [Next]_vars => FormInv'
  <2> SUFFICES ASSUME FormInv, [Next]_vars PROVE FormInv'
    OBVIOUS
  <2>1. CASE UNCHANGED vars
    BY <2>1 DEF vars, pageVars, savedVars, FormInv, Typed, Sent, RowsAreShown, LastIsSaved,
       FormsAreFresh, LostRowsWereUnseen
  <2> QED BY <2>1, LoadForms, AddForms, DeleteForms, SubmitForms, SaveForms, AnswerForms
          DEF Next, Page
<1> QED BY <1>1, InitForms, PTL DEF Spec

\* Every variable keeps its type, and a form holds only rows its page has shown.
THEOREM TypeCorrect == Spec => []TypeOK
<1>1. FormInv => TypeOK
  <2> SUFFICES ASSUME FormInv PROVE TypeOK
    OBVIOUS
  <2>1. ASSUME NEW r \in Sent PROVE RowsIn(request[r].keys) \subseteq request[r].shown
    <3>1. PICK f \in [Lists -> Seq(Rows)] :
             request[r].keys = Form(f) /\ RowsIn(f) \subseteq request[r].shown
      BY DEF FormInv, RowsAreShown
    <3> QED BY <3>1, RowsOfKeys DEF Form
  <2> QED BY <2>1 DEF FormInv, Typed, TypeOK, Sent
<1> QED BY <1>1, FormInvariance, PTL

\* A saved row is lost only by its delete button or by a form from a page that did not have
\* it, in whatever order forms are sent, delayed, refused and saved.
THEOREM LostRows == Spec => []LostRowsWereUnseen
<1>1. FormInv => LostRowsWereUnseen
  BY DEF FormInv
<1> QED BY <1>1, FormInvariance, PTL

\* A success that nothing has followed means that the server has the rows of the page, in
\* their lists and in their order.
THEOREM Success == Spec => []SuccessMeansSaved
<1>1. FormInv => SuccessMeansSaved
  <2> SUFFICES ASSUME FormInv, NEW p \in Pages, told[p] # NoRequest, ~edited[p], last = told[p]
               PROVE  saved = table[p]
    BY DEF SuccessMeansSaved
  <2>1. Form(saved) = Form(wages[p])
    BY DEF FormInv, LastIsSaved, FormsAreFresh
  <2>2. saved \in [Lists -> Seq(Rows)] /\ wages[p] \in [Lists -> Seq(Rows)] /\ table = wages
    BY DEF FormInv, Typed
  <2>3. \A l \in Lists : saved[l] = wages[p][l]
    <3> TAKE l \in Lists
    <3>1. Keys(saved[l]) = Keys(wages[p][l])
      BY <2>1 DEF Form
    <3>2. Bind(Keys(saved[l])) = saved[l] /\ Bind(Keys(wages[p][l])) = wages[p][l]
      BY <2>2, BindKeys
    <3> QED BY <3>1, <3>2
  <2> QED BY <2>2, <2>3
<1> QED BY <1>1, FormInvariance, PTL
=============================================================================

------------------------------ MODULE ListPage ------------------------------
(***************************************************************************)
(* A list page of the admin site, as Slider/Index.cshtml states it and the *)
(* other lists repeat it: a checkbox per row that asks for a confirmation  *)
(* and then sends a PATCH, a delete button that does the same with a       *)
(* DELETE, one dialog, and the spinner of loader.js over the page.         *)
(*                                                                         *)
(* The page's script runs in callbacks: the admin acts, an answer arrives. *)
(* In between, requests are under way, and the page may be open in several *)
(* tabs.  The PATCH carries the id and no value, so all the server can do  *)
(* is flip what it has; its handlers are outside this repository.          *)
(***************************************************************************)
EXTENDS Integers, FiniteSets

CONSTANTS
    Tabs,       \* open copies of the page
    Items,      \* the rows it was loaded with
    Requests    \* the requests that are sent, which bounds them

ASSUME FiniteAssumption == IsFiniteSet(Requests)

VARIABLES
    exists,     \* server: the items that are there
    active,     \* server: IsActive of each
    rows,       \* rows[t]: the rows that have not been faded out
    checked,    \* checked[t][i]: the checkbox of i
    dialog,     \* dialog[t]: the SweetAlert, with what its closure holds
    loader,     \* loader[t]: body has the class "loader" and the spinner covers it
    request,    \* request[r]: what was sent, whether it is unanswered and took effect
    abandoned   \* history: abandoned[t][i]: questions about i that were never answered

serverVars == <<exists, active>>
vars == <<serverVars, rows, checked, dialog, loader, request, abandoned>>

Unsent == [method |-> "none"]
SentRequests ==
    [method : {"PATCH", "DELETE"}, tab : Tabs, item : Items, open : BOOLEAN, applied : BOOLEAN]

NoDialog == [kind |-> "none"]
Message == [kind |-> "message"]
ToggleDialogs == [kind : {"toggle"}, item : Items, value : BOOLEAN]
DeleteDialogs == [kind : {"delete"}, item : Items]

TypeOK ==
    /\ exists \subseteq Items
    /\ active \in [Items -> BOOLEAN]
    /\ rows \in [Tabs -> SUBSET Items]
    /\ checked \in [Tabs -> [Items -> BOOLEAN]]
    /\ dialog \in [Tabs -> {NoDialog, Message} \cup ToggleDialogs \cup DeleteDialogs]
    /\ loader \in [Tabs -> BOOLEAN]
    /\ request \in [Requests -> {Unsent} \cup SentRequests]
    /\ abandoned \in [Tabs -> [Items -> Nat]]

\* Every tab shows what the server had when it was loaded.
Init ==
    /\ exists = Items
    /\ active \in [Items -> BOOLEAN]
    /\ rows = [t \in Tabs |-> Items]
    /\ checked = [t \in Tabs |-> active]
    /\ dialog = [t \in Tabs |-> NoDialog]
    /\ loader = [t \in Tabs |-> FALSE]
    /\ request = [r \in Requests |-> Unsent]
    /\ abandoned = [t \in Tabs |-> [i \in Items |-> 0]]

Send(r, m, t, i) ==
    /\ request[r] = Unsent
    /\ request' = [request EXCEPT ![r] =
          [method |-> m, tab |-> t, item |-> i, open |-> TRUE, applied |-> FALSE]]

\* loader.js: the class on the body tells whether the spinner is open; nothing counts.
LoaderOpen(t) == loader' = [loader EXCEPT ![t] = TRUE]
LoaderClose(t) == loader' = [loader EXCEPT ![t] = FALSE]

(***************************************************************************)
(* What the admin does.  A dialog keeps the page behind it inert.  The     *)
(* spinner stops the mouse only: SweetAlert gives the focus back to the    *)
(* checkbox, and a key toggles it again while its request is under way.    *)
(***************************************************************************)

\* The box has changed already when the handler asks for a confirmation.
Change(t, i) ==
    /\ dialog[t] = NoDialog /\ i \in rows[t]
    /\ checked' = [checked EXCEPT ![t][i] = ~@]
    /\ dialog' = [dialog EXCEPT ![t] =
          [kind |-> "toggle", item |-> i, value |-> ~checked[t][i]]]
    /\ UNCHANGED <<serverVars, rows, loader, request, abandoned>>

ConfirmChange(t, r) ==
    /\ dialog[t] \in ToggleDialogs
    /\ LoaderOpen(t)
    /\ Send(r, "PATCH", t, dialog[t].item)
    /\ dialog' = [dialog EXCEPT ![t] = NoDialog]
    /\ UNCHANGED <<serverVars, rows, checked, abandoned>>

\* Mutant of AskDelete: the closure has no id.
AskDeleteUnnamed(t, i) ==
    /\ dialog[t] = NoDialog /\ i \in rows[t]
    /\ dialog' = [dialog EXCEPT ![t] = [kind |-> "delete"]]
    /\ UNCHANGED <<serverVars, rows, checked, loader, request, abandoned>>

AskDelete(t, i) ==
    /\ dialog[t] = NoDialog /\ i \in rows[t]
    /\ dialog' = [dialog EXCEPT ![t] = [kind |-> "delete", item |-> i]]
    /\ UNCHANGED <<serverVars, rows, checked, loader, request, abandoned>>

ConfirmDelete(t, r) ==
    /\ dialog[t] \in DeleteDialogs
    /\ Send(r, "DELETE", t, dialog[t].item)
    /\ dialog' = [dialog EXCEPT ![t] = NoDialog]
    /\ UNCHANGED <<serverVars, rows, checked, loader, abandoned>>

\* A dialog that is dismissed puts its box back; the others do nothing.
Dismissed(t) ==
    IF dialog[t] \in ToggleDialogs
      THEN checked' = [checked EXCEPT ![t][dialog[t].item] = ~dialog[t].value]
      ELSE UNCHANGED checked

Dismiss(t) ==
    /\ dialog[t] # NoDialog
    /\ Dismissed(t)
    /\ dialog' = [dialog EXCEPT ![t] = NoDialog]
    /\ UNCHANGED <<serverVars, rows, loader, request, abandoned>>

(***************************************************************************)
(* What the server and the network do.                                     *)
(***************************************************************************)

\* A request takes effect once, if at all, possibly after the page has seen it fail.
Apply(r) ==
    /\ request[r] # Unsent /\ ~request[r].applied
    /\ request[r].item \in exists
    /\ request' = [request EXCEPT ![r].applied = TRUE]
    /\ CASE request[r].method = "PATCH" ->
              /\ active' = [active EXCEPT ![request[r].item] = ~@]
              /\ UNCHANGED exists
         [] request[r].method = "DELETE" ->
              /\ exists' = exists \ {request[r].item}
              /\ UNCHANGED active
    /\ UNCHANGED <<rows, checked, dialog, loader, abandoned>>

\* The question that a message replaces is never answered: the box keeps its change, but
\* no request is sent.
Abandon(t) ==
    /\ UNCHANGED checked
    /\ abandoned' = [abandoned EXCEPT ![t] =
          [i \in Items |-> IF dialog[t] \in ToggleDialogs /\ dialog[t].item = i
                             THEN @[i] + 1 ELSE @[i]]]

\* SweetAlert shows one dialog.  The pages load whatever release of sweetalert2@11 there
\* is: a recent one resolves the dialog that it replaces as dismissed, an older one, such
\* as the 11.6.5 under wwwroot/util, never resolves it.
Fire(t) ==
    /\ \/ Dismissed(t) /\ UNCHANGED abandoned
       \/ Abandon(t)
    /\ dialog' = [dialog EXCEPT ![t] = Message]

Close(r) ==
    /\ request[r] # Unsent /\ request[r].open
    /\ request' = [request EXCEPT ![r].open = FALSE]

Succeed(r) ==
    /\ Close(r)
    /\ request[r].applied
    /\ LET t == request[r].tab IN
         CASE request[r].method = "PATCH" ->
                /\ LoaderClose(t)
                /\ UNCHANGED <<rows, checked, dialog, abandoned>>
           [] request[r].method = "DELETE" ->
                /\ Fire(t)
                /\ rows' = [rows EXCEPT ![t] = @ \ {request[r].item}]
                /\ UNCHANGED loader
    /\ UNCHANGED serverVars

\* Mutants of Fail: the box is put back; the spinner is closed by success only.
FailReverting(r) ==
    /\ Close(r)
    /\ LET t == request[r].tab IN
         CASE request[r].method = "PATCH" ->
                /\ LoaderClose(t)
                /\ checked' = [checked EXCEPT ![t][request[r].item] = ~@]
                /\ UNCHANGED <<dialog, abandoned>>
           [] request[r].method = "DELETE" -> Fire(t) /\ UNCHANGED loader
    /\ UNCHANGED <<serverVars, rows>>

FailLoading(r) ==
    /\ Close(r)
    /\ IF request[r].method = "DELETE" THEN Fire(request[r].tab)
                                       ELSE UNCHANGED <<checked, dialog, abandoned>>
    /\ UNCHANGED <<serverVars, rows, loader>>

\* The server refuses or throws, or the connection breaks.  Only a toast or a message
\* tells: the box and the row stay as they are.
Fail(r) ==
    /\ Close(r)
    /\ LET t == request[r].tab IN
         CASE request[r].method = "PATCH" ->
                /\ LoaderClose(t)
                /\ UNCHANGED <<checked, dialog, abandoned>>
           [] request[r].method = "DELETE" -> Fire(t) /\ UNCHANGED loader
    /\ UNCHANGED <<serverVars, rows>>

Admin(t) ==
    \/ \E i \in Items : Change(t, i) \/ AskDelete(t, i)
    \/ \E r \in Requests : ConfirmChange(t, r) \/ ConfirmDelete(t, r)
    \/ Dismiss(t)

Answer(r) == Apply(r) \/ Succeed(r) \/ Fail(r)

Next == (\E t \in Tabs : Admin(t)) \/ (\E r \in Requests : Answer(r))

Spec == Init /\ [][Next]_vars

-----------------------------------------------------------------------------
(***************************************************************************)
(* What must hold.                                                         *)
(***************************************************************************)

Patches(t) == {r \in Requests : request[r].method = "PATCH" /\ request[r].tab = t}

\* What sets the box of i in tab t and the server apart: its own changes that have not
\* taken effect, the one being asked about and those whose question got lost among them,
\* and the changes of other tabs that have.
Deciding(t, i) ==
    {u \in {t} : dialog[u] \in ToggleDialogs /\ dialog[u].item = i}
Unapplied(t, i) == {r \in Patches(t) : request[r].item = i /\ ~request[r].applied}
Foreign(t, i) ==
    {r \in Requests : /\ request[r].method = "PATCH" /\ request[r].item = i
                      /\ request[r].tab # t /\ request[r].applied}

Drift(t, i) ==
    Cardinality(Deciding(t, i)) + abandoned[t][i]
        + Cardinality(Unapplied(t, i)) + Cardinality(Foreign(t, i))

\* A checkbox shows the opposite of what the server has exactly if an odd number of
\* changes is known to one of them only.  An error that had an effect and a dismissed
\* question do not set them apart; an error without effect and a question that a message
\* has replaced do, and every later change keeps the box inverted.
BoxDriftsByUnsharedChanges ==
    \A t \in Tabs, i \in exists : checked[t][i] # active[i] <=> Drift(t, i) % 2 = 1

\* The spinner is never left over the page with nothing on its way that would remove it,
\* and a change is under way without it only if another of the tab has ended: the spinner
\* does not count.
LoaderFollowsRequests ==
    \A t \in Tabs :
        LET open == {r \in Patches(t) : request[r].open} IN
          /\ loader[t] => open # {}
          /\ ~loader[t] /\ open # {} => Patches(t) \ open # {}
=============================================================================

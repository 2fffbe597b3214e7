---------------------------- MODULE WageSettings ----------------------------
(***************************************************************************)
(* The settings page of the admin site: setting.js and the script of       *)
(* Setting/Index.cshtml.  Two lists of wages are arrays of the page; a     *)
(* button beside each rendered row deletes by index; the form is sent as a *)
(* whole, with one key per row and index, by one PUT at a time, while the  *)
(* rows can still be edited.                                               *)
(*                                                                         *)
(* The page may be open several times.  A row is its identity: what its    *)
(* three numbers are makes no difference once they are valid.  The binder  *)
(* and the handler of the PUT are outside this repository.                 *)
(***************************************************************************)
EXTENDS Integers, Sequences, FiniteSets

CONSTANTS
    Pages,      \* open copies of the page
    Lists,      \* casheBackWages and inPersonWages
    Rows,       \* rows that are ever added
    Requests,   \* PUTs that are sent, which bounds them
    NoRequest,  \* "none of them"
    MaxReloads  \* bound: times a page is loaded again

ASSUME RequestsAssumption == NoRequest \notin Requests
ASSUME ReloadsAssumption == MaxReloads \in Nat

VARIABLES
    wages,      \* wages[p][l]: the array
    table,      \* table[p][l]: the rendered rows, each with a button that has its index
    sending,    \* sending[p]: the PUT for which .submit is disabled, or NoRequest
    request,    \* request[r]: the form sent, and what has become of it
    saved,      \* server: saved[l], the wages of the settings
    reloads,    \* pages loaded again so far
    shown,      \* history: shown[p]: the rows p has had since it was loaded
    deleted,    \* history: rows beside which somebody has pressed delete
    everSaved,  \* history: rows that have been saved
    unseen,     \* history: rows overwritten by a form sent before its page had them
    last,       \* history: the PUT that was saved last
    told,       \* history: told[p]: the PUT that p's last message calls a success
    edited      \* history: edited[p]: the rows of p have changed since its last PUT

pageVars == <<wages, table, sending>>
savedVars == <<saved, everSaved, unseen, last>>
vars == <<pageVars, savedVars, request, reloads, shown, deleted, told, edited>>

Unsent == [state |-> "unsent"]

RowsIn(f) == UNION {{f[l][i] : i \in DOMAIN f[l]} : l \in Lists}

TypeOK ==
    /\ wages \in [Pages -> [Lists -> Seq(Rows)]]
    /\ table \in [Pages -> [Lists -> Seq(Rows)]]
    /\ sending \in [Pages -> Requests \cup {NoRequest}]
    /\ \A r \in Requests : request[r] # Unsent =>
          /\ request[r].state \in {"sent", "saved", "answered"}
          /\ RowsIn(request[r].keys) \subseteq request[r].shown
          /\ request[r].shown \subseteq Rows
    /\ saved \in [Lists -> Seq(Rows)]
    /\ reloads \in 0..MaxReloads
    /\ shown \in [Pages -> SUBSET Rows]
    /\ deleted \subseteq Rows /\ everSaved \subseteq Rows /\ unseen \subseteq Rows
    /\ last \in Requests \cup {NoRequest}
    /\ told \in [Pages -> Requests \cup {NoRequest}]
    /\ edited \in [Pages -> BOOLEAN]

NoRows == [l \in Lists |-> <<>>]

\* initCachBack, initInPerson: every page has been loaded, and nothing is saved yet.
Init ==
    /\ wages = [p \in Pages |-> NoRows]
    /\ table = [p \in Pages |-> NoRows]
    /\ sending = [p \in Pages |-> NoRequest]
    /\ request = [r \in Requests |-> Unsent]
    /\ saved = NoRows
    /\ reloads = 0
    /\ shown = [p \in Pages |-> {}]
    /\ deleted = {} /\ everSaved = {} /\ unseen = {}
    /\ last = NoRequest
    /\ told = [p \in Pages |-> NoRequest]
    /\ edited = [p \in Pages |-> FALSE]

(***************************************************************************)
(* The page.                                                               *)
(***************************************************************************)

\* Mutant of Load: the arrays are not empty when the saved rows are pushed.
LoadAppending(p) ==
    /\ reloads < MaxReloads
    /\ reloads' = reloads + 1
    /\ wages' = [wages EXCEPT ![p] = [l \in Lists |-> @[l] \o saved[l]]]
    /\ table' = [table EXCEPT ![p] = [l \in Lists |-> @[l] \o saved[l]]]
    /\ sending' = [sending EXCEPT ![p] = NoRequest]
    /\ shown' = [shown EXCEPT ![p] = RowsIn(saved)]
    /\ told' = [told EXCEPT ![p] = NoRequest]
    /\ edited' = [edited EXCEPT ![p] = FALSE]
    /\ UNCHANGED <<savedVars, request, deleted>>

\* The arrays are gone with the old page, and so is whoever waits for its PUT.
Load(p) ==
    /\ reloads < MaxReloads
    /\ reloads' = reloads + 1
    /\ wages' = [wages EXCEPT ![p] = saved]
    /\ table' = [table EXCEPT ![p] = saved]
    /\ sending' = [sending EXCEPT ![p] = NoRequest]
    /\ shown' = [shown EXCEPT ![p] = RowsIn(saved)]
    /\ told' = [told EXCEPT ![p] = NoRequest]
    /\ edited' = [edited EXCEPT ![p] = FALSE]
    /\ UNCHANGED <<savedVars, request, deleted>>

\* Every change of an array is rendered before its handler returns.
SetRows(p, l, s) ==
    /\ wages' = [wages EXCEPT ![p][l] = s]
    /\ table' = [table EXCEPT ![p][l] = s]

Edited(p) == edited' = [edited EXCEPT ![p] = TRUE]

\* Rows that nobody has added yet.
Fresh ==
    Rows \ (deleted \cup everSaved \cup UNION {shown[p] : p \in Pages}
              \cup UNION {request[r].shown : r \in {q \in Requests : request[q] # Unsent}})

\* AddCashBackWage, AddInPersonWage.  Inputs that are not positive numbers end in an
\* alert and change nothing.
AddWage(p, l) ==
    \E w \in Fresh :
        /\ SetRows(p, l, Append(wages[p][l], w))
        /\ shown' = [shown EXCEPT ![p] = @ \cup {w}]
        /\ Edited(p)
        /\ UNCHANGED <<savedVars, sending, request, reloads, deleted, told>>

Without(s, i) ==
    IF i \in DOMAIN s THEN SubSeq(s, 1, i - 1) \o SubSeq(s, i + 1, Len(s)) ELSE s

\* Mutant of DeleteWage: the table is not rendered again.
DeleteWageUnrendered(p, l) ==
    \E i \in DOMAIN table[p][l] :
        /\ wages' = [wages EXCEPT ![p][l] = Without(@, i)]
        /\ deleted' = deleted \cup {table[p][l][i]}
        /\ Edited(p)
        /\ UNCHANGED <<savedVars, table, sending, request, reloads, shown, told>>

\* deleteCashBackWage, deleteInPersonWage: the button has the index its row had when it
\* was rendered; the filter takes the row out that has it now.
DeleteWage(p, l) ==
    \E i \in DOMAIN table[p][l] :
        /\ SetRows(p, l, Without(wages[p][l], i))
        /\ deleted' = deleted \cup {table[p][l][i]}
        /\ Edited(p)
        /\ UNCHANGED <<savedVars, sending, request, reloads, shown, told>>

\* Mutant of FormKeys: the indices start at one.
FormKeysFromOne(p) == [l \in Lists |-> [i \in 1..Len(wages[p][l]) |-> wages[p][l][i]]]

\* setCasheBackWage, setInPersonWage: keys with the indices 0, 1, ...
FormKeys(p) == [l \in Lists |-> [i \in 0..(Len(wages[p][l]) - 1) |-> wages[p][l][i + 1]]]

\* The form is a snapshot.  Until the answer the submit button is disabled, and so is
\* submission by the Enter key; the buttons of the rows are not.
Submit(p, r) ==
    /\ sending[p] = NoRequest
    /\ request[r] = Unsent
    /\ request' = [request EXCEPT ![r] =
          [state |-> "sent", keys |-> FormKeys(p), shown |-> shown[p]]]
    /\ sending' = [sending EXCEPT ![p] = r]
    /\ told' = [told EXCEPT ![p] = NoRequest]
    /\ edited' = [edited EXCEPT ![p] = FALSE]
    /\ UNCHANGED <<savedVars, wages, table, reloads, shown, deleted>>

(***************************************************************************)
(* The server and the network.                                             *)
(***************************************************************************)

\* The binder of ASP.NET Core takes the indices from 0 on, up to the first that is missing.
Bind(f) ==
    LET n == CHOOSE k \in 0..Cardinality(DOMAIN f) :
                 0..(k - 1) \subseteq DOMAIN f /\ k \notin DOMAIN f
    IN  [i \in 1..n |-> f[i - 1]]

\* EditSettingCommand: the lists of the form take the place of the old ones.
Save(r) ==
    /\ request[r].state = "sent"
    /\ request' = [request EXCEPT ![r].state = "saved"]
    /\ saved' = [l \in Lists |-> Bind(request[r].keys[l])]
    /\ everSaved' = everSaved \cup RowsIn(saved')
    /\ unseen' = (unseen \cup (RowsIn(saved) \ request[r].shown)) \ RowsIn(saved')
    /\ last' = r
    /\ UNCHANGED <<pageVars, reloads, shown, deleted, told, edited>>

\* The success message appears, whatever has been edited meanwhile.
Succeed(p) ==
    /\ sending[p] # NoRequest
    /\ request[sending[p]].state = "saved"
    /\ request' = [request EXCEPT ![sending[p]].state = "answered"]
    /\ told' = [told EXCEPT ![p] = sending[p]]
    /\ sending' = [sending EXCEPT ![p] = NoRequest]
    /\ UNCHANGED <<savedVars, wages, table, reloads, shown, deleted, edited>>

\* The server refuses or throws, or the connection breaks, and the form may be saved or
\* still be on its way.  The button is enabled; the message is never shown, since the
\* handler reads a name that does not exist.
Fail(p) ==
    /\ sending[p] # NoRequest
    /\ sending' = [sending EXCEPT ![p] = NoRequest]
    /\ UNCHANGED <<savedVars, wages, table, request, reloads, shown, deleted, told, edited>>

Page(p) ==
    \/ Load(p)
    \/ \E l \in Lists : AddWage(p, l) \/ DeleteWage(p, l)
    \/ \E r \in Requests : Submit(p, r)
    \/ Succeed(p) \/ Fail(p)

Next == (\E p \in Pages : Page(p)) \/ (\E r \in Requests : Save(r))

Spec == Init /\ [][Next]_vars

-----------------------------------------------------------------------------
(***************************************************************************)
(* What must hold.                                                         *)
(***************************************************************************)

\* A row that has been saved stays saved, unless somebody pressed the button beside it or
\* a form overwrote it that was sent from a page that did not have it.  Editing while a
\* PUT is under way, errors, and forms that arrive late lose nothing else.
LostRowsWereUnseen == everSaved \ deleted \subseteq RowsIn(saved) \cup unseen

\* When a page that was told of a success has not been edited since it sent its form, and
\* no other form was saved after it, the server has the rows that the page shows, in
\* their lists and in their order.
SuccessMeansSaved ==
    \A p \in Pages :
        told[p] # NoRequest /\ ~edited[p] /\ last = told[p] => saved = table[p]
=============================================================================

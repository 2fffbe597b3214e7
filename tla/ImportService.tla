---------------------------- MODULE ImportService ----------------------------
(***************************************************************************)
(* What the import pipeline promises: at-least-once import.  A request may *)
(* become a job; the job's document may be stored in the index any number  *)
(* of times, also after it is done; the job is done only once a copy is    *)
(* there; and a client is answered only about a job that exists.           *)
(***************************************************************************)
EXTENDS Naturals

CONSTANT Jobs

VARIABLES
    answered,  \* the jobs whose client holds a UniqueId
    status,    \* what a status query returns
    copies     \* how many times a search can find each chunk of the document

vars == <<answered, status, copies>>

Init ==
    /\ answered = {}
    /\ status = [j \in Jobs |-> "Absent"]
    /\ copies = [j \in Jobs |-> 0]

Accept(j) ==
    /\ status[j] = "Absent"
    /\ status' = [status EXCEPT ![j] = "Created"]
    /\ UNCHANGED <<answered, copies>>

Answer(j) ==
    /\ status[j] # "Absent"
    /\ answered' = answered \cup {j}
    /\ UNCHANGED <<status, copies>>

Index(j) ==
    /\ status[j] # "Absent"
    /\ copies' = [copies EXCEPT ![j] = @ + 1]
    /\ UNCHANGED <<answered, status>>

Complete(j) ==
    /\ status[j] = "Created"
    /\ copies[j] > 0
    /\ status' = [status EXCEPT ![j] = "Succeeded"]
    /\ UNCHANGED <<answered, copies>>

Next == \E j \in Jobs : Accept(j) \/ Answer(j) \/ Index(j) \/ Complete(j)

Spec == Init /\ [][Next]_vars
=============================================================================

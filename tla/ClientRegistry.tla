--------------------------- MODULE ClientRegistry ---------------------------
(***************************************************************************)
(* What exchanges/pool.py promises, with no locks in sight: per key a cell *)
(* that is filled once, and calls that fail or answer what the cell holds. *)
(***************************************************************************)
CONSTANTS Task, Key, Client, NULL, FAILED

VARIABLES
    cell,   \* the client of each key, NULL before its first use
    answer  \* what each task's last get came to; NULL before it

Init ==
    /\ cell = [k \in Key |-> NULL]
    /\ answer = [t \in Task |-> NULL]

(* A first use fills the cell, with a client no key has. *)
Fill(t, k, c) ==
    /\ cell[k] = NULL
    /\ \A j \in Key : cell[j] # c
    /\ cell' = [cell EXCEPT ![k] = c]
    /\ answer' = [answer EXCEPT ![t] = c]

Read(t, k) ==
    /\ cell[k] # NULL
    /\ answer' = [answer EXCEPT ![t] = cell[k]]
    /\ UNCHANGED cell

Fail(t) ==
    /\ answer' = [answer EXCEPT ![t] = FAILED]
    /\ UNCHANGED cell

(* A call that is under way has no answer yet. *)
Call(t) ==
    /\ answer' = [answer EXCEPT ![t] = NULL]
    /\ UNCHANGED cell

Shutdown ==
    /\ cell' = [k \in Key |-> NULL]
    /\ UNCHANGED answer

Next ==
    \/ \E t \in Task : Fail(t) \/ Call(t)
    \/ \E t \in Task, k \in Key : Read(t, k) \/ \E c \in Client : Fill(t, k, c)
    \/ Shutdown

Spec == Init /\ [][Next]_<<cell, answer>>
=============================================================================

---------------------------- MODULE ExchangePool ----------------------------
(***************************************************************************)
(* exchanges/pool.py: the cache of exchange clients.  It is the one object *)
(* of the program that several asyncio tasks use at once: the scans call   *)
(* get for every pair or symbol in parallel, under asyncio.gather.         *)
(***************************************************************************)
EXTENDS Naturals, Sequences, FiniteSets

CONSTANTS
    Task,       \* the tasks of a gather
    Key,        \* (exchange_id, market_type)
    Client,     \* the CCXTClient objects there may be
    MaxLost,    \* bound: how many starts fail or are cancelled
    NULL, FAILED

ASSUME PoolAssumption ==
    /\ IsFiniteSet(Task) /\ IsFiniteSet(Key) /\ IsFiniteSet(Client)
    /\ MaxLost \in Nat
    /\ Cardinality(Client) >= Cardinality(Key) + MaxLost
    /\ NULL \notin Client /\ FAILED \notin Client /\ NULL # FAILED

VARIABLES
    clients,    \* self._clients
    lock,       \* external, asyncio.Lock: per key the holder, then the waiters
    task,       \* where in get each task is, for which key, making what
    answer,     \* what its last get returned; FAILED if it raised
    lost,       \* clients whose start raised or was cancelled
    closed,     \* clients whose close has been called
    running     \* FALSE once close_all has been called

vars == <<clients, lock, task, answer, lost, closed, running>>

TaskState ==
    [at : {"idle"}, key : {NULL}, making : {NULL}]
        \cup [at : {"waiting"}, key : Key, making : {NULL}]
        \cup [at : {"starting"}, key : Key, making : Client]

Idle             == [at |-> "idle", key |-> NULL, making |-> NULL]
Waiting(k)       == [at |-> "waiting", key |-> k, making |-> NULL]
Starting(k, c)   == [at |-> "starting", key |-> k, making |-> c]

TypeOK ==
    /\ clients \in [Key -> Client \cup {NULL}]
    /\ lock \in [Key -> Seq(Task)]
    /\ task \in [Task -> TaskState]
    /\ answer \in [Task -> Client \cup {NULL, FAILED}]
    /\ lost \subseteq Client
    /\ closed \subseteq Client
    /\ running \in BOOLEAN

Init ==
    /\ clients = [k \in Key |-> NULL]
    /\ lock = [k \in Key |-> <<>>]
    /\ task = [t \in Task |-> Idle]
    /\ answer = [t \in Task |-> NULL]
    /\ lost = {} /\ closed = {} /\ running = TRUE

-----------------------------------------------------------------------------
Cached == {clients[k] : k \in Key} \ {NULL}
Being  == {task[t].making : t \in Task} \ {NULL}
Unused == Client \ (Cached \cup Being \cup lost \cup closed)

(* The queue without its i-th entry. *)
Without(q, i) == SubSeq(q, 1, i - 1) \o SubSeq(q, i + 1, Len(q))

(* The holder releases the lock, or a waiter gives up its place. *)
Leave(t, k) ==
    \E i \in DOMAIN lock[k] :
        lock[k][i] = t /\ lock' = [lock EXCEPT ![k] = Without(@, i)]

Return(t, result) ==
    /\ answer' = [answer EXCEPT ![t] = result]
    /\ task' = [task EXCEPT ![t] = Idle]

(* Fast path: no await at all. *)
GetHit(t, k) ==
    /\ running /\ task[t] = Idle
    /\ clients[k] # NULL
    /\ Return(t, clients[k])
    /\ UNCHANGED <<clients, lock, lost, closed, running>>

(* A free lock is taken without an await, and the new client starts. *)
GetMissUnlocked(t, k) ==                                   \* mutant
    /\ running /\ task[t] = Idle
    /\ clients[k] = NULL
    /\ \E c \in Unused : task' = [task EXCEPT ![t] = Starting(k, c)]
    /\ lock' = [lock EXCEPT ![k] = Append(@, t)]
    /\ answer' = [answer EXCEPT ![t] = NULL]
    /\ UNCHANGED <<clients, lost, closed, running>>

GetMiss(t, k) ==
    /\ running /\ task[t] = Idle
    /\ clients[k] = NULL
    /\ lock[k] = <<>>
    /\ \E c \in Unused : task' = [task EXCEPT ![t] = Starting(k, c)]
    /\ lock' = [lock EXCEPT ![k] = <<t>>]
    /\ answer' = [answer EXCEPT ![t] = NULL]
    /\ UNCHANGED <<clients, lost, closed, running>>

GetWait(t, k) ==
    /\ running /\ task[t] = Idle
    /\ clients[k] = NULL
    /\ lock[k] # <<>>
    /\ task' = [task EXCEPT ![t] = Waiting(k)]
    /\ lock' = [lock EXCEPT ![k] = Append(@, t)]
    /\ answer' = [answer EXCEPT ![t] = NULL]
    /\ UNCHANGED <<clients, lost, closed, running>>

Woken(t, k) == task[t] = Waiting(k) /\ lock[k] # <<>> /\ Head(lock[k]) = t

(* The re-check inside the lock. *)
WakeHit(t, k) ==
    /\ Woken(t, k)
    /\ clients[k] # NULL
    /\ Return(t, clients[k])
    /\ Leave(t, k)
    /\ UNCHANGED <<clients, lost, closed, running>>

WakeMissUnchecked(t, k) ==                                 \* mutant
    /\ Woken(t, k)
    /\ \E c \in Unused : task' = [task EXCEPT ![t] = Starting(k, c)]
    /\ UNCHANGED <<clients, lock, answer, lost, closed, running>>

WakeMiss(t, k) ==
    /\ Woken(t, k)
    /\ clients[k] = NULL
    /\ \E c \in Unused : task' = [task EXCEPT ![t] = Starting(k, c)]
    /\ UNCHANGED <<clients, lock, answer, lost, closed, running>>

Started(t, k) ==
    /\ task[t].at = "starting" /\ task[t].key = k
    /\ clients' = [clients EXCEPT ![k] = task[t].making]
    /\ Return(t, task[t].making)
    /\ Leave(t, k)
    /\ UNCHANGED <<lost, closed, running>>

StartFailsHoldingLock(t, k) ==                             \* mutant
    /\ task[t].at = "starting" /\ task[t].key = k
    /\ Cardinality(lost) < MaxLost
    /\ lost' = lost \cup {task[t].making}
    /\ Return(t, FAILED)
    /\ UNCHANGED <<clients, lock, closed, running>>

(***************************************************************************)
(* load_markets raises, or the run is cancelled while it is under way: the *)
(* lock is released, and nobody keeps the half started client.             *)
(***************************************************************************)
StartFails(t, k) ==
    /\ task[t].at = "starting" /\ task[t].key = k
    /\ Cardinality(lost) < MaxLost
    /\ lost' = lost \cup {task[t].making}
    /\ Return(t, FAILED)
    /\ Leave(t, k)
    /\ UNCHANGED <<clients, closed, running>>

(* A waiter is cancelled, be it about to be woken or not. *)
CancelWaiting(t, k) ==
    /\ task[t] = Waiting(k)
    /\ Return(t, FAILED)
    /\ Leave(t, k)
    /\ UNCHANGED <<clients, lost, closed, running>>

(* The engine is gone when close_all runs; an error of close is logged. *)
CloseAll ==
    /\ running
    /\ \A t \in Task : task[t] = Idle
    /\ closed' = closed \cup Cached
    /\ clients' = [k \in Key |-> NULL]
    /\ running' = FALSE
    /\ UNCHANGED <<lock, task, answer, lost>>

Proceed(t, k) == WakeHit(t, k) \/ WakeMiss(t, k) \/ Started(t, k)

Next ==
    \/ \E t \in Task, k \in Key :
          \/ GetHit(t, k) \/ GetMiss(t, k) \/ GetWait(t, k)
          \/ Proceed(t, k) \/ StartFails(t, k) \/ CancelWaiting(t, k)
    \/ CloseAll

Spec == Init /\ [][Next]_vars

(* The event loop wakes who can run, and a start ends one way or another. *)
Fairness ==
    \A t \in Task, k \in Key : WF_vars(Proceed(t, k) \/ StartFails(t, k))

FairSpec == Spec /\ Fairness

-----------------------------------------------------------------------------
(* What holds *)

Registry == INSTANCE ClientRegistry WITH cell <- clients

(***************************************************************************)
(* The pool implements the registry: the first use of a key fixes its      *)
(* client and every other call gets that one or fails.                     *)
(***************************************************************************)
ImplementsRegistry == Registry!Spec

(***************************************************************************)
(* No thundering herd: however many tasks ask for a key at once, at most   *)
(* one is loading its markets.                                             *)
(***************************************************************************)
OneStartPerKey ==
    \A t, u \in Task :
        task[t].at = "starting" /\ task[u].at = "starting"
            /\ task[t].key = task[u].key => t = u

(***************************************************************************)
(* The lock of a key is held by whoever is at its head, and held only by a *)
(* task that is inside get: a failed or cancelled start never keeps it.    *)
(***************************************************************************)
LockIsLive ==
    \A k \in Key : \A i \in DOMAIN lock[k] :
        LET t == lock[k][i]
        IN  task[t].key = k /\ (i > 1 => task[t].at = "waiting")

(***************************************************************************)
(* Every waiter gets out of get, with a client or with an exception, also  *)
(* when the start it waits for, or its own, fails or is cancelled.         *)
(***************************************************************************)
WaiterReturns ==
    \A t \in Task : task[t].at = "waiting" ~> task[t] = Idle
=============================================================================

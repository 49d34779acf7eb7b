------------------------ MODULE ExchangePool_proofs ------------------------
(***************************************************************************)
(* For any number of tasks, keys and clients: one start per key at a time, *)
(* a lock that only tasks inside get are in the queue of, and the pool as  *)
(* an implementation of ClientRegistry.                                    *)
(***************************************************************************)
EXTENDS ExchangePool, SequenceTheorems, TLAPS

IsStarting(t) == task[t].at = "starting"

(* No task is in the queue of a lock twice. *)
QueuedOnce ==
    \A k \in Key : \A i, j \in DOMAIN lock[k] : lock[k][i] = lock[k][j] => i = j

(***************************************************************************)
(* Who is in a queue is inside get for that key; behind the head it waits. *)
(***************************************************************************)
QueuedIsInside ==
    \A k \in Key : \A i \in DOMAIN lock[k] :
        /\ task[lock[k][i]].at # "idle"
        /\ task[lock[k][i]].key = k
        /\ i > 1 => task[lock[k][i]].at = "waiting"

(* Who is inside get is in the queue of its key: no waiter is forgotten. *)
InsideIsQueued ==
    \A t \in Task :
        task[t].at # "idle" => \E i \in DOMAIN lock[task[t].key] :
                                   lock[task[t].key][i] = t

(* A client is started by the holder of the lock, while the key has none. *)
StartingHolds ==
    \A t \in Task :
        IsStarting(t) => /\ lock[task[t].key] # <<>>
                         /\ lock[task[t].key][1] = t
                         /\ clients[task[t].key] = NULL

(* The client a task starts is in no cell and nobody else starts it. *)
StartedIsFresh ==
    /\ \A t \in Task : IsStarting(t) => \A k \in Key : clients[k] # task[t].making
    /\ \A t, u \in Task :
          IsStarting(t) /\ IsStarting(u) /\ t # u => task[t].making # task[u].making

PoolInv ==
    /\ TypeOK
    /\ QueuedOnce
    /\ QueuedIsInside
    /\ InsideIsQueued
    /\ StartingHolds
    /\ StartedIsFresh

-----------------------------------------------------------------------------
(* The queue of a lock *)

(* What is left of a queue when one entry goes, position by position. *)
LEMMA WithoutShape ==
    ASSUME NEW q \in Seq(Task), NEW i \in DOMAIN q
    PROVE  /\ Without(q, i) \in Seq(Task)
           /\ Len(Without(q, i)) = Len(q) - 1
           /\ \A j \in 1..(Len(q) - 1) :
                 Without(q, i)[j] = IF j < i THEN q[j] ELSE q[j + 1]
<1> DEFINE before == SubSeq(q, 1, i - 1)
           after  == SubSeq(q, i + 1, Len(q))
           whole  == Without(q, i)
<1>1. Len(q) \in Nat /\ i \in 1..Len(q) /\ \A j \in 1..Len(q) : q[j] \in Task
  BY LenProperties, ElementOfSeq
<1>2. /\ before \in Seq(Task) /\ Len(before) = i - 1
      /\ \A j \in 1..(i - 1) : before[j] = q[j]
  <2>1. \A j \in 1..(i - 1) : q[j] \in Task
    BY <1>1
  <2>2. /\ before \in Seq(Task)
        /\ Len(before) = IF 1 <= i - 1 THEN i - 1 - 1 + 1 ELSE 0
        /\ \A j \in 1..(i - 1 - 1 + 1) : before[j] = q[1 + j - 1]
    BY <1>1, <2>1, SubSeqProperties
  <2>3. QED
    BY <1>1, <2>2
<1>3. /\ after \in Seq(Task) /\ Len(after) = Len(q) - i
      /\ \A j \in 1..(Len(q) - i) : after[j] = q[i + j]
  <2>1. \A j \in (i + 1)..Len(q) : q[j] \in Task
    BY <1>1
  <2>2. /\ after \in Seq(Task)
        /\ Len(after) = IF i + 1 <= Len(q) THEN Len(q) - (i + 1) + 1 ELSE 0
        /\ \A j \in 1..(Len(q) - (i + 1) + 1) : after[j] = q[i + 1 + j - 1]
    BY <1>1, <2>1, SubSeqProperties
  <2>3. QED
    BY <1>1, <2>2
<1>4. /\ whole \in Seq(Task)
      /\ Len(whole) = Len(before) + Len(after)
      /\ \A j \in 1..(Len(before) + Len(after)) :
            whole[j] = IF j <= Len(before) THEN before[j] ELSE after[j - Len(before)]
  BY <1>2, <1>3, ConcatProperties DEF Without
<1> HIDE DEF before, after, whole
<1>5. /\ whole \in Seq(Task) /\ Len(whole) = Len(q) - 1
      /\ \A j \in 1..(Len(q) - 1) :
            whole[j] = IF j <= i - 1 THEN before[j] ELSE after[j - (i - 1)]
  <2>1. Len(before) + Len(after) = Len(q) - 1
    BY <1>1, <1>2, <1>3
  <2>2. QED
    BY <1>2, <1>4, <2>1
<1>6. ASSUME NEW j \in 1..(Len(q) - 1)
      PROVE  whole[j] = IF j < i THEN q[j] ELSE q[j + 1]
  <2>1. CASE j < i
    BY <1>1, <1>2, <1>5, <2>1
  <2>2. CASE ~ (j < i)
    <3>1. whole[j] = after[j - (i - 1)]
      <4>1. ~ (j <= i - 1)
        BY <1>1, <2>2
      <4>2. whole[j] = IF j <= i - 1 THEN before[j] ELSE after[j - (i - 1)]
        BY <1>5, Zenon
      <4>3. QED
        BY <4>1, <4>2
    <3>2. j - (i - 1) \in 1..(Len(q) - i) /\ i + (j - (i - 1)) = j + 1
      BY <1>1, <2>2
    <3>3. QED
      BY <1>3, <2>2, <3>1, <3>2
  <2>3. QED
    BY <2>1, <2>2
<1>7. QED
  BY <1>5, <1>6 DEF whole

(***************************************************************************)
(* Leaving a queue one is in once: the task is gone, the others stay in    *)
(* their order, and the holder changes only if it is the one that leaves.  *)
(***************************************************************************)
LEMMA LeaveShape ==
    ASSUME lock \in [Key -> Seq(Task)], QueuedOnce,
           NEW t \in Task, NEW k \in Key, Leave(t, k)
    PROVE  /\ lock' \in [Key -> Seq(Task)]
           /\ \A j \in Key : j # k => lock'[j] = lock[j]
           /\ QueuedOnce'
           /\ \A x \in DOMAIN lock'[k] :
                 /\ lock'[k][x] # t
                 /\ \E y \in DOMAIN lock[k] :
                       lock[k][y] = lock'[k][x] /\ (x > 1 => y > 1)
           /\ \A y \in DOMAIN lock[k] :
                 lock[k][y] # t => \E x \in DOMAIN lock'[k] : lock'[k][x] = lock[k][y]
           /\ (lock[k] # <<>> /\ lock[k][1] # t)
                 => (lock'[k] # <<>> /\ lock'[k][1] = lock[k][1])
<1> DEFINE q == lock[k]
           r == lock'[k]
<1>1. PICK i \in DOMAIN q : q[i] = t /\ lock' = [lock EXCEPT ![k] = Without(q, i)]
  BY DEF Leave
<1>2. q \in Seq(Task) /\ r = Without(q, i)
  BY <1>1
<1>3. /\ r \in Seq(Task) /\ Len(r) = Len(q) - 1
      /\ \A j \in 1..(Len(q) - 1) : r[j] = IF j < i THEN q[j] ELSE q[j + 1]
  BY <1>2, WithoutShape
<1>4. /\ Len(q) \in Nat /\ DOMAIN q = 1..Len(q) /\ i \in 1..Len(q)
      /\ DOMAIN r = 1..(Len(q) - 1)
  BY <1>1, <1>2, <1>3, LenProperties
<1>5. \A a, b \in 1..Len(q) : q[a] = q[b] => a = b
  BY <1>4 DEF QueuedOnce
<1>6. /\ lock' \in [Key -> Seq(Task)]
      /\ \A j \in Key : j # k => lock'[j] = lock[j]
  BY <1>1, <1>2, <1>3
<1> HIDE DEF q, r
<1>7. \A x \in DOMAIN r : r[x] # t /\ \E y \in DOMAIN q : q[y] = r[x] /\ (x > 1 => y > 1)
  <2> SUFFICES ASSUME NEW x \in 1..(Len(q) - 1)
               PROVE  r[x] # t /\ \E y \in 1..Len(q) : q[y] = r[x] /\ (x > 1 => y > 1)
    BY <1>4
  <2>1. CASE x < i
    BY <1>1, <1>3, <1>4, <1>5, <2>1
  <2>2. CASE ~ (x < i)
    <3>1. x + 1 \in 1..Len(q) /\ x + 1 # i /\ r[x] = q[x + 1]
      BY <1>3, <1>4, <2>2
    <3>2. x > 1 => x + 1 > 1
      BY <1>4
    <3>3. QED
      BY <1>1, <1>4, <1>5, <3>1, <3>2
  <2>3. QED
    BY <2>1, <2>2
<1>8. \A y \in DOMAIN q : q[y] # t => \E x \in DOMAIN r : r[x] = q[y]
  <2> SUFFICES ASSUME NEW y \in 1..Len(q), y # i
               PROVE  \E x \in 1..(Len(q) - 1) : r[x] = q[y]
    BY <1>1, <1>4
  <2>1. CASE y < i
    BY <1>3, <1>4, <2>1
  <2>2. CASE y > i
    <3>1. y - 1 \in 1..(Len(q) - 1) /\ ~ (y - 1 < i) /\ (y - 1) + 1 = y
      BY <1>4, <2>2
    <3>2. QED
      BY <1>3, <3>1
  <2>3. QED
    BY <1>4, <2>1, <2>2
<1>9. \A a, b \in DOMAIN r : r[a] = r[b] => a = b
  BY <1>3, <1>4, <1>5
<1>10. q # <<>> /\ q[1] # t => r # <<>> /\ r[1] = q[1]
  <2> SUFFICES ASSUME q # <<>>, q[1] # t
               PROVE  r # <<>> /\ r[1] = q[1]
    OBVIOUS
  <2>1. i > 1 /\ Len(q) > 1
    BY <1>1, <1>4
  <2>2. 1 \in 1..(Len(q) - 1) /\ 1 < i
    BY <1>4, <2>1
  <2>3. r[1] = q[1] /\ 1 \in DOMAIN r
    BY <1>3, <1>4, <2>2
  <2>4. QED
    BY <2>3
<1>11. QueuedOnce'
  BY <1>6, <1>9 DEF QueuedOnce, r
<1>12. QED
  BY <1>6, <1>7, <1>8, <1>10, <1>11 DEF q, r
-----------------------------------------------------------------------------
(* The places a task can be in *)

(* The three shapes of a task are states of get, and tell it apart. *)
LEMMA TaskShapes ==
    /\ Idle \in TaskState /\ Idle.at = "idle"
    /\ \A k \in Key : /\ Waiting(k) \in TaskState
                      /\ Waiting(k).at = "waiting" /\ Waiting(k).key = k
    /\ \A k \in Key, c \in Client :
          /\ Starting(k, c) \in TaskState
          /\ Starting(k, c).at = "starting"
          /\ Starting(k, c).key = k /\ Starting(k, c).making = c
    /\ \A s \in TaskState :
          /\ s.at = "idle" <=> s = Idle
          /\ s.at # "idle" => s.key \in Key
          /\ s.at = "starting" => s.making \in Client
BY DEF TaskState, Idle, Waiting, Starting

(* A client that may still be made is in no cell and is nobody's start. *)
LEMMA UnusedIsFresh ==
    ASSUME TypeOK, NEW c \in Unused
    PROVE  /\ c \in Client
           /\ \A j \in Key : clients[j] # c
           /\ \A u \in Task : task[u].making # c
BY PoolAssumption DEF TypeOK, Unused, Cached, Being

(***************************************************************************)
(* Leaving get, with an answer or without: WakeHit, Started, StartFails    *)
(* and CancelWaiting.  Only the holder, whose client is ready, may put it  *)
(* in the cell of its key.                                                 *)
(***************************************************************************)
LEMMA LeavingStep ==
    ASSUME PoolInv, NEW t \in Task, NEW k \in Key,
           task[t].at # "idle", task[t].key = k,
           Leave(t, k), task' = [task EXCEPT ![t] = Idle],
           \/ clients' = clients
           \/ IsStarting(t) /\ clients' = [clients EXCEPT ![k] = task[t].making]
    PROVE  /\ lock' \in [Key -> Seq(Task)]
           /\ QueuedOnce' /\ QueuedIsInside' /\ InsideIsQueued'
           /\ StartingHolds' /\ StartedIsFresh'
<1>1. /\ lock \in [Key -> Seq(Task)] /\ task \in [Task -> TaskState]
      /\ clients \in [Key -> Client \cup {NULL}]
  BY DEF PoolInv, TypeOK
<1>2. /\ lock' \in [Key -> Seq(Task)]
      /\ \A j \in Key : j # k => lock'[j] = lock[j]
      /\ QueuedOnce'
      /\ \A x \in DOMAIN lock'[k] :
            /\ lock'[k][x] # t
            /\ \E y \in DOMAIN lock[k] :
                  lock[k][y] = lock'[k][x] /\ (x > 1 => y > 1)
      /\ \A y \in DOMAIN lock[k] :
            lock[k][y] # t => \E x \in DOMAIN lock'[k] : lock'[k][x] = lock[k][y]
      /\ (lock[k] # <<>> /\ lock[k][1] # t)
            => (lock'[k] # <<>> /\ lock'[k][1] = lock[k][1])
  BY <1>1, LeaveShape DEF PoolInv
<1>3. /\ task'[t].at = "idle"
      /\ \A u \in Task : u # t => task'[u] = task[u]
  BY <1>1, TaskShapes
<1>4. \A j \in Key : \A i \in DOMAIN lock[j] : lock[j][i] \in Task
  BY <1>1, ElementOfSeq, LenProperties
<1>5. \A j \in Key : j # k => \A i \in DOMAIN lock[j] : lock[j][i] # t
  BY DEF PoolInv, QueuedIsInside
<1>6. QueuedIsInside'
  <2> SUFFICES ASSUME NEW j \in Key, NEW i \in DOMAIN lock'[j]
               PROVE  /\ task'[lock'[j][i]].at # "idle"
                      /\ task'[lock'[j][i]].key = j
                      /\ i > 1 => task'[lock'[j][i]].at = "waiting"
    BY DEF QueuedIsInside
  <2>1. CASE j = k
    <3>1. PICK y \in DOMAIN lock[k] : lock[k][y] = lock'[k][i] /\ (i > 1 => y > 1)
      BY <1>2, <2>1
    <3>2. task'[lock'[k][i]] = task[lock[k][y]]
      BY <1>2, <1>3, <1>4, <2>1, <3>1
    <3>3. QED
      BY <2>1, <3>1, <3>2 DEF PoolInv, QueuedIsInside
  <2>2. CASE j # k
    <3>1. lock'[j] = lock[j] /\ i \in DOMAIN lock[j]
      BY <1>2, <2>2
    <3>2. lock[j][i] \in Task /\ lock[j][i] # t
      BY <1>4, <1>5, <2>2, <3>1
    <3>3. task'[lock[j][i]] = task[lock[j][i]]
      BY <1>3, <3>2
    <3>4. QED
      BY <3>1, <3>3 DEF PoolInv, QueuedIsInside
  <2>3. QED
    BY <2>1, <2>2
<1>7. InsideIsQueued'
  <2> SUFFICES ASSUME NEW u \in Task, task'[u].at # "idle"
               PROVE  \E i \in DOMAIN lock'[task'[u].key] : lock'[task'[u].key][i] = u
    BY DEF InsideIsQueued
  <2>1. u # t /\ task'[u] = task[u] /\ task[u].key \in Key
    BY <1>1, <1>3, TaskShapes
  <2>2. PICK y \in DOMAIN lock[task[u].key] : lock[task[u].key][y] = u
    BY <2>1 DEF PoolInv, InsideIsQueued
  <2>3. CASE task[u].key = k
    BY <1>2, <2>1, <2>2, <2>3
  <2>4. CASE task[u].key # k
    <3>1. lock'[task[u].key] = lock[task[u].key]
      BY <1>2, <2>1, <2>4
    <3>2. QED
      BY <2>1, <2>2, <3>1
  <2>5. QED
    BY <2>3, <2>4
<1>8. ASSUME NEW u \in Task, task'[u].at = "starting"
      PROVE  /\ u # t /\ task'[u] = task[u] /\ task[u].at = "starting"
             /\ task[u].key \in Key /\ task[u].making \in Client
  BY <1>1, <1>3, <1>8, TaskShapes
<1>9. StartingHolds'
  <2> SUFFICES ASSUME NEW u \in Task, task'[u].at = "starting"
               PROVE  /\ lock'[task'[u].key] # <<>>
                      /\ lock'[task'[u].key][1] = u
                      /\ clients'[task'[u].key] = NULL
    BY DEF StartingHolds, IsStarting
  <2>1. /\ lock[task[u].key] # <<>> /\ lock[task[u].key][1] = u
        /\ clients[task[u].key] = NULL
    BY <1>8 DEF PoolInv, StartingHolds, IsStarting
  <2>2. lock'[task[u].key] # <<>> /\ lock'[task[u].key][1] = u
    BY <1>2, <1>8, <2>1
  <2>3. clients'[task[u].key] = NULL
    <3>1. CASE task[u].key = k
      <4>1. ~ IsStarting(t)
        BY <1>8, <2>1, <3>1 DEF PoolInv, StartingHolds
      <4>2. QED
        BY <2>1, <4>1
    <3>2. CASE task[u].key # k
      BY <1>1, <1>8, <2>1, <3>2
    <3>3. QED
      BY <3>1, <3>2
  <2>4. QED
    BY <1>8, <2>2, <2>3
<1>10. StartedIsFresh'
  <2>1. ASSUME NEW u \in Task, task'[u].at = "starting", NEW j \in Key
        PROVE  clients'[j] # task'[u].making
    <3>1. clients[j] # task[u].making
      BY <1>8, <2>1 DEF PoolInv, StartedIsFresh, IsStarting
    <3>2. IsStarting(t) => task[t].making # task[u].making
      BY <1>8, <2>1 DEF PoolInv, StartedIsFresh, IsStarting
    <3>3. QED
      BY <1>1, <1>8, <2>1, <3>1, <3>2
  <2>2. ASSUME NEW u \in Task, NEW v \in Task, u # v,
               task'[u].at = "starting", task'[v].at = "starting"
        PROVE  task'[u].making # task'[v].making
    BY <1>8, <2>2 DEF PoolInv, StartedIsFresh, IsStarting
  <2>3. QED
    BY <2>1, <2>2 DEF StartedIsFresh, IsStarting
<1>11. QED
  BY <1>2, <1>6, <1>7, <1>9, <1>10

(***************************************************************************)
(* Entering the queue of a key, or going on at its head: GetWait, GetMiss  *)
(* and WakeMiss.  Only the head of the queue starts a client, and only     *)
(* when the key has none.                                                  *)
(***************************************************************************)
LEMMA WaitingStep ==
    ASSUME PoolInv, NEW t \in Task, NEW k \in Key, GetWait(t, k)
    PROVE  PoolInv'
<1>1. /\ lock \in [Key -> Seq(Task)] /\ task \in [Task -> TaskState]
      /\ clients \in [Key -> Client \cup {NULL}]
  BY DEF PoolInv, TypeOK
<1>2. /\ lock[k] \in Seq(Task) /\ Len(lock[k]) \in Nat
      /\ DOMAIN lock[k] = 1..Len(lock[k]) /\ lock[k] # <<>>
  BY <1>1, LenProperties DEF GetWait
<1>3. Len(lock[k]) >= 1
  BY <1>2, EmptySeq
<1>4. /\ lock' \in [Key -> Seq(Task)]
      /\ \A j \in Key : j # k => lock'[j] = lock[j]
      /\ DOMAIN lock'[k] = 1..(Len(lock[k]) + 1)
      /\ \A i \in DOMAIN lock[k] : lock'[k][i] = lock[k][i]
      /\ lock'[k][Len(lock[k]) + 1] = t
  BY <1>1, <1>2, AppendProperties DEF GetWait
<1>5. /\ task'[t].at = "waiting" /\ task'[t].key = k
      /\ task' \in [Task -> TaskState]
      /\ \A u \in Task : u # t => task'[u] = task[u]
      /\ clients' = clients
  BY <1>1, TaskShapes DEF GetWait
<1>6. \A j \in Key : \A i \in DOMAIN lock[j] : lock[j][i] \in Task /\ lock[j][i] # t
  <2>1. task[t].at = "idle"
    BY TaskShapes DEF GetWait
  <2>2. QED
    BY <1>1, <2>1, ElementOfSeq, LenProperties DEF PoolInv, QueuedIsInside
<1>7. TypeOK'
  BY <1>4, <1>5 DEF GetWait, PoolInv, TypeOK
<1>8. QueuedOnce'
  <2> SUFFICES ASSUME NEW j \in Key, NEW a \in DOMAIN lock'[j], NEW b \in DOMAIN lock'[j],
                      lock'[j][a] = lock'[j][b]
               PROVE  a = b
    BY DEF QueuedOnce
  <2>1. CASE j # k
    <3>1. lock'[j] = lock[j]
      BY <1>4, <2>1
    <3>2. QED
      BY <3>1 DEF PoolInv, QueuedOnce
  <2>2. CASE j = k
    <3>1. \A i \in DOMAIN lock'[k] : i \in DOMAIN lock[k] \/ i = Len(lock[k]) + 1
      BY <1>2, <1>4
    <3>2. CASE a \in DOMAIN lock[k] /\ b \in DOMAIN lock[k]
      BY <1>4, <2>2, <3>2 DEF PoolInv, QueuedOnce
    <3>3. CASE a \notin DOMAIN lock[k] \/ b \notin DOMAIN lock[k]
      BY <1>4, <1>6, <2>2, <3>1, <3>3
    <3>4. QED
      BY <3>2, <3>3
  <2>3. QED
    BY <2>1, <2>2
<1>9. QueuedIsInside'
  <2> SUFFICES ASSUME NEW j \in Key, NEW i \in DOMAIN lock'[j]
               PROVE  /\ task'[lock'[j][i]].at # "idle"
                      /\ task'[lock'[j][i]].key = j
                      /\ i > 1 => task'[lock'[j][i]].at = "waiting"
    BY DEF QueuedIsInside
  <2>1. CASE i \in DOMAIN lock[j]
    <3>1. lock'[j][i] = lock[j][i]
      BY <1>4, <2>1
    <3>2. task'[lock[j][i]] = task[lock[j][i]]
      BY <1>5, <1>6, <2>1
    <3>3. QED
      BY <2>1, <3>1, <3>2 DEF PoolInv, QueuedIsInside
  <2>2. CASE i \notin DOMAIN lock[j]
    <3>1. j = k /\ i = Len(lock[k]) + 1
      BY <1>2, <1>4, <2>2
    <3>2. QED
      BY <1>4, <1>5, <3>1
  <2>3. QED
    BY <2>1, <2>2
<1>10. InsideIsQueued'
  <2> SUFFICES ASSUME NEW u \in Task, task'[u].at # "idle"
               PROVE  \E i \in DOMAIN lock'[task'[u].key] : lock'[task'[u].key][i] = u
    BY DEF InsideIsQueued
  <2>1. CASE u = t
    <3>1. Len(lock[k]) + 1 \in DOMAIN lock'[k]
      BY <1>2, <1>4
    <3>2. QED
      BY <1>4, <1>5, <2>1, <3>1
  <2>2. CASE u # t
    <3>1. task'[u] = task[u] /\ task[u].key \in Key
      BY <1>1, <1>5, <2>2, TaskShapes
    <3>2. PICK y \in DOMAIN lock[task[u].key] : lock[task[u].key][y] = u
      BY <3>1 DEF PoolInv, InsideIsQueued
    <3>3. y \in DOMAIN lock'[task[u].key] /\ lock'[task[u].key][y] = u
      <4>1. CASE task[u].key = k
        BY <1>2, <1>4, <3>2, <4>1
      <4>2. CASE task[u].key # k
        <5>1. lock'[task[u].key] = lock[task[u].key]
          BY <1>4, <3>1, <4>2
        <5>2. QED
          BY <3>2, <5>1
      <4>3. QED
        BY <4>1, <4>2
    <3>4. QED
      BY <3>1, <3>3
  <2>3. QED
    BY <2>1, <2>2
<1>11. ASSUME NEW u \in Task, task'[u].at = "starting"
       PROVE  /\ u # t /\ task'[u] = task[u] /\ task[u].at = "starting"
              /\ task[u].key \in Key
  BY <1>1, <1>5, <1>11, TaskShapes
<1>12. StartingHolds'
  <2> SUFFICES ASSUME NEW u \in Task, task'[u].at = "starting"
               PROVE  /\ lock'[task'[u].key] # <<>>
                      /\ lock'[task'[u].key][1] = u
                      /\ clients'[task'[u].key] = NULL
    BY DEF StartingHolds, IsStarting
  <2>1. /\ lock[task[u].key] # <<>> /\ lock[task[u].key][1] = u
        /\ clients[task[u].key] = NULL
    BY <1>11 DEF PoolInv, StartingHolds, IsStarting
  <2>2. lock'[task[u].key] # <<>> /\ lock'[task[u].key][1] = u
    <3>1. 1 \in DOMAIN lock[k] /\ 1 \in DOMAIN lock'[k]
      BY <1>2, <1>3, <1>4
    <3>2. QED
      BY <1>4, <1>11, <2>1, <3>1
  <2>3. QED
    BY <1>5, <1>11, <2>1, <2>2
<1>13. StartedIsFresh'
  BY <1>5, <1>11 DEF PoolInv, StartedIsFresh, IsStarting
<1>14. QED
  BY <1>7, <1>8, <1>9, <1>10, <1>12, <1>13 DEF PoolInv

(* The head of the queue begins a start, of a client nobody else has. *)
LEMMA StartingStep ==
    ASSUME PoolInv, NEW t \in Task, NEW k \in Key, NEW c \in Unused,
           task' = [task EXCEPT ![t] = Starting(k, c)],
           clients[k] = NULL, clients' = clients, ~ IsStarting(t),
           \/ task[t] = Idle /\ lock[k] = <<>> /\ lock' = [lock EXCEPT ![k] = <<t>>]
           \/ Woken(t, k) /\ lock' = lock
    PROVE  /\ lock' \in [Key -> Seq(Task)] /\ task' \in [Task -> TaskState]
           /\ QueuedOnce' /\ QueuedIsInside' /\ InsideIsQueued'
           /\ StartingHolds' /\ StartedIsFresh'
<1>1. /\ lock \in [Key -> Seq(Task)] /\ task \in [Task -> TaskState]
      /\ clients \in [Key -> Client \cup {NULL}]
  BY DEF PoolInv, TypeOK
<1>2. /\ c \in Client /\ \A j \in Key : clients[j] # c
      /\ \A u \in Task : task[u].making # c
  BY UnusedIsFresh DEF PoolInv
<1>3. /\ task' \in [Task -> TaskState]
      /\ task'[t].at = "starting" /\ task'[t].key = k /\ task'[t].making = c
      /\ \A u \in Task : u # t => task'[u] = task[u]
  BY <1>1, <1>2, TaskShapes
<1>4. \A j \in Key : /\ \A i \in DOMAIN lock[j] : lock[j][i] \in Task
                     /\ lock[j] # <<>> => 1 \in DOMAIN lock[j] /\ Head(lock[j]) = lock[j][1]
                     /\ \A i \in DOMAIN lock[j] : i >= 1
  BY <1>1, ElementOfSeq, LenProperties, EmptySeq
<1>5. /\ lock' \in [Key -> Seq(Task)]
      /\ \A j \in Key : j # k => lock'[j] = lock[j]
      /\ 1 \in DOMAIN lock'[k] /\ lock'[k][1] = t /\ lock'[k] # <<>>
      /\ lock'[k] = lock[k] \/ (lock[k] = <<>> /\ DOMAIN lock'[k] = {1})
  <2>1. CASE lock[k] = <<>> /\ lock' = [lock EXCEPT ![k] = <<t>>]
    <3>1. <<t>> \in Seq(Task) /\ DOMAIN <<t>> = {1} /\ <<t>>[1] = t
      OBVIOUS
    <3>2. QED
      BY <1>1, <2>1, <3>1
  <2>2. CASE Woken(t, k) /\ lock' = lock
    BY <1>1, <1>4, <2>2 DEF Woken
  <2>3. QED
    BY <2>1, <2>2
<1>6. \A j \in Key : \A i \in DOMAIN lock[j] :
         lock[j][i] = t => j = k /\ i = 1 /\ task[t] = Waiting(k)
  <2>1. CASE task[t] = Idle
    BY <2>1, TaskShapes DEF PoolInv, QueuedIsInside
  <2>2. CASE Woken(t, k)
    BY <1>4, <2>2, TaskShapes DEF PoolInv, QueuedIsInside, QueuedOnce, Woken
  <2>3. QED
    BY <2>1, <2>2
<1>7. ASSUME NEW u \in Task, u # t, task[u].at = "starting"
      PROVE  task[u].key # k /\ task[u].key \in Key
  BY <1>1, <1>4, <1>7, TaskShapes DEF PoolInv, StartingHolds, IsStarting, Woken
<1>8. QueuedOnce'
  <2>1. \A j \in Key : lock'[j] = lock[j] \/ DOMAIN lock'[j] = {1}
    BY <1>5
  <2>2. QED
    BY <2>1 DEF PoolInv, QueuedOnce
<1>9. QueuedIsInside'
  <2> SUFFICES ASSUME NEW j \in Key, NEW i \in DOMAIN lock'[j]
               PROVE  /\ task'[lock'[j][i]].at # "idle"
                      /\ task'[lock'[j][i]].key = j
                      /\ i > 1 => task'[lock'[j][i]].at = "waiting"
    BY DEF QueuedIsInside
  <2>1. CASE lock'[j] # lock[j]
    BY <1>3, <1>5, <2>1
  <2>2. CASE lock'[j] = lock[j]
    <3>1. CASE lock[j][i] = t
      BY <1>3, <1>6, <2>2, <3>1
    <3>2. CASE lock[j][i] # t
      <4>1. task'[lock[j][i]] = task[lock[j][i]] /\ i \in DOMAIN lock[j]
        BY <1>3, <1>4, <2>2, <3>2
      <4>2. QED
        BY <2>2, <4>1 DEF PoolInv, QueuedIsInside
    <3>3. QED
      BY <3>1, <3>2
  <2>3. QED
    BY <2>1, <2>2
<1>10. InsideIsQueued'
  <2> SUFFICES ASSUME NEW u \in Task, task'[u].at # "idle"
               PROVE  \E i \in DOMAIN lock'[task'[u].key] : lock'[task'[u].key][i] = u
    BY DEF InsideIsQueued
  <2>1. CASE u = t
    BY <1>3, <1>5, <2>1
  <2>2. CASE u # t
    <3>1. task'[u] = task[u] /\ task[u].key \in Key
      BY <1>1, <1>3, <2>2, TaskShapes
    <3>2. PICK y \in DOMAIN lock[task[u].key] : lock[task[u].key][y] = u
      BY <3>1 DEF PoolInv, InsideIsQueued
    <3>3. lock'[task[u].key] = lock[task[u].key]
      BY <1>5, <3>1, <3>2
    <3>4. QED
      BY <3>1, <3>2, <3>3
  <2>3. QED
    BY <2>1, <2>2
<1>11. StartingHolds'
  <2> SUFFICES ASSUME NEW u \in Task, task'[u].at = "starting"
               PROVE  /\ lock'[task'[u].key] # <<>>
                      /\ lock'[task'[u].key][1] = u
                      /\ clients'[task'[u].key] = NULL
    BY DEF StartingHolds, IsStarting
  <2>1. CASE u = t
    BY <1>3, <1>5, <2>1
  <2>2. CASE u # t
    <3>1. task'[u] = task[u]
      BY <1>3, <2>2
    <3>2. task[u].key # k /\ task[u].key \in Key
      BY <1>7, <2>2, <3>1
    <3>3. lock'[task[u].key] = lock[task[u].key]
      BY <1>5, <3>2
    <3>4. QED
      BY <3>1, <3>3 DEF PoolInv, StartingHolds, IsStarting
  <2>3. QED
    BY <2>1, <2>2
<1>12. StartedIsFresh'
  BY <1>2, <1>3 DEF PoolInv, StartedIsFresh, IsStarting
<1>13. QED
  BY <1>3, <1>5, <1>8, <1>9, <1>10, <1>11, <1>12

-----------------------------------------------------------------------------
(* The invariant *)

(* An empty pool: no queue, no task inside get. *)
LEMMA InitInv == Init => PoolInv
<1> SUFFICES ASSUME Init
             PROVE  PoolInv
  OBVIOUS
<1>1. \A t \in Task : task[t] = Idle /\ task[t].at = "idle"
  BY TaskShapes DEF Init
<1>2. \A k \in Key : lock[k] = <<>> /\ DOMAIN lock[k] = {}
  BY DEF Init
<1>3. TypeOK
  BY TaskShapes, EmptySeq DEF Init, TypeOK
<1>4. QED
  BY <1>1, <1>2, <1>3 DEF PoolInv, QueuedOnce, QueuedIsInside, InsideIsQueued,
                          StartingHolds, StartedIsFresh, IsStarting

(* Every step of get, of the tasks that run it and of close_all keeps it. *)
LEMMA InvStep == PoolInv /\ [Next]_vars => PoolInv'
<1> SUFFICES ASSUME PoolInv, [Next]_vars
             PROVE  PoolInv'
  OBVIOUS
<1> USE DEF Return
<1>1. TypeOK
  BY DEF PoolInv
<1>2. ASSUME NEW t \in Task, NEW k \in Key, GetHit(t, k)
      PROVE  PoolInv'
  <2>1. task' = task
    BY <1>1, <1>2 DEF GetHit, TypeOK
  <2>2. TypeOK'
    BY <1>1, <1>2, <2>1 DEF GetHit, TypeOK
  <2>3. QED
    BY <1>2, <2>1, <2>2 DEF GetHit, PoolInv, QueuedOnce, QueuedIsInside, InsideIsQueued,
                            StartingHolds, StartedIsFresh, IsStarting
<1>3. ASSUME NEW t \in Task, NEW k \in Key, GetMiss(t, k)
      PROVE  PoolInv'
  <2>1. PICK c \in Unused : task' = [task EXCEPT ![t] = Starting(k, c)]
    BY <1>3 DEF GetMiss
  <2>2. ~ IsStarting(t)
    BY <1>3, TaskShapes DEF GetMiss, IsStarting
  <2>3. /\ lock' \in [Key -> Seq(Task)] /\ task' \in [Task -> TaskState]
        /\ QueuedOnce' /\ QueuedIsInside' /\ InsideIsQueued'
        /\ StartingHolds' /\ StartedIsFresh'
    BY <1>3, <2>1, <2>2, StartingStep DEF GetMiss
  <2>4. TypeOK'
    BY <1>1, <1>3, <2>3 DEF GetMiss, TypeOK
  <2>5. QED
    BY <2>3, <2>4 DEF PoolInv
<1>4. ASSUME NEW t \in Task, NEW k \in Key, GetWait(t, k)
      PROVE  PoolInv'
  BY <1>4, WaitingStep
<1>5. ASSUME NEW t \in Task, NEW k \in Key, WakeMiss(t, k)
      PROVE  PoolInv'
  <2>1. PICK c \in Unused : task' = [task EXCEPT ![t] = Starting(k, c)]
    BY <1>5 DEF WakeMiss
  <2>2. ~ IsStarting(t)
    BY <1>5, TaskShapes DEF WakeMiss, Woken, IsStarting
  <2>3. /\ lock' \in [Key -> Seq(Task)] /\ task' \in [Task -> TaskState]
        /\ QueuedOnce' /\ QueuedIsInside' /\ InsideIsQueued'
        /\ StartingHolds' /\ StartedIsFresh'
    BY <1>5, <2>1, <2>2, StartingStep DEF WakeMiss
  <2>4. TypeOK'
    BY <1>1, <1>5, <2>3 DEF WakeMiss, TypeOK
  <2>5. QED
    BY <2>3, <2>4 DEF PoolInv
<1>6. ASSUME NEW t \in Task, NEW k \in Key,
             WakeHit(t, k) \/ Started(t, k) \/ StartFails(t, k) \/ CancelWaiting(t, k)
      PROVE  PoolInv'
  <2>1. /\ task[t].at # "idle" /\ task[t].key = k
        /\ IsStarting(t) => task[t].making \in Client
    BY <1>1, <1>6, TaskShapes
       DEF WakeHit, Woken, Started, StartFails, CancelWaiting, IsStarting, TypeOK
  <2>2. Leave(t, k) /\ task' = [task EXCEPT ![t] = Idle]
    BY <1>6 DEF WakeHit, Started, StartFails, CancelWaiting
  <2>3. \/ clients' = clients
        \/ IsStarting(t) /\ clients' = [clients EXCEPT ![k] = task[t].making]
    BY <1>6 DEF WakeHit, Started, StartFails, CancelWaiting, IsStarting
  <2>4. /\ lock' \in [Key -> Seq(Task)]
        /\ QueuedOnce' /\ QueuedIsInside' /\ InsideIsQueued'
        /\ StartingHolds' /\ StartedIsFresh'
    BY <2>1, <2>2, <2>3, LeavingStep
  <2>5. task' \in [Task -> TaskState] /\ clients' \in [Key -> Client \cup {NULL}]
    BY <1>1, <2>1, <2>2, <2>3, TaskShapes DEF TypeOK
  <2>6. answer' \in [Task -> Client \cup {NULL, FAILED}]
    BY <1>1, <1>6, <2>1 DEF WakeHit, Started, StartFails, CancelWaiting, IsStarting, TypeOK
  <2>7. lost' \subseteq Client /\ closed' = closed /\ running' = running
    BY <1>1, <1>6, <2>1 DEF WakeHit, Started, StartFails, CancelWaiting, IsStarting, TypeOK
  <2>8. TypeOK'
    BY <1>1, <2>4, <2>5, <2>6, <2>7 DEF TypeOK
  <2>9. QED
    BY <2>4, <2>8 DEF PoolInv
<1>7. CASE CloseAll
  <2>1. \A t \in Task : task'[t].at = "idle"
    BY <1>7, TaskShapes DEF CloseAll
  <2>2. TypeOK'
    BY <1>1, <1>7 DEF CloseAll, TypeOK, Cached
  <2>3. QED
    BY <1>7, <2>1, <2>2 DEF CloseAll, PoolInv, QueuedOnce, QueuedIsInside, InsideIsQueued,
                            StartingHolds, StartedIsFresh, IsStarting
<1>8. CASE UNCHANGED vars
  BY <1>8 DEF vars, PoolInv, TypeOK, QueuedOnce, QueuedIsInside, InsideIsQueued,
              StartingHolds, StartedIsFresh, IsStarting
<1>9. QED
  BY <1>2, <1>3, <1>4, <1>5, <1>6, <1>7, <1>8 DEF Next, Proceed

(* The invariant holds in every reachable state. *)
LEMMA InvHolds == Spec => []PoolInv
BY InitInv, InvStep, PTL DEF Spec

(***************************************************************************)
(* No thundering herd: however many tasks ask for a key at once, at most   *)
(* one of them is loading its markets.                                     *)
(***************************************************************************)
THEOREM StartsOnce == Spec => []OneStartPerKey
<1>1. PoolInv => OneStartPerKey
  BY DEF PoolInv, StartingHolds, IsStarting, OneStartPerKey
<1>2. QED
  BY <1>1, InvHolds, PTL

(***************************************************************************)
(* The lock of a key is only ever queued for by tasks inside get for that  *)
(* key, and no one but its holder starts a client.                         *)
(***************************************************************************)
THEOREM LockStaysLive == Spec => []LockIsLive
<1>1. PoolInv => LockIsLive
  BY DEF PoolInv, QueuedIsInside, LockIsLive
<1>2. QED
  BY <1>1, InvHolds, PTL

(***************************************************************************)
(* Whoever is inside get has its place in the queue of its key: no failed, *)
(* cancelled or finished start takes the place of another task with it.    *)
(***************************************************************************)
THEOREM NoOneForgotten == Spec => []InsideIsQueued
<1>1. PoolInv => InsideIsQueued
  BY DEF PoolInv
<1>2. QED
  BY <1>1, InvHolds, PTL

-----------------------------------------------------------------------------
(* The pool implements the registry *)

(***************************************************************************)
(* Each step of get is the registry's: a hit reads the cell, a miss or a   *)
(* wait is a call under way, a finished start fills the cell with a client *)
(* no other key has, and a failed or cancelled one answers FAILED.  Taking *)
(* the lock over without an answer is not seen.                            *)
(***************************************************************************)
LEMMA RegistryStep ==
    PoolInv /\ [Next]_vars => [Registry!Next]_<<clients, answer>>
<1> SUFFICES ASSUME PoolInv, [Next]_vars
             PROVE  [Registry!Next]_<<clients, answer>>
  OBVIOUS
<1> USE DEF Return
<1>1. ASSUME NEW t \in Task, NEW k \in Key, GetHit(t, k) \/ WakeHit(t, k)
      PROVE  Registry!Read(t, k)
  BY <1>1 DEF GetHit, WakeHit, Registry!Read
<1>2. ASSUME NEW t \in Task, NEW k \in Key, GetMiss(t, k) \/ GetWait(t, k)
      PROVE  Registry!Call(t)
  BY <1>2 DEF GetMiss, GetWait, Registry!Call
<1>3. ASSUME NEW t \in Task, NEW k \in Key, WakeMiss(t, k)
      PROVE  UNCHANGED <<clients, answer>>
  BY <1>3 DEF WakeMiss
<1>4. ASSUME NEW t \in Task, NEW k \in Key, Started(t, k)
      PROVE  \E c \in Client : Registry!Fill(t, k, c)
  <2>1. /\ task[t].making \in Client
        /\ clients[k] = NULL
        /\ \A j \in Key : clients[j] # task[t].making
    BY <1>4, TaskShapes
       DEF Started, PoolInv, TypeOK, StartingHolds, StartedIsFresh, IsStarting
  <2>2. Registry!Fill(t, k, task[t].making)
    BY <1>4, <2>1 DEF Started, Registry!Fill
  <2>3. QED
    BY <2>1, <2>2
<1>5. ASSUME NEW t \in Task, NEW k \in Key, StartFails(t, k) \/ CancelWaiting(t, k)
      PROVE  Registry!Fail(t)
  BY <1>5 DEF StartFails, CancelWaiting, Registry!Fail
<1>6. CASE CloseAll
  BY <1>6 DEF CloseAll, Registry!Shutdown, Registry!Next
<1>7. CASE UNCHANGED vars
  BY <1>7 DEF vars
<1>8. QED
  BY <1>1, <1>2, <1>3, <1>4, <1>5, <1>6, <1>7 DEF Next, Proceed, Registry!Next

(***************************************************************************)
(* The locks, the waiters and the failed starts of the pool are invisible: *)
(* per key the first client that starts is what every later call gets.     *)
(***************************************************************************)
THEOREM PoolImplementsRegistry == Spec => ImplementsRegistry
<1>1. Init => Registry!Init
  BY DEF Init, Registry!Init
<1>2. QED
  BY <1>1, InvHolds, RegistryStep, PTL DEF Spec, ImplementsRegistry, Registry!Spec
=============================================================================

------------------------------ MODULE Latches -------------------------------
(***************************************************************************)
(* Who takes which latch while holding which: the pthread mutexes of       *)
(* lock.c, store.c, tasks.c and net.c.                                     *)
(*                                                                         *)
(* A call is the sequence in which it takes and drops latches.  What it    *)
(* does in between is the matter of the other modules: here a call may     *)
(* take every path through its latches at any time.  A wait on a condition *)
(* variable drops the latch and takes it again.  A thread that holds a     *)
(* latch over several calls, as a worker does with the task queue's over   *)
(* the whole of vm_init(), is here one that does any one of them: which    *)
(* call it waits in is all that matters to those that wait for it.         *)
(***************************************************************************)
EXTENDS Naturals, FiniteSets, Sequences

CONSTANTS
  Workers,      \* threads running tasks_thread_func()
  Net,          \* the thread running net_thread_func()
  Locks,        \* the latches of the objects' locks
  Sockets,      \* socket_latch of the sockets
  Inversions    \* which of the known inversions the program may run into

\* deadlock_latch, cache_latch, ids_latch, queue_latch of tasks.c and of net.c
Global == {"deadlock", "cache", "ids", "tasks", "net"}

ASSUME LatchesAssumption ==
  /\ Net \notin Workers
  /\ Locks \cap Sockets = {}
  /\ (Locks \cup Sockets) \cap Global = {}
  /\ Inversions \subseteq {"mark", "free", "listen"}

Latch == Locks \cup Sockets \cup Global
Threads == Workers \cup {Net}

VARIABLES
  owner,    \* the thread that holds each latch: at most one
  rest      \* what is left of each thread's call

latchVars == <<owner, rest>>

-----------------------------------------------------------------------------

Take(x) == [op |-> "take", latch |-> x]
Drop(x) == [op |-> "drop", latch |-> x]

\* x is taken, `inner' is done, x is dropped
Hold(x, inner) == <<Take(x)>> \o inner \o <<Drop(x)>>
Touch(x) == Hold(x, << >>)

\* x is taken, `before' is done, pthread_cond_wait() drops x and takes it again
HoldAndWait(x, before) == Hold(x, before \o <<Drop(x), Take(x)>>)

\* The latches that case E may take under the deadlock latch: none, or that
\* of the lock whose queue the victim is in.
Marking(l) ==
  {<< >>} \cup (IF "mark" \in Inversions THEN {Touch(k) : k \in Locks \ {l}} ELSE {})

\* lock_lock(): at once, after a wait, or by way of the deadlock detector
LockLock(l) ==
  {Touch(l), HoldAndWait(l, << >>)}
    \cup {Hold(l, Hold("deadlock", m)) : m \in Marking(l)}
    \cup {HoldAndWait(l, Hold("deadlock", m)) : m \in Marking(l)}

\* Mutant: the deadlock latch is taken before the lock's.
LockUnlockDetectorFirst(l) == {Touch(l), Hold("deadlock", Touch(l))}

LockUnlock(l) == {Touch(l), Hold(l, Touch("deadlock"))}

GetObject(l) == {Touch("cache") \o c : c \in LockLock(l)}
MakeObject(l) == Hold("cache", Touch(l))
FinishTx(l) == {Hold("cache", u) \o Touch("ids") : u \in LockUnlock(l)}
StartTx == Touch("ids")

NetEnqueue == Touch("net")

\* net_socket_free(), which queues a work item when the reference is the last
SocketFree(s) ==
  {Touch(s)} \cup (IF "free" \in Inversions THEN {Hold(s, NetEnqueue)} ELSE {})

\* What a task does to get hold of its first object, under the queue's latch.
Begin == {StartTx} \cup (UNION {GetObject(l) : l \in Locks})

\* What a task can go on to do.
Work ==
  Begin \cup {NetEnqueue}
        \cup (UNION {LockLock(l) \cup FinishTx(l) \cup {MakeObject(l)} : l \in Locks})

\* The INIT task does everything under the queue's latch; it knows no socket.
WorkerCalls ==
  Work \cup {Hold("tasks", c) : c \in Work}
       \cup {HoldAndWait("tasks", << >>)}
       \cup (UNION {SocketFree(s) : s \in Sockets})

\* tasks_enqueue_item(), as called back by the network thread
TasksEnqueue == Touch("tasks")

\* queue_event_callback() with one work item: one that takes no other latch,
\* a write, or a listener that cannot be made.
QueueEvent ==
  {Touch("net")} \cup {Hold("net", Touch(s)) : s \in Sockets}
    \cup (IF "listen" \in Inversions THEN {Hold("net", TasksEnqueue)} ELSE {})

NetCalls ==
  QueueEvent \cup {TasksEnqueue \o NetEnqueue} \cup {Touch(s) : s \in Sockets}

Calls(t) == IF t = Net THEN NetCalls ELSE WorkerCalls

-----------------------------------------------------------------------------

LatchesInit ==
  /\ owner = [x \in Latch |-> {}]
  /\ rest = [t \in Threads |-> << >>]

Call(t) ==
  /\ rest[t] = << >>
  /\ \E c \in Calls(t) : rest' = [rest EXCEPT ![t] = c]
  /\ UNCHANGED owner

\* pthread_mutex_lock(); taking a latch twice never succeeds
TakeLatch(t) ==
  /\ rest[t] # << >>
  /\ Head(rest[t]).op = "take"
  /\ owner[Head(rest[t]).latch] = {}
  /\ owner' = [owner EXCEPT ![Head(rest[t]).latch] = {t}]
  /\ rest' = [rest EXCEPT ![t] = Tail(@)]

DropLatch(t) ==
  /\ rest[t] # << >>
  /\ Head(rest[t]).op = "drop"
  /\ owner' = [owner EXCEPT ![Head(rest[t]).latch] = {}]
  /\ rest' = [rest EXCEPT ![t] = Tail(@)]

LatchesNext == \E t \in Threads : Call(t) \/ TakeLatch(t) \/ DropLatch(t)

LatchesSpec == LatchesInit /\ [][LatchesNext]_latchVars

-----------------------------------------------------------------------------

\* u holds the latch that t wants next
BlockedBy(t, u) ==
  /\ rest[t] # << >>
  /\ Head(rest[t]).op = "take"
  /\ u \in owner[Head(rest[t]).latch]

\* "it is safe to lock another's lock latch while holding this one"
\* (lock.c:273); "calls into this module can be done by other threads safely"
\* (net.h:13): no threads wait for each other's latches for ever.
NoLatchDeadlock ==
  \A D \in (SUBSET Threads) \ {{}} : \E t \in D : \A u \in D : ~BlockedBy(t, u)

=============================================================================

# Verification of the CMOO server

CMOO is a small multi-user object server in C: a network thread reads lines
from sockets, a pool of worker threads turns them into tasks, and every task
runs a method of an object in a transaction over a store of locked objects.
This directory holds TLA+ models of its concurrent core, the instances that TLC
checks, and proofs for TLAPS. Paths such as `lock.c` are short for
`src/src/lock.c`.

What the checks come to, in short:

- The lock keeps what it promises about *exclusion* and *fairness* (nobody
  overtakes a sleeper, no sleeper is missing in the chain, and none is left
  asleep once its way is free): it implements an abstract fair readers-writer
  lock, for any number of transactions and locks (proved), as long as the
  program has not run into one of its memory faults.
- The store over it keeps *stable reads*: what a transaction has read does not
  change until it lets go, and it leaves nothing in any lock behind (proved).
  With two concurrent transactions every transaction ends (checked).
- From `net_socket_write()` on, output is neither lost, doubled nor reordered on
  its way to the client, while the connection lasts (a refinement, proved), and
  goes to no other client. It is sent at most once however often its task is retried
  (proved). Before that call, a network transaction of three operations loses
  one (section 4).
- Sockets are freed only when all references have been given up, and the
  server's faults go back to the causes of section 4 and no others (proved).
- Calls and returns of the evaluator keep what belongs to the callers, and the
  reference counts of strings are exact (proved), with one task at a time: tasks
  that count the same string at once are not modelled (section 4).
- The deadlock detector's search faults out the youngest of a cycle, misses no
  cycle of the graph it is given, and never returns only in a graph that has
  another cycle (proved). What goes wrong below is with the graph.
- But for three inversions, the latches of all files are taken in one order, so
  no threads can wait for each other for ever (proved).
- The *deadlock detector* does not detect all deadlocks of three transactions,
  breaks some that are none, and has reachable faults. Three places nest latches
  in opposite order. A transaction faulted out at the wrong moment ends the
  program. Two messages of a client can be answered in the wrong order. A
  shutdown while clients are active reads freed memory. Section 4 has the list.

## 1. The system

| part | files | state | operations |
|---|---|---|---|
| deadlock detector | `lock.c` 69-109 | the wait-for-graph, a matrix of bools over cids; `tx_by_cid`, `blocked_waitgroup_by_cid`, `blocked_lock_by_cid` | `wfg_dfs()` |
| object lock | `lock.c`, `lock.h` | per lock a chain of wait groups, the first one holding the lock; pointers to both ends | `lock_new`, `lock_lock`, `lock_unlock`, `lock_free` |
| store | `store.c`, `lobject.c` | cids in use, `sid_seq`, ids of objects; per transaction the list of locked objects | `store_start_tx`, `store_get_object`, `store_make_object`, `store_finish_tx` |
| cache | `cache.c` | hash chains, a list by recency of use, a pin per object | `cache_get_object`, `cache_put_object`, `cache_release_object`, eviction |
| persistence | `persist.c` | none: a stub that builds the objects 0, 1 and 2 in memory | `persist_get`, `persist_put` |
| object, types | `object.c`, `types.c` | parents, methods and globals; reference-counted values | accessors, `obj_copy` |
| evaluator | `eval.c` | registers, frames, call stack of one task | the opcodes; method lookup through the parents |
| VM entry points | `vm.c` | a transaction and its first object | `vm_init`, `vm_get_eval_ctx`, `vm_eval_ctx_exec`, `vm_free_eval_ctx` |
| task queue and workers | `tasks.c` | FIFO of items, `task_id_seq`, `stop_flag` | `tasks_enqueue_item`, the worker's loop, `tasks_start`, `tasks_stop` |
| network thread | `net.c` | FIFO of work items, open sockets with buffers and a reference count | the event callbacks, `net_make_listener`, `net_socket_write`, `_close`, `_free` |
| network transactions | `ntx.c` | a list of operations put off until commit | `ntx_socket_write`, `_close`, commit, rollback |
| main program | `main.c` | - | wires the parts together |
| sample compiler | `ccsample/` | - | stand-alone, sequential, not linked into the server |

**How they interact.** The network thread calls back into `tasks.c`, which
queues an item under the task queue's latch. A worker takes it off, and *with
that latch held* gets an evaluation context: it starts a transaction and gets,
that is locks, the first object. The latch is dropped and the method runs. Each
object that a method is looked up in or called on is got, hence locked shared;
`OP_SETGLOBAL` upgrades the lock; `OP_MAKE_OBJ` makes an object, locked
exclusively. When the method ends or is refused an upgrade, `store_finish_tx()`
unlocks everything, one object after the other, under the cache's latch. A
result other than `EVAL_OK` makes the worker try again from the start, without
the queue's latch and with a new sid. Writes to sockets go through a network
transaction, which queues work items for the network thread and wakes it.

**What is hard about it.** Fairness, upgrades and joining of groups all rewrite
the same chain, and a sleeper may have to be taken out of its middle. The graph
of the detector is global over all locks, while a section of the lock's code
runs under the latch of one. Identities (cids) are reused. Latches nest across
files and threads, also through callbacks. Nothing is rolled back. Most of this
needs three or more threads in one particular order. The unit tests
(`test/check_rwlock.c`) play single schedules, most of two threads: one has
three threads on one lock (`test_rwlock_05`), two have two locks
(`test_deadlock_01`, `test_deadlock_02`), none has both.

**What makes each part correct.**

- *Detector*: the victim is the youngest of a cycle; no cycle is missed.
- *Lock*: holders exclude each other; no request is overtaken; each sleeper is
  in the chain and is woken; a deadlock has a victim; only a deadlock has one.
- *Store*: a cid belongs to one transaction; reads are stable up to the end;
  nothing remains of a finished transaction; each transaction ends; a refused
  lock means another attempt.
- *Latches*: no cycle of threads that wait for each other's latches.
- *Cache*: one entry, hence one lock, per object id; what is pinned stays.
- *Tasks*: each item is taken and its output sent once, in order per socket;
  stopping terminates.
- *Network*: a socket is freed once, after its last use, and not forgotten;
  output leaves in order, for the client it is meant for; the write watcher is
  active if and only if there is something to write.
- *Network transactions*: commit plays every operation in order, rollback none.
- *Object, types, evaluator*: counts are exact; a call leaves the caller's
  registers alone and its return finds the frame, the address and the object.

## 2. The modules

```
WaitForGraph ── MCWaitForGraph          Net    Ntx
     │               └─ DetectorProofs   └──┬──┘
   Lock ──── LockClients ── MCLock        Tasks    Outbox
     │  │          │                        └──┬──┘
     │  ├─ LockLemmas ─ LockProofs          Server ── MCServer
     │  └─ FairLock │                          └───── ServerProofs
   Store ── MCStore │                                     └─ OutputProofs
     └───── StoreProofs                   Latches ── MCLatches
                                               └──── LatchesProofs
   Eval ── MCEval
     └──── EvalProofs
```

There are three models of the same program, each of one concern: what happens
to objects and their locks (Lock, Store), what happens to messages and sockets
(Server), what one task does to its stack and to values (Eval). They meet at
`vm_eval_ctx_exec()`: Store has it as a transaction and leaves out the code,
Eval has the code and leaves out the other transactions, Server has its result.
Latches looks at all of the files again, for the latches alone.

**WaitForGraph** is `wfg_dfs()`, as a recursive function. The matrix is the set
of its true cells. The C function has no visited set: it stops at the root or
when no successor is left. A path of more than `MaxTasks` frames visits a node
twice without having met the root, so it repeats itself for ever; the model
answers `overflow` there. The function takes the lowest cid that leads to an
answer, as the loop does; `WfgFrame` is one call, given what the calls that it
makes return. Reading the sid through a slot of `tx_by_cid` that was
never set, or whose transaction is freed, answers `stale`.

**Lock** is `lock_lock()` and `lock_unlock()`. An action is one section between
taking the lock's latch and giving it up, by returning or by waiting on the
condition variable of a group. The cases of the comments in `lock.c` appear as:

| source | action |
|---|---|
| case A, the lock is free | `LockFree` |
| case B, held in this or a higher mode | `LockCovered` |
| case C, join a shared group at the end | `LockJoin`; after the wait `WakeJoined` |
| case D, upgrade | `LockUpgradeNow`, `LockStale`, or else case E |
| case E, queue up; no cycle | `LockQueue` |
| case E, a victim elsewhere is marked | `LockQueueMark` |
| case E, the caller is the victim | `LockDeadlock` |
| after the wait of case E | `WakeGranted`, `WakeDeadlocked` |
| `lock_unlock()` | `LockUnlock`: `UnlockNotHeld`, `UnlockHeld` with `UpgradeNext` and `WfgUnblocked` |

State: `chain[l]` is the list of groups, each with its mode, its members
(`entries`), the cids whose `blocked_waitgroup_by_cid` points to it (`slots`)
and its `deadlocked` mark; `last[l]` says whether `last_wait_group` points to
the end of the chain or to freed memory; `wfg` the matrix; `txByCid` what each
slot points to; `waiting` the calls that sleep; `held` what callers were told.

`fault` is different from `none` once the program has read or written through a
bad pointer, or recurses for ever. No action is enabled after that: what the
build does then is not the model's matter, and every property is about the
program before it. The faults are *not* hidden by this; they are reachable, and
section 4 lists them.

**FairLock** is the abstract specification of the lock: "recursive, fair,
upgrading R/W lock" (`lock.h:4`). It knows who holds a lock and how (`held`),
who asks for it (`asked`), and whom each asker has to outwait (`ahead`). A
request is either covered by what the caller has, or goes past nobody it
conflicts with (`Take`), or else waits behind all of those (`Ask`); it is
granted when they have gone (`Grant`), and may be refused while they have not
(`Refuse`). There are no groups: that two readers wait together, or one behind
the other, is not its matter. Lock maps its sleeping calls to `asked` and whom
they have to outwait in the chain to `ahead` (`Asked`, `AheadOf`);
`ImplementsFairLock` says that each step of Lock is one of FairLock or a
stutter. That a deadlock is refused at all is the detector's matter, as are
reasons for a refusal.

A release gives up all that a transaction has, however often it asked for it:
the first `lock_unlock()` removes its entry, and so do `UnlockHeld` and FairLock's
`Release`. Whether that is intended the repository leaves open: TODO:23-24 doubts
it, and the disabled `test_rwlock_06` (`check_rwlock.c:453-514`) wants as many
unlocks as there were locks. The model follows `lock.c`.

**LockClients** lets `MaxTasks` transactions with fixed sids lock and unlock in
any way: the mock transactions of `test/check_rwlock.c`, all of them at once.

**Store** puts `store.c` on top of Lock, called as `vm.c`, `eval.c` and the retry
loop of `tasks.c` call it: `StartTx`, `GetObject`, `SetGlobal`, `MakeObject`,
`Resume` (the lock's wait ends and the call goes on), `FinishTx`, `UnlockNext`,
`ReleaseCache`, `FreeTx`. `Outcome` is what the caller makes of the lock's
result: an object, an abort (every caller of `store_get_object()` asserts the
result), a write, or `EVAL_RETRY_TX`. It belongs to the same step, since until
the next section of some lock a worker touches nothing others can see but
objects that its locks protect. The content of an object is one bit, `version`,
flipped by each write, and `seen` is what a transaction last knew of it. All
writes are by `OP_SETGLOBAL`. The first get of a task runs with the queue's
latch held; the model lets workers do so in any order, which only adds
behaviours.

**Latches** is about all latches of the program at once. A call is the sequence
in which it takes and drops latches; the calls are collected from every path of
`lock.c`, `store.c`, `vm.c`, `tasks.c` and `net.c`. The constant `Inversions`
names the paths that are known to nest against the order of all others:

- `mark`: marking a victim in another lock's queue takes that lock's latch
  inside the deadlock latch (`lock.c:277`);
- `free`: `net_socket_free()` on a worker queues a work item inside the
  socket's latch (`net.c:571`, 156, 136), the network thread takes a socket's
  latch inside the queue's (`net.c:398`);
- `listen`: a listener that cannot be made is reported to `tasks.c` inside the
  network queue's latch (`net.c:272`), while the INIT task runs `vm_init()`
  inside the task queue's.

`INIT` is the only task that takes the network queue's latch inside the task
queue's, once, at the start; that is why `listen` is a switch of its own.

**Net** is the network thread, `net.c`. State: `nqueue` with the pending wakeup
`async`; what the thread is doing (`npc`: in its loop, working off the queue
with the latch held, between the end of a connection and the release of its
reference, ended); per connection the `net_socket` in its `life`, its
descriptor, reference count, whether each watcher is active, its buffers and how
much of the first is written; and what each client was sent. An action is one
callback of the loop (`Accept`, `ReadData`, `ReadEof`, `WriteSome`,
`WriteBuffer`, `WriteFails`: a write may fail whoever has the descriptor by then),
one item of the queue (`HandleInit`,
`HandleWrite`, `HandleFree`, `HandleNewListener`, ...), or one access to a
reference count: `net_socket_dec_refcount()` runs with the socket's latch on
workers and without it on the network thread, so its load, its store and its
check are steps of their own. The kernel gives a new connection the lowest free
descriptor: one that a watcher of an ended connection may still be made for.

**Ntx** is `ntx.c`: the list of operations and the position `last` points to.
Only the first append moves it, so the third operation takes the second's place.

**Tasks** is `tasks.c`: queue with condition variable, the workers' loop, the
retries, the network transaction and its commit, and the part of the methods of
`persist.c` that talks to sockets. `Take` is everything under the queue's latch;
`EvalRead(w, n)` an evaluation that writes `n` times; `Send` one
`net_socket_write()` of `ntx_commit_tx()`; `Retry` a failed evaluation.

**Server** composes them as `main.c` does: the callbacks of net.c are joint steps
of Net and of the task queue (`Connect`, `Receive`, `HangUp`, `ListenFails`);
`StopTasks`, `FreeTasks`, `StopNet`, `FreeNet` are `main()`. It holds the
properties of the whole. `CallbackFreed` is any callback into `tasks.c` once the
task queue is freed, also the error callback of `make_listener()`. `fault` is what
freed memory the program has accessed; as in Lock, nothing happens after that.

Four history variables tell the known hazards from others: `late` is output that
was handed to a socket after its connection ended, `raced` the sockets whose two
decrements overlapped, `hasty` the connections whose `closed` task was taken
while another task was at work on them, `sent` what clients got.

**Outbox** is the abstract specification of output: per connection a queue that
takes what tasks write and gives it to the client in that order; only behind the
end of the connection may it drop the rest or hand it to somebody else.
`OutputInOrder` says that Server implements it, with `pending` mapped to the
socket's buffers followed by its WRITE items in the network thread's queue
(`WritesTo`).

**Eval** is `eval.c` with the values of `types.c` and the globals of `object.c`.
An action is an instruction with any operands inside the frame, so every program
of such instructions is covered and jumps need no model. State: the cells of the
stack with `sp` and `fp`, the current object, reference counts, globals and
parents. `frames` and `saved` are history: where frames begin and what the
caller had at the call. Immediate values are all one value; a comparison, say,
has either result. `StackSize` cells stand for the 1024 of `eval_new_ctx()`.
`Start`, `StartRead`, `Halt` and `RetryTx` are `vm_eval_ctx_exec()` for a task;
`NotFound` is the path of `eval_exec_method()` that has counted the arguments and
then finds no method: nothing gives them up again, and `lost` counts them like
those of a retry. `CountWraps` is the step that counts a string once too often,
as each instruction does it: MOV and SETGLOBAL give up the old value first.

## 3. The runs

| run | expects | shows |
|---|---|---|
| `wfg` | pass | on each graph of 4 transactions and each order of age: the victim is the youngest of a cycle through the root, no cycle is missed, and the search only hangs if there is a cycle that avoids the root |
| `lock_safety` | pass | 3 transactions, 2 locks: types, the inductive invariants `LockInv` and `ChainInv`, `Exclusion`, `SleepersQueued`, `NoOvertaking`; `FairInv`, `NoLostWakeup` and the refinement of FairLock |
| `lock_live` | pass | 3 transactions of every order of age, 1 lock: every wait ends |
| `store` | pass | 2 workers, 3 transactions, a persistent and a made object: cids, leftovers, stable reads, no silent deadlock and the inductive invariant `PairInv` behind it, termination |
| `latches` | pass | 3 workers, the network thread, 2 locks, 1 socket, no inversion: no latch deadlock |
| `server` | pass | 2 workers, 2 clients, 1 message, up to 2 writes of 2 parts: output in order (refinement of Outbox), the watcher has a buffer, nothing goes astray but late output, sockets are freed only when released, each fault has its reason |
| `server_live` | pass | 1 client, 2 messages, 1 retry: nothing is sent twice, tasks are taken, items handled, ended connections reclaimed, the stop flag ends what does not sleep |
| `eval` | pass | 2 strings, 2 objects, 1 global, a stack of 5 cells: exact counts, callers' registers kept, registers are values, return finds the caller |
| `lock_silent_deadlock` | violation | a deadlock of 3 transactions without a victim |
| `latches_inversions` | violation | the known inversions deadlock |
| `tasks_order` | violation | 2 messages of a client answered in the wrong order |
| `store_refused_get` | violation | a refused get ends the program |

**Bounds.** Three transactions are the fewest for the lock's hard cases: two
shared holders of which one upgrades behind the other, and a third that has
queued, joined or been marked in between. Two locks are the fewest for a
deadlock other than that of two upgrades, and for a victim in *another* lock's
queue. The store's `MaxSid = 3` lets one transaction of two be retried or
followed by a third under a reused cid, and `MaxLocked = 3` lets an object be
got twice besides another. Two workers are the real minimum for each of its
hazards; more are in reach of the proofs only. Four transactions in `wfg` are
the server's own `TASK_CONCURRENCY`. Four threads and two locks in `latches` let
each pair of nestings meet; a cycle of three latches (two locks, one global)
has its three threads. The ages of `lock_safety` follow the cids: the search
visits transactions by cid and compares them by age, and `lock_live` and `wfg`
try every order of age.

In `server`, two connections are needed for a descriptor that is given out
again, two writes (`MaxWrites`) for an order of output, two parts (`BufSize`)
for a buffer that is only partly written when the next event comes, and two
workers for a `closed` task that overtakes a `read` task. One message
(`MaxMsgs`) for both clients is enough for these; two messages, and a retry
(`MaxRetries`), are the business of `server_live`, which has one client for
that. With at most two writes per task the third operation of a network
transaction, which takes the second's place, does not occur: section 4 has that
case. In `eval`, five cells hold the three that CALL
overwrites and two registers of the callee, so a method can be called, push,
pop, return and be called again; the nesting of calls is left to the proof. `RefLimit = 3` lets a count meet its limit,
`MaxArgs` and `MaxLost` bound arguments and what abandoned stacks forget.

**Symmetry.** Locks are interchangeable (`MCLock`), so are workers and locks in
`MCLatches`, workers in `store_refused_get`, workers and connections in
`MCServer`, and in `MCEval` strings, names and all objects but the first.
Transactions are not: the search goes by cid. No run with a liveness property
uses symmetry.

**Deadlock check.** It is off where the program may stop (a fault, an abort, the
end of `main()`), where transactions may be deadlocked undetected (that is what
is being looked at), and where the bound on sids ends the run. `latches` keeps
it on: there a state with no step is a latch deadlock of all threads.

**Fairness.** `lock_live`: weak fairness of waking (each step that makes a wait's
condition true broadcasts to the group, and the operating system schedules the
thread) and of unlocking (a task ends). `store`: weak fairness of each worker's
continuation. That a method ends is assumed, since evaluation of arbitrary code
need not; that a worker gets the cache's latch follows, as a run has finitely
many transactions that want it. `StartTx` is not fair: nobody has to send a
message. `server_live`: weak fairness of the network thread's work on its queue
(libev calls back after `ev_async_send()`), of each release of a reference, and
of each worker's steps: the operating system schedules threads, and an
evaluation that can succeed does so, since the bound on retries is reached.
Clients, the readiness of descriptors and `main()` are not fair. A worker that
was not signalled is not woken: `Rest` has no step from `waiting`. Strong
fairness is nowhere needed.

**Mutants.** Operators whose comment starts with `Mutant:` or that a comment
calls a mutant stand beside the definition they vary, as a plausible mistake in
the code would: a guard that is dropped, a loop that starts at 1, a signal that
is not sent. `PROJECT.json` names, for each property of a passing run, one that
makes TLC find it violated.

## 4. What the code does otherwise than it says

Each of the first four has a run that shows it.

**The lock is not deadlock-detecting** (`lock.h:4-5`; run
`lock_silent_deadlock`). A request that joins a waiting group enters no edges
(`lock.c:195`), and one that queues only enters edges to the holders, not to
those queued in between. With two transactions the property holds (theorem
`LockTwoDetected`, run `store`).

**Latches are taken in opposite orders** (`lock.c:273-275`, `net.h:13-14`; run
`latches_inversions`). Marking a victim in another lock blocks for ever if the
owner of that lock's latch waits for the deadlock latch. A worker that gives up
the last reference to a socket and the network thread that carries out a write
to it block each other. So do the network thread with a listener it cannot make
and the worker in `vm_init()`.

**A refused get is not retried** (`eval.h:172-173`; run `store_refused_get`):
`vm.c:102`, `eval.c:100` and `eval.c:259` assert that `store_get_object()`
returns an object, but for a victim of a deadlock it returns NULL.

**Replies overtake each other without any retry** (`tasks.c:207-212`; run
`tasks_order`). The comment says the queue's latch is held until the context
exists so that two messages of a socket are not processed out of order. The lock
on the object is shared, and is given up at the end of the evaluation, before
`ntx_commit_tx()`; a second worker can pass the first in between.

Reachable with three transactions over two locks, as values of `fault` in Lock:
the assert at `lock.c:314` dereferences NULL when a victim has become
the first group before it wakes (`no_predecessor`); a victim at the end of the
chain is freed with `last_wait_group` still pointing to it (`freed_tail`,
`lock.c:316`, against the comment at 243); `wfg_dfs()` recurses for ever
(`endless_dfs`); a victim whose group others have joined is removed by a
`memmove()` of the wrong extent (`group_overwritten`, `lock.c:304`); slots of
finished transactions are read (`stale_tx`, `freed_group`). The write of a NULL
mark into the freed group (`lock.c:318`) is taken as harmless. The matrix is not
empty when all transactions are done, which the assert at `lock.c:132` expects
at shutdown: no cell is ever cleared, `lock_unlock()` adds edges to the
releasing transaction (`lock.c:401`), and old edges stay when a wait ends, even
when their cid is reused. So there are victims without a deadlock; they are
retried.

Reachable in Server, with the reasons that `FaultsExplained` and
`FreedWhenReleased` leave as the only ones:

- `socket`: a `closed` task overtakes a `read` task of its connection, gives up
  its reference, and the socket is gone when `read` commits (`tasks.c:273`) or
  when the network thread gets to its item (`net.c:396`).
- `watcher`: output that comes after the end of a connection starts the write
  watcher again (`net.c:396-408`), and `net_free_socket()` stops no watcher.
- `release`: a worker gives up the latch of a socket (`net.c:573`) that has been
  freed since the count went to zero.
- `listener`: `stop_listener` frees the listener with its watcher active; the
  next client makes the loop call back into freed memory.
- `tasks`: `main()` frees the task queue before it stops the network thread;
  what a client sends in between is enqueued in freed memory.

Two decrements of a reference count can overlap (`net.c:150`), then a socket is
never freed, or twice queued to be (the second FREE item finds it gone);
`EofReclaimed` excuses the first by `raced`. A write
error stops the watcher with the buffers in place, and no later write starts it
again. Late output goes to whoever has the descriptor now.

Seen while modelling, without a run:

- The third operation of a network transaction replaces the second
  (`ntx.c:106-108`, 122-124), while `ntx.h:23` promises to send on all buffered
  operations. `NtxAppend` does the same. The methods of `persist.c` write once.
- A LISTEN_ERROR task has no handler in any object (`persist.c`); its evaluation
  fails and is retried for ever, past the stop flag (`tasks.c:182`). A worker that
  sleeps at the queue is not woken for the flag (`tasks.c:159`), so `tasks_stop()`
  joins it for ever. `StopTakesEffect` says that every *other* worker ends: it
  excuses both, so it would catch neither.
- RETURN leaves `sp` one above the returned value (`eval.c:292`), where
  `eval.h:66-76` and `doc/development.tex` have it on the value itself. `Returned`
  does as the code does; the extra cell is nil.
- HALT in a called method clears a return address as if it were a value
  (`eval.c:167`); a retry frees the stack without giving up the strings on it,
  and so does a method that is not found (`eval.c:1018-1022`). The first is the
  fault `code`, the others are counted in `lost`.
- `stack_top` is computed in the wrong unit (`eval.c:64`) and never used: a full
  stack is overrun. This is the fault `stack`.
- LE and LT of strings of equal prefix ignore the lengths (`eval.c:590`), since
  the result of the comparison is assigned once more.
- A string that is a global is counted without a latch by every task that reads
  it under a shared lock (`types.c:76`). Eval has one task at a time and does
  not show this.

## 5. The proofs

TLAPS checks every step, for all values of the constants. The assumptions are
`MaxTasksAssumption` (there is a transaction), `AgesAssumption` (sids are
numbers), `StoreAssumption` (no more workers than cids, as in `main.c`),
`LatchesAssumption` (latches are different from each other), `NetAssumption`,
`TasksAssumption` and `EvalAssumption` (bounds are numbers, sets are finite; the
network thread is no worker, the values that stand for no connection and for no
string or object are none).

| theorem | says |
|---|---|
| `LockProofs!LockInvariant` | `LockInv` is an invariant of the lock |
| `LockProofs!LockTypeCorrect` | the lock's types |
| `LockProofs!LockExclusion` | an exclusive holder is alone |
| `LockProofs!ChainInvariant` | `ChainInv` is an invariant of the lock |
| `LockProofs!LockSleepersQueued` | the waiting groups hold exactly the sleepers |
| `LockProofs!LockNoOvertaking` | nobody gets ahead of a sleeping call |
| `LockProofs!LockFairInvariant` | `FairInv` is an invariant of the lock |
| `LockProofs!LockNoLostWakeup` | nobody sleeps on with nobody left to outwait |
| `LockProofs!LockImplementsFairLock` | Lock implements FairLock |
| `LockProofs!FairLockExcludes` | FairLock by itself promises exclusion |
| `LockProofs!LockPairInvariant` | with two transactions, `PairInv` is an invariant of the lock |
| `LockProofs!LockTwoDetected` | with two transactions, a deadlock has a marked victim |
| `StoreProofs!StoreInvariant` | `StoreInv` is an invariant of the store |
| `StoreProofs!StoreTypeCorrect` | the store's types |
| `StoreProofs!StoreCids` | no cid for two transactions |
| `StoreProofs!StoreExclusion` | exclusion under reused cids |
| `StoreProofs!StoreReadsStable` | reads are stable |
| `StoreProofs!StoreChainInvariant` | `StoreChainInv` is an invariant of the store |
| `StoreProofs!StoreNothingLeftBehind` | a finished transaction is in no chain |
| `StoreProofs!StoreFairInvariant` | `FairInv` is an invariant of the store |
| `StoreProofs!StoreNoLostWakeup` | no transaction sleeps on with nobody left to outwait |
| `StoreProofs!StoreImplementsFairLock` | the store's locks implement FairLock |
| `StoreProofs!StorePairInvariant` | with two cids, `PairInv` is an invariant of the store |
| `StoreProofs!StoreTwoDetected` | with two cids, a deadlock has a marked victim |
| `DetectorProofs!DetectorFaultsYoungest` | the victim is the youngest of a cycle through the root |
| `DetectorProofs!DetectorMissesNone` | where nothing is found, the root is on no cycle |
| `DetectorProofs!DetectorEndless` | the search hangs only if a cycle avoids the root |
| `LatchesProofs!LatchesNoDeadlock` | without the inversions, no latch deadlock |
| `ServerProofs!ServerInvariant` | `ServerInv` is an invariant of the server |
| `ServerProofs!ServerWatcherHasBuffer` | an active write watcher has a buffer |
| `ServerProofs!ServerStrayOutput` | only late output goes to another client |
| `ServerProofs!SocketInvariant` | `SocketInv` is an invariant of the server |
| `ServerProofs!ServerTypeCorrect` | the server's types |
| `ServerProofs!ServerFaultsExplained` | the faults have the causes of section 4 |
| `ServerProofs!ServerFreedWhenReleased` | a socket is freed when nobody has a reference or is about to give one up |
| `OutputProofs!RepliesInvariant` | `RepliesInv` is an invariant of the server |
| `OutputProofs!ServerRepliesOnce` | no output of a message is doubled, retries or not |
| `OutputProofs!ServerOutputInOrder` | Server implements Outbox |
| `EvalProofs!EvalInvariant` | `EvalInv` is an invariant of the evaluator |
| `EvalProofs!EvalCallersKept` | a method leaves its callers' registers alone |
| `EvalProofs!EvalRegistersAreValues` | no register is a return address |
| `EvalProofs!EvalCallerResumes` | a return gives the caller back its frame and object |
| `EvalProofs!CountInvariant` | `CountInv` is an invariant of the evaluator |
| `EvalProofs!EvalTypeCorrect` | the evaluator's types |
| `EvalProofs!EvalCountsExact` | a string's count is the number of its references |

**The lock's argument.** `Exclusion` speaks of `held`, what callers were told, and
is not inductive. Two parts make it so: `HolderInFirstGroup` (who was told so is
in the first group, and the group is exclusive if they were) and
`GroupsWellFormed` (an exclusive group has one member). A grant after a wait
needs `OwnGroup`: the group the sleeper's slot points to is the one it made, in
its own lock and its own mode; otherwise a sleeper could be told it holds a lock
that another's group was granted. `LockInv` is the conjunction with the type
invariant. Each action has a lemma in `LockLemmas`. They are stated without
sids or cids' owners, so that the store's proof uses them as they are.

**The chain's argument.** `LockInv` does not say who is in a waiting group.
`ChainInv` adds that a transaction is in one call at a time (`OneCallEach`),
that each sleeping call has a group and each member of a group behind the first
a sleeping call, on that very group (`SleepersHaveGroups`, `GroupsHaveSleepers`),
that members of the first group know or are about to wake (`HoldersTold`), and
that slots are a function (`OneSlotEach`). A transaction is in one group of a
chain, or else holds the lock shared and waits for its upgrade
(`TwiceForUpgrade`): without it, the removal of a victim or of the first group
could leave the same transaction behind in another place. `SleepersQueued`
follows. For `NoOvertaking`, whom a call has to outwait is the union of the
groups before its last place (`AheadOfLastPlace`); no step lengthens that part
of the chain or adds a member to it, and the last place of a sleeper's does not
move back: the joining of groups is at the end of the chain only.

**The refinement of FairLock.** The chain puts everybody into groups, and its
order is more than fairness asks for; the mapping forgets all of it but who is
ahead of whom. `InLine` is that relation on a chain, and `LineOf` says that it is
what `ahead` is mapped to. The changes of a chain come down to four: no group
changes, the last one is joined, one is added, one goes (`GroupsStay`,
`GroupJoined`, `GroupAdded`, `GroupGone`), each with a lemma on what it does to
lines (`StayLines` and so on) and to `FairInv`. `LockLock` maps to `Take` or `Ask`,
a wake-up to `Grant` or `Refuse`, `LockUnlock` to `Release`; a call that returns
`LOCK_STALE`, one that is faulted out at once and any fault stutter. A grant is a
step of FairLock only if nobody is left ahead of the sleeper: of the second group
nobody but itself, when it upgrades (`Members`, `AwayFromChains`). That a wake-up
is not lost needs `FairInv`: an upgrade is always in the second group
(`UpgradesSecond`), and the first group is then not the upgrading transaction
alone (`UpgradeSeen`), as the code of `lock.c:382-392` has moved on otherwise. A
refusal comes while somebody is ahead: a marked group is not the first, and the
first is not the victim's own by itself. The lemmas `LockStepFair` and
`LockStepFairNext` are about any step that is one of the lock's or leaves the
chains alone, so the store's theorems are those of the lock. `FairLockExcludes`
looks at FairLock alone: its steps keep an exclusive holder alone, so that what
Lock implements is a lock.

**Two transactions.** `NoSilentDeadlock` is false with three transactions
(section 4) and a theorem with two, over any number of locks. `PairInv` says why:
with two, nobody joins a group that waits (its member is the other, asleep, and
who is alone in the first group is covered: `JoinsFirst`), and who queues up
behind the other queues up behind the first group, which is what case E enters
edges for (`QueuesBehindFirst`). So the edges of both waits are there when the
second call goes to sleep, by `NoOvertaking`'s lemmas also after other steps, and
the search finds the cycle (`SearchOfTwo`). The caller is not the victim if it
goes to sleep, so the other one is, and is marked.

**The store's argument.** `ReadsStable` needs that who is on a transaction's list
is held (`LockedHeld`), that the holder's cid is its own (`CidsDistinct`), and
that a write happens under an exclusive lock; then, by exclusion, no other
transaction has the object on its list. An idle worker has nothing on its list
(`NothingLocked`). The interesting steps are those that change `held` for one
cid: `HeldOfOthers` says nobody else's changes. `NothingLeftBehind` takes
`ChainInv` over to the store and adds that each sleeping call is one of a
worker's that is in it (`SleepersRun`), and that what a transaction was told it
holds is on its list or about to get there (`HeldListed`): a transaction whose
list is empty is then neither told nor asleep, hence in no group.

**The detector's argument.** `wfg_dfs()` is a recursion over the frames that are
left, and what it returns is the top of a sequence of levels (`Levels`): the
answers of all calls with k frames left. `OneCall` says what one loop over the
successors returns, and `LevelsAgree` that an answer other than `overflow` stays
the same with more frames. So, at the top level, all that a call without a
finding leads to has no finding either and is not the root: nothing is missed
(`NoneMissed`). A call that overflows has made one that does with a frame less,
so the frames are a walk of `MaxTasks` nodes that avoids the root; by the
pigeonhole principle it meets a node twice, and two visits at the least distance
make a cycle (`WalkMeetsItself`). The victim of a call is the youngest of a path
to the root without repetition, by induction over the frames (`VictimStep`):
where a call's answer is new on a level, the call is not on the path of the call
below, which had its answer before. Induction over numbers is the lemma
`AllNumbers`, itself by the pigeonhole principle, as the library's theorem takes
an operator.

**The latches' argument.** Latches have ranks: the task queue's, the cache's, an
object lock's, the deadlock latch and that of ids, the network queue's, a
socket's. A call is `Ordered` if it drops what it takes and, before it has
dropped a latch, takes only such of higher ranks. Two lemmas build all calls:
`JoinOrdered` (one after the other) and `HoldOrdered` (inside a latch of lower
rank); a wait is like giving the latch up and taking it again (`WaitOrdered`).
The invariant `HeldInOrder` carries this over to what is left of a call, for the
latches a thread has. A thread of a circle would wait for a latch of a higher
rank than its predecessor in the circle, and there are six ranks. Each inversion
is a call that is not `Ordered`.

**The server's argument.** `WatcherHasBuffer` holds by itself step by step, but
`StrayOutputOnlyAfterEof` needs four more parts: WRITE items and buffers belong
to the socket they are queued for (`OwnOutput`); two open connections have
different descriptors (`OwnDescriptor`), so what is written for an open one goes
to it; a watcher of an ended one is active only if what it has to write is late
(`LateOutput`, since the end of the input stops the watcher); and what has been
sent (`StrayOutput`).

**The sockets' argument.** `FreedWhenReleased` and `FaultsExplained` need to know
who is yet to give a reference up: the connection, until the network thread has
written the count back (`NetOwes`), and the `closed` task, until its worker has
(`TaskOwes`). As a decrement can be lost when two overlap, no equation holds;
`RefsCount` says that a count is 2 while both are owed and not 0 while one is,
and that a load made meanwhile has read 2. Hence FREE items and freed sockets
have been released by both (`FreesReleased`). There is one `accept` and one
`closed` task, and one INIT item, for a connection (`AcceptedOnce`,
`ClosedOnce`). `read` tasks precede the `closed` task in the queue, and WRITE
items the FREE item, so that only a hasty `closed` task leads to an access to a
freed socket (`ReadsBeforeClosed`, `WritesBeforeFree`); a write watcher of an
ended connection is there for late output to that very socket (`LateWatcher`);
the network thread's own release finds the socket in place, so that only a
worker's can be the fault `release` (`NetReleases`); and the listener and
the queues go in the order of `main()` (`Shutdown`, `StopAsked`).

**The replies' argument.** A message has one `read` task, in the queue or with
one worker (`ReadOnce`). What has been handed to the network thread belongs to a
task that is committing or done: it will not be evaluated again, and the output
is out of the transaction (`HandedOverOnce`). Each piece of output is in one
place: the network thread's queue, a socket's buffers or a client
(`OnePlace`).

**The refinement of Outbox.** `net_socket_write()` maps to `Put`, a write of the
last part of a buffer to `Get`, the release of a socket to `Drop` of the rest,
the end of the network thread to `Close`, and everything else to `Begin`, `End`
or a stutter. In particular, carrying out a WRITE item stutters: it moves the
oldest item of a socket behind the youngest buffer. `WritesTo` is a recursive
function; the lemmas about appending to and taking from the queue are proved by
induction with `AllNumbers`. `OrderInv` adds to the invariants above that nothing is
written to a connection that never was (`ReadsKnown`) and that nothing is queued
behind the STOP item (`StoppedLast`).

**The evaluator's argument.** `CallersKept` is about every frame, while a step
writes to the current one. `EvalInv` says that frames are stacked in the order
of their calls, each three cells above its caller's registers (`FramesStacked`,
`CallersBelow`), that from `fp` on there are only values, and that this was so
for every caller when it called (`ValuesAbove`, `CallersValues`): so after
RETURN it is so again. The lemmas go by kind of step: inside a frame, beginning
or ending an evaluation, CALL, RETURN. `CountInv` says that a count is the number
of stack cells and globals that refer to the string, plus what the task itself
holds, plus what abandoned stacks have forgotten (`RefsExact`); the cells above the stack
pointer, which an instruction may overwrite without giving anything up, refer to
no string (`CellsTyped`). Each instruction changes the set of referring places by one
element or two, and the count by as much (`OneDiffers`).

Only model-checked: all liveness (`EveryWaitEnds`, `TxEnds`, `TasksTaken`, `ItemsHandled`,
`EofReclaimed`, `StopTakesEffect`), which rests on fairness and is out of the
prover's reach, and what the runs that expect a violation show. Every safety
property of the passing runs is a theorem.

## 6. Not modelled, and why

- The cache. When 0.7 of its 1024 slots are in use `cache.c` asserts false where
  it should grow (lines 42, 116): ids are consecutive, so the 717th object ends
  the program. Eviction starts at a number of entries that is not reached
  before. It is the only reader of the list by recency of use, whose links in
  one direction are never set, and it frees entries that are still in a hash
  chain. What runs is a map from ids to objects, which is what Store has.
- `lock_free()`, `locks_free_ctx()`, `store_free()` and other clean-up at
  shutdown: they change nothing that is used afterwards. Their asserts are
  discussed in section 4.
- `net_socket_close()`: only `ntx_commit_tx()` calls it, for an operation that
  only `ntx_socket_close()` makes, which nothing calls.
- `obj_copy()`, `obj_remove_parent()`, `code_to_buffer()` have no caller in the
  server. Objects of the model have the one parent that OP_MAKE_OBJ gives them.
- The instructions that have no operands or no effect yet: DIV, MOD, the jumps,
  USLEEP. The text of strings, and numbers.
- Undoing writes: `store.c` does not, as TODO:21 says; `ReadsStable` is the
  isolation that remains. An aborted attempt's writes stay visible.
- The content of the objects that `persist.c` builds, but for what their methods
  do to sockets; the sample compiler; the unit tests, but for the mock
  transactions of `check_rwlock.c`.

## 7. What could follow

In order of use:

1. The store as an abstract serialiser of reads, over FairLock in place of Lock.
2. `EvalCountsExact` with several tasks at a time, as `types.c` shares strings.
3. The cache, once it grows: a refinement of a map from ids to objects.

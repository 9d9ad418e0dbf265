------------------------------- MODULE Tasks -------------------------------
(***************************************************************************)
(* The task queue and its worker threads, src/src/tasks.c.                 *)
(*                                                                         *)
(* A worker takes an item off the queue, starts a transaction for it while *)
(* it still has the queue's latch, evaluates it, and retries it until it   *)
(* succeeds; only then does it commit the network transaction.  The        *)
(* evaluation ends the VM's transaction, so the locks on objects are gone  *)
(* when the network operations are sent on.                                *)
(*                                                                         *)
(* Abstracted: the evaluation is one step with one of the results it can   *)
(* have.  The locks it takes and why it must be retried are the subject of *)
(* modules Lock and Store.  The handlers are those of src/src/persist.c:   *)
(* `read' may write to its socket, `accept' and `closed' end with the      *)
(* system call for the socket, so a retry never repeats one.               *)
(***************************************************************************)
EXTENDS Net, Ntx

CONSTANT MaxRetries     \* bound: failed evaluations of one task

ASSUME TasksAssumption == MaxRetries \in Nat

VARIABLES
  tqueue,       \* queue_front .. queue_back
  pc,           \* what each worker is doing
  task,         \* current_item
  tx,           \* net_tx
  tries,        \* failed evaluations of the current item
  stopFlag,     \* stop_flag
  hasty         \* history: connections closed while another task was at work

taskVars == <<tqueue, pc, task, tx, tries, stopFlag, hasty>>

Task == [kind : {"init", "stop", "listen_error"}]
        \cup [kind : {"accept", "closed"}, sock : Conns]
        \cup [kind : {"read"}, sock : Conns, msg : 1 .. MaxMsgs]
NoTask == [kind |-> "none"]

TasksTypeOK ==
  /\ tqueue \in Seq(Task)
  /\ pc \in [Workers -> {"ready", "waiting", "woken", "running", "committing",
                         "releasing", "exited"}]
  /\ task \in [Workers -> Task \cup {NoTask}]
  /\ tx \in [Workers -> [ops : Seq(Data), last : 0 .. 1]]
  /\ tries \in [Workers -> 0 .. MaxRetries]
  /\ stopFlag \in BOOLEAN
  /\ hasty \subseteq Conns

\* The state after net_init_cb(): the workers run, tasks_start() was called.
TasksInit ==
  /\ tqueue = <<[kind |-> "init"]>>
  /\ pc = [w \in Workers |-> "ready"]
  /\ task = [w \in Workers |-> NoTask]
  /\ tx = [w \in Workers |-> NtxNew]
  /\ tries = [w \in Workers |-> 0]
  /\ stopFlag = FALSE
  /\ hasty = {}

-----------------------------------------------------------------------------
(* The queue.                                                              *)

Waiting == {w \in Workers : pc[w] = "waiting"}

\* pthread_cond_signal() wakes one of the waiting workers, if there is one;
\* mutant: none.
NoSignal == UNCHANGED pc
Signal ==
  IF Waiting = {} THEN UNCHANGED pc
  ELSE \E w \in Waiting : pc' = [pc EXCEPT ![w] = "woken"]

\* tasks_enqueue_item(); called by other threads than the workers.
Enqueue(item) ==
  /\ tqueue' = Append(tqueue, item)
  /\ Signal
  /\ UNCHANGED <<task, tx, tries, stopFlag, hasty>>

-----------------------------------------------------------------------------
(* What the methods of src/src/persist.c do at their end.                  *)

ObjInit == NetEnqueue([kind |-> "new_listener"])
ObjShutdown == NetEnqueue([kind |-> "stop_listener"])
ObjAccept(c) == NetEnqueue([kind |-> "init", sock |-> c])

\* A worker begins to give up the task's reference.
ObjClosed(w, c) ==
  /\ relAt' = [relAt EXCEPT ![w] = "load"]
  /\ relSock' = [relSock EXCEPT ![w] = c]

-----------------------------------------------------------------------------
(* tasks_thread_func()                                                     *)

\* A worker in front of the queue, with the latch: one that came back from
\* pthread_cond_wait() looks at the queue but not at stop_flag.
AtQueue(w) == pc[w] = "woken" \/ (pc[w] = "ready" /\ ~stopFlag)

Wait(w) ==
  /\ AtQueue(w)
  /\ tqueue = << >>
  /\ pc' = [pc EXCEPT ![w] = "waiting"]
  /\ UNCHANGED <<netVars, tqueue, task, tx, tries, stopFlag, hasty>>

Exit(w) ==
  /\ pc[w] = "ready"
  /\ stopFlag
  /\ pc' = [pc EXCEPT ![w] = "exited"]
  /\ UNCHANGED <<netVars, tqueue, task, tx, tries, stopFlag, hasty>>

\* Another worker is at work on a task of connection c.
Engaged(w, c) ==
  \E v \in Workers \ {w} : /\ pc[v] \in {"running", "committing"}
                           /\ task[v].kind = "read"
                           /\ task[v].sock = c

\* A worker takes an item and has the evaluation context for it.
Take(w) ==
  /\ AtQueue(w)
  /\ tqueue # << >>
  /\ Head(tqueue).kind # "init"
  /\ tqueue' = Tail(tqueue)
  /\ pc' = [pc EXCEPT ![w] = "running"]
  /\ task' = [task EXCEPT ![w] = Head(tqueue)]
  /\ hasty' = IF Head(tqueue).kind = "closed" /\ Engaged(w, Head(tqueue).sock)
              THEN hasty \cup {Head(tqueue).sock} ELSE hasty
  /\ UNCHANGED <<netVars, tx, tries, stopFlag>>

\* The INIT item is done with the latch held: object 0 makes a listener.
TakeInit(w) ==
  /\ AtQueue(w)
  /\ tqueue # << >>
  /\ Head(tqueue).kind = "init"
  /\ QueueLatchFree
  /\ tqueue' = Tail(tqueue)
  /\ pc' = [pc EXCEPT ![w] = "ready"]
  /\ ObjInit
  /\ UNCHANGED <<npc, nstop, listener, sockVars, sent, relVars, fault, late,
                 raced, task, tx, tries, stopFlag, hasty>>

\* The item is done: the worker cleans up and goes back to its loop.
Finished(w) ==
  /\ pc' = [pc EXCEPT ![w] = "ready"]
  /\ task' = [task EXCEPT ![w] = NoTask]
  /\ tries' = [tries EXCEPT ![w] = 0]

\* What `read' leaves in the network transaction after n writes.
Written(w, n) ==
  LET op(k) == [sock |-> task[w].sock, msg |-> task[w].msg, part |-> k]
      after[k \in 0 .. n] == IF k = 0 THEN tx[w] ELSE NtxAppend(after[k - 1], op(k))
  IN  after[n]

\* `read' succeeds: the transaction has operations to commit, or the worker
\* is done.
EvalRead(w, n) ==
  /\ pc[w] = "running"
  /\ task[w].kind = "read"
  /\ tx' = [tx EXCEPT ![w] = Written(w, n)]
  /\ IF Written(w, n).ops = << >>
       THEN Finished(w)
       ELSE /\ pc' = [pc EXCEPT ![w] = "committing"]
            /\ UNCHANGED <<task, tries>>
  /\ UNCHANGED <<netVars, tqueue, stopFlag, hasty>>

\* The evaluation fails, after n writes if it is that of `read': the network
\* transaction is rolled back and the item evaluated again.
Retry(w, n) ==
  /\ pc[w] = "running"
  /\ tries[w] < MaxRetries
  /\ tries' = [tries EXCEPT ![w] = @ + 1]
  /\ tx' = [tx EXCEPT ![w] = IF task[w].kind = "read"
                             THEN NtxRollback(Written(w, n)) ELSE NtxRollback(@)]
  /\ stopFlag' = (stopFlag \/ task[w].kind = "stop")
  /\ UNCHANGED <<netVars, tqueue, pc, task, hasty>>

\* net_socket_write() for the next operation: it reads the socket for the
\* queue to use.
Send(w) ==
  LET op == Head(tx[w].ops)
  IN  /\ pc[w] = "committing"
      /\ life[op.sock] # "freed"
      /\ QueueLatchFree
      /\ NetEnqueue([kind |-> "write", sock |-> op.sock, data |-> op])
      /\ tx' = [tx EXCEPT ![w] = NtxRest(@)]
      /\ IF Len(tx[w].ops) = 1 THEN Finished(w) ELSE UNCHANGED <<pc, task, tries>>
      /\ UNCHANGED <<npc, nstop, listener, sockVars, sent, relVars, fault, late,
                     raced, tqueue, stopFlag, hasty>>

SendFreed(w) ==
  /\ pc[w] = "committing"
  /\ life[Head(tx[w].ops).sock] = "freed"
  /\ NetCrash("socket")
  /\ UNCHANGED taskVars

\* `accept' ends with net_accept_socket: the new handler gets the socket.
EvalAccept(w) ==
  /\ pc[w] = "running"
  /\ task[w].kind = "accept"
  /\ QueueLatchFree
  /\ ObjAccept(task[w].sock)
  /\ Finished(w)
  /\ UNCHANGED <<npc, nstop, listener, sockVars, sent, relVars, fault, late,
                 raced, tqueue, tx, stopFlag, hasty>>

\* `closed' ends with net_socket_free: the task gives up its reference.
EvalClosed(w) ==
  /\ pc[w] = "running"
  /\ task[w].kind = "closed"
  /\ pc' = [pc EXCEPT ![w] = "releasing"]
  /\ ObjClosed(w, task[w].sock)
  /\ UNCHANGED <<nqueue, async, npc, nstop, listener, sockVars, sent, relVal,
                 fault, late, raced, tqueue, task, tx, tries, stopFlag, hasty>>

Released(w) ==
  /\ pc[w] = "releasing"
  /\ relAt[w] = "out"
  /\ Finished(w)
  /\ UNCHANGED <<netVars, tqueue, tx, stopFlag, hasty>>

\* `shutdown' of object 0 gives up the listener; the flag is set afterwards.
EvalStop(w) ==
  /\ pc[w] = "running"
  /\ task[w].kind = "stop"
  /\ QueueLatchFree
  /\ ObjShutdown
  /\ stopFlag' = TRUE
  /\ Finished(w)
  /\ UNCHANGED <<npc, nstop, listener, sockVars, sent, relVars, fault, late,
                 raced, tqueue, tx, hasty>>

=============================================================================

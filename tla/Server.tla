------------------------------- MODULE Server -------------------------------
(***************************************************************************)
(* The server as src/src/main.c puts it together: the network thread calls *)
(* back into the task queue, the workers call into the network thread's    *)
(* queue, and main() starts and stops both.                                *)
(***************************************************************************)
EXTENDS Tasks

VARIABLES
  main,         \* what main() is doing
  msgs          \* messages the clients have sent

serverVars == <<netVars, taskVars, main, msgs>>

ServerTypeOK ==
  /\ NetTypeOK
  /\ TasksTypeOK
  /\ main \in {"sleeping", "joining", "freed_tasks", "joining_net", "freed_net"}
  /\ msgs \in 0 .. MaxMsgs

ServerInit ==
  /\ NetInit
  /\ TasksInit
  /\ main = "sleeping"
  /\ msgs = 0

TasksFreed == main \notin {"sleeping", "joining"}

-----------------------------------------------------------------------------
(* The callbacks net.c makes into tasks.c.                                 *)

Connect(c) ==
  /\ ~TasksFreed
  /\ Accept(c)
  /\ Enqueue([kind |-> "accept", sock |-> c])
  /\ UNCHANGED <<main, msgs>>

Receive(c) ==
  /\ ~TasksFreed
  /\ msgs < MaxMsgs
  /\ ReadData(c)
  /\ Enqueue([kind |-> "read", sock |-> c, msg |-> msgs + 1])
  /\ msgs' = msgs + 1
  /\ UNCHANGED main

HangUp(c) ==
  /\ ~TasksFreed
  /\ ReadEof(c)
  /\ Enqueue([kind |-> "closed", sock |-> c])
  /\ UNCHANGED <<main, msgs>>

ListenFails ==
  /\ ~TasksFreed
  /\ HandleListenFails
  /\ Enqueue([kind |-> "listen_error"])
  /\ UNCHANGED <<main, msgs>>

\* Any of these after tasks_free_ctx(): main() stops the network thread last.
CallbackFreed ==
  /\ TasksFreed
  /\ CanHandle("new_listener") \/ \E c \in Conns : CanAccept(c) \/ CanRead(c)
  /\ NetCrash("tasks")
  /\ UNCHANGED <<taskVars, main, msgs>>

-----------------------------------------------------------------------------
(* Steps that leave the other side alone.                                  *)

\* A failing setsockopt() is not reported to tasks.c.
Listen ==
  /\ HandleNewListener \/ HandleListenFails
  /\ UNCHANGED <<taskVars, main, msgs>>

\* The other items of the network thread's queue.
HandleItem ==
  /\ \/ HandleStop \/ HandleStopListener \/ HandleInit \/ HandleWrite
     \/ HandleFree \/ HandleFreed
  /\ UNCHANGED <<taskVars, main, msgs>>

Output(c) ==
  /\ WriteSome(c) \/ WriteBuffer(c) \/ WriteFails(c)
  /\ UNCHANGED <<taskVars, main, msgs>>

Release(a) ==
  /\ RelLoad(a) \/ RelStore(a) \/ RelCheck(a) \/ RelFreed(a)
  /\ UNCHANGED <<taskVars, main, msgs>>

ReleaseEnds(w) == RelUnlatch(w) /\ UNCHANGED <<taskVars, main, msgs>>

FreedMemory ==
  /\ AcceptFreed \/ \E c \in Conns : WatcherFreed(c)
  /\ UNCHANGED <<taskVars, main, msgs>>

\* What a worker does to an item until it succeeds.
Succeed(w) ==
  /\ \/ \E n \in 0 .. MaxWrites : EvalRead(w, n)
     \/ EvalAccept(w) \/ EvalClosed(w) \/ EvalStop(w) \/ Released(w)
     \/ Send(w) \/ SendFreed(w)
  /\ UNCHANGED <<main, msgs>>

Fail(w) == (\E n \in 0 .. MaxWrites : Retry(w, n)) /\ UNCHANGED <<main, msgs>>

Dequeue(w) == (Take(w) \/ TakeInit(w)) /\ UNCHANGED <<main, msgs>>

Rest(w) == (Wait(w) \/ Exit(w)) /\ UNCHANGED <<main, msgs>>

-----------------------------------------------------------------------------
(* main()                                                                  *)

\* tasks_stop() up to its joins
StopTasks ==
  /\ main = "sleeping"
  /\ main' = "joining"
  /\ Enqueue([kind |-> "stop"])
  /\ UNCHANGED <<netVars, msgs>>

\* Every worker has ended: tasks_free_ctx(), ntx_free_ctx().
FreeTasks ==
  /\ main = "joining"
  /\ \A w \in Workers : pc[w] = "exited"
  /\ main' = "freed_tasks"
  /\ UNCHANGED <<netVars, taskVars, msgs>>

\* net_stop() up to its join
StopNet ==
  /\ main = "freed_tasks"
  /\ QueueLatchFree
  /\ main' = "joining_net"
  /\ NetEnqueue([kind |-> "stop"])
  /\ UNCHANGED <<npc, nstop, listener, sockVars, sent, relVars, fault, late,
                 raced, taskVars, msgs>>

FreeNet ==
  /\ main = "joining_net"
  /\ NetFreeCtx
  /\ main' = "freed_net"
  /\ UNCHANGED <<taskVars, msgs>>

-----------------------------------------------------------------------------

ServerNext ==
  /\ fault = "none"
  /\ \/ \E c \in Conns : Connect(c) \/ Receive(c) \/ HangUp(c) \/ Output(c)
     \/ ListenFails \/ Listen \/ HandleItem \/ CallbackFreed \/ FreedMemory
     \/ \E a \in Threads : Release(a)
     \/ \E w \in Workers : \/ ReleaseEnds(w) \/ Succeed(w) \/ Fail(w)
                            \/ Dequeue(w) \/ Rest(w)
     \/ StopTasks \/ FreeTasks \/ StopNet \/ FreeNet

ServerSpec == ServerInit /\ [][ServerNext]_serverVars

\* The scheduler runs every thread that can go on; the loop of the network
\* thread calls its callback for the queue when it was asked to.  Clients and
\* descriptors owe nothing, and no evaluation need fail.
ServerFairness ==
  /\ WF_serverVars(fault = "none" /\ (Listen \/ ListenFails \/ HandleItem))
  /\ \A a \in Threads : WF_serverVars(fault = "none" /\ Release(a))
  /\ \A w \in Workers :
       /\ WF_serverVars(fault = "none" /\ ReleaseEnds(w))
       /\ WF_serverVars(fault = "none" /\ Succeed(w))
       /\ WF_serverVars(fault = "none" /\ (Dequeue(w) \/ Rest(w)))

ServerFairSpec == ServerSpec /\ ServerFairness

-----------------------------------------------------------------------------
(***************************************************************************)
(* Properties                                                              *)
(***************************************************************************)

\* net_write_cb() dereferences first_buffer: an active write watcher has one.
WatcherHasBuffer ==
  \A c \in Conns : writing[c] /\ life[c] # "freed" => bufs[c] # << >>

Occurrences(q, d) == {i \in DOMAIN q : q[i] = d}

\* All the places where data can be on its way to a client.
Traces(d) ==
  (UNION {{<<c, "sent", i>> : i \in Occurrences(sent[c], d)} : c \in Conns})
  \cup {<<d.sock, "buffer", i>> : i \in Occurrences(bufs[d.sock], d)}
  \cup {<<d.sock, "queue", i>> :
           i \in {j \in DOMAIN nqueue : nqueue[j].kind = "write" /\ nqueue[j].data = d}}
  \cup (UNION {{<<w, "tx", i>> : i \in Occurrences(tx[w].ops, d)} : w \in Workers})

\* However often a message is evaluated, what it writes is on its way to the
\* client, or has arrived, at most once.
RepliesOnce ==
  \A d \in Data : d.msg <= msgs => Cardinality(Traces(d)) <= 1

\* Output reaches another client only if the network thread took it up when
\* its own client had gone, and the other one has its descriptor now.
StrayOutputOnlyAfterEof ==
  \A c \in Conns : \A i \in DOMAIN sent[c] : sent[c][i].sock # c => sent[c][i] \in late

\* A socket that a task still works with is freed only when its own `closed'
\* task overtook a `read' task; a watcher inside a freed socket is called only
\* when output came after the end of its connection; a thread that gives up a
\* reference finds the socket gone only if it is a worker that has written its
\* count back, never the network thread; the listener and the task queue are
\* missed only once main() shuts down.
FaultsExplained ==
  /\ fault = "socket" => \E c \in hasty : life[c] = "freed"
  /\ fault = "watcher" => \E d \in late : life[d.sock] = "freed"
  /\ fault = "release" =>
       \E w \in Workers : relAt[w] \in {"check", "unlatch"} /\ life[relSock[w]] = "freed"
  /\ fault \in {"listener", "tasks"} => main # "sleeping"

\* A socket goes when neither its connection nor a task needs it, and nobody
\* is about to give up a reference to it.
FreedWhenReleased ==
  \A c \in Conns : life[c] = "freed" /\ main # "freed_net" =>
    /\ ~reading[c]
    /\ refs[c] = 0
    /\ \A a \in Threads : relSock[a] = c => relAt[a] \in {"check", "unlatch"}
    /\ \A i \in DOMAIN tqueue : tqueue[i].kind = "closed" => tqueue[i].sock # c

\* What the items of q write to c, from the front to the back.
WritesTo(c, q) ==
  LET upTo[n \in 0 .. Len(q)] ==
        IF n = 0 THEN << >>
        ELSE IF q[n].kind = "write" /\ q[n].sock = c
             THEN Append(upTo[n - 1], q[n].data) ELSE upTo[n - 1]
  IN  upTo[Len(q)]

\* What is on its way between net_socket_write() and write(), per connection.
Promise == INSTANCE Outbox WITH
  state <- [c \in Conns |-> IF life[c] \in {"eof", "freed"} THEN "over" ELSE life[c]],
  pending <- [c \in Conns |-> bufs[c] \o WritesTo(c, nqueue)],
  out <- sent

\* The network thread keeps the promise of module Outbox.
OutputInOrder == Promise!OutSpec

\* The worker keeps the queue's latch until it has the evaluation context, "so
\* that two messages from the same socket can't be processed by two threads
\* out of order": a client gets its replies in the order of its messages.
RepliesInOrder ==
  \A c \in Conns : \A i, j \in DOMAIN sent[c] :
    i < j /\ sent[c][i].sock = sent[c][j].sock => sent[c][i].msg <= sent[c][j].msg

\* Every task is taken and every network operation carried out, unless the
\* server is told to stop or stops by itself.
TasksTaken ==
  (tqueue # << >>) ~> (tqueue = << >> \/ stopFlag \/ fault # "none")
ItemsHandled ==
  (nqueue # << >>) ~> (nqueue = << >> \/ fault # "none")

\* The socket of a connection that ended is freed, unless its two references
\* were given up at the same time.
EofReclaimed ==
  \A c \in Conns :
    (life[c] = "eof") ~> (life[c] = "freed" \/ c \in raced \/ stopFlag \/ fault # "none")

\* Once the flag is set every worker ends, but those that sleep at the queue
\* and one that evaluates a handler nobody wrote.
StopTakesEffect ==
  stopFlag ~> \/ fault # "none"
              \/ \A w \in Workers : \/ pc[w] \in {"exited", "waiting"}
                                    \/ task[w].kind = "listen_error"

=============================================================================

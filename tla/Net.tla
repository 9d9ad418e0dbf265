-------------------------------- MODULE Net --------------------------------
(***************************************************************************)
(* The network thread and its sockets, src/src/net.c.                      *)
(*                                                                         *)
(* One thread runs the event loop: it accepts, reads, writes, and is woken *)
(* to work off a queue to which every thread may add.  The callbacks it    *)
(* makes into tasks.c are added by module Server.                          *)
(*                                                                         *)
(* A step is one callback of the loop, or one item of the queue, or one    *)
(* access to a reference count: net_socket_dec_refcount() runs on the      *)
(* network thread without the socket's latch and on workers with it, so    *)
(* the two interleave.  While the thread works off the queue it keeps the  *)
(* queue's latch, and nobody else adds an item.  Whether the latches can   *)
(* deadlock is the question of module Latches.                             *)
(*                                                                         *)
(* The program stops at the first access to freed memory: `fault' says     *)
(* what it accessed.                                                       *)
(***************************************************************************)
EXTENDS Naturals, Sequences, FiniteSets

CONSTANTS
  Workers,      \* the worker threads
  NetThread,    \* the network thread
  Conns,        \* the connections clients make, each with its net_socket
  MaxMsgs,      \* bound: messages the clients send, over all connections
  MaxWrites,    \* bound: network operations of one task
  BufSize       \* what write() can split a buffer into

NoConn == "none"          \* the NULL pointer

ASSUME NetAssumption ==
  /\ NetThread \notin Workers
  /\ NoConn \notin Conns
  /\ IsFiniteSet(Conns)
  /\ MaxMsgs \in Nat
  /\ MaxWrites \in Nat \ {0}
  /\ BufSize \in Nat \ {0}

VARIABLES
  nqueue,       \* queue_front .. queue_back
  async,        \* ev_async_send() was called since the queue was worked off
  npc,          \* what the network thread is doing
  nstop,        \* stop_flag
  listener,     \* the listener_ctx; its watcher is never stopped
  life,         \* each connection's net_socket
  fd,           \* the descriptor its watchers were made for
  refs,         \* refcount
  reading,      \* read_event is active
  writing,      \* write_event is active
  bufs,         \* first_buffer .. last_buffer
  level,        \* level of first_buffer
  sent,         \* what each client was sent
  relAt, relSock, relVal,     \* net_socket_dec_refcount(), per thread in it
  fault,        \* "none" until freed memory is accessed
  late,         \* history: data handed to a socket after its connection ended
  raced         \* history: sockets whose two decrements overlapped

netVars == <<nqueue, async, npc, nstop, listener, life, fd, refs, reading,
             writing, bufs, level, sent, relAt, relSock, relVal, fault, late,
             raced>>
sockVars == <<life, fd, refs, reading, writing, bufs, level>>
relVars == <<relAt, relSock, relVal>>

Data == [sock : Conns, msg : 1 .. MaxMsgs, part : 1 .. MaxWrites]
NetItem == [kind : {"new_listener", "stop_listener", "stop"}]
           \cup [kind : {"init", "free"}, sock : Conns]
           \cup [kind : {"write"}, sock : Conns, data : Data]
Fds == 1 .. Cardinality(Conns)
Threads == Workers \cup {NetThread}

NetTypeOK ==
  /\ nqueue \in Seq(NetItem)
  /\ async \in BOOLEAN
  /\ npc \in {"loop", "drain", "eof", "exited"}
  /\ nstop \in BOOLEAN
  /\ listener \in {"none", "listening", "freed"}
  /\ life \in [Conns -> {"none", "open", "eof", "freed"}]
  /\ fd \in [Conns -> Fds \cup {0}]
  /\ refs \in [Conns -> 0 .. 2]
  /\ reading \in [Conns -> BOOLEAN]
  /\ writing \in [Conns -> BOOLEAN]
  /\ bufs \in [Conns -> Seq(Data)]
  /\ level \in [Conns -> 0 .. BufSize - 1]
  /\ sent \in [Conns -> Seq(Data)]
  /\ relAt \in [Threads -> {"out", "load", "store", "check", "unlatch"}]
  /\ relSock \in [Threads -> Conns \cup {NoConn}]
  /\ relVal \in [Threads -> 0 .. 2]
  /\ fault \in {"none", "listener", "watcher", "socket", "release", "tasks"}
  /\ late \subseteq Data
  /\ raced \subseteq Conns

NetInit ==
  /\ nqueue = << >>
  /\ async = FALSE
  /\ npc = "loop"
  /\ nstop = FALSE
  /\ listener = "none"
  /\ life = [c \in Conns |-> "none"]
  /\ fd = [c \in Conns |-> 0]
  /\ refs = [c \in Conns |-> 0]
  /\ reading = [c \in Conns |-> FALSE]
  /\ writing = [c \in Conns |-> FALSE]
  /\ bufs = [c \in Conns |-> << >>]
  /\ level = [c \in Conns |-> 0]
  /\ sent = [c \in Conns |-> << >>]
  /\ relAt = [a \in Threads |-> "out"]
  /\ relSock = [a \in Threads |-> NoConn]
  /\ relVal = [a \in Threads |-> 0]
  /\ fault = "none"
  /\ late = {}
  /\ raced = {}

NetCrash(f) ==
  /\ fault' = f
  /\ UNCHANGED <<nqueue, async, npc, nstop, listener, sockVars, sent, relVars,
                 late, raced>>

-----------------------------------------------------------------------------
(***************************************************************************)
(* The queue: net_enqueue_item() and queue_event_callback().               *)
(***************************************************************************)

\* net_enqueue_item(); mutants: at the wrong end; without a call of ev_async_send().
NetEnqueueFront(item) ==
  /\ nqueue' = <<item>> \o nqueue
  /\ async' = TRUE

NetEnqueueQuiet(item) ==
  /\ nqueue' = Append(nqueue, item)
  /\ UNCHANGED async

NetEnqueue(item) ==
  /\ nqueue' = Append(nqueue, item)
  /\ async' = TRUE

\* The queue's latch is held while the queue is worked off.
QueueLatchFree == npc # "drain"

\* Where the thread goes from an item: it gives up the latch when none is
\* left; mutant: it does not.
KeepsLatch(kind) == IF nstop \/ kind = "stop" THEN "exited" ELSE "drain"
AfterItem(kind) ==
  IF Len(nqueue) > 1 THEN "drain"
  ELSE IF nstop \/ kind = "stop" THEN "exited" ELSE "loop"

\* The thread can take an item of this kind off the queue,
CanHandle(kind) ==
  /\ npc = "drain" \/ (npc = "loop" /\ async)
  /\ nqueue # << >>
  /\ Head(nqueue).kind = kind

\* and does.
Handle(kind) ==
  /\ CanHandle(kind)
  /\ nqueue' = Tail(nqueue)
  /\ async' = FALSE
  /\ npc' = AfterItem(kind)

HandleStop ==
  /\ Handle("stop")
  /\ nstop' = TRUE
  /\ UNCHANGED <<listener, sockVars, sent, relVars, fault, late, raced>>

\* make_listener() up to the activation of the watcher.
HandleNewListener ==
  /\ Handle("new_listener")
  /\ listener' = "listening"
  /\ UNCHANGED <<nstop, sockVars, sent, relVars, fault, late, raced>>

\* make_listener(), when it fails; module Server adds the error callback.
HandleListenFails ==
  /\ Handle("new_listener")
  /\ UNCHANGED <<nstop, listener, sockVars, sent, relVars, fault, late, raced>>

\* The listener_ctx is freed; its watcher and descriptor stay.
HandleStopListener ==
  /\ Handle("stop_listener")
  /\ listener' = IF listener = "listening" THEN "freed" ELSE listener
  /\ UNCHANGED <<nstop, sockVars, sent, relVars, fault, late, raced>>

Named == Head(nqueue).sock

\* Items other than FREE are carried out on the socket they name, without a
\* look at open_sockets.
HandleInit ==
  /\ Handle("init")
  /\ life[Named] # "freed"
  /\ reading' = [reading EXCEPT ![Named] = TRUE]
  /\ UNCHANGED <<nstop, listener, life, fd, refs, writing, bufs, level, sent,
                 relVars, fault, late, raced>>

\* Whether a WRITE item starts the watcher.
StartsWriting(c) == bufs[c] = << >>

HandleWrite ==
  /\ Handle("write")
  /\ life[Named] # "freed"
  /\ bufs' = [bufs EXCEPT ![Named] = Append(@, Head(nqueue).data)]
  /\ writing' = [writing EXCEPT ![Named] = @ \/ StartsWriting(Named)]
  /\ late' = IF life[Named] = "eof" THEN late \cup {Head(nqueue).data} ELSE late
  /\ UNCHANGED <<nstop, listener, life, fd, refs, reading, level, sent, relVars,
                 fault, raced>>

HandleFreed ==
  /\ CanHandle("init") \/ CanHandle("write")
  /\ life[Named] = "freed"
  /\ NetCrash("socket")

\* net_free_socket() for a socket that is in open_sockets, nothing for
\* another.  No watcher is stopped.
HandleFree ==
  /\ Handle("free")
  /\ IF life[Named] \in {"open", "eof"}
       THEN /\ life' = [life EXCEPT ![Named] = "freed"]
            /\ bufs' = [bufs EXCEPT ![Named] = << >>]
            /\ level' = [level EXCEPT ![Named] = 0]
       ELSE UNCHANGED <<life, bufs, level>>
  /\ UNCHANGED <<nstop, listener, fd, refs, reading, writing, sent, relVars,
                 fault, late, raced>>

-----------------------------------------------------------------------------
(***************************************************************************)
(* The callbacks of the loop.                                              *)
(***************************************************************************)

\* The kernel hands out the lowest free descriptor.
FreeFds == Fds \ {fd[c] : c \in {d \in Conns : life[d] = "open"}}
LowestFds == {n \in FreeFds : \A m \in FreeFds : n <= m}

\* The references of a new socket: the open connection's and the task's;
\* mutants: one less, one more.
OneReference == 1
ThreeReferences == 3
References == 2

\* net_accept_cb(), called by the loop when a client connects
CanAccept(c) ==
  /\ npc = "loop"
  /\ listener = "listening"
  /\ life[c] = "none"

Accept(c) ==
  /\ CanAccept(c)
  /\ life' = [life EXCEPT ![c] = "open"]
  /\ \E n \in LowestFds : fd' = [fd EXCEPT ![c] = n]
  /\ refs' = [refs EXCEPT ![c] = References]
  /\ UNCHANGED <<nqueue, async, npc, nstop, listener, reading, writing, bufs,
                 level, sent, relVars, fault, late, raced>>

\* net_accept_cb() for a listener_ctx that is gone.
AcceptFreed ==
  /\ npc = "loop"
  /\ listener = "freed"
  /\ \E c \in Conns : life[c] = "none"
  /\ NetCrash("listener")

\* net_read_cb(), called by the loop
CanRead(c) ==
  /\ npc = "loop"
  /\ reading[c]
  /\ life[c] = "open"

\* with data: what becomes of it is up to the read callback,
ReadData(c) == CanRead(c) /\ UNCHANGED netVars

\* Mutants: the end of the input, the end of the last buffer leave the
\* write watcher alone.
LeavesWriting(c) == FALSE

\* Whether the end of the input stops the write watcher.
EofStopsWriting(c) == bufs[c] # << >>

\* or at the end of the input or an error, up to the callback; the thread
\* then gives up its reference.
ReadEof(c) ==
  /\ CanRead(c)
  /\ life' = [life EXCEPT ![c] = "eof"]
  /\ reading' = [reading EXCEPT ![c] = FALSE]
  /\ writing' = [writing EXCEPT ![c] = @ /\ ~EofStopsWriting(c)]
  /\ npc' = "eof"
  /\ relAt' = [relAt EXCEPT ![NetThread] = "load"]
  /\ relSock' = [relSock EXCEPT ![NetThread] = c]
  /\ UNCHANGED <<nqueue, async, nstop, listener, fd, refs, bufs, level, sent,
                 relVal, fault, late, raced>>

\* The client whose connection has c's descriptor now.
Receivers(c) == {d \in Conns : life[d] = "open" /\ fd[d] = fd[c]}

\* net_write_cb(), when write() takes some of the first buffer
WriteSome(c) ==
  /\ npc = "loop"
  /\ writing[c]
  /\ life[c] \in {"open", "eof"}
  /\ level[c] < BufSize - 1
  /\ Receivers(c) # {}
  /\ level' = [level EXCEPT ![c] = @ + 1]
  /\ UNCHANGED <<nqueue, async, npc, nstop, listener, life, fd, refs, reading,
                 writing, bufs, sent, relVars, fault, late, raced>>

\* Whether the end of the first buffer stops the write watcher.
BufferStopsWriting(c) == Len(bufs[c]) = 1

\* net_write_cb(), when write() takes what is left of the first buffer
WriteBuffer(c) ==
  /\ npc = "loop"
  /\ writing[c]
  /\ life[c] \in {"open", "eof"}
  /\ \E d \in Receivers(c) : sent' = [sent EXCEPT ![d] = Append(@, Head(bufs[c]))]
  /\ bufs' = [bufs EXCEPT ![c] = Tail(@)]
  /\ level' = [level EXCEPT ![c] = 0]
  /\ writing' = [writing EXCEPT ![c] = ~BufferStopsWriting(c)]
  /\ UNCHANGED <<nqueue, async, npc, nstop, listener, life, fd, refs, reading,
                 relVars, fault, late, raced>>

\* net_write_cb(), when write() fails, whoever has the descriptor, if anybody
\* has.  The buffers stay.
WriteFails(c) ==
  /\ npc = "loop"
  /\ writing[c]
  /\ life[c] \in {"open", "eof"}
  /\ writing' = [writing EXCEPT ![c] = FALSE]
  /\ UNCHANGED <<nqueue, async, npc, nstop, listener, life, fd, refs, reading,
                 bufs, level, sent, relVars, fault, late, raced>>

\* The loop calls back for a watcher inside a freed socket.
WatcherFreed(c) ==
  /\ npc = "loop"
  /\ life[c] = "freed"
  /\ reading[c] \/ writing[c]
  /\ NetCrash("watcher")

-----------------------------------------------------------------------------
(***************************************************************************)
(* net_socket_dec_refcount(), in the three accesses of                     *)
(*   s->refcount--; if (s->refcount == 0)                                  *)
(* for thread a.                                                           *)
(***************************************************************************)

RelLoad(a) ==
  LET c == relSock[a]
  IN  /\ relAt[a] = "load"
      /\ life[c] # "freed"
      /\ relVal' = [relVal EXCEPT ![a] = refs[c]]
      /\ relAt' = [relAt EXCEPT ![a] = "store"]
      /\ raced' = IF \E b \in Threads : relAt[b] = "store" /\ relSock[b] = c
                  THEN raced \cup {c} ELSE raced
      /\ UNCHANGED <<nqueue, async, npc, nstop, listener, sockVars, sent,
                     relSock, fault, late>>

RelStore(a) ==
  LET c == relSock[a]
  IN  /\ relAt[a] = "store"
      /\ life[c] # "freed"
      /\ refs' = [refs EXCEPT ![c] = relVal[a] - 1]
      /\ relAt' = [relAt EXCEPT ![a] = "check"]
      /\ relVal' = [relVal EXCEPT ![a] = 0]
      /\ UNCHANGED <<nqueue, async, npc, nstop, listener, life, fd, reading,
                     writing, bufs, level, sent, relSock, fault, late, raced>>

\* A worker needs the queue's latch to add the item, and keeps the socket's.
RelCheck(a) ==
  LET c == relSock[a]
  IN  /\ relAt[a] = "check"
      /\ life[c] # "freed"
      /\ IF refs[c] = 0
           THEN /\ QueueLatchFree
                /\ NetEnqueue([kind |-> "free", sock |-> c])
           ELSE UNCHANGED <<nqueue, async>>
      /\ IF a = NetThread
           THEN /\ npc' = "loop"
                /\ relAt' = [relAt EXCEPT ![a] = "out"]
                /\ relSock' = [relSock EXCEPT ![a] = NoConn]
           ELSE /\ relAt' = [relAt EXCEPT ![a] = "unlatch"]
                /\ UNCHANGED <<npc, relSock>>
      /\ UNCHANGED <<nstop, listener, sockVars, sent, relVal, fault, late, raced>>

\* net_socket_free() gives up the socket's latch.
RelUnlatch(w) ==
  /\ relAt[w] = "unlatch"
  /\ life[relSock[w]] # "freed"
  /\ relAt' = [relAt EXCEPT ![w] = "out"]
  /\ relSock' = [relSock EXCEPT ![w] = NoConn]
  /\ UNCHANGED <<nqueue, async, npc, nstop, listener, sockVars, sent, relVal,
                 fault, late, raced>>

RelFreed(a) ==
  /\ relAt[a] # "out"
  /\ life[relSock[a]] = "freed"
  /\ NetCrash("release")

\* net_free_ctx(): what main() frees when the thread has ended.
NetFreeCtx ==
  /\ npc = "exited"
  /\ life' = [c \in Conns |-> IF life[c] = "none" THEN "none" ELSE "freed"]
  /\ reading' = [c \in Conns |-> FALSE]
  /\ writing' = [c \in Conns |-> FALSE]
  /\ bufs' = [c \in Conns |-> << >>]
  /\ level' = [c \in Conns |-> 0]
  /\ listener' = IF listener = "listening" THEN "freed" ELSE listener
  /\ UNCHANGED <<nqueue, async, npc, nstop, fd, refs, sent, relVars, fault, late,
                 raced>>

=============================================================================

---------------------------- MODULE OutputProofs ----------------------------
(***************************************************************************)
(* Output from the tasks that write it to the clients, for any number of   *)
(* workers, connections, messages and writes: it is in one place on its    *)
(* way, and leaves in order.                                               *)
(***************************************************************************)
EXTENDS ServerProofs

-----------------------------------------------------------------------------
(* The inductive invariant behind RepliesOnce.                             *)

WriteItem(d) == [kind |-> "write", sock |-> d.sock, data |-> d]

Got(d) == \E c \in Conns : d \in Elements(sent[c])
Buffered(d) == d \in Elements(bufs[d.sock])
Queued(d) == WriteItem(d) \in Elements(nqueue)
HandedOver(d) == Got(d) \/ Buffered(d) \/ Queued(d)

Reads(x, m) == x.kind = "read" /\ x.msg = m

\* A message that was received has one `read' task, at most.
ReadOnce ==
  \A m \in 1 .. MaxMsgs :
    /\ \A x \in Elements(tqueue) : Reads(x, m) =>
         /\ m <= msgs
         /\ \A y \in Behind(tqueue, x) : ~Reads(y, m)
         /\ \A w \in Workers : ~Reads(task[w], m)
    /\ \A w \in Workers : Reads(task[w], m) =>
         /\ m <= msgs
         /\ \A v \in Workers : Reads(task[v], m) => v = w

\* What was handed over was committed: nobody will evaluate its task again,
\* and it is not in a transaction any more.
HandedOverOnce ==
  \A d \in Data : HandedOver(d) =>
    /\ d.msg <= msgs
    /\ \A x \in Elements(tqueue) : ~Reads(x, d.msg)
    /\ \A w \in Workers : Reads(task[w], d.msg) =>
         pc[w] = "committing" /\ d \notin Elements(tx[w].ops)

\* Output is in one place.
OnePlace ==
  \A d \in Data :
    /\ ~(Queued(d) /\ Buffered(d)) /\ ~(Queued(d) /\ Got(d)) /\ ~(Buffered(d) /\ Got(d))
    /\ WriteItem(d) \notin Behind(nqueue, WriteItem(d))
    /\ d \notin Behind(bufs[d.sock], d)
    /\ \A w \in Workers : d \notin Behind(tx[w].ops, d)
    /\ \A c \in Conns : /\ d \notin Behind(sent[c], d)
                        /\ \A e \in Conns : d \in Elements(sent[c]) /\ d \in Elements(sent[e])
                                              => c = e

RepliesInv == ReadOnce /\ HandedOverOnce /\ OnePlace

-----------------------------------------------------------------------------
(* Steps that hand no output over and take no `read' task.                 *)

\* A worker goes on with its task, or is done with it.
WorkKept ==
  \A w \in Workers :
    \/ /\ task'[w] = task[w] /\ tx'[w] = tx[w]
       /\ pc[w] = "committing" => pc'[w] = "committing"
    \/ task'[w].kind # "read" /\ tx'[w].ops = << >>

LEMMA RepliesKept ==
  ASSUME RepliesInv, UNCHANGED <<msgs, sent>>, WorkKept,
         NoNewTask("read"), NoNewItem("write"),
         \A c \in Conns : bufs'[c] \in {bufs[c], << >>}
  PROVE  RepliesInv'
<1>1. /\ \A x \in Elements(tqueue') : \A m : Reads(x, m) => x \in Elements(tqueue)
      /\ \A x : \A y \in Behind(tqueue', x) : \A m : Reads(y, m) => y \in Behind(tqueue, x)
  BY DEF NoNewTask, NoneNew, Reads
<1>2. \A d : /\ WriteItem(d) \in Elements(nqueue') => WriteItem(d) \in Elements(nqueue)
             /\ WriteItem(d) \in Behind(nqueue', WriteItem(d)) =>
                  WriteItem(d) \in Behind(nqueue, WriteItem(d))
  BY DEF NoNewItem, NoneNew, WriteItem
<1>3. \A c \in Conns : /\ Elements(bufs'[c]) \subseteq Elements(bufs[c])
                       /\ \A d : Behind(bufs'[c], d) \subseteq Behind(bufs[c], d)
  BY EmptySequence, BehindEmpty
<1>4. \A w \in Workers : /\ Elements(tx'[w].ops) \subseteq Elements(tx[w].ops)
                         /\ \A d : Behind(tx'[w].ops, d) \subseteq Behind(tx[w].ops, d)
  BY EmptySequence, BehindEmpty DEF WorkKept
<1>5. \A w \in Workers : \A m : Reads(task'[w], m) =>
        /\ Reads(task[w], m) /\ tx'[w] = tx[w]
        /\ pc[w] = "committing" => pc'[w] = "committing"
  BY DEF WorkKept, Reads
<1>6. \A d \in Data : d.sock \in Conns /\ d.msg \in 1 .. MaxMsgs
  BY DEF Data
<1>7. ReadOnce'
  BY <1>1, <1>5 DEF RepliesInv, ReadOnce
<1>8. \A d \in Data : /\ Queued(d)' => Queued(d)
                      /\ Buffered(d)' => Buffered(d)
                      /\ Got(d)' => Got(d)
  BY <1>2, <1>3, <1>6 DEF Queued, Buffered, Got
<1>9. HandedOverOnce'
  BY <1>1, <1>5, <1>8 DEF RepliesInv, HandedOverOnce, HandedOver
<1>10. OnePlace'
  BY <1>2, <1>3, <1>4, <1>6, <1>8 DEF RepliesInv, OnePlace
<1>11. QED
  BY <1>7, <1>9, <1>10 DEF RepliesInv

\* Steps that leave all of the tasks alone but those in the queue.
LEMMA RepliesHeld ==
  ASSUME RepliesInv, UNCHANGED <<msgs, sent, bufs, task, tx>>, PcKept,
         NoNewTask("read"), NoNewItem("write")
  PROVE  RepliesInv'
<1>1. WorkKept
  BY DEF WorkKept, PcKept, AtRest
<1>2. QED
  BY <1>1, RepliesKept

-----------------------------------------------------------------------------
(* The way of a message and of what is written for it.                     *)

\* A message gets a number that no task has.
LEMMA ReceiveReplies ==
  ASSUME RepliesInv, SocketInv, NEW c \in Conns, Receive(c)
  PROVE  RepliesInv'
<1>1. PICK x : x = [kind |-> "read", sock |-> c, msg |-> msgs + 1]
  OBVIOUS
<1>2. /\ msgs < MaxMsgs /\ msgs' = msgs + 1
      /\ Enqueue(x)
      /\ UNCHANGED <<sent, bufs, nqueue>>
  BY <1>1 DEF Receive, ReadData, netVars
<1>3. msgs \in 0 .. MaxMsgs /\ MaxMsgs \in Nat
  BY NetAssumption DEF SocketInv, ServerTypeOK
<1>4. x \in Task /\ x.kind = "read" /\ x.msg = msgs + 1
  BY <1>1, <1>2, <1>3 DEF Task
<1>5. /\ PcKept
      /\ UNCHANGED <<task, tx>>
      /\ Elements(tqueue') = Elements(tqueue) \cup {x}
      /\ \A y : Behind(tqueue', y) = Behind(tqueue, y)
                  \cup (IF y \in Elements(tqueue) THEN {x} ELSE {})
  BY <1>2, <1>4, EnqueueEffect DEF SocketInv
<1>6. \A m \in 1 .. MaxMsgs : /\ Reads(x, m) <=> m = msgs + 1
                              /\ m <= msgs => m # msgs + 1 /\ m <= msgs + 1
  BY <1>3, <1>4 DEF Reads
<1>7. ASSUME NEW m \in 1 .. MaxMsgs
      PROVE  /\ \A y \in Elements(tqueue') : Reads(y, m) =>
                  /\ m <= msgs'
                  /\ \A z \in Behind(tqueue', y) : ~Reads(z, m)
                  /\ \A w \in Workers : ~Reads(task'[w], m)
             /\ \A w \in Workers : Reads(task'[w], m) =>
                  /\ m <= msgs'
                  /\ \A v \in Workers : Reads(task'[v], m) => v = w
  <2>1. /\ \A y \in Elements(tqueue) : Reads(y, m) =>
             /\ m <= msgs
             /\ \A z \in Behind(tqueue, y) : ~Reads(z, m)
             /\ \A w \in Workers : ~Reads(task[w], m)
        /\ \A w \in Workers : Reads(task[w], m) =>
             /\ m <= msgs
             /\ \A v \in Workers : Reads(task[v], m) => v = w
    BY DEF RepliesInv, ReadOnce
  <2>2. CASE m = msgs + 1
    <3>1. /\ \A y \in Elements(tqueue) : ~Reads(y, m)
          /\ \A w \in Workers : ~Reads(task[w], m)
      BY <1>6, <2>1, <2>2
    <3>2. \A y : \A z \in Behind(tqueue', y) : Reads(z, m) => z = x /\ y \in Elements(tqueue)
      BY <1>5, <3>1, BehindElements
    <3>3. m <= msgs'
      BY <1>2, <1>3, <2>2
    <3>4. QED
      BY <1>5, <3>1, <3>2, <3>3
  <2>3. CASE m # msgs + 1
    <3>1. ~Reads(x, m)
      BY <1>6, <2>3
    <3>2. m <= msgs => m <= msgs'
      BY <1>2, <1>6
    <3>3. QED
      BY <1>5, <2>1, <3>1, <3>2
  <2>4. QED
    BY <2>2, <2>3
<1>8. \A d \in Data : d.msg \in 1 .. MaxMsgs
  BY DEF Data
<1>9. \A d : HandedOver(d)' <=> HandedOver(d)
  BY <1>2 DEF HandedOver, Got, Buffered, Queued
<1>10. ReadOnce'
  BY <1>7 DEF ReadOnce
<1>11. HandedOverOnce'
  <2>1. \A w \in Workers : pc[w] = "committing" => pc'[w] = "committing"
    BY <1>5 DEF PcKept, AtRest
  <2>2. \A d \in Data : d.msg <= msgs => d.msg <= msgs' /\ ~Reads(x, d.msg)
    BY <1>2, <1>6, <1>8
  <2>3. QED
    BY <1>5, <1>9, <2>1, <2>2 DEF RepliesInv, HandedOverOnce
<1>12. OnePlace'
  BY <1>2, <1>5 DEF RepliesInv, OnePlace, Queued, Buffered, Got
<1>13. QED
  BY <1>10, <1>11, <1>12 DEF RepliesInv

\* A worker takes a task: no other is for the same message.
LEMMA TakeReplies ==
  ASSUME RepliesInv, SocketInv, NEW w \in Workers, Take(w), UNCHANGED msgs
  PROVE  RepliesInv'
<1> DEFINE head == Head(tqueue)
<1>1. PICK x : x = head
  OBVIOUS
<1> HIDE DEF head
<1>2. /\ pc[w] \in {"ready", "woken"} /\ tqueue # << >>
      /\ tqueue' = Tail(tqueue)
      /\ pc' = [pc EXCEPT ![w] = "running"]
      /\ task' = [task EXCEPT ![w] = x]
      /\ UNCHANGED <<netVars, tx>>
  BY <1>1 DEF Take, AtQueue, head
<1>3. /\ x \in Task
      /\ Elements(tqueue') \subseteq Behind(tqueue, x)
      /\ Elements(tqueue) = Elements(tqueue') \cup {x}
      /\ \A y : Behind(tqueue', y) \subseteq Behind(tqueue, y)
  <2>1. IsSeq(tqueue)
    BY QueuesTyped DEF SocketInv
  <2>2. QED
    BY <1>1, <1>2, <2>1, TaskTaken, BehindShortened DEF head
<1>4. /\ DOMAIN pc = Workers /\ DOMAIN task = Workers
  BY WorkerTypes
<1>5. task[w].kind = "none"
  BY <1>2 DEF SocketInv, WorkersKeepTasks
<1>6. /\ task'[w] = x
      /\ \A v \in Workers \ {w} : task'[v] = task[v] /\ pc'[v] = pc[v]
  BY <1>2, <1>4
<1>7. ReadOnce'
  <2> SUFFICES ASSUME NEW m \in 1 .. MaxMsgs
               PROVE  /\ \A y \in Elements(tqueue') : Reads(y, m) =>
                           /\ m <= msgs'
                           /\ \A z \in Behind(tqueue', y) : ~Reads(z, m)
                           /\ \A v \in Workers : ~Reads(task'[v], m)
                      /\ \A v \in Workers : Reads(task'[v], m) =>
                           /\ m <= msgs'
                           /\ \A u \in Workers : Reads(task'[u], m) => u = v
    BY DEF ReadOnce
  <2>1. /\ \A y \in Elements(tqueue) : Reads(y, m) =>
             /\ m <= msgs
             /\ \A z \in Behind(tqueue, y) : ~Reads(z, m)
             /\ \A v \in Workers : ~Reads(task[v], m)
        /\ \A v \in Workers : Reads(task[v], m) =>
             /\ m <= msgs
             /\ \A u \in Workers : Reads(task[u], m) => u = v
    BY DEF RepliesInv, ReadOnce
  <2>2. x \in Elements(tqueue)
    BY <1>3
  <2>3. CASE Reads(x, m)
    <3>1. /\ m <= msgs
          /\ \A y \in Elements(tqueue') : ~Reads(y, m)
          /\ \A v \in Workers : ~Reads(task[v], m)
      BY <1>3, <2>1, <2>2, <2>3
    <3>2. QED
      BY <1>6, <3>1
  <2>4. CASE ~Reads(x, m)
    BY <1>3, <1>6, <2>1, <2>4
  <2>5. QED
    BY <2>3, <2>4
<1>8. UNCHANGED <<sent, bufs, nqueue>>
  BY <1>2 DEF netVars
<1>9. HandedOverOnce'
  <2>1. \A d : HandedOver(d)' <=> HandedOver(d)
    BY <1>8 DEF HandedOver, Got, Buffered, Queued
  <2>2. \A d \in Data : HandedOver(d) => ~Reads(x, d.msg)
    BY <1>3 DEF RepliesInv, HandedOverOnce
  <2>3. QED
    BY <1>2, <1>3, <1>6, <2>1, <2>2 DEF RepliesInv, HandedOverOnce
<1>10. OnePlace'
  BY <1>2, <1>8 DEF RepliesInv, OnePlace, Queued, Buffered, Got
<1>11. QED
  BY <1>7, <1>9, <1>10 DEF RepliesInv

\* An operation and the one behind it are different.
LEMMA WrittenOnce ==
  ASSUME NEW w, NEW n \in Nat, tx[w] = NtxNew
  PROVE  \A d : d \notin Behind(Written(w, n).ops, d)
<1> DEFINE one == <<Operation(w, 1)>>
           two == <<Operation(w, 1), Operation(w, n)>>
<1>1. Written(w, n).ops = IF n = 0 THEN << >> ELSE IF n = 1 THEN one ELSE two
  <2>1. CASE n = 0
    BY <2>1, WrittenIs DEF NtxNew
  <2>2. CASE n # 0
    BY <2>2, WrittenIs
  <2>3. QED
    BY <2>1, <2>2
<1>2. \A d : d \notin Behind(one, d)
  BY DEF Behind
<1>3. ASSUME n # 1, NEW d, d \in Behind(two, d)
      PROVE  FALSE
  <2>1. Operation(w, 1) # Operation(w, n)
    BY <1>3 DEF Operation
  <2>2. PICK i, j \in 1 .. 2 : i < j /\ two[i] = d /\ two[j] = d
    BY <1>3 DEF Behind
  <2>3. i = 1 /\ j = 2
    BY <2>2
  <2>4. QED
    BY <2>1, <2>2, <2>3
<1>4. QED
  BY <1>1, <1>2, <1>3, BehindEmpty

\* `read' has written: what it wrote is nowhere else, since until now it ran.
LEMMA EvalReadReplies ==
  ASSUME RepliesInv, SocketInv, NEW w \in Workers, NEW n \in 0 .. MaxWrites,
         EvalRead(w, n), UNCHANGED msgs
  PROVE  RepliesInv'
<1> DEFINE left == Written(w, n)
<1>1. PICK r : r = left
  OBVIOUS
<1>2. /\ pc[w] = "running" /\ task[w].kind = "read"
      /\ tx' = [tx EXCEPT ![w] = r]
      /\ \/ /\ r.ops = << >>
            /\ task' = [task EXCEPT ![w] = NoTask]
            /\ pc' = [pc EXCEPT ![w] = "ready"]
         \/ /\ pc' = [pc EXCEPT ![w] = "committing"]
            /\ UNCHANGED task
      /\ UNCHANGED <<netVars, tqueue>>
  BY <1>1 DEF EvalRead, Finished
<1>3. DOMAIN pc = Workers /\ DOMAIN task = Workers /\ DOMAIN tx = Workers
  BY WorkerTypes
<1>4. tx[w] = NtxNew
  BY <1>2 DEF SocketInv, WorkersKeepTasks
<1>5. \A d : d \notin Behind(r.ops, d)
  <2>1. n \in Nat
    BY NetAssumption
  <2>2. QED
    BY <1>1, <1>4, <2>1, WrittenOnce
<1>6. /\ tx'[w] = r
      /\ \A v \in Workers \ {w} : task'[v] = task[v] /\ pc'[v] = pc[v] /\ tx'[v] = tx[v]
      /\ task'[w] = task[w] \/ task'[w] = NoTask
  BY <1>2, <1>3
<1>7. \A v \in Workers : \A m : Reads(task'[v], m) => Reads(task[v], m)
  BY <1>6 DEF Reads, NoTask
<1>8. UNCHANGED <<sent, bufs, nqueue>>
  BY <1>2 DEF netVars
<1>9. ReadOnce'
  BY <1>2, <1>7 DEF RepliesInv, ReadOnce
<1>10. HandedOverOnce'
  <2>1. \A d : HandedOver(d)' <=> HandedOver(d)
    BY <1>8 DEF HandedOver, Got, Buffered, Queued
  <2>2. \A d \in Data : HandedOver(d) => ~Reads(task[w], d.msg)
    BY <1>2 DEF RepliesInv, HandedOverOnce
  <2>3. QED
    BY <1>2, <1>6, <1>7, <2>1, <2>2 DEF RepliesInv, HandedOverOnce
<1>11. OnePlace'
  BY <1>5, <1>6, <1>8 DEF RepliesInv, OnePlace, Queued, Buffered, Got
<1>12. QED
  BY <1>9, <1>10, <1>11 DEF RepliesInv

\* An operation leaves its transaction for the network thread's queue.
LEMMA SendReplies ==
  ASSUME RepliesInv, SocketInv, NEW w \in Workers, Send(w), UNCHANGED msgs
  PROVE  RepliesInv'
<1> DEFINE head == Head(tx[w].ops)
           rest == NtxRest(tx[w])
<1>1. PICK op, r : op = head /\ r = rest
  OBVIOUS
<1>2. /\ pc[w] = "committing"
      /\ nqueue' = Append(nqueue, [kind |-> "write", sock |-> op.sock, data |-> op])
      /\ UNCHANGED <<sent, bufs, tqueue>>
      /\ \/ /\ task' = [task EXCEPT ![w] = NoTask]
            /\ pc' = [pc EXCEPT ![w] = "ready"]
         \/ UNCHANGED <<pc, task>>
  BY <1>1 DEF Send, Finished, NetEnqueue, sockVars
<1>3. tx' = [tx EXCEPT ![w] = r]
  BY <1>1 DEF Send
<1>4. /\ tx[w].ops # << >> /\ IsSeq(tx[w].ops) /\ op \in Data
      /\ task[w].kind = "read" /\ task[w] \in Task
  BY <1>1, <1>2, NextOperation
<1>5. /\ r.ops = << >> \/ r.ops = Tail(tx[w].ops)
  BY <1>1 DEF NtxRest, NtxNew
<1>6. /\ op \in Elements(tx[w].ops)
      /\ op \notin Behind(tx[w].ops, op)
  <2>1. op \in Elements(tx[w].ops)
    BY <1>1, <1>4, Shortened
  <2>2. QED
    BY <1>4, <2>1 DEF RepliesInv, OnePlace
<1>7. /\ Elements(r.ops) \subseteq Elements(tx[w].ops)
      /\ op \notin Elements(r.ops)
      /\ \A d : Behind(r.ops, d) \subseteq Behind(tx[w].ops, d)
  <2>1. CASE r.ops = << >>
    BY <2>1, EmptySequence, BehindEmpty
  <2>2. CASE r.ops = Tail(tx[w].ops)
    BY <1>1, <1>4, <1>6, <2>2, BehindShortened
  <2>3. QED
    BY <1>5, <2>1, <2>2
<1> HIDE DEF head, rest
<1>8. DOMAIN pc = Workers /\ DOMAIN task = Workers /\ DOMAIN tx = Workers
  BY WorkerTypes
<1>9. /\ tx'[w] = r
      /\ \A v \in Workers \ {w} : task'[v] = task[v] /\ pc'[v] = pc[v] /\ tx'[v] = tx[v]
      /\ (task'[w] = task[w] /\ pc'[w] = pc[w]) \/ task'[w] = NoTask
  BY <1>2, <1>3, <1>8
<1>10. \A v \in Workers : \A m : Reads(task'[v], m) => Reads(task[v], m) /\ pc'[v] = pc[v]
  BY <1>9 DEF Reads, NoTask
<1>11. Reads(task[w], op.msg) /\ op.msg \in 1 .. MaxMsgs
  <2>1. op.msg = task[w].msg
    BY <1>2, <1>6 DEF SocketInv, WorkersKeepTasks
  <2>2. QED
    BY <1>4, <2>1 DEF Reads, Data
<1>12. ~HandedOver(op)
  BY <1>4, <1>6, <1>11 DEF RepliesInv, HandedOverOnce
<1>13. /\ nqueue' = Append(nqueue, WriteItem(op)) /\ IsSeq(nqueue)
  BY <1>2, QueuesTyped DEF WriteItem, SocketInv
<1>14. /\ Elements(nqueue') = Elements(nqueue) \cup {WriteItem(op)}
       /\ \A y : Behind(nqueue', y) = Behind(nqueue, y)
                   \cup (IF y \in Elements(nqueue) THEN {WriteItem(op)} ELSE {})
  BY <1>13, Appended, BehindAppended
<1>15. \A d : WriteItem(d) = WriteItem(op) => d = op
  BY DEF WriteItem
<1>16. /\ \A d : Queued(d)' <=> Queued(d) \/ d = op
       /\ \A d : /\ Buffered(d)' <=> Buffered(d)
                 /\ Got(d)' <=> Got(d)
  BY <1>2, <1>14, <1>15 DEF Queued, Buffered, Got
<1>17. ReadOnce'
  BY <1>2, <1>10 DEF RepliesInv, ReadOnce
<1>18. HandedOverOnce'
  <2>1. /\ op.msg <= msgs
        /\ \A x \in Elements(tqueue) : ~Reads(x, op.msg)
        /\ \A v \in Workers : Reads(task[v], op.msg) => v = w
    BY <1>11 DEF RepliesInv, ReadOnce
  <2>2. \A d : HandedOver(d)' => HandedOver(d) \/ d = op
    BY <1>16 DEF HandedOver
  <2>3. \A v \in Workers : Elements(tx'[v].ops) \subseteq Elements(tx[v].ops)
    BY <1>7, <1>9
  <2>4. ASSUME NEW d \in Data, HandedOver(d)
        PROVE  /\ d.msg <= msgs
               /\ \A x \in Elements(tqueue) : ~Reads(x, d.msg)
               /\ \A v \in Workers : Reads(task'[v], d.msg) =>
                    pc'[v] = "committing" /\ d \notin Elements(tx'[v].ops)
    BY <1>10, <2>3, <2>4 DEF RepliesInv, HandedOverOnce
  <2>5. \A v \in Workers : Reads(task'[v], op.msg) =>
          pc'[v] = "committing" /\ op \notin Elements(tx'[v].ops)
    BY <1>2, <1>7, <1>9, <1>10, <2>1
  <2>6. QED
    BY <1>2, <2>1, <2>2, <2>4, <2>5 DEF HandedOverOnce
<1>19. OnePlace'
  <2>1. ~Queued(op) /\ ~Buffered(op) /\ ~Got(op)
    BY <1>12 DEF HandedOver
  <2>2. \A d : WriteItem(d) \in Behind(nqueue', WriteItem(d)) =>
                 WriteItem(d) \in Behind(nqueue, WriteItem(d))
    BY <1>14, <1>15, <2>1 DEF Queued
  <2>3. \A v \in Workers : \A d : Behind(tx'[v].ops, d) \subseteq Behind(tx[v].ops, d)
    BY <1>7, <1>9
  <2>4. QED
    BY <1>2, <1>16, <2>1, <2>2, <2>3 DEF RepliesInv, OnePlace
<1>20. QED
  BY <1>17, <1>18, <1>19 DEF RepliesInv

\* WRITE items name the socket the output was written for.
LEMMA WriteItemShape ==
  ASSUME ServerInv, SocketInv, NEW x \in Elements(nqueue), x.kind = "write"
  PROVE  x.data \in Data /\ x.sock \in Conns /\ x.sock = x.data.sock /\ x = WriteItem(x.data)
<1>1. x \in NetItem
  BY QueuesTyped DEF SocketInv
<1>2. x.data.sock = x.sock
  BY DEF ServerInv, OwnOutput
<1>3. x \in [kind : {"write"}, sock : Conns, data : Data]
  BY <1>1 DEF NetItem
<1>4. QED
  BY <1>2, <1>3 DEF WriteItem

\* A WRITE item becomes a buffer.
LEMMA HandleWriteReplies ==
  ASSUME RepliesInv, SocketInv, ServerInv, HandleWrite, UNCHANGED <<taskVars, msgs>>
  PROVE  RepliesInv'
<1> DEFINE head == Head(nqueue)
<1>1. PICK x : x = head
  OBVIOUS
<1> HIDE DEF head
<1>2. /\ nqueue # << >> /\ nqueue' = Tail(nqueue) /\ x.kind = "write"
      /\ bufs' = [bufs EXCEPT ![x.sock] = Append(@, x.data)]
      /\ UNCHANGED sent
      /\ UNCHANGED <<pc, task, tx, tqueue, msgs>>
  BY <1>1 DEF HandleWrite, Handle, CanHandle, Named, taskVars, head
<1>3. IsSeq(nqueue) /\ \A c \in Conns : IsSeq(bufs[c])
  BY DEF ServerInv, SocketsTyped
<1>4. x \in Elements(nqueue)
  BY <1>1, <1>2, <1>3, Shortened DEF head
<1>5. PICK d \in Data : d = x.data /\ x.sock = d.sock /\ x = WriteItem(d) /\ d.sock \in Conns
  BY <1>2, <1>4, WriteItemShape
<1>6. /\ \A y : Behind(nqueue', y) \subseteq Behind(nqueue, y)
      /\ Elements(nqueue') \subseteq Behind(nqueue, WriteItem(d))
      /\ Elements(nqueue) = Elements(nqueue') \cup {WriteItem(d)}
  BY <1>1, <1>2, <1>3, <1>5, BehindShortened DEF head
<1>7. /\ bufs'[d.sock] = Append(bufs[d.sock], d)
      /\ \A c \in Conns \ {d.sock} : bufs'[c] = bufs[c]
  <2>1. DOMAIN bufs = Conns
    BY DEF ServerInv, SocketsTyped
  <2>2. QED
    BY <1>2, <1>5, <2>1
<1>8. /\ Elements(bufs'[d.sock]) = Elements(bufs[d.sock]) \cup {d}
      /\ \A y : Behind(bufs'[d.sock], y) = Behind(bufs[d.sock], y)
                  \cup (IF y \in Elements(bufs[d.sock]) THEN {d} ELSE {})
  <2>1. PICK q : q = bufs[d.sock]
    OBVIOUS
  <2>2. IsSeq(q) /\ bufs'[d.sock] = Append(q, d)
    BY <1>3, <1>5, <1>7, <2>1
  <2>3. QED
    BY <2>1, <2>2, Appended, BehindAppended
<1>9. Queued(d) /\ ~Buffered(d) /\ ~Got(d)
  <2>1. Queued(d)
    BY <1>4, <1>5 DEF Queued
  <2>2. QED
    BY <2>1 DEF RepliesInv, OnePlace
<1>10. WriteItem(d) \notin Elements(nqueue')
  BY <1>6 DEF RepliesInv, OnePlace
<1>11. \A e : WriteItem(e) = WriteItem(d) => e = d
  BY DEF WriteItem
<1>12. \A e \in Data : e.sock \in Conns
  BY DEF Data
<1>13. \A e \in Data : /\ Queued(e)' <=> Queued(e) /\ e # d
                       /\ Buffered(e)' <=> Buffered(e) \/ e = d
                       /\ Got(e)' <=> Got(e)
  <2>1. \A e : Queued(e)' <=> Queued(e) /\ e # d
    BY <1>6, <1>10, <1>11 DEF Queued
  <2>2. \A e \in Data : Buffered(e)' <=> Buffered(e) \/ e = d
    BY <1>7, <1>8, <1>12 DEF Buffered
  <2>3. QED
    BY <1>2, <2>1, <2>2 DEF Got
<1>14. ReadOnce'
  BY <1>2 DEF RepliesInv, ReadOnce
<1>15. HandedOverOnce'
  <2>1. \A e \in Data : HandedOver(e)' => HandedOver(e)
    BY <1>9, <1>13 DEF HandedOver
  <2>2. QED
    BY <1>2, <2>1 DEF RepliesInv, HandedOverOnce
<1>16. OnePlace'
  <2>1. \A e \in Data : WriteItem(e) \notin Behind(nqueue', WriteItem(e))
    BY <1>6 DEF RepliesInv, OnePlace
  <2>2. \A e \in Data : e \notin Behind(bufs'[e.sock], e)
    <3> SUFFICES ASSUME NEW e \in Data
                 PROVE  e \notin Behind(bufs'[e.sock], e)
      OBVIOUS
    <3>1. e \notin Behind(bufs[e.sock], e)
      BY DEF RepliesInv, OnePlace
    <3>2. CASE e.sock = d.sock
      <4>1. e \in Behind(bufs'[d.sock], e) => e = d /\ d \in Elements(bufs[d.sock])
        BY <1>8, <3>1, <3>2
      <4>2. QED
        BY <1>9, <3>2, <4>1 DEF Buffered
    <3>3. CASE e.sock # d.sock
      BY <1>7, <1>12, <3>1, <3>3
    <3>4. QED
      BY <3>2, <3>3
  <2>3. \A e \in Data : /\ ~(Queued(e)' /\ Buffered(e)')
                        /\ ~(Queued(e)' /\ Got(e)') /\ ~(Buffered(e)' /\ Got(e)')
    BY <1>9, <1>13 DEF RepliesInv, OnePlace
  <2>4. QED
    BY <1>2, <2>1, <2>2, <2>3 DEF RepliesInv, OnePlace
<1>17. QED
  BY <1>14, <1>15, <1>16 DEF RepliesInv

\* A buffer goes to the client that has the descriptor.
LEMMA WriteBufferReplies ==
  ASSUME RepliesInv, ServerInv, NEW c \in Conns, WriteBuffer(c), UNCHANGED <<taskVars, msgs>>
  PROVE  RepliesInv'
<1> DEFINE head == Head(bufs[c])
<1>1. PICK d : d = head
  OBVIOUS
<1> HIDE DEF head
<1>2. /\ writing[c] /\ life[c] \in {"open", "eof"}
      /\ bufs' = [bufs EXCEPT ![c] = Tail(@)]
      /\ UNCHANGED <<nqueue, pc, task, tx, tqueue, msgs>>
  BY DEF WriteBuffer, taskVars
<1>3. PICK r \in Conns : sent' = [sent EXCEPT ![r] = Append(@, d)]
  BY <1>1 DEF WriteBuffer, Receivers, head
<1>4. /\ DOMAIN bufs = Conns /\ DOMAIN sent = Conns
      /\ bufs[c] # << >>
      /\ \A e \in Conns : IsSeq(bufs[e]) /\ IsSeq(sent[e])
  BY <1>2 DEF ServerInv, SocketsTyped, WatcherHasBuffer
<1>5. d \in Elements(bufs[c]) /\ d.sock = c
  <2>1. d \in Elements(bufs[c])
    BY <1>1, <1>4, Shortened DEF head
  <2>2. QED
    BY <2>1 DEF ServerInv, OwnOutput
<1>6. /\ bufs'[c] = Tail(bufs[c])
      /\ \A e \in Conns \ {c} : bufs'[e] = bufs[e]
  BY <1>2, <1>4
<1>7. /\ \A y : Behind(bufs'[c], y) \subseteq Behind(bufs[c], y)
      /\ Elements(bufs'[c]) \subseteq Behind(bufs[c], d)
      /\ Elements(bufs[c]) = Elements(bufs'[c]) \cup {d}
  BY <1>1, <1>4, <1>6, BehindShortened DEF head
<1>8. /\ sent'[r] = Append(sent[r], d)
      /\ \A e \in Conns \ {r} : sent'[e] = sent[e]
  BY <1>3, <1>4
<1>9. /\ Elements(sent'[r]) = Elements(sent[r]) \cup {d}
      /\ \A y : Behind(sent'[r], y) = Behind(sent[r], y)
                  \cup (IF y \in Elements(sent[r]) THEN {d} ELSE {})
  BY <1>4, <1>8, Appended, BehindAppended
<1>10. \A e \in Data : e.sock \in Conns
  BY DEF Data
<1>11. \A e \in Data : /\ Queued(e)' <=> Queued(e)
                       /\ Buffered(e)' => Buffered(e)
                       /\ Got(e)' <=> Got(e) \/ e = d
  <2>1. \A e \in Data : Buffered(e)' => Buffered(e)
    BY <1>6, <1>7, <1>10 DEF Buffered
  <2>2. \A e : Got(e)' <=> Got(e) \/ e = d
    BY <1>8, <1>9 DEF Got
  <2>3. QED
    BY <1>2, <2>1, <2>2 DEF Queued
<1>12. d \in Data => Buffered(d) /\ ~Queued(d) /\ ~Got(d) /\ ~Buffered(d)'
  <2> SUFFICES ASSUME d \in Data
               PROVE  Buffered(d) /\ ~Queued(d) /\ ~Got(d) /\ ~Buffered(d)'
    OBVIOUS
  <2>1. Buffered(d)
    BY <1>5 DEF Buffered
  <2>2. ~Queued(d) /\ ~Got(d)
    BY <2>1 DEF RepliesInv, OnePlace
  <2>3. d \notin Behind(bufs[c], d)
    BY <1>5 DEF RepliesInv, OnePlace
  <2>4. ~Buffered(d)'
    BY <1>5, <1>7, <2>3 DEF Buffered
  <2>5. QED
    BY <2>1, <2>2, <2>4
<1>13. ReadOnce'
  BY <1>2 DEF RepliesInv, ReadOnce
<1>14. HandedOverOnce'
  <2>1. \A e \in Data : HandedOver(e)' => HandedOver(e)
    BY <1>11, <1>12 DEF HandedOver
  <2>2. QED
    BY <1>2, <2>1 DEF RepliesInv, HandedOverOnce
<1>15. OnePlace'
  <2>1. \A e \in Data : e \notin Behind(bufs'[e.sock], e)
    BY <1>6, <1>7, <1>10 DEF RepliesInv, OnePlace
  <2>2. \A e \in Data : /\ ~(Queued(e)' /\ Buffered(e)')
                        /\ ~(Queued(e)' /\ Got(e)') /\ ~(Buffered(e)' /\ Got(e)')
    BY <1>11, <1>12 DEF RepliesInv, OnePlace
  <2>3. ASSUME NEW e \in Data, NEW b \in Conns
        PROVE  /\ e \notin Behind(sent'[b], e)
               /\ \A a \in Conns : e \in Elements(sent'[b]) /\ e \in Elements(sent'[a]) => b = a
    <3>1. /\ e \notin Behind(sent[b], e)
          /\ \A a \in Conns : e \in Elements(sent[b]) /\ e \in Elements(sent[a]) => b = a
      BY DEF RepliesInv, OnePlace
    <3>2. CASE e = d
      <4>1. \A a \in Conns : e \notin Elements(sent[a])
        BY <1>12, <3>2 DEF Got
      <4>2. \A a \in Conns : e \in Elements(sent'[a]) => a = r
        BY <1>8, <4>1
      <4>3. e \notin Behind(sent'[b], e)
        BY <1>8, <1>9, <3>1, <4>1
      <4>4. QED
        BY <4>2, <4>3
    <3>3. CASE e # d
      BY <1>8, <1>9, <3>1, <3>3
    <3>4. QED
      BY <3>2, <3>3
  <2>4. QED
    BY <1>2, <2>1, <2>2, <2>3 DEF RepliesInv, OnePlace
<1>16. QED
  BY <1>13, <1>14, <1>15 DEF RepliesInv

-----------------------------------------------------------------------------
(* Every other step leaves output where it is, or drops it.                *)

LEMMA NothingNew ==
  /\ \A kind : NoneNew(tqueue, tqueue, kind)
  /\ \A kind : NoneNew(nqueue, nqueue, kind)
  BY NoneNewSame

\* Steps that leave both queues, and the tasks, alone.
LEMMA OthersReplies ==
  ASSUME RepliesInv, UNCHANGED <<msgs, sent, bufs, tqueue, nqueue, task, tx>>, PcKept
  PROVE  RepliesInv'
<1>1. NoNewTask("read") /\ NoNewItem("write")
  BY NothingNew DEF NoNewTask, NoNewItem
<1>2. QED
  BY <1>1, RepliesHeld

LEMMA CrashReplies ==
  ASSUME RepliesInv, NEW f, NetCrash(f), UNCHANGED <<taskVars, msgs>>
  PROVE  RepliesInv'
  BY OthersReplies DEF NetCrash, PcKept, taskVars, sockVars

\* The callbacks from net.c that enqueue another task than `read'.
LEMMA CallbackReplies ==
  ASSUME RepliesInv, SocketInv, NEW x \in Task, x.kind # "read", Enqueue(x),
         UNCHANGED <<msgs, sent, bufs>>, NoNewItem("write")
  PROVE  RepliesInv'
<1>1. PcKept /\ UNCHANGED <<task, tx>> /\ NoNewTask("read")
  BY EnqueueEffect DEF SocketInv
<1>2. QED
  BY <1>1, RepliesHeld

LEMMA ClientReplies ==
  ASSUME RepliesInv, SocketInv, ServerInv, NEW c \in Conns,
         Connect(c) \/ Receive(c) \/ HangUp(c) \/ Output(c)
  PROVE  RepliesInv'
<1>1. CASE Connect(c)
  <2>1. PICK x : x = [kind |-> "accept", sock |-> c]
    OBVIOUS
  <2>2. x \in Task /\ x.kind # "read" /\ Enqueue(x)
    BY <1>1, <2>1 DEF Connect, Task
  <2>3. UNCHANGED <<msgs, sent, bufs, nqueue>>
    BY <1>1 DEF Connect, Accept
  <2>4. NoNewItem("write")
    BY <2>3, NothingNew DEF NoNewItem
  <2>5. QED
    BY <2>2, <2>3, <2>4, CallbackReplies
<1>2. CASE HangUp(c)
  <2>1. PICK x : x = [kind |-> "closed", sock |-> c]
    OBVIOUS
  <2>2. x \in Task /\ x.kind # "read" /\ Enqueue(x)
    BY <1>2, <2>1 DEF HangUp, Task
  <2>3. UNCHANGED <<msgs, sent, bufs, nqueue>>
    BY <1>2 DEF HangUp, ReadEof
  <2>4. NoNewItem("write")
    BY <2>3, NothingNew DEF NoNewItem
  <2>5. QED
    BY <2>2, <2>3, <2>4, CallbackReplies
<1>3. CASE Output(c)
  <2>1. CASE WriteSome(c) \/ WriteFails(c)
    BY <1>3, <2>1, OthersReplies DEF WriteSome, WriteFails, Output, PcKept, taskVars
  <2>2. CASE WriteBuffer(c)
    BY <1>3, <2>2, WriteBufferReplies DEF Output
  <2>3. QED
    BY <1>3, <2>1, <2>2 DEF Output
<1>4. QED
  BY <1>1, <1>2, <1>3, ReceiveReplies

\* An item that is not WRITE is taken off the queue; FREE drops the buffers.
LEMMA ItemReplies ==
  ASSUME RepliesInv, SocketInv, NEW kind, Handle(kind),
         UNCHANGED <<taskVars, msgs, sent>>,
         \A c \in Conns : bufs'[c] \in {bufs[c], << >>}
  PROVE  RepliesInv'
<1>1. NoNewItem("write")
  BY HandleEffect DEF ItemsKept, ItemKinds
<1>2. NoNewTask("read")
  BY NothingNew DEF NoNewTask, taskVars
<1>3. WorkKept
  BY DEF WorkKept, taskVars
<1>4. QED
  BY <1>1, <1>2, <1>3, RepliesKept

LEMMA HandleReplies ==
  ASSUME RepliesInv, SocketInv, ServerInv, ListenFails \/ Listen \/ HandleItem
  PROVE  RepliesInv'
<1>1. CASE ListenFails
  <2>1. PICK x : x = [kind |-> "listen_error"]
    OBVIOUS
  <2>2. x \in Task /\ x.kind # "read" /\ Enqueue(x)
    BY <1>1, <2>1 DEF ListenFails, Task
  <2>3. Handle("new_listener") /\ UNCHANGED <<msgs, sent, bufs>>
    BY <1>1 DEF ListenFails, HandleListenFails, sockVars
  <2>4. NoNewItem("write")
    BY <2>3, HandleEffect DEF ItemsKept, ItemKinds
  <2>5. QED
    BY <2>2, <2>3, <2>4, CallbackReplies
<1>2. CASE Listen
  <2>1. Handle("new_listener") /\ UNCHANGED <<taskVars, msgs, sent, bufs>>
    BY <1>2 DEF Listen, HandleNewListener, HandleListenFails, sockVars
  <2>2. QED
    BY <2>1, ItemReplies
<1>3. CASE HandleItem
  <2>1. UNCHANGED <<taskVars, msgs>>
    BY <1>3 DEF HandleItem
  <2>2. CASE HandleStop \/ HandleStopListener \/ HandleInit
    <3>1. (\E kind : Handle(kind)) /\ UNCHANGED <<sent, bufs>>
      BY <2>2 DEF HandleStop, HandleStopListener, HandleInit, sockVars
    <3>2. QED
      BY <2>1, <3>1, ItemReplies
  <2>3. CASE HandleWrite
    BY <2>1, <2>3, HandleWriteReplies
  <2>4. CASE HandleFree
    <3>1. DOMAIN bufs = Conns
      BY DEF ServerInv, SocketsTyped
    <3>2. Handle("free") /\ UNCHANGED sent /\ \A c \in Conns : bufs'[c] \in {bufs[c], << >>}
      BY <2>4, <3>1 DEF HandleFree
    <3>3. QED
      BY <2>1, <3>2, ItemReplies
  <2>5. CASE HandleFreed
    BY <2>1, <2>5, CrashReplies DEF HandleFreed
  <2>6. QED
    BY <1>3, <2>2, <2>3, <2>4, <2>5 DEF HandleItem
<1>4. QED
  BY <1>1, <1>2, <1>3

\* An item that is not WRITE is added to the queue.
LEMMA EnqueuedReplies ==
  ASSUME RepliesInv, SocketInv, NEW x \in NetItem, x.kind # "write", NetEnqueue(x),
         WorkKept, NoNewTask("read"), UNCHANGED <<msgs, sent, bufs>>
  PROVE  RepliesInv'
<1>1. NoNewItem("write")
  BY NetEnqueueEffect DEF SocketInv
<1>2. QED
  BY <1>1, RepliesKept

LEMMA ReleaseReplies ==
  ASSUME RepliesInv, SocketInv, NEW a \in Threads, Release(a) \/ ReleaseEnds(a)
  PROVE  RepliesInv'
<1>1. CASE RelLoad(a) \/ RelStore(a) \/ RelUnlatch(a)
  <2>1. UNCHANGED <<taskVars, msgs, sent, bufs, nqueue>>
    BY <1>1 DEF RelLoad, RelStore, RelUnlatch, Release, ReleaseEnds, sockVars
  <2>2. QED
    BY <2>1, OthersReplies DEF PcKept, taskVars
<1>2. CASE RelFreed(a)
  BY <1>2, CrashReplies DEF RelFreed, Release, ReleaseEnds
<1>3. CASE RelCheck(a)
  <2> DEFINE item == [kind |-> "free", sock |-> relSock[a]]
  <2>1. PICK x : x = item
    OBVIOUS
  <2>2. UNCHANGED <<taskVars, msgs, sent, bufs>> /\ (NetEnqueue(x) \/ UNCHANGED nqueue)
    BY <1>3, <2>1 DEF RelCheck, Release, ReleaseEnds, sockVars
  <2>3. relAt[a] = "check"
    BY <1>3 DEF RelCheck
  <2>4. x \in NetItem /\ x.kind # "write"
    <3>1. relSock[a] \in Conns
      BY <2>3, ReleaseTypes DEF SocketInv, NetReleases
    <3>2. QED
      BY <2>1, <3>1 DEF NetItem
  <2>5. NoNewTask("read") /\ WorkKept /\ PcKept
    BY <2>2, NothingNew DEF NoNewTask, WorkKept, PcKept, taskVars
  <2>6. QED
    BY <2>2, <2>4, <2>5, EnqueuedReplies, OthersReplies DEF taskVars
<1>4. QED
  BY <1>1, <1>2, <1>3 DEF Release, ReleaseEnds

LEMMA SucceedReplies ==
  ASSUME RepliesInv, SocketInv, NEW w \in Workers, Succeed(w)
  PROVE  RepliesInv'
<1>1. UNCHANGED msgs /\ DOMAIN pc = Workers /\ DOMAIN task = Workers
  BY WorkerTypes DEF Succeed
<1>2. ASSUME Finished(w), UNCHANGED tx, pc[w] # "committing"
      PROVE  WorkKept
  <2>1. /\ \A v \in Workers \ {w} : task'[v] = task[v] /\ pc'[v] = pc[v]
        /\ task'[w].kind # "read"
    BY <1>1, <1>2 DEF Finished, NoTask
  <2>2. tx'[w].ops = << >>
    BY <1>2 DEF SocketInv, WorkersKeepTasks, NtxNew
  <2>3. QED
    BY <1>2, <2>1, <2>2 DEF WorkKept
<1>3. UNCHANGED tqueue => NoNewTask("read")
  BY NothingNew DEF NoNewTask
<1>4. UNCHANGED nqueue => NoNewItem("write")
  BY NothingNew DEF NoNewItem
<1>5. CASE \E n \in 0 .. MaxWrites : EvalRead(w, n)
  BY <1>1, <1>5, EvalReadReplies
<1>6. CASE Send(w)
  BY <1>1, <1>6, SendReplies
<1>7. CASE SendFreed(w)
  BY <1>1, <1>7, CrashReplies DEF SendFreed
<1>8. CASE Released(w)
  <2>1. Finished(w) /\ pc[w] # "committing" /\ UNCHANGED <<sent, bufs, nqueue, tqueue, tx>>
    BY <1>8 DEF Released, netVars
  <2>2. QED
    BY <1>1, <1>2, <1>3, <1>4, <2>1, RepliesKept
<1>9. CASE EvalClosed(w)
  <2>1. /\ pc' = [pc EXCEPT ![w] = "releasing"] /\ pc[w] = "running"
        /\ UNCHANGED <<sent, bufs, nqueue, tqueue, task, tx>>
    BY <1>9 DEF EvalClosed, sockVars
  <2>2. WorkKept
    BY <1>1, <2>1 DEF WorkKept
  <2>3. QED
    BY <1>1, <1>3, <1>4, <2>1, <2>2, RepliesKept
<1>10. CASE EvalAccept(w)
  <2> DEFINE item == [kind |-> "init", sock |-> task[w].sock]
  <2>1. PICK x : x = item
    OBVIOUS
  <2>2. /\ NetEnqueue(x) /\ Finished(w) /\ pc[w] = "running" /\ task[w].kind = "accept"
        /\ UNCHANGED <<sent, bufs, tqueue, tx>>
    BY <1>10, <2>1 DEF EvalAccept, ObjAccept, sockVars
  <2>3. x \in NetItem /\ x.kind # "write"
    <3>1. task[w] \in Task
      BY <2>2, WorkerTypes DEF NoTask
    <3>2. task[w].sock \in Conns
      BY <2>2, <3>1, TaskShape
    <3>3. QED
      BY <2>1, <3>2 DEF NetItem
  <2>4. QED
    BY <1>1, <1>2, <1>3, <2>2, <2>3, EnqueuedReplies
<1>11. CASE EvalStop(w)
  <2> DEFINE item == [kind |-> "stop_listener"]
  <2>1. PICK x : x = item
    OBVIOUS
  <2>2. /\ NetEnqueue(x) /\ Finished(w) /\ pc[w] = "running"
        /\ UNCHANGED <<sent, bufs, tqueue, tx>>
    BY <1>11, <2>1 DEF EvalStop, ObjShutdown, sockVars
  <2>3. x \in NetItem /\ x.kind # "write"
    BY <2>1 DEF NetItem
  <2>4. QED
    BY <1>1, <1>2, <1>3, <2>2, <2>3, EnqueuedReplies
<1>12. QED
  BY <1>5, <1>6, <1>7, <1>8, <1>9, <1>10, <1>11 DEF Succeed

LEMMA WorkerReplies ==
  ASSUME RepliesInv, SocketInv, NEW w \in Workers, Fail(w) \/ Dequeue(w) \/ Rest(w)
  PROVE  RepliesInv'
<1>1. /\ UNCHANGED msgs
      /\ pc \in [Workers -> {"ready", "waiting", "woken", "running", "committing",
                             "releasing", "exited"}]
      /\ DOMAIN tx = Workers
  BY WorkerTypes DEF Fail, Dequeue, Rest
<1>2. CASE Fail(w)
  <2>1. /\ pc[w] = "running" /\ tx' = [tx EXCEPT ![w] = NtxNew]
        /\ UNCHANGED <<netVars, tqueue, pc, task>>
    BY <1>2 DEF Fail, Retry, NtxRollback
  <2>2. tx[w] = NtxNew
    BY <2>1 DEF SocketInv, WorkersKeepTasks
  <2>3. \A v \in Workers : tx'[v] = tx[v]
    BY <1>1, <2>1, <2>2
  <2>4. WorkKept /\ NoNewTask("read") /\ NoNewItem("write")
    BY <2>1, <2>3, NothingNew DEF WorkKept, NoNewTask, NoNewItem, netVars
  <2>5. QED
    BY <1>1, <2>1, <2>4, RepliesKept DEF netVars
<1>3. CASE Take(w)
  BY <1>1, <1>3, TakeReplies
<1>4. CASE TakeInit(w)
  <2> DEFINE item == [kind |-> "new_listener"]
  <2>1. PICK x : x = item
    OBVIOUS
  <2>2. /\ NetEnqueue(x) /\ pc[w] \in {"ready", "woken"} /\ pc' = [pc EXCEPT ![w] = "ready"]
        /\ tqueue # << >> /\ tqueue' = Tail(tqueue)
        /\ UNCHANGED <<sent, bufs, task, tx>>
    BY <1>4, <2>1 DEF TakeInit, ObjInit, AtQueue, sockVars
  <2>3. x \in NetItem /\ x.kind # "write"
    BY <2>1 DEF NetItem
  <2>4. WorkKept
    BY <1>1, <2>2 DEF WorkKept
  <2>5. NoNewTask("read")
    BY <2>2, TaskTaken
  <2>6. QED
    BY <1>1, <2>2, <2>3, <2>4, <2>5, EnqueuedReplies
<1>5. CASE Wait(w) \/ Exit(w)
  <2>1. /\ pc[w] \in {"ready", "woken"}
        /\ pc' = [pc EXCEPT ![w] = "waiting"] \/ pc' = [pc EXCEPT ![w] = "exited"]
        /\ UNCHANGED <<netVars, tqueue, task, tx>>
    BY <1>5 DEF Wait, Exit, AtQueue
  <2>2. PcKept
    BY <1>1, <2>1 DEF PcKept, AtRest
  <2>3. QED
    BY <1>1, <2>1, <2>2, OthersReplies DEF netVars
<1>6. QED
  BY <1>2, <1>3, <1>4, <1>5 DEF Dequeue, Rest

LEMMA MainReplies ==
  ASSUME RepliesInv, SocketInv, StopTasks \/ FreeTasks \/ StopNet \/ FreeNet
  PROVE  RepliesInv'
<1>1. CASE StopTasks
  <2>1. PICK x : x = [kind |-> "stop"]
    OBVIOUS
  <2>2. /\ x \in Task /\ x.kind # "read" /\ Enqueue(x)
        /\ UNCHANGED <<msgs, sent, bufs, nqueue>>
    BY <1>1, <2>1 DEF StopTasks, Task, netVars
  <2>3. NoNewItem("write")
    BY <2>2, NothingNew DEF NoNewItem
  <2>4. QED
    BY <2>2, <2>3, CallbackReplies
<1>2. CASE FreeTasks
  <2>1. UNCHANGED <<netVars, taskVars, msgs>>
    BY <1>2 DEF FreeTasks
  <2>2. QED
    BY <2>1, OthersReplies DEF PcKept, netVars, taskVars
<1>3. CASE StopNet
  <2>1. PICK x : x = [kind |-> "stop"]
    OBVIOUS
  <2>2. /\ x \in NetItem /\ x.kind # "write" /\ NetEnqueue(x)
        /\ UNCHANGED <<taskVars, msgs, sent, bufs>>
    BY <1>3, <2>1 DEF StopNet, NetItem, sockVars
  <2>3. NoNewTask("read") /\ WorkKept
    BY <2>2, NothingNew DEF NoNewTask, WorkKept, taskVars
  <2>4. QED
    BY <2>2, <2>3, EnqueuedReplies
<1>4. CASE FreeNet
  <2>1. /\ UNCHANGED <<taskVars, msgs, sent, nqueue>>
        /\ bufs' = [c \in Conns |-> << >>]
    BY <1>4 DEF FreeNet, NetFreeCtx
  <2>2. /\ NoNewTask("read") /\ NoNewItem("write") /\ WorkKept
        /\ \A c \in Conns : bufs'[c] \in {bufs[c], << >>}
    BY <2>1, NothingNew DEF NoNewTask, NoNewItem, WorkKept, taskVars
  <2>3. QED
    BY <2>1, <2>2, RepliesKept
<1>5. QED
  BY <1>1, <1>2, <1>3, <1>4

LEMMA RepliesInit == ServerInit => RepliesInv
<1> SUFFICES ASSUME ServerInit PROVE RepliesInv
  OBVIOUS
<1>1. /\ nqueue = << >> /\ bufs = [c \in Conns |-> << >>] /\ sent = [c \in Conns |-> << >>]
      /\ tqueue = <<[kind |-> "init"]>>
      /\ task = [w \in Workers |-> NoTask] /\ tx = [w \in Workers |-> NtxNew]
  BY DEF ServerInit, NetInit, TasksInit
<1>2. \A x \in Elements(tqueue) : x.kind = "init"
  BY <1>1 DEF Elements
<1>3. \A w \in Workers : task[w].kind = "none" /\ tx[w].ops = << >>
  BY <1>1 DEF NoTask, NtxNew
<1>4. \A d \in Data : d.sock \in Conns
  BY DEF Data
<1>5. \A d \in Data : ~Got(d) /\ ~Buffered(d) /\ ~Queued(d)
  BY <1>1, <1>4, EmptySequence DEF Got, Buffered, Queued
<1>6. ReadOnce
  BY <1>2, <1>3 DEF ReadOnce, Reads
<1>7. HandedOverOnce
  BY <1>5 DEF HandedOverOnce, HandedOver
<1>8. OnePlace
  BY <1>1, <1>3, <1>4, <1>5, EmptySequence, BehindEmpty DEF OnePlace
<1>9. QED
  BY <1>6, <1>7, <1>8 DEF RepliesInv

LEMMA RepliesStep ==
  ASSUME RepliesInv, SocketInv, ServerInv, [ServerNext]_serverVars
  PROVE  RepliesInv'
<1>1. CASE UNCHANGED serverVars
  <2>1. UNCHANGED <<netVars, taskVars, msgs>>
    BY <1>1 DEF serverVars
  <2>2. QED
    BY <2>1, OthersReplies DEF PcKept, netVars, taskVars
<1>2. CASE CallbackFreed \/ FreedMemory
  <2>1. UNCHANGED <<taskVars, msgs>> /\ \E f : NetCrash(f)
    BY <1>2 DEF CallbackFreed, FreedMemory, AcceptFreed, WatcherFreed
  <2>2. QED
    BY <2>1, CrashReplies
<1>3. \A w \in Workers : w \in Threads
  BY DEF Threads
<1>4. QED
  BY <1>1, <1>2, <1>3, ClientReplies, HandleReplies, ReleaseReplies, SucceedReplies,
     WorkerReplies, MainReplies DEF ServerNext

\* The invariant holds in every state the server can reach.
THEOREM RepliesInvariant == ServerSpec => []RepliesInv
<1>1. RepliesInv /\ SocketInv /\ ServerInv /\ [ServerNext]_serverVars => RepliesInv'
  BY RepliesStep
<1>2. QED
  BY RepliesInit, <1>1, SocketInvariant, ServerInvariant, PTL DEF ServerSpec

-----------------------------------------------------------------------------
(* What is in one place leaves one trace.                                  *)

LEMMA OneOccurrence ==
  ASSUME NEW q, IsSeq(q), NEW x, x \notin Behind(q, x)
  PROVE  \A i, j \in DOMAIN q : q[i] = x /\ q[j] = x => i = j
<1> SUFFICES ASSUME NEW i \in DOMAIN q, NEW j \in DOMAIN q, q[i] = x, q[j] = x
             PROVE  i = j
  OBVIOUS
<1>1. DOMAIN q = 1 .. Len(q) /\ Len(q) \in Nat
  BY DEF IsSeq
<1>2. i \in Nat /\ j \in Nat
  BY <1>1
<1>3. ~(i < j) /\ ~(j < i)
  BY DEF Behind
<1>4. QED
  BY <1>2, <1>3

LEMMA OneTrace ==
  ASSUME RepliesInv, SocketInv, ServerInv, NEW d \in Data
  PROVE  \A a, b \in Traces(d) : a = b
<1> DEFINE GotTrace(a) ==
             \E c \in Conns : \E i \in DOMAIN sent[c] : sent[c][i] = d /\ a = <<c, "sent", i>>
           BufferTrace(a) ==
             \E i \in DOMAIN bufs[d.sock] : bufs[d.sock][i] = d /\ a = <<d.sock, "buffer", i>>
           QueueTrace(a) ==
             \E i \in DOMAIN nqueue : /\ nqueue[i].kind = "write" /\ nqueue[i].data = d
                                      /\ a = <<d.sock, "queue", i>>
           HeldTrace(a) ==
             \E w \in Workers : \E i \in DOMAIN tx[w].ops :
               tx[w].ops[i] = d /\ a = <<w, "tx", i>>
<1>1. \A a \in Traces(d) : GotTrace(a) \/ BufferTrace(a) \/ QueueTrace(a) \/ HeldTrace(a)
  BY DEF Traces, Occurrences
<1>2. /\ \A c \in Conns : IsSeq(sent[c]) /\ IsSeq(bufs[c])
      /\ IsSeq(nqueue) /\ d.sock \in Conns /\ d.msg \in 1 .. MaxMsgs
  BY DEF ServerInv, SocketsTyped, Data
<1>3. \A w \in Workers : IsSeq(tx[w].ops)
  <2> SUFFICES ASSUME NEW w \in Workers PROVE IsSeq(tx[w].ops)
    OBVIOUS
  <2>1. tx[w].ops \in Seq(Data)
    BY WorkerTypes
  <2>2. QED
    BY <2>1, ElementsOfSeq
<1>4. \A w \in Workers : d \in Elements(tx[w].ops) =>
        pc[w] = "committing" /\ Reads(task[w], d.msg)
  <2> SUFFICES ASSUME NEW w \in Workers, d \in Elements(tx[w].ops)
               PROVE  pc[w] = "committing" /\ Reads(task[w], d.msg)
    OBVIOUS
  <2>1. pc[w] = "committing"
    <3>1. tx[w] = NtxNew => tx[w].ops = << >>
      BY DEF NtxNew
    <3>2. QED
      BY <3>1, EmptySequence DEF SocketInv, WorkersKeepTasks
  <2>2. QED
    BY <2>1 DEF SocketInv, WorkersKeepTasks, Reads
<1>5. \A a : /\ GotTrace(a) => Got(d)
             /\ BufferTrace(a) => Buffered(d)
             /\ QueueTrace(a) => Queued(d)
             /\ HeldTrace(a) => \E w \in Workers : d \in Elements(tx[w].ops)
  <2>1. \A i \in DOMAIN nqueue : nqueue[i].kind = "write" /\ nqueue[i].data = d =>
          nqueue[i] = WriteItem(d) /\ nqueue[i] \in Elements(nqueue)
    BY WriteItemShape DEF Elements
  <2>2. \A a : QueueTrace(a) => Queued(d)
    BY <2>1 DEF Queued
  <2>3. QED
    BY <2>2 DEF Got, Buffered, Elements
<1>6. /\ ~(Got(d) /\ Buffered(d)) /\ ~(Got(d) /\ Queued(d)) /\ ~(Buffered(d) /\ Queued(d))
      /\ \A w \in Workers : d \in Elements(tx[w].ops) => ~Got(d) /\ ~Buffered(d) /\ ~Queued(d)
  BY <1>4 DEF RepliesInv, OnePlace, HandedOverOnce, HandedOver
<1>7. ASSUME NEW a, NEW b, GotTrace(a), GotTrace(b)
      PROVE  a = b
  <2>1. PICK c, i : c \in Conns /\ i \in DOMAIN sent[c] /\ sent[c][i] = d /\ a = <<c, "sent", i>>
    BY <1>7
  <2>2. PICK e, j : e \in Conns /\ j \in DOMAIN sent[e] /\ sent[e][j] = d /\ b = <<e, "sent", j>>
    BY <1>7
  <2>3. d \in Elements(sent[c]) /\ d \in Elements(sent[e])
    BY <2>1, <2>2 DEF Elements
  <2>4. c = e /\ d \notin Behind(sent[c], d)
    BY <2>1, <2>2, <2>3 DEF RepliesInv, OnePlace
  <2>5. i = j
    BY <1>2, <2>1, <2>2, <2>4, OneOccurrence
  <2>6. QED
    BY <2>1, <2>2, <2>4, <2>5
<1>8. ASSUME NEW a, NEW b, BufferTrace(a), BufferTrace(b)
      PROVE  a = b
  <2>1. d \notin Behind(bufs[d.sock], d)
    BY DEF RepliesInv, OnePlace
  <2>2. \A i, j \in DOMAIN bufs[d.sock] :
          bufs[d.sock][i] = d /\ bufs[d.sock][j] = d => i = j
    BY <1>2, <2>1, OneOccurrence
  <2>3. QED
    BY <1>8, <2>2
<1>9. ASSUME NEW a, NEW b, QueueTrace(a), QueueTrace(b)
      PROVE  a = b
  <2>1. PICK i \in DOMAIN nqueue : /\ nqueue[i].kind = "write" /\ nqueue[i].data = d
                                   /\ a = <<d.sock, "queue", i>>
    BY <1>9
  <2>2. PICK j \in DOMAIN nqueue : /\ nqueue[j].kind = "write" /\ nqueue[j].data = d
                                   /\ b = <<d.sock, "queue", j>>
    BY <1>9
  <2>3. nqueue[i] \in Elements(nqueue) /\ nqueue[j] \in Elements(nqueue)
    BY DEF Elements
  <2>4. nqueue[i] = WriteItem(d) /\ nqueue[j] = WriteItem(d)
    BY <2>1, <2>2, <2>3, WriteItemShape
  <2>5. WriteItem(d) \notin Behind(nqueue, WriteItem(d))
    BY DEF RepliesInv, OnePlace
  <2>6. i = j
    BY <1>2, <2>4, <2>5, OneOccurrence
  <2>7. QED
    BY <2>1, <2>2, <2>6
<1>10. ASSUME NEW a, NEW b, HeldTrace(a), HeldTrace(b)
       PROVE  a = b
  <2>1. PICK w, i : /\ w \in Workers /\ i \in DOMAIN tx[w].ops
                   /\ tx[w].ops[i] = d /\ a = <<w, "tx", i>>
    BY <1>10
  <2>2. PICK v, j : /\ v \in Workers /\ j \in DOMAIN tx[v].ops
                   /\ tx[v].ops[j] = d /\ b = <<v, "tx", j>>
    BY <1>10
  <2>3. d \in Elements(tx[w].ops) /\ d \in Elements(tx[v].ops)
    BY <2>1, <2>2 DEF Elements
  <2>4. v = w
    BY <1>2, <1>4, <2>1, <2>2, <2>3 DEF RepliesInv, ReadOnce
  <2>5. d \notin Behind(tx[w].ops, d)
    BY <2>1 DEF RepliesInv, OnePlace
  <2>6. i = j
    BY <1>3, <2>1, <2>2, <2>4, <2>5, OneOccurrence
  <2>7. QED
    BY <2>1, <2>2, <2>4, <2>6
<1> HIDE DEF GotTrace, BufferTrace, QueueTrace, HeldTrace
<1>11. QED
  BY <1>1, <1>5, <1>6, <1>7, <1>8, <1>9, <1>10

\* However often the task of a message is evaluated (src/src/tasks.c:214-279),
\* what it writes is on its way to the client, or there, at most once.
THEOREM ServerRepliesOnce == ServerSpec => []RepliesOnce
<1>1. RepliesInv /\ SocketInv /\ ServerInv => RepliesOnce
  <2> SUFFICES ASSUME RepliesInv, SocketInv, ServerInv, NEW d \in Data
               PROVE  Cardinality(Traces(d)) <= 1
    BY DEF RepliesOnce
  <2>1. CASE Traces(d) = {}
    <3>1. Cardinality(Traces(d)) = 0
      BY <2>1, FS_EmptySet
    <3>2. QED
      BY <3>1
  <2>2. CASE Traces(d) # {}
    <3>1. PICK a : a \in Traces(d)
      BY <2>2
    <3>2. Traces(d) = {a}
      BY <3>1, OneTrace
    <3>3. Cardinality({a}) = 1
      BY FS_Singleton
    <3>4. QED
      BY <3>2, <3>3
  <2>3. QED
    BY <2>1, <2>2
<1>2. QED
  BY <1>1, RepliesInvariant, SocketInvariant, ServerInvariant, PTL

-----------------------------------------------------------------------------
(* The output in a queue: WritesTo.                                        *)

\* s and what x writes to c
With(c, x, s) == IF x.kind = "write" /\ x.sock = c THEN Append(s, x.data) ELSE s

\* f goes over the first n items of q.
Scan(f, c, q, n) ==
  f = [k \in 0 .. n |-> IF k = 0 THEN << >> ELSE With(c, q[k], f[k - 1])]

LEMMA ScanSteps ==
  ASSUME NEW f, NEW c, NEW q, NEW n \in Nat, Scan(f, c, q, n)
  PROVE  f[0] = << >> /\ \A k \in 1 .. n : f[k] = With(c, q[k], f[k - 1])
<1>1. PICK g : g = [k \in 0 .. n |-> IF k = 0 THEN << >> ELSE With(c, q[k], f[k - 1])]
  OBVIOUS
<1>2. f = g
  BY <1>1 DEF Scan
<1>3. g[0] = << >>
  BY <1>1
<1>4. ASSUME NEW k \in 1 .. n
      PROVE  g[k] = With(c, q[k], f[k - 1])
  <2>1. k \in 0 .. n /\ k # 0
    OBVIOUS
  <2>2. QED
    BY <1>1, <2>1
<1>5. QED
  BY <1>2, <1>3, <1>4

LEMMA ScanExists ==
  ASSUME NEW c, NEW q, NEW n \in Nat
  PROVE  \E f : Scan(f, c, q, n)
<1> DEFINE S == {k \in Nat : \E f : Scan(f, c, q, k)}
<1>1. 0 \in S
  <2>1. PICK f : f = [k \in 0 .. 0 |-> << >>]
    OBVIOUS
  <2>2. f = [k \in 0 .. 0 |-> IF k = 0 THEN << >> ELSE With(c, q[k], f[k - 1])]
    BY <2>1
  <2>3. QED
    BY <2>2 DEF Scan
<1>2. ASSUME NEW m \in S
      PROVE  m + 1 \in S
  <2>1. m \in Nat
    OBVIOUS
  <2>2. PICK f : Scan(f, c, q, m)
    OBVIOUS
  <2>3. PICK l : l = With(c, q[m + 1], f[m])
    OBVIOUS
  <2>4. PICK g : g = [k \in 0 .. m + 1 |-> IF k = m + 1 THEN l ELSE f[k]]
    OBVIOUS
  <2>5. ASSUME NEW k \in 0 .. m + 1
        PROVE  g[k] = IF k = 0 THEN << >> ELSE With(c, q[k], g[k - 1])
    <3>1. CASE k = 0
      <4>1. g[0] = f[0]
        BY <2>1, <2>4
      <4>2. QED
        BY <2>1, <2>2, <3>1, <4>1, ScanSteps
    <3>2. CASE k = m + 1
      <4>1. k - 1 = m /\ k # 0 /\ m \in 0 .. m + 1 /\ m # m + 1
        BY <2>1, <3>2
      <4>2. g[m] = f[m] /\ g[m + 1] = l
        BY <2>1, <2>4, <4>1
      <4>3. QED
        BY <2>3, <3>2, <4>1, <4>2
    <3>3. CASE k # 0 /\ k # m + 1
      <4>1. /\ k \in 1 .. m /\ k - 1 \in 0 .. m + 1 /\ k - 1 # m + 1
        BY <2>1, <3>3
      <4>2. g[k] = f[k] /\ g[k - 1] = f[k - 1]
        BY <2>4, <3>3, <4>1
      <4>3. f[k] = With(c, q[k], f[k - 1])
        BY <2>1, <2>2, <4>1, ScanSteps
      <4>4. QED
        BY <3>3, <4>2, <4>3
    <3>4. QED
      BY <3>1, <3>2, <3>3
  <2>6. Scan(g, c, q, m + 1)
    BY <2>4, <2>5 DEF Scan
  <2>7. QED
    BY <2>1, <2>6
<1>3. S = Nat
  <2> HIDE DEF S
  <2>1. S \in SUBSET Nat
    BY DEF S
  <2>2. QED
    BY <1>1, <1>2, <2>1, AllNumbers
<1>4. QED
  BY <1>3

LEMMA WritesAreScanned ==
  ASSUME NEW c, NEW q, Len(q) \in Nat
  PROVE  \E f : Scan(f, c, q, Len(q)) /\ WritesTo(c, q) = f[Len(q)]
<1> DEFINE Scanned(f) ==
      f = [n \in 0 .. Len(q) |->
             IF n = 0 THEN << >>
             ELSE IF q[n].kind = "write" /\ q[n].sock = c
                  THEN Append(f[n - 1], q[n].data) ELSE f[n - 1]]
<1>1. WritesTo(c, q) = (CHOOSE f : Scanned(f))[Len(q)]
  BY DEF WritesTo
<1>2. \A f : Scanned(f) <=> Scan(f, c, q, Len(q))
  BY DEF Scan, With
<1> HIDE DEF Scanned
<1>3. \E f : Scanned(f)
  BY <1>2, ScanExists
<1>4. PICK g : g = CHOOSE f : Scanned(f)
  OBVIOUS
<1>5. Scanned(g)
  BY <1>3, <1>4
<1>6. QED
  BY <1>1, <1>2, <1>4, <1>5

\* What goes over the same items is the same.
LEMMA ScansAgree ==
  ASSUME NEW f, NEW g, NEW c, NEW p, NEW q, NEW n \in Nat, NEW m \in Nat, n <= m,
         Scan(f, c, p, n), Scan(g, c, q, m), \A i \in 1 .. n : p[i] = q[i]
  PROVE  f[n] = g[n]
<1> DEFINE S == {k \in Nat : k <= n => f[k] = g[k]}
<1>1. 0 \in S
  <2>1. f[0] = << >> /\ g[0] = << >>
    BY ScanSteps
  <2>2. QED
    BY <2>1
<1>2. ASSUME NEW k \in S
      PROVE  k + 1 \in S
  <2> SUFFICES ASSUME k + 1 <= n
               PROVE  f[k + 1] = g[k + 1]
    OBVIOUS
  <2>1. k \in Nat /\ k + 1 \in 1 .. n /\ k + 1 \in 1 .. m /\ (k + 1) - 1 = k /\ f[k] = g[k]
    OBVIOUS
  <2>2. f[k + 1] = With(c, p[k + 1], f[k]) /\ g[k + 1] = With(c, q[k + 1], g[k])
    BY <2>1, ScanSteps
  <2>3. QED
    BY <2>1, <2>2
<1>3. S = Nat
  <2> HIDE DEF S
  <2>1. S \in SUBSET Nat
    BY DEF S
  <2>2. QED
    BY <1>1, <1>2, <2>1, AllNumbers
<1>4. QED
  BY <1>3

LEMMA WritesNothing == \A c : WritesTo(c, << >>) = << >>
<1> SUFFICES ASSUME NEW c
             PROVE  WritesTo(c, << >>) = << >>
  OBVIOUS
<1>1. PICK q : q = << >>
  OBVIOUS
<1>2. Len(q) = 0 /\ 0 \in Nat
  BY <1>1
<1>3. PICK f : Scan(f, c, q, Len(q)) /\ WritesTo(c, q) = f[Len(q)]
  BY <1>2, WritesAreScanned
<1>4. f[0] = << >>
  BY <1>2, <1>3, ScanSteps
<1>5. QED
  BY <1>1, <1>2, <1>3, <1>4

LEMMA WritesAppended ==
  ASSUME NEW S, NEW q \in Seq(S), NEW x \in S, NEW c
  PROVE  WritesTo(c, Append(q, x)) = With(c, x, WritesTo(c, q))
<1>1. PICK p, n : p = Append(q, x) /\ n = Len(q)
  OBVIOUS
<1>2. n \in Nat /\ Len(p) = n + 1 /\ n + 1 \in Nat /\ p[n + 1] = x /\ \A i \in 1 .. n : q[i] = p[i]
  BY <1>1
<1>3. PICK f : Scan(f, c, q, n) /\ WritesTo(c, q) = f[n]
  BY <1>1, <1>2, WritesAreScanned
<1>4. PICK g : Scan(g, c, p, n + 1) /\ WritesTo(c, p) = g[n + 1]
  BY <1>2, WritesAreScanned
<1>5. f[n] = g[n]
  <2>1. n <= n + 1
    BY <1>2
  <2>2. QED
    BY <1>2, <1>3, <1>4, <2>1, ScansAgree
<1>6. g[n + 1] = With(c, p[n + 1], g[n])
  <2>1. n + 1 \in 1 .. n + 1 /\ (n + 1) - 1 = n
    BY <1>2
  <2>2. QED
    BY <1>2, <1>4, <2>1, ScanSteps
<1>7. QED
  BY <1>1, <1>2, <1>3, <1>4, <1>5, <1>6

WritesOnly(S, D) == \A x \in S : x.kind = "write" => x.data \in D

LEMMA WritesTyped ==
  ASSUME NEW S, NEW D, NEW q \in Seq(S), NEW c,
         WritesOnly(S, D)
  PROVE  WritesTo(c, q) \in Seq(D)
<1>1. PICK n : n = Len(q)
  OBVIOUS
<1>2. n \in Nat /\ \A k \in 1 .. n : q[k] \in S
  BY <1>1
<1>3. PICK f : Scan(f, c, q, n) /\ WritesTo(c, q) = f[n]
  BY <1>1, <1>2, WritesAreScanned
<1> DEFINE T == {k \in Nat : k <= n => f[k] \in Seq(D)}
<1>4. 0 \in T
  <2>1. f[0] = << >>
    BY <1>2, <1>3, ScanSteps
  <2>2. << >> \in Seq(D)
    OBVIOUS
  <2>3. QED
    BY <2>1, <2>2
<1>5. ASSUME NEW k \in T
      PROVE  k + 1 \in T
  <2> SUFFICES ASSUME k + 1 <= n
               PROVE  f[k + 1] \in Seq(D)
    OBVIOUS
  <2>1. k \in Nat /\ k + 1 \in 1 .. n /\ (k + 1) - 1 = k /\ f[k] \in Seq(D)
    BY <1>2
  <2>2. f[k + 1] = With(c, q[k + 1], f[k])
    BY <1>2, <1>3, <2>1, ScanSteps
  <2>3. q[k + 1] \in S
    BY <1>2, <2>1
  <2>4. QED
    BY <2>1, <2>2, <2>3 DEF With, WritesOnly
<1>6. T = Nat
  <2> HIDE DEF T
  <2>1. T \in SUBSET Nat
    BY DEF T
  <2>2. QED
    BY <1>4, <1>5, <2>1, AllNumbers
<1>7. n \in T
  BY <1>2, <1>6
<1>8. QED
  BY <1>2, <1>3, <1>7

LEMMA WritesTaken ==
  ASSUME NEW S, NEW D, NEW q \in Seq(S), q # << >>, NEW c,
         WritesOnly(S, D)
  PROVE  WritesTo(c, q) = With(c, Head(q), << >>) \o WritesTo(c, Tail(q))
<1>1. PICK p, n, h : p = Tail(q) /\ n = Len(p) /\ h = With(c, Head(q), << >>)
  OBVIOUS
<1>2. /\ n \in Nat /\ n + 1 \in Nat /\ Len(q) = n + 1 /\ q[1] = Head(q)
      /\ \A i \in 1 .. n : p[i] = q[i + 1]
      /\ \A i \in 1 .. n + 1 : q[i] \in S
      /\ Head(q) \in S
  BY <1>1
<1>3. PICK g : Scan(g, c, p, n) /\ WritesTo(c, p) = g[n]
  BY <1>1, <1>2, WritesAreScanned
<1>4. PICK f : Scan(f, c, q, n + 1) /\ WritesTo(c, q) = f[n + 1]
  BY <1>2, WritesAreScanned
<1>5. \A i \in 1 .. n + 1 : f[i] = With(c, q[i], f[i - 1])
  BY <1>2, <1>4, ScanSteps
<1>6. h \in Seq(D)
  <2>1. CASE Head(q).kind = "write" /\ Head(q).sock = c
    <3>1. PICK d : d = Head(q).data
      OBVIOUS
    <3>2. d \in D /\ h = Append(<< >>, d)
      BY <1>1, <1>2, <2>1, <3>1 DEF With, WritesOnly
    <3>3. << >> \in Seq(D)
      OBVIOUS
    <3>4. QED
      BY <3>2, <3>3
  <2>2. CASE ~(Head(q).kind = "write" /\ Head(q).sock = c)
    BY <1>1, <2>2 DEF With
  <2>3. QED
    BY <2>1, <2>2
<1> DEFINE T == {k \in Nat : k <= n => g[k] \in Seq(D) /\ f[k + 1] = h \o g[k]}
<1>7. 0 \in T
  <2>1. g[0] = << >>
    BY <1>2, <1>3, ScanSteps
  <2>2. f[0] = << >>
    BY <1>2, <1>4, ScanSteps
  <2>3. 1 \in 1 .. n + 1 /\ 1 - 1 = 0 /\ 0 + 1 = 1
    BY <1>2
  <2>4. f[1] = With(c, q[1], f[0])
    BY <1>2, <1>4, <2>3, ScanSteps
  <2>5. f[1] = h
    BY <1>1, <1>2, <2>2, <2>4
  <2>6. h \o << >> = h
    BY <1>6, ConcatEmptySeq
  <2>7. << >> \in Seq(D)
    OBVIOUS
  <2>8. QED
    BY <2>1, <2>3, <2>5, <2>6, <2>7
<1>8. ASSUME NEW k \in T
      PROVE  k + 1 \in T
  <2> SUFFICES ASSUME k + 1 <= n
               PROVE  g[k + 1] \in Seq(D) /\ f[(k + 1) + 1] = h \o g[k + 1]
    OBVIOUS
  <2>1. /\ k \in Nat /\ k + 1 \in 1 .. n /\ (k + 1) - 1 = k
        /\ (k + 1) + 1 \in 1 .. n + 1 /\ ((k + 1) + 1) - 1 = k + 1
        /\ g[k] \in Seq(D) /\ f[k + 1] = h \o g[k]
    BY <1>2
  <2>2. PICK x, s, t : x = q[(k + 1) + 1] /\ s = g[k] /\ t = f[k + 1]
    OBVIOUS
  <2>3. p[k + 1] = x /\ x \in S
    BY <1>2, <2>1, <2>2
  <2>4. g[k + 1] = With(c, x, s)
    BY <1>2, <1>3, <2>1, <2>2, <2>3, ScanSteps
  <2>5. f[(k + 1) + 1] = With(c, x, t)
    <3>1. PICK i \in 1 .. n + 1 : i = (k + 1) + 1
      BY <2>1
    <3>2. f[i] = With(c, q[i], f[i - 1])
      BY <1>5
    <3>3. QED
      BY <2>1, <2>2, <3>1, <3>2
  <2>6. s \in Seq(D) /\ t = h \o s
    BY <2>1, <2>2
  <2>7. With(c, x, s) \in Seq(D) /\ With(c, x, h \o s) = h \o With(c, x, s)
    <3>1. CASE x.kind = "write" /\ x.sock = c
      <4>1. PICK d \in D : d = x.data
        BY <2>3, <3>1 DEF WritesOnly
      <4>2. Append(s, d) \in Seq(D)
        BY <2>6
      <4>3. Append(h \o s, d) = h \o Append(s, d)
        <5>1. << d >> \in Seq(D) /\ h \o s \in Seq(D)
          BY <1>6, <2>6
        <5>2. /\ Append(h \o s, d) = (h \o s) \o << d >>
              /\ Append(s, d) = s \o << d >>
          BY <2>6, <5>1, AppendIsConcat
        <5>3. (h \o s) \o << d >> = h \o (s \o << d >>)
          BY <1>6, <2>6, <5>1, ConcatAssociative
        <5>4. QED
          BY <5>2, <5>3
      <4>4. QED
        BY <3>1, <4>1, <4>2, <4>3 DEF With
    <3>2. CASE ~(x.kind = "write" /\ x.sock = c)
      BY <2>6, <3>2 DEF With
    <3>3. QED
      BY <3>1, <3>2
  <2>8. QED
    BY <2>4, <2>5, <2>6, <2>7
<1>9. T = Nat
  <2> HIDE DEF T
  <2>1. T \in SUBSET Nat
    BY DEF T
  <2>2. QED
    BY <1>7, <1>8, <2>1, AllNumbers
<1>10. f[n + 1] = h \o g[n]
  <2>1. n \in T
    BY <1>2, <1>9
  <2>2. QED
    BY <1>2, <2>1
<1>11. QED
  BY <1>1, <1>3, <1>4, <1>10

-----------------------------------------------------------------------------
(* What the promise of module Outbox needs besides: nothing is written to  *)
(* a connection that never was, and nothing after net_stop().              *)

ReadsKnown ==
  /\ \A x \in Elements(tqueue) : x.kind = "read" => life[x.sock] # "none"
  /\ \A w \in Workers : task[w].kind = "read" => life[task[w].sock] # "none"

\* The thread ends when it has carried out everything up to the STOP item,
\* which main() adds when nobody else adds items any more.
StoppedLast ==
  /\ nstop \/ npc = "exited" \/ (\E x \in Elements(nqueue) : x.kind = "stop")
       => main \in {"joining_net", "freed_net"}
  /\ npc = "exited" => nqueue = << >>

OrderInv == ReadsKnown /\ StoppedLast

LEMMA ReadsKnownKept ==
  ASSUME ReadsKnown, NoNewTask("read"), ServerTypeOK,
         \A c \in Conns : life[c] # "none" => life'[c] # "none",
         \A w \in Workers : task'[w] = task[w] \/ task'[w].kind # "read"
                              \/ task'[w] \in Elements(tqueue)
  PROVE  ReadsKnown'
<1>1. \A x \in Elements(tqueue') : x.kind = "read" => x \in Elements(tqueue)
  BY DEF NoNewTask, NoneNew
<1>2. \A x \in Elements(tqueue) : x.kind = "read" => x.sock \in Conns
  BY QueuesTyped, TaskShape
<1>3. \A w \in Workers : task[w].kind = "read" => task[w].sock \in Conns
  <2>1. \A w \in Workers : task[w] \in Task \cup {NoTask}
    BY DEF ServerTypeOK, TasksTypeOK
  <2>2. QED
    BY <2>1, TaskShape DEF NoTask
<1>4. ASSUME NEW x \in Elements(tqueue'), x.kind = "read"
      PROVE  life'[x.sock] # "none"
  BY <1>1, <1>2, <1>4 DEF ReadsKnown
<1>5. ASSUME NEW w \in Workers, task'[w].kind = "read"
      PROVE  life'[task'[w].sock] # "none"
  BY <1>2, <1>3, <1>5 DEF ReadsKnown
<1>6. QED
  BY <1>4, <1>5 DEF ReadsKnown

LEMMA StoppedLastKept ==
  ASSUME StoppedLast, UNCHANGED nstop, npc' = "exited" => npc = "exited",
         main \in {"joining_net", "freed_net"} => main' \in {"joining_net", "freed_net"},
         UNCHANGED nqueue \/ (npc # "exited" /\ NoNewItem("stop"))
  PROVE  StoppedLast'
<1>1. \A x \in Elements(nqueue') : x.kind = "stop" => x \in Elements(nqueue)
  BY DEF NoNewItem, NoneNew
<1>2. QED
  BY <1>1 DEF StoppedLast

\* The thread takes an item: it ends behind the last one.
LEMMA StoppedLastTaken ==
  ASSUME StoppedLast, SocketInv, NEW kind, Handle(kind), UNCHANGED main,
         UNCHANGED nstop \/ kind = "stop"
  PROVE  StoppedLast'
<1>1. /\ nqueue # << >> /\ nqueue' = Tail(nqueue) /\ Head(nqueue).kind = kind
      /\ Head(nqueue) \in Elements(nqueue)
      /\ nqueue \in Seq(NetItem)
  BY HandleEffect DEF SocketInv, ServerTypeOK, NetTypeOK
<1>2. Elements(nqueue') \subseteq Elements(nqueue)
  BY HandleEffect, BehindElements
<1>3. kind = "stop" => main \in {"joining_net", "freed_net"}
  BY <1>1 DEF StoppedLast
<1>4. npc' = "exited" => ~(Len(nqueue) > 1) /\ (nstop \/ kind = "stop")
  BY DEF Handle, CanHandle, AfterItem
<1>5. npc' = "exited" => nqueue' = << >>
  <2>1. ASSUME ~(Len(nqueue) > 1)
        PROVE  Tail(nqueue) = << >>
    <3>1. PICK q, t : q = nqueue /\ t = Tail(q)
      OBVIOUS
    <3>2. q \in Seq(NetItem) /\ q # << >> /\ ~(Len(q) > 1)
      BY <1>1, <2>1, <3>1
    <3>3. Len(q) = 1
      <4>1. Len(q) \in Nat \ {0}
        BY <3>2, EmptySeq
      <4>2. QED
        BY <3>2, <4>1
    <3>4. t \in Seq(NetItem) /\ Len(t) = 0
      BY <3>1, <3>2, <3>3, HeadTailProperties
    <3>5. t = << >>
      BY <3>4, EmptySeq
    <3>6. QED
      BY <3>1, <3>5
  <2>2. QED
    BY <1>1, <1>4, <2>1
<1>6. QED
  BY <1>2, <1>3, <1>4, <1>5 DEF StoppedLast

\* A worker that is not at its end finds the network thread at work.
LEMMA WorkerFinds ==
  ASSUME StoppedLast, SocketInv, NEW w \in Workers, pc[w] # "exited"
  PROVE  npc # "exited" /\ main \notin {"joining_net", "freed_net"}
  BY DEF StoppedLast, SocketInv, Shutdown

-----------------------------------------------------------------------------
(* The steps of the server as steps of module Outbox.                      *)

\* What Promise puts for the variables of Outbox.
StateOf(c) == IF life[c] \in {"eof", "freed"} THEN "over" ELSE life[c]
PendingOf(c) == bufs[c] \o WritesTo(c, nqueue)
States == [c \in Conns |-> StateOf(c)]
Pendings == [c \in Conns |-> PendingOf(c)]

LEMMA PendingTyped ==
  ASSUME ServerTypeOK, NEW c \in Conns
  PROVE  /\ bufs[c] \in Seq(Data) /\ WritesTo(c, nqueue) \in Seq(Data)
         /\ PendingOf(c) \in Seq(Data)
<1>1. bufs \in [Conns -> Seq(Data)] /\ nqueue \in Seq(NetItem)
  BY DEF ServerTypeOK, NetTypeOK
<1>2. WritesOnly(NetItem, Data)
  BY ItemShape DEF WritesOnly
<1>3. WritesTo(c, nqueue) \in Seq(Data)
  BY <1>1, <1>2, WritesTyped
<1>4. bufs[c] \in Seq(Data)
  BY <1>1
<1>5. PendingOf(c) \in Seq(Data)
  BY <1>3, <1>4, ConcatProperties DEF PendingOf
<1>6. QED
  BY <1>3, <1>4, <1>5

\* Items of other kinds come and go unnoticed.
LEMMA WritesEnqueued ==
  ASSUME ServerTypeOK, NEW x \in NetItem, NetEnqueue(x), NEW c
  PROVE  WritesTo(c, nqueue') = With(c, x, WritesTo(c, nqueue))
<1>1. nqueue \in Seq(NetItem) /\ nqueue' = Append(nqueue, x)
  BY DEF ServerTypeOK, NetTypeOK, NetEnqueue
<1>2. QED
  BY <1>1, WritesAppended

LEMMA WritesHandled ==
  ASSUME SocketInv, NEW kind, Handle(kind), kind # "write", NEW c
  PROVE  WritesTo(c, nqueue') = WritesTo(c, nqueue)
<1>1. /\ nqueue # << >> /\ nqueue' = Tail(nqueue) /\ Head(nqueue).kind = kind
      /\ nqueue \in Seq(NetItem) /\ nqueue' \in Seq(NetItem)
  BY HandleEffect DEF SocketInv, ServerTypeOK, NetTypeOK
<1>2. WritesOnly(NetItem, Data)
  BY ItemShape DEF WritesOnly
<1>3. WritesTo(c, nqueue) = With(c, Head(nqueue), << >>) \o WritesTo(c, nqueue')
  <2>1. PICK q \in Seq(NetItem) : q = nqueue /\ q # << >>
    BY <1>1
  <2>2. WritesTo(c, q) = With(c, Head(q), << >>) \o WritesTo(c, Tail(q))
    BY <1>2, <2>1, WritesTaken
  <2>3. QED
    BY <1>1, <2>1, <2>2
<1>4. With(c, Head(nqueue), << >>) = << >>
  BY <1>1 DEF With
<1>5. WritesTo(c, nqueue') \in Seq(Data)
  BY <1>1, <1>2, WritesTyped
<1>6. QED
  BY <1>3, <1>4, <1>5, ConcatEmptySeq

OutStep == [Promise!OutNext]_<<States, Pendings, sent>>

\* A step that Outbox does not see.
LEMMA Stutters ==
  ASSUME UNCHANGED <<bufs, sent>>,
         \A c \in Conns : StateOf(c)' = StateOf(c),
         \A c \in Conns : WritesTo(c, nqueue') = WritesTo(c, nqueue)
  PROVE  OutStep
<1>1. UNCHANGED States
  BY DEF States
<1>2. \A c \in Conns : PendingOf(c)' = PendingOf(c)
  BY DEF PendingOf
<1>3. UNCHANGED Pendings
  BY <1>2 DEF Pendings
<1>4. QED
  BY <1>1, <1>3 DEF OutStep

LEMMA BeginStep ==
  ASSUME NEW c \in Conns, life[c] = "none", DOMAIN life = Conns,
         life' = [life EXCEPT ![c] = "open"], UNCHANGED <<bufs, sent, nqueue>>
  PROVE  OutStep
<1>1. States[c] = "none" /\ States' = [States EXCEPT ![c] = "open"]
  BY DEF States, StateOf
<1>2. UNCHANGED Pendings
  BY DEF Pendings, PendingOf
<1>3. Promise!Begin(c)
  BY <1>1, <1>2 DEF Promise!Begin, States, StateOf, Pendings, PendingOf
<1>4. QED
  BY <1>3 DEF OutStep, Promise!OutNext

LEMMA EndStep ==
  ASSUME NEW c \in Conns, life[c] = "open", DOMAIN life = Conns,
         life' = [life EXCEPT ![c] = "eof"], UNCHANGED <<bufs, sent, nqueue>>
  PROVE  OutStep
<1>1. States[c] = "open" /\ States' = [States EXCEPT ![c] = "over"]
  BY DEF States, StateOf
<1>2. UNCHANGED Pendings
  BY DEF Pendings, PendingOf
<1>3. Promise!End(c)
  BY <1>1, <1>2 DEF Promise!End, States, StateOf, Pendings, PendingOf
<1>4. QED
  BY <1>3 DEF OutStep, Promise!OutNext

LEMMA PutStep ==
  ASSUME ServerTypeOK, NEW c \in Conns, NEW d \in Data, life[c] # "none",
         UNCHANGED <<life, bufs, sent>>,
         WritesTo(c, nqueue') = Append(WritesTo(c, nqueue), d),
         \A e \in Conns \ {c} : WritesTo(e, nqueue') = WritesTo(e, nqueue)
  PROVE  OutStep
<1>1. States[c] # "none" /\ UNCHANGED States
  BY DEF States, StateOf
<1>2. PendingOf(c)' = Append(PendingOf(c), d)
  <2>1. PICK b, s, t : b = bufs[c] /\ s = WritesTo(c, nqueue) /\ t = WritesTo(c, nqueue')
    OBVIOUS
  <2>2. b \in Seq(Data) /\ s \in Seq(Data) /\ t = Append(s, d)
    BY <2>1, PendingTyped
  <2>3. b \o t = Append(b \o s, d)
    BY <2>2
  <2>4. PendingOf(c)' = b \o t /\ PendingOf(c) = b \o s
    BY <2>1 DEF PendingOf
  <2>5. QED
    BY <2>3, <2>4
<1>3. \A e \in Conns \ {c} : PendingOf(e)' = PendingOf(e)
  BY DEF PendingOf
<1>4. Pendings' = [Pendings EXCEPT ![c] = Append(@, d)]
  BY <1>2, <1>3 DEF Pendings
<1>5. Promise!Put(c, d)
  BY <1>1, <1>4 DEF Promise!Put, States, StateOf, Pendings, PendingOf
<1>6. QED
  BY <1>5 DEF OutStep, Promise!OutNext

LEMMA GetStep ==
  ASSUME ServerTypeOK, NEW c \in Conns, NEW r \in Conns, bufs[c] # << >>, life[r] = "open",
         life[c] = "open" => r = c, UNCHANGED <<life, nqueue>>,
         sent' = [sent EXCEPT ![r] = Append(@, Head(bufs[c]))],
         bufs' = [bufs EXCEPT ![c] = Tail(@)]
  PROVE  OutStep
<1>1. /\ States[r] = "open" /\ UNCHANGED States
      /\ States[c] = "open" => r = c
  BY DEF States, StateOf
<1>2. /\ PendingOf(c) # << >> /\ PendingOf(c)' = Tail(PendingOf(c))
      /\ Head(PendingOf(c)) = Head(bufs[c])
  <2>1. PICK b, s : b = bufs[c] /\ s = WritesTo(c, nqueue)
    OBVIOUS
  <2>2. b \in Seq(Data) /\ s \in Seq(Data) /\ b # << >>
    BY <2>1, PendingTyped
  <2>3. b \o s # << >> /\ Tail(b) \o s = Tail(b \o s) /\ Head(b \o s) = Head(b)
    BY <2>2
  <2>4. bufs'[c] = Tail(b)
    BY <2>1 DEF ServerTypeOK, NetTypeOK
  <2>5. PendingOf(c)' = Tail(b) \o s /\ PendingOf(c) = b \o s
    BY <2>1, <2>4 DEF PendingOf
  <2>6. QED
    BY <2>1, <2>3, <2>5
<1>3. \A e \in Conns \ {c} : PendingOf(e)' = PendingOf(e)
  BY DEF PendingOf, ServerTypeOK, NetTypeOK
<1>4. Pendings' = [Pendings EXCEPT ![c] = Tail(@)]
  BY <1>2, <1>3 DEF Pendings
<1>5. Pendings[c] # << >> /\ Head(Pendings[c]) = Head(bufs[c])
  BY <1>2 DEF Pendings
<1>6. Promise!Get(c, r)
  BY <1>1, <1>4, <1>5 DEF Promise!Get, States, StateOf, Pendings, PendingOf
<1>7. QED
  BY <1>6 DEF OutStep, Promise!OutNext

LEMMA DropStep ==
  ASSUME ServerTypeOK, NEW c \in Conns, life[c] = "eof",
         life' = [life EXCEPT ![c] = "freed"], bufs' = [bufs EXCEPT ![c] = << >>],
         UNCHANGED sent, \A e \in Conns : WritesTo(e, nqueue') = WritesTo(e, nqueue)
  PROVE  OutStep
<1>1. /\ DOMAIN life = Conns /\ DOMAIN bufs = Conns
  BY DEF ServerTypeOK, NetTypeOK
<1>2. States[c] = "over" /\ UNCHANGED States
  BY <1>1 DEF States, StateOf
<1>3. PICK b, s, n : b = bufs[c] /\ s = WritesTo(c, nqueue) /\ n = Len(b)
  OBVIOUS
<1>4. b \in Seq(Data) /\ s \in Seq(Data) /\ n \in Nat
  BY <1>3, PendingTyped
<1>5. \A e \in Conns \ {c} : PendingOf(e)' = PendingOf(e)
  BY <1>1 DEF PendingOf
<1>6. PendingOf(c) = b \o s /\ PendingOf(c)' = s
  <2>1. bufs'[c] = << >>
    BY <1>1
  <2>2. << >> \o s = s
    BY <1>4, ConcatEmptySeq
  <2>3. QED
    BY <1>3, <2>1, <2>2 DEF PendingOf
<1>7. CASE n = 0
  <2>1. b = << >>
    BY <1>3, <1>4, <1>7, EmptySeq
  <2>2. b \o s = s
    BY <1>4, <2>1, ConcatEmptySeq
  <2>3. \A e \in Conns : PendingOf(e)' = PendingOf(e)
    BY <1>5, <1>6, <2>2
  <2>4. UNCHANGED Pendings
    BY <2>3 DEF Pendings
  <2>5. QED
    BY <1>2, <2>4 DEF OutStep
<1>8. CASE n # 0
  <2>1. SubSeq(b \o s, n + 1, Len(b \o s)) = s
    <3>1. PICK p, k, t : p = b \o s /\ k = Len(s) /\ t = SubSeq(p, n + 1, n + k)
      OBVIOUS
    <3>2. /\ p \in Seq(Data) /\ Len(p) = n + k /\ k \in Nat
          /\ \A i \in 1 .. n + k : p[i] = IF i <= n THEN b[i] ELSE s[i - n]
      BY <1>3, <1>4, <3>1, ConcatProperties
    <3>3. /\ t \in Seq(Data)
          /\ Len(t) = IF n + 1 <= n + k THEN (n + k) - (n + 1) + 1 ELSE 0
          /\ \A i \in 1 .. (n + k) - (n + 1) + 1 : t[i] = p[(n + 1) + i - 1]
      <4>1. /\ n + 1 \in Int /\ n + k \in Int
            /\ \A i \in n + 1 .. n + k : i \in 1 .. Len(p)
        BY <1>4, <3>2
      <4>2. \A i \in n + 1 .. n + k : p[i] \in Data
        BY <3>2, <4>1
      <4>3. PICK l, m \in Int : l = n + 1 /\ m = n + k
        BY <4>1
      <4>4. \A i \in l .. m : p[i] \in Data
        BY <4>2, <4>3
      <4>5. /\ SubSeq(p, l, m) \in Seq(Data)
            /\ Len(SubSeq(p, l, m)) = IF l <= m THEN m - l + 1 ELSE 0
            /\ \A i \in 1 .. m - l + 1 : SubSeq(p, l, m)[i] = p[l + i - 1]
        BY <4>4, SubSeqProperties
      <4>6. QED
        BY <3>1, <4>3, <4>5
    <3>4. Len(t) = k /\ \A i \in 1 .. k : t[i] = s[i]
      <4>1. Len(t) = k
        BY <1>4, <3>2, <3>3
      <4>2. ASSUME NEW i \in 1 .. k
            PROVE  t[i] = s[i]
        <5>1. /\ i \in 1 .. (n + k) - (n + 1) + 1 /\ (n + 1) + i - 1 = n + i
              /\ n + i \in 1 .. n + k /\ ~(n + i <= n) /\ (n + i) - n = i
          BY <1>4, <3>2
        <5>2. QED
          BY <3>2, <3>3, <5>1
      <4>3. QED
        BY <4>1, <4>2
    <3>5. t = s
      BY <1>4, <3>1, <3>3, <3>4, SeqEqual
    <3>6. QED
      BY <3>1, <3>2, <3>5
  <2>2. n \in 1 .. Len(b \o s)
    BY <1>3, <1>4, <1>8, ConcatProperties
  <2>3. Pendings' = [Pendings EXCEPT ![c] = SubSeq(@, n + 1, Len(@))]
    BY <1>5, <1>6, <2>1 DEF Pendings
  <2>4. n \in 1 .. Len(Pendings[c])
    BY <1>6, <2>2 DEF Pendings
  <2>5. Promise!Drop(c, n)
    BY <1>2, <2>3 DEF Promise!Drop, States, StateOf, Pendings, PendingOf
  <2>6. QED
    BY <2>4, <2>5 DEF OutStep, Promise!OutNext, Pendings, PendingOf
<1>9. QED
  BY <1>7, <1>8

LEMMA CloseStep ==
  ASSUME DOMAIN life = Conns, nqueue = << >>, UNCHANGED <<nqueue, sent>>,
         life' = [c \in Conns |-> IF life[c] = "none" THEN "none" ELSE "freed"],
         bufs' = [c \in Conns |-> << >>]
  PROVE  OutStep
<1>1. States' = [c \in Conns |-> IF States[c] = "none" THEN "none" ELSE "over"]
  BY DEF States, StateOf
<1>2. \A c \in Conns : WritesTo(c, nqueue') = << >>
  BY WritesNothing
<1>3. \A c \in Conns : PendingOf(c)' = << >>
  BY <1>2 DEF PendingOf
<1>4. \A c \in Conns : Pendings'[c] = << >>
  BY <1>3 DEF Pendings
<1>5. Promise!Close
  BY <1>1, <1>4 DEF Promise!Close, States, StateOf, Pendings, PendingOf
<1>6. QED
  BY <1>5 DEF OutStep, Promise!OutNext

-----------------------------------------------------------------------------
(* Every step of the server is one of them.                                *)

TasksFollow ==
  \A w \in Workers : task'[w] = task[w] \/ task'[w].kind # "read"
                       \/ task'[w] \in Elements(tqueue)

MainFollows == main \in {"joining_net", "freed_net"} => main' \in {"joining_net", "freed_net"}

\* Steps that leave the sockets and the queue alone.
LEMMA QuietOrder ==
  ASSUME OrderInv, SocketInv, UNCHANGED <<life, bufs, sent, nqueue, nstop>>,
         npc' = "exited" => npc = "exited", MainFollows, NoNewTask("read"), TasksFollow
  PROVE  OrderInv' /\ OutStep
<1>1. ReadsKnown'
  BY ReadsKnownKept DEF OrderInv, SocketInv, TasksFollow
<1>2. StoppedLast'
  BY StoppedLastKept DEF OrderInv, MainFollows
<1>3. OutStep
  BY Stutters DEF StateOf
<1>4. QED
  BY <1>1, <1>2, <1>3 DEF OrderInv

LEMMA CrashOrder ==
  ASSUME OrderInv, SocketInv, NEW f, NetCrash(f), UNCHANGED <<taskVars, main>>
  PROVE  OrderInv' /\ OutStep
<1>1. UNCHANGED <<life, bufs, sent, nqueue, nstop, npc, main, tqueue, task>>
  BY DEF NetCrash, sockVars, taskVars
<1>2. NoNewTask("read") /\ TasksFollow /\ MainFollows
  BY <1>1, NothingNew DEF NoNewTask, TasksFollow, MainFollows
<1>3. QED
  BY <1>1, <1>2, QuietOrder

\* An item that is neither WRITE nor STOP is added.
LEMMA AddedOrder ==
  ASSUME OrderInv, SocketInv, NEW x \in NetItem, x.kind \notin {"write", "stop"},
         NetEnqueue(x), npc # "exited", npc' # "exited",
         UNCHANGED <<life, bufs, sent, nstop, main>>, NoNewTask("read"), TasksFollow
  PROVE  OrderInv' /\ OutStep
<1>1. NoNewItem("stop")
  BY NetEnqueueEffect DEF SocketInv
<1>2. ReadsKnown'
  BY ReadsKnownKept DEF OrderInv, SocketInv, TasksFollow
<1>3. StoppedLast'
  BY <1>1, StoppedLastKept DEF OrderInv
<1>4. \A c \in Conns : WritesTo(c, nqueue') = WritesTo(c, nqueue)
  BY WritesEnqueued DEF SocketInv, With
<1>5. OutStep
  BY <1>4, Stutters DEF StateOf
<1>6. QED
  BY <1>2, <1>3, <1>5 DEF OrderInv

\* An item is taken.
LEMMA TakenInv ==
  ASSUME OrderInv, SocketInv, NEW kind, Handle(kind), UNCHANGED <<task, main>>,
         UNCHANGED nstop \/ kind = "stop", NoNewTask("read"),
         \A c \in Conns : life[c] # "none" => life'[c] # "none"
  PROVE  OrderInv'
<1>1. ReadsKnown'
  BY ReadsKnownKept DEF OrderInv, SocketInv
<1>2. StoppedLast'
  BY StoppedLastTaken DEF OrderInv
<1>3. QED
  BY <1>1, <1>2 DEF OrderInv

LEMMA TakenOrder ==
  ASSUME OrderInv, SocketInv, NEW kind, Handle(kind), kind # "write",
         UNCHANGED <<life, bufs, sent, task, main>>,
         UNCHANGED nstop \/ kind = "stop", NoNewTask("read")
  PROVE  OrderInv' /\ OutStep
<1>1. OrderInv'
  BY TakenInv
<1>2. \A c \in Conns : WritesTo(c, nqueue') = WritesTo(c, nqueue)
  BY WritesHandled
<1>3. OutStep
  BY <1>2, Stutters DEF StateOf
<1>4. QED
  BY <1>1, <1>3

LEMMA HandleWriteOrder ==
  ASSUME OrderInv, SocketInv, HandleWrite, UNCHANGED <<taskVars, main>>
  PROVE  OrderInv' /\ OutStep
<1>1. /\ Handle("write") /\ UNCHANGED <<life, sent, nstop, tqueue, task, main>>
      /\ bufs' = [bufs EXCEPT ![Named] = Append(@, Head(nqueue).data)]
  BY DEF HandleWrite, taskVars
<1>2. NoNewTask("read")
  BY <1>1, NothingNew DEF NoNewTask
<1>3. OrderInv'
  BY <1>1, <1>2, TakenInv
<1>4. /\ bufs \in [Conns -> Seq(Data)] /\ nqueue \in Seq(NetItem)
  BY DEF SocketInv, ServerTypeOK, NetTypeOK
<1>5. /\ nqueue # << >> /\ nqueue' = Tail(nqueue) /\ nqueue' \in Seq(NetItem)
      /\ Head(nqueue).kind = "write" /\ Head(nqueue) \in NetItem
  BY <1>1, HandleEffect
<1>6. PICK x, p, q : x = Head(nqueue) /\ p = nqueue' /\ q = nqueue
  OBVIOUS
<1>7. /\ x \in NetItem /\ x.kind = "write" /\ x.sock \in Conns /\ x.data \in Data
      /\ q \in Seq(NetItem) /\ q # << >> /\ p = Tail(q) /\ x = Head(q) /\ p \in Seq(NetItem)
  BY <1>4, <1>5, <1>6, ItemShape
<1>8. WritesOnly(NetItem, Data)
  BY ItemShape DEF WritesOnly
<1>9. \A c \in Conns : WritesTo(c, q) = With(c, x, << >>) \o WritesTo(c, p)
  BY <1>7, <1>8, WritesTaken
<1>10. ASSUME NEW c \in Conns
       PROVE  PendingOf(c)' = PendingOf(c)
  <2>1. PICK b, s, t, e : /\ b = bufs[c] /\ s = WritesTo(c, q) /\ t = WritesTo(c, p)
                          /\ e = x.data
    OBVIOUS
  <2>2. b \in Seq(Data) /\ t \in Seq(Data) /\ e \in Data
    BY <1>4, <1>7, <1>8, <2>1, WritesTyped
  <2>3. PendingOf(c) = b \o s
    BY <1>6, <2>1 DEF PendingOf
  <2>4. CASE c = x.sock
    <3>1. With(c, x, << >>) = << e >>
      BY <1>7, <2>1, <2>4 DEF With
    <3>2. s = << e >> \o t
      BY <1>9, <2>1, <3>1
    <3>3. bufs'[c] = Append(b, e)
      BY <1>1, <1>4, <1>6, <2>1, <2>4 DEF Named
    <3>4. PendingOf(c)' = Append(b, e) \o t
      BY <1>6, <2>1, <3>3 DEF PendingOf
    <3>5. Append(b, e) = b \o << e >> /\ << e >> \in Seq(Data)
      BY <2>2, AppendIsConcat
    <3>6. (b \o << e >>) \o t = b \o (<< e >> \o t)
      BY <2>2, <3>5, ConcatAssociative
    <3>7. QED
      BY <2>3, <3>2, <3>4, <3>5, <3>6
  <2>5. CASE c # x.sock
    <3>1. With(c, x, << >>) = << >>
      BY <2>5 DEF With
    <3>2. s = t
      BY <1>9, <2>1, <2>2, <3>1, ConcatEmptySeq
    <3>3. bufs'[c] = b
      BY <1>1, <1>4, <1>6, <2>1, <2>5 DEF Named
    <3>4. PendingOf(c)' = b \o t
      BY <1>6, <2>1, <3>3 DEF PendingOf
    <3>5. QED
      BY <2>3, <3>2, <3>4
  <2>6. QED
    BY <2>4, <2>5
<1>11. UNCHANGED Pendings /\ UNCHANGED States
  BY <1>1, <1>10 DEF Pendings, States, StateOf
<1>12. QED
  BY <1>1, <1>3, <1>11 DEF OutStep

LEMMA ClientOrder ==
  ASSUME OrderInv, SocketInv, ServerInv, NEW c \in Conns,
         Connect(c) \/ Receive(c) \/ HangUp(c) \/ Output(c)
  PROVE  OrderInv' /\ OutStep
<1>1. life \in [Conns -> {"none", "open", "eof", "freed"}] /\ DOMAIN sent = Conns
  BY DEF ServerInv, SocketsTyped
<1>2. CASE Connect(c)
  <2>1. PICK x : x = [kind |-> "accept", sock |-> c]
    OBVIOUS
  <2>2. x \in Task /\ x.kind # "read" /\ Enqueue(x)
    BY <1>2, <2>1 DEF Connect, Task
  <2>3. /\ life[c] = "none" /\ life' = [life EXCEPT ![c] = "open"]
        /\ UNCHANGED <<bufs, sent, nqueue, npc, nstop, main>>
    BY <1>2 DEF Connect, Accept, CanAccept
  <2>4. UNCHANGED task /\ NoNewTask("read")
    BY <2>2, EnqueueEffect DEF SocketInv
  <2>5. ReadsKnown'
    BY <1>1, <2>3, <2>4, ReadsKnownKept DEF OrderInv, SocketInv
  <2>6. StoppedLast'
    BY <2>3, StoppedLastKept DEF OrderInv
  <2>7. QED
    BY <1>1, <2>3, <2>5, <2>6, BeginStep DEF OrderInv
<1>3. CASE HangUp(c)
  <2>1. PICK x : x = [kind |-> "closed", sock |-> c]
    OBVIOUS
  <2>2. x \in Task /\ x.kind # "read" /\ Enqueue(x)
    BY <1>3, <2>1 DEF HangUp, Task
  <2>3. /\ life[c] = "open" /\ life' = [life EXCEPT ![c] = "eof"] /\ npc' = "eof"
        /\ UNCHANGED <<bufs, sent, nqueue, nstop, main>>
    BY <1>3 DEF HangUp, ReadEof, CanRead
  <2>4. UNCHANGED task /\ NoNewTask("read")
    BY <2>2, EnqueueEffect DEF SocketInv
  <2>5. ReadsKnown'
    BY <1>1, <2>3, <2>4, ReadsKnownKept DEF OrderInv, SocketInv
  <2>6. StoppedLast'
    BY <2>3, StoppedLastKept DEF OrderInv
  <2>7. QED
    BY <1>1, <2>3, <2>5, <2>6, EndStep DEF OrderInv
<1>4. CASE Receive(c)
  <2>1. PICK x : x = [kind |-> "read", sock |-> c, msg |-> msgs + 1]
    OBVIOUS
  <2>2. /\ life[c] = "open" /\ UNCHANGED netVars /\ UNCHANGED main
        /\ Enqueue(x) /\ msgs < MaxMsgs
    BY <1>4, <2>1 DEF Receive, ReadData, CanRead
  <2>3. x \in Task /\ x.sock = c
    BY <2>1, <2>2, NetAssumption DEF SocketInv, ServerTypeOK, Task
  <2>4. UNCHANGED task /\ Elements(tqueue') = Elements(tqueue) \cup {x}
    BY <2>2, <2>3, EnqueueEffect DEF SocketInv
  <2>5. UNCHANGED <<life, bufs, sent, nqueue, npc, nstop>>
    BY <2>2 DEF netVars
  <2>6. ReadsKnown'
    BY <2>2, <2>3, <2>4, <2>5 DEF OrderInv, ReadsKnown
  <2>7. StoppedLast'
    BY <2>2, <2>5, StoppedLastKept DEF OrderInv
  <2>8. OutStep
    BY <2>5, Stutters DEF StateOf
  <2>9. QED
    BY <2>6, <2>7, <2>8 DEF OrderInv
<1>5. CASE Output(c)
  <2>1. UNCHANGED <<tqueue, task, main, nqueue, life, npc, nstop>>
    BY <1>5 DEF Output, WriteSome, WriteBuffer, WriteFails, taskVars
  <2>2. NoNewTask("read") /\ TasksFollow /\ MainFollows
    BY <2>1, NothingNew DEF NoNewTask, TasksFollow, MainFollows
  <2>3. CASE WriteSome(c) \/ WriteFails(c)
    <3>1. UNCHANGED <<bufs, sent>>
      BY <2>3 DEF WriteSome, WriteFails
    <3>2. QED
      BY <2>1, <2>2, <3>1, QuietOrder
  <2>4. CASE WriteBuffer(c)
    <3>1. PICK r \in Receivers(c) : sent' = [sent EXCEPT ![r] = Append(@, Head(bufs[c]))]
      BY <2>4 DEF WriteBuffer
    <3>2. r \in Conns /\ life[r] = "open" /\ fd[r] = fd[c]
      BY <3>1 DEF Receivers
    <3>3. /\ bufs' = [bufs EXCEPT ![c] = Tail(@)]
          /\ writing[c] /\ life[c] \in {"open", "eof"}
      BY <2>4 DEF WriteBuffer
    <3>4. bufs[c] # << >>
      BY <3>3 DEF ServerInv, WatcherHasBuffer
    <3>5. life[c] = "open" => r = c
      BY <3>2 DEF ServerInv, OwnDescriptor
    <3>6. OutStep
      BY <2>1, <3>1, <3>2, <3>3, <3>4, <3>5, GetStep DEF SocketInv
    <3>7. ReadsKnown'
      BY <2>1, <2>2, ReadsKnownKept DEF OrderInv, SocketInv
    <3>8. StoppedLast'
      BY <2>1, StoppedLastKept DEF OrderInv
    <3>9. QED
      BY <3>6, <3>7, <3>8 DEF OrderInv
  <2>5. QED
    BY <1>5, <2>3, <2>4 DEF Output
<1>6. QED
  BY <1>2, <1>3, <1>4, <1>5

LEMMA HandleFreeOrder ==
  ASSUME OrderInv, SocketInv, HandleFree, UNCHANGED <<taskVars, main>>
  PROVE  OrderInv' /\ OutStep
<1>1. /\ Handle("free") /\ UNCHANGED <<sent, nstop, tqueue, task, main>>
      /\ \/ /\ life[Named] \in {"open", "eof"}
            /\ life' = [life EXCEPT ![Named] = "freed"]
            /\ bufs' = [bufs EXCEPT ![Named] = << >>]
         \/ UNCHANGED <<life, bufs>>
  BY DEF HandleFree, taskVars
<1>2. NoNewTask("read")
  BY <1>1, NothingNew DEF NoNewTask
<1>3. \A c \in Conns : WritesTo(c, nqueue') = WritesTo(c, nqueue)
  BY <1>1, WritesHandled
<1>4. CASE UNCHANGED <<life, bufs>>
  BY <1>1, <1>2, <1>4, TakenOrder
<1>5. CASE /\ life[Named] \in {"open", "eof"}
           /\ life' = [life EXCEPT ![Named] = "freed"]
           /\ bufs' = [bufs EXCEPT ![Named] = << >>]
  <2>1. PICK c : c = Named
    OBVIOUS
  <2>2. /\ Head(nqueue) \in Elements(nqueue) /\ Head(nqueue) \in NetItem
        /\ Head(nqueue).kind = "free" /\ Live
    BY <1>1, HandleEffect DEF Live
  <2>3. c \in Conns /\ FreeItem(c) \in Elements(nqueue)
    BY <2>1, <2>2, ItemShape DEF Named
  <2>4. life[c] = "eof"
    BY <1>5, <2>1, <2>2, <2>3 DEF SocketInv, FreesReleased, Ended
  <2>5. DOMAIN life = Conns
    BY DEF SocketInv, ServerTypeOK, NetTypeOK
  <2>6. OutStep
    BY <1>1, <1>3, <1>5, <2>1, <2>3, <2>4, DropStep DEF SocketInv
  <2>7. \A d \in Conns : life[d] # "none" => life'[d] # "none"
    BY <1>5, <2>1, <2>5
  <2>8. OrderInv'
    BY <1>1, <1>2, <2>7, TakenInv
  <2>9. QED
    BY <2>6, <2>8
<1>6. QED
  BY <1>1, <1>4, <1>5

LEMMA HandleOrder ==
  ASSUME OrderInv, SocketInv, ListenFails \/ Listen \/ HandleItem
  PROVE  OrderInv' /\ OutStep
<1>1. CASE ListenFails
  <2>1. PICK x : x = [kind |-> "listen_error"]
    OBVIOUS
  <2>2. x \in Task /\ x.kind # "read" /\ Enqueue(x)
    BY <1>1, <2>1 DEF ListenFails, Task
  <2>3. Handle("new_listener") /\ UNCHANGED <<sent, bufs, life, main, nstop>>
    BY <1>1 DEF ListenFails, HandleListenFails, sockVars
  <2>4. UNCHANGED task /\ NoNewTask("read")
    BY <2>2, EnqueueEffect DEF SocketInv
  <2>5. QED
    BY <2>3, <2>4, TakenOrder
<1>2. CASE Listen \/ HandleItem
  <2>1. UNCHANGED <<taskVars, main>> /\ UNCHANGED <<tqueue, task, main>>
    BY <1>2 DEF Listen, HandleItem, taskVars
  <2>2. NoNewTask("read")
    BY <2>1, NothingNew DEF NoNewTask
  <2>3. CASE Listen \/ HandleStop \/ HandleStopListener \/ HandleInit
    <3>1. PICK kind : /\ Handle(kind) /\ kind # "write"
                      /\ UNCHANGED nstop \/ kind = "stop"
                      /\ UNCHANGED <<sent, bufs, life>>
      BY <2>3 DEF Listen, HandleNewListener, HandleListenFails, HandleStop,
                  HandleStopListener, HandleInit, sockVars
    <3>2. QED
      BY <2>1, <2>2, <3>1, TakenOrder
  <2>4. CASE HandleFreed
    BY <2>1, <2>4, CrashOrder DEF HandleFreed
  <2>5. QED
    BY <1>2, <2>1, <2>3, <2>4, HandleWriteOrder, HandleFreeOrder DEF HandleItem
<1>3. QED
  BY <1>1, <1>2

LEMMA ReleaseOrder ==
  ASSUME OrderInv, SocketInv, NEW a \in Threads, Release(a) \/ ReleaseEnds(a)
  PROVE  OrderInv' /\ OutStep
<1>1. UNCHANGED <<taskVars, main>> /\ UNCHANGED <<tqueue, task, main>>
  BY DEF Release, ReleaseEnds, taskVars
<1>2. NoNewTask("read") /\ TasksFollow /\ MainFollows
  BY <1>1, NothingNew DEF NoNewTask, TasksFollow, MainFollows
<1>3. CASE RelLoad(a) \/ RelStore(a) \/ RelUnlatch(a)
  <2>1. UNCHANGED <<life, bufs, sent, nqueue, npc, nstop>>
    BY <1>3 DEF RelLoad, RelStore, RelUnlatch, sockVars
  <2>2. QED
    BY <1>2, <2>1, QuietOrder
<1>4. CASE RelFreed(a)
  BY <1>1, <1>4, CrashOrder DEF RelFreed
<1>5. CASE RelCheck(a)
  <2> DEFINE item == [kind |-> "free", sock |-> relSock[a]]
  <2>1. PICK x : x = item
    OBVIOUS
  <2>2. /\ relAt[a] = "check" /\ (NetEnqueue(x) \/ UNCHANGED nqueue)
        /\ UNCHANGED <<life, bufs, sent, nstop>>
        /\ IF a = NetThread THEN npc' = "loop" ELSE UNCHANGED npc
    BY <1>5, <2>1 DEF RelCheck, sockVars
  <2>3. relSock[a] \in Conns
    BY <2>2, ReleaseTypes DEF SocketInv, NetReleases
  <2>4. x \in NetItem /\ x.kind = "free"
    BY <2>1, <2>3 DEF NetItem
  <2>5. npc # "exited" /\ npc' # "exited"
    <3>1. CASE a = NetThread
      BY <2>2, <3>1 DEF SocketInv, NetReleases
    <3>2. CASE a # NetThread
      <4>1. a \in Workers
        BY <3>2 DEF Threads
      <4>2. pc[a] # "exited"
        BY <2>2, <4>1 DEF SocketInv, WorkersKeepTasks
      <4>3. QED
        BY <2>2, <3>2, <4>1, <4>2, WorkerFinds DEF OrderInv
    <3>3. QED
      BY <3>1, <3>2
  <2>6. CASE NetEnqueue(x)
    BY <1>1, <1>2, <2>2, <2>4, <2>5, <2>6, AddedOrder
  <2>7. CASE UNCHANGED nqueue
    BY <1>2, <2>2, <2>5, <2>7, QuietOrder
  <2>8. QED
    BY <2>2, <2>6, <2>7
<1>6. QED
  BY <1>3, <1>4, <1>5 DEF Release, ReleaseEnds

LEMMA SendOrder ==
  ASSUME OrderInv, SocketInv, NEW w \in Workers, Send(w), UNCHANGED main
  PROVE  OrderInv' /\ OutStep
<1> DEFINE head == Head(tx[w].ops)
<1>1. PICK op : op = head
  OBVIOUS
<1> DEFINE item == [kind |-> "write", sock |-> op.sock, data |-> op]
<1>2. PICK x : x = item
  OBVIOUS
<1>3. /\ pc[w] = "committing" /\ NetEnqueue(x)
      /\ UNCHANGED <<life, bufs, sent, npc, nstop, tqueue>>
      /\ task' = [task EXCEPT ![w] = NoTask] \/ UNCHANGED task
  BY <1>1, <1>2 DEF Send, Finished, sockVars
<1>4. /\ op \in Data /\ op.sock = task[w].sock /\ op.sock \in Conns /\ task[w].kind = "read"
  BY <1>1, <1>3, NextOperation
<1>5. x \in NetItem /\ x.kind = "write" /\ x.sock = op.sock /\ x.data = op
  BY <1>2, <1>4 DEF NetItem
<1>6. npc # "exited"
  BY <1>3, WorkerFinds DEF OrderInv
<1>7. NoNewItem("stop")
  BY <1>3, <1>5, NetEnqueueEffect DEF SocketInv
<1>8. NoNewTask("read") /\ TasksFollow
  <2>1. DOMAIN task = Workers
    BY WorkerTypes
  <2>2. QED
    BY <1>3, <2>1, NothingNew DEF NoNewTask, TasksFollow, NoTask
<1>9. ReadsKnown'
  BY <1>3, <1>8, ReadsKnownKept DEF OrderInv, SocketInv, TasksFollow
<1>10. StoppedLast'
  BY <1>3, <1>6, <1>7, StoppedLastKept DEF OrderInv
<1>11. \A c \in Conns : WritesTo(c, nqueue') = With(c, x, WritesTo(c, nqueue))
  BY <1>3, <1>5, WritesEnqueued DEF SocketInv
<1>12. PICK s \in Conns : s = op.sock
  BY <1>4
<1>13. /\ WritesTo(s, nqueue') = Append(WritesTo(s, nqueue), op)
       /\ \A c \in Conns \ {s} : WritesTo(c, nqueue') = WritesTo(c, nqueue)
  BY <1>5, <1>11, <1>12 DEF With
<1>14. life[s] # "none"
  BY <1>4, <1>12 DEF OrderInv, ReadsKnown
<1>15. OutStep
  BY <1>3, <1>4, <1>13, <1>14, PutStep DEF SocketInv
<1>16. QED
  BY <1>9, <1>10, <1>15 DEF OrderInv

LEMMA SucceedOrder ==
  ASSUME OrderInv, SocketInv, NEW w \in Workers, Succeed(w)
  PROVE  OrderInv' /\ OutStep
<1>1. UNCHANGED main /\ DOMAIN task = Workers /\ MainFollows
  BY WorkerTypes DEF Succeed, MainFollows
<1>2. Finished(w) \/ UNCHANGED task => TasksFollow
  BY <1>1 DEF Finished, TasksFollow, NoTask
<1>3. UNCHANGED tqueue => NoNewTask("read")
  BY NothingNew DEF NoNewTask
<1>4. CASE (\E n \in 0 .. MaxWrites : EvalRead(w, n)) \/ Released(w) \/ EvalClosed(w)
  <2>1. /\ UNCHANGED <<life, bufs, sent, nqueue, nstop, npc, tqueue>>
        /\ Finished(w) \/ UNCHANGED task
    <3>1. CASE \E n \in 0 .. MaxWrites : EvalRead(w, n)
      BY <3>1 DEF EvalRead, netVars
    <3>2. CASE Released(w)
      BY <3>2 DEF Released, netVars
    <3>3. CASE EvalClosed(w)
      BY <3>3 DEF EvalClosed, sockVars
    <3>4. QED
      BY <1>4, <3>1, <3>2, <3>3
  <2>2. QED
    BY <1>1, <1>2, <1>3, <2>1, QuietOrder
<1>5. CASE EvalAccept(w) \/ EvalStop(w)
  <2> DEFINE accept == [kind |-> "init", sock |-> task[w].sock]
             stop == [kind |-> "stop_listener"]
  <2>1. PICK x, y : x = accept /\ y = stop
    OBVIOUS
  <2>2. /\ pc[w] = "running" /\ Finished(w)
        /\ UNCHANGED <<life, bufs, sent, nstop, npc, tqueue>>
        /\ (NetEnqueue(x) /\ task[w].kind = "accept") \/ NetEnqueue(y)
    BY <1>5, <2>1 DEF EvalAccept, ObjAccept, EvalStop, ObjShutdown, sockVars
  <2>3. npc # "exited"
    BY <2>2, WorkerFinds DEF OrderInv
  <2>4. CASE NetEnqueue(x) /\ task[w].kind = "accept"
    <3>1. task[w] \in Task
      BY <2>4, WorkerTypes DEF NoTask
    <3>2. task[w].sock \in Conns
      BY <2>4, <3>1, TaskShape
    <3>3. x \in NetItem /\ x.kind = "init"
      BY <2>1, <3>2 DEF NetItem
    <3>4. QED
      BY <1>1, <1>2, <1>3, <2>2, <2>3, <2>4, <3>3, AddedOrder
  <2>5. CASE NetEnqueue(y)
    <3>1. y \in NetItem /\ y.kind = "stop_listener"
      BY <2>1 DEF NetItem
    <3>2. QED
      BY <1>1, <1>2, <1>3, <2>2, <2>3, <2>5, <3>1, AddedOrder
  <2>6. QED
    BY <2>2, <2>4, <2>5
<1>6. CASE Send(w)
  BY <1>1, <1>6, SendOrder
<1>7. CASE SendFreed(w)
  BY <1>1, <1>7, CrashOrder DEF SendFreed
<1>8. QED
  BY <1>4, <1>5, <1>6, <1>7 DEF Succeed

LEMMA WorkerOrder ==
  ASSUME OrderInv, SocketInv, NEW w \in Workers, Fail(w) \/ Dequeue(w) \/ Rest(w)
  PROVE  OrderInv' /\ OutStep
<1>1. UNCHANGED main /\ DOMAIN task = Workers /\ MainFollows
  BY WorkerTypes DEF Fail, Dequeue, Rest, MainFollows
<1>2. CASE Fail(w) \/ Rest(w)
  <2>1. UNCHANGED netVars /\ UNCHANGED <<tqueue, task>>
    BY <1>2 DEF Fail, Rest, Retry, Wait, Exit
  <2>2. NoNewTask("read") /\ TasksFollow
    BY <2>1, NothingNew DEF NoNewTask, TasksFollow
  <2>3. QED
    BY <1>1, <2>1, <2>2, QuietOrder DEF netVars, sockVars
<1>3. CASE Take(w)
  <2>1. /\ tqueue # << >> /\ tqueue' = Tail(tqueue) /\ UNCHANGED netVars
        /\ task' = [task EXCEPT ![w] = Head(tqueue)]
    BY <1>3 DEF Take
  <2>2. Head(tqueue) \in Elements(tqueue) /\ NoNewTask("read")
    BY <2>1, TaskTaken
  <2>3. TasksFollow
    BY <1>1, <2>1, <2>2 DEF TasksFollow
  <2>4. QED
    BY <1>1, <2>1, <2>2, <2>3, QuietOrder DEF netVars, sockVars
<1>4. CASE TakeInit(w)
  <2> DEFINE item == [kind |-> "new_listener"]
  <2>1. PICK x : x = item
    OBVIOUS
  <2>2. /\ NetEnqueue(x) /\ pc[w] \in {"ready", "woken"}
        /\ tqueue # << >> /\ tqueue' = Tail(tqueue)
        /\ UNCHANGED <<life, bufs, sent, npc, nstop, task>>
    BY <1>4, <2>1 DEF TakeInit, ObjInit, AtQueue, sockVars
  <2>3. x \in NetItem /\ x.kind = "new_listener"
    BY <2>1 DEF NetItem
  <2>4. NoNewTask("read") /\ TasksFollow
    BY <2>2, TaskTaken DEF TasksFollow
  <2>5. npc # "exited"
    BY <2>2, WorkerFinds DEF OrderInv
  <2>6. QED
    BY <1>1, <2>2, <2>3, <2>4, <2>5, AddedOrder
<1>5. QED
  BY <1>2, <1>3, <1>4 DEF Dequeue

LEMMA MainOrder ==
  ASSUME OrderInv, SocketInv, StopTasks \/ FreeTasks \/ StopNet \/ FreeNet
  PROVE  OrderInv' /\ OutStep
<1>1. CASE StopTasks
  <2>1. PICK x : x = [kind |-> "stop"]
    OBVIOUS
  <2>2. x \in Task /\ x.kind # "read" /\ Enqueue(x) /\ UNCHANGED netVars /\ MainFollows
    BY <1>1, <2>1 DEF StopTasks, Task, MainFollows
  <2>3. UNCHANGED task /\ NoNewTask("read")
    BY <2>2, EnqueueEffect DEF SocketInv
  <2>4. QED
    BY <2>2, <2>3, QuietOrder DEF TasksFollow, netVars, sockVars
<1>2. CASE FreeTasks
  <2>1. UNCHANGED <<netVars, taskVars>> /\ MainFollows
    BY <1>2 DEF FreeTasks, MainFollows
  <2>2. NoNewTask("read") /\ TasksFollow
    BY <2>1, NothingNew DEF NoNewTask, TasksFollow, taskVars
  <2>3. QED
    BY <2>1, <2>2, QuietOrder DEF netVars, sockVars
<1>3. CASE StopNet
  <2>1. PICK x : x = [kind |-> "stop"]
    OBVIOUS
  <2>2. /\ x \in NetItem /\ x.kind = "stop" /\ NetEnqueue(x)
        /\ main = "freed_tasks" /\ main' = "joining_net"
        /\ UNCHANGED <<life, bufs, sent, npc, nstop, tqueue, task>>
    BY <1>3, <2>1 DEF StopNet, NetItem, sockVars, taskVars
  <2>3. ReadsKnown'
    BY <2>2, NothingNew, ReadsKnownKept DEF OrderInv, SocketInv, NoNewTask
  <2>4. StoppedLast'
    BY <2>2 DEF OrderInv, StoppedLast
  <2>5. \A c \in Conns : WritesTo(c, nqueue') = WritesTo(c, nqueue)
    BY <2>2, WritesEnqueued DEF SocketInv, With
  <2>6. OutStep
    BY <2>2, <2>5, Stutters DEF StateOf
  <2>7. QED
    BY <2>3, <2>4, <2>6 DEF OrderInv
<1>4. CASE FreeNet
  <2>1. /\ npc = "exited" /\ main' = "freed_net"
        /\ life' = [c \in Conns |-> IF life[c] = "none" THEN "none" ELSE "freed"]
        /\ bufs' = [c \in Conns |-> << >>]
        /\ UNCHANGED <<sent, nqueue, npc, nstop, tqueue, task>>
    BY <1>4 DEF FreeNet, NetFreeCtx, taskVars
  <2>2. nqueue = << >> /\ DOMAIN life = Conns
    BY <2>1 DEF OrderInv, StoppedLast, SocketInv, ServerTypeOK, NetTypeOK
  <2>3. ReadsKnown'
    BY <2>1, NothingNew, ReadsKnownKept DEF OrderInv, SocketInv, NoNewTask
  <2>4. StoppedLast'
    BY <2>1, StoppedLastKept DEF OrderInv
  <2>5. QED
    BY <2>1, <2>2, <2>3, <2>4, CloseStep DEF OrderInv
<1>5. QED
  BY <1>1, <1>2, <1>3, <1>4

LEMMA OrderStep ==
  ASSUME OrderInv, SocketInv, ServerInv, [ServerNext]_serverVars
  PROVE  OrderInv' /\ OutStep
<1>1. CASE UNCHANGED serverVars
  <2>1. UNCHANGED <<netVars, taskVars, main>>
    BY <1>1 DEF serverVars
  <2>2. NoNewTask("read") /\ TasksFollow /\ MainFollows
    BY <2>1, NothingNew DEF NoNewTask, TasksFollow, MainFollows, taskVars
  <2>3. QED
    BY <2>1, <2>2, QuietOrder DEF netVars, sockVars
<1>2. CASE CallbackFreed \/ FreedMemory
  <2>1. UNCHANGED <<taskVars, main>> /\ \E f : NetCrash(f)
    BY <1>2 DEF CallbackFreed, FreedMemory, AcceptFreed, WatcherFreed
  <2>2. QED
    BY <2>1, CrashOrder
<1>3. \A w \in Workers : w \in Threads
  BY DEF Threads
<1>4. QED
  BY <1>1, <1>2, <1>3, ClientOrder, HandleOrder, ReleaseOrder, SucceedOrder,
     WorkerOrder, MainOrder DEF ServerNext

LEMMA OrderInit == ServerInit => OrderInv /\ Promise!OutInit
<1> SUFFICES ASSUME ServerInit PROVE OrderInv /\ Promise!OutInit
  OBVIOUS
<1>1. /\ nqueue = << >> /\ npc = "loop" /\ nstop = FALSE
      /\ life = [c \in Conns |-> "none"] /\ bufs = [c \in Conns |-> << >>]
      /\ sent = [c \in Conns |-> << >>]
      /\ tqueue = <<[kind |-> "init"]>> /\ task = [w \in Workers |-> NoTask]
  BY DEF ServerInit, NetInit, TasksInit
<1>2. \A x \in Elements(tqueue) : x.kind = "init"
  BY <1>1 DEF Elements
<1>3. OrderInv
  BY <1>1, <1>2, EmptySequence DEF OrderInv, ReadsKnown, StoppedLast, NoTask
<1>4. \A c \in Conns : StateOf(c) = "none" /\ PendingOf(c) = << >>
  BY <1>1, WritesNothing DEF StateOf, PendingOf
<1>5. States = [c \in Conns |-> "none"] /\ Pendings = [c \in Conns |-> << >>]
  BY <1>4 DEF States, Pendings
<1>6. Promise!OutInit
  BY <1>1, <1>5 DEF Promise!OutInit, States, StateOf, Pendings, PendingOf
<1>7. QED
  BY <1>3, <1>6

\* The network thread implements module Outbox: what is handed to it for a
\* connection is neither lost, doubled nor reordered while the connection is
\* open (the queue and buffers of src/src/net.c).
THEOREM ServerOutputInOrder == ServerSpec => OutputInOrder
<1>1. OrderInv /\ SocketInv /\ ServerInv /\ [ServerNext]_serverVars => OrderInv' /\ OutStep
  BY OrderStep
<1>2. OutStep => [Promise!OutNext]_(Promise!outVars)
  BY DEF OutStep, Promise!outVars, States, StateOf, Pendings, PendingOf
<1>3. QED
  BY <1>1, <1>2, OrderInit, SocketInvariant, ServerInvariant, PTL
     DEF ServerSpec, OutputInOrder, Promise!OutSpec

=============================================================================

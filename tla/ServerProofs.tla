---------------------------- MODULE ServerProofs ----------------------------
(***************************************************************************)
(* The server for any number of workers, connections, messages and writes. *)
(* First the output on its way to the clients: the write watcher always    *)
(* finds a buffer, and only output that came after the end of a connection *)
(* goes astray.  Then the sockets' references and the tasks that hold      *)
(* them: what a reference count says, which tasks of a connection are      *)
(* left, and what every fault of the server goes back to.                  *)
(***************************************************************************)
EXTENDS Server, FiniteSetTheorems, SequenceTheorems, TLAPS

-----------------------------------------------------------------------------
(* Sequences of anything.                                                  *)

Elements(q) == {q[i] : i \in DOMAIN q}
IsSeq(q) == q \in Seq(Elements(q))

LEMMA EmptySequence == IsSeq(<< >>) /\ Elements(<< >>) = {}
  BY DEF IsSeq, Elements

\* What Append adds to a sequence.
LEMMA Appended ==
  ASSUME NEW q, NEW x, IsSeq(q)
  PROVE  /\ IsSeq(Append(q, x))
         /\ Elements(Append(q, x)) = Elements(q) \cup {x}
         /\ Append(q, x) # << >>
<1> DEFINE p == Append(q, x)
<1>1. q \in Seq(Elements(q) \cup {x})
  BY DEF IsSeq
<1>2. /\ p \in Seq(Elements(q) \cup {x})
      /\ Len(p) = Len(q) + 1 /\ Len(q) \in Nat
      /\ DOMAIN p = 1 .. Len(q) + 1 /\ DOMAIN q = 1 .. Len(q)
      /\ \A i \in 1 .. Len(q) : p[i] = q[i]
      /\ p[Len(q) + 1] = x
  BY <1>1
<1> HIDE DEF p
<1>3. Elements(p) = Elements(q) \cup {x}
  <2>1. \A i \in DOMAIN p : p[i] \in Elements(q) \cup {x}
    BY <1>2
  <2>2. \A i \in DOMAIN q : q[i] \in Elements(p)
    BY <1>2 DEF Elements
  <2>3. x \in Elements(p)
    BY <1>2 DEF Elements
  <2>4. QED
    BY <2>1, <2>2, <2>3 DEF Elements
<1>4. p # << >>
  BY <1>2
<1>5. QED
  BY <1>2, <1>3, <1>4 DEF p, IsSeq

\* What is left without the head.
LEMMA Shortened ==
  ASSUME NEW q, IsSeq(q), q # << >>
  PROVE  /\ IsSeq(Tail(q))
         /\ Elements(Tail(q)) \subseteq Elements(q)
         /\ Head(q) \in Elements(q)
         /\ Len(q) # 1 => Tail(q) # << >>
<1> DEFINE p == Tail(q)
<1>1. /\ Len(q) \in Nat /\ Len(q) # 0
      /\ DOMAIN q = 1 .. Len(q)
      /\ Head(q) = q[1]
      /\ p \in Seq(Elements(q))
      /\ Len(p) = Len(q) - 1
      /\ DOMAIN p = 1 .. Len(q) - 1
      /\ \A i \in 1 .. Len(q) - 1 : p[i] = q[i + 1]
  BY DEF IsSeq
<1> HIDE DEF p
<1>2. Elements(p) \subseteq Elements(q)
  <2>1. \A i \in DOMAIN p : i + 1 \in DOMAIN q /\ p[i] = q[i + 1]
    BY <1>1
  <2>2. QED
    BY <2>1 DEF Elements
<1>3. IsSeq(p)
  <2>1. \A i \in 1 .. Len(p) : p[i] \in Elements(p)
    BY <1>1 DEF Elements
  <2>2. QED
    BY <1>1, <2>1 DEF IsSeq
<1>4. Head(q) \in Elements(q)
  BY <1>1 DEF Elements
<1>5. Len(q) # 1 => p # << >>
  BY <1>1
<1>6. QED
  BY <1>2, <1>3, <1>4, <1>5 DEF p

-----------------------------------------------------------------------------
(* The inductive invariant.                                                *)

SocketsTyped ==
  /\ life \in [Conns -> {"none", "open", "eof", "freed"}]
  /\ writing \in [Conns -> BOOLEAN]
  /\ DOMAIN fd = Conns
  /\ DOMAIN bufs = Conns
  /\ DOMAIN sent = Conns
  /\ IsSeq(nqueue)
  /\ \A c \in Conns : IsSeq(bufs[c]) /\ IsSeq(sent[c])

\* Output is queued and buffered for the socket it was written to.
OwnOutput ==
  /\ \A x \in Elements(nqueue) : x.kind = "write" => x.data.sock = x.sock
  /\ \A c \in Conns : \A d \in Elements(bufs[c]) : d.sock = c

\* No two open connections have the same descriptor.
OwnDescriptor ==
  \A c, d \in Conns :
    life[c] = "open" /\ life[d] = "open" /\ fd[c] = fd[d] => c = d

\* What is written behind the end of a connection came after it.
LateOutput ==
  \A c \in Conns : life[c] = "eof" /\ writing[c] => Elements(bufs[c]) \subseteq late

StrayOutput ==
  \A c \in Conns : \A d \in Elements(sent[c]) : d.sock # c => d \in late

ServerInv ==
  /\ SocketsTyped
  /\ WatcherHasBuffer
  /\ OwnOutput
  /\ OwnDescriptor
  /\ LateOutput
  /\ StrayOutput

-----------------------------------------------------------------------------
(* Steps that touch nothing but the queue of the network thread.           *)

outputVars == <<life, fd, writing, bufs, sent, late>>

OwnItem(x) == x.kind = "write" => x.data.sock = x.sock

LEMMA OthersKept ==
  ASSUME ServerInv, UNCHANGED outputVars,
         IsSeq(nqueue'), \A x \in Elements(nqueue') : OwnItem(x)
  PROVE  ServerInv'
  BY DEF ServerInv, SocketsTyped, WatcherHasBuffer, OwnOutput, OwnDescriptor,
         LateOutput, StrayOutput, outputVars, OwnItem

LEMMA QueueKept ==
  ASSUME ServerInv, UNCHANGED outputVars, UNCHANGED nqueue
  PROVE  ServerInv'
<1>1. IsSeq(nqueue') /\ \A x \in Elements(nqueue') : OwnItem(x)
  BY DEF ServerInv, SocketsTyped, OwnOutput, OwnItem
<1>2. QED
  BY <1>1, OthersKept

LEMMA ItemTaken ==
  ASSUME ServerInv, nqueue # << >>, nqueue' = Tail(nqueue)
  PROVE  /\ IsSeq(nqueue')
         /\ \A x \in Elements(nqueue') : OwnItem(x)
         /\ OwnItem(Head(nqueue))
<1>1. IsSeq(nqueue) /\ \A x \in Elements(nqueue) : OwnItem(x)
  BY DEF ServerInv, SocketsTyped, OwnOutput, OwnItem
<1>2. QED
  BY <1>1, Shortened

LEMMA QueueShorter ==
  ASSUME ServerInv, UNCHANGED outputVars, nqueue # << >>, nqueue' = Tail(nqueue)
  PROVE  ServerInv'
  BY ItemTaken, OthersKept

LEMMA QueueLonger ==
  ASSUME ServerInv, UNCHANGED outputVars, NEW x, OwnItem(x), NetEnqueue(x)
  PROVE  ServerInv'
<1>1. IsSeq(nqueue) /\ \A y \in Elements(nqueue) : OwnItem(y)
  BY DEF ServerInv, SocketsTyped, OwnOutput, OwnItem
<1>2. nqueue' = Append(nqueue, x)
  BY DEF NetEnqueue
<1>3. IsSeq(nqueue') /\ \A y \in Elements(nqueue') : OwnItem(y)
  BY <1>1, <1>2, Appended
<1>4. QED
  BY <1>3, OthersKept

-----------------------------------------------------------------------------
(* The steps of the network thread that touch a socket.                    *)

LEMMA AcceptInv ==
  ASSUME ServerInv, NEW c \in Conns, Accept(c)
  PROVE  ServerInv'
<1>1. /\ life' = [life EXCEPT ![c] = "open"]
      /\ life[c] = "none"
      /\ UNCHANGED <<nqueue, writing, bufs, sent, late>>
  BY DEF Accept, CanAccept
<1>2. PICK n \in LowestFds : fd' = [fd EXCEPT ![c] = n]
  BY DEF Accept
<1>3. SocketsTyped'
  BY <1>1, <1>2 DEF ServerInv, SocketsTyped
<1>4. OwnDescriptor'
  <2>1. \A d \in Conns : life[d] = "open" => fd[d] # n
    BY <1>2 DEF LowestFds, FreeFds
  <2>2. QED
    BY <1>1, <1>2, <2>1 DEF ServerInv, SocketsTyped, OwnDescriptor
<1>5. WatcherHasBuffer' /\ OwnOutput' /\ LateOutput' /\ StrayOutput'
  BY <1>1 DEF ServerInv, SocketsTyped, WatcherHasBuffer, OwnOutput, LateOutput,
              StrayOutput
<1>6. QED
  BY <1>3, <1>4, <1>5 DEF ServerInv

\* The end of the connection stops a watcher that was active: it had a buffer.
LEMMA ReadEofInv ==
  ASSUME ServerInv, NEW c \in Conns, ReadEof(c)
  PROVE  ServerInv'
<1>1. /\ life' = [life EXCEPT ![c] = "eof"]
      /\ life[c] = "open"
      /\ UNCHANGED <<nqueue, fd, bufs, sent, late>>
  BY DEF ReadEof, CanRead
<1>2. writing' = [writing EXCEPT ![c] = FALSE]
  <2>1. writing' = [writing EXCEPT ![c] = writing[c] /\ ~(bufs[c] # << >>)]
    BY DEF ReadEof, EofStopsWriting, ServerInv, SocketsTyped
  <2>2. writing[c] => bufs[c] # << >>
    BY <1>1 DEF ServerInv, WatcherHasBuffer
  <2>3. QED
    BY <2>1, <2>2
<1>3. SocketsTyped'
  BY <1>1, <1>2 DEF ServerInv, SocketsTyped
<1>4. OwnDescriptor'
  BY <1>1 DEF ServerInv, SocketsTyped, OwnDescriptor
<1>5. WatcherHasBuffer' /\ LateOutput'
  BY <1>1, <1>2 DEF ServerInv, SocketsTyped, WatcherHasBuffer, LateOutput
<1>6. OwnOutput' /\ StrayOutput'
  BY <1>1 DEF ServerInv, OwnOutput, StrayOutput
<1>7. QED
  BY <1>3, <1>4, <1>5, <1>6 DEF ServerInv

\* A WRITE item starts the watcher only if there was no buffer: behind the end
\* of a connection all a started watcher sees came late.
LEMMA HandleWriteInv ==
  ASSUME ServerInv, HandleWrite
  PROVE  ServerInv'
<1> DEFINE x == Head(nqueue)
           c == Named
           started == writing[c] \/ bufs[c] = << >>
<1>1. /\ nqueue # << >> /\ nqueue' = Tail(nqueue)
      /\ x.kind = "write"
      /\ c = x.sock
      /\ bufs' = [bufs EXCEPT ![c] = Append(bufs[c], x.data)]
      /\ late' = IF life[c] = "eof" THEN late \cup {x.data} ELSE late
      /\ UNCHANGED <<life, fd, sent>>
  BY DEF HandleWrite, Handle, CanHandle, Named, ServerInv, SocketsTyped
<1>2. writing' = [writing EXCEPT ![c] = started]
  BY DEF HandleWrite, StartsWriting
<1>3. IsSeq(nqueue') /\ \A y \in Elements(nqueue') : OwnItem(y)
  BY <1>1, ItemTaken
<1>4. x.data.sock = c
  BY <1>1, ItemTaken DEF OwnItem
<1> HIDE DEF x, c
<1>5. CASE c \in Conns
  <2>1. /\ IsSeq(bufs'[c])
        /\ Elements(bufs'[c]) = Elements(bufs[c]) \cup {x.data}
        /\ bufs'[c] # << >>
    BY <1>1, <1>5, Appended DEF ServerInv, SocketsTyped
  <2>2. \A d \in Conns \ {c} : bufs'[d] = bufs[d] /\ writing'[d] = writing[d]
    BY <1>1, <1>2 DEF ServerInv, SocketsTyped
  <2>3. writing'[c] = started
    BY <1>2, <1>5 DEF ServerInv, SocketsTyped
  <2>4. SocketsTyped'
    <3>1. writing' \in [Conns -> BOOLEAN]
      BY <1>2 DEF ServerInv, SocketsTyped
    <3>2. \A d \in Conns : IsSeq(bufs'[d])
      BY <2>1, <2>2 DEF ServerInv, SocketsTyped
    <3>3. DOMAIN bufs' = Conns
      BY <1>1 DEF ServerInv, SocketsTyped
    <3>4. QED
      BY <1>1, <1>3, <3>1, <3>2, <3>3 DEF ServerInv, SocketsTyped
  <2>5. WatcherHasBuffer'
    BY <1>1, <2>1, <2>2 DEF ServerInv, WatcherHasBuffer
  <2>6. OwnOutput'
    BY <1>3, <1>4, <2>1, <2>2 DEF ServerInv, OwnOutput, OwnItem
  <2>7. late \subseteq late' /\ (life[c] = "eof" => x.data \in late')
    BY <1>1
  <2>8. LateOutput'
    <3>1. life[c] = "eof" /\ started => Elements(bufs[c]) \subseteq late
      BY <1>5, EmptySequence DEF ServerInv, LateOutput
    <3>2. life[c] = "eof" /\ writing'[c] => Elements(bufs'[c]) \subseteq late'
      BY <2>1, <2>3, <2>7, <3>1
    <3>3. QED
      BY <1>1, <2>2, <2>7, <3>2 DEF ServerInv, LateOutput
  <2>9. OwnDescriptor' /\ StrayOutput'
    BY <1>1, <2>7 DEF ServerInv, OwnDescriptor, StrayOutput
  <2>10. QED
    BY <2>4, <2>5, <2>6, <2>8, <2>9 DEF ServerInv
<1>6. CASE c \notin Conns
  <2>1. /\ \A d \in Conns : bufs'[d] = bufs[d] /\ writing'[d] = writing[d]
        /\ DOMAIN bufs' = Conns
        /\ writing' \in [Conns -> BOOLEAN]
        /\ late \subseteq late'
    BY <1>1, <1>2, <1>6 DEF ServerInv, SocketsTyped
  <2>2. QED
    BY <1>1, <1>3, <2>1
       DEF ServerInv, SocketsTyped, WatcherHasBuffer, OwnOutput, OwnDescriptor,
           LateOutput, StrayOutput, OwnItem
<1>7. QED
  BY <1>5, <1>6

LEMMA HandleFreeInv ==
  ASSUME ServerInv, HandleFree
  PROVE  ServerInv'
<1> DEFINE c == Named
<1>1. /\ nqueue # << >> /\ nqueue' = Tail(nqueue)
      /\ UNCHANGED <<fd, writing, sent, late>>
  BY DEF HandleFree, Handle, CanHandle
<1>2. CASE UNCHANGED <<life, bufs>>
  BY <1>1, <1>2, QueueShorter DEF outputVars
<1>3. CASE life' = [life EXCEPT ![c] = "freed"] /\ bufs' = [bufs EXCEPT ![c] = << >>]
  <2>1. IsSeq(nqueue') /\ \A y \in Elements(nqueue') : OwnItem(y)
    BY <1>1, ItemTaken
  <2>2. \A d \in Conns : \/ life'[d] = "freed" /\ bufs'[d] = << >>
                         \/ life'[d] = life[d] /\ bufs'[d] = bufs[d]
    BY <1>3 DEF ServerInv, SocketsTyped
  <2>3. SocketsTyped'
    BY <1>1, <1>3, <2>1, <2>2, EmptySequence DEF ServerInv, SocketsTyped
  <2>4. OwnOutput'
    BY <2>1, <2>2, EmptySequence DEF ServerInv, OwnOutput, OwnItem
  <2>5. WatcherHasBuffer' /\ OwnDescriptor' /\ LateOutput' /\ StrayOutput'
    BY <1>1, <2>2 DEF ServerInv, WatcherHasBuffer, OwnDescriptor, LateOutput,
                      StrayOutput
  <2>6. QED
    BY <2>3, <2>4, <2>5 DEF ServerInv
<1>4. QED
  BY <1>2, <1>3 DEF HandleFree

LEMMA WriteFailsInv ==
  ASSUME ServerInv, NEW c \in Conns, WriteFails(c)
  PROVE  ServerInv'
<1>1. /\ writing' = [writing EXCEPT ![c] = FALSE]
      /\ UNCHANGED <<nqueue, life, fd, bufs, sent, late>>
  BY DEF WriteFails, sockVars
<1>2. SocketsTyped' /\ WatcherHasBuffer' /\ LateOutput'
  BY <1>1 DEF ServerInv, SocketsTyped, WatcherHasBuffer, LateOutput
<1>3. OwnOutput' /\ OwnDescriptor' /\ StrayOutput'
  BY <1>1 DEF ServerInv, OwnOutput, OwnDescriptor, StrayOutput
<1>4. QED
  BY <1>2, <1>3 DEF ServerInv

\* Who gets the buffer has the descriptor of c: c itself while it is open.
LEMMA WriteBufferInv ==
  ASSUME ServerInv, NEW c \in Conns, WriteBuffer(c)
  PROVE  ServerInv'
<1> DEFINE x == Head(bufs[c])
<1>1. /\ writing[c]
      /\ life[c] \in {"open", "eof"}
      /\ bufs' = [bufs EXCEPT ![c] = Tail(bufs[c])]
      /\ writing' = [writing EXCEPT ![c] = ~(Len(bufs[c]) = 1)]
      /\ UNCHANGED <<nqueue, life, fd, late>>
  BY DEF WriteBuffer, BufferStopsWriting, ServerInv, SocketsTyped
<1>2. PICK r \in Receivers(c) : sent' = [sent EXCEPT ![r] = Append(sent[r], x)]
  BY DEF WriteBuffer, ServerInv, SocketsTyped
<1>3. r \in Conns /\ life[r] = "open" /\ fd[r] = fd[c]
  BY DEF Receivers
<1>4. bufs[c] # << >> /\ IsSeq(bufs[c])
  BY <1>1 DEF ServerInv, WatcherHasBuffer, SocketsTyped
<1>5. /\ IsSeq(bufs'[c])
      /\ Elements(bufs'[c]) \subseteq Elements(bufs[c])
      /\ x \in Elements(bufs[c])
      /\ writing'[c] => bufs'[c] # << >>
  BY <1>1, <1>4, Shortened DEF ServerInv, SocketsTyped
<1>6. x.sock # r => x \in late
  <2>1. x.sock = c
    BY <1>5 DEF ServerInv, OwnOutput
  <2>2. CASE life[c] = "open"
    BY <1>3, <2>1, <2>2 DEF ServerInv, OwnDescriptor
  <2>3. CASE life[c] = "eof"
    BY <1>1, <1>5, <2>3 DEF ServerInv, LateOutput
  <2>4. QED
    BY <1>1, <2>2, <2>3
<1> HIDE DEF x
<1>7. \A d \in Conns \ {c} : bufs'[d] = bufs[d] /\ writing'[d] = writing[d]
  BY <1>1 DEF ServerInv, SocketsTyped
<1>8. /\ IsSeq(sent'[r])
      /\ Elements(sent'[r]) = Elements(sent[r]) \cup {x}
      /\ \A d \in Conns \ {r} : sent'[d] = sent[d]
  BY <1>2, <1>3, Appended DEF ServerInv, SocketsTyped
<1>9. SocketsTyped'
  <2>1. writing' \in [Conns -> BOOLEAN] /\ DOMAIN bufs' = Conns /\ DOMAIN sent' = Conns
    BY <1>1, <1>2 DEF ServerInv, SocketsTyped
  <2>2. \A d \in Conns : IsSeq(bufs'[d]) /\ IsSeq(sent'[d])
    BY <1>5, <1>7, <1>8 DEF ServerInv, SocketsTyped
  <2>3. QED
    BY <1>1, <2>1, <2>2 DEF ServerInv, SocketsTyped
<1>10. WatcherHasBuffer' /\ OwnOutput' /\ OwnDescriptor' /\ LateOutput'
  BY <1>1, <1>5, <1>7
     DEF ServerInv, WatcherHasBuffer, OwnOutput, OwnDescriptor, LateOutput
<1>11. StrayOutput'
  BY <1>1, <1>6, <1>8 DEF ServerInv, StrayOutput
<1>12. QED
  BY <1>9, <1>10, <1>11 DEF ServerInv

LEMMA NetFreeCtxInv ==
  ASSUME ServerInv, NetFreeCtx
  PROVE  ServerInv'
<1>1. /\ life' = [c \in Conns |-> IF life[c] = "none" THEN "none" ELSE "freed"]
      /\ writing' = [c \in Conns |-> FALSE]
      /\ bufs' = [c \in Conns |-> << >>]
      /\ UNCHANGED <<nqueue, fd, sent, late>>
  BY DEF NetFreeCtx
<1>2. SocketsTyped' /\ OwnOutput'
  BY <1>1, EmptySequence DEF ServerInv, SocketsTyped, OwnOutput
<1>3. WatcherHasBuffer' /\ OwnDescriptor' /\ LateOutput' /\ StrayOutput'
  BY <1>1 DEF ServerInv, WatcherHasBuffer, OwnDescriptor, LateOutput, StrayOutput
<1>4. QED
  BY <1>2, <1>3 DEF ServerInv

-----------------------------------------------------------------------------
(* Every step is one of these.                                             *)

LEMMA InitInv == ServerInit => ServerInv
<1> SUFFICES ASSUME ServerInit PROVE ServerInv
  OBVIOUS
<1>1. SocketsTyped /\ OwnOutput /\ StrayOutput
  BY EmptySequence DEF ServerInit, NetInit, SocketsTyped, OwnOutput, StrayOutput
<1>2. WatcherHasBuffer /\ OwnDescriptor /\ LateOutput
  BY DEF ServerInit, NetInit, WatcherHasBuffer, OwnDescriptor, LateOutput
<1>3. QED
  BY <1>1, <1>2 DEF ServerInv

LEMMA CrashInv ==
  ASSUME ServerInv, NEW f, NetCrash(f)
  PROVE  ServerInv'
  BY QueueKept DEF NetCrash, sockVars, outputVars

LEMMA HandleItemInv ==
  ASSUME ServerInv, HandleItem \/ Listen \/ ListenFails
  PROVE  ServerInv'
<1>1. CASE HandleStop \/ HandleStopListener \/ HandleInit
           \/ HandleNewListener \/ HandleListenFails
  BY <1>1, QueueShorter
     DEF HandleStop, HandleStopListener, HandleInit, HandleNewListener,
         HandleListenFails, Handle, CanHandle, sockVars, outputVars
<1>2. CASE HandleFreed
  BY <1>2, CrashInv DEF HandleFreed
<1>3. QED
  BY <1>1, <1>2, HandleWriteInv, HandleFreeInv DEF HandleItem, Listen, ListenFails

LEMMA ClientInv ==
  ASSUME ServerInv, NEW c \in Conns,
         Connect(c) \/ Receive(c) \/ HangUp(c) \/ Output(c)
  PROVE  ServerInv'
<1>1. CASE Receive(c)
  BY <1>1, QueueKept DEF Receive, ReadData, netVars, outputVars
<1>2. CASE WriteSome(c)
  BY <1>2, QueueKept DEF WriteSome, outputVars
<1>3. QED
  BY <1>1, <1>2, AcceptInv, ReadEofInv, WriteBufferInv, WriteFailsInv
     DEF Connect, HangUp, Output

LEMMA ReleaseInv ==
  ASSUME ServerInv, NEW a, Release(a) \/ ReleaseEnds(a)
  PROVE  ServerInv'
<1>1. CASE RelLoad(a) \/ RelStore(a) \/ RelUnlatch(a)
  BY <1>1, QueueKept DEF RelLoad, RelStore, RelUnlatch, sockVars, outputVars
<1>2. CASE RelFreed(a)
  BY <1>2, CrashInv DEF RelFreed
<1>3. CASE RelCheck(a)
  <2>1. UNCHANGED outputVars
    BY <1>3 DEF RelCheck, sockVars, outputVars
  <2>2. \/ UNCHANGED nqueue
        \/ NetEnqueue([kind |-> "free", sock |-> relSock[a]])
    BY <1>3 DEF RelCheck
  <2>3. OwnItem([kind |-> "free", sock |-> relSock[a]])
    BY DEF OwnItem
  <2>4. QED
    BY <2>1, <2>2, <2>3, QueueKept, QueueLonger
<1>4. QED
  BY <1>1, <1>2, <1>3 DEF Release, ReleaseEnds

LEMMA SucceedInv ==
  ASSUME ServerInv, NEW w \in Workers, Succeed(w)
  PROVE  ServerInv'
<1>1. CASE \/ \E n \in 0 .. MaxWrites : EvalRead(w, n)
           \/ EvalClosed(w) \/ Released(w)
  BY <1>1, QueueKept DEF EvalRead, EvalClosed, Released, netVars, sockVars, outputVars
<1>2. CASE EvalAccept(w)
  <2> DEFINE item == [kind |-> "init", sock |-> task[w].sock]
  <2>1. OwnItem(item) /\ NetEnqueue(item) /\ UNCHANGED outputVars
    BY <1>2 DEF EvalAccept, ObjAccept, OwnItem, sockVars, outputVars
  <2>2. QED
    BY <2>1, QueueLonger
<1>3. CASE EvalStop(w)
  <2> DEFINE item == [kind |-> "stop_listener"]
  <2>1. OwnItem(item) /\ NetEnqueue(item) /\ UNCHANGED outputVars
    BY <1>3 DEF EvalStop, ObjShutdown, OwnItem, sockVars, outputVars
  <2>2. QED
    BY <2>1, QueueLonger
<1>4. CASE Send(w)
  <2> DEFINE op == Head(tx[w].ops)
             item == [kind |-> "write", sock |-> op.sock, data |-> op]
  <2>1. OwnItem(item) /\ NetEnqueue(item) /\ UNCHANGED outputVars
    BY <1>4 DEF Send, OwnItem, sockVars, outputVars
  <2>2. QED
    BY <2>1, QueueLonger
<1>5. CASE SendFreed(w)
  BY <1>5, CrashInv DEF SendFreed
<1>6. QED
  BY <1>1, <1>2, <1>3, <1>4, <1>5 DEF Succeed

LEMMA WorkerInv ==
  ASSUME ServerInv, NEW w \in Workers, Fail(w) \/ Dequeue(w) \/ Rest(w)
  PROVE  ServerInv'
<1>1. CASE Fail(w) \/ Take(w) \/ Rest(w)
  BY <1>1, QueueKept DEF Fail, Retry, Take, Rest, Wait, Exit, netVars, outputVars
<1>2. CASE TakeInit(w)
  <2> DEFINE item == [kind |-> "new_listener"]
  <2>1. OwnItem(item) /\ NetEnqueue(item) /\ UNCHANGED outputVars
    BY <1>2 DEF TakeInit, ObjInit, OwnItem, sockVars, outputVars
  <2>2. QED
    BY <2>1, QueueLonger
<1>3. QED
  BY <1>1, <1>2 DEF Dequeue

LEMMA MainInv ==
  ASSUME ServerInv, StopTasks \/ FreeTasks \/ StopNet \/ FreeNet
  PROVE  ServerInv'
<1>1. CASE StopTasks \/ FreeTasks
  BY <1>1, QueueKept DEF StopTasks, FreeTasks, netVars, outputVars
<1>2. CASE StopNet
  <2> DEFINE item == [kind |-> "stop"]
  <2>1. OwnItem(item) /\ NetEnqueue(item) /\ UNCHANGED outputVars
    BY <1>2 DEF StopNet, OwnItem, sockVars, outputVars
  <2>2. QED
    BY <2>1, QueueLonger
<1>3. QED
  BY <1>1, <1>2, NetFreeCtxInv DEF FreeNet

LEMMA FreedInv ==
  ASSUME ServerInv, CallbackFreed \/ FreedMemory
  PROVE  ServerInv'
  BY CrashInv DEF CallbackFreed, FreedMemory, AcceptFreed, WatcherFreed

LEMMA StepInv ==
  ASSUME ServerInv, [ServerNext]_serverVars
  PROVE  ServerInv'
<1>1. CASE UNCHANGED serverVars
  BY <1>1, QueueKept DEF serverVars, netVars, outputVars
<1>2. CASE ServerNext
  BY <1>2, ClientInv, HandleItemInv, FreedInv, ReleaseInv, SucceedInv, WorkerInv,
     MainInv DEF ServerNext
<1>3. QED
  BY <1>1, <1>2

\* The invariant holds in every state the server can reach.
THEOREM ServerInvariant == ServerSpec => []ServerInv
<1>1. ServerInv /\ [ServerNext]_serverVars => ServerInv'
  BY StepInv
<1>2. QED
  BY InitInv, <1>1, PTL DEF ServerSpec

\* net_write_cb() is never called for a socket without a buffer.
THEOREM ServerWatcherHasBuffer == ServerSpec => []WatcherHasBuffer
<1>1. ServerInv => WatcherHasBuffer
  BY DEF ServerInv
<1>2. QED
  BY <1>1, ServerInvariant, PTL

\* What a client is sent was written to its own connection, or was handed to
\* the socket of another one after that had ended.
THEOREM ServerStrayOutput == ServerSpec => []StrayOutputOnlyAfterEof
<1>1. ServerInv => StrayOutputOnlyAfterEof
  BY DEF ServerInv, StrayOutput, StrayOutputOnlyAfterEof, Elements
<1>2. QED
  BY <1>1, ServerInvariant, PTL

-----------------------------------------------------------------------------
(* Sequences of anything, continued.                                       *)

\* What comes after an x in q; x itself if it is there twice.
Behind(q, x) == {q[j] : j \in {k \in DOMAIN q : \E i \in DOMAIN q : i < k /\ q[i] = x}}

LEMMA ElementsOfSeq ==
  ASSUME NEW S, NEW q \in Seq(S)
  PROVE  IsSeq(q) /\ Elements(q) \subseteq S
<1>1. \A i \in DOMAIN q : q[i] \in S
  OBVIOUS
<1>2. q \in Seq(Elements(q))
  <2>1. Len(q) \in Nat /\ DOMAIN q = 1 .. Len(q)
    OBVIOUS
  <2>2. \A i \in 1 .. Len(q) : q[i] \in Elements(q)
    BY <2>1 DEF Elements
  <2>3. q = [i \in 1 .. Len(q) |-> q[i]]
    OBVIOUS
  <2>4. QED
    BY <2>1, <2>2, <2>3
<1>3. QED
  BY <1>1, <1>2 DEF IsSeq, Elements

LEMMA BehindElements ==
  ASSUME NEW q, NEW x
  PROVE  Behind(q, x) \subseteq Elements(q)
  BY DEF Behind, Elements

LEMMA BehindEmpty == \A x : Behind(<< >>, x) = {}
  BY DEF Behind

LEMMA BehindAppended ==
  ASSUME NEW q, IsSeq(q), NEW y, NEW x
  PROVE  Behind(Append(q, y), x) = Behind(q, x) \cup (IF x \in Elements(q) THEN {y} ELSE {})
<1> DEFINE p == Append(q, y)
           n == Len(q)
<1>1. q \in Seq(Elements(q) \cup {y})
  BY DEF IsSeq
<1>2. /\ n \in Nat
      /\ DOMAIN p = 1 .. n + 1 /\ DOMAIN q = 1 .. n
      /\ \A i \in 1 .. n : p[i] = q[i]
      /\ p[n + 1] = y
  BY <1>1
<1> HIDE DEF p, n
<1>3. ASSUME NEW z \in Behind(p, x)
      PROVE  z \in Behind(q, x) \cup (IF x \in Elements(q) THEN {y} ELSE {})
  <2>1. PICK i, k \in 1 .. n + 1 : i < k /\ p[i] = x /\ z = p[k]
    BY <1>2 DEF Behind
  <2>2. i \in 1 .. n /\ q[i] = x
    BY <1>2, <2>1
  <2>3. CASE k \in 1 .. n
    <3>1. z = q[k]
      BY <1>2, <2>1, <2>3
    <3>2. QED
      BY <1>2, <2>1, <2>2, <2>3, <3>1 DEF Behind
  <2>4. CASE k = n + 1
    BY <1>2, <2>1, <2>2, <2>4 DEF Elements
  <2>5. QED
    BY <1>2, <2>1, <2>3, <2>4
<1>4. ASSUME NEW z \in Behind(q, x)
      PROVE  z \in Behind(p, x)
  <2>1. PICK i, k \in 1 .. n : i < k /\ q[i] = x /\ z = q[k]
    BY <1>2 DEF Behind
  <2>2. i \in 1 .. n + 1 /\ k \in 1 .. n + 1 /\ p[i] = x /\ z = p[k]
    BY <1>2, <2>1
  <2>3. QED
    BY <1>2, <2>1, <2>2 DEF Behind
<1>5. ASSUME x \in Elements(q)
      PROVE  y \in Behind(p, x)
  <2>1. PICK i \in 1 .. n : q[i] = x
    BY <1>2, <1>5 DEF Elements
  <2>2. i \in 1 .. n + 1 /\ n + 1 \in 1 .. n + 1 /\ i < n + 1 /\ p[i] = x
    BY <1>2, <2>1
  <2>3. QED
    BY <1>2, <2>2 DEF Behind
<1>6. QED
  BY <1>3, <1>4, <1>5 DEF p

LEMMA BehindShortened ==
  ASSUME NEW q, IsSeq(q), q # << >>
  PROVE  /\ \A x : Behind(Tail(q), x) \subseteq Behind(q, x)
         /\ Elements(Tail(q)) \subseteq Behind(q, Head(q))
         /\ Elements(q) = Elements(Tail(q)) \cup {Head(q)}
<1> DEFINE p == Tail(q)
           n == Len(q)
<1>1. /\ n \in Nat /\ n # 0
      /\ DOMAIN q = 1 .. n
      /\ Head(q) = q[1]
      /\ DOMAIN p = 1 .. n - 1
      /\ \A i \in 1 .. n - 1 : p[i] = q[i + 1]
  BY DEF IsSeq
<1> HIDE DEF p, n
<1>2. \A i \in DOMAIN p : i + 1 \in DOMAIN q /\ p[i] = q[i + 1] /\ 1 < i + 1 /\ i \in Nat
  BY <1>1
<1>3. ASSUME NEW x, NEW z \in Behind(p, x)
      PROVE  z \in Behind(q, x)
  <2>1. PICK i, k \in DOMAIN p : i < k /\ p[i] = x /\ z = p[k]
    BY DEF Behind
  <2>2. i + 1 < k + 1
    BY <1>2, <2>1
  <2>3. QED
    BY <1>2, <2>1, <2>2 DEF Behind
<1>4. Elements(p) \subseteq Behind(q, Head(q))
  <2>1. 1 \in DOMAIN q
    BY <1>1
  <2>2. QED
    BY <1>1, <1>2, <2>1 DEF Elements, Behind
<1>5. Elements(q) \subseteq Elements(p) \cup {Head(q)}
  <2> SUFFICES ASSUME NEW i \in DOMAIN q, i # 1
               PROVE  q[i] \in Elements(p)
    BY <1>1 DEF Elements
  <2>1. i - 1 \in DOMAIN p /\ (i - 1) + 1 = i
    BY <1>1
  <2>2. QED
    BY <1>2, <2>1 DEF Elements
<1>6. Elements(p) \cup {Head(q)} \subseteq Elements(q)
  <2>1. 1 \in DOMAIN q
    BY <1>1
  <2>2. QED
    BY <1>1, <1>2, <2>1 DEF Elements
<1>7. QED
  BY <1>3, <1>4, <1>5, <1>6 DEF p

\* What a set of numbers that holds 0 and the successor of every number it
\* holds leaves out would be a set without a least number; moving each of its
\* numbers below x by one shows that there is none.
LEMMA AllNumbers ==
  ASSUME NEW S \in SUBSET Nat, 0 \in S, \A n \in S : n + 1 \in S
  PROVE  S = Nat
<1>1. SUFFICES ASSUME NEW x \in Nat, x \notin S
               PROVE  FALSE
  OBVIOUS
<1> DEFINE T == {n \in 0 .. x : n \notin S}
           U == {n \in 0 .. x - 1 : n \notin S}
<1>2. \A n \in T : n - 1 \in U
  <2> SUFFICES ASSUME NEW n \in 0 .. x, n \notin S
               PROVE  n - 1 \in 0 .. x - 1 /\ n - 1 \notin S
    OBVIOUS
  <2>1. n # 0
    OBVIOUS
  <2>2. (n - 1) + 1 = n /\ n - 1 \in 0 .. x - 1
    BY <2>1
  <2>3. QED
    BY <2>2
<1>3. T = U \cup {x} /\ x \notin U
  BY <1>1
<1>4. IsFiniteSet(0 .. x - 1)
  BY FS_Interval
<1>5. IsFiniteSet(U)
  BY <1>4, FS_Subset
<1> DEFINE f == [n \in T |-> n - 1]
<1>6. f \in [T -> U]
  BY <1>2
<1>7. \A n, m \in T : f[n] = f[m] => n = m
  OBVIOUS
<1> HIDE DEF T, U, f
<1>8. IsFiniteSet(T) /\ Cardinality(T) = Cardinality(U) + 1
  BY <1>3, <1>5, FS_AddElement
<1>9. Cardinality(U) \in Nat
  BY <1>5, FS_CardinalityType
<1>10. \E n, m \in T : n # m /\ f[n] = f[m]
  <2>1. Cardinality(U) < Cardinality(T)
    BY <1>8, <1>9
  <2>2. QED
    BY <1>5, <1>6, <1>8, <2>1, FS_PigeonHole
<1>11. QED
  BY <1>7, <1>10

-----------------------------------------------------------------------------
(* What `read' leaves in the network transaction.                          *)

\* The first of at most two, and another one behind it.
LEMMA FirstOnly ==
  ASSUME NEW x, NEW y, NEW z
  PROVE  /\ SubSeq(<<x>>, 1, 1) \o <<z>> = <<x, z>>
         /\ SubSeq(<<x, y>>, 1, 1) \o <<z>> = <<x, z>>
<1> DEFINE S == {x, y, z}
<1>1. ASSUME NEW q, q[1] = x
      PROVE  SubSeq(q, 1, 1) \o <<z>> = <<x, z>>
  <2> DEFINE r == SubSeq(q, 1, 1)
             u == <<z>>
             t == <<x, z>>
  <2>1. r \in Seq(S) /\ Len(r) = 1 /\ r[1] = x
    <3>1. \A i \in 1 .. 1 : q[i] \in S
      BY <1>1
    <3>2. /\ r \in Seq(S)
          /\ Len(r) = IF 1 <= 1 THEN 1 - 1 + 1 ELSE 0
          /\ \A i \in 1 .. 1 - 1 + 1 : r[i] = q[1 + i - 1]
      BY <3>1, SubSeqProperties
    <3> HIDE DEF r
    <3>3. Len(r) = 1 /\ r[1] = q[1]
      BY <3>2
    <3>4. QED
      BY <1>1, <3>2, <3>3
  <2>2. u \in Seq(S) /\ Len(u) = 1 /\ u[1] = z
    OBVIOUS
  <2>3. t \in Seq(S) /\ Len(t) = 2 /\ t[1] = x /\ t[2] = z
    OBVIOUS
  <2> HIDE DEF r, u, t, S
  <2>4. /\ r \o u \in Seq(S) /\ Len(r \o u) = 2
        /\ \A i \in 1 .. 2 : (r \o u)[i] = IF i <= 1 THEN r[i] ELSE u[i - 1]
    BY <2>1, <2>2, ConcatProperties
  <2> DEFINE p == r \o u
  <2>5. p \in Seq(S) /\ Len(p) = 2 /\ p[1] = x /\ p[2] = z
    BY <2>1, <2>2, <2>4
  <2> HIDE DEF p
  <2>6. p = t
    BY <2>3, <2>5, SeqEqual
  <2>7. QED
    BY <2>6 DEF p, r, u, t
<1>2. <<x>>[1] = x /\ <<x, y>>[1] = x
  OBVIOUS
<1>3. QED
  BY <1>1, <1>2

Operation(w, k) == [sock |-> task[w].sock, msg |-> task[w].msg, part |-> k]

\* Of n appends the first and the latest stay.
LEMMA WrittenIs ==
  ASSUME NEW w, NEW n \in Nat, tx[w] = NtxNew
  PROVE  Written(w, n) =
           IF n = 0 THEN NtxNew
           ELSE [ops |-> IF n = 1 THEN <<Operation(w, 1)>>
                                  ELSE <<Operation(w, 1), Operation(w, n)>>,
                 last |-> 1]
<1> DEFINE op(k) == [sock |-> task[w].sock, msg |-> task[w].msg, part |-> k]
           after == CHOOSE f : f = [k \in 0 .. n |-> IF k = 0 THEN tx[w]
                                                     ELSE NtxAppend(f[k - 1], op(k))]
           left(k) == IF k = 0 THEN NtxNew
                      ELSE [ops |-> IF k = 1 THEN <<op(1)>> ELSE <<op(1), op(k)>>,
                            last |-> 1]
<1>1. Written(w, n) = after[n]
  BY DEF Written
<1>2. ASSUME NEW k \in Nat, k # 0
      PROVE  NtxAppend(left(k - 1), op(k)) = left(k)
  <2>1. CASE k = 1
    BY <2>1 DEF NtxAppend, NtxNew
  <2>2. CASE k # 1
    <3>1. k - 1 # 0 /\ k - 1 \in Nat
      BY <1>2, <2>2
    <3>2. CASE k - 1 = 1
      BY <1>2, <2>2, <3>2, FirstOnly DEF NtxAppend
    <3>3. CASE k - 1 # 1
      BY <1>2, <2>2, <3>1, <3>3, FirstOnly DEF NtxAppend
    <3>4. QED
      BY <3>2, <3>3
  <2>3. QED
    BY <2>1, <2>2
<1> DEFINE found == [k \in 0 .. n |-> left(k)]
<1> HIDE DEF op, left
<1>3. left(0) = NtxNew
  BY DEF left
<1>4. found = [k \in 0 .. n |-> IF k = 0 THEN tx[w] ELSE NtxAppend(found[k - 1], op(k))]
  <2>1. ASSUME NEW k \in 0 .. n
        PROVE  left(k) = IF k = 0 THEN tx[w] ELSE NtxAppend(found[k - 1], op(k))
    <3>1. CASE k = 0
      BY <1>3, <3>1
    <3>2. CASE k # 0
      <4>1. k - 1 \in 0 .. n
        BY <3>2
      <4>2. found[k - 1] = left(k - 1)
        BY <4>1
      <4>3. QED
        BY <1>2, <3>2, <4>2
    <3>3. QED
      BY <3>1, <3>2
  <2>2. QED
    BY <2>1
<1> HIDE DEF found
<1>5. after = [k \in 0 .. n |-> IF k = 0 THEN tx[w] ELSE NtxAppend(after[k - 1], op(k))]
  BY <1>4
<1> HIDE DEF after
<1> DEFINE S == {k \in Nat : k <= n => after[k] = left(k)}
<1>6. 0 \in S
  BY <1>3, <1>5
<1>7. ASSUME NEW k \in S
      PROVE  k + 1 \in S
  <2> SUFFICES ASSUME k + 1 <= n
               PROVE  after[k + 1] = left(k + 1)
    OBVIOUS
  <2>1. /\ k \in Nat /\ k <= n /\ k + 1 \in 0 .. n /\ k + 1 # 0 /\ (k + 1) - 1 = k
        /\ after[k] = left(k)
    OBVIOUS
  <2>2. after[k + 1] = NtxAppend(after[k], op(k + 1))
    BY <1>5, <2>1
  <2>3. QED
    BY <1>2, <2>1, <2>2
<1>8. S = Nat
  <2> HIDE DEF S
  <2>1. S \in SUBSET Nat
    BY DEF S
  <2>2. QED
    BY <1>6, <1>7, <2>1, AllNumbers
<1>9. after[n] = left(n)
  BY <1>8
<1>10. QED
  BY <1>1, <1>9 DEF left, op, Operation

-----------------------------------------------------------------------------
(* The inductive invariant.                                                *)

AcceptTask(c) == [kind |-> "accept", sock |-> c]
ClosedTask(c) == [kind |-> "closed", sock |-> c]
InitItem(c) == [kind |-> "init", sock |-> c]
FreeItem(c) == [kind |-> "free", sock |-> c]
ReadOf(x, c) == x.kind = "read" /\ x.sock = c
WriteTo(x, c) == x.kind = "write" /\ x.sock = c

Ended(c) == life[c] \in {"eof", "freed"}
Live == main # "freed_net"

\* A worker has a task from taking it to being done with it; only what a
\* successful `read' has written waits to be committed.
WorkersKeepTasks ==
  \A w \in Workers :
    /\ task[w].kind = "none" <=> pc[w] \in {"ready", "waiting", "woken", "exited"}
    /\ task[w].kind # "init"
    /\ pc[w] = "committing" => /\ task[w].kind = "read"
                               /\ tx[w].ops # << >>
                               /\ \A d \in Elements(tx[w].ops) :
                                    d.sock = task[w].sock /\ d.msg = task[w].msg
    /\ pc[w] # "committing" => tx[w] = NtxNew
    /\ pc[w] = "releasing" => task[w].kind = "closed"
    /\ relAt[w] # "out" => pc[w] = "releasing" /\ relSock[w] = task[w].sock

\* References are given up for connections that have ended, by the network
\* thread in its read callback; it frees no socket before it is done with that.
NetReleases ==
  /\ relAt[NetThread] # "out" <=> npc = "eof"
  /\ relAt[NetThread] # "unlatch"
  /\ \A a \in Threads : relAt[a] = "out" <=> relSock[a] = NoConn
  /\ \A a \in Threads : relAt[a] # "out" => Ended(relSock[a])
  /\ \A a \in Threads : relAt[a] = "store" => relVal[a] \in 1 .. 2
  /\ npc = "eof" => life[relSock[NetThread]] # "freed"

\* main() frees what no thread uses any more.
Shutdown ==
  /\ main \notin {"sleeping", "joining"} => \A w \in Workers : pc[w] = "exited"
  /\ main = "freed_net" => npc = "exited"

\* A connection has one `closed' task: it gives up the task's reference.
ClosedOnce ==
  \A c \in Conns :
    /\ ClosedTask(c) \in Elements(tqueue) =>
         /\ Ended(c)
         /\ ClosedTask(c) \notin Behind(tqueue, ClosedTask(c))
         /\ \A w \in Workers : task[w] # ClosedTask(c)
    /\ \A w \in Workers : task[w] = ClosedTask(c) =>
         /\ Ended(c)
         /\ \A v \in Workers : task[v] = ClosedTask(c) => v = w

\* A connection is read from once its `accept' task and its INIT item are
\* done, and there is one of each.
AcceptedOnce ==
  Live => \A c \in Conns :
    /\ reading[c] => life[c] = "open"
    /\ AcceptTask(c) \in Elements(tqueue) =>
         /\ life[c] = "open" /\ ~reading[c]
         /\ AcceptTask(c) \notin Behind(tqueue, AcceptTask(c))
         /\ InitItem(c) \notin Elements(nqueue)
         /\ \A w \in Workers : task[w] # AcceptTask(c)
    /\ \A w \in Workers : task[w] = AcceptTask(c) =>
         /\ life[c] = "open" /\ ~reading[c]
         /\ InitItem(c) \notin Elements(nqueue)
         /\ \A v \in Workers : task[v] = AcceptTask(c) => v = w
    /\ InitItem(c) \in Elements(nqueue) =>
         /\ life[c] = "open" /\ ~reading[c]
         /\ InitItem(c) \notin Behind(nqueue, InitItem(c))

\* Who is yet to write the reference count back.
Owes(a, c) == relAt[a] \in {"load", "store"} /\ relSock[a] = c
NetOwes(c) == life[c] = "open" \/ Owes(NetThread, c)
ClosedDue(c) ==
  \/ ClosedTask(c) \in Elements(tqueue)
  \/ \E w \in Workers : pc[w] = "running" /\ task[w] = ClosedTask(c)
TaskOwes(c) == life[c] = "open" \/ ClosedDue(c) \/ \E w \in Workers : Owes(w, c)

\* A reference count is never too low: a decrement may be lost, but 0 says
\* that both references were given up.
RefsCount ==
  Live => \A c \in Conns :
    /\ life[c] = "open" => refs[c] = 2
    /\ NetOwes(c) \/ TaskOwes(c) => refs[c] # 0
    /\ NetOwes(c) /\ TaskOwes(c) => refs[c] = 2
    /\ relAt[NetThread] = "store" /\ relSock[NetThread] = c /\ TaskOwes(c)
         => relVal[NetThread] = 2
    /\ \A w \in Workers : relAt[w] = "store" /\ relSock[w] = c /\ NetOwes(c)
         => relVal[w] = 2

\* A FREE item, and a freed socket, has no references.
FreesReleased ==
  Live => \A c \in Conns :
    FreeItem(c) \in Elements(nqueue) \/ life[c] = "freed" => Ended(c) /\ refs[c] = 0

\* The `read' tasks of a connection are taken before its `closed' task, and
\* are done by then if the connection is not in `hasty'.
ReadsBeforeClosed ==
  Live => \A c \in Conns :
    /\ \A x \in Behind(tqueue, ClosedTask(c)) : ~ReadOf(x, c)
    /\ Ended(c) /\ ClosedTask(c) \notin Elements(tqueue) =>
         /\ \A x \in Elements(tqueue) : ~ReadOf(x, c)
         /\ c \in hasty \/ \A w \in Workers : ~ReadOf(task[w], c)

\* So is their output handed over before the FREE item.
WritesBeforeFree ==
  Live => \A c \in Conns :
    /\ c \in hasty \/ \A x \in Behind(nqueue, FreeItem(c)) : ~WriteTo(x, c)
    /\ life[c] = "freed" => c \in hasty \/ \A x \in Elements(nqueue) : ~WriteTo(x, c)

\* The write watcher is active behind the end of a connection only for
\* output that came later.
LateWatcher ==
  Live => \A c \in Conns : Ended(c) /\ writing[c] => \E d \in late : d.sock = c

\* Nothing stops the listener before main() asks for it.
StopAsked ==
  main = "sleeping" =>
    /\ \A x \in Elements(tqueue) : x.kind # "stop"
    /\ \A w \in Workers : task[w].kind # "stop"
    /\ \A x \in Elements(nqueue) : x.kind # "stop_listener"
    /\ listener # "freed"

SocketInv ==
  /\ ServerTypeOK
  /\ WorkersKeepTasks
  /\ NetReleases
  /\ Shutdown
  /\ ClosedOnce
  /\ AcceptedOnce
  /\ RefsCount
  /\ FreesReleased
  /\ ReadsBeforeClosed
  /\ WritesBeforeFree
  /\ LateWatcher
  /\ StopAsked
  /\ FaultsExplained

-----------------------------------------------------------------------------
(* Steps that a part of the invariant does not notice.                     *)

AtRest == {"ready", "waiting", "woken"}

\* No worker takes a task or is done with one.
PcKept ==
  \A w \in Workers :
    pc'[w] = pc[w] \/ (pc[w] \in AtRest /\ pc'[w] \in AtRest \cup {"exited"})

\* No worker takes a task.
NoneTaken == \A w \in Workers : task'[w] = task[w] \/ task'[w] = NoTask

TaskKinds == {"accept", "closed", "read", "stop"}
ItemKinds == {"init", "free", "write", "stop_listener"}

\* Nothing of a kind is new in p, or behind something.
NoneNew(p, q, kind) ==
  /\ \A x \in Elements(p) : x \in Elements(q) \/ x.kind # kind
  /\ \A y : \A x \in Behind(p, y) : x \in Behind(q, y) \/ x.kind # kind

NoNewTask(kind) == NoneNew(tqueue', tqueue, kind)
NoNewItem(kind) == NoneNew(nqueue', nqueue, kind)

TasksKept ==
  /\ \A kind \in TaskKinds : NoNewTask(kind)
  /\ \A c \in Conns : ClosedTask(c) \in Elements(tqueue) =>
                        ClosedTask(c) \in Elements(tqueue')

ItemsKept == \A kind \in ItemKinds : NoNewItem(kind)

LEMMA TasksHeld ==
  ASSUME PcKept, UNCHANGED task
  PROVE  NoneTaken /\ \A w \in Workers : pc'[w] = "running" => pc[w] = "running"
  BY DEF PcKept, AtRest, NoneTaken

LEMMA WorkersKept ==
  ASSUME WorkersKeepTasks, PcKept, UNCHANGED <<task, tx>>,
         \A w \in Workers : relAt'[w] # "out" =>
                               relAt[w] # "out" /\ relSock'[w] = relSock[w]
  PROVE  WorkersKeepTasks'
  BY DEF WorkersKeepTasks, PcKept, AtRest

LEMMA NetReleasesKept ==
  ASSUME NetReleases, UNCHANGED relVars, npc' = "eof" <=> npc = "eof",
         npc = "eof" => UNCHANGED life,
         \A c \in Conns : Ended(c) => Ended(c)',
         relSock \in [Threads -> Conns \cup {NoConn}]
  PROVE  NetReleases'
<1>1. \A a \in Threads : relAt[a] # "out" => relSock[a] \in Conns
  BY DEF NetReleases
<1>2. QED
  BY <1>1 DEF NetReleases, relVars

LEMMA ShutdownKept ==
  ASSUME Shutdown, PcKept, UNCHANGED main, npc = "exited" => npc' = "exited"
  PROVE  Shutdown'
  BY DEF Shutdown, PcKept, AtRest

LEMMA ClosedKept ==
  ASSUME ClosedOnce, NoneTaken, NoNewTask("closed"),
         \A c \in Conns : Ended(c) => Ended(c)'
  PROVE  ClosedOnce'
<1>1. \A c \in Conns :
        /\ ClosedTask(c) \in Elements(tqueue') => ClosedTask(c) \in Elements(tqueue)
        /\ ClosedTask(c) \in Behind(tqueue', ClosedTask(c)) =>
             ClosedTask(c) \in Behind(tqueue, ClosedTask(c))
  BY DEF NoNewTask, NoneNew, ClosedTask
<1>2. \A c \in Conns : ClosedTask(c) # NoTask
  BY DEF ClosedTask, NoTask
<1>3. QED
  BY <1>1, <1>2 DEF ClosedOnce, NoneTaken

LEMMA AcceptedKept ==
  ASSUME AcceptedOnce, Live' => Live, NoneTaken, UNCHANGED reading,
         \A c \in Conns : life'[c] = "open" <=> life[c] = "open",
         NoNewTask("accept"), NoNewItem("init")
  PROVE  AcceptedOnce'
<1>1. \A c \in Conns :
        /\ AcceptTask(c) \in Elements(tqueue') => AcceptTask(c) \in Elements(tqueue)
        /\ AcceptTask(c) \in Behind(tqueue', AcceptTask(c)) =>
             AcceptTask(c) \in Behind(tqueue, AcceptTask(c))
  BY DEF NoNewTask, NoneNew, AcceptTask
<1>2. \A c \in Conns :
        /\ InitItem(c) \in Elements(nqueue') => InitItem(c) \in Elements(nqueue)
        /\ InitItem(c) \in Behind(nqueue', InitItem(c)) =>
             InitItem(c) \in Behind(nqueue, InitItem(c))
  BY DEF NoNewItem, NoneNew, InitItem
<1>3. \A c \in Conns : AcceptTask(c) # NoTask
  BY DEF AcceptTask, NoTask
<1>4. QED
  BY <1>1, <1>2, <1>3 DEF AcceptedOnce, NoneTaken

LEMMA RefsKept ==
  ASSUME RefsCount, Live' => Live, UNCHANGED refs, UNCHANGED relVars,
         \A c \in Conns : life'[c] = "open" <=> life[c] = "open",
         \A c \in Conns : ClosedDue(c)' => ClosedDue(c)
  PROVE  RefsCount'
<1>1. \A c \in Conns : /\ NetOwes(c)' => NetOwes(c)
                       /\ TaskOwes(c)' => TaskOwes(c)
  BY DEF NetOwes, TaskOwes, Owes, relVars
<1>2. QED
  BY <1>1 DEF RefsCount, relVars

LEMMA DueKept ==
  ASSUME NoneTaken, NoNewTask("closed"),
         \A w \in Workers : pc'[w] = "running" => pc[w] = "running"
  PROVE  \A c \in Conns : ClosedDue(c)' => ClosedDue(c)
<1>1. \A c \in Conns :
        ClosedTask(c) \in Elements(tqueue') => ClosedTask(c) \in Elements(tqueue)
  BY DEF NoNewTask, NoneNew, ClosedTask
<1>2. QED
  BY <1>1 DEF ClosedDue, NoneTaken, NoTask, ClosedTask

LEMMA FreesKept ==
  ASSUME FreesReleased, Live' => Live, UNCHANGED <<life, refs>>, NoNewItem("free")
  PROVE  FreesReleased'
<1>1. \A c \in Conns : FreeItem(c) \in Elements(nqueue') => FreeItem(c) \in Elements(nqueue)
  BY DEF NoNewItem, NoneNew, FreeItem
<1>2. QED
  BY <1>1 DEF FreesReleased, Ended

LEMMA ReadsKept ==
  ASSUME ReadsBeforeClosed, Live' => Live, NoneTaken, hasty \subseteq hasty', NoNewTask("read"),
         \A c \in Conns : /\ Ended(c)' => Ended(c)
                          /\ ClosedTask(c) \in Elements(tqueue) =>
                               ClosedTask(c) \in Elements(tqueue')
  PROVE  ReadsBeforeClosed'
<1>1. \A c \in Conns :
        /\ \A x \in Behind(tqueue', ClosedTask(c)) :
             x \in Behind(tqueue, ClosedTask(c)) \/ ~ReadOf(x, c)
        /\ \A x \in Elements(tqueue') : x \in Elements(tqueue) \/ ~ReadOf(x, c)
  BY DEF NoNewTask, NoneNew, ReadOf
<1>2. \A w \in Workers, c \in Conns : ReadOf(task'[w], c) => ReadOf(task[w], c)
  BY DEF NoneTaken, NoTask, ReadOf
<1>3. QED
  BY <1>1, <1>2 DEF ReadsBeforeClosed

LEMMA WritesKept ==
  ASSUME WritesBeforeFree, Live' => Live, hasty \subseteq hasty', NoNewItem("write"),
         \A c \in Conns : life'[c] = "freed" => life[c] = "freed"
  PROVE  WritesBeforeFree'
<1>1. \A c \in Conns :
        /\ \A x \in Behind(nqueue', FreeItem(c)) :
             x \in Behind(nqueue, FreeItem(c)) \/ ~WriteTo(x, c)
        /\ \A x \in Elements(nqueue') : x \in Elements(nqueue) \/ ~WriteTo(x, c)
  BY DEF NoNewItem, NoneNew, WriteTo
<1>2. QED
  BY <1>1 DEF WritesBeforeFree

LEMMA WatcherKept ==
  ASSUME LateWatcher, Live' => Live, late \subseteq late',
         \A c \in Conns : Ended(c)' /\ writing'[c] => Ended(c) /\ writing[c]
  PROVE  LateWatcher'
  BY DEF LateWatcher

LEMMA StopKept ==
  ASSUME StopAsked, main' = "sleeping" => main = "sleeping", NoneTaken,
         NoNewTask("stop"), NoNewItem("stop_listener"),
         listener' = "freed" => listener = "freed"
  PROVE  StopAsked'
<1>1. \A x \in Elements(tqueue') : x.kind = "stop" => x \in Elements(tqueue)
  BY DEF NoNewTask, NoneNew
<1>2. \A x \in Elements(nqueue') : x.kind = "stop_listener" => x \in Elements(nqueue)
  BY DEF NoNewItem, NoneNew
<1>3. QED
  BY <1>1, <1>2 DEF StopAsked, NoneTaken, NoTask

LEMMA FaultsKept ==
  ASSUME fault' = "none"
  PROVE  FaultsExplained'
  BY DEF FaultsExplained

\* Nothing but the parts of the queues that do not matter, the watchers and
\* the listener.
LEMMA WatcherStep ==
  ASSUME SocketInv, ServerTypeOK', FaultsExplained', StopAsked', LateWatcher', AcceptedOnce',
         PcKept, TasksKept, ItemsKept,
         UNCHANGED <<task, tx, hasty, main, life, refs>>, UNCHANGED relVars,
         npc' = "eof" <=> npc = "eof", npc = "exited" => npc' = "exited"
  PROVE  SocketInv'
<1>1. /\ Live' => Live
      /\ NoNewTask("accept") /\ NoNewTask("closed") /\ NoNewTask("read")
      /\ NoNewItem("init") /\ NoNewItem("free") /\ NoNewItem("write")
  BY DEF Live, TasksKept, TaskKinds, ItemsKept, ItemKinds
<1>2. \A c \in Conns : Ended(c)' <=> Ended(c)
  BY DEF Ended
<1>3. relSock \in [Threads -> Conns \cup {NoConn}]
  BY DEF SocketInv, ServerTypeOK, NetTypeOK
<1>4. \A w \in Workers : relAt'[w] = relAt[w] /\ relSock'[w] = relSock[w]
  BY DEF relVars
<1>5. WorkersKeepTasks'
  BY <1>4, WorkersKept DEF SocketInv
<1>6. NetReleases'
  BY <1>2, <1>3, NetReleasesKept DEF SocketInv
<1>7. Shutdown' /\ ClosedOnce'
  BY <1>1, <1>2, ShutdownKept, TasksHeld, ClosedKept DEF SocketInv
<1>8. RefsCount' /\ FreesReleased'
  BY <1>1, TasksHeld, DueKept, RefsKept, FreesKept DEF SocketInv
<1>9. ReadsBeforeClosed' /\ WritesBeforeFree'
  BY <1>1, <1>2, TasksHeld, ReadsKept, WritesKept DEF SocketInv, TasksKept
<1>10. QED
  BY <1>5, <1>6, <1>7, <1>8, <1>9 DEF SocketInv

LEMMA OtherParts ==
  ASSUME SocketInv, ServerTypeOK', FaultsExplained', StopAsked',
         PcKept, TasksKept, ItemsKept,
         UNCHANGED <<task, tx, hasty, main, life, refs, reading>>, UNCHANGED relVars,
         npc' = "eof" <=> npc = "eof", npc = "exited" => npc' = "exited",
         late \subseteq late', \A c \in Conns : Ended(c) /\ writing'[c] => writing[c]
  PROVE  SocketInv'
<1>1. /\ Live' => Live
      /\ NoNewTask("accept") /\ NoNewTask("closed") /\ NoNewTask("read")
      /\ NoNewItem("init") /\ NoNewItem("free") /\ NoNewItem("write")
  BY DEF Live, TasksKept, TaskKinds, ItemsKept, ItemKinds
<1>2. \A c \in Conns : Ended(c)' <=> Ended(c)
  BY DEF Ended
<1>3. AcceptedOnce' /\ LateWatcher'
  BY <1>1, <1>2, TasksHeld, AcceptedKept, WatcherKept DEF SocketInv
<1>4. QED
  BY <1>3, WatcherStep

\* The network thread changes the watchers.
LEMMA ReadingStep ==
  ASSUME SocketInv, ServerTypeOK', FaultsExplained', AcceptedOnce',
         PcKept, TasksKept, ItemsKept,
         UNCHANGED <<task, tx, hasty, main, life, refs, writing, late, listener>>,
         UNCHANGED relVars,
         npc' = "eof" <=> npc = "eof", npc = "exited" => npc' = "exited"
  PROVE  SocketInv'
<1>1. StopAsked'
  BY TasksHeld, StopKept DEF TasksKept, TaskKinds, ItemsKept, ItemKinds, SocketInv
<1>2. LateWatcher'
  BY DEF SocketInv, LateWatcher, Live, Ended
<1>3. QED
  BY <1>1, <1>2, WatcherStep

LEMMA WritingStep ==
  ASSUME SocketInv, ServerTypeOK', FaultsExplained', LateWatcher',
         PcKept, TasksKept, ItemsKept,
         UNCHANGED <<task, tx, hasty, main, life, refs, reading, listener>>, UNCHANGED relVars,
         npc' = "eof" <=> npc = "eof", npc = "exited" => npc' = "exited"
  PROVE  SocketInv'
<1>1. StopAsked'
  BY TasksHeld, StopKept DEF TasksKept, TaskKinds, ItemsKept, ItemKinds, SocketInv
<1>2. /\ Live' => Live
      /\ NoNewTask("accept") /\ NoNewTask("closed") /\ NoNewTask("read")
      /\ NoNewItem("init") /\ NoNewItem("free") /\ NoNewItem("write")
  BY DEF Live, TasksKept, TaskKinds, ItemsKept, ItemKinds
<1>3. AcceptedOnce'
  BY <1>2, TasksHeld, AcceptedKept DEF SocketInv
<1>4. QED
  BY <1>1, <1>3, WatcherStep

LEMMA QuietStep ==
  ASSUME SocketInv, ServerTypeOK', FaultsExplained',
         PcKept, TasksKept, ItemsKept,
         UNCHANGED <<task, tx, hasty, main, life, refs, reading>>, UNCHANGED relVars,
         npc' = "eof" <=> npc = "eof", npc = "exited" => npc' = "exited",
         late \subseteq late', \A c \in Conns : Ended(c) /\ writing'[c] => writing[c],
         listener' = "freed" => listener = "freed"
  PROVE  SocketInv'
<1>1. StopAsked'
  BY TasksHeld, StopKept DEF TasksKept, TaskKinds, ItemsKept, ItemKinds, SocketInv
<1>2. QED
  BY <1>1, OtherParts

\* The steps of the queues.
LEMMA NoneNewSame ==
  ASSUME NEW q, NEW kind
  PROVE  NoneNew(q, q, kind)
  BY DEF NoneNew

LEMMA NoneNewShorter ==
  ASSUME NEW q, NEW kind, IsSeq(q), q # << >>
  PROVE  NoneNew(Tail(q), q, kind)
  BY BehindShortened DEF NoneNew

LEMMA NoneNewLonger ==
  ASSUME NEW q, NEW kind, IsSeq(q), NEW x, x.kind # kind
  PROVE  NoneNew(Append(q, x), q, kind)
  BY Appended, BehindAppended DEF NoneNew

LEMMA TaskShape ==
  ASSUME NEW x \in Task
  PROVE  /\ x.kind \in {"init", "stop", "listen_error", "accept", "closed", "read"}
         /\ x.kind = "accept" => x.sock \in Conns /\ x = AcceptTask(x.sock)
         /\ x.kind = "closed" => x.sock \in Conns /\ x = ClosedTask(x.sock)
         /\ x.kind = "read" => x.sock \in Conns /\ x.msg \in 1 .. MaxMsgs
  BY DEF Task, AcceptTask, ClosedTask

LEMMA ItemShape ==
  ASSUME NEW x \in NetItem
  PROVE  /\ x.kind = "init" => x.sock \in Conns /\ x = InitItem(x.sock)
         /\ x.kind = "free" => x.sock \in Conns /\ x = FreeItem(x.sock)
         /\ x.kind = "write" => x.sock \in Conns /\ x.data \in Data
  BY DEF NetItem, InitItem, FreeItem

LEMMA QueuesTyped ==
  ASSUME ServerTypeOK
  PROVE  /\ IsSeq(tqueue) /\ Elements(tqueue) \subseteq Task
         /\ IsSeq(nqueue) /\ Elements(nqueue) \subseteq NetItem
<1>1. tqueue \in Seq(Task) /\ nqueue \in Seq(NetItem)
  BY DEF ServerTypeOK, NetTypeOK, TasksTypeOK
<1>2. QED
  BY <1>1, ElementsOfSeq

\* tasks_enqueue_item()
LEMMA EnqueueEffect ==
  ASSUME ServerTypeOK, NEW x \in Task, Enqueue(x)
  PROVE  /\ TasksTypeOK'
         /\ PcKept
         /\ UNCHANGED <<task, tx, hasty>>
         /\ Elements(tqueue') = Elements(tqueue) \cup {x}
         /\ \A y : Behind(tqueue', y) = Behind(tqueue, y)
                     \cup (IF y \in Elements(tqueue) THEN {x} ELSE {})
         /\ \A kind : x.kind # kind => NoNewTask(kind)
<1>1. tqueue' = Append(tqueue, x) /\ Signal /\ UNCHANGED <<task, tx, tries, stopFlag, hasty>>
  BY DEF Enqueue
<1>2. /\ pc \in [Workers -> {"ready", "waiting", "woken", "running", "committing",
                             "releasing", "exited"}]
      /\ tqueue \in Seq(Task)
  BY DEF ServerTypeOK, TasksTypeOK
<1>3. pc' = pc \/ \E w \in Workers : pc[w] = "waiting" /\ pc' = [pc EXCEPT ![w] = "woken"]
  BY <1>1 DEF Signal, Waiting
<1>4. PcKept
  BY <1>2, <1>3 DEF PcKept, AtRest
<1>5. pc' \in [Workers -> {"ready", "waiting", "woken", "running", "committing",
                           "releasing", "exited"}]
  BY <1>2, <1>3
<1>6. tqueue' \in Seq(Task)
  BY <1>1, <1>2
<1>7. TasksTypeOK'
  BY <1>1, <1>5, <1>6 DEF ServerTypeOK, TasksTypeOK
<1>8. IsSeq(tqueue)
  BY QueuesTyped
<1>9. \A kind : x.kind # kind => NoNewTask(kind)
  BY <1>1, <1>8, NoneNewLonger DEF NoNewTask
<1>10. QED
  BY <1>1, <1>4, <1>7, <1>8, <1>9, Appended, BehindAppended

\* net_enqueue_item()
LEMMA NetEnqueueEffect ==
  ASSUME ServerTypeOK, NEW x \in NetItem, NetEnqueue(x)
  PROVE  /\ nqueue' \in Seq(NetItem) /\ async' \in BOOLEAN
         /\ Elements(nqueue') = Elements(nqueue) \cup {x}
         /\ \A y : Behind(nqueue', y) = Behind(nqueue, y)
                     \cup (IF y \in Elements(nqueue) THEN {x} ELSE {})
         /\ \A kind : x.kind # kind => NoNewItem(kind)
         /\ x.kind \notin ItemKinds => ItemsKept
<1>1. nqueue' = Append(nqueue, x) /\ async' = TRUE
  BY DEF NetEnqueue
<1>2. nqueue \in Seq(NetItem) /\ IsSeq(nqueue)
  BY QueuesTyped DEF ServerTypeOK, NetTypeOK
<1>3. nqueue' \in Seq(NetItem) /\ async' \in BOOLEAN
  BY <1>1, <1>2
<1>4. \A kind : x.kind # kind => NoNewItem(kind)
  BY <1>1, <1>2, NoneNewLonger DEF NoNewItem
<1>5. x.kind \notin ItemKinds => ItemsKept
  BY <1>4 DEF ItemsKept
<1>6. QED
  BY <1>1, <1>2, <1>3, <1>4, <1>5, Appended, BehindAppended

\* The network thread has taken an item off its queue.
LEMMA HandleEffect ==
  ASSUME SocketInv, NEW kind, Handle(kind)
  PROVE  /\ nqueue # << >> /\ nqueue' = Tail(nqueue)
         /\ Head(nqueue) \in Elements(nqueue) /\ Head(nqueue) \in NetItem
         /\ Head(nqueue).kind = kind
         /\ nqueue' \in Seq(NetItem) /\ async' \in BOOLEAN
         /\ npc' \in {"loop", "drain", "eof", "exited"}
         /\ npc # "eof" /\ npc' # "eof" /\ npc # "exited"
         /\ main # "freed_net"
         /\ ItemsKept
         /\ Elements(nqueue') \subseteq Behind(nqueue, Head(nqueue))
<1>1. /\ npc \in {"drain", "loop"} /\ nqueue # << >> /\ Head(nqueue).kind = kind
      /\ nqueue' = Tail(nqueue) /\ async' = FALSE /\ npc' = AfterItem(kind)
  BY DEF Handle, CanHandle
<1>2. nqueue \in Seq(NetItem) /\ IsSeq(nqueue) /\ Elements(nqueue) \subseteq NetItem
  BY QueuesTyped DEF SocketInv, ServerTypeOK, NetTypeOK
<1>3. npc' \in {"loop", "drain", "exited"}
  BY <1>1 DEF AfterItem
<1>4. main # "freed_net"
  BY <1>1 DEF SocketInv, Shutdown
<1>5. nqueue' \in Seq(NetItem)
  BY <1>1, <1>2
<1>6. ItemsKept
  BY <1>1, <1>2, NoneNewShorter DEF ItemsKept, NoNewItem
<1>7. QED
  BY <1>1, <1>2, <1>3, <1>4, <1>5, <1>6, BehindShortened, Shortened

-----------------------------------------------------------------------------
(* The program stops at freed memory.                                      *)

\* What the heads of the queues are.
LEMMA HeadItem ==
  ASSUME ServerTypeOK, nqueue # << >>
  PROVE  Head(nqueue) \in Elements(nqueue) /\ Head(nqueue) \in NetItem
<1>1. IsSeq(nqueue) /\ Elements(nqueue) \subseteq NetItem
  BY QueuesTyped
<1>2. QED
  BY <1>1, Shortened

\* Threads that are not at their end, and what is not freed before them.
LEMMA LiveThreads ==
  ASSUME SocketInv
  PROVE  /\ npc # "exited" => Live
         /\ \A w \in Workers : pc[w] # "exited" => Live /\ ~TasksFreed
  BY DEF SocketInv, Shutdown, Live, TasksFreed

LEMMA CrashKeeps ==
  ASSUME SocketInv, NEW f \in {"listener", "watcher", "socket", "release", "tasks"},
         NetCrash(f), UNCHANGED <<taskVars, main, msgs>>,
         f = "socket" => \E c \in hasty : life[c] = "freed",
         f = "watcher" => \E d \in late : life[d.sock] = "freed",
         f = "release" => \E w \in Workers : /\ relAt[w] \in {"check", "unlatch"}
                                             /\ life[relSock[w]] = "freed",
         f \in {"listener", "tasks"} => main # "sleeping"
  PROVE  SocketInv'
<1>1. /\ fault' = f
      /\ UNCHANGED <<nqueue, async, npc, nstop, listener, sockVars, sent, relVars,
                     late, raced>>
      /\ UNCHANGED <<taskVars, main, msgs>>
  BY DEF NetCrash
<1>2. NetTypeOK'
  BY <1>1 DEF SocketInv, ServerTypeOK, NetTypeOK, sockVars, relVars
<1>3. TasksTypeOK'
  BY <1>1 DEF SocketInv, ServerTypeOK, TasksTypeOK, taskVars
<1>4. ServerTypeOK'
  BY <1>1, <1>2, <1>3 DEF SocketInv, ServerTypeOK
<1>5. FaultsExplained'
  BY <1>1 DEF FaultsExplained, taskVars, sockVars, relVars
<1>6. PcKept /\ TasksKept /\ ItemsKept
  BY <1>1, NoneNewSame DEF PcKept, TasksKept, NoNewTask, ItemsKept, NoNewItem, taskVars
<1>7. QED
  BY <1>1, <1>4, <1>5, <1>6, QuietStep DEF taskVars, sockVars

LEMMA AcceptFreedKeeps ==
  ASSUME SocketInv, AcceptFreed, UNCHANGED <<taskVars, main, msgs>>
  PROVE  SocketInv'
  BY CrashKeeps DEF AcceptFreed, SocketInv, StopAsked

LEMMA CallbackFreedKeeps ==
  ASSUME SocketInv, CallbackFreed
  PROVE  SocketInv'
  BY CrashKeeps DEF CallbackFreed, TasksFreed

LEMMA WatcherFreedKeeps ==
  ASSUME SocketInv, NEW c \in Conns, WatcherFreed(c), UNCHANGED <<taskVars, main, msgs>>
  PROVE  SocketInv'
<1>1. life[c] = "freed" /\ (reading[c] \/ writing[c]) /\ NetCrash("watcher") /\ Live
  BY LiveThreads DEF WatcherFreed
<1>2. writing[c] /\ Ended(c)
  BY <1>1 DEF SocketInv, AcceptedOnce, Ended
<1>3. \E d \in late : life[d.sock] = "freed"
  BY <1>1, <1>2 DEF SocketInv, LateWatcher
<1>4. QED
  BY <1>1, <1>3, CrashKeeps

\* An INIT item names an open connection; output that finds its socket gone
\* was written by a task that `closed' overtook.
LEMMA HandleFreedKeeps ==
  ASSUME SocketInv, HandleFreed, UNCHANGED <<taskVars, main, msgs>>
  PROVE  SocketInv'
<1> DEFINE x == Head(nqueue)
<1>1. /\ nqueue # << >> /\ x.kind \in {"init", "write"} /\ life[x.sock] = "freed"
      /\ NetCrash("socket") /\ Live
  BY LiveThreads DEF HandleFreed, CanHandle, Named
<1>2. x \in Elements(nqueue) /\ x \in NetItem
  BY <1>1, HeadItem DEF SocketInv
<1> HIDE DEF x
<1>3. CASE x.kind = "init"
  <2>1. x.sock \in Conns /\ InitItem(x.sock) \in Elements(nqueue)
    BY <1>2, <1>3, ItemShape
  <2>2. QED
    BY <1>1, <2>1 DEF SocketInv, AcceptedOnce
<1>4. CASE x.kind = "write"
  <2>1. x.sock \in Conns /\ WriteTo(x, x.sock)
    BY <1>2, <1>4, ItemShape DEF WriteTo
  <2>2. x.sock \in hasty
    BY <1>1, <1>2, <2>1 DEF SocketInv, WritesBeforeFree
  <2>3. QED
    BY <1>1, <2>2, CrashKeeps
<1>5. QED
  BY <1>1, <1>3, <1>4

\* The next operation of a worker that commits.
LEMMA NextOperation ==
  ASSUME SocketInv, NEW w \in Workers, pc[w] = "committing"
  PROVE  /\ task[w].kind = "read" /\ task[w] \in Task /\ task[w].sock \in Conns
         /\ tx[w].ops \in Seq(Data) /\ tx[w].ops # << >>
         /\ Head(tx[w].ops) \in Data
         /\ Head(tx[w].ops).sock = task[w].sock
         /\ IsSeq(tx[w].ops)
<1>1. /\ task[w] \in Task \cup {NoTask}
      /\ tx[w] \in [ops : Seq(Data), last : 0 .. 1]
  BY DEF SocketInv, ServerTypeOK, TasksTypeOK
<1>2. /\ task[w].kind = "read" /\ tx[w].ops # << >>
      /\ \A d \in Elements(tx[w].ops) : d.sock = task[w].sock
  BY DEF SocketInv, WorkersKeepTasks
<1>3. task[w] \in Task
  BY <1>1, <1>2 DEF NoTask
<1>4. tx[w].ops \in Seq(Data)
  BY <1>1
<1>5. IsSeq(tx[w].ops) /\ Elements(tx[w].ops) \subseteq Data
  BY <1>4, ElementsOfSeq
<1>6. QED
  BY <1>2, <1>3, <1>4, <1>5, TaskShape, Shortened

\* Whoever still works with a socket that nobody refers to was overtaken.
LEMMA NobodyRefers ==
  ASSUME SocketInv, Live, NEW c \in Conns,
         FreeItem(c) \in Elements(nqueue) \/ life[c] = "freed"
  PROVE  /\ Ended(c) /\ refs[c] = 0
         /\ ~NetOwes(c) /\ ~TaskOwes(c)
         /\ ClosedTask(c) \notin Elements(tqueue)
         /\ c \in hasty \/ \A w \in Workers : ~ReadOf(task[w], c)
<1>1. Ended(c) /\ refs[c] = 0
  BY DEF SocketInv, FreesReleased
<1>2. ~NetOwes(c) /\ ~TaskOwes(c)
  BY <1>1 DEF SocketInv, RefsCount
<1>3. ClosedTask(c) \notin Elements(tqueue)
  BY <1>2 DEF TaskOwes, ClosedDue
<1>4. QED
  BY <1>1, <1>2, <1>3 DEF SocketInv, ReadsBeforeClosed

LEMMA SendFreedKeeps ==
  ASSUME SocketInv, NEW w \in Workers, SendFreed(w), UNCHANGED <<main, msgs>>
  PROVE  SocketInv'
<1>1. /\ pc[w] = "committing" /\ life[Head(tx[w].ops).sock] = "freed"
      /\ NetCrash("socket") /\ UNCHANGED taskVars
  BY DEF SendFreed
<1>2. /\ task[w].kind = "read" /\ task[w].sock \in Conns
      /\ life[task[w].sock] = "freed" /\ Live
  BY <1>1, NextOperation, LiveThreads
<1>3. ReadOf(task[w], task[w].sock)
  BY <1>2 DEF ReadOf
<1>4. task[w].sock \in hasty
  BY <1>2, <1>3, NobodyRefers
<1>5. QED
  BY <1>1, <1>2, <1>4, CrashKeeps

-----------------------------------------------------------------------------
(* Items of the network thread's queue.                                    *)

\* Items that no part of the invariant is about.
LEMMA QuietItem ==
  ASSUME SocketInv, fault = "none", NEW kind, Handle(kind),
         UNCHANGED <<sockVars, sent, relVars, fault, late, raced>>,
         UNCHANGED <<taskVars, main, msgs>>,
         nstop' \in BOOLEAN, listener' \in {listener, "listening"}
  PROVE  SocketInv'
<1>1. /\ nqueue' \in Seq(NetItem) /\ async' \in BOOLEAN
      /\ npc' \in {"loop", "drain", "eof", "exited"}
      /\ npc # "eof" /\ npc' # "eof" /\ npc # "exited" /\ ItemsKept
  BY HandleEffect
<1>2. NetTypeOK'
  BY <1>1 DEF SocketInv, ServerTypeOK, NetTypeOK, sockVars, relVars
<1>3. TasksTypeOK'
  BY DEF SocketInv, ServerTypeOK, TasksTypeOK, taskVars
<1>4. ServerTypeOK'
  BY <1>2, <1>3 DEF SocketInv, ServerTypeOK
<1>5. FaultsExplained'
  BY FaultsKept
<1>6. PcKept /\ TasksKept
  BY NoneNewSame DEF PcKept, TasksKept, NoNewTask, taskVars
<1>7. QED
  BY <1>1, <1>4, <1>5, <1>6, QuietStep DEF taskVars, sockVars

LEMMA QuietItems ==
  ASSUME SocketInv, fault = "none", HandleStop \/ HandleNewListener \/ HandleListenFails,
         UNCHANGED <<taskVars, main, msgs>>
  PROVE  SocketInv'
<1>1. nstop \in BOOLEAN
  BY DEF SocketInv, ServerTypeOK, NetTypeOK
<1>2. CASE HandleStop
  BY <1>2, QuietItem DEF HandleStop
<1>3. CASE HandleNewListener
  BY <1>1, <1>3, QuietItem DEF HandleNewListener
<1>4. CASE HandleListenFails
  BY <1>1, <1>4, QuietItem DEF HandleListenFails
<1>5. QED
  BY <1>2, <1>3, <1>4

\* A STOP_LISTENER item comes from the task that stops the server.
LEMMA HandleStopListenerKeeps ==
  ASSUME SocketInv, fault = "none", HandleStopListener, UNCHANGED <<taskVars, main, msgs>>
  PROVE  SocketInv'
<1>1. /\ Handle("stop_listener")
      /\ UNCHANGED <<nstop, sockVars, sent, relVars, fault, late, raced>>
      /\ UNCHANGED <<taskVars, main, msgs>>
      /\ listener' \in {"none", "listening", "freed"}
  BY DEF HandleStopListener, SocketInv, ServerTypeOK, NetTypeOK
<1>2. /\ nqueue' \in Seq(NetItem) /\ async' \in BOOLEAN
      /\ npc' \in {"loop", "drain", "eof", "exited"}
      /\ npc # "eof" /\ npc' # "eof" /\ npc # "exited" /\ ItemsKept
      /\ Head(nqueue) \in Elements(nqueue) /\ Head(nqueue).kind = "stop_listener"
  BY <1>1, HandleEffect
<1>3. main # "sleeping"
  BY <1>2 DEF SocketInv, StopAsked
<1>4. NetTypeOK'
  BY <1>1, <1>2 DEF SocketInv, ServerTypeOK, NetTypeOK, sockVars, relVars
<1>5. TasksTypeOK'
  BY <1>1 DEF SocketInv, ServerTypeOK, TasksTypeOK, taskVars
<1>6. ServerTypeOK'
  BY <1>1, <1>4, <1>5 DEF SocketInv, ServerTypeOK
<1>7. FaultsExplained'
  BY <1>1, FaultsKept
<1>8. PcKept /\ TasksKept
  BY <1>1, NoneNewSame DEF PcKept, TasksKept, NoNewTask, taskVars
<1>9. StopAsked'
  BY <1>1, <1>3 DEF StopAsked
<1>10. QED
  BY <1>1, <1>2, <1>6, <1>7, <1>8, <1>9, OtherParts DEF taskVars, sockVars

\* An INIT item: the connection is read from, and no other one will come.
LEMMA HandleInitKeeps ==
  ASSUME SocketInv, fault = "none", HandleInit, UNCHANGED <<taskVars, main, msgs>>
  PROVE  SocketInv'
<1> DEFINE head == Head(nqueue)
<1>1. PICK x : x = head
  OBVIOUS
<1> HIDE DEF head
<1>2. /\ Handle("init")
      /\ reading' = [reading EXCEPT ![x.sock] = TRUE]
      /\ UNCHANGED <<nstop, listener, life, fd, refs, writing, bufs, level, sent,
                     relVars, fault, late, raced>>
      /\ UNCHANGED <<taskVars, main, msgs>>
  BY <1>1 DEF HandleInit, Named, head
<1>3. /\ nqueue' \in Seq(NetItem) /\ async' \in BOOLEAN
      /\ npc' \in {"loop", "drain", "eof", "exited"}
      /\ npc # "eof" /\ npc' # "eof" /\ npc # "exited" /\ ItemsKept
      /\ x \in Elements(nqueue) /\ x \in NetItem /\ x.kind = "init"
      /\ Elements(nqueue') \subseteq Behind(nqueue, x)
      /\ Live
  BY <1>1, <1>2, HandleEffect DEF head, Live
<1>4. PICK c \in Conns : c = x.sock /\ x = InitItem(c)
  BY <1>3, ItemShape
<1>5. /\ life[c] = "open" /\ ~reading[c]
      /\ InitItem(c) \notin Behind(nqueue, InitItem(c))
      /\ AcceptTask(c) \notin Elements(tqueue)
      /\ \A w \in Workers : task[w] # AcceptTask(c)
  BY <1>3, <1>4 DEF SocketInv, AcceptedOnce
<1>6. reading \in [Conns -> BOOLEAN]
  BY DEF SocketInv, ServerTypeOK, NetTypeOK
<1>7. reading' \in [Conns -> BOOLEAN] /\ \A d \in Conns : reading'[d] => reading[d] \/ d = c
  BY <1>2, <1>4, <1>6
<1>8. ServerTypeOK'
  <2>1. NetTypeOK'
    BY <1>2, <1>3, <1>7 DEF SocketInv, ServerTypeOK, NetTypeOK, relVars
  <2>2. TasksTypeOK'
    BY <1>2 DEF SocketInv, ServerTypeOK, TasksTypeOK, taskVars
  <2>3. QED
    BY <1>2, <2>1, <2>2 DEF SocketInv, ServerTypeOK
<1>9. /\ InitItem(c) \notin Elements(nqueue')
      /\ \A d \in Conns : /\ InitItem(d) \in Elements(nqueue') => InitItem(d) \in Elements(nqueue)
                          /\ InitItem(d) \in Behind(nqueue', InitItem(d)) =>
                               InitItem(d) \in Behind(nqueue, InitItem(d))
  BY <1>3, <1>4, <1>5 DEF ItemsKept, NoNewItem, NoneNew, ItemKinds, InitItem
<1>10. AcceptedOnce'
  BY <1>2, <1>3, <1>5, <1>7, <1>9 DEF SocketInv, AcceptedOnce, taskVars, Live
<1>11. FaultsExplained'
  BY <1>2, FaultsKept
<1>12. PcKept /\ TasksKept
  BY <1>2, NoneNewSame DEF PcKept, TasksKept, NoNewTask, taskVars
<1>13. QED
  BY <1>2, <1>3, <1>8, <1>10, <1>11, <1>12, ReadingStep DEF taskVars

\* Output goes to the socket's buffers; behind the end of the connection it
\* is late.
LEMMA HandleWriteKeeps ==
  ASSUME SocketInv, OwnOutput, fault = "none", HandleWrite, UNCHANGED <<taskVars, main, msgs>>
  PROVE  SocketInv'
<1> DEFINE head == Head(nqueue)
<1>1. PICK x : x = head
  OBVIOUS
<1> HIDE DEF head
<1>2. /\ Handle("write")
      /\ life[x.sock] # "freed"
      /\ bufs' = [bufs EXCEPT ![x.sock] = Append(@, x.data)]
      /\ writing' = [writing EXCEPT ![x.sock] = @ \/ StartsWriting(x.sock)]
      /\ late' = IF life[x.sock] = "eof" THEN late \cup {x.data} ELSE late
      /\ UNCHANGED <<nstop, listener, life, fd, refs, reading, level, sent, relVars,
                     fault, raced>>
      /\ UNCHANGED <<taskVars, main, msgs>>
  BY <1>1 DEF HandleWrite, Named, head
<1>3. /\ nqueue' \in Seq(NetItem) /\ async' \in BOOLEAN
      /\ npc' \in {"loop", "drain", "eof", "exited"}
      /\ npc # "eof" /\ npc' # "eof" /\ npc # "exited" /\ ItemsKept
      /\ x \in Elements(nqueue) /\ x \in NetItem /\ x.kind = "write"
  BY <1>1, <1>2, HandleEffect DEF head
<1>4. PICK c \in Conns : c = x.sock /\ x.data \in Data /\ x.data.sock = c
  BY <1>3, ItemShape DEF OwnOutput
<1>5. /\ writing \in [Conns -> BOOLEAN] /\ bufs \in [Conns -> Seq(Data)]
      /\ late \subseteq Data
      /\ life \in [Conns -> {"none", "open", "eof", "freed"}]
  BY DEF SocketInv, ServerTypeOK, NetTypeOK
<1>6. bufs' \in [Conns -> Seq(Data)] /\ late' \subseteq Data /\ late \subseteq late'
  BY <1>2, <1>4, <1>5
<1>7. StartsWriting(c) \in BOOLEAN
  BY DEF StartsWriting
<1>8. writing' \in [Conns -> BOOLEAN] /\ \A d \in Conns \ {c} : writing'[d] = writing[d]
  BY <1>2, <1>4, <1>5, <1>7
<1>9. ServerTypeOK'
  <2>1. NetTypeOK'
    BY <1>2, <1>3, <1>6, <1>8 DEF SocketInv, ServerTypeOK, NetTypeOK, relVars
  <2>2. TasksTypeOK'
    BY <1>2 DEF SocketInv, ServerTypeOK, TasksTypeOK, taskVars
  <2>3. QED
    BY <1>2, <2>1, <2>2 DEF SocketInv, ServerTypeOK
<1>10. Ended(c) => \E d \in late' : d.sock = c
  BY <1>2, <1>4 DEF Ended
<1>11. LateWatcher'
  BY <1>2, <1>6, <1>8, <1>10 DEF SocketInv, LateWatcher, Live, Ended
<1>12. FaultsExplained'
  BY <1>2, FaultsKept
<1>13. PcKept /\ TasksKept
  BY <1>2, NoneNewSame DEF PcKept, TasksKept, NoNewTask, taskVars
<1>14. QED
  BY <1>2, <1>3, <1>9, <1>11, <1>12, <1>13, WritingStep DEF taskVars

\* A FREE item: nobody refers to the socket, and its own tasks are done.
LEMMA HandleFreeKeeps ==
  ASSUME SocketInv, fault = "none", HandleFree, UNCHANGED <<taskVars, main, msgs>>
  PROVE  SocketInv'
<1> DEFINE head == Head(nqueue)
<1>1. PICK x : x = head
  OBVIOUS
<1> HIDE DEF head
<1>2. /\ Handle("free")
      /\ IF life[x.sock] \in {"open", "eof"}
           THEN /\ life' = [life EXCEPT ![x.sock] = "freed"]
                /\ bufs' = [bufs EXCEPT ![x.sock] = << >>]
                /\ level' = [level EXCEPT ![x.sock] = 0]
           ELSE UNCHANGED <<life, bufs, level>>
      /\ UNCHANGED <<nstop, listener, fd, refs, reading, writing, sent, relVars,
                     fault, late, raced>>
      /\ UNCHANGED <<taskVars, main, msgs>>
  BY <1>1 DEF HandleFree, Named, head
<1>3. /\ nqueue' \in Seq(NetItem) /\ async' \in BOOLEAN
      /\ npc' \in {"loop", "drain", "eof", "exited"}
      /\ npc # "eof" /\ npc' # "eof" /\ npc # "exited" /\ ItemsKept
      /\ x \in Elements(nqueue) /\ x \in NetItem /\ x.kind = "free"
      /\ Elements(nqueue') \subseteq Behind(nqueue, x)
      /\ Live
  BY <1>1, <1>2, HandleEffect DEF head, Live
<1>4. PICK c \in Conns : c = x.sock /\ x = FreeItem(c)
  BY <1>3, ItemShape
<1>5. Ended(c) /\ refs[c] = 0
  BY <1>3, <1>4 DEF SocketInv, FreesReleased
<1>6. /\ life \in [Conns -> {"none", "open", "eof", "freed"}]
      /\ bufs \in [Conns -> Seq(Data)]
      /\ level \in [Conns -> 0 .. BufSize - 1] /\ 0 \in 0 .. BufSize - 1
  BY NetAssumption DEF SocketInv, ServerTypeOK, NetTypeOK
<1>7. /\ life' = [life EXCEPT ![c] = "freed"]
      /\ bufs' \in [Conns -> Seq(Data)] /\ level' \in [Conns -> 0 .. BufSize - 1]
  <2>1. CASE life[c] = "eof"
    <3>1. /\ life' = [life EXCEPT ![c] = "freed"]
          /\ bufs' = [bufs EXCEPT ![c] = << >>] /\ level' = [level EXCEPT ![c] = 0]
      BY <1>2, <1>4, <2>1
    <3>2. << >> \in Seq(Data)
      OBVIOUS
    <3>3. bufs' \in [Conns -> Seq(Data)]
      BY <1>6, <3>1, <3>2
    <3>4. level' \in [Conns -> 0 .. BufSize - 1]
      BY <1>6, <3>1
    <3>5. QED
      BY <3>1, <3>3, <3>4
  <2>2. CASE life[c] = "freed"
    <3>1. UNCHANGED <<life, bufs, level>>
      BY <1>2, <1>4, <2>2
    <3>2. life = [life EXCEPT ![c] = "freed"]
      BY <1>6, <2>2
    <3>3. QED
      BY <1>6, <3>1, <3>2
  <2>3. QED
    BY <1>5, <2>1, <2>2 DEF Ended
<1>8. /\ life' \in [Conns -> {"none", "open", "eof", "freed"}]
      /\ \A d \in Conns : /\ Ended(d)' <=> Ended(d)
                          /\ life'[d] = "open" <=> life[d] = "open"
                          /\ life'[d] = "freed" => life[d] = "freed" \/ d = c
  BY <1>5, <1>6, <1>7 DEF Ended
<1>9. ServerTypeOK'
  <2>1. NetTypeOK'
    BY <1>2, <1>3, <1>7, <1>8 DEF SocketInv, ServerTypeOK, NetTypeOK, relVars
  <2>2. TasksTypeOK'
    BY <1>2 DEF SocketInv, ServerTypeOK, TasksTypeOK, taskVars
  <2>3. QED
    BY <1>2, <2>1, <2>2 DEF SocketInv, ServerTypeOK
<1>10. /\ PcKept /\ \A kind : NoNewTask(kind)
       /\ NoNewItem("init") /\ NoNewItem("free") /\ NoNewItem("write")
       /\ NoNewItem("stop_listener")
       /\ (Live' => Live) /\ UNCHANGED <<task, tx, hasty, tqueue>>
  BY <1>2, <1>3, NoneNewSame DEF PcKept, NoNewTask, ItemsKept, ItemKinds, taskVars, Live
<1>11. WorkersKeepTasks' /\ Shutdown'
  BY <1>2, <1>3, <1>10, WorkersKept, ShutdownKept DEF SocketInv, relVars
<1>12. NetReleases'
  <2>1. relSock \in [Threads -> Conns \cup {NoConn}]
    BY DEF SocketInv, ServerTypeOK, NetTypeOK
  <2>2. QED
    BY <1>2, <1>3, <1>8, <2>1, NetReleasesKept DEF SocketInv
<1>13. ClosedOnce' /\ AcceptedOnce'
  BY <1>2, <1>8, <1>10, TasksHeld, ClosedKept, AcceptedKept DEF SocketInv
<1>14. RefsCount'
  BY <1>2, <1>8, <1>10, TasksHeld, DueKept, RefsKept DEF SocketInv
<1>15. FreesReleased'
  <2>1. \A d \in Conns : FreeItem(d) \in Elements(nqueue') => FreeItem(d) \in Elements(nqueue)
    BY <1>10 DEF NoNewItem, NoneNew, FreeItem
  <2>2. QED
    BY <1>2, <1>3, <1>5, <1>8, <2>1 DEF SocketInv, FreesReleased
<1>16. ReadsBeforeClosed'
  BY <1>8, <1>10, TasksHeld, ReadsKept DEF SocketInv
<1>17. WritesBeforeFree'
  <2>1. \A d \in Conns : d \in hasty' \/ \A y \in Behind(nqueue', FreeItem(d)) : ~WriteTo(y, d)
    BY <1>3, <1>10 DEF SocketInv, WritesBeforeFree, NoNewItem, NoneNew, WriteTo
  <2>2. \A d \in Conns : life[d] = "freed" =>
          d \in hasty' \/ \A y \in Elements(nqueue') : ~WriteTo(y, d)
    BY <1>3, <1>10 DEF SocketInv, WritesBeforeFree, NoNewItem, NoneNew, WriteTo
  <2>3. c \in hasty' \/ \A y \in Elements(nqueue') : ~WriteTo(y, c)
    BY <1>3, <1>4, <1>10 DEF SocketInv, WritesBeforeFree
  <2>4. QED
    BY <1>8, <2>1, <2>2, <2>3 DEF WritesBeforeFree
<1>18. LateWatcher' /\ StopAsked'
  BY <1>2, <1>8, <1>10, WatcherKept, TasksHeld, StopKept DEF SocketInv
<1>19. FaultsExplained'
  BY <1>2, FaultsKept
<1>20. QED
  BY <1>9, <1>11, <1>12, <1>13, <1>14, <1>15, <1>16, <1>17, <1>18, <1>19 DEF SocketInv

-----------------------------------------------------------------------------
(* The callbacks of the loop.                                              *)

\* Output, as far as write() takes it.
LEMMA OutputKeeps ==
  ASSUME SocketInv, WatcherHasBuffer, fault = "none", NEW c \in Conns,
         WriteSome(c) \/ WriteBuffer(c) \/ WriteFails(c), UNCHANGED <<taskVars, main, msgs>>
  PROVE  SocketInv'
<1>1. /\ writing \in [Conns -> BOOLEAN] /\ bufs \in [Conns -> Seq(Data)]
      /\ sent \in [Conns -> Seq(Data)]
      /\ level \in [Conns -> 0 .. BufSize - 1] /\ 0 \in 0 .. BufSize - 1
  BY NetAssumption DEF SocketInv, ServerTypeOK, NetTypeOK
<1>2. /\ writing[c] /\ bufs[c] # << >>
      /\ UNCHANGED <<nqueue, async, npc, nstop, listener, life, fd, refs, reading,
                     relVars, fault, late, raced>>
      /\ UNCHANGED <<taskVars, main, msgs>>
  <2>1. CASE WriteSome(c)
    BY <2>1 DEF WriteSome, WatcherHasBuffer
  <2>2. CASE WriteBuffer(c)
    BY <2>2 DEF WriteBuffer, WatcherHasBuffer
  <2>3. CASE WriteFails(c)
    BY <2>3 DEF WriteFails, WatcherHasBuffer
  <2>4. QED
    BY <2>1, <2>2, <2>3
<1>3. /\ level' \in [Conns -> 0 .. BufSize - 1]
      /\ writing' \in [Conns -> BOOLEAN]
      /\ bufs' \in [Conns -> Seq(Data)] /\ sent' \in [Conns -> Seq(Data)]
      /\ \A d \in Conns \ {c} : writing'[d] = writing[d]
  <2>1. CASE WriteSome(c)
    <3>1. level[c] + 1 \in 0 .. BufSize - 1
      BY <1>1, <2>1, NetAssumption DEF WriteSome
    <3>2. level' = [level EXCEPT ![c] = level[c] + 1] /\ UNCHANGED <<writing, bufs, sent>>
      BY <1>1, <2>1 DEF WriteSome
    <3>3. QED
      BY <1>1, <3>1, <3>2
  <2>2. CASE WriteBuffer(c)
    <3> DEFINE d == Head(bufs[c])
               stops == BufferStopsWriting(c)
    <3>1. d \in Data /\ Tail(bufs[c]) \in Seq(Data)
      BY <1>1, <1>2
    <3>2. PICK r \in Conns : sent' = [sent EXCEPT ![r] = Append(@, d)]
      BY <2>2 DEF WriteBuffer, Receivers
    <3>3. /\ bufs' = [bufs EXCEPT ![c] = Tail(@)] /\ level' = [level EXCEPT ![c] = 0]
          /\ writing' = [writing EXCEPT ![c] = ~stops]
      BY <2>2 DEF WriteBuffer
    <3> HIDE DEF d, stops
    <3>4. bufs' \in [Conns -> Seq(Data)] /\ sent' \in [Conns -> Seq(Data)]
      BY <1>1, <3>1, <3>2, <3>3
    <3>5. QED
      BY <1>1, <3>3, <3>4
  <2>3. CASE WriteFails(c)
    BY <1>1, <2>3 DEF WriteFails
  <2>4. QED
    BY <2>1, <2>2, <2>3
<1>4. ServerTypeOK'
  <2>1. NetTypeOK'
    BY <1>2, <1>3 DEF SocketInv, ServerTypeOK, NetTypeOK, relVars
  <2>2. TasksTypeOK'
    BY <1>2 DEF SocketInv, ServerTypeOK, TasksTypeOK, taskVars
  <2>3. QED
    BY <1>2, <2>1, <2>2 DEF SocketInv, ServerTypeOK
<1>5. FaultsExplained'
  BY <1>2, FaultsKept
<1>6. PcKept /\ TasksKept /\ ItemsKept
  BY <1>2, NoneNewSame DEF PcKept, TasksKept, NoNewTask, ItemsKept, NoNewItem, taskVars
<1>7. \A d \in Conns : writing'[d] => writing[d]
  BY <1>2, <1>3
<1>8. QED
  BY <1>2, <1>4, <1>5, <1>6, <1>7, QuietStep DEF taskVars

LEMMA ListenFailsKeeps ==
  ASSUME SocketInv, fault = "none", ListenFails
  PROVE  SocketInv'
<1> DEFINE x == [kind |-> "listen_error"]
<1>1. /\ HandleListenFails /\ Enqueue(x) /\ UNCHANGED <<main, msgs>>
      /\ Handle("new_listener")
      /\ UNCHANGED <<nstop, listener, sockVars, sent, relVars, fault, late, raced>>
  BY DEF ListenFails, HandleListenFails
<1>2. /\ nqueue' \in Seq(NetItem) /\ async' \in BOOLEAN
      /\ npc' \in {"loop", "drain", "eof", "exited"}
      /\ npc # "eof" /\ npc' # "eof" /\ npc # "exited" /\ ItemsKept
  BY <1>1, HandleEffect
<1>3. x \in Task /\ x.kind \notin TaskKinds
  BY DEF Task, TaskKinds
<1> HIDE DEF x
<1>4. /\ TasksTypeOK' /\ PcKept /\ UNCHANGED <<task, tx, hasty>>
      /\ Elements(tqueue') = Elements(tqueue) \cup {x}
      /\ \A kind : x.kind # kind => NoNewTask(kind)
  BY <1>1, <1>3, EnqueueEffect DEF SocketInv
<1>5. TasksKept
  BY <1>3, <1>4 DEF TasksKept
<1>6. NetTypeOK'
  BY <1>1, <1>2 DEF SocketInv, ServerTypeOK, NetTypeOK, sockVars, relVars
<1>7. ServerTypeOK'
  BY <1>1, <1>4, <1>6 DEF SocketInv, ServerTypeOK
<1>8. FaultsExplained'
  BY <1>1, FaultsKept
<1>9. QED
  BY <1>1, <1>2, <1>4, <1>5, <1>7, <1>8, QuietStep DEF sockVars

\* A new connection: nothing is queued for it, nothing worked at.
LEMMA ConnectKeeps ==
  ASSUME SocketInv, fault = "none", NEW c \in Conns, Connect(c)
  PROVE  SocketInv'
<1> DEFINE x == AcceptTask(c)
<1>1. /\ ~TasksFreed /\ npc = "loop" /\ life[c] = "none"
      /\ life' = [life EXCEPT ![c] = "open"]
      /\ refs' = [refs EXCEPT ![c] = 2]
      /\ \E n \in LowestFds : fd' = [fd EXCEPT ![c] = n]
      /\ UNCHANGED <<nqueue, async, npc, nstop, listener, reading, writing, bufs,
                     level, sent, relVars, fault, late, raced>>
      /\ Enqueue(x) /\ UNCHANGED <<main, msgs>>
  BY DEF Connect, Accept, CanAccept, References, AcceptTask
<1>2. x \in Task /\ x.kind = "accept" /\ x.sock = c
  BY DEF Task, AcceptTask
<1> HIDE DEF x
<1>3. /\ TasksTypeOK' /\ PcKept /\ UNCHANGED <<task, tx, hasty>>
      /\ Elements(tqueue') = Elements(tqueue) \cup {x}
      /\ \A y : Behind(tqueue', y) = Behind(tqueue, y)
                  \cup (IF y \in Elements(tqueue) THEN {x} ELSE {})
      /\ \A kind : kind # "accept" => NoNewTask(kind)
  BY <1>1, <1>2, EnqueueEffect DEF SocketInv
<1>4. /\ life \in [Conns -> {"none", "open", "eof", "freed"}]
      /\ fd \in [Conns -> Fds \cup {0}] /\ refs \in [Conns -> 0 .. 2]
      /\ relSock \in [Threads -> Conns \cup {NoConn}]
  BY DEF SocketInv, ServerTypeOK, NetTypeOK
<1>5. /\ life' \in [Conns -> {"none", "open", "eof", "freed"}]
      /\ fd' \in [Conns -> Fds \cup {0}] /\ refs' \in [Conns -> 0 .. 2]
      /\ life'[c] = "open" /\ refs'[c] = 2
      /\ \A d \in Conns \ {c} : life'[d] = life[d] /\ refs'[d] = refs[d]
  <2>1. LowestFds \subseteq Fds
    BY DEF LowestFds, FreeFds
  <2>2. PICK n \in Fds : fd' = [fd EXCEPT ![c] = n]
    BY <1>1, <2>1
  <2>3. QED
    BY <1>1, <1>4, <2>2
<1>6. ServerTypeOK'
  <2>1. NetTypeOK'
    BY <1>1, <1>5 DEF SocketInv, ServerTypeOK, NetTypeOK, relVars
  <2>2. QED
    BY <1>1, <1>3, <2>1 DEF SocketInv, ServerTypeOK
<1>7. Live /\ (Live' => Live)
  BY <1>1, LiveThreads DEF Live
<1>8. /\ ~Ended(c) /\ \A d \in Conns : Ended(d)' <=> Ended(d)
      /\ \A d \in Conns : life'[d] = "freed" => life[d] = "freed"
  BY <1>1, <1>5 DEF Ended
<1>9. /\ AcceptTask(c) \notin Elements(tqueue)
      /\ \A w \in Workers : task[w] # AcceptTask(c)
      /\ InitItem(c) \notin Elements(nqueue)
      /\ ~reading[c]
  BY <1>1, <1>7 DEF SocketInv, AcceptedOnce
<1>10. /\ ~ClosedDue(c) /\ \A a \in Threads : relAt[a] # "out" => relSock[a] # c
  BY <1>8 DEF SocketInv, ClosedOnce, NetReleases, ClosedDue
<1>11. \A kind : NoNewItem(kind)
  BY <1>1, NoneNewSame DEF NoNewItem
<1>12. WorkersKeepTasks' /\ Shutdown'
  BY <1>1, <1>3, WorkersKept, ShutdownKept DEF SocketInv, relVars
<1>13. NetReleases'
  BY <1>1, <1>4, <1>8, NetReleasesKept DEF SocketInv
<1>14. ClosedOnce'
  BY <1>3, <1>8, TasksHeld, ClosedKept DEF SocketInv
<1>15. AcceptedOnce'
  <2>1. /\ AcceptTask(c) \notin Behind(tqueue', AcceptTask(c))
        /\ \A d \in Conns \ {c} :
             /\ AcceptTask(d) \in Elements(tqueue') => AcceptTask(d) \in Elements(tqueue)
             /\ AcceptTask(d) \in Behind(tqueue', AcceptTask(d)) =>
                  AcceptTask(d) \in Behind(tqueue, AcceptTask(d))
    BY <1>3, <1>9, BehindElements DEF AcceptTask, x
  <2>2. UNCHANGED <<nqueue, reading, task>>
    BY <1>1, <1>3
  <2>3. QED
    BY <1>5, <1>7, <1>9, <2>1, <2>2 DEF SocketInv, AcceptedOnce
<1>16. RefsCount'
  <2>1. \A d \in Conns : ClosedDue(d)' => ClosedDue(d)
    BY <1>3, TasksHeld, DueKept
  <2>2. \A d \in Conns \ {c} : /\ NetOwes(d)' => NetOwes(d)
                               /\ TaskOwes(d)' => TaskOwes(d)
    BY <1>1, <1>5, <2>1 DEF NetOwes, TaskOwes, Owes, relVars
  <2>3. \A d \in Conns \ {c} : life'[d] = life[d] /\ refs'[d] = refs[d]
    BY <1>5
  <2>4. \A a \in Threads : relAt[a] = "store" => relSock[a] # c
    BY <1>10
  <2>5. NetThread \in Threads /\ Workers \subseteq Threads /\ UNCHANGED relVars
    BY <1>1 DEF Threads
  <2>6. QED
    BY <1>5, <1>7, <2>2, <2>3, <2>4, <2>5 DEF SocketInv, RefsCount, relVars
<1>17. FreesReleased'
  <2>1. FreeItem(c) \notin Elements(nqueue) /\ life'[c] # "freed"
    BY <1>5, <1>7, <1>8 DEF SocketInv, FreesReleased
  <2>2. QED
    BY <1>1, <1>5, <1>7, <1>8, <2>1 DEF SocketInv, FreesReleased
<1>18. ReadsBeforeClosed' /\ WritesBeforeFree'
  BY <1>3, <1>7, <1>8, <1>11, TasksHeld, ReadsKept, WritesKept DEF SocketInv
<1>19. LateWatcher' /\ StopAsked' /\ FaultsExplained'
  BY <1>1, <1>3, <1>7, <1>8, <1>11, WatcherKept, TasksHeld, StopKept, FaultsKept DEF SocketInv
<1>20. QED
  BY <1>6, <1>12, <1>13, <1>14, <1>15, <1>16, <1>17, <1>18, <1>19 DEF SocketInv

\* Input: there is no `closed' task yet that it could come behind.
LEMMA ReceiveKeeps ==
  ASSUME SocketInv, fault = "none", NEW c \in Conns, Receive(c)
  PROVE  SocketInv'
<1> DEFINE x == [kind |-> "read", sock |-> c, msg |-> msgs + 1]
<1>1. /\ life[c] = "open" /\ UNCHANGED netVars
      /\ Enqueue(x) /\ msgs < MaxMsgs /\ msgs' = msgs + 1 /\ UNCHANGED main
  BY DEF Receive, ReadData, CanRead
<1>2. msgs + 1 \in 1 .. MaxMsgs /\ msgs + 1 \in 0 .. MaxMsgs
  BY <1>1, NetAssumption DEF SocketInv, ServerTypeOK
<1>3. x \in Task /\ x.kind = "read" /\ x.sock = c
  BY <1>2 DEF Task
<1> HIDE DEF x
<1>4. /\ TasksTypeOK' /\ PcKept /\ UNCHANGED <<task, tx, hasty>>
      /\ Elements(tqueue') = Elements(tqueue) \cup {x}
      /\ \A y : Behind(tqueue', y) = Behind(tqueue, y)
                  \cup (IF y \in Elements(tqueue) THEN {x} ELSE {})
      /\ \A kind : kind # "read" => NoNewTask(kind)
  BY <1>1, <1>3, EnqueueEffect DEF SocketInv
<1>5. UNCHANGED <<life, refs, reading, writing, late, listener, npc, nqueue>> /\ UNCHANGED relVars
  BY <1>1 DEF netVars, relVars
<1>6. ServerTypeOK'
  <2>1. NetTypeOK'
    BY <1>1 DEF SocketInv, ServerTypeOK, NetTypeOK, netVars
  <2>2. msgs' \in 0 .. MaxMsgs
    BY <1>1, <1>2
  <2>3. QED
    BY <1>1, <1>4, <2>1, <2>2 DEF SocketInv, ServerTypeOK
<1>7. (Live' => Live) /\ \A d \in Conns : Ended(d)' <=> Ended(d)
  BY <1>1, <1>5 DEF Live, Ended
<1>8. \A kind : NoNewItem(kind)
  BY <1>5, NoneNewSame DEF NoNewItem
<1>9. WorkersKeepTasks' /\ Shutdown'
  BY <1>1, <1>4, <1>5, WorkersKept, ShutdownKept DEF SocketInv, relVars
<1>10. NetReleases'
  <2>1. relSock \in [Threads -> Conns \cup {NoConn}]
    BY DEF SocketInv, ServerTypeOK, NetTypeOK
  <2>2. QED
    BY <1>5, <1>7, <2>1, NetReleasesKept DEF SocketInv
<1>11. ClosedOnce' /\ AcceptedOnce'
  BY <1>4, <1>5, <1>7, <1>8, TasksHeld, ClosedKept, AcceptedKept DEF SocketInv
<1>12. RefsCount' /\ FreesReleased'
  BY <1>4, <1>5, <1>7, <1>8, TasksHeld, DueKept, RefsKept, FreesKept DEF SocketInv
<1>13. ReadsBeforeClosed'
  <2>1. ClosedTask(c) \notin Elements(tqueue) /\ ~Ended(c)
    BY <1>1 DEF SocketInv, ClosedOnce, Ended
  <2>2. \A d \in Conns : d # c => ~ReadOf(x, d)
    BY <1>3 DEF ReadOf
  <2>3. \A d \in Conns : \A y \in Behind(tqueue', ClosedTask(d)) :
          y \in Behind(tqueue, ClosedTask(d)) \/ ~ReadOf(y, d)
    BY <1>4, <2>1, <2>2
  <2>4. \A d \in Conns : Ended(d) => \A y \in Elements(tqueue') :
          y \in Elements(tqueue) \/ ~ReadOf(y, d)
    BY <1>4, <2>1, <2>2
  <2>5. \A d \in Conns : ClosedTask(d) \in Elements(tqueue) =>
                           ClosedTask(d) \in Elements(tqueue')
    BY <1>4
  <2>6. QED
    BY <1>4, <1>7, <2>3, <2>4, <2>5 DEF SocketInv, ReadsBeforeClosed
<1>14. WritesBeforeFree' /\ LateWatcher' /\ StopAsked' /\ FaultsExplained'
  BY <1>1, <1>4, <1>5, <1>7, <1>8, WritesKept, WatcherKept, TasksHeld, StopKept, FaultsKept
     DEF SocketInv, netVars
<1>15. QED
  BY <1>6, <1>9, <1>10, <1>11, <1>12, <1>13, <1>14 DEF SocketInv

\* The end of the input: its `closed' task is the first of the connection and
\* the last of its tasks, and the network thread begins to give up its
\* reference.
LEMMA HangUpKeeps ==
  ASSUME SocketInv, WatcherHasBuffer, fault = "none", NEW c \in Conns, HangUp(c)
  PROVE  SocketInv'
<1> DEFINE x == ClosedTask(c)
<1>1. /\ ~TasksFreed /\ npc = "loop" /\ reading[c] /\ life[c] = "open"
      /\ life' = [life EXCEPT ![c] = "eof"]
      /\ reading' = [reading EXCEPT ![c] = FALSE]
      /\ writing' = [writing EXCEPT ![c] = @ /\ ~EofStopsWriting(c)]
      /\ npc' = "eof"
      /\ relAt' = [relAt EXCEPT ![NetThread] = "load"]
      /\ relSock' = [relSock EXCEPT ![NetThread] = c]
      /\ UNCHANGED <<nqueue, async, nstop, listener, fd, refs, bufs, level, sent,
                     relVal, fault, late, raced>>
      /\ Enqueue(x) /\ UNCHANGED <<main, msgs>>
  BY DEF HangUp, ReadEof, CanRead, ClosedTask
<1>2. x \in Task /\ x.kind = "closed" /\ x.sock = c
  BY DEF Task, ClosedTask
<1> HIDE DEF x
<1>3. /\ TasksTypeOK' /\ PcKept /\ UNCHANGED <<task, tx, hasty>>
      /\ Elements(tqueue') = Elements(tqueue) \cup {x}
      /\ \A y : Behind(tqueue', y) = Behind(tqueue, y)
                  \cup (IF y \in Elements(tqueue) THEN {x} ELSE {})
      /\ \A kind : kind # "closed" => NoNewTask(kind)
  BY <1>1, <1>2, EnqueueEffect DEF SocketInv
<1>4. /\ life \in [Conns -> {"none", "open", "eof", "freed"}]
      /\ reading \in [Conns -> BOOLEAN] /\ writing \in [Conns -> BOOLEAN]
      /\ relAt \in [Threads -> {"out", "load", "store", "check", "unlatch"}]
      /\ relSock \in [Threads -> Conns \cup {NoConn}]
      /\ c # NoConn
  BY NetAssumption DEF SocketInv, ServerTypeOK, NetTypeOK
<1>5. /\ NetThread \in Threads /\ Workers \subseteq Threads /\ NetThread \notin Workers
      /\ Threads \ {NetThread} = Workers
  BY NetAssumption DEF Threads
<1>6. /\ life' \in [Conns -> {"none", "open", "eof", "freed"}]
      /\ reading' \in [Conns -> BOOLEAN]
      /\ life'[c] = "eof" /\ ~reading'[c]
      /\ \A d \in Conns \ {c} : life'[d] = life[d] /\ reading'[d] = reading[d]
  BY <1>1, <1>4
<1>7. /\ writing' \in [Conns -> BOOLEAN] /\ ~writing'[c]
      /\ \A d \in Conns \ {c} : writing'[d] = writing[d]
  <2>1. writing[c] => EofStopsWriting(c)
    BY <1>1 DEF WatcherHasBuffer, EofStopsWriting
  <2>2. EofStopsWriting(c) \in BOOLEAN
    BY DEF EofStopsWriting
  <2>3. QED
    BY <1>1, <1>4, <2>1, <2>2
<1>8. /\ relAt' \in [Threads -> {"out", "load", "store", "check", "unlatch"}]
      /\ relSock' \in [Threads -> Conns \cup {NoConn}]
      /\ relAt'[NetThread] = "load" /\ relSock'[NetThread] = c
      /\ \A w \in Workers : relAt'[w] = relAt[w] /\ relSock'[w] = relSock[w]
  BY <1>1, <1>4, <1>5
<1>9. ServerTypeOK'
  <2>1. NetTypeOK'
    BY <1>1, <1>6, <1>7, <1>8 DEF SocketInv, ServerTypeOK, NetTypeOK
  <2>2. QED
    BY <1>1, <1>3, <2>1 DEF SocketInv, ServerTypeOK
<1>10. Live /\ (Live' => Live)
  BY <1>1, LiveThreads DEF Live
<1>11. /\ ~Ended(c) /\ Ended(c)' /\ \A d \in Conns \ {c} : Ended(d)' <=> Ended(d)
  BY <1>1, <1>6 DEF Ended
<1>12. /\ ClosedTask(c) \notin Elements(tqueue)
       /\ \A w \in Workers : task[w] # ClosedTask(c)
       /\ \A a \in Threads : relAt[a] # "out" => relSock[a] # c
       /\ relAt[NetThread] = "out"
  BY <1>1, <1>5, <1>11 DEF SocketInv, ClosedOnce, NetReleases
<1>13. \A kind : NoNewItem(kind)
  BY <1>1, NoneNewSame DEF NoNewItem
<1>14. WorkersKeepTasks' /\ Shutdown'
  BY <1>1, <1>3, <1>8, WorkersKept, ShutdownKept DEF SocketInv
<1>15. NetReleases'
  <2>1. /\ relAt'[NetThread] # "out" <=> npc' = "eof"
        /\ relAt'[NetThread] # "unlatch"
    BY <1>1, <1>8
  <2>2. \A a \in Threads : relAt'[a] = "out" <=> relSock'[a] = NoConn
    BY <1>4, <1>5, <1>8 DEF SocketInv, NetReleases
  <2>3. \A w \in Workers : relAt[w] # "out" => relSock[w] \in Conns
    BY <1>4, <1>5 DEF SocketInv, NetReleases
  <2>4. \A a \in Threads : relAt'[a] # "out" => Ended(relSock[a])' \/ a = NetThread
    <3> SUFFICES ASSUME NEW w \in Workers, relAt[w] # "out"
                 PROVE  Ended(relSock[w])'
      BY <1>5, <1>8
    <3>1. Ended(relSock[w]) /\ relSock[w] \in Conns \ {c}
      BY <1>5, <1>12, <2>3 DEF SocketInv, NetReleases
    <3>2. relSock'[w] = relSock[w]
      BY <1>8
    <3>3. QED
      BY <1>6, <3>1, <3>2 DEF Ended
  <2>5. Ended(relSock[NetThread])' /\ life'[relSock'[NetThread]] # "freed"
    BY <1>6, <1>8 DEF Ended
  <2>6. \A a \in Threads : relAt'[a] = "store" => relVal'[a] \in 1 .. 2
    BY <1>1, <1>5, <1>8 DEF SocketInv, NetReleases
  <2>7. QED
    BY <2>1, <2>2, <2>4, <2>5, <2>6 DEF NetReleases
<1>16. ClosedOnce'
  <2>1. /\ ClosedTask(c) \notin Behind(tqueue', ClosedTask(c))
        /\ \A d \in Conns \ {c} :
             /\ ClosedTask(d) \in Elements(tqueue') => ClosedTask(d) \in Elements(tqueue)
             /\ ClosedTask(d) \in Behind(tqueue', ClosedTask(d)) =>
                  ClosedTask(d) \in Behind(tqueue, ClosedTask(d))
    BY <1>3, <1>12, BehindElements DEF ClosedTask, x
  <2>2. QED
    BY <1>3, <1>11, <1>12, <2>1 DEF SocketInv, ClosedOnce
<1>17. AcceptedOnce'
  <2>1. \A d \in Conns :
          /\ AcceptTask(d) \in Elements(tqueue') => AcceptTask(d) \in Elements(tqueue)
          /\ AcceptTask(d) \in Behind(tqueue', AcceptTask(d)) =>
               AcceptTask(d) \in Behind(tqueue, AcceptTask(d))
    BY <1>3 DEF NoNewTask, NoneNew, AcceptTask
  <2>2. /\ AcceptTask(c) \notin Elements(tqueue)
        /\ \A w \in Workers : task[w] # AcceptTask(c)
        /\ InitItem(c) \notin Elements(nqueue)
    BY <1>1, <1>10 DEF SocketInv, AcceptedOnce
  <2>3. UNCHANGED <<nqueue, task>>
    BY <1>1, <1>3
  <2>4. QED
    BY <1>6, <1>10, <2>1, <2>2, <2>3 DEF SocketInv, AcceptedOnce
<1>18. RefsCount'
  <2>1. refs' = refs /\ refs[c] = 2
    BY <1>1, <1>10 DEF SocketInv, RefsCount
  <2>2. \A d \in Conns \ {c} : ClosedDue(d)' => ClosedDue(d)
    BY <1>3 DEF ClosedDue, ClosedTask, x, PcKept, AtRest
  <2>3. \A d \in Conns \ {c} : /\ NetOwes(d)' => NetOwes(d)
                               /\ TaskOwes(d)' => TaskOwes(d)
    BY <1>6, <1>8, <2>2 DEF NetOwes, TaskOwes, Owes
  <2>4. \A w \in Workers : relAt'[w] = "store" /\ relSock'[w] = relSock[w]
                             => relAt[w] = "store" /\ relSock'[w] # c
    BY <1>5, <1>8, <1>12
  <2>5. QED
    BY <1>1, <1>6, <1>8, <1>10, <2>1, <2>3, <2>4 DEF SocketInv, RefsCount
<1>19. FreesReleased'
  <2>1. FreeItem(c) \notin Elements(nqueue) /\ life'[c] # "freed"
    BY <1>6, <1>10, <1>11 DEF SocketInv, FreesReleased
  <2>2. QED
    BY <1>1, <1>6, <1>10, <1>11, <2>1 DEF SocketInv, FreesReleased
<1>20. ReadsBeforeClosed'
  <2>1. ClosedTask(c) \in Elements(tqueue')
    BY <1>3 DEF x
  <2>2. \A d \in Conns :
        /\ \A y \in Behind(tqueue', ClosedTask(d)) :
             y \in Behind(tqueue, ClosedTask(d)) \/ ~ReadOf(y, d)
        /\ \A y \in Elements(tqueue') : y \in Elements(tqueue) \/ ~ReadOf(y, d)
        /\ ClosedTask(d) \in Elements(tqueue) => ClosedTask(d) \in Elements(tqueue')
    BY <1>2, <1>3 DEF ReadOf
  <2>3. QED
    BY <1>3, <1>10, <1>11, <2>1, <2>2 DEF SocketInv, ReadsBeforeClosed
<1>21. WritesBeforeFree' /\ StopAsked' /\ FaultsExplained'
  <2>1. \A d \in Conns : life'[d] = "freed" => life[d] = "freed"
    BY <1>6
  <2>2. QED
    BY <1>1, <1>3, <1>10, <1>13, <2>1, WritesKept, TasksHeld, StopKept, FaultsKept DEF SocketInv
<1>22. LateWatcher'
  BY <1>1, <1>7, <1>10, <1>11 DEF SocketInv, LateWatcher
<1>23. QED
  BY <1>9, <1>14, <1>15, <1>16, <1>17, <1>18, <1>19, <1>20, <1>21, <1>22 DEF SocketInv

-----------------------------------------------------------------------------
(* net_socket_dec_refcount()                                               *)

\* A thread that gives up a reference.
LEMMA Releaser ==
  ASSUME SocketInv, NEW a \in Threads, relAt[a] # "out"
  PROVE  /\ Live
         /\ relSock[a] \in Conns /\ Ended(relSock[a])
         /\ a = NetThread => npc = "eof"
         /\ a \in Workers => pc[a] = "releasing" /\ task[a] = ClosedTask(relSock[a])
         /\ a = NetThread \/ a \in Workers
<1>1. relSock[a] \in Conns /\ Ended(relSock[a])
  BY DEF SocketInv, ServerTypeOK, NetTypeOK, NetReleases
<1>2. a = NetThread => npc = "eof"
  BY DEF SocketInv, NetReleases
<1>3. a = NetThread \/ a \in Workers
  BY DEF Threads
<1>4. ASSUME a \in Workers
      PROVE  pc[a] = "releasing" /\ task[a] = ClosedTask(relSock[a])
  <2>1. pc[a] = "releasing" /\ task[a].kind = "closed" /\ task[a].sock = relSock[a]
    BY <1>4 DEF SocketInv, WorkersKeepTasks
  <2>2. task[a] \in Task
    BY <1>4, <2>1 DEF SocketInv, ServerTypeOK, TasksTypeOK, NoTask
  <2>3. QED
    BY <2>1, <2>2, TaskShape
<1>5. Live
  BY <1>2, <1>3, <1>4, LiveThreads
<1>6. QED
  BY <1>1, <1>2, <1>3, <1>4, <1>5

\* The task's reference is given up once, by one worker.
LEMMA OneReleaser ==
  ASSUME SocketInv, NEW w \in Workers, relAt[w] # "out", NEW c \in Conns, c = relSock[w]
  PROVE  /\ ~ClosedDue(c)
         /\ \A v \in Workers \ {w} : relAt[v] # "out" => relSock[v] # c
<1>1. w \in Threads /\ Workers \subseteq Threads
  BY DEF Threads
<1>2. pc[w] = "releasing" /\ task[w] = ClosedTask(c)
  BY <1>1, Releaser
<1>3. /\ ClosedTask(c) \notin Elements(tqueue)
      /\ \A v \in Workers : task[v] = ClosedTask(c) => v = w
  BY <1>2 DEF SocketInv, ClosedOnce
<1>4. ~ClosedDue(c)
  BY <1>2, <1>3 DEF ClosedDue
<1>5. \A v \in Workers : relAt[v] # "out" => task[v] = ClosedTask(relSock[v])
  BY <1>1, Releaser
<1>6. QED
  BY <1>3, <1>4, <1>5

\* What the steps of a release leave alone.
LEMMA ReleaseStep ==
  ASSUME SocketInv, fault = "none", UNCHANGED <<taskVars, main, msgs>>,
         UNCHANGED <<nstop, listener, life, fd, reading, writing, bufs, level, sent,
                     fault, late>>,
         nqueue' \in Seq(NetItem), async' \in BOOLEAN,
         npc' \in {npc, "loop"}, npc # "exited" \/ npc' = npc,
         refs' \in [Conns -> 0 .. 2], raced' \subseteq Conns,
         relAt' \in [Threads -> {"out", "load", "store", "check", "unlatch"}],
         relSock' \in [Threads -> Conns \cup {NoConn}],
         relVal' \in [Threads -> 0 .. 2],
         \A w \in Workers : relAt'[w] # "out" => relAt[w] # "out" /\ relSock'[w] = relSock[w],
         \A kind : kind # "free" => NoNewItem(kind),
         NetReleases', RefsCount', FreesReleased'
  PROVE  SocketInv'
<1>1. ServerTypeOK'
  <2>1. npc' \in {"loop", "drain", "eof", "exited"}
    BY DEF SocketInv, ServerTypeOK, NetTypeOK
  <2>2. NetTypeOK'
    BY <2>1 DEF SocketInv, ServerTypeOK, NetTypeOK
  <2>3. TasksTypeOK'
    BY DEF SocketInv, ServerTypeOK, TasksTypeOK, taskVars
  <2>4. QED
    BY <2>2, <2>3 DEF SocketInv, ServerTypeOK
<1>2. /\ PcKept /\ UNCHANGED <<task, tx, hasty, tqueue>> /\ \A kind : NoNewTask(kind)
  BY NoneNewSame DEF PcKept, NoNewTask, taskVars
<1>3. (Live' => Live) /\ \A c \in Conns : Ended(c)' <=> Ended(c)
  BY DEF Live, Ended
<1>4. WorkersKeepTasks' /\ Shutdown'
  BY <1>2, WorkersKept, ShutdownKept DEF SocketInv
<1>5. ClosedOnce' /\ AcceptedOnce'
  BY <1>2, <1>3, TasksHeld, ClosedKept, AcceptedKept DEF SocketInv
<1>6. ReadsBeforeClosed' /\ WritesBeforeFree'
  BY <1>2, <1>3, TasksHeld, ReadsKept, WritesKept DEF SocketInv
<1>7. LateWatcher' /\ StopAsked' /\ FaultsExplained'
  BY <1>2, <1>3, WatcherKept, TasksHeld, StopKept, FaultsKept DEF SocketInv
<1>8. QED
  BY <1>1, <1>4, <1>5, <1>6, <1>7 DEF SocketInv

LEMMA ReleaseTypes ==
  ASSUME SocketInv
  PROVE  /\ nqueue \in Seq(NetItem) /\ async \in BOOLEAN /\ refs \in [Conns -> 0 .. 2]
         /\ raced \subseteq Conns
         /\ relAt \in [Threads -> {"out", "load", "store", "check", "unlatch"}]
         /\ relSock \in [Threads -> Conns \cup {NoConn}]
         /\ relVal \in [Threads -> 0 .. 2]
         /\ NetThread \in Threads /\ Workers \subseteq Threads /\ NetThread \notin Workers
         /\ Threads = Workers \cup {NetThread}
         /\ NoConn \notin Conns
  BY NetAssumption DEF SocketInv, ServerTypeOK, NetTypeOK, Threads

\* The network thread frees no socket while it gives up a reference, and a
\* worker that has not written its count back still counts.
LEMMA RelFreedKeeps ==
  ASSUME SocketInv, NEW a \in Threads, RelFreed(a), UNCHANGED <<taskVars, main, msgs>>
  PROVE  SocketInv'
<1>1. relAt[a] # "out" /\ life[relSock[a]] = "freed" /\ NetCrash("release")
  BY DEF RelFreed
<1>2. /\ relAt[a] \in {"out", "load", "store", "check", "unlatch"}
      /\ relSock[a] \in Conns /\ Live
  BY <1>1, Releaser, ReleaseTypes
<1>3. PICK c \in Conns : c = relSock[a]
  BY <1>2
<1>4. a \in Workers
  <2>1. a # NetThread
    BY <1>1 DEF SocketInv, NetReleases
  <2>2. QED
    BY <2>1 DEF Threads
<1>5. ~TaskOwes(c)
  BY <1>1, <1>2, <1>3, NobodyRefers
<1>6. relAt[a] \in {"check", "unlatch"}
  BY <1>1, <1>2, <1>3, <1>4, <1>5 DEF TaskOwes, Owes
<1>7. QED
  BY <1>1, <1>4, <1>6, CrashKeeps

LEMMA RelLoadKeeps ==
  ASSUME SocketInv, fault = "none", NEW a \in Threads, RelLoad(a),
         UNCHANGED <<taskVars, main, msgs>>
  PROVE  SocketInv'
<1> DEFINE sock == relSock[a]
<1>1. PICK c : c = sock
  OBVIOUS
<1> HIDE DEF sock
<1>2. /\ relAt[a] = "load"
      /\ relVal' = [relVal EXCEPT ![a] = refs[c]]
      /\ relAt' = [relAt EXCEPT ![a] = "store"]
      /\ raced' = IF \E b \in Threads : relAt[b] = "store" /\ relSock[b] = c
                  THEN raced \cup {c} ELSE raced
      /\ UNCHANGED <<nqueue, async, npc, nstop, listener, life, fd, refs, reading,
                     writing, bufs, level, sent, relSock, fault, late>>
      /\ UNCHANGED <<taskVars, main, msgs>>
  BY <1>1 DEF RelLoad, sockVars, sock
<1>3. /\ nqueue \in Seq(NetItem) /\ async \in BOOLEAN /\ refs \in [Conns -> 0 .. 2]
      /\ raced \subseteq Conns
      /\ relAt \in [Threads -> {"out", "load", "store", "check", "unlatch"}]
      /\ relSock \in [Threads -> Conns \cup {NoConn}]
      /\ relVal \in [Threads -> 0 .. 2]
      /\ NetThread \in Threads /\ Workers \subseteq Threads /\ NetThread \notin Workers
      /\ Threads = Workers \cup {NetThread}
      /\ NoConn \notin Conns
  BY ReleaseTypes
<1>4. relSock[a] = c /\ c \in Conns /\ Live
  BY <1>1, <1>2, Releaser DEF sock
<1>5. /\ relAt' \in [Threads -> {"out", "load", "store", "check", "unlatch"}]
      /\ relVal' \in [Threads -> 0 .. 2] /\ raced' \subseteq Conns
      /\ relAt'[a] = "store" /\ relVal'[a] = refs[c]
      /\ \A b \in Threads \ {a} : relAt'[b] = relAt[b] /\ relVal'[b] = relVal[b]
  BY <1>2, <1>3, <1>4
<1>6. \A b \in Threads, d \in Conns : Owes(b, d)' <=> Owes(b, d)
  BY <1>2, <1>4, <1>5 DEF Owes
<1>7. \A d \in Conns : /\ NetOwes(d)' <=> NetOwes(d)
                       /\ TaskOwes(d)' <=> TaskOwes(d)
  BY <1>2, <1>3, <1>6 DEF NetOwes, TaskOwes, ClosedDue, taskVars
<1>8. refs[c] \in 1 .. 2
  <2>1. Owes(a, c)
    BY <1>2, <1>4 DEF Owes
  <2>2. NetOwes(c) \/ TaskOwes(c)
    BY <1>3, <2>1 DEF NetOwes, TaskOwes
  <2>3. refs[c] # 0 /\ refs[c] \in 0 .. 2
    BY <1>3, <1>4, <2>2 DEF SocketInv, RefsCount
  <2>4. QED
    BY <2>3
<1>9. NetReleases'
  <2>1. \A b \in Threads : /\ relAt'[b] = "out" <=> relAt[b] = "out"
                           /\ relAt'[b] = "unlatch" => relAt[b] = "unlatch"
                           /\ relAt'[b] = "store" => relVal'[b] \in 1 .. 2
    BY <1>2, <1>5, <1>8 DEF SocketInv, NetReleases
  <2>2. \A b \in Threads : Ended(relSock[b]) => Ended(relSock[b])'
    BY <1>2 DEF Ended
  <2>3. QED
    BY <1>2, <1>3, <2>1, <2>2 DEF SocketInv, NetReleases
<1>10. RefsCount'
  <2>1. UNCHANGED <<life, refs, relSock>>
    BY <1>2
  <2>2. \A d \in Conns : NetOwes(d) /\ TaskOwes(d) => refs[d] = 2
    BY <1>4 DEF SocketInv, RefsCount
  <2>3. \A d \in Conns : relAt'[NetThread] = "store" /\ relSock[NetThread] = d /\ TaskOwes(d)
                           => relVal'[NetThread] = 2
    <3>1. CASE a = NetThread
      <4>1. Owes(a, c)
        BY <1>2, <1>4 DEF Owes
      <4>2. QED
        BY <1>4, <1>5, <2>2, <3>1, <4>1 DEF NetOwes
    <3>2. CASE a # NetThread
      BY <1>3, <1>4, <1>5, <3>2 DEF SocketInv, RefsCount
    <3>3. QED
      BY <3>1, <3>2
  <2>4. ASSUME NEW w \in Workers, NEW d \in Conns,
               relAt'[w] = "store", relSock[w] = d, NetOwes(d)
        PROVE  relVal'[w] = 2
    <3>1. CASE a = w
      <4>1. Owes(a, c)
        BY <1>2, <1>4 DEF Owes
      <4>2. QED
        BY <1>4, <1>5, <2>2, <2>4, <3>1, <4>1 DEF TaskOwes
    <3>2. CASE a # w
      BY <1>3, <1>4, <1>5, <2>4, <3>2 DEF SocketInv, RefsCount
    <3>3. QED
      BY <3>1, <3>2
  <2>5. \A d \in Conns : /\ life[d] = "open" => refs[d] = 2
                         /\ NetOwes(d) \/ TaskOwes(d) => refs[d] # 0
    BY <1>4 DEF SocketInv, RefsCount
  <2>6. QED
    BY <1>7, <2>1, <2>2, <2>3, <2>4, <2>5 DEF RefsCount
<1>11. \A kind : NoNewItem(kind)
  BY <1>2, NoneNewSame DEF NoNewItem
<1>12. FreesReleased'
  BY <1>2, <1>11, FreesKept DEF SocketInv, Live
<1>13. UNCHANGED <<nqueue, async, npc, refs, relSock>>
  BY <1>2
<1>14. \A w \in Workers : relAt'[w] # "out" => relAt[w] # "out" /\ relSock'[w] = relSock[w]
  BY <1>2, <1>3, <1>5
<1>15. QED
  BY <1>2, <1>3, <1>5, <1>9, <1>10, <1>11, <1>12, <1>13, <1>14, ReleaseStep

LEMMA RelStoreKeeps ==
  ASSUME SocketInv, fault = "none", NEW a \in Threads, RelStore(a),
         UNCHANGED <<taskVars, main, msgs>>
  PROVE  SocketInv'
<1> DEFINE sock == relSock[a]
<1>1. PICK c : c = sock
  OBVIOUS
<1> HIDE DEF sock
<1>2. /\ relAt[a] = "store"
      /\ refs' = [refs EXCEPT ![c] = relVal[a] - 1]
      /\ relAt' = [relAt EXCEPT ![a] = "check"]
      /\ relVal' = [relVal EXCEPT ![a] = 0]
      /\ UNCHANGED <<nqueue, async, npc, nstop, listener, life, fd, reading,
                     writing, bufs, level, sent, relSock, fault, late, raced>>
      /\ UNCHANGED <<taskVars, main, msgs>>
  BY <1>1 DEF RelStore, sock
<1>3. /\ nqueue \in Seq(NetItem) /\ async \in BOOLEAN /\ refs \in [Conns -> 0 .. 2]
      /\ raced \subseteq Conns
      /\ relAt \in [Threads -> {"out", "load", "store", "check", "unlatch"}]
      /\ relSock \in [Threads -> Conns \cup {NoConn}]
      /\ relVal \in [Threads -> 0 .. 2]
      /\ NetThread \in Threads /\ Workers \subseteq Threads /\ NetThread \notin Workers
      /\ Threads = Workers \cup {NetThread}
      /\ NoConn \notin Conns
  BY ReleaseTypes
<1>4. /\ relSock[a] = c /\ c \in Conns /\ Live /\ life[c] # "open"
      /\ relVal[a] \in 1 .. 2
  <2>1. relSock[a] = c /\ c \in Conns /\ Live /\ Ended(c)
    BY <1>1, <1>2, Releaser DEF sock
  <2>2. QED
    BY <1>2, <2>1 DEF SocketInv, NetReleases, Ended
<1>5. relVal[a] - 1 \in 0 .. 2
  BY <1>4
<1>6. /\ relAt' \in [Threads -> {"out", "load", "store", "check", "unlatch"}]
      /\ relVal' \in [Threads -> 0 .. 2] /\ refs' \in [Conns -> 0 .. 2]
      /\ relAt'[a] = "check" /\ refs'[c] = relVal[a] - 1
      /\ \A b \in Threads \ {a} : relAt'[b] = relAt[b] /\ relVal'[b] = relVal[b]
      /\ \A d \in Conns \ {c} : refs'[d] = refs[d]
  BY <1>2, <1>3, <1>4, <1>5
<1>7. /\ \A d \in Conns : /\ NetOwes(d)' => NetOwes(d)
                          /\ TaskOwes(d)' => TaskOwes(d)
      /\ a = NetThread => ~NetOwes(c)'
      /\ a \in Workers => ~TaskOwes(c)'
  <2>1. \A b \in Threads, d \in Conns : Owes(b, d)' => Owes(b, d) /\ b # a
    BY <1>2, <1>6 DEF Owes
  <2>2. \A d \in Conns : ClosedDue(d)' <=> ClosedDue(d)
    BY <1>2 DEF ClosedDue, taskVars
  <2>3. a \in Workers => ~ClosedDue(c) /\ \A v \in Workers \ {a} : ~Owes(v, c)
    BY <1>2, <1>4, OneReleaser DEF Owes
  <2>4. \A d \in Conns : /\ NetOwes(d)' => NetOwes(d)
                         /\ TaskOwes(d)' => TaskOwes(d)
    BY <1>2, <1>3, <2>1, <2>2 DEF NetOwes, TaskOwes
  <2>5. a = NetThread => ~NetOwes(c)'
    BY <1>2, <1>3, <1>4, <2>1 DEF NetOwes
  <2>6. a \in Workers => ~TaskOwes(c)'
    BY <1>2, <1>3, <1>4, <2>1, <2>2, <2>3 DEF TaskOwes
  <2>7. QED
    BY <2>4, <2>5, <2>6
<1>8. NetReleases'
  <2>1. \A b \in Threads : /\ relAt'[b] = "out" <=> relAt[b] = "out"
                           /\ relAt'[b] = "unlatch" => relAt[b] = "unlatch"
                           /\ relAt'[b] = "store" => relVal'[b] \in 1 .. 2
    BY <1>2, <1>6 DEF SocketInv, NetReleases
  <2>2. \A b \in Threads : Ended(relSock[b]) => Ended(relSock[b])'
    BY <1>2 DEF Ended
  <2>3. QED
    BY <1>2, <1>3, <2>1, <2>2 DEF SocketInv, NetReleases
<1>9. RefsCount'
  <2>1. a = NetThread /\ TaskOwes(c) => refs'[c] = 1
    <3>1. a = NetThread /\ TaskOwes(c) => relVal[a] = 2
      BY <1>2, <1>4 DEF SocketInv, RefsCount
    <3>2. QED
      BY <1>6, <3>1
  <2>2. a \in Workers /\ NetOwes(c) => refs'[c] = 1
    <3>1. a \in Workers /\ NetOwes(c) => relVal[a] = 2
      BY <1>2, <1>4 DEF SocketInv, RefsCount
    <3>2. QED
      BY <1>6, <3>1
  <2>3. \A d \in Conns : life'[d] = "open" => refs'[d] = 2
    BY <1>2, <1>4, <1>6 DEF SocketInv, RefsCount
  <2>4. \A d \in Conns : NetOwes(d)' \/ TaskOwes(d)' => refs'[d] # 0
    <3>1. NetOwes(c)' \/ TaskOwes(c)' => refs'[c] = 1
      <4>1. (NetOwes(c)' => NetOwes(c)) /\ (TaskOwes(c)' => TaskOwes(c))
        BY <1>4, <1>7
      <4>2. CASE a = NetThread
        BY <1>7, <2>1, <4>1, <4>2
      <4>3. CASE a \in Workers
        BY <1>7, <2>2, <4>1, <4>3
      <4>4. QED
        BY <1>3, <4>2, <4>3
    <3>2. \A d \in Conns \ {c} : NetOwes(d) \/ TaskOwes(d) => refs[d] # 0
      BY <1>4 DEF SocketInv, RefsCount
    <3>3. QED
      BY <1>6, <1>7, <3>1, <3>2
  <2>5. \A d \in Conns : NetOwes(d)' /\ TaskOwes(d)' => refs'[d] = 2
    <3>1. ~(NetOwes(c)' /\ TaskOwes(c)')
      BY <1>3, <1>7
    <3>2. \A d \in Conns \ {c} : NetOwes(d) /\ TaskOwes(d) => refs[d] = 2
      BY <1>4 DEF SocketInv, RefsCount
    <3>3. QED
      BY <1>6, <1>7, <3>1, <3>2
  <2>6. \A d \in Conns : relAt'[NetThread] = "store" /\ relSock'[NetThread] = d
                           /\ TaskOwes(d)' => relVal'[NetThread] = 2
    BY <1>2, <1>3, <1>4, <1>6, <1>7 DEF SocketInv, RefsCount
  <2>7. ASSUME NEW w \in Workers, NEW d \in Conns,
               relAt'[w] = "store", relSock'[w] = d, NetOwes(d)'
        PROVE  relVal'[w] = 2
    BY <1>2, <1>3, <1>4, <1>6, <1>7, <2>7 DEF SocketInv, RefsCount
  <2>8. QED
    BY <2>3, <2>4, <2>5, <2>6, <2>7 DEF RefsCount
<1>10. \A kind : NoNewItem(kind)
  BY <1>2, NoneNewSame DEF NoNewItem
<1>11. FreesReleased'
  <2>1. refs[c] # 0
    <3>1. Owes(a, c)
      BY <1>2, <1>4 DEF Owes
    <3>2. NetOwes(c) \/ TaskOwes(c)
      BY <1>3, <3>1 DEF NetOwes, TaskOwes
    <3>3. QED
      BY <1>4, <3>2 DEF SocketInv, RefsCount
  <2>2. UNCHANGED <<nqueue, life>> /\ \A d \in Conns : Ended(d)' <=> Ended(d)
    BY <1>2 DEF Ended
  <2>3. QED
    BY <1>4, <1>6, <2>1, <2>2 DEF SocketInv, FreesReleased
<1>12. UNCHANGED <<nqueue, async, npc, relSock, raced>>
  BY <1>2
<1>13. \A w \in Workers : relAt'[w] # "out" => relAt[w] # "out" /\ relSock'[w] = relSock[w]
  BY <1>2, <1>3, <1>6
<1>14. QED
  BY <1>2, <1>3, <1>6, <1>8, <1>9, <1>10, <1>11, <1>12, <1>13, ReleaseStep

\* The count is 0: the FREE item is queued.
LEMMA RelCheckKeeps ==
  ASSUME SocketInv, fault = "none", NEW a \in Threads, RelCheck(a),
         UNCHANGED <<taskVars, main, msgs>>
  PROVE  SocketInv'
<1> DEFINE sock == relSock[a]
<1>1. PICK c : c = sock
  OBVIOUS
<1> HIDE DEF sock
<1>2. /\ relAt[a] = "check"
      /\ \/ refs[c] = 0 /\ NetEnqueue(FreeItem(c))
         \/ UNCHANGED <<nqueue, async>>
      /\ \/ /\ a = NetThread /\ npc' = "loop"
            /\ relAt' = [relAt EXCEPT ![a] = "out"]
            /\ relSock' = [relSock EXCEPT ![a] = NoConn]
         \/ /\ a # NetThread
            /\ relAt' = [relAt EXCEPT ![a] = "unlatch"]
            /\ UNCHANGED <<npc, relSock>>
      /\ UNCHANGED <<nstop, listener, life, fd, refs, reading, writing, bufs, level,
                     sent, relVal, fault, late, raced>>
      /\ UNCHANGED <<taskVars, main, msgs>>
  BY <1>1 DEF RelCheck, FreeItem, sockVars, sock
<1>3. /\ nqueue \in Seq(NetItem) /\ async \in BOOLEAN /\ refs \in [Conns -> 0 .. 2]
      /\ raced \subseteq Conns
      /\ relAt \in [Threads -> {"out", "load", "store", "check", "unlatch"}]
      /\ relSock \in [Threads -> Conns \cup {NoConn}]
      /\ relVal \in [Threads -> 0 .. 2]
      /\ NetThread \in Threads /\ Workers \subseteq Threads /\ NetThread \notin Workers
      /\ Threads = Workers \cup {NetThread}
      /\ NoConn \notin Conns
  BY ReleaseTypes
<1>4. /\ relSock[a] = c /\ c \in Conns /\ Live /\ Ended(c)
      /\ a = NetThread => npc = "eof"
  BY <1>1, <1>2, Releaser DEF sock
<1>5. FreeItem(c) \in NetItem /\ FreeItem(c).kind = "free"
  BY <1>4 DEF NetItem, FreeItem
<1>6. /\ nqueue' \in Seq(NetItem) /\ async' \in BOOLEAN
      /\ \A kind : kind # "free" => NoNewItem(kind)
      /\ \A x \in Elements(nqueue') : x \in Elements(nqueue) \/ (x = FreeItem(c) /\ refs[c] = 0)
  <2>1. CASE refs[c] = 0 /\ NetEnqueue(FreeItem(c))
    BY <1>5, <2>1, NetEnqueueEffect DEF SocketInv
  <2>2. CASE UNCHANGED <<nqueue, async>>
    BY <1>3, <2>2, NoneNewSame DEF NoNewItem
  <2>3. QED
    BY <1>2, <2>1, <2>2
<1>7. /\ relAt' \in [Threads -> {"out", "load", "store", "check", "unlatch"}]
      /\ relSock' \in [Threads -> Conns \cup {NoConn}]
      /\ relAt'[a] = IF a = NetThread THEN "out" ELSE "unlatch"
      /\ relSock'[a] = IF a = NetThread THEN NoConn ELSE c
      /\ \A b \in Threads \ {a} : relAt'[b] = relAt[b] /\ relSock'[b] = relSock[b]
      /\ npc' = IF a = NetThread THEN "loop" ELSE npc
  BY <1>2, <1>3, <1>4
<1>8. NetReleases'
  <2>1. relAt'[NetThread] # "out" <=> npc' = "eof"
    BY <1>3, <1>7 DEF SocketInv, NetReleases
  <2>2. /\ relAt'[NetThread] # "unlatch"
        /\ \A b \in Threads : relAt'[b] = "out" <=> relSock'[b] = NoConn
    BY <1>3, <1>4, <1>7 DEF SocketInv, NetReleases
  <2>3. \A b \in Threads : relAt'[b] # "out" => relAt[b] # "out" /\ relSock'[b] = relSock[b]
    BY <1>2, <1>4, <1>7
  <2>4. \A b \in Threads : relAt'[b] # "out" => Ended(relSock[b])
    BY <2>3 DEF SocketInv, NetReleases
  <2>5. \A b \in Threads : relAt'[b] # "out" => Ended(relSock[b])'
    BY <1>2, <2>3, <2>4 DEF Ended
  <2>6. \A b \in Threads : relAt'[b] = "store" => relVal'[b] \in 1 .. 2
    BY <1>2, <1>7 DEF SocketInv, NetReleases
  <2>7. npc' = "eof" => life'[relSock'[NetThread]] # "freed"
    BY <1>2, <1>3, <1>7 DEF SocketInv, NetReleases
  <2>8. QED
    BY <2>1, <2>2, <2>5, <2>6, <2>7 DEF NetReleases
<1>9. RefsCount'
  <2>1. \A b \in Threads, d \in Conns : Owes(b, d)' => Owes(b, d)
    BY <1>2, <1>7 DEF Owes
  <2>2. \A d \in Conns : /\ NetOwes(d)' => NetOwes(d)
                         /\ TaskOwes(d)' => TaskOwes(d)
    BY <1>2, <1>3, <2>1 DEF NetOwes, TaskOwes, ClosedDue, taskVars
  <2>3. \A b \in Threads : relAt'[b] = "store" => relAt[b] = "store" /\ relSock'[b] = relSock[b]
    BY <1>7
  <2>4. QED
    BY <1>2, <1>3, <1>4, <2>2, <2>3 DEF SocketInv, RefsCount
<1>10. FreesReleased'
  <2>1. \A d \in Conns : FreeItem(d) \in Elements(nqueue') =>
          FreeItem(d) \in Elements(nqueue) \/ (d = c /\ refs[c] = 0)
    BY <1>6 DEF FreeItem
  <2>2. UNCHANGED <<life, refs>> /\ \A d \in Conns : Ended(d)' <=> Ended(d)
    BY <1>2 DEF Ended
  <2>3. QED
    BY <1>4, <2>1, <2>2 DEF SocketInv, FreesReleased
<1>11. UNCHANGED <<refs, relVal, raced>>
  BY <1>2
<1>12. \A w \in Workers : relAt'[w] # "out" => relAt[w] # "out" /\ relSock'[w] = relSock[w]
  BY <1>2, <1>3, <1>4, <1>7
<1>13. npc' \in {npc, "loop"} /\ (npc # "exited" \/ npc' = npc)
  BY <1>4, <1>7
<1>14. QED
  BY <1>2, <1>3, <1>6, <1>7, <1>8, <1>9, <1>10, <1>11, <1>12, <1>13, ReleaseStep

LEMMA RelUnlatchKeeps ==
  ASSUME SocketInv, fault = "none", NEW a \in Workers, RelUnlatch(a),
         UNCHANGED <<taskVars, main, msgs>>
  PROVE  SocketInv'
<1>1. /\ relAt[a] = "unlatch"
      /\ relAt' = [relAt EXCEPT ![a] = "out"]
      /\ relSock' = [relSock EXCEPT ![a] = NoConn]
      /\ UNCHANGED <<nqueue, async, npc, nstop, listener, life, fd, refs, reading,
                     writing, bufs, level, sent, relVal, fault, late, raced>>
      /\ UNCHANGED <<taskVars, main, msgs>>
  BY DEF RelUnlatch, sockVars
<1>2. /\ nqueue \in Seq(NetItem) /\ async \in BOOLEAN /\ refs \in [Conns -> 0 .. 2]
      /\ raced \subseteq Conns
      /\ relAt \in [Threads -> {"out", "load", "store", "check", "unlatch"}]
      /\ relSock \in [Threads -> Conns \cup {NoConn}]
      /\ relVal \in [Threads -> 0 .. 2]
      /\ NetThread \in Threads /\ Workers \subseteq Threads /\ NetThread \notin Workers
      /\ Threads = Workers \cup {NetThread}
      /\ NoConn \notin Conns
  BY ReleaseTypes
<1>3. Live
  BY <1>1, <1>2, Releaser
<1>4. /\ relAt' \in [Threads -> {"out", "load", "store", "check", "unlatch"}]
      /\ relSock' \in [Threads -> Conns \cup {NoConn}]
      /\ relAt'[a] = "out" /\ relSock'[a] = NoConn
      /\ \A b \in Threads \ {a} : relAt'[b] = relAt[b] /\ relSock'[b] = relSock[b]
  BY <1>1, <1>2
<1>5. NetReleases'
  <2>1. /\ relAt'[NetThread] # "out" <=> npc' = "eof"
        /\ relAt'[NetThread] # "unlatch"
    BY <1>1, <1>2, <1>4 DEF SocketInv, NetReleases
  <2>2. \A b \in Threads : relAt'[b] = "out" <=> relSock'[b] = NoConn
    BY <1>2, <1>4 DEF SocketInv, NetReleases
  <2>3. \A b \in Threads : relAt'[b] # "out" => relAt[b] # "out" /\ relSock'[b] = relSock[b]
    BY <1>4
  <2>4. \A b \in Threads : relAt'[b] # "out" => Ended(relSock[b])
    BY <2>3 DEF SocketInv, NetReleases
  <2>5. \A b \in Threads : relAt'[b] # "out" => Ended(relSock[b])'
    BY <1>1, <2>3, <2>4 DEF Ended
  <2>6. \A b \in Threads : relAt'[b] = "store" => relVal'[b] \in 1 .. 2
    BY <1>1, <1>4 DEF SocketInv, NetReleases
  <2>7. npc' = "eof" => life'[relSock'[NetThread]] # "freed"
    BY <1>1, <1>2, <1>4 DEF SocketInv, NetReleases
  <2>8. QED
    BY <2>1, <2>2, <2>5, <2>6, <2>7 DEF NetReleases
<1>6. RefsCount'
  <2>1. \A b \in Threads, d \in Conns : Owes(b, d)' => Owes(b, d)
    BY <1>4 DEF Owes
  <2>2. \A d \in Conns : /\ NetOwes(d)' => NetOwes(d)
                         /\ TaskOwes(d)' => TaskOwes(d)
    BY <1>1, <1>2, <2>1 DEF NetOwes, TaskOwes, ClosedDue, taskVars
  <2>3. \A b \in Threads : relAt'[b] = "store" => relAt[b] = "store" /\ relSock'[b] = relSock[b]
    BY <1>4
  <2>4. QED
    BY <1>1, <1>2, <1>3, <2>2, <2>3 DEF SocketInv, RefsCount
<1>7. \A kind : NoNewItem(kind)
  BY <1>1, NoneNewSame DEF NoNewItem
<1>8. FreesReleased'
  BY <1>1, <1>7, FreesKept DEF SocketInv, Live
<1>9. UNCHANGED <<nqueue, async, npc, refs, relVal, raced>>
  BY <1>1
<1>10. \A w \in Workers : relAt'[w] # "out" => relAt[w] # "out" /\ relSock'[w] = relSock[w]
  BY <1>2, <1>4
<1>11. QED
  BY <1>1, <1>2, <1>4, <1>5, <1>6, <1>7, <1>8, <1>9, <1>10, ReleaseStep

-----------------------------------------------------------------------------
(* The workers.                                                            *)

\* A worker in front of the queue.
LEMMA RestKeeps ==
  ASSUME SocketInv, fault = "none", NEW w \in Workers, Wait(w) \/ Exit(w),
         UNCHANGED <<main, msgs>>
  PROVE  SocketInv'
<1>1. /\ pc[w] \in {"ready", "woken"}
      /\ pc' = [pc EXCEPT ![w] = "waiting"] \/ pc' = [pc EXCEPT ![w] = "exited"]
      /\ UNCHANGED <<netVars, tqueue, task, tx, tries, stopFlag, hasty>>
  BY DEF Wait, Exit, AtQueue
<1>2. pc \in [Workers -> {"ready", "waiting", "woken", "running", "committing",
                          "releasing", "exited"}]
  BY DEF SocketInv, ServerTypeOK, TasksTypeOK
<1>3. pc' \in [Workers -> {"ready", "waiting", "woken", "running", "committing",
                           "releasing", "exited"}]
  BY <1>1, <1>2
<1>4. PcKept
  BY <1>1, <1>2 DEF PcKept, AtRest
<1>5. ServerTypeOK'
  <2>1. NetTypeOK'
    BY <1>1 DEF SocketInv, ServerTypeOK, NetTypeOK, netVars
  <2>2. TasksTypeOK'
    BY <1>1, <1>3 DEF SocketInv, ServerTypeOK, TasksTypeOK
  <2>3. QED
    BY <2>1, <2>2 DEF SocketInv, ServerTypeOK
<1>6. FaultsExplained'
  BY <1>1, FaultsKept DEF netVars
<1>7. TasksKept /\ ItemsKept
  BY <1>1, NoneNewSame DEF TasksKept, NoNewTask, ItemsKept, NoNewItem, netVars
<1>8. UNCHANGED <<life, refs, reading, npc, late, writing, listener>> /\ UNCHANGED relVars
  BY <1>1 DEF netVars, relVars
<1>9. QED
  BY <1>1, <1>4, <1>5, <1>6, <1>7, <1>8, QuietStep

\* What a worker takes off the queue.
LEMMA TaskTaken ==
  ASSUME SocketInv, tqueue # << >>, tqueue' = Tail(tqueue)
  PROVE  /\ Head(tqueue) \in Task /\ tqueue' \in Seq(Task)
         /\ \A kind : NoNewTask(kind)
         /\ Elements(tqueue') \subseteq Behind(tqueue, Head(tqueue))
         /\ Elements(tqueue) = Elements(tqueue') \cup {Head(tqueue)}
<1>1. tqueue \in Seq(Task) /\ IsSeq(tqueue)
  BY QueuesTyped DEF SocketInv, ServerTypeOK, TasksTypeOK
<1>2. Head(tqueue) \in Task
  BY <1>1
<1>3. tqueue' \in Seq(Task)
  BY <1>1
<1>4. \A kind : NoNewTask(kind)
  BY <1>1, NoneNewShorter DEF NoNewTask
<1>5. QED
  BY <1>1, <1>2, <1>3, <1>4, BehindShortened

LEMMA TakeInitKeeps ==
  ASSUME SocketInv, fault = "none", NEW w \in Workers, TakeInit(w), UNCHANGED <<main, msgs>>
  PROVE  SocketInv'
<1> DEFINE x == [kind |-> "new_listener"]
<1>1. /\ pc[w] \in {"ready", "woken"} /\ tqueue # << >> /\ Head(tqueue).kind = "init"
      /\ tqueue' = Tail(tqueue) /\ pc' = [pc EXCEPT ![w] = "ready"] /\ NetEnqueue(x)
      /\ UNCHANGED <<npc, nstop, listener, life, fd, refs, reading, writing, bufs, level,
                     sent, relVars, fault, late, raced, task, tx, tries, stopFlag, hasty>>
  BY DEF TakeInit, AtQueue, ObjInit, sockVars
<1>2. x \in NetItem /\ x.kind \notin ItemKinds
  BY DEF NetItem, ItemKinds
<1> HIDE DEF x
<1>3. nqueue' \in Seq(NetItem) /\ async' \in BOOLEAN /\ ItemsKept
  BY <1>1, <1>2, NetEnqueueEffect DEF SocketInv
<1>4. pc \in [Workers -> {"ready", "waiting", "woken", "running", "committing",
                          "releasing", "exited"}]
  BY DEF SocketInv, ServerTypeOK, TasksTypeOK
<1>5. /\ PcKept
      /\ pc' \in [Workers -> {"ready", "waiting", "woken", "running", "committing",
                              "releasing", "exited"}]
  BY <1>1, <1>4 DEF PcKept, AtRest
<1>6. /\ tqueue' \in Seq(Task)
      /\ \A kind : NoNewTask(kind)
      /\ Elements(tqueue) = Elements(tqueue') \cup {Head(tqueue)}
  BY <1>1, TaskTaken
<1>7. TasksKept
  BY <1>1, <1>6 DEF TasksKept, ClosedTask
<1>8. ServerTypeOK'
  <2>1. NetTypeOK'
    BY <1>1, <1>3 DEF SocketInv, ServerTypeOK, NetTypeOK, relVars
  <2>2. TasksTypeOK'
    BY <1>1, <1>5, <1>6 DEF SocketInv, ServerTypeOK, TasksTypeOK
  <2>3. QED
    BY <2>1, <2>2 DEF SocketInv, ServerTypeOK
<1>9. FaultsExplained'
  BY <1>1, FaultsKept
<1>10. QED
  BY <1>1, <1>3, <1>5, <1>7, <1>8, <1>9, QuietStep

\* A worker takes a task: for one of a kind that a connection has once, no
\* other is left; a `closed' task leaves the `read' tasks behind that other
\* workers have, and the history says so.
LEMMA TakeKeeps ==
  ASSUME SocketInv, fault = "none", NEW w \in Workers, Take(w), UNCHANGED <<main, msgs>>
  PROVE  SocketInv'
<1> DEFINE head == Head(tqueue)
<1>1. PICK x : x = head
  OBVIOUS
<1> HIDE DEF head
<1>2. /\ pc[w] \in {"ready", "woken"} /\ tqueue # << >> /\ x.kind # "init"
      /\ tqueue' = Tail(tqueue)
      /\ pc' = [pc EXCEPT ![w] = "running"]
      /\ task' = [task EXCEPT ![w] = x]
      /\ hasty' = IF x.kind = "closed" /\ Engaged(w, x.sock) THEN hasty \cup {x.sock} ELSE hasty
      /\ UNCHANGED <<netVars, tx, tries, stopFlag>>
  BY <1>1 DEF Take, AtQueue, head
<1>3. /\ x \in Task /\ tqueue' \in Seq(Task)
      /\ \A kind : NoNewTask(kind)
      /\ Elements(tqueue') \subseteq Behind(tqueue, x)
      /\ Elements(tqueue) = Elements(tqueue') \cup {x}
  BY <1>1, <1>2, TaskTaken DEF head
<1>4. /\ pc \in [Workers -> {"ready", "waiting", "woken", "running", "committing",
                             "releasing", "exited"}]
      /\ task \in [Workers -> Task \cup {NoTask}]
      /\ hasty \subseteq Conns
  BY DEF SocketInv, ServerTypeOK, TasksTypeOK
<1>5. /\ pc' \in [Workers -> {"ready", "waiting", "woken", "running", "committing",
                              "releasing", "exited"}]
      /\ task' \in [Workers -> Task \cup {NoTask}]
      /\ pc'[w] = "running" /\ task'[w] = x
      /\ \A v \in Workers \ {w} : pc'[v] = pc[v] /\ task'[v] = task[v]
  BY <1>2, <1>3, <1>4
<1>6. hasty' \subseteq Conns /\ hasty \subseteq hasty'
  BY <1>2, <1>3, <1>4, TaskShape
<1>7. ServerTypeOK'
  <2>1. NetTypeOK'
    BY <1>2 DEF SocketInv, ServerTypeOK, NetTypeOK, netVars
  <2>2. TasksTypeOK'
    BY <1>2, <1>3, <1>5, <1>6 DEF SocketInv, ServerTypeOK, TasksTypeOK
  <2>3. QED
    BY <2>1, <2>2 DEF SocketInv, ServerTypeOK
<1>8. /\ UNCHANGED <<nqueue, npc, listener, life, refs, reading, writing, late, fault>>
      /\ UNCHANGED relVars
  BY <1>2 DEF netVars, relVars
<1>9. Live /\ (Live' => Live) /\ \A c \in Conns : Ended(c)' <=> Ended(c)
  BY <1>2, <1>8, LiveThreads DEF Live, Ended
<1>10. \A kind : NoNewItem(kind)
  BY <1>8, NoneNewSame DEF NoNewItem
<1>11. task[w].kind = "none" /\ tx[w] = NtxNew /\ relAt[w] = "out"
  BY <1>2 DEF SocketInv, WorkersKeepTasks
<1>12. WorkersKeepTasks'
  <2>1. x.kind # "none" /\ x.kind # "init"
    BY <1>2, <1>3, TaskShape
  <2>2. UNCHANGED <<relAt, relSock, tx>>
    BY <1>2, <1>8 DEF relVars
  <2>3. QED
    BY <1>5, <1>11, <2>1, <2>2 DEF SocketInv, WorkersKeepTasks
<1>13. NetReleases'
  <2>1. relSock \in [Threads -> Conns \cup {NoConn}]
    BY DEF SocketInv, ServerTypeOK, NetTypeOK
  <2>2. QED
    BY <1>8, <1>9, <2>1, NetReleasesKept DEF SocketInv
<1>14. Shutdown'
  BY <1>2, <1>5, <1>8 DEF SocketInv, Shutdown
<1>15. ClosedOnce'
  <2>1. \A c \in Conns : ClosedTask(c) \in Elements(tqueue') =>
          ClosedTask(c) \in Behind(tqueue, ClosedTask(c)) \/ x # ClosedTask(c)
    BY <1>3
  <2>2. \A c \in Conns :
          /\ ClosedTask(c) \in Behind(tqueue', ClosedTask(c)) =>
               ClosedTask(c) \in Behind(tqueue, ClosedTask(c))
          /\ ClosedTask(c) \in Elements(tqueue') => ClosedTask(c) \in Elements(tqueue)
          /\ x = ClosedTask(c) => ClosedTask(c) \in Elements(tqueue)
    BY <1>3 DEF NoNewTask, NoneNew, ClosedTask
  <2>3. QED
    BY <1>5, <1>9, <2>1, <2>2 DEF SocketInv, ClosedOnce
<1>16. AcceptedOnce'
  <2>1. \A c \in Conns : AcceptTask(c) \in Elements(tqueue') =>
          AcceptTask(c) \in Behind(tqueue, AcceptTask(c)) \/ x # AcceptTask(c)
    BY <1>3
  <2>2. \A c \in Conns :
          /\ AcceptTask(c) \in Behind(tqueue', AcceptTask(c)) =>
               AcceptTask(c) \in Behind(tqueue, AcceptTask(c))
          /\ AcceptTask(c) \in Elements(tqueue') => AcceptTask(c) \in Elements(tqueue)
          /\ x = AcceptTask(c) => AcceptTask(c) \in Elements(tqueue)
    BY <1>3 DEF NoNewTask, NoneNew, AcceptTask
  <2>3. UNCHANGED <<life, reading, nqueue>>
    BY <1>8
  <2>4. QED
    BY <1>5, <1>9, <2>1, <2>2, <2>3 DEF SocketInv, AcceptedOnce
<1>17. RefsCount'
  <2>1. \A c \in Conns : ClosedDue(c)' => ClosedDue(c)
    <3>1. \A c \in Conns : ClosedTask(c) \in Elements(tqueue') \/ x = ClosedTask(c) =>
                             ClosedTask(c) \in Elements(tqueue)
      BY <1>3
    <3>2. QED
      BY <1>5, <3>1 DEF ClosedDue
  <2>2. QED
    BY <1>8, <1>9, <2>1, RefsKept DEF SocketInv
<1>18. FreesReleased'
  BY <1>8, <1>9, <1>10, FreesKept DEF SocketInv
<1>19. ReadsBeforeClosed'
  <2>1. ASSUME NEW c \in Conns, NEW y \in Behind(tqueue', ClosedTask(c))
        PROVE  ~ReadOf(y, c)
    BY <1>3, <1>9, <2>1 DEF SocketInv, ReadsBeforeClosed, NoNewTask, NoneNew, ReadOf
  <2>2. ASSUME NEW c \in Conns, Ended(c), ClosedTask(c) \notin Elements(tqueue')
        PROVE  /\ \A y \in Elements(tqueue') : ~ReadOf(y, c)
               /\ c \in hasty' \/ \A v \in Workers : ~ReadOf(task'[v], c)
    <3>1. CASE ClosedTask(c) \in Elements(tqueue)
      <4>1. x = ClosedTask(c)
        BY <1>3, <2>2, <3>1
      <4>2. x.kind = "closed" /\ x.sock = c
        BY <4>1 DEF ClosedTask
      <4>3. \A y \in Elements(tqueue') : ~ReadOf(y, c)
        BY <1>3, <1>9, <4>1 DEF SocketInv, ReadsBeforeClosed
      <4>4. ASSUME NEW v \in Workers, ReadOf(task'[v], c)
            PROVE  c \in hasty'
        <5>1. v # w
          BY <1>5, <4>2, <4>4 DEF ReadOf
        <5>2. task[v].kind = "read" /\ task[v].sock = c
          BY <1>5, <4>4, <5>1 DEF ReadOf
        <5>3. pc[v] \in {"running", "committing"}
          BY <1>4, <5>2 DEF SocketInv, WorkersKeepTasks
        <5>4. Engaged(w, c)
          BY <5>1, <5>2, <5>3 DEF Engaged
        <5>5. QED
          BY <1>2, <4>2, <5>4
      <4>5. QED
        BY <4>3, <4>4
    <3>2. CASE ClosedTask(c) \notin Elements(tqueue)
      <4>1. /\ \A y \in Elements(tqueue) : ~ReadOf(y, c)
            /\ c \in hasty \/ \A v \in Workers : ~ReadOf(task[v], c)
        BY <1>9, <2>2, <3>2 DEF SocketInv, ReadsBeforeClosed
      <4>2. QED
        BY <1>3, <1>5, <1>6, <4>1
    <3>3. QED
      BY <3>1, <3>2
  <2>3. QED
    BY <1>9, <2>1, <2>2 DEF ReadsBeforeClosed
<1>20. WritesBeforeFree' /\ LateWatcher' /\ FaultsExplained'
  BY <1>6, <1>8, <1>9, <1>10, WritesKept, WatcherKept, FaultsKept DEF SocketInv
<1>21. StopAsked'
  <2>1. \A y \in Elements(tqueue') : y \in Elements(tqueue)
    BY <1>3
  <2>2. main = "sleeping" => x.kind # "stop"
    BY <1>3 DEF SocketInv, StopAsked
  <2>3. QED
    BY <1>5, <1>8, <2>1, <2>2 DEF SocketInv, StopAsked
<1>22. QED
  BY <1>7, <1>12, <1>13, <1>14, <1>15, <1>16, <1>17, <1>18, <1>19, <1>20, <1>21 DEF SocketInv

\* A worker goes on with its task or is done with it; it may add to the
\* network thread's queue.
LEMMA WorkerStep ==
  ASSUME SocketInv, fault = "none", NEW w \in Workers, pc[w] # "exited",
         UNCHANGED <<npc, nstop, listener, sockVars, sent, relVars, fault, late, raced>>,
         UNCHANGED <<tqueue, hasty, main, msgs>>,
         nqueue' \in Seq(NetItem), async' \in BOOLEAN,
         tx' \in [Workers -> [ops : Seq(Data), last : 0 .. 1]],
         tries' \in [Workers -> 0 .. MaxRetries], stopFlag' \in BOOLEAN,
         \/ UNCHANGED <<pc, task>>
         \/ /\ pc' = [pc EXCEPT ![w] = "ready"]
            /\ task' = [task EXCEPT ![w] = NoTask]
         \/ /\ pc' = [pc EXCEPT ![w] = "committing"]
            /\ UNCHANGED task,
         NoNewItem("free"), WorkersKeepTasks', AcceptedOnce', WritesBeforeFree', StopAsked'
  PROVE  SocketInv'
<1>1. /\ pc \in [Workers -> {"ready", "waiting", "woken", "running", "committing",
                             "releasing", "exited"}]
      /\ task \in [Workers -> Task \cup {NoTask}]
  BY DEF SocketInv, ServerTypeOK, TasksTypeOK
<1>2. /\ pc' \in [Workers -> {"ready", "waiting", "woken", "running", "committing",
                              "releasing", "exited"}]
      /\ task' \in [Workers -> Task \cup {NoTask}]
  BY <1>1
<1>3. /\ NoneTaken
      /\ \A v \in Workers : /\ pc'[v] = "running" => pc[v] = "running"
                            /\ pc[v] = "exited" => pc'[v] = "exited"
  BY <1>1 DEF NoneTaken
<1>4. ServerTypeOK'
  <2>1. NetTypeOK'
    BY DEF SocketInv, ServerTypeOK, NetTypeOK, sockVars, relVars
  <2>2. TasksTypeOK'
    BY <1>2 DEF SocketInv, ServerTypeOK, TasksTypeOK
  <2>3. QED
    BY <2>1, <2>2 DEF SocketInv, ServerTypeOK
<1>5. UNCHANGED <<life, refs, writing, reading>> /\ \A kind : NoNewTask(kind)
  BY NoneNewSame DEF NoNewTask, sockVars
<1>6. (Live' => Live) /\ \A c \in Conns : Ended(c)' <=> Ended(c)
  BY <1>5 DEF Live, Ended
<1>7. NetReleases'
  <2>1. relSock \in [Threads -> Conns \cup {NoConn}]
    BY DEF SocketInv, ServerTypeOK, NetTypeOK
  <2>2. QED
    BY <1>5, <1>6, <2>1, NetReleasesKept DEF SocketInv
<1>8. Shutdown'
  BY <1>3 DEF SocketInv, Shutdown
<1>9. ClosedOnce'
  BY <1>3, <1>5, <1>6, ClosedKept DEF SocketInv
<1>10. RefsCount' /\ FreesReleased'
  BY <1>3, <1>5, <1>6, DueKept, RefsKept, FreesKept DEF SocketInv
<1>11. ReadsBeforeClosed'
  BY <1>3, <1>5, <1>6, ReadsKept DEF SocketInv
<1>12. LateWatcher' /\ FaultsExplained'
  BY <1>5, <1>6, WatcherKept, FaultsKept DEF SocketInv
<1>13. QED
  BY <1>4, <1>7, <1>8, <1>9, <1>10, <1>11, <1>12 DEF SocketInv

LEMMA WorkerTypes ==
  ASSUME SocketInv
  PROVE  /\ nqueue \in Seq(NetItem) /\ async \in BOOLEAN
         /\ pc \in [Workers -> {"ready", "waiting", "woken", "running", "committing",
                                "releasing", "exited"}]
         /\ task \in [Workers -> Task \cup {NoTask}]
         /\ tx \in [Workers -> [ops : Seq(Data), last : 0 .. 1]]
         /\ tries \in [Workers -> 0 .. MaxRetries] /\ 0 \in 0 .. MaxRetries
         /\ stopFlag \in BOOLEAN
  BY TasksAssumption DEF SocketInv, ServerTypeOK, NetTypeOK, TasksTypeOK

\* The parts that a worker's own step does not notice.
LEMMA OwnStep ==
  ASSUME SocketInv, NoneTaken, \A kind : NoNewTask(kind), UNCHANGED <<life, reading, main>>,
         UNCHANGED <<hasty, listener>>
  PROVE  /\ NoNewItem("init") => AcceptedOnce'
         /\ NoNewItem("write") => WritesBeforeFree'
         /\ NoNewItem("stop_listener") => StopAsked'
  BY AcceptedKept, WritesKept, StopKept DEF SocketInv, Live

\* `read' has written, or has not.
LEMMA EvalReadKeeps ==
  ASSUME SocketInv, fault = "none", NEW w \in Workers, NEW n \in 0 .. MaxWrites,
         EvalRead(w, n), UNCHANGED <<main, msgs>>
  PROVE  SocketInv'
<1> DEFINE left == Written(w, n)
<1>1. PICK r : r = left
  OBVIOUS
<1>2. /\ pc[w] = "running" /\ task[w].kind = "read"
      /\ tx' = [tx EXCEPT ![w] = r]
      /\ \/ /\ r.ops = << >>
            /\ pc' = [pc EXCEPT ![w] = "ready"]
            /\ task' = [task EXCEPT ![w] = NoTask]
            /\ tries' = [tries EXCEPT ![w] = 0]
         \/ /\ r.ops # << >>
            /\ pc' = [pc EXCEPT ![w] = "committing"]
            /\ UNCHANGED <<task, tries>>
      /\ UNCHANGED <<netVars, tqueue, stopFlag, hasty>>
  BY <1>1 DEF EvalRead, Finished
<1>3. /\ nqueue \in Seq(NetItem) /\ async \in BOOLEAN
      /\ pc \in [Workers -> {"ready", "waiting", "woken", "running", "committing",
                             "releasing", "exited"}]
      /\ task \in [Workers -> Task \cup {NoTask}]
      /\ tx \in [Workers -> [ops : Seq(Data), last : 0 .. 1]]
      /\ tries \in [Workers -> 0 .. MaxRetries] /\ 0 \in 0 .. MaxRetries
      /\ stopFlag \in BOOLEAN
  BY WorkerTypes
<1>4. task[w].sock \in Conns /\ task[w].msg \in 1 .. MaxMsgs
  <2>1. task[w] \in Task
    BY <1>2, <1>3 DEF NoTask
  <2>2. QED
    BY <1>2, <2>1, TaskShape
<1>5. tx[w] = NtxNew /\ relAt[w] = "out"
  BY <1>2 DEF SocketInv, WorkersKeepTasks
<1>6. /\ r \in [ops : Seq(Data), last : 0 .. 1]
      /\ r.ops = << >> => r = NtxNew
      /\ \A d \in Elements(r.ops) : d.sock = task[w].sock /\ d.msg = task[w].msg
  <2>1. n \in Nat
    BY NetAssumption
  <2>2. r = IF n = 0 THEN NtxNew
            ELSE [ops |-> IF n = 1 THEN <<Operation(w, 1)>>
                                   ELSE <<Operation(w, 1), Operation(w, n)>>,
                  last |-> 1]
    BY <1>1, <1>5, <2>1, WrittenIs
  <2> HIDE DEF left
  <2>3. CASE n = 0
    <3>1. r = [ops |-> << >>, last |-> 0]
      BY <2>2, <2>3 DEF NtxNew
    <3>2. Elements(<< >>) = {}
      BY EmptySequence
    <3>3. r \in [ops : Seq(Data), last : 0 .. 1] /\ r.ops = << >>
      BY <3>1
    <3>4. QED
      BY <3>1, <3>2, <3>3 DEF NtxNew
  <2>4. CASE n # 0
    <3>1. 1 \in 1 .. MaxWrites /\ n \in 1 .. MaxWrites
      BY <2>4, NetAssumption
    <3>2. PICK p, q \in Data : /\ p = Operation(w, 1) /\ q = Operation(w, n)
                               /\ p.sock = task[w].sock /\ p.msg = task[w].msg
                               /\ q.sock = task[w].sock /\ q.msg = task[w].msg
      <4>1. \A k \in 1 .. MaxWrites : /\ Operation(w, k) \in Data
                                      /\ Operation(w, k).sock = task[w].sock
                                      /\ Operation(w, k).msg = task[w].msg
        BY <1>4 DEF Operation, Data
      <4>2. QED
        BY <3>1, <4>1
    <3>3. r = [ops |-> <<p>>, last |-> 1] \/ r = [ops |-> <<p, q>>, last |-> 1]
      BY <2>2, <2>4, <3>2
    <3>4. /\ <<p>> \in Seq(Data) /\ <<p, q>> \in Seq(Data)
          /\ <<p>> # << >> /\ <<p, q>> # << >>
      OBVIOUS
    <3>5. Elements(<<p>>) \subseteq {p, q} /\ Elements(<<p, q>>) \subseteq {p, q}
      BY DEF Elements
    <3>6. CASE r = [ops |-> <<p>>, last |-> 1]
      BY <3>2, <3>4, <3>5, <3>6
    <3>7. CASE r = [ops |-> <<p, q>>, last |-> 1]
      BY <3>2, <3>4, <3>5, <3>7
    <3>8. QED
      BY <3>3, <3>6, <3>7
  <2>5. QED
    BY <2>3, <2>4
<1> HIDE DEF left
<1>7. tx' \in [Workers -> [ops : Seq(Data), last : 0 .. 1]]
  BY <1>2, <1>3, <1>6
<1>8. tries' \in [Workers -> 0 .. MaxRetries]
  BY <1>2, <1>3
<1>9. UNCHANGED <<nqueue, async, npc, nstop, listener, sockVars, sent, relVars, fault, late,
                  raced>>
  BY <1>2 DEF netVars, sockVars, relVars
<1>10. WorkersKeepTasks'
  <2>1. UNCHANGED <<relAt, relSock>>
    BY <1>9 DEF relVars
  <2>2. \A v \in Workers \ {w} : pc'[v] = pc[v] /\ task'[v] = task[v] /\ tx'[v] = tx[v]
    BY <1>2, <1>3
  <2>3. tx'[w] = r
    BY <1>2, <1>3
  <2>4. \/ r = NtxNew /\ pc'[w] = "ready" /\ task'[w] = NoTask
        \/ r.ops # << >> /\ pc'[w] = "committing" /\ task'[w] = task[w]
    BY <1>2, <1>3, <1>6
  <2>5. QED
    BY <1>2, <1>5, <1>6, <2>1, <2>2, <2>3, <2>4 DEF SocketInv, WorkersKeepTasks, NoTask
<1>11. NoneTaken /\ \A kind : NoNewTask(kind) /\ NoNewItem(kind)
  BY <1>2, <1>3, <1>9, NoneNewSame DEF NoneTaken, NoNewTask, NoNewItem
<1>12. AcceptedOnce' /\ WritesBeforeFree' /\ StopAsked'
  BY <1>2, <1>9, <1>11, OwnStep DEF sockVars
<1>13. QED
  BY <1>2, <1>3, <1>7, <1>8, <1>9, <1>10, <1>11, <1>12, WorkerStep

\* The evaluation fails and is tried again.
LEMMA RetryKeeps ==
  ASSUME SocketInv, fault = "none", NEW w \in Workers, NEW n \in 0 .. MaxWrites,
         Retry(w, n), UNCHANGED <<main, msgs>>
  PROVE  SocketInv'
<1>1. /\ pc[w] = "running" /\ tries[w] < MaxRetries
      /\ tries' = [tries EXCEPT ![w] = tries[w] + 1]
      /\ stopFlag' = (stopFlag \/ task[w].kind = "stop")
      /\ UNCHANGED <<netVars, tqueue, pc, task, hasty>>
  BY WorkerTypes DEF Retry
<1>2. tx' = [tx EXCEPT ![w] = NtxNew]
  BY DEF Retry, NtxRollback
<1>3. /\ nqueue \in Seq(NetItem) /\ async \in BOOLEAN
      /\ tx \in [Workers -> [ops : Seq(Data), last : 0 .. 1]]
      /\ tries \in [Workers -> 0 .. MaxRetries]
      /\ stopFlag \in BOOLEAN
  BY WorkerTypes
<1>4. tries' \in [Workers -> 0 .. MaxRetries]
  <2>1. tries[w] + 1 \in 0 .. MaxRetries
    BY <1>1, <1>3, TasksAssumption
  <2>2. QED
    BY <1>1, <1>3, <2>1
<1>5. tx[w] = NtxNew
  BY <1>1 DEF SocketInv, WorkersKeepTasks
<1>6. tx' = tx
  BY <1>2, <1>3, <1>5
<1>7. tx' \in [Workers -> [ops : Seq(Data), last : 0 .. 1]]
  BY <1>3, <1>6
<1>8. stopFlag' \in BOOLEAN
  BY <1>1, <1>3
<1>9. UNCHANGED <<nqueue, async, npc, nstop, listener, sockVars, sent, relVars, fault, late,
                  raced>>
  BY <1>1 DEF netVars, sockVars, relVars
<1>10. PcKept /\ UNCHANGED task
  BY <1>1 DEF PcKept
<1>11. WorkersKeepTasks'
  BY <1>6, <1>9, <1>10, WorkersKept DEF SocketInv, relVars
<1>12. NoneTaken /\ \A kind : NoNewTask(kind) /\ NoNewItem(kind)
  BY <1>1, <1>9, NoneNewSame DEF NoneTaken, NoNewTask, NoNewItem
<1>13. AcceptedOnce' /\ WritesBeforeFree' /\ StopAsked'
  BY <1>1, <1>9, <1>12, OwnStep DEF sockVars
<1>14. QED
  BY <1>1, <1>3, <1>4, <1>7, <1>8, <1>9, <1>11, <1>12, <1>13, WorkerStep

\* net_socket_write(): output queued behind the FREE item of its socket is
\* that of a task `closed' overtook.
LEMMA SendKeeps ==
  ASSUME SocketInv, fault = "none", NEW w \in Workers, Send(w), UNCHANGED <<main, msgs>>
  PROVE  SocketInv'
<1> DEFINE head == Head(tx[w].ops)
<1>1. PICK d : d = head
  OBVIOUS
<1> HIDE DEF head
<1>2. /\ pc[w] = "committing" /\ life[d.sock] # "freed"
      /\ NetEnqueue([kind |-> "write", sock |-> d.sock, data |-> d])
      /\ tx' = [tx EXCEPT ![w] = NtxRest(tx[w])]
      /\ \/ /\ Len(tx[w].ops) = 1
            /\ pc' = [pc EXCEPT ![w] = "ready"]
            /\ task' = [task EXCEPT ![w] = NoTask]
            /\ tries' = [tries EXCEPT ![w] = 0]
         \/ Len(tx[w].ops) # 1 /\ UNCHANGED <<pc, task, tries>>
      /\ UNCHANGED <<npc, nstop, listener, sockVars, sent, relVars, fault, late,
                     raced, tqueue, stopFlag, hasty>>
  BY <1>1, WorkerTypes DEF Send, Finished, head
<1>3. /\ nqueue \in Seq(NetItem) /\ async \in BOOLEAN
      /\ pc \in [Workers -> {"ready", "waiting", "woken", "running", "committing",
                             "releasing", "exited"}]
      /\ task \in [Workers -> Task \cup {NoTask}]
      /\ tx \in [Workers -> [ops : Seq(Data), last : 0 .. 1]]
      /\ tries \in [Workers -> 0 .. MaxRetries] /\ 0 \in 0 .. MaxRetries
      /\ stopFlag \in BOOLEAN
  BY WorkerTypes
<1>4. /\ task[w].kind = "read" /\ task[w].sock \in Conns
      /\ tx[w].ops \in Seq(Data) /\ tx[w].ops # << >> /\ IsSeq(tx[w].ops)
      /\ d \in Data /\ d.sock = task[w].sock
  BY <1>1, <1>2, NextOperation DEF head
<1>5. PICK c \in Conns : c = d.sock /\ c = task[w].sock
  BY <1>4
<1> DEFINE x == [kind |-> "write", sock |-> d.sock, data |-> d]
<1>6. x \in NetItem /\ x.kind = "write" /\ x.sock = c
  BY <1>4, <1>5 DEF NetItem
<1>7. NetEnqueue(x)
  BY <1>2
<1> HIDE DEF x
<1>8. /\ nqueue' \in Seq(NetItem) /\ async' \in BOOLEAN
      /\ Elements(nqueue') = Elements(nqueue) \cup {x}
      /\ \A y : Behind(nqueue', y) = Behind(nqueue, y)
                  \cup (IF y \in Elements(nqueue) THEN {x} ELSE {})
      /\ NoNewItem("free") /\ NoNewItem("init") /\ NoNewItem("stop_listener")
  BY <1>6, <1>7, NetEnqueueEffect DEF SocketInv
<1>9. Live /\ life[c] # "freed" /\ ReadOf(task[w], c)
  BY <1>2, <1>4, <1>5, LiveThreads DEF ReadOf
<1> DEFINE r == NtxRest(tx[w])
<1>10. /\ r \in [ops : Seq(Data), last : 0 .. 1]
       /\ Len(tx[w].ops) = 1 => r = NtxNew
       /\ Len(tx[w].ops) # 1 => /\ r.ops # << >>
                                /\ Elements(r.ops) \subseteq Elements(tx[w].ops)
  <2>1. CASE Len(tx[w].ops) = 1
    <3>1. r = [ops |-> << >>, last |-> 0]
      BY <2>1 DEF NtxRest, NtxNew
    <3>2. QED
      BY <2>1, <3>1 DEF NtxNew
  <2>2. CASE Len(tx[w].ops) # 1
    <3>1. r = [tx[w] EXCEPT !.ops = Tail(tx[w].ops)]
      BY <1>3, <2>2 DEF NtxRest
    <3>2. Tail(tx[w].ops) \in Seq(Data)
      BY <1>4
    <3>3. /\ Tail(tx[w].ops) # << >>
          /\ Elements(Tail(tx[w].ops)) \subseteq Elements(tx[w].ops)
      BY <1>4, <2>2, Shortened
    <3> HIDE DEF r
    <3>4. r \in [ops : Seq(Data), last : 0 .. 1] /\ r.ops = Tail(tx[w].ops)
      BY <1>3, <3>1, <3>2
    <3>5. QED
      BY <2>2, <3>3, <3>4
  <2>3. QED
    BY <2>1, <2>2
<1>11. tx' = [tx EXCEPT ![w] = r]
  BY <1>2
<1> HIDE DEF r
<1>12. /\ tx' \in [Workers -> [ops : Seq(Data), last : 0 .. 1]] /\ tx'[w] = r
       /\ \A v \in Workers \ {w} : tx'[v] = tx[v]
  BY <1>3, <1>10, <1>11
<1>13. tries' \in [Workers -> 0 .. MaxRetries]
  BY <1>2, <1>3
<1>14. WorkersKeepTasks'
  <2>1. UNCHANGED <<relAt, relSock>>
    BY <1>2 DEF relVars
  <2>2. \A v \in Workers \ {w} : pc'[v] = pc[v] /\ task'[v] = task[v]
    BY <1>2, <1>3
  <2>3. relAt[w] = "out"
    BY <1>2 DEF SocketInv, WorkersKeepTasks
  <2>4. \A e \in Elements(tx[w].ops) : e.sock = task[w].sock /\ e.msg = task[w].msg
    BY <1>2 DEF SocketInv, WorkersKeepTasks
  <2>5. \/ r = NtxNew /\ pc'[w] = "ready" /\ task'[w] = NoTask
        \/ /\ r.ops # << >> /\ Elements(r.ops) \subseteq Elements(tx[w].ops)
           /\ pc'[w] = "committing" /\ task'[w] = task[w]
    BY <1>2, <1>3, <1>10
  <2>6. ASSUME NEW v \in Workers, pc'[v] = "committing"
        PROVE  /\ task'[v].kind = "read" /\ tx'[v].ops # << >>
               /\ \A e \in Elements(tx'[v].ops) :
                    e.sock = task'[v].sock /\ e.msg = task'[v].msg
    <3>1. CASE v = w
      <4>1. /\ r.ops # << >> /\ task'[w] = task[w]
            /\ Elements(r.ops) \subseteq Elements(tx[w].ops)
        BY <2>5, <2>6, <3>1
      <4>2. \A e \in Elements(r.ops) : e.sock = task[w].sock /\ e.msg = task[w].msg
        BY <2>4, <4>1
      <4>3. tx'[v] = r /\ task'[v] = task[w]
        BY <1>12, <3>1, <4>1
      <4>4. QED
        BY <1>4, <4>1, <4>2, <4>3
    <3>2. CASE v # w
      <4>1. pc[v] = "committing" /\ tx'[v] = tx[v] /\ task'[v] = task[v]
        BY <1>12, <2>2, <2>6, <3>2
      <4>2. /\ task[v].kind = "read" /\ tx[v].ops # << >>
            /\ \A e \in Elements(tx[v].ops) : e.sock = task[v].sock /\ e.msg = task[v].msg
        BY <4>1 DEF SocketInv, WorkersKeepTasks
      <4>3. QED
        BY <4>1, <4>2
    <3>3. QED
      BY <3>1, <3>2
  <2>7. \A v \in Workers : pc'[v] # "committing" => tx'[v] = NtxNew
    BY <1>12, <2>2, <2>5 DEF SocketInv, WorkersKeepTasks
  <2>8. \A v \in Workers :
          /\ task'[v].kind = "none" <=> pc'[v] \in {"ready", "waiting", "woken", "exited"}
          /\ task'[v].kind # "init"
          /\ pc'[v] = "releasing" => task'[v].kind = "closed"
          /\ relAt'[v] # "out" => pc'[v] = "releasing" /\ relSock'[v] = task'[v].sock
    BY <1>4, <2>1, <2>2, <2>3, <2>5 DEF SocketInv, WorkersKeepTasks, NoTask
  <2>9. QED
    BY <2>6, <2>7, <2>8 DEF WorkersKeepTasks
<1>15. NoneTaken /\ \A kind : NoNewTask(kind)
  BY <1>2, <1>3, NoneNewSame DEF NoneTaken, NoNewTask
<1>16. AcceptedOnce' /\ StopAsked'
  BY <1>2, <1>8, <1>15, OwnStep DEF sockVars
<1>17. WritesBeforeFree'
  <2>1. FreeItem(c) \in Elements(nqueue) => c \in hasty
    BY <1>9, NobodyRefers
  <2>2. \A e \in Conns : WriteTo(x, e) => e = c
    BY <1>6 DEF WriteTo
  <2>3. UNCHANGED <<life, hasty>>
    BY <1>2 DEF sockVars
  <2>4. ASSUME NEW e \in Conns, e \notin hasty
        PROVE  \A y \in Behind(nqueue', FreeItem(e)) : ~WriteTo(y, e)
    <3>1. \A y \in Behind(nqueue, FreeItem(e)) : ~WriteTo(y, e)
      BY <1>9, <2>4 DEF SocketInv, WritesBeforeFree
    <3>2. FreeItem(e) \in Elements(nqueue) => ~WriteTo(x, e)
      BY <2>1, <2>2, <2>4
    <3>3. QED
      BY <1>8, <3>1, <3>2
  <2>5. ASSUME NEW e \in Conns, e \notin hasty, life[e] = "freed"
        PROVE  \A y \in Elements(nqueue') : ~WriteTo(y, e)
    <3>1. \A y \in Elements(nqueue) : ~WriteTo(y, e)
      BY <1>9, <2>5 DEF SocketInv, WritesBeforeFree
    <3>2. QED
      BY <1>8, <1>9, <2>2, <2>5, <3>1
  <2>6. QED
    BY <2>3, <2>4, <2>5 DEF WritesBeforeFree
<1>18. \/ UNCHANGED <<pc, task>>
       \/ /\ pc' = [pc EXCEPT ![w] = "ready"]
          /\ task' = [task EXCEPT ![w] = NoTask]
  BY <1>2
<1>19. UNCHANGED <<npc, nstop, listener, sockVars, sent, relVars, fault, late, raced>>
       /\ UNCHANGED <<tqueue, hasty, main, msgs>> /\ stopFlag' \in BOOLEAN
  BY <1>2, <1>3
<1>20. QED
  BY <1>2, <1>8, <1>12, <1>13, <1>14, <1>16, <1>17, <1>18, <1>19, WorkerStep

\* A worker that ends a task which has written nothing.
LEMMA DoneKeepsTasks ==
  ASSUME SocketInv, NEW w \in Workers, pc[w] # "committing", relAt[w] = "out",
         UNCHANGED tx, UNCHANGED relVars, Finished(w)
  PROVE  /\ WorkersKeepTasks' /\ NoneTaken
         /\ tries' \in [Workers -> 0 .. MaxRetries]
<1>1. /\ pc' = [pc EXCEPT ![w] = "ready"]
      /\ task' = [task EXCEPT ![w] = NoTask]
      /\ tries' = [tries EXCEPT ![w] = 0]
  BY DEF Finished
<1>2. /\ pc \in [Workers -> {"ready", "waiting", "woken", "running", "committing",
                             "releasing", "exited"}]
      /\ task \in [Workers -> Task \cup {NoTask}]
      /\ tries \in [Workers -> 0 .. MaxRetries] /\ 0 \in 0 .. MaxRetries
  BY WorkerTypes
<1>3. /\ pc'[w] = "ready" /\ task'[w] = NoTask
      /\ \A v \in Workers \ {w} : pc'[v] = pc[v] /\ task'[v] = task[v]
  BY <1>1, <1>2
<1>4. tries' \in [Workers -> 0 .. MaxRetries]
  BY <1>1, <1>2
<1>5. WorkersKeepTasks'
  BY <1>3 DEF SocketInv, WorkersKeepTasks, NoTask, relVars
<1>6. QED
  BY <1>3, <1>4, <1>5 DEF NoneTaken

\* The INIT item follows the `accept' task.
LEMMA EvalAcceptKeeps ==
  ASSUME SocketInv, fault = "none", NEW w \in Workers, EvalAccept(w), UNCHANGED <<main, msgs>>
  PROVE  SocketInv'
<1>1. /\ pc[w] = "running" /\ task[w].kind = "accept"
      /\ NetEnqueue(InitItem(task[w].sock)) /\ Finished(w)
      /\ UNCHANGED <<npc, nstop, listener, sockVars, sent, relVars, fault, late,
                     raced, tqueue, tx, stopFlag, hasty>>
  BY DEF EvalAccept, ObjAccept, InitItem
<1>2. task[w] \in Task
  BY <1>1, WorkerTypes DEF NoTask
<1>3. PICK c \in Conns : c = task[w].sock /\ task[w] = AcceptTask(c)
  BY <1>1, <1>2, TaskShape
<1>4. Live /\ relAt[w] = "out"
  BY <1>1, LiveThreads DEF SocketInv, WorkersKeepTasks
<1>5. InitItem(c) \in NetItem /\ InitItem(c).kind = "init"
  BY <1>3 DEF NetItem, InitItem
<1>6. NetEnqueue(InitItem(c))
  BY <1>1, <1>3
<1>7. /\ nqueue' \in Seq(NetItem) /\ async' \in BOOLEAN
      /\ Elements(nqueue') = Elements(nqueue) \cup {InitItem(c)}
      /\ \A y : Behind(nqueue', y) = Behind(nqueue, y)
                  \cup (IF y \in Elements(nqueue) THEN {InitItem(c)} ELSE {})
      /\ NoNewItem("free") /\ NoNewItem("write") /\ NoNewItem("stop_listener")
  BY <1>5, <1>6, NetEnqueueEffect DEF SocketInv
<1>8. WorkersKeepTasks' /\ NoneTaken /\ tries' \in [Workers -> 0 .. MaxRetries]
  BY <1>1, <1>4, DoneKeepsTasks
<1>9. \A kind : NoNewTask(kind)
  BY <1>1, NoneNewSame DEF NoNewTask
<1>10. WritesBeforeFree' /\ StopAsked'
  BY <1>1, <1>7, <1>8, <1>9, OwnStep DEF sockVars
<1>11. AcceptedOnce'
  <2>1. /\ life[c] = "open" /\ ~reading[c]
        /\ InitItem(c) \notin Elements(nqueue)
        /\ AcceptTask(c) \notin Elements(tqueue)
        /\ \A v \in Workers : task[v] = AcceptTask(c) => v = w
    BY <1>3, <1>4 DEF SocketInv, AcceptedOnce
  <2>2. InitItem(c) \notin Behind(nqueue', InitItem(c))
    BY <1>7, <2>1, BehindElements
  <2>3. \A d \in Conns \ {c} :
          /\ InitItem(d) \in Elements(nqueue') => InitItem(d) \in Elements(nqueue)
          /\ InitItem(d) \in Behind(nqueue', InitItem(d)) =>
               InitItem(d) \in Behind(nqueue, InitItem(d))
    BY <1>7 DEF InitItem
  <2>4. \A v \in Workers : task'[v] # AcceptTask(c)
    <3>1. task'[w] = NoTask
      BY <1>1, WorkerTypes DEF Finished
    <3>2. AcceptTask(c) # NoTask
      BY DEF AcceptTask, NoTask
    <3>3. QED
      BY <1>8, <2>1, <3>1, <3>2 DEF NoneTaken
  <2>5. \A v \in Workers, d \in Conns : task'[v] = AcceptTask(d) => task[v] = AcceptTask(d)
    BY <1>8 DEF NoneTaken, AcceptTask, NoTask
  <2>6. UNCHANGED <<life, reading, tqueue>>
    BY <1>1 DEF sockVars
  <2>7. QED
    BY <1>4, <2>1, <2>2, <2>3, <2>4, <2>5, <2>6 DEF SocketInv, AcceptedOnce
<1>12. /\ pc' = [pc EXCEPT ![w] = "ready"]
       /\ task' = [task EXCEPT ![w] = NoTask]
  BY <1>1 DEF Finished
<1>13. UNCHANGED <<npc, nstop, listener, sockVars, sent, relVars, fault, late, raced>>
       /\ UNCHANGED <<tqueue, hasty, main, msgs>> /\ stopFlag' \in BOOLEAN
       /\ tx' \in [Workers -> [ops : Seq(Data), last : 0 .. 1]]
  BY <1>1, WorkerTypes
<1>14. QED
  BY <1>1, <1>7, <1>8, <1>10, <1>11, <1>12, <1>13, WorkerStep

\* `shutdown': main() has asked for it.
LEMMA EvalStopKeeps ==
  ASSUME SocketInv, fault = "none", NEW w \in Workers, EvalStop(w), UNCHANGED <<main, msgs>>
  PROVE  SocketInv'
<1> DEFINE x == [kind |-> "stop_listener"]
<1>1. /\ pc[w] = "running" /\ task[w].kind = "stop"
      /\ NetEnqueue(x) /\ stopFlag' = TRUE /\ Finished(w)
      /\ UNCHANGED <<npc, nstop, listener, sockVars, sent, relVars, fault, late,
                     raced, tqueue, tx, hasty>>
  BY DEF EvalStop, ObjShutdown
<1>2. x \in NetItem /\ x.kind = "stop_listener"
  BY DEF NetItem
<1> HIDE DEF x
<1>3. /\ nqueue' \in Seq(NetItem) /\ async' \in BOOLEAN
      /\ NoNewItem("free") /\ NoNewItem("write") /\ NoNewItem("init")
  BY <1>1, <1>2, NetEnqueueEffect DEF SocketInv
<1>4. relAt[w] = "out" /\ main # "sleeping"
  BY <1>1 DEF SocketInv, WorkersKeepTasks, StopAsked
<1>5. WorkersKeepTasks' /\ NoneTaken /\ tries' \in [Workers -> 0 .. MaxRetries]
  BY <1>1, <1>4, DoneKeepsTasks
<1>6. \A kind : NoNewTask(kind)
  BY <1>1, NoneNewSame DEF NoNewTask
<1>7. AcceptedOnce' /\ WritesBeforeFree' /\ StopAsked'
  BY <1>1, <1>3, <1>4, <1>5, <1>6, OwnStep DEF sockVars, StopAsked
<1>8. /\ pc' = [pc EXCEPT ![w] = "ready"]
      /\ task' = [task EXCEPT ![w] = NoTask]
  BY <1>1 DEF Finished
<1>9. UNCHANGED <<npc, nstop, listener, sockVars, sent, relVars, fault, late, raced>>
      /\ UNCHANGED <<tqueue, hasty, main, msgs>> /\ stopFlag' \in BOOLEAN
      /\ tx' \in [Workers -> [ops : Seq(Data), last : 0 .. 1]]
  BY <1>1, WorkerTypes
<1>10. QED
  BY <1>1, <1>3, <1>5, <1>7, <1>8, <1>9, WorkerStep

LEMMA ReleasedKeeps ==
  ASSUME SocketInv, fault = "none", NEW w \in Workers, Released(w), UNCHANGED <<main, msgs>>
  PROVE  SocketInv'
<1>1. /\ pc[w] = "releasing" /\ relAt[w] = "out" /\ Finished(w)
      /\ UNCHANGED <<netVars, tqueue, tx, stopFlag, hasty>>
  BY DEF Released
<1>2. UNCHANGED <<nqueue, async, npc, nstop, listener, sockVars, sent, relVars, fault, late,
                  raced>>
  BY <1>1 DEF netVars, sockVars, relVars
<1>3. WorkersKeepTasks' /\ NoneTaken /\ tries' \in [Workers -> 0 .. MaxRetries]
  BY <1>1, <1>2, DoneKeepsTasks
<1>4. \A kind : NoNewTask(kind) /\ NoNewItem(kind)
  BY <1>1, <1>2, NoneNewSame DEF NoNewTask, NoNewItem
<1>5. AcceptedOnce' /\ WritesBeforeFree' /\ StopAsked'
  BY <1>1, <1>2, <1>3, <1>4, OwnStep DEF sockVars
<1>6. /\ pc' = [pc EXCEPT ![w] = "ready"]
      /\ task' = [task EXCEPT ![w] = NoTask]
  BY <1>1 DEF Finished
<1>7. UNCHANGED <<tqueue, hasty, main, msgs>> /\ stopFlag' \in BOOLEAN
      /\ tx' \in [Workers -> [ops : Seq(Data), last : 0 .. 1]]
      /\ nqueue' \in Seq(NetItem) /\ async' \in BOOLEAN
  BY <1>1, <1>2, WorkerTypes
<1>8. QED
  BY <1>1, <1>2, <1>3, <1>4, <1>5, <1>6, <1>7, WorkerStep

\* `closed': what the task owed the worker now owes.
LEMMA EvalClosedKeeps ==
  ASSUME SocketInv, fault = "none", NEW w \in Workers, EvalClosed(w), UNCHANGED <<main, msgs>>
  PROVE  SocketInv'
<1>1. /\ pc[w] = "running" /\ task[w].kind = "closed"
      /\ pc' = [pc EXCEPT ![w] = "releasing"]
      /\ relAt' = [relAt EXCEPT ![w] = "load"]
      /\ relSock' = [relSock EXCEPT ![w] = task[w].sock]
      /\ UNCHANGED <<nqueue, async, npc, nstop, listener, life, fd, refs, reading,
                     writing, bufs, level, sent, relVal, fault, late, raced>>
      /\ UNCHANGED <<tqueue, task, tx, tries, stopFlag, hasty>>
  BY DEF EvalClosed, ObjClosed, sockVars
<1>2. /\ pc \in [Workers -> {"ready", "waiting", "woken", "running", "committing",
                             "releasing", "exited"}]
      /\ task \in [Workers -> Task \cup {NoTask}]
  BY WorkerTypes
<1>3. PICK c \in Conns : c = task[w].sock /\ task[w] = ClosedTask(c)
  <2>1. task[w] \in Task
    BY <1>1, <1>2 DEF NoTask
  <2>2. QED
    BY <1>1, <2>1, TaskShape
<1>4. Live /\ Ended(c) /\ relAt[w] = "out" /\ (Live' => Live)
  BY <1>1, <1>3, LiveThreads DEF SocketInv, WorkersKeepTasks, ClosedOnce, Live
<1>5. /\ relAt \in [Threads -> {"out", "load", "store", "check", "unlatch"}]
      /\ relSock \in [Threads -> Conns \cup {NoConn}]
      /\ NetThread \in Threads /\ Workers \subseteq Threads /\ NetThread \notin Workers
      /\ Threads = Workers \cup {NetThread}
      /\ NoConn \notin Conns
  BY ReleaseTypes
<1>6. /\ relAt' \in [Threads -> {"out", "load", "store", "check", "unlatch"}]
      /\ relSock' \in [Threads -> Conns \cup {NoConn}]
      /\ relAt'[w] = "load" /\ relSock'[w] = c
      /\ \A b \in Threads \ {w} : relAt'[b] = relAt[b] /\ relSock'[b] = relSock[b]
  BY <1>1, <1>3, <1>5
<1>7. /\ pc' \in [Workers -> {"ready", "waiting", "woken", "running", "committing",
                              "releasing", "exited"}]
      /\ pc'[w] = "releasing" /\ \A v \in Workers \ {w} : pc'[v] = pc[v]
  BY <1>1, <1>2
<1>8. ServerTypeOK'
  <2>1. NetTypeOK'
    BY <1>1, <1>6 DEF SocketInv, ServerTypeOK, NetTypeOK
  <2>2. TasksTypeOK'
    BY <1>1, <1>7 DEF SocketInv, ServerTypeOK, TasksTypeOK
  <2>3. QED
    BY <2>1, <2>2 DEF SocketInv, ServerTypeOK
<1>9. /\ NoneTaken /\ \A kind : NoNewTask(kind) /\ NoNewItem(kind)
      /\ \A v \in Workers : pc'[v] = "running" => pc[v] = "running"
      /\ \A d \in Conns : Ended(d)' <=> Ended(d)
  BY <1>1, <1>7, NoneNewSame DEF NoneTaken, NoNewTask, NoNewItem, Ended
<1>10. WorkersKeepTasks'
  <2>1. \A v \in Workers \ {w} : relAt'[v] = relAt[v] /\ relSock'[v] = relSock[v]
    BY <1>5, <1>6
  <2>2. UNCHANGED <<task, tx>>
    BY <1>1
  <2>3. task[w].kind = "closed" /\ task[w].sock = c /\ tx[w] = NtxNew
    BY <1>1, <1>3 DEF SocketInv, WorkersKeepTasks
  <2>4. ASSUME NEW v \in Workers
        PROVE  /\ pc'[v] = "committing" => /\ task[v].kind = "read" /\ tx[v].ops # << >>
                                          /\ \A d \in Elements(tx[v].ops) :
                                               d.sock = task[v].sock /\ d.msg = task[v].msg
               /\ pc'[v] # "committing" => tx[v] = NtxNew
    <3>1. pc'[v] = "committing" => pc[v] = "committing"
      BY <1>7
    <3>2. pc'[v] # "committing" => pc[v] # "committing"
      BY <1>1, <1>7
    <3>3. QED
      BY <3>1, <3>2 DEF SocketInv, WorkersKeepTasks
  <2>5. \A v \in Workers :
          /\ task[v].kind = "none" <=> pc'[v] \in {"ready", "waiting", "woken", "exited"}
          /\ task[v].kind # "init"
          /\ pc'[v] = "releasing" => task[v].kind = "closed"
          /\ relAt'[v] # "out" => pc'[v] = "releasing" /\ relSock'[v] = task[v].sock
    BY <1>6, <1>7, <2>1, <2>3 DEF SocketInv, WorkersKeepTasks
  <2>6. QED
    BY <2>2, <2>4, <2>5 DEF WorkersKeepTasks
<1>11. NetReleases'
  <2>1. /\ relAt'[NetThread] # "out" <=> npc' = "eof"
        /\ relAt'[NetThread] # "unlatch"
    BY <1>1, <1>5, <1>6 DEF SocketInv, NetReleases
  <2>2. \A b \in Threads : relAt'[b] = "out" <=> relSock'[b] = NoConn
    BY <1>5, <1>6 DEF SocketInv, NetReleases
  <2>3. \A b \in Threads : relAt'[b] # "out" => Ended(relSock'[b])
    BY <1>4, <1>5, <1>6 DEF SocketInv, NetReleases
  <2>4. \A b \in Threads : relAt'[b] # "out" => Ended(relSock[b])'
    BY <1>1, <2>3 DEF Ended
  <2>5. \A b \in Threads : relAt'[b] = "store" => relVal'[b] \in 1 .. 2
    BY <1>1, <1>6 DEF SocketInv, NetReleases
  <2>6. npc' = "eof" => life'[relSock'[NetThread]] # "freed"
    BY <1>1, <1>5, <1>6 DEF SocketInv, NetReleases
  <2>7. QED
    BY <2>1, <2>2, <2>4, <2>5, <2>6 DEF NetReleases
<1>12. Shutdown'
  BY <1>1, <1>7 DEF SocketInv, Shutdown
<1>13. ClosedOnce' /\ AcceptedOnce'
  BY <1>1, <1>4, <1>9, ClosedKept, AcceptedKept DEF SocketInv
<1>14. RefsCount'
  <2>1. \A d \in Conns : ClosedDue(d)' => ClosedDue(d)
    BY <1>9, DueKept
  <2>2. ClosedDue(c)
    BY <1>1, <1>3 DEF ClosedDue
  <2>3. /\ \A v \in Workers, d \in Conns : Owes(v, d)' => Owes(v, d) \/ d = c
        /\ \A d \in Conns : Owes(NetThread, d)' => Owes(NetThread, d)
    BY <1>5, <1>6 DEF Owes
  <2>4. \A d \in Conns : /\ NetOwes(d)' => NetOwes(d)
                         /\ TaskOwes(d)' => TaskOwes(d)
    BY <1>1, <2>1, <2>2, <2>3 DEF NetOwes, TaskOwes
  <2>5. \A b \in Threads : relAt'[b] = "store" => relAt[b] = "store" /\ relSock'[b] = relSock[b]
    BY <1>6
  <2>6. QED
    BY <1>1, <1>4, <1>5, <2>4, <2>5 DEF SocketInv, RefsCount
<1>15. FreesReleased' /\ ReadsBeforeClosed' /\ WritesBeforeFree'
  BY <1>1, <1>4, <1>9, FreesKept, ReadsKept, WritesKept DEF SocketInv
<1>16. LateWatcher' /\ StopAsked' /\ FaultsExplained'
  BY <1>1, <1>4, <1>9, WatcherKept, StopKept, FaultsKept DEF SocketInv
<1>17. QED
  BY <1>8, <1>10, <1>11, <1>12, <1>13, <1>14, <1>15, <1>16 DEF SocketInv

-----------------------------------------------------------------------------
(* main()                                                                  *)

\* tasks_stop(): from here on the listener may go.
LEMMA StopTasksKeeps ==
  ASSUME SocketInv, fault = "none", StopTasks
  PROVE  SocketInv'
<1> DEFINE x == [kind |-> "stop"]
<1>1. /\ main = "sleeping" /\ main' = "joining" /\ Enqueue(x) /\ UNCHANGED <<netVars, msgs>>
  BY DEF StopTasks
<1>2. x \in Task /\ x.kind = "stop"
  BY DEF Task
<1> HIDE DEF x
<1>3. /\ TasksTypeOK' /\ PcKept /\ UNCHANGED <<task, tx, hasty>>
      /\ Elements(tqueue') = Elements(tqueue) \cup {x}
      /\ \A kind : kind # "stop" => NoNewTask(kind)
  BY <1>1, <1>2, EnqueueEffect DEF SocketInv
<1>4. /\ UNCHANGED <<nqueue, npc, listener, life, refs, reading, writing, late, fault>>
      /\ UNCHANGED relVars
  BY <1>1 DEF netVars, relVars
<1>5. ServerTypeOK'
  <2>1. NetTypeOK'
    BY <1>1 DEF SocketInv, ServerTypeOK, NetTypeOK, netVars
  <2>2. QED
    BY <1>1, <1>3, <2>1 DEF SocketInv, ServerTypeOK
<1>6. Live /\ (\A c \in Conns : Ended(c)' <=> Ended(c)) /\ \A kind : NoNewItem(kind)
  BY <1>1, <1>4, NoneNewSame DEF Live, Ended, NoNewItem
<1>7. WorkersKeepTasks'
  BY <1>3, <1>4, WorkersKept DEF SocketInv, relVars
<1>8. NetReleases'
  <2>1. relSock \in [Threads -> Conns \cup {NoConn}]
    BY DEF SocketInv, ServerTypeOK, NetTypeOK
  <2>2. QED
    BY <1>4, <1>6, <2>1, NetReleasesKept DEF SocketInv
<1>9. Shutdown' /\ StopAsked' /\ FaultsExplained'
  BY <1>1, <1>4, FaultsKept DEF Shutdown, StopAsked
<1>10. ClosedOnce' /\ AcceptedOnce'
  BY <1>3, <1>4, <1>6, TasksHeld, ClosedKept, AcceptedKept DEF SocketInv
<1>11. RefsCount' /\ FreesReleased'
  BY <1>3, <1>4, <1>6, TasksHeld, DueKept, RefsKept, FreesKept DEF SocketInv
<1>12. ReadsBeforeClosed' /\ WritesBeforeFree' /\ LateWatcher'
  BY <1>3, <1>4, <1>6, TasksHeld, ReadsKept, WritesKept, WatcherKept DEF SocketInv
<1>13. QED
  BY <1>5, <1>7, <1>8, <1>9, <1>10, <1>11, <1>12 DEF SocketInv

\* tasks_free_ctx() when the workers have ended, then net_stop().
LEMMA FreeTasksKeeps ==
  ASSUME SocketInv, fault = "none", FreeTasks \/ StopNet
  PROVE  SocketInv'
<1> DEFINE x == [kind |-> "stop"]
<1>1. /\ main # "freed_net" /\ main' \in {"freed_tasks", "joining_net"}
      /\ \A w \in Workers : pc[w] = "exited"
      /\ NetEnqueue(x) \/ UNCHANGED <<nqueue, async>>
      /\ UNCHANGED <<npc, nstop, listener, sockVars, sent, relVars, fault, late,
                     raced, taskVars, msgs>>
  BY DEF FreeTasks, StopNet, SocketInv, Shutdown, netVars, sockVars, relVars
<1>2. x \in NetItem /\ x.kind \notin ItemKinds
  BY DEF NetItem, ItemKinds
<1> HIDE DEF x
<1>3. nqueue' \in Seq(NetItem) /\ async' \in BOOLEAN /\ ItemsKept
  <2>1. CASE NetEnqueue(x)
    BY <1>2, <2>1, NetEnqueueEffect DEF SocketInv
  <2>2. CASE UNCHANGED <<nqueue, async>>
    BY <2>2, WorkerTypes, NoneNewSame DEF ItemsKept, NoNewItem
  <2>3. QED
    BY <1>1, <2>1, <2>2
<1>4. ServerTypeOK'
  <2>1. NetTypeOK'
    BY <1>1, <1>3 DEF SocketInv, ServerTypeOK, NetTypeOK, sockVars, relVars
  <2>2. TasksTypeOK'
    BY <1>1 DEF SocketInv, ServerTypeOK, TasksTypeOK, taskVars
  <2>3. QED
    BY <1>1, <2>1, <2>2 DEF SocketInv, ServerTypeOK
<1>5. /\ Live /\ \A c \in Conns : Ended(c)' <=> Ended(c)
      /\ UNCHANGED <<life, refs, reading, writing, task, tx, pc, hasty, tqueue>>
  BY <1>1 DEF Live, Ended, sockVars, taskVars
<1>6. /\ PcKept /\ \A kind : NoNewTask(kind)
      /\ NoNewItem("init") /\ NoNewItem("free") /\ NoNewItem("write")
  BY <1>3, <1>5, NoneNewSame DEF PcKept, NoNewTask, ItemsKept, ItemKinds
<1>7. WorkersKeepTasks'
  BY <1>1, <1>5, <1>6, WorkersKept DEF SocketInv, relVars
<1>8. NetReleases'
  <2>1. relSock \in [Threads -> Conns \cup {NoConn}]
    BY DEF SocketInv, ServerTypeOK, NetTypeOK
  <2>2. QED
    BY <1>1, <1>5, <2>1, NetReleasesKept DEF SocketInv
<1>9. Shutdown' /\ StopAsked' /\ FaultsExplained'
  BY <1>1, <1>5, FaultsKept DEF Shutdown, StopAsked
<1>10. ClosedOnce' /\ AcceptedOnce'
  BY <1>5, <1>6, TasksHeld, ClosedKept, AcceptedKept DEF SocketInv
<1>11. RefsCount' /\ FreesReleased'
  BY <1>1, <1>5, <1>6, TasksHeld, DueKept, RefsKept, FreesKept DEF SocketInv
<1>12. ReadsBeforeClosed' /\ WritesBeforeFree' /\ LateWatcher'
  BY <1>1, <1>5, <1>6, TasksHeld, ReadsKept, WritesKept, WatcherKept DEF SocketInv
<1>13. QED
  BY <1>4, <1>7, <1>8, <1>9, <1>10, <1>11, <1>12 DEF SocketInv

\* net_free_ctx(): every socket goes, whoever referred to it.
LEMMA FreeNetKeeps ==
  ASSUME SocketInv, fault = "none", FreeNet
  PROVE  SocketInv'
<1>1. /\ main = "joining_net" /\ main' = "freed_net" /\ npc = "exited"
      /\ life' = [c \in Conns |-> IF life[c] = "none" THEN "none" ELSE "freed"]
      /\ reading' = [c \in Conns |-> FALSE]
      /\ writing' = [c \in Conns |-> FALSE]
      /\ bufs' = [c \in Conns |-> << >>]
      /\ level' = [c \in Conns |-> 0]
      /\ listener' = IF listener = "listening" THEN "freed" ELSE listener
      /\ UNCHANGED <<nqueue, async, npc, nstop, fd, refs, sent, relVars, fault, late,
                     raced>>
      /\ UNCHANGED <<taskVars, msgs>>
  BY DEF FreeNet, NetFreeCtx
<1>2. ServerTypeOK'
  <2>1. << >> \in Seq(Data) /\ 0 \in 0 .. BufSize - 1
    BY NetAssumption
  <2>2. bufs' \in [Conns -> Seq(Data)] /\ level' \in [Conns -> 0 .. BufSize - 1]
    BY <1>1, <2>1
  <2>3. NetTypeOK'
    BY <1>1, <2>2 DEF SocketInv, ServerTypeOK, NetTypeOK, relVars
  <2>4. TasksTypeOK'
    BY <1>1 DEF SocketInv, ServerTypeOK, TasksTypeOK, taskVars
  <2>5. QED
    BY <1>1, <2>3, <2>4 DEF SocketInv, ServerTypeOK
<1>3. \A c \in Conns : Ended(c) => Ended(c)'
  BY <1>1 DEF Ended
<1>4. UNCHANGED <<pc, task, tx, tqueue>> /\ PcKept /\ \A kind : NoNewTask(kind)
  BY <1>1, NoneNewSame DEF PcKept, NoNewTask, taskVars
<1>5. WorkersKeepTasks'
  BY <1>1, <1>4, WorkersKept DEF SocketInv, relVars
<1>6. NetReleases'
  <2>1. relSock \in [Threads -> Conns \cup {NoConn}]
    BY DEF SocketInv, ServerTypeOK, NetTypeOK
  <2>2. QED
    BY <1>1, <1>3, <2>1, NetReleasesKept DEF SocketInv
<1>7. Shutdown'
  BY <1>1, <1>4 DEF SocketInv, Shutdown
<1>8. ClosedOnce'
  BY <1>3, <1>4, TasksHeld, ClosedKept DEF SocketInv
<1>9. /\ AcceptedOnce' /\ RefsCount' /\ FreesReleased' /\ ReadsBeforeClosed'
      /\ WritesBeforeFree' /\ LateWatcher' /\ StopAsked'
  BY <1>1 DEF AcceptedOnce, RefsCount, FreesReleased, ReadsBeforeClosed,
              WritesBeforeFree, LateWatcher, StopAsked, Live
<1>10. FaultsExplained'
  BY <1>1, FaultsKept
<1>11. QED
  BY <1>2, <1>5, <1>6, <1>7, <1>8, <1>9, <1>10 DEF SocketInv

-----------------------------------------------------------------------------
(* Every step is one of these.                                             *)

LEMMA SocketInit == ServerInit => SocketInv
<1> SUFFICES ASSUME ServerInit PROVE SocketInv
  OBVIOUS
<1>1. /\ nqueue = << >> /\ async = FALSE /\ npc = "loop" /\ nstop = FALSE
      /\ listener = "none"
      /\ life = [c \in Conns |-> "none"] /\ fd = [c \in Conns |-> 0]
      /\ refs = [c \in Conns |-> 0]
      /\ reading = [c \in Conns |-> FALSE] /\ writing = [c \in Conns |-> FALSE]
      /\ bufs = [c \in Conns |-> << >>] /\ level = [c \in Conns |-> 0]
      /\ sent = [c \in Conns |-> << >>]
      /\ relAt = [a \in Threads |-> "out"] /\ relSock = [a \in Threads |-> NoConn]
      /\ relVal = [a \in Threads |-> 0]
      /\ fault = "none" /\ late = {} /\ raced = {}
  BY DEF ServerInit, NetInit
<1>2. /\ tqueue = <<[kind |-> "init"]>>
      /\ pc = [w \in Workers |-> "ready"] /\ task = [w \in Workers |-> NoTask]
      /\ tx = [w \in Workers |-> NtxNew] /\ tries = [w \in Workers |-> 0]
      /\ stopFlag = FALSE /\ hasty = {} /\ main = "sleeping" /\ msgs = 0
  BY DEF ServerInit, TasksInit
<1>3. /\ \A x \in Elements(tqueue) : x.kind = "init"
      /\ Elements(nqueue) = {}
      /\ \A y : Behind(nqueue, y) = {} /\ Behind(tqueue, y) \subseteq Elements(tqueue)
  BY <1>1, <1>2, EmptySequence, BehindEmpty, BehindElements DEF Elements
<1>4. ServerTypeOK
  <2>1. << >> \in Seq(Data) /\ << >> \in Seq(NetItem) /\ 0 \in 0 .. BufSize - 1
    BY NetAssumption
  <2>2. bufs \in [Conns -> Seq(Data)] /\ level \in [Conns -> 0 .. BufSize - 1]
        /\ sent \in [Conns -> Seq(Data)]
    BY <1>1, <2>1
  <2>3. NetTypeOK
    <3>1. /\ fd \in [Conns -> Fds \cup {0}] /\ refs \in [Conns -> 0 .. 2]
          /\ relSock \in [Threads -> Conns \cup {NoConn}] /\ relVal \in [Threads -> 0 .. 2]
      BY <1>1
    <3>2. /\ life \in [Conns -> {"none", "open", "eof", "freed"}]
          /\ reading \in [Conns -> BOOLEAN] /\ writing \in [Conns -> BOOLEAN]
          /\ relAt \in [Threads -> {"out", "load", "store", "check", "unlatch"}]
      BY <1>1
    <3>3. nqueue \in Seq(NetItem) /\ late \subseteq Data /\ raced \subseteq Conns
      BY <1>1, <2>1
    <3>4. QED
      BY <1>1, <2>2, <3>1, <3>2, <3>3 DEF NetTypeOK
  <2>4. NtxNew \in [ops : Seq(Data), last : 0 .. 1]
    BY <2>1 DEF NtxNew
  <2>5. tqueue \in Seq(Task)
    BY <1>2 DEF Task
  <2>6. tx \in [Workers -> [ops : Seq(Data), last : 0 .. 1]]
    BY <1>2, <2>4
  <2>7. tries \in [Workers -> 0 .. MaxRetries] /\ msgs \in 0 .. MaxMsgs
    BY <1>2, NetAssumption, TasksAssumption
  <2>8. TasksTypeOK
    BY <1>2, <2>5, <2>6, <2>7 DEF TasksTypeOK
  <2>9. QED
    BY <1>2, <2>3, <2>7, <2>8 DEF ServerTypeOK
<1>5. /\ NetThread \in Threads /\ Workers \subseteq Threads
  BY DEF Threads
<1>6. WorkersKeepTasks /\ NetReleases /\ Shutdown
  BY <1>1, <1>2, <1>5 DEF WorkersKeepTasks, NetReleases, Shutdown, NoTask
<1>7. ClosedOnce /\ AcceptedOnce
  BY <1>1, <1>2, <1>3 DEF ClosedOnce, AcceptedOnce, ClosedTask, AcceptTask, NoTask
<1>8. RefsCount
  <2>1. \A c \in Conns : ~NetOwes(c) /\ ~TaskOwes(c)
    BY <1>1, <1>2, <1>3, <1>5 DEF NetOwes, TaskOwes, Owes, ClosedDue, ClosedTask
  <2>2. QED
    BY <1>1, <1>5, <2>1 DEF RefsCount
<1>9. /\ FreesReleased /\ ReadsBeforeClosed /\ WritesBeforeFree /\ LateWatcher /\ StopAsked
      /\ FaultsExplained
  BY <1>1, <1>2, <1>3 DEF FreesReleased, ReadsBeforeClosed, WritesBeforeFree, LateWatcher,
                          StopAsked, FaultsExplained, Ended, ReadOf, NoTask
<1>10. QED
  BY <1>4, <1>6, <1>7, <1>8, <1>9 DEF SocketInv

LEMMA SocketStep ==
  ASSUME SocketInv, WatcherHasBuffer, OwnOutput, [ServerNext]_serverVars
  PROVE  SocketInv'
<1>1. CASE UNCHANGED serverVars
  <2>1. ServerTypeOK'
    BY <1>1 DEF SocketInv, ServerTypeOK, NetTypeOK, TasksTypeOK, serverVars, netVars, taskVars
  <2>2. FaultsExplained'
    BY <1>1 DEF SocketInv, FaultsExplained, serverVars, netVars, taskVars
  <2>3. PcKept /\ TasksKept /\ ItemsKept
    BY <1>1, NoneNewSame DEF PcKept, TasksKept, NoNewTask, ItemsKept, NoNewItem,
                             serverVars, netVars, taskVars
  <2>4. QED
    BY <1>1, <2>1, <2>2, <2>3, QuietStep DEF serverVars, netVars, taskVars, relVars
<1>2. CASE fault = "none" /\ \E c \in Conns : Connect(c) \/ Receive(c) \/ HangUp(c) \/ Output(c)
  BY <1>2, ConnectKeeps, ReceiveKeeps, HangUpKeeps, OutputKeeps DEF Output
<1>3. CASE fault = "none" /\ (ListenFails \/ Listen \/ HandleItem)
  BY <1>3, ListenFailsKeeps, QuietItems, HandleStopListenerKeeps, HandleInitKeeps,
     HandleWriteKeeps, HandleFreeKeeps, HandleFreedKeeps DEF Listen, HandleItem
<1>4. CASE fault = "none" /\ (CallbackFreed \/ FreedMemory)
  BY <1>4, CallbackFreedKeeps, AcceptFreedKeeps, WatcherFreedKeeps DEF FreedMemory
<1>5. CASE fault = "none" /\ \E a \in Threads : Release(a)
  BY <1>5, RelLoadKeeps, RelStoreKeeps, RelCheckKeeps, RelFreedKeeps DEF Release
<1>6. CASE fault = "none" /\ \E w \in Workers : ReleaseEnds(w) \/ Dequeue(w) \/ Rest(w)
  BY <1>6, RelUnlatchKeeps, TakeKeeps, TakeInitKeeps, RestKeeps
     DEF ReleaseEnds, Dequeue, Rest
<1>7. CASE fault = "none" /\ \E w \in Workers : Succeed(w)
  BY <1>7, EvalReadKeeps, EvalAcceptKeeps, EvalClosedKeeps, EvalStopKeeps, ReleasedKeeps,
     SendKeeps, SendFreedKeeps DEF Succeed
<1>8. CASE fault = "none" /\ \E w \in Workers : Fail(w)
  BY <1>8, RetryKeeps DEF Fail
<1>9. CASE fault = "none" /\ (StopTasks \/ FreeTasks \/ StopNet \/ FreeNet)
  BY <1>9, StopTasksKeeps, FreeTasksKeeps, FreeNetKeeps
<1>10. QED
  BY <1>1, <1>2, <1>3, <1>4, <1>5, <1>6, <1>7, <1>8, <1>9 DEF ServerNext

\* The invariant holds in every state the server can reach.
THEOREM SocketInvariant == ServerSpec => []SocketInv
<1>1. SocketInv /\ ServerInv /\ [ServerNext]_serverVars => SocketInv'
  BY SocketStep DEF ServerInv
<1>2. QED
  BY SocketInit, <1>1, ServerInvariant, PTL DEF ServerSpec

\* The variables keep their types, the bounds of the reference counts, of the
\* transactions and of the write position included.
THEOREM ServerTypeCorrect == ServerSpec => []ServerTypeOK
<1>1. SocketInv => ServerTypeOK
  BY DEF SocketInv
<1>2. QED
  BY <1>1, SocketInvariant, PTL

\* What the code of src/src/net.c and src/src/tasks.c accesses after it is
\* freed, it accesses for one of the reasons FaultsExplained gives.
THEOREM ServerFaultsExplained == ServerSpec => []FaultsExplained
<1>1. SocketInv => FaultsExplained
  BY DEF SocketInv
<1>2. QED
  BY <1>1, SocketInvariant, PTL

\* Before the shutdown a socket is freed only when both references to it are
\* given up.
THEOREM ServerFreedWhenReleased == ServerSpec => []FreedWhenReleased
<1>1. SocketInv => FreedWhenReleased
  <2> SUFFICES ASSUME SocketInv, NEW c \in Conns, life[c] = "freed", Live
               PROVE  /\ ~reading[c]
                      /\ refs[c] = 0
                      /\ \A a \in Threads : relSock[a] = c => relAt[a] \in {"check", "unlatch"}
                      /\ \A i \in DOMAIN tqueue : tqueue[i].kind = "closed" => tqueue[i].sock # c
    BY DEF FreedWhenReleased, Live
  <2>1. refs[c] = 0 /\ ~NetOwes(c) /\ ~TaskOwes(c) /\ ClosedTask(c) \notin Elements(tqueue)
    BY NobodyRefers
  <2>2. ~reading[c]
    BY DEF SocketInv, AcceptedOnce
  <2>3. ASSUME NEW a \in Threads, relSock[a] = c
        PROVE  relAt[a] \in {"check", "unlatch"}
    <3>1. relAt[a] # "out"
      BY <2>3, ReleaseTypes DEF SocketInv, NetReleases
    <3>2. ~Owes(a, c)
      BY <2>1 DEF NetOwes, TaskOwes, Threads
    <3>3. relAt[a] \in {"out", "load", "store", "check", "unlatch"}
      BY ReleaseTypes
    <3>4. QED
      BY <2>3, <3>1, <3>2, <3>3 DEF Owes
  <2>4. ASSUME NEW i \in DOMAIN tqueue, tqueue[i].kind = "closed"
        PROVE  tqueue[i].sock # c
    <3>1. tqueue[i] \in Elements(tqueue) /\ tqueue[i] \in Task
      BY QueuesTyped DEF SocketInv, Elements
    <3>2. tqueue[i] = ClosedTask(tqueue[i].sock)
      BY <2>4, <3>1, TaskShape
    <3>3. QED
      BY <2>1, <3>1, <3>2
  <2>5. QED
    BY <2>1, <2>2, <2>3, <2>4
<1>2. QED
  BY <1>1, SocketInvariant, PTL
=============================================================================

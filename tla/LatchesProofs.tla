---------------------------- MODULE LatchesProofs ----------------------------
(***************************************************************************)
(* Without the known inversions the latches cannot deadlock, however many  *)
(* threads, locks and sockets there are: every call takes latches in the   *)
(* order of their ranks.                                                   *)
(***************************************************************************)
EXTENDS Latches, Integers, TLAPS

-----------------------------------------------------------------------------
(* The order.                                                              *)

\* deadlock_latch and ids_latch are never held together.
Rank(x) ==
  IF x = "tasks" THEN 1
  ELSE IF x = "cache" THEN 2
  ELSE IF x \in Locks THEN 3
  ELSE IF x \in {"deadlock", "ids"} THEN 4
  ELSE IF x = "net" THEN 5 ELSE 6

LatchOp == [op : {"take", "drop"}, latch : Latch]

Takes(c, i) == c[i].op = "take"

\* Between positions k and i of c, x is dropped.
DroppedBetween(c, k, i, x) ==
  \E j \in DOMAIN c : k < j /\ j < i /\ c[j] = Drop(x)

\* What c takes it drops later, and what it takes before it has dropped x has
\* a higher rank than x.
Ordered(c) ==
  /\ c \in Seq(LatchOp)
  /\ \A k \in DOMAIN c : Takes(c, k) => DroppedBetween(c, k, Len(c) + 1, c[k].latch)
  /\ \A k, i \in DOMAIN c :
       k < i /\ Takes(c, k) /\ Takes(c, i) /\ ~DroppedBetween(c, k, i, c[k].latch)
         => Rank(c[k].latch) < Rank(c[i].latch)

\* c is ordered and takes no latch up to rank r.
OrderedAbove(c, r) ==
  /\ Ordered(c)
  /\ \A i \in DOMAIN c : Takes(c, i) => r < Rank(c[i].latch)

LEMMA RankType == \A x : Rank(x) \in 1 .. 6
  BY DEF Rank

LEMMA EmptyOrdered == ASSUME NEW r PROVE OrderedAbove(<< >>, r)
  BY DEF OrderedAbove, Ordered

LEMMA LowerOrdered ==
  ASSUME NEW c, NEW q \in Int, NEW r \in Int, r <= q, OrderedAbove(c, q)
  PROVE  OrderedAbove(c, r)
<1>1. \A i : Rank(c[i].latch) \in Int
  BY RankType
<1>2. QED
  BY <1>1 DEF OrderedAbove

\* One call of a function after the other.
LEMMA JoinOrdered ==
  ASSUME NEW a, NEW b, NEW r, OrderedAbove(a, r), OrderedAbove(b, r)
  PROVE  OrderedAbove(a \o b, r)
<1> DEFINE c == a \o b
           n == Len(a)
<1>1. a \in Seq(LatchOp) /\ b \in Seq(LatchOp)
  BY DEF OrderedAbove, Ordered
<1>2. /\ c \in Seq(LatchOp)
      /\ n \in Nat /\ Len(b) \in Nat
      /\ Len(c) = n + Len(b)
      /\ DOMAIN a = 1 .. n /\ DOMAIN b = 1 .. Len(b)
      /\ DOMAIN c = 1 .. n + Len(b)
      /\ \A i \in 1 .. n : c[i] = a[i]
      /\ \A i \in 1 .. Len(b) : c[n + i] = b[i]
  BY <1>1
<1> HIDE DEF c, n
<1>3. \A i \in DOMAIN c : \/ i \in DOMAIN a /\ c[i] = a[i]
                          \/ i - n \in DOMAIN b /\ c[i] = b[i - n] /\ i > n
  <2> SUFFICES ASSUME NEW i \in DOMAIN c, i > n
               PROVE  i - n \in DOMAIN b /\ c[i] = b[i - n]
    BY <1>2
  <2>1. i - n \in 1 .. Len(b) /\ i = n + (i - n)
    BY <1>2
  <2>2. QED
    BY <1>2, <2>1
<1>4. \A i \in DOMAIN c : Takes(c, i) => r < Rank(c[i].latch)
  BY <1>3 DEF OrderedAbove, Takes
<1>5. ASSUME NEW k \in DOMAIN a, NEW i \in Nat, NEW x, DroppedBetween(a, k, i, x)
      PROVE  DroppedBetween(c, k, i, x)
  BY <1>2, <1>5 DEF DroppedBetween
<1>6. ASSUME NEW k \in DOMAIN b, NEW i \in Nat, NEW x, DroppedBetween(b, k, i, x)
      PROVE  DroppedBetween(c, n + k, n + i, x)
  <2>1. PICK j \in DOMAIN b : k < j /\ j < i /\ b[j] = Drop(x)
    BY <1>6 DEF DroppedBetween
  <2>2. n + j \in DOMAIN c /\ n + k < n + j /\ n + j < n + i /\ c[n + j] = Drop(x)
    BY <1>2, <2>1
  <2>3. QED
    BY <2>2 DEF DroppedBetween
<1>7. ASSUME NEW k \in DOMAIN a, Takes(a, k)
      PROVE  \A i \in Nat : i > n => DroppedBetween(c, k, i, a[k].latch)
  <2>1. PICK j \in DOMAIN a : k < j /\ j < n + 1 /\ a[j] = Drop(a[k].latch)
    BY <1>7 DEF OrderedAbove, Ordered, DroppedBetween, n
  <2>2. j \in DOMAIN c /\ c[j] = Drop(a[k].latch)
    BY <1>2, <2>1
  <2>3. QED
    BY <1>2, <2>1, <2>2 DEF DroppedBetween
<1>8. ASSUME NEW k \in DOMAIN c, Takes(c, k)
      PROVE  DroppedBetween(c, k, Len(c) + 1, c[k].latch)
  <2>1. CASE k \in DOMAIN a /\ c[k] = a[k]
    BY <1>2, <1>7, <1>8, <2>1 DEF Takes
  <2>2. CASE k - n \in DOMAIN b /\ c[k] = b[k - n]
    <3>1. DroppedBetween(b, k - n, Len(b) + 1, c[k].latch)
      BY <1>8, <2>2 DEF OrderedAbove, Ordered, Takes
    <3>2. DroppedBetween(c, n + (k - n), n + (Len(b) + 1), c[k].latch)
      BY <1>2, <1>6, <2>2, <3>1
    <3>3. n + (k - n) = k /\ n + (Len(b) + 1) = Len(c) + 1
      BY <1>2
    <3>4. QED
      BY <3>2, <3>3
  <2>3. QED
    BY <1>3, <2>1, <2>2
<1>9. ASSUME NEW k \in DOMAIN c, NEW i \in DOMAIN c, k < i, Takes(c, k), Takes(c, i),
             ~DroppedBetween(c, k, i, c[k].latch)
      PROVE  Rank(c[k].latch) < Rank(c[i].latch)
  <2>1. CASE k \in DOMAIN a /\ c[k] = a[k] /\ i \in DOMAIN a /\ c[i] = a[i]
    BY <1>2, <1>5, <1>9, <2>1 DEF OrderedAbove, Ordered, Takes
  <2>2. CASE k \in DOMAIN a /\ c[k] = a[k] /\ i > n
    BY <1>2, <1>7, <1>9, <2>2 DEF Takes
  <2>3. CASE k - n \in DOMAIN b /\ c[k] = b[k - n] /\ i - n \in DOMAIN b /\ c[i] = b[i - n]
    <3>0. n \in Nat /\ k \in Nat /\ i \in Nat /\ i - n \in Nat /\ k < i
      BY <1>2, <1>9, <2>3
    <3>1. n + (k - n) = k /\ n + (i - n) = i /\ k - n < i - n
      BY <3>0
    <3>2. ~DroppedBetween(b, k - n, i - n, c[k].latch)
      BY <1>6, <1>9, <2>3, <3>0, <3>1
    <3>3. QED
      BY <1>9, <2>3, <3>1, <3>2 DEF OrderedAbove, Ordered, Takes
  <2>4. k > n => i > n
    BY <1>2, <1>9
  <2>5. \A j \in DOMAIN a : ~(j > n)
    BY <1>2
  <2>6. QED
    BY <1>3, <2>1, <2>2, <2>3, <2>4, <2>5
<1>10. QED
  BY <1>2, <1>4, <1>8, <1>9 DEF OrderedAbove, Ordered, c

\* One call of a function with latch x held.
LEMMA HoldOrdered ==
  ASSUME NEW x \in Latch, NEW b, NEW r \in Int, r < Rank(x), OrderedAbove(b, Rank(x))
  PROVE  OrderedAbove(Hold(x, b), r)
<1> DEFINE c == Hold(x, b)
           n == Len(b)
<1>1. b \in Seq(LatchOp) /\ Take(x) \in LatchOp /\ Drop(x) \in LatchOp
  BY DEF OrderedAbove, Ordered, LatchOp, Take, Drop
<1>2. /\ c \in Seq(LatchOp)
      /\ n \in Nat
      /\ Len(c) = n + 2
      /\ DOMAIN b = 1 .. n
      /\ DOMAIN c = 1 .. n + 2
      /\ c[1] = Take(x)
      /\ c[n + 2] = Drop(x)
      /\ \A i \in 1 .. n : c[1 + i] = b[i]
  <2> DEFINE d == <<Take(x)>> \o b
  <2>1. /\ d \in Seq(LatchOp)
        /\ Len(d) = n + 1
        /\ d[1] = Take(x)
        /\ n \in Nat
        /\ DOMAIN b = 1 .. n
        /\ \A i \in 1 .. n : d[1 + i] = b[i]
    BY <1>1
  <2> HIDE DEF d, n
  <2>2. c = d \o <<Drop(x)>>
    BY DEF Hold, d
  <2> HIDE DEF c
  <2>3. /\ c \in Seq(LatchOp)
        /\ Len(c) = n + 2
        /\ c[n + 2] = Drop(x)
        /\ \A i \in 1 .. n + 1 : c[i] = d[i]
    BY <1>1, <2>1, <2>2
  <2>4. QED
    BY <2>1, <2>3
<1> HIDE DEF c, n
<1>3. \A i \in DOMAIN c : \/ i = 1
                          \/ i = n + 2
                          \/ i - 1 \in DOMAIN b /\ c[i] = b[i - 1]
  <2> SUFFICES ASSUME NEW i \in DOMAIN c, i # 1, i # n + 2
               PROVE  i - 1 \in DOMAIN b /\ c[i] = b[i - 1]
    BY <1>2
  <2>1. i - 1 \in 1 .. n /\ i = 1 + (i - 1)
    BY <1>2
  <2>2. QED
    BY <1>2, <2>1
<1>4. Takes(c, 1) /\ ~Takes(c, n + 2) /\ c[1].latch = x
  BY <1>2 DEF Takes, Take, Drop
<1>5. \A i \in DOMAIN b : Takes(b, i) => Rank(x) < Rank(b[i].latch)
  BY DEF OrderedAbove
<1>6. \A i \in DOMAIN c : Takes(c, i) => i = 1 \/ Rank(x) < Rank(c[i].latch)
  BY <1>3, <1>4, <1>5 DEF Takes
<1>7. \A i \in DOMAIN c : Takes(c, i) => r < Rank(c[i].latch)
  <2>1. \A i : Rank(c[i].latch) \in Int /\ Rank(x) \in Int
    BY RankType
  <2>2. QED
    BY <1>4, <1>6, <2>1
<1>8. ASSUME NEW k \in DOMAIN b, NEW i \in Nat, NEW y, DroppedBetween(b, k, i, y)
      PROVE  DroppedBetween(c, 1 + k, 1 + i, y)
  <2>1. PICK j \in DOMAIN b : k < j /\ j < i /\ b[j] = Drop(y)
    BY <1>8 DEF DroppedBetween
  <2>2. 1 + j \in DOMAIN c /\ 1 + k < 1 + j /\ 1 + j < 1 + i /\ c[1 + j] = Drop(y)
    BY <1>2, <2>1
  <2>3. QED
    BY <2>2 DEF DroppedBetween
<1>9. ASSUME NEW k \in DOMAIN c, Takes(c, k)
      PROVE  DroppedBetween(c, k, Len(c) + 1, c[k].latch)
  <2>1. CASE k = 1
    <3>1. n + 2 \in DOMAIN c /\ 1 < n + 2 /\ n + 2 < Len(c) + 1
      BY <1>2
    <3>2. QED
      BY <1>2, <1>4, <2>1, <3>1 DEF DroppedBetween
  <2>2. CASE k - 1 \in DOMAIN b /\ c[k] = b[k - 1]
    <3>1. DroppedBetween(b, k - 1, n + 1, c[k].latch)
      BY <1>9, <2>2 DEF OrderedAbove, Ordered, Takes, n
    <3>2. PICK j \in DOMAIN b : k - 1 < j /\ j < n + 1 /\ b[j] = Drop(c[k].latch)
      BY <3>1 DEF DroppedBetween
    <3>3. /\ 1 + j \in DOMAIN c /\ c[1 + j] = Drop(c[k].latch)
          /\ k < 1 + j /\ 1 + j < Len(c) + 1
      BY <1>2, <3>2
    <3>4. QED
      BY <3>3 DEF DroppedBetween
  <2>3. QED
    BY <1>3, <1>4, <1>9, <2>1, <2>2
<1>10. ASSUME NEW k \in DOMAIN c, NEW i \in DOMAIN c, k < i, Takes(c, k), Takes(c, i),
              ~DroppedBetween(c, k, i, c[k].latch)
       PROVE  Rank(c[k].latch) < Rank(c[i].latch)
  <2>1. i # 1 /\ i # n + 2 /\ k # n + 2
    BY <1>2, <1>4, <1>10
  <2>2. CASE k = 1
    BY <1>4, <1>6, <1>10, <2>1, <2>2
  <2>3. CASE k # 1
    <3>1. /\ k - 1 \in DOMAIN b /\ c[k] = b[k - 1]
          /\ i - 1 \in DOMAIN b /\ c[i] = b[i - 1]
      BY <1>3, <2>1, <2>3
    <3>2. /\ 1 + (k - 1) = k /\ 1 + (i - 1) = i
          /\ k - 1 < i - 1 /\ i - 1 \in Nat
      BY <1>2, <1>10, <3>1
    <3>3. ~DroppedBetween(b, k - 1, i - 1, c[k].latch)
      BY <1>8, <1>10, <3>1, <3>2
    <3>4. QED
      BY <1>10, <3>1, <3>2, <3>3 DEF OrderedAbove, Ordered, Takes
  <2>4. QED
    BY <2>2, <2>3
<1>11. QED
  BY <1>2, <1>7, <1>9, <1>10 DEF OrderedAbove, Ordered, c

-----------------------------------------------------------------------------
(* The calls.                                                              *)

LEMMA TouchOrdered ==
  ASSUME NEW x \in Latch, NEW r \in Int, r < Rank(x)
  PROVE  OrderedAbove(Touch(x), r)
  BY EmptyOrdered, HoldOrdered DEF Touch

\* A wait under x, after b, is like giving x up and taking it again.
LEMMA WaitOrdered ==
  ASSUME NEW x \in Latch, NEW b, NEW r \in Int, r < Rank(x), OrderedAbove(b, Rank(x))
  PROVE  OrderedAbove(HoldAndWait(x, b), r)
<1>1. b \in Seq(LatchOp) /\ Take(x) \in LatchOp /\ Drop(x) \in LatchOp
  BY DEF OrderedAbove, Ordered, LatchOp, Take, Drop
<1>2. HoldAndWait(x, b) = Hold(x, b) \o Touch(x)
  <2> DEFINE t == <<Take(x)>>
             d == <<Drop(x)>>
  <2>1. <<Drop(x), Take(x)>> = d \o t /\ Touch(x) = t \o d
    BY <1>1 DEF Touch, Hold
  <2>2. t \in Seq(LatchOp) /\ d \in Seq(LatchOp)
    BY <1>1
  <2> HIDE DEF t, d
  <2>3. b \o (d \o t) = (b \o d) \o t
    BY <1>1, <2>2
  <2>4. t \o ((b \o d) \o t) = (t \o (b \o d)) \o t
    BY <1>1, <2>2
  <2>5. ((t \o (b \o d)) \o t) \o d = (t \o (b \o d)) \o (t \o d)
    <3>1. t \o (b \o d) \in Seq(LatchOp)
      BY <1>1, <2>2
    <3>2. QED
      BY <2>2, <3>1
  <2>6. t \o (b \o d) = (t \o b) \o d
    BY <1>1, <2>2
  <2>7. QED
    BY <2>1, <2>3, <2>4, <2>5, <2>6 DEF HoldAndWait, Hold, t, d
<1>3. OrderedAbove(Hold(x, b), r) /\ OrderedAbove(Touch(x), r)
  BY HoldOrdered, TouchOrdered
<1>4. QED
  BY <1>2, <1>3, JoinOrdered

LEMMA Ranks ==
  /\ Rank("tasks") = 1 /\ Rank("cache") = 2
  /\ Rank("deadlock") = 4 /\ Rank("ids") = 4 /\ Rank("net") = 5
  /\ \A l \in Locks : Rank(l) = 3 /\ l \in Latch
  /\ \A s \in Sockets : Rank(s) = 6 /\ s \in Latch
  /\ Global \subseteq Latch
  BY LatchesAssumption DEF Rank, Latch, Global

LEMMA LockOrdered ==
  ASSUME NEW l \in Locks, Inversions = {}
  PROVE  \A c \in LockLock(l) \cup LockUnlock(l) : OrderedAbove(c, 2)
<1>1. l \in Latch /\ "deadlock" \in Latch /\ Rank(l) = 3 /\ Rank("deadlock") = 4
  BY Ranks DEF Global
<1>2. OrderedAbove(<< >>, 3) /\ OrderedAbove(Touch("deadlock"), 3)
  BY <1>1, EmptyOrdered, TouchOrdered
<1>3. OrderedAbove(Touch(l), 2) /\ OrderedAbove(Hold(l, Touch("deadlock")), 2)
  BY <1>1, <1>2, TouchOrdered, HoldOrdered
<1>4. OrderedAbove(HoldAndWait(l, << >>), 2)
  BY <1>1, <1>2, WaitOrdered
<1>5. OrderedAbove(HoldAndWait(l, Touch("deadlock")), 2)
  BY <1>1, <1>2, WaitOrdered
<1>6. Marking(l) = {<< >>}
  BY DEF Marking
<1>7. \A m \in Marking(l) : Hold("deadlock", m) = Touch("deadlock")
  BY <1>6 DEF Touch
<1>8. \A c \in LockLock(l) : c \in {Touch(l), HoldAndWait(l, << >>),
                                    Hold(l, Touch("deadlock")),
                                    HoldAndWait(l, Touch("deadlock"))}
  BY <1>7 DEF LockLock
<1>9. QED
  BY <1>3, <1>4, <1>5, <1>8 DEF LockUnlock

LEMMA WorkOrdered ==
  ASSUME Inversions = {}
  PROVE  \A c \in Work : OrderedAbove(c, 1)
<1>1. /\ {"cache", "ids", "net"} \subseteq Latch
      /\ Rank("cache") = 2 /\ Rank("ids") = 4 /\ Rank("net") = 5
  BY Ranks DEF Global
<1>2. OrderedAbove(StartTx, 1) /\ OrderedAbove(NetEnqueue, 1) /\ OrderedAbove(Touch("ids"), 1)
  BY <1>1, TouchOrdered DEF StartTx, NetEnqueue
<1>3. OrderedAbove(Touch("cache"), 1)
  BY <1>1, TouchOrdered
<1>4. ASSUME NEW l \in Locks
      PROVE  /\ \A c \in LockLock(l) : OrderedAbove(c, 1)
             /\ \A c \in GetObject(l) : OrderedAbove(c, 1)
             /\ \A c \in FinishTx(l) : OrderedAbove(c, 1)
             /\ OrderedAbove(MakeObject(l), 1)
  <2>1. \A c \in LockLock(l) : OrderedAbove(c, 1)
    BY LockOrdered, LowerOrdered
  <2>2. \A c \in GetObject(l) : OrderedAbove(c, 1)
    BY <1>3, <2>1, JoinOrdered DEF GetObject
  <2>3. \A u \in LockUnlock(l) : OrderedAbove(Hold("cache", u), 1)
    BY <1>1, LockOrdered, HoldOrdered
  <2>4. \A c \in FinishTx(l) : OrderedAbove(c, 1)
    BY <1>2, <2>3, JoinOrdered DEF FinishTx
  <2>5. OrderedAbove(Touch(l), 2)
    BY Ranks, TouchOrdered
  <2>6. OrderedAbove(MakeObject(l), 1)
    BY <1>1, <2>5, HoldOrdered DEF MakeObject
  <2>7. QED
    BY <2>1, <2>2, <2>4, <2>6
<1>5. \A c \in Begin : OrderedAbove(c, 1)
  BY <1>2, <1>4 DEF Begin
<1>6. ASSUME NEW l \in Locks, NEW c \in LockLock(l) \cup FinishTx(l) \cup {MakeObject(l)}
      PROVE  OrderedAbove(c, 1)
  BY <1>4
<1>7. QED
  BY <1>2, <1>5, <1>6 DEF Work

LEMMA CallsOrdered ==
  ASSUME Inversions = {}, NEW t \in Threads
  PROVE  \A c \in Calls(t) : OrderedAbove(c, 0)
<1>1. /\ "tasks" \in Latch /\ "net" \in Latch
      /\ Rank("tasks") = 1 /\ Rank("net") = 5
  BY Ranks DEF Global
<1>2. \A s \in Sockets : OrderedAbove(Touch(s), 0) /\ OrderedAbove(Touch(s), 5)
  BY Ranks, TouchOrdered
<1>3. \A c \in Work : OrderedAbove(c, 0) /\ OrderedAbove(Hold("tasks", c), 0)
  BY <1>1, WorkOrdered, LowerOrdered, HoldOrdered
<1>4. OrderedAbove(HoldAndWait("tasks", << >>), 0)
  BY <1>1, EmptyOrdered, WaitOrdered
<1>5. \A c \in WorkerCalls : OrderedAbove(c, 0)
  BY <1>2, <1>3, <1>4 DEF WorkerCalls, SocketFree
<1>6. OrderedAbove(TasksEnqueue, 0) /\ OrderedAbove(NetEnqueue, 0) /\ OrderedAbove(Touch("net"), 0)
  BY <1>1, TouchOrdered DEF TasksEnqueue, NetEnqueue
<1>7. \A s \in Sockets : OrderedAbove(Hold("net", Touch(s)), 0)
  BY <1>1, <1>2, HoldOrdered
<1>8. OrderedAbove(TasksEnqueue \o NetEnqueue, 0)
  BY <1>6, JoinOrdered
<1>9. \A c \in NetCalls : OrderedAbove(c, 0)
  BY <1>2, <1>6, <1>7, <1>8 DEF NetCalls, QueueEvent
<1>10. QED
  BY <1>5, <1>9 DEF Calls

-----------------------------------------------------------------------------
(* The inductive invariant.                                                *)

\* c drops y, and what it takes before it does so has a higher rank than y.
KeptInOrder(c, y) ==
  /\ \E j \in DOMAIN c : c[j] = Drop(y)
  /\ \A i \in DOMAIN c :
       Takes(c, i) /\ ~DroppedBetween(c, 0, i, y) => Rank(y) < Rank(c[i].latch)

HeldInOrder(t) == \A y \in Latch : t \in owner[y] => KeptInOrder(rest[t], y)

LatchesInv ==
  /\ DOMAIN owner = Latch
  /\ DOMAIN rest = Threads
  /\ \A t \in Threads : Ordered(rest[t]) /\ HeldInOrder(t)

\* What remains of an ordered call once its next operation is done.
LEMMA TailOrdered ==
  ASSUME NEW c, Ordered(c), c # << >>
  PROVE  /\ Ordered(Tail(c))
         /\ Head(c) = c[1] /\ 1 \in DOMAIN c /\ c[1] \in LatchOp
         /\ \A i \in DOMAIN Tail(c) : 1 + i \in DOMAIN c /\ Tail(c)[i] = c[1 + i] /\ 0 < i
         /\ \A i \in DOMAIN c : 1 < i => i - 1 \in DOMAIN Tail(c) /\ Tail(c)[i - 1] = c[i]
         /\ DOMAIN c \subseteq Nat \ {0}
<1> DEFINE d == Tail(c)
<1>1. /\ c \in Seq(LatchOp) /\ d \in Seq(LatchOp)
      /\ Len(c) \in Nat /\ Len(c) > 0
      /\ Len(d) = Len(c) - 1
      /\ Head(c) = c[1]
      /\ DOMAIN c = 1 .. Len(c) /\ DOMAIN d = 1 .. Len(c) - 1
      /\ \A i \in 1 .. Len(c) - 1 : d[i] = c[i + 1]
  BY DEF Ordered
<1> HIDE DEF d
<1>2. \A i \in DOMAIN d : 1 + i \in DOMAIN c /\ d[i] = c[1 + i] /\ 0 < i
  BY <1>1
<1>3. \A i \in DOMAIN c : 1 < i => i - 1 \in DOMAIN d /\ d[i - 1] = c[i]
  <2> SUFFICES ASSUME NEW i \in DOMAIN c, 1 < i
               PROVE  i - 1 \in DOMAIN d /\ d[i - 1] = c[i]
    OBVIOUS
  <2>1. i - 1 \in 1 .. Len(c) - 1 /\ i = (i - 1) + 1
    BY <1>1
  <2>2. QED
    BY <1>1, <2>1
<1>4. 1 \in DOMAIN c /\ c[1] \in LatchOp
  BY <1>1
<1>5. ASSUME NEW k \in DOMAIN d, NEW i \in Nat, NEW x
      PROVE  DroppedBetween(d, k, i, x) <=> DroppedBetween(c, 1 + k, 1 + i, x)
  <2>1. ASSUME DroppedBetween(d, k, i, x) PROVE DroppedBetween(c, 1 + k, 1 + i, x)
    <3>1. PICK j \in DOMAIN d : k < j /\ j < i /\ d[j] = Drop(x)
      BY <2>1 DEF DroppedBetween
    <3>2. 1 + j \in DOMAIN c /\ 1 + k < 1 + j /\ 1 + j < 1 + i /\ c[1 + j] = Drop(x)
      BY <1>1, <1>2, <3>1
    <3>3. QED
      BY <3>2 DEF DroppedBetween
  <2>2. ASSUME DroppedBetween(c, 1 + k, 1 + i, x) PROVE DroppedBetween(d, k, i, x)
    <3>1. PICK j \in DOMAIN c : 1 + k < j /\ j < 1 + i /\ c[j] = Drop(x)
      BY <2>2 DEF DroppedBetween
    <3>2. j - 1 \in DOMAIN d /\ k < j - 1 /\ j - 1 < i /\ d[j - 1] = Drop(x)
      BY <1>1, <1>3, <3>1
    <3>3. QED
      BY <3>2 DEF DroppedBetween
  <2>3. QED
    BY <2>1, <2>2
<1>6. ASSUME NEW k \in DOMAIN d, Takes(d, k)
      PROVE  DroppedBetween(d, k, Len(d) + 1, d[k].latch)
  <2>1. DroppedBetween(c, 1 + k, Len(c) + 1, d[k].latch)
    BY <1>2, <1>6 DEF Ordered, Takes
  <2>2. Len(c) + 1 = 1 + (Len(d) + 1) /\ Len(d) + 1 \in Nat
    BY <1>1
  <2>3. QED
    BY <1>5, <2>1, <2>2
<1>7. ASSUME NEW k \in DOMAIN d, NEW i \in DOMAIN d, k < i, Takes(d, k), Takes(d, i),
             ~DroppedBetween(d, k, i, d[k].latch)
      PROVE  Rank(d[k].latch) < Rank(d[i].latch)
  <2>1. 1 + k \in DOMAIN c /\ 1 + i \in DOMAIN c /\ 1 + k < 1 + i /\ i \in Nat
    BY <1>1, <1>2, <1>7
  <2>2. ~DroppedBetween(c, 1 + k, 1 + i, d[k].latch)
    BY <1>5, <1>7, <2>1
  <2>3. QED
    BY <1>2, <1>7, <2>1, <2>2 DEF Ordered, Takes
<1>8. Ordered(d)
  BY <1>1, <1>6, <1>7 DEF Ordered
<1>9. QED
  BY <1>1, <1>2, <1>3, <1>4, <1>8 DEF d

LEMMA TailKept ==
  ASSUME NEW c, Ordered(c), c # << >>, NEW y, KeptInOrder(c, y), c[1] # Drop(y)
  PROVE  KeptInOrder(Tail(c), y)
<1> DEFINE d == Tail(c)
<1>1. /\ \A i \in DOMAIN d : 1 + i \in DOMAIN c /\ d[i] = c[1 + i] /\ 0 < i
      /\ \A i \in DOMAIN c : 1 < i => i - 1 \in DOMAIN d /\ d[i - 1] = c[i]
      /\ DOMAIN c \subseteq Nat \ {0}
      /\ DOMAIN d \subseteq Nat \ {0}
  <2>1. d \in Seq(LatchOp)
    BY TailOrdered DEF Ordered
  <2>2. QED
    BY <2>1, TailOrdered
<1> HIDE DEF d
<1>2. \E j \in DOMAIN d : d[j] = Drop(y)
  <2>1. PICK j \in DOMAIN c : c[j] = Drop(y)
    BY DEF KeptInOrder
  <2>2. 1 < j
    BY <1>1, <2>1
  <2>3. QED
    BY <1>1, <2>1, <2>2
<1>3. ASSUME NEW i \in DOMAIN d, Takes(d, i), ~DroppedBetween(d, 0, i, y)
      PROVE  Rank(y) < Rank(d[i].latch)
  <2>1. ASSUME DroppedBetween(c, 0, 1 + i, y) PROVE FALSE
    <3>1. PICK j \in DOMAIN c : 0 < j /\ j < 1 + i /\ c[j] = Drop(y)
      BY <2>1 DEF DroppedBetween
    <3>2. 1 < j
      BY <1>1, <3>1
    <3>3. j - 1 \in DOMAIN d /\ 0 < j - 1 /\ j - 1 < i /\ d[j - 1] = Drop(y)
      BY <1>1, <3>1, <3>2
    <3>4. QED
      BY <1>3, <3>3 DEF DroppedBetween
  <2>2. 1 + i \in DOMAIN c /\ Takes(c, 1 + i) /\ d[i] = c[1 + i]
    BY <1>1, <1>3 DEF Takes
  <2>3. QED
    BY <2>1, <2>2 DEF KeptInOrder
<1>4. QED
  BY <1>2, <1>3 DEF KeptInOrder, d

LEMMA TailTaken ==
  ASSUME NEW c, Ordered(c), c # << >>, Takes(c, 1)
  PROVE  KeptInOrder(Tail(c), c[1].latch)
<1> DEFINE d == Tail(c)
           y == c[1].latch
<1>1. /\ \A i \in DOMAIN d : 1 + i \in DOMAIN c /\ d[i] = c[1 + i] /\ 0 < i
      /\ \A i \in DOMAIN c : 1 < i => i - 1 \in DOMAIN d /\ d[i - 1] = c[i]
      /\ DOMAIN c \subseteq Nat \ {0}
      /\ DOMAIN d \subseteq Nat \ {0}
      /\ 1 \in DOMAIN c
  <2>1. d \in Seq(LatchOp)
    BY TailOrdered DEF Ordered
  <2>2. QED
    BY <2>1, TailOrdered
<1>2. /\ DroppedBetween(c, 1, Len(c) + 1, y)
      /\ \A i \in DOMAIN c : 1 < i /\ Takes(c, i) /\ ~DroppedBetween(c, 1, i, y)
                           => Rank(y) < Rank(c[i].latch)
  BY <1>1 DEF Ordered
<1> HIDE DEF d, y
<1>3. \E j \in DOMAIN d : d[j] = Drop(y)
  <2>1. PICK j \in DOMAIN c : 1 < j /\ c[j] = Drop(y)
    BY <1>2 DEF DroppedBetween
  <2>2. QED
    BY <1>1, <2>1
<1>4. ASSUME NEW i \in DOMAIN d, Takes(d, i), ~DroppedBetween(d, 0, i, y)
      PROVE  Rank(y) < Rank(d[i].latch)
  <2>1. ASSUME DroppedBetween(c, 1, 1 + i, y) PROVE FALSE
    <3>1. PICK j \in DOMAIN c : 1 < j /\ j < 1 + i /\ c[j] = Drop(y)
      BY <2>1 DEF DroppedBetween
    <3>2. j - 1 \in DOMAIN d /\ 0 < j - 1 /\ j - 1 < i /\ d[j - 1] = Drop(y)
      BY <1>1, <3>1
    <3>3. QED
      BY <1>4, <3>2 DEF DroppedBetween
  <2>2. 1 + i \in DOMAIN c /\ Takes(c, 1 + i) /\ d[i] = c[1 + i] /\ 1 < 1 + i
    BY <1>1, <1>4 DEF Takes
  <2>3. QED
    BY <1>2, <2>1, <2>2
<1>5. QED
  BY <1>3, <1>4 DEF KeptInOrder, d, y

\* A thread that waits for a latch waits for one of a higher rank than those
\* it has.
LEMMA WantedAbove ==
  ASSUME NEW c, Ordered(c), c # << >>, Head(c).op = "take",
         NEW y, KeptInOrder(c, y)
  PROVE  Rank(y) < Rank(Head(c).latch)
<1>1. 1 \in DOMAIN c /\ Head(c) = c[1] /\ DOMAIN c \subseteq Nat \ {0}
  BY TailOrdered
<1>2. ~DroppedBetween(c, 0, 1, y)
  BY <1>1 DEF DroppedBetween
<1>3. QED
  BY <1>1, <1>2 DEF KeptInOrder, Takes

LEMMA NothingKept == ASSUME NEW y PROVE ~KeptInOrder(<< >>, y)
  BY DEF KeptInOrder

-----------------------------------------------------------------------------
(* The steps.                                                              *)

LEMMA InitInv == ASSUME LatchesInit PROVE LatchesInv
<1>1. \A t \in Threads : Ordered(rest[t])
  BY EmptyOrdered DEF LatchesInit, OrderedAbove
<1>2. \A t \in Threads : HeldInOrder(t)
  BY DEF LatchesInit, HeldInOrder
<1>3. QED
  BY <1>1, <1>2 DEF LatchesInv, LatchesInit

\* A step of t gives no other thread a latch.
LEMMA OthersInOrder ==
  ASSUME LatchesInv, NEW t \in Threads, NEW c, rest' = [rest EXCEPT ![t] = c],
         \A y \in Latch, u \in Threads : u # t /\ u \in owner'[y] => u \in owner[y],
         DOMAIN owner' = Latch,
         Ordered(c),
         \A y \in Latch : t \in owner'[y] => KeptInOrder(c, y)
  PROVE  LatchesInv'
<1>1. DOMAIN rest' = Threads /\ rest'[t] = c
  BY DEF LatchesInv
<1>2. ASSUME NEW u \in Threads
      PROVE  Ordered(rest'[u]) /\ \A y \in Latch : u \in owner'[y] => KeptInOrder(rest'[u], y)
  <2>1. CASE u = t
    BY <1>1, <2>1
  <2>2. CASE u # t
    <3>1. rest'[u] = rest[u] /\ Ordered(rest[u]) /\ HeldInOrder(u)
      BY <2>2 DEF LatchesInv
    <3>2. QED
      BY <2>2, <3>1 DEF HeldInOrder
  <2>3. QED
    BY <2>1, <2>2
<1>3. QED
  BY <1>1, <1>2 DEF LatchesInv, HeldInOrder

LEMMA CallInv ==
  ASSUME LatchesInv, Inversions = {}, NEW t \in Threads, Call(t)
  PROVE  LatchesInv'
<1>1. PICK c \in Calls(t) : rest' = [rest EXCEPT ![t] = c]
  BY DEF Call
<1>2. Ordered(c)
  BY CallsOrdered DEF OrderedAbove
<1>3. owner' = owner /\ rest[t] = << >> /\ HeldInOrder(t) /\ DOMAIN owner = Latch
  BY DEF Call, LatchesInv
<1>4. \A y \in Latch : t \notin owner'[y]
  BY <1>3, NothingKept DEF HeldInOrder
<1>5. QED
  BY <1>1, <1>2, <1>3, <1>4, OthersInOrder

LEMMA TakeInv ==
  ASSUME LatchesInv, NEW t \in Threads, TakeLatch(t)
  PROVE  LatchesInv'
<1> DEFINE c == rest[t]
           x == Head(c).latch
<1>1. Ordered(c) /\ c # << >> /\ HeldInOrder(t) /\ DOMAIN owner = Latch
  BY DEF LatchesInv, TakeLatch
<1>2. Ordered(Tail(c)) /\ Head(c) = c[1] /\ c[1] \in LatchOp
  BY <1>1, TailOrdered
<1>3. x \in Latch /\ c[1].latch = x /\ c[1].op = "take"
  BY <1>2 DEF LatchOp, TakeLatch
<1>4. owner' = [owner EXCEPT ![x] = {t}] /\ rest' = [rest EXCEPT ![t] = Tail(c)]
  BY DEF TakeLatch
<1> HIDE DEF x
<1>5. \A y \in Latch : owner'[y] = IF y = x THEN {t} ELSE owner[y]
  BY <1>1, <1>4
<1>6. KeptInOrder(Tail(c), x)
  BY <1>1, <1>3, TailTaken DEF Takes
<1>7. \A y : c[1] # Drop(y)
  BY <1>3 DEF Drop
<1>8. \A y \in Latch : t \in owner[y] => KeptInOrder(Tail(c), y)
  BY <1>1, <1>7, TailKept DEF HeldInOrder
<1>9. DOMAIN owner' = Latch
  BY <1>1, <1>4
<1> HIDE DEF c
<1>10. QED
  BY <1>2, <1>4, <1>5, <1>6, <1>8, <1>9, OthersInOrder

LEMMA DropInv ==
  ASSUME LatchesInv, NEW t \in Threads, DropLatch(t)
  PROVE  LatchesInv'
<1> DEFINE c == rest[t]
           x == Head(c).latch
<1>1. Ordered(c) /\ c # << >> /\ HeldInOrder(t) /\ DOMAIN owner = Latch
  BY DEF LatchesInv, DropLatch
<1>2. Ordered(Tail(c)) /\ Head(c) = c[1] /\ c[1] \in LatchOp
  BY <1>1, TailOrdered
<1>3. x \in Latch /\ c[1].latch = x
  BY <1>2 DEF LatchOp
<1>4. owner' = [owner EXCEPT ![x] = {}] /\ rest' = [rest EXCEPT ![t] = Tail(c)]
  BY DEF DropLatch
<1> HIDE DEF x
<1>5. \A y \in Latch : owner'[y] = IF y = x THEN {} ELSE owner[y]
  BY <1>1, <1>4
<1>6. \A y : y # x => c[1] # Drop(y)
  BY <1>3 DEF Drop
<1>7. \A y \in Latch : y # x /\ t \in owner[y] => KeptInOrder(Tail(c), y)
  BY <1>1, <1>6, TailKept DEF HeldInOrder
<1>8. DOMAIN owner' = Latch
  BY <1>1, <1>4
<1> HIDE DEF c
<1>9. QED
  BY <1>2, <1>4, <1>5, <1>7, <1>8, OthersInOrder

\* Threads that wait for each other in a circle would each wait for a higher
\* rank than the one before.
LEMMA InOrderNoDeadlock == ASSUME LatchesInv PROVE NoLatchDeadlock
<1> SUFFICES ASSUME NEW D \in (SUBSET Threads) \ {{}},
                    \A t \in D : \E u \in D : BlockedBy(t, u)
             PROVE  FALSE
  BY DEF NoLatchDeadlock
<1> DEFINE wanted(t) == Head(rest[t]).latch
           rank(t) == Rank(wanted(t))
<1>1. \A t \in D : Ordered(rest[t]) /\ rest[t] # << >> /\ Head(rest[t]).op = "take"
  BY DEF LatchesInv, BlockedBy
<1>2. \A t \in D : wanted(t) \in Latch
  BY <1>1, TailOrdered DEF LatchOp
<1>3. ASSUME NEW t \in D
      PROVE  \E u \in D : rank(t) < rank(u)
  <2>1. PICK u \in D : BlockedBy(t, u)
    OBVIOUS
  <2>2. KeptInOrder(rest[u], wanted(t))
    BY <1>2, <2>1 DEF LatchesInv, HeldInOrder, BlockedBy
  <2>3. rank(t) < rank(u)
    BY <1>1, <2>2, WantedAbove
  <2>4. QED
    BY <2>3
<1>4. \A t \in D : rank(t) \in Int /\ 1 <= rank(t) /\ rank(t) <= 6
  BY RankType
<1> DEFINE above(n) == \A t \in D : rank(t) < n
<1>5. ASSUME NEW n \in Int, above(n + 1)
      PROVE  above(n)
  <2> HIDE DEF rank
  <2>1. QED
    BY <1>3, <1>4, <1>5
<1>6. above(7) /\ ~above(1)
  BY <1>4
<1> HIDE DEF above
<1>7. above(6)
  BY <1>5, <1>6
<1>8. above(5)
  BY <1>5, <1>7
<1>9. above(4)
  BY <1>5, <1>8
<1>10. above(3)
  BY <1>5, <1>9
<1>11. above(2)
  BY <1>5, <1>10
<1>12. QED
  BY <1>5, <1>6, <1>11

\* However many threads run, and however many objects and sockets there are,
\* no set of threads waits in a circle for the latches of lock.c, store.c,
\* tasks.c and net.c, as long as none of the three known inversions happens.
THEOREM LatchesNoDeadlock ==
  ASSUME Inversions = {}
  PROVE  LatchesSpec => []NoLatchDeadlock
<1>1. LatchesInv /\ [LatchesNext]_latchVars => LatchesInv'
  <2> SUFFICES ASSUME LatchesInv, [LatchesNext]_latchVars PROVE LatchesInv'
    OBVIOUS
  <2>1. CASE UNCHANGED latchVars
    BY <2>1 DEF latchVars, LatchesInv, HeldInOrder
  <2>2. CASE LatchesNext
    BY <2>2, CallInv, TakeInv, DropInv DEF LatchesNext
  <2>3. QED
    BY <2>1, <2>2
<1>2. QED
  BY <1>1, InitInv, InOrderNoDeadlock, PTL DEF LatchesSpec

=============================================================================

--------------------------- MODULE DetectorProofs ---------------------------
(***************************************************************************)
(* wfg_dfs() for any number of transactions, any graph and any order of    *)
(* their sids: whom it faults out, what it misses and when it never        *)
(* returns.                                                                *)
(***************************************************************************)
EXTENDS MCWaitForGraph, FiniteSetTheorems, TLAPS

-----------------------------------------------------------------------------
(* Natural numbers.                                                        *)

\* Induction over the natural numbers, for a set.
LEMMA AllNumbers ==
  ASSUME NEW S \in SUBSET Nat, 0 \in S, \A n \in S : n + 1 \in S
  PROVE  S = Nat
<1>1. SUFFICES ASSUME NEW x \in Nat, x \notin S
               PROVE  FALSE
  OBVIOUS
<1> DEFINE T == {n \in 0 .. x : n \notin S}
           U == {n \in 0 .. x - 1 : n \notin S}
<1>2. \A n \in T : n - 1 \in U
  <2> SUFFICES ASSUME NEW n \in 0 .. x, n \notin S
               PROVE  n - 1 \in 0 .. x - 1 /\ n - 1 \notin S
    OBVIOUS
  <2>1. n # 0
    OBVIOUS
  <2>2. (n - 1) + 1 = n /\ n - 1 \in 0 .. x - 1
    BY <2>1
  <2>3. QED
    BY <2>2
<1>3. T = U \cup {x} /\ x \notin U
  BY <1>1
<1>4. IsFiniteSet(0 .. x - 1)
  BY FS_Interval
<1>5. IsFiniteSet(U)
  BY <1>4, FS_Subset
<1> DEFINE f == [n \in T |-> n - 1]
<1>6. f \in [T -> U]
  BY <1>2
<1>7. \A n, m \in T : f[n] = f[m] => n = m
  OBVIOUS
<1> HIDE DEF T, U, f
<1>8. IsFiniteSet(T) /\ Cardinality(T) = Cardinality(U) + 1
  BY <1>3, <1>5, FS_AddElement
<1>9. Cardinality(U) \in Nat
  BY <1>5, FS_CardinalityType
<1>10. \E n, m \in T : n # m /\ f[n] = f[m]
  <2>1. Cardinality(U) < Cardinality(T)
    BY <1>8, <1>9
  <2>2. QED
    BY <1>5, <1>6, <1>8, <2>1, FS_PigeonHole
<1>11. QED
  BY <1>7, <1>10

LEMMA LeastNumber ==
  ASSUME NEW S \in SUBSET Nat, S # {}
  PROVE  \E x \in S : \A y \in S : x <= y
<1> SUFFICES ASSUME \A x \in S : \E y \in S : y < x
             PROVE  FALSE
  OBVIOUS
<1> DEFINE T == {n \in Nat : \A x \in S : n <= x}
<1>1. 0 \in T
  OBVIOUS
<1>2. ASSUME NEW n \in T
      PROVE  n + 1 \in T
  <2>1. n \in Nat /\ \A x \in S : n <= x
    OBVIOUS
  <2>2. ASSUME NEW x \in S
        PROVE  n + 1 <= x
    <3>1. PICK y \in S : y < x
      OBVIOUS
    <3>2. x \in Nat /\ y \in Nat /\ n <= y
      BY <2>1
    <3>3. QED
      BY <2>1, <3>1, <3>2
  <2>3. QED
    BY <2>1, <2>2
<1>3. T \in SUBSET Nat
  OBVIOUS
<1>4. T = Nat
  <2> HIDE DEF T
  <2>1. QED
    BY <1>1, <1>2, <1>3, AllNumbers
<1>5. PICK x \in S : TRUE
  OBVIOUS
<1>6. x \in Nat /\ x + 1 \in T
  BY <1>4
<1>7. QED
  BY <1>5, <1>6

\* There are MaxTasks cids.
LEMMA CidsCounted ==
  /\ MaxTasks \in Nat /\ MaxTasks > 0
  /\ Cid \subseteq Nat
  /\ IsFiniteSet(Cid) /\ Cardinality(Cid) = MaxTasks
<1>1. MaxTasks \in Nat /\ MaxTasks > 0
  BY MaxTasksAssumption
<1>2. PICK a, b \in Int : a = 0 /\ b = MaxTasks - 1
  BY <1>1
<1>3. IsFiniteSet(a .. b) /\ Cardinality(a .. b) = IF a > b THEN 0 ELSE b - a + 1
  BY FS_Interval
<1>4. Cid = a .. b
  BY <1>2 DEF Cid
<1>5. ~ (a > b) /\ b - a + 1 = MaxTasks
  BY <1>1, <1>2
<1>6. QED
  BY <1>1, <1>3, <1>4, <1>5 DEF Cid

LEMMA LowestCid ==
  ASSUME NEW S \in SUBSET Cid, S # {}
  PROVE  LET y == CHOOSE y \in S : \A z \in S : y <= z
         IN  y \in S /\ \A z \in S : y <= z
  BY CidsCounted, LeastNumber

-----------------------------------------------------------------------------
(* One call.                                                               *)

\* The graphs and ages of the instances.
Grown ==
  /\ wfg \subseteq Cid \X Cid
  /\ sid \in [Cid -> 0 .. MaxTasks - 1]

Edge(c, y) == <<c, y>> \in wfg

\* The loop goes on behind y if the calls return `below'.
GoesOn(root, y, below) == y # root /\ below[y].kind = "none"

\* The loop of the call for c ends at y.
EndsAt(root, c, y, below) ==
  /\ Edge(c, y)
  /\ ~ GoesOn(root, y, below)
  /\ \A z \in Cid : z < y /\ Edge(c, z) => GoesOn(root, z, below)

\* What a loop that ends at y returns.
Found(root, y, below) ==
  IF y = root THEN Result("cycle", root) ELSE Younger(Cid, sid, y, below[y])

LEMMA OneCall ==
  ASSUME NEW root \in Cid, NEW c \in Cid, NEW below,
         NEW r, r = WfgFrame(wfg, Cid, sid, root, c, below)
  PROVE  \/ /\ r = Result("none", c)
            /\ \A y \in Cid : Edge(c, y) => GoesOn(root, y, below)
         \/ \E y \in Cid : EndsAt(root, c, y, below) /\ r = Found(root, y, below)
<1> DEFINE answer == [y \in Successors(wfg, c) |->
                        IF Closes(c, y, root)
                        THEN Candidate(Cid, y)
                        ELSE Younger(Cid, sid, y, below[y])]
           hits == {y \in DOMAIN answer : answer[y].kind # "none"}
           lowest == CHOOSE y \in hits : \A z \in hits : y <= z
<1>1. r = IF hits = {} THEN Result("none", c) ELSE answer[lowest]
  BY DEF WfgFrame
<1>2. ASSUME NEW y \in Cid, Edge(c, y)
      PROVE  y \in DOMAIN answer /\ answer[y] = Found(root, y, below)
  BY <1>2 DEF Edge, Successors, Closes, Found, Candidate
<1>3. \A y \in DOMAIN answer : y \in Cid /\ Edge(c, y)
  BY DEF Edge, Successors
<1>4. ASSUME NEW y \in Cid
      PROVE  Found(root, y, below).kind = "none" <=> GoesOn(root, y, below)
  BY DEF Found, GoesOn, Younger, Candidate, Result
<1> HIDE DEF answer
<1>5. \A y \in Cid : y \in hits <=> Edge(c, y) /\ ~ GoesOn(root, y, below)
  BY <1>2, <1>3, <1>4
<1>6. hits \in SUBSET Cid
  BY <1>3
<1>7. CASE hits = {}
  BY <1>1, <1>5, <1>7
<1>8. CASE hits # {}
  <2> HIDE DEF hits
  <2>1. lowest \in hits /\ \A z \in hits : lowest <= z
    BY <1>6, <1>8, LowestCid
  <2>2. PICK y : y = lowest
    OBVIOUS
  <2> HIDE DEF lowest
  <2>3. y \in hits /\ (\A z \in hits : y <= z) /\ y \in Cid
    BY <1>6, <2>1, <2>2
  <2>4. \A z \in Cid : z < y => z \notin hits
    <3>1. \A z \in Cid : z \in Nat /\ y \in Nat
      BY <2>3, CidsCounted
    <3>2. QED
      BY <2>3, <3>1
  <2>5. EndsAt(root, c, y, below)
    BY <1>5, <2>3, <2>4 DEF EndsAt
  <2>6. r = Found(root, y, below)
    BY <1>1, <1>2, <1>5, <1>8, <2>2, <2>3
  <2>7. QED
    BY <2>3, <2>5, <2>6
<1>9. QED
  BY <1>7, <1>8

-----------------------------------------------------------------------------
(* The recursion.                                                          *)

\* f[k] is what the calls return that have k frames left.
Levels(f, n, root) ==
  f = [k \in 0 .. n |->
         [c \in Cid |->
            IF k = 0
            THEN Result("overflow", c)
            ELSE WfgFrame(wfg, Cid, sid, root, c, f[k - 1])]]

LEMMA LevelSteps ==
  ASSUME NEW root, NEW n \in Nat, NEW f, Levels(f, n, root)
  PROVE  /\ \A c \in Cid : f[0][c] = Result("overflow", c)
         /\ \A k \in 1 .. n : \A c \in Cid :
              f[k][c] = WfgFrame(wfg, Cid, sid, root, c, f[k - 1])
<1>1. f = [k \in 0 .. n |->
             [c \in Cid |->
                IF k = 0
                THEN Result("overflow", c)
                ELSE WfgFrame(wfg, Cid, sid, root, c, f[k - 1])]]
  BY DEF Levels
<1>2. \A k \in 0 .. n :
        f[k] = [c \in Cid |->
                  IF k = 0
                  THEN Result("overflow", c)
                  ELSE WfgFrame(wfg, Cid, sid, root, c, f[k - 1])]
  BY <1>1
<1>3. 0 \in 0 .. n /\ \A k \in 1 .. n : k \in 0 .. n /\ k # 0
  OBVIOUS
<1>4. QED
  BY <1>2, <1>3

LEMMA LevelsExist ==
  ASSUME NEW root, NEW n \in Nat
  PROVE  \E f : Levels(f, n, root)
<1> DEFINE S == {k \in Nat : \E f : Levels(f, k, root)}
           Call(c, below) == WfgFrame(wfg, Cid, sid, root, c, below)
           Base == [c \in Cid |-> Result("overflow", c)]
           Next1(below) == [c \in Cid |-> Call(c, below)]
<1>1. 0 \in S
  <2>1. PICK f : f = [k \in 0 .. 0 |-> Base]
    OBVIOUS
  <2>2. f = [k \in 0 .. 0 |->
               [c \in Cid |-> IF k = 0 THEN Result("overflow", c) ELSE Call(c, f[k - 1])]]
    BY <2>1
  <2>3. Levels(f, 0, root)
    BY <2>2 DEF Levels
  <2>4. QED
    BY <2>3
<1>2. ASSUME NEW m \in S
      PROVE  m + 1 \in S
  <2>1. m \in Nat
    OBVIOUS
  <2>2. PICK f : Levels(f, m, root)
    OBVIOUS
  <2>3. /\ f[0] = Base
        /\ \A k \in 1 .. m : f[k] = Next1(f[k - 1])
    <3>1. f = [k \in 0 .. m |->
                 [c \in Cid |-> IF k = 0 THEN Result("overflow", c) ELSE Call(c, f[k - 1])]]
      BY <2>2 DEF Levels
    <3>2. \A k \in 0 .. m :
            f[k] = [c \in Cid |-> IF k = 0 THEN Result("overflow", c) ELSE Call(c, f[k - 1])]
      BY <3>1
    <3>3. 0 \in 0 .. m /\ \A k \in 1 .. m : k \in 0 .. m /\ k # 0
      BY <2>1
    <3> HIDE DEF Call
    <3>4. QED
      BY <3>2, <3>3
  <2>4. PICK l : l = Next1(f[m])
    OBVIOUS
  <2>5. PICK g : g = [k \in 0 .. m + 1 |-> IF k = m + 1 THEN l ELSE f[k]]
    OBVIOUS
  <2>6. ASSUME NEW k \in 0 .. m + 1
        PROVE  g[k] = IF k = 0 THEN Base ELSE Next1(g[k - 1])
    <3> HIDE DEF Base, Next1
    <3>1. CASE k = 0
      <4>1. g[0] = f[0]
        BY <2>1, <2>5
      <4>2. QED
        BY <2>3, <3>1, <4>1
    <3>2. CASE k = m + 1
      <4>1. k - 1 = m /\ k # 0 /\ m \in 0 .. m + 1 /\ m # m + 1
        BY <2>1, <3>2
      <4>2. g[m] = f[m] /\ g[m + 1] = l
        BY <2>1, <2>5, <4>1
      <4>3. QED
        BY <2>4, <3>2, <4>1, <4>2
    <3>3. CASE k # 0 /\ k # m + 1
      <4>1. /\ k \in 1 .. m /\ k - 1 \in 0 .. m + 1 /\ k - 1 # m + 1
        BY <2>1, <3>3
      <4>2. g[k] = f[k] /\ g[k - 1] = f[k - 1]
        BY <2>5, <3>3, <4>1
      <4>3. QED
        BY <2>3, <3>3, <4>1, <4>2
    <3>4. QED
      BY <3>1, <3>2, <3>3
  <2>7. \A k \in 0 .. m + 1 :
          g[k] = [c \in Cid |-> IF k = 0 THEN Result("overflow", c) ELSE Call(c, g[k - 1])]
    <3>1. \A k \in 0 .. m + 1 : k = 0 \/ k # 0
      OBVIOUS
    <3> HIDE DEF Call
    <3>2. QED
      BY <2>6, <3>1
  <2>8. g = [k \in 0 .. m + 1 |->
               [c \in Cid |-> IF k = 0 THEN Result("overflow", c) ELSE Call(c, g[k - 1])]]
    <3> HIDE DEF Call
    <3>1. g = [k \in 0 .. m + 1 |-> g[k]]
      BY <2>5
    <3>2. QED
      BY <2>7, <3>1
  <2>9. Levels(g, m + 1, root)
    BY <2>8 DEF Levels
  <2>10. QED
    BY <2>1, <2>9
<1>3. S = Nat
  <2> HIDE DEF S
  <2>1. S \in SUBSET Nat
    BY DEF S
  <2>2. QED
    BY <1>1, <1>2, <2>1, AllNumbers
<1>4. QED
  BY <1>3

\* The answer for a root is at the top level.
LEMMA AnswerIsLevel ==
  ASSUME NEW root
  PROVE  \E f : Levels(f, MaxTasks, root) /\ Answer(root) = f[MaxTasks][root]
<1> DEFINE Leveled(f) ==
      f = [k \in 0 .. MaxTasks |->
             [c \in Cid |->
                IF k = 0
                THEN Result("overflow", c)
                ELSE WfgFrame(wfg, Cid, sid, root, c, f[k - 1])]]
<1>1. Answer(root) = (CHOOSE f : Leveled(f))[MaxTasks][root]
  BY DEF Answer, WfgDfs
<1>2. \A f : Leveled(f) <=> Levels(f, MaxTasks, root)
  BY DEF Levels
<1> HIDE DEF Leveled
<1>3. \E f : Leveled(f)
  BY <1>2, CidsCounted, LevelsExist
<1>4. PICK g : g = CHOOSE f : Leveled(f)
  OBVIOUS
<1>5. Leveled(g)
  BY <1>3, <1>4
<1>6. QED
  BY <1>1, <1>2, <1>4, <1>5

LEMMA ResultFields == \A kind, c : Result(kind, c).kind = kind /\ Result(kind, c).cid = c
  BY DEF Result

\* What a call returns, in terms of the calls it makes.
LEMMA LevelCall ==
  ASSUME NEW root \in Cid, NEW n \in Nat, NEW f, Levels(f, n, root),
         NEW k \in 1 .. n, NEW c \in Cid
  PROVE  \/ /\ f[k][c] = Result("none", c)
            /\ \A y \in Cid : Edge(c, y) => GoesOn(root, y, f[k - 1])
         \/ \E y \in Cid : EndsAt(root, c, y, f[k - 1]) /\ f[k][c] = Found(root, y, f[k - 1])
<1>1. PICK below, r : below = f[k - 1] /\ r = f[k][c]
  OBVIOUS
<1>2. r = WfgFrame(wfg, Cid, sid, root, c, below)
  BY <1>1, LevelSteps
<1>3. QED
  BY <1>1, <1>2, OneCall

LEMMA FoundKinds ==
  ASSUME NEW root \in Cid, NEW y \in Cid, NEW below
  PROVE  /\ y = root => Found(root, y, below) = Result("cycle", root)
         /\ y # root /\ below[y].kind # "cycle" => Found(root, y, below) = below[y]
         /\ y # root /\ below[y].kind = "cycle" =>
              \/ /\ sid[below[y].cid] < sid[y]
                 /\ Found(root, y, below) = Result("cycle", y)
              \/ /\ ~ (sid[below[y].cid] < sid[y])
                 /\ Found(root, y, below) = below[y]
  BY DEF Found, Younger, Candidate

LEMMA LevelKinds ==
  ASSUME NEW root \in Cid, NEW n \in Nat, NEW f, Levels(f, n, root)
  PROVE  \A k \in 0 .. n : \A c \in Cid :
           /\ f[k][c].kind \in {"none", "cycle", "overflow"}
           /\ f[k][c].cid \in Cid
<1> DEFINE Good(r) == r.kind \in {"none", "cycle", "overflow"} /\ r.cid \in Cid
           S == {k \in Nat : k <= n => \A c \in Cid : Good(f[k][c])}
<1>1. 0 \in S
  <2>1. ASSUME NEW c \in Cid
        PROVE  Good(f[0][c])
    <3>1. f[0][c] = Result("overflow", c)
      BY LevelSteps
    <3>2. Good(Result("overflow", c))
      BY DEF Result
    <3>3. QED
      BY <3>1, <3>2
  <2>2. QED
    BY <2>1
<1>2. ASSUME NEW j \in S
      PROVE  j + 1 \in S
  <2>1. j \in Nat
    OBVIOUS
  <2>2. SUFFICES ASSUME j + 1 <= n, NEW c \in Cid
                 PROVE  Good(f[j + 1][c])
    BY <2>1
  <2>3. PICK k : k = j + 1
    OBVIOUS
  <2>4. k \in 1 .. n /\ k - 1 = j /\ j <= n
    BY <2>1, <2>2, <2>3
  <2>5. \A y \in Cid : Good(f[k - 1][y])
    BY <2>4
  <2>6. CASE f[k][c] = Result("none", c)
    BY <2>3, <2>6 DEF Result
  <2>7. ASSUME NEW y \in Cid, f[k][c] = Found(root, y, f[k - 1])
        PROVE  Good(f[k][c])
    <3>1. Good(f[k - 1][y])
      BY <2>5
    <3>2. f[k][c] \in {Result("cycle", root), Result("cycle", y), f[k - 1][y]}
      BY <2>7, FoundKinds
    <3>3. QED
      BY <3>1, <3>2 DEF Result
  <2>8. QED
    BY <2>3, <2>4, <2>6, <2>7, LevelCall
<1>3. S = Nat
  <2> HIDE DEF S
  <2>1. S \in SUBSET Nat
    BY DEF S
  <2>2. QED
    BY <1>1, <1>2, <2>1, AllNumbers
<1>4. QED
  BY <1>3

\* More frames do not change an answer.
LEMMA LevelsAgree ==
  ASSUME NEW root \in Cid, NEW n \in Nat, NEW f, Levels(f, n, root)
  PROVE  \A k \in 1 .. n : \A c \in Cid :
           f[k - 1][c].kind # "overflow" => f[k][c] = f[k - 1][c]
<1> DEFINE S == {k \in Nat : k + 1 <= n =>
                   \A c \in Cid : f[k][c].kind # "overflow" => f[k + 1][c] = f[k][c]}
<1>1. 0 \in S
  <2>1. \A c \in Cid : f[0][c] = Result("overflow", c)
    BY LevelSteps
  <2>2. \A c \in Cid : f[0][c].kind = "overflow"
    BY <2>1, ResultFields
  <2>3. QED
    BY <2>2
<1>2. ASSUME NEW j \in S
      PROVE  j + 1 \in S
  <2>1. j \in Nat
    OBVIOUS
  <2>2. SUFFICES ASSUME (j + 1) + 1 <= n, NEW c \in Cid, f[j + 1][c].kind # "overflow"
                 PROVE  f[(j + 1) + 1][c] = f[j + 1][c]
    BY <2>1
  <2>3. PICK k, m : k = j + 1 /\ m = (j + 1) + 1
    OBVIOUS
  <2>4. k \in 1 .. n /\ m \in 1 .. n /\ k - 1 = j /\ m - 1 = k /\ j + 1 <= n
    BY <2>1, <2>2, <2>3
  <2>5. \A y \in Cid : f[j][y].kind # "overflow" => f[k][y] = f[j][y]
    BY <2>3, <2>4
  <2>6. \/ /\ f[k][c] = Result("none", c)
           /\ \A y \in Cid : Edge(c, y) => GoesOn(root, y, f[j])
        \/ \E y \in Cid : EndsAt(root, c, y, f[j]) /\ f[k][c] = Found(root, y, f[j])
    BY <2>4, LevelCall
  <2>7. \/ /\ f[m][c] = Result("none", c)
           /\ \A y \in Cid : Edge(c, y) => GoesOn(root, y, f[k])
        \/ \E y \in Cid : EndsAt(root, c, y, f[k]) /\ f[m][c] = Found(root, y, f[k])
    BY <2>4, LevelCall
  <2>8. \A y \in Cid : GoesOn(root, y, f[j]) => GoesOn(root, y, f[k])
    BY <2>5 DEF GoesOn
  <2>9. CASE /\ f[k][c] = Result("none", c)
             /\ \A y \in Cid : Edge(c, y) => GoesOn(root, y, f[j])
    <3>1. \A y \in Cid : ~ EndsAt(root, c, y, f[k])
      BY <2>8, <2>9 DEF EndsAt
    <3>2. QED
      BY <2>3, <2>7, <2>9, <3>1
  <2>10. ASSUME NEW y \in Cid, EndsAt(root, c, y, f[j]), f[k][c] = Found(root, y, f[j])
         PROVE  f[m][c] = f[k][c]
    <3>1. y # root => f[j][y].kind # "overflow"
      <4>1. CASE f[j][y].kind = "overflow" /\ y # root
        BY <2>2, <2>3, <2>10, <4>1, FoundKinds
      <4>2. QED
        BY <4>1
    <3>2. y # root => f[k][y] = f[j][y]
      BY <2>5, <3>1
    <3>3. Edge(c, y) /\ ~ GoesOn(root, y, f[k])
      BY <2>10, <3>2 DEF EndsAt, GoesOn
    <3>4. PICK z \in Cid : EndsAt(root, c, z, f[k]) /\ f[m][c] = Found(root, z, f[k])
      BY <2>7, <3>3
    <3>5. ~ (y < z)
      BY <3>3, <3>4 DEF EndsAt
    <3>6. ~ (z < y)
      BY <2>8, <2>10, <3>4 DEF EndsAt
    <3>7. y = z
      BY <3>5, <3>6, CidsCounted
    <3>8. Found(root, y, f[k]) = Found(root, y, f[j])
      BY <3>2 DEF Found
    <3>9. QED
      BY <2>10, <3>4, <3>7, <3>8
  <2>11. QED
    BY <2>3, <2>6, <2>9, <2>10
<1>3. S = Nat
  <2> HIDE DEF S
  <2>1. S \in SUBSET Nat
    BY DEF S
  <2>2. QED
    BY <1>1, <1>2, <2>1, AllNumbers
<1>4. QED
  <2>1. ASSUME NEW k \in 1 .. n
        PROVE  \A c \in Cid : f[k - 1][c].kind # "overflow" => f[k][c] = f[k - 1][c]
    <3>1. PICK j \in Nat : j = k - 1
      OBVIOUS
    <3>2. j + 1 = k /\ j + 1 <= n
      BY <3>1
    <3>3. j \in S
      <4> HIDE DEF S
      <4>1. QED
        BY <1>3
    <3>4. QED
      BY <3>1, <3>2, <3>3
  <2>2. QED
    BY <2>1

-----------------------------------------------------------------------------
(* No cycle is missed.                                                     *)

\* A walk along the edges of the graph, of n nodes.
Walk(p, n) == \A i \in 1 .. n - 1 : Edge(p[i], p[i + 1])

Distinct(p, n) == \A i, j \in 1 .. n : p[i] = p[j] => i = j

LEMMA DistinctBounded ==
  ASSUME NEW S \in SUBSET Cid, NEW n \in Nat, NEW p \in [1 .. n -> S], Distinct(p, n)
  PROVE  n <= Cardinality(S)
<1>1. IsFiniteSet(S)
  BY CidsCounted, FS_Subset
<1>2. p \in Injection(1 .. n, S)
  BY DEF Distinct, Injection, IsInjective
<1>3. PICK N : N = 1 .. n
  OBVIOUS
<1>4. Cardinality(N) <= Cardinality(S)
  BY <1>1, <1>2, <1>3, FS_Injection
<1>5. Cardinality(N) = n
  <2>1. PICK a, b \in Int : a = 1 /\ b = n
    OBVIOUS
  <2>2. Cardinality(a .. b) = IF a > b THEN 0 ELSE b - a + 1
    BY FS_Interval
  <2>3. QED
    BY <1>3, <2>1, <2>2
<1>6. QED
  BY <1>4, <1>5

LEMMA MakesCycle ==
  ASSUME NEW S \in SUBSET Cid, NEW n \in Nat \ {0}, NEW p \in [1 .. n -> S],
         Distinct(p, n), Walk(p, n), Edge(p[n], p[1])
  PROVE  p \in Cycles(p[1], S)
<1>1. n <= Cardinality(S) /\ Cardinality(S) \in Nat
  BY DistinctBounded, CidsCounted, FS_Subset, FS_CardinalityType
<1>2. n \in 1 .. Cardinality(S)
  BY <1>1
<1>3. p \in UNION {[1 .. m -> S] : m \in 1 .. Cardinality(S)}
  BY <1>2
<1>4. DOMAIN p = 1 .. n
  OBVIOUS
<1>5. \A i, j \in DOMAIN p : p[i] = p[j] => i = j
  BY <1>4 DEF Distinct
<1>6. ASSUME NEW i \in DOMAIN p
      PROVE  <<p[i], p[IF i + 1 \in DOMAIN p THEN i + 1 ELSE 1]>> \in wfg
  <2>1. CASE i \in 1 .. n - 1
    <3>1. i + 1 \in DOMAIN p
      BY <1>4, <2>1
    <3>2. QED
      BY <2>1, <3>1 DEF Walk, Edge
  <2>2. CASE i \notin 1 .. n - 1
    <3>1. i = n /\ i + 1 \notin DOMAIN p
      BY <1>4, <2>2
    <3>2. QED
      BY <3>1 DEF Edge
  <2>3. QED
    BY <2>1, <2>2
<1>7. QED
  BY <1>3, <1>5, <1>6 DEF Cycles

LEMMA CycleIs ==
  ASSUME NEW c, NEW p \in Cycles(c, Cid)
  PROVE  \E n \in Nat \ {0} :
           p \in [1 .. n -> Cid] /\ p[1] = c /\ Walk(p, n) /\ Edge(p[n], c)
<1>1. /\ p \in UNION {[1 .. m -> Cid] : m \in 1 .. Cardinality(Cid)}
      /\ p[1] = c
      /\ \A i \in DOMAIN p : <<p[i], p[IF i + 1 \in DOMAIN p THEN i + 1 ELSE 1]>> \in wfg
  BY DEF Cycles
<1>2. PICK n \in 1 .. Cardinality(Cid) : p \in [1 .. n -> Cid]
  BY <1>1
<1>3. n \in Nat \ {0} /\ DOMAIN p = 1 .. n
  BY <1>2
<1>4. ASSUME NEW i \in 1 .. n - 1
      PROVE  Edge(p[i], p[i + 1])
  <2>1. i \in DOMAIN p /\ i + 1 \in DOMAIN p
    BY <1>3
  <2>2. QED
    BY <1>1, <2>1 DEF Edge
<1>5. n \in DOMAIN p /\ n + 1 \notin DOMAIN p
  BY <1>3
<1>6. Edge(p[n], c)
  BY <1>1, <1>5 DEF Edge
<1>7. QED
  BY <1>1, <1>2, <1>3, <1>4, <1>6 DEF Walk

\* What a node without a cycle leads to has none either, and is not the root.
LEMMA NoneBelowNone ==
  ASSUME NEW root \in Cid, NEW n \in Nat \ {0}, NEW f, Levels(f, n, root),
         NEW c \in Cid, f[n][c].kind = "none", NEW y \in Cid, Edge(c, y)
  PROVE  y # root /\ f[n][y].kind = "none"
<1>1. n \in 1 .. n /\ n - 1 \in 0 .. n
  OBVIOUS
<1>2. GoesOn(root, y, f[n - 1])
  <2>1. ASSUME NEW z \in Cid, EndsAt(root, c, z, f[n - 1]), f[n][c] = Found(root, z, f[n - 1])
        PROVE  FALSE
    <3>1. f[n - 1][z].kind # "none" \/ z = root
      BY <2>1 DEF EndsAt, GoesOn
    <3>2. f[n][c] \in {Result("cycle", root), Result("cycle", z)} \/ (z # root /\ f[n][c] = f[n - 1][z])
      BY <2>1, FoundKinds
    <3>3. f[n][c].kind # "none"
      BY <3>1, <3>2, ResultFields
    <3>4. QED
      BY <3>3
  <2>2. QED
    BY <1>1, <2>1, LevelCall
<1>3. f[n][y] = f[n - 1][y]
  BY <1>1, <1>2, LevelsAgree DEF GoesOn
<1>4. QED
  BY <1>2, <1>3 DEF GoesOn

LEMMA NoneMissed ==
  ASSUME NEW root \in Cid, Answer(root).kind = "none"
  PROVE  Cycles(root, Cid) = {}
<1> SUFFICES ASSUME NEW p \in Cycles(root, Cid)
             PROVE  FALSE
  OBVIOUS
<1>1. PICK f : Levels(f, MaxTasks, root) /\ Answer(root) = f[MaxTasks][root]
  BY AnswerIsLevel
<1>2. PICK n \in Nat \ {0} :
        p \in [1 .. n -> Cid] /\ p[1] = root /\ Walk(p, n) /\ Edge(p[n], root)
  BY CycleIs
<1> DEFINE None(c) == f[MaxTasks][c].kind = "none"
           S == {i \in Nat : i + 1 <= n => None(p[i + 1])}
<1>3. ASSUME NEW c \in Cid, None(c), NEW y \in Cid, Edge(c, y)
      PROVE  y # root /\ None(y)
  BY <1>1, <1>3, CidsCounted, NoneBelowNone
<1> HIDE DEF None
<1>4. 0 \in S
  <2>1. None(p[1])
    BY <1>1, <1>2 DEF None
  <2>2. QED
    BY <2>1
<1>5. ASSUME NEW i \in S
      PROVE  i + 1 \in S
  <2>1. i \in Nat
    OBVIOUS
  <2>2. SUFFICES ASSUME (i + 1) + 1 <= n
                 PROVE  None(p[(i + 1) + 1])
    BY <2>1
  <2>3. PICK j, k : j = i + 1 /\ k = (i + 1) + 1
    OBVIOUS
  <2>4. /\ j \in 1 .. n - 1 /\ j + 1 = k /\ i + 1 <= n
        /\ j \in 1 .. n /\ k \in 1 .. n
    BY <1>2, <2>1, <2>2, <2>3
  <2>5. None(p[j])
    BY <2>3, <2>4
  <2>6. Edge(p[j], p[k])
    BY <1>2, <2>4 DEF Walk
  <2>7. None(p[k])
    BY <1>2, <1>3, <2>4, <2>5, <2>6
  <2>8. QED
    BY <2>3, <2>7
<1>6. S = Nat
  <2> HIDE DEF S
  <2>1. S \in SUBSET Nat
    BY DEF S
  <2>2. QED
    BY <1>4, <1>5, <2>1, AllNumbers
<1>7. None(p[n])
  <2>1. PICK i \in Nat : i + 1 = n
    BY <1>2
  <2>2. i \in S
    <3> HIDE DEF S
    <3>1. QED
      BY <1>6
  <2>3. QED
    BY <2>1, <2>2
<1>8. QED
  BY <1>2, <1>3, <1>7

-----------------------------------------------------------------------------
(* A search that never returns.                                            *)

LEMMA WalkMeetsItself ==
  ASSUME NEW S \in SUBSET Cid, NEW m \in Nat, Cardinality(S) < m,
         NEW q \in [1 .. m -> S], Walk(q, m)
  PROVE  \E c \in S : Cycles(c, S) # {}
<1> DEFINE Back(i, d) == i \in 1 .. m /\ i + d \in 1 .. m /\ q[i] = q[i + d]
           D == {d \in Nat \ {0} : \E i \in 1 .. m : Back(i, d)}
<1>1. \E i, j \in 1 .. m : i # j /\ q[i] = q[j]
  <2>1. PICK a, b \in Int : a = 1 /\ b = m
    OBVIOUS
  <2>2. IsFiniteSet(a .. b) /\ Cardinality(a .. b) = IF a > b THEN 0 ELSE b - a + 1
    BY FS_Interval
  <2>3. IsFiniteSet(1 .. m) /\ Cardinality(1 .. m) = m
    BY <2>1, <2>2
  <2>4. IsFiniteSet(S)
    BY CidsCounted, FS_Subset
  <2>5. PICK N : N = 1 .. m
    OBVIOUS
  <2>6. \E i, j \in N : i # j /\ q[i] = q[j]
    BY <2>3, <2>4, <2>5, FS_PigeonHole
  <2>7. QED
    BY <2>5, <2>6
<1>2. D # {}
  <2>1. PICK i, j \in 1 .. m : i # j /\ q[i] = q[j]
    BY <1>1
  <2>2. CASE i < j
    <3>1. PICK d \in Nat \ {0} : d = j - i /\ i + d = j
      BY <2>2
    <3>2. QED
      BY <2>1, <3>1
  <2>3. CASE j < i
    <3>1. PICK d \in Nat \ {0} : d = i - j /\ j + d = i
      BY <2>3
    <3>2. QED
      BY <2>1, <3>1
  <2>4. QED
    BY <2>1, <2>2, <2>3
<1>3. PICK d \in D : \A e \in D : d <= e
  <2>1. D \in SUBSET Nat
    OBVIOUS
  <2> HIDE DEF D
  <2>2. QED
    BY <1>2, <2>1, LeastNumber
<1>4. d \in Nat \ {0}
  OBVIOUS
<1>5. PICK i \in 1 .. m : Back(i, d)
  OBVIOUS
<1>6. PICK p : p = [k \in 1 .. d |-> q[i + k - 1]]
  OBVIOUS
<1>7. ASSUME NEW k \in 1 .. d
      PROVE  i + k - 1 \in 1 .. m /\ p[k] = q[i + k - 1]
  BY <1>4, <1>5, <1>6
<1>8. p \in [1 .. d -> S]
  BY <1>6, <1>7
<1>9. ASSUME NEW a \in 1 .. d, NEW b \in 1 .. d, a < b
      PROVE  p[a] # p[b]
  <2> SUFFICES ASSUME p[a] = p[b]
               PROVE  FALSE
    OBVIOUS
  <2>1. PICK g, h \in 1 .. m : g = i + a - 1 /\ h = i + b - 1
    BY <1>7
  <2>2. q[g] = q[h]
    BY <1>7, <2>1
  <2>3. PICK e \in Nat \ {0} : e = b - a
    BY <1>9
  <2>4. g + e = h /\ e < d
    BY <1>4, <1>5, <2>1, <2>3
  <2>5. Back(g, e)
    BY <2>1, <2>2, <2>4
  <2>6. e \in D
    BY <2>3, <2>5
  <2>7. d <= e
    BY <1>3, <2>6
  <2>8. QED
    BY <1>4, <2>3, <2>4, <2>7
<1>10. Distinct(p, d)
  <2>1. ASSUME NEW a \in 1 .. d, NEW b \in 1 .. d, a # b
        PROVE  p[a] # p[b]
    <3>1. a < b \/ b < a
      BY <1>4, <2>1
    <3>2. QED
      BY <1>9, <3>1
  <2>2. QED
    BY <2>1 DEF Distinct
<1>11. Walk(p, d)
  <2>1. ASSUME NEW k \in 1 .. d - 1
        PROVE  Edge(p[k], p[k + 1])
    <3>1. k \in 1 .. d /\ k + 1 \in 1 .. d
      BY <1>4
    <3>2. PICK g, h \in 1 .. m : g = i + k - 1 /\ h = i + (k + 1) - 1
      BY <1>7, <3>1
    <3>3. p[k] = q[g] /\ p[k + 1] = q[h]
      BY <1>7, <3>1, <3>2
    <3>4. h = g + 1 /\ g \in 1 .. m - 1
      BY <1>4, <1>5, <3>2
    <3>5. QED
      BY <3>3, <3>4 DEF Walk
  <2>2. QED
    BY <2>1 DEF Walk
<1>12. Edge(p[d], p[1])
  <2>1. d \in 1 .. d /\ 1 \in 1 .. d
    BY <1>4
  <2>2. PICK g, h \in 1 .. m : g = i + d - 1 /\ h = i + d
    BY <1>5, <1>7, <2>1
  <2>3. p[d] = q[g] /\ p[1] = q[i] /\ q[i] = q[h]
    <3>1. i + 1 - 1 = i
      BY <1>5
    <3>2. QED
      BY <1>5, <1>7, <2>1, <2>2, <3>1
  <2>4. h = g + 1 /\ g \in 1 .. m - 1
    BY <1>4, <1>5, <2>2
  <2>5. QED
    BY <2>3, <2>4 DEF Walk
<1>13. p \in Cycles(p[1], S) /\ p[1] \in S
  <2> HIDE DEF D
  <2>1. p \in Cycles(p[1], S)
    BY <1>4, <1>8, <1>10, <1>11, <1>12, MakesCycle
  <2>2. 1 \in 1 .. d
    BY <1>4
  <2>3. QED
    BY <1>8, <2>1, <2>2
<1>14. QED
  BY <1>13

\* A call that overflows is made by one that overflows, with one frame less.
LEMMA OverflowBelow ==
  ASSUME NEW root \in Cid, NEW n \in Nat, NEW f, Levels(f, n, root),
         NEW k \in 1 .. n, NEW c \in Cid, f[k][c].kind = "overflow"
  PROVE  \E y \in Cid \ {root} : Edge(c, y) /\ f[k - 1][y].kind = "overflow"
<1>1. f[k][c] # Result("none", c)
  BY ResultFields
<1>2. PICK y \in Cid : EndsAt(root, c, y, f[k - 1]) /\ f[k][c] = Found(root, y, f[k - 1])
  BY <1>1, LevelCall
<1>3. f[k][c] \in {Result("cycle", root), Result("cycle", y)} \/ (y # root /\ f[k][c] = f[k - 1][y])
  BY <1>2, FoundKinds
<1>4. y # root /\ f[k][c] = f[k - 1][y]
  BY <1>3, ResultFields
<1>5. QED
  BY <1>2, <1>4 DEF EndsAt

\* The first m steps of a search that never returns.
Endless(f, root, q, m) ==
  /\ q \in [1 .. m -> Cid \ {root}]
  /\ Walk(q, m)
  /\ f[MaxTasks - m][q[m]].kind = "overflow"

LEMMA EndlessGoesOn ==
  ASSUME NEW root \in Cid, NEW f, Levels(f, MaxTasks, root),
         NEW m \in 1 .. MaxTasks - 1, NEW q, Endless(f, root, q, m)
  PROVE  \E r : Endless(f, root, r, m + 1)
<1>1. MaxTasks \in Nat
  BY CidsCounted
<1>2. PICK k \in 1 .. MaxTasks : k = MaxTasks - m /\ k - 1 = MaxTasks - (m + 1)
  BY <1>1
<1>3. m \in 1 .. m /\ m \in Nat
  BY <1>1
<1>4. q[m] \in Cid /\ f[k][q[m]].kind = "overflow"
  BY <1>2, <1>3 DEF Endless
<1>5. PICK y \in Cid \ {root} : Edge(q[m], y) /\ f[k - 1][y].kind = "overflow"
  BY <1>1, <1>2, <1>4, OverflowBelow
<1>6. PICK r : r = [i \in 1 .. m + 1 |-> IF i = m + 1 THEN y ELSE q[i]]
  OBVIOUS
<1>7. /\ r[m + 1] = y
      /\ \A i \in 1 .. m : r[i] = q[i]
  BY <1>1, <1>6
<1>8. r \in [1 .. m + 1 -> Cid \ {root}]
  <2>1. \A i \in 1 .. m + 1 : i = m + 1 \/ i \in 1 .. m
    BY <1>1
  <2>2. \A i \in 1 .. m : q[i] \in Cid \ {root}
    BY DEF Endless
  <2>3. \A i \in 1 .. m + 1 : r[i] \in Cid \ {root}
    BY <1>5, <1>7, <2>1, <2>2
  <2>4. QED
    BY <1>6, <2>3
<1>9. Walk(r, m + 1)
  <2>1. ASSUME NEW i \in 1 .. (m + 1) - 1
        PROVE  Edge(r[i], r[i + 1])
    <3>1. i \in 1 .. m
      BY <1>1
    <3>2. CASE i = m
      BY <1>5, <1>7, <3>1, <3>2
    <3>3. CASE i # m
      <4>1. i \in 1 .. m - 1 /\ i + 1 \in 1 .. m
        BY <1>1, <3>1, <3>3
      <4>2. Edge(q[i], q[i + 1])
        BY <4>1 DEF Endless, Walk
      <4>3. QED
        BY <1>7, <3>1, <4>1, <4>2
    <3>4. QED
      BY <3>2, <3>3
  <2>2. QED
    BY <2>1 DEF Walk
<1>10. Endless(f, root, r, m + 1)
  BY <1>2, <1>5, <1>7, <1>8, <1>9 DEF Endless
<1>11. QED
  BY <1>10

LEMMA EndlessPast ==
  ASSUME NEW root \in Cid, Answer(root).kind = "overflow"
  PROVE  \E c \in Cid \ {root} : Cycles(c, Cid \ {root}) # {}
<1>1. PICK f : Levels(f, MaxTasks, root) /\ Answer(root) = f[MaxTasks][root]
  BY AnswerIsLevel
<1>2. PICK M \in Nat \ {0} : M = MaxTasks
  BY CidsCounted
<1> DEFINE S == {m \in Nat : m + 1 <= M => \E q : Endless(f, root, q, m + 1)}
<1>3. 0 \in S
  <2>1. M \in 1 .. M /\ M = MaxTasks
    BY <1>2
  <2>2. PICK y \in Cid \ {root} : Edge(root, y) /\ f[M - 1][y].kind = "overflow"
    BY <1>1, <1>2, <2>1, OverflowBelow
  <2>3. PICK q : q = [i \in 1 .. 1 |-> y]
    OBVIOUS
  <2>4. q \in [1 .. 1 -> Cid \ {root}] /\ q[1] = y
    BY <2>3
  <2>5. Walk(q, 1)
    BY DEF Walk
  <2>6. Endless(f, root, q, 1)
    BY <1>2, <2>2, <2>4, <2>5 DEF Endless
  <2>7. QED
    BY <2>6
<1>4. ASSUME NEW m \in S
      PROVE  m + 1 \in S
  <2>1. m \in Nat
    OBVIOUS
  <2>2. SUFFICES ASSUME (m + 1) + 1 <= M
                 PROVE  \E q : Endless(f, root, q, (m + 1) + 1)
    BY <2>1
  <2>3. PICK l : l = m + 1
    OBVIOUS
  <2>4. l \in 1 .. MaxTasks - 1 /\ m + 1 <= M
    BY <1>2, <2>1, <2>2, <2>3
  <2>5. PICK q : Endless(f, root, q, l)
    BY <2>3, <2>4
  <2>6. \E r : Endless(f, root, r, l + 1)
    BY <1>1, <2>4, <2>5, EndlessGoesOn
  <2>7. QED
    BY <2>3, <2>6
<1>5. S = Nat
  <2> HIDE DEF S
  <2>1. S \in SUBSET Nat
    BY DEF S
  <2>2. QED
    BY <1>3, <1>4, <2>1, AllNumbers
<1>6. PICK q : Endless(f, root, q, M)
  <2>1. PICK m \in Nat : m + 1 = M
    BY <1>2
  <2>2. m \in S
    <3> HIDE DEF S
    <3>1. QED
      BY <1>5
  <2>3. QED
    BY <2>1, <2>2
<1>7. PICK O : O = Cid \ {root}
  OBVIOUS
<1>8. Cardinality(O) < M
  <2>1. Cardinality(O) = Cardinality(Cid) - 1
    BY <1>7, CidsCounted, FS_RemoveElement
  <2>2. QED
    BY <1>2, <2>1, CidsCounted
<1>9. O \in SUBSET Cid /\ q \in [1 .. M -> O] /\ Walk(q, M)
  BY <1>6, <1>7 DEF Endless
<1>10. \E c \in O : Cycles(c, O) # {}
  BY <1>2, <1>8, <1>9, WalkMeetsItself
<1>11. QED
  BY <1>7, <1>10

-----------------------------------------------------------------------------
(* The victim.                                                             *)

\* A path without repetition from c to the root, which is not on it but as c.
PathTo(root, c, p, n) ==
  /\ n \in Nat \ {0}
  /\ p \in [1 .. n -> Cid]
  /\ p[1] = c
  /\ Distinct(p, n)
  /\ Walk(p, n)
  /\ Edge(p[n], root)
  /\ \A i \in 2 .. n : p[i] # root

\* The candidates on such a path: what the calls behind the first one look at.
Candidates(root, p, n) == {root} \cup {p[i] : i \in 2 .. n}

Youngest(v, B) == v \in B /\ \A b \in B : sid[b] <= sid[v]

\* The victim of the call for c, with k frames left, is the youngest of a path
\* whose calls all find a victim.
HasPath(f, k, root, c) ==
  \E n, p, v, B :
    /\ PathTo(root, c, p, n)
    /\ \A i \in 1 .. n : f[k][p[i]].kind = "cycle"
    /\ v = f[k][c].cid /\ B = Candidates(root, p, n)
    /\ Youngest(v, B)

LEMMA PathOfOne ==
  ASSUME NEW root \in Cid, NEW c \in Cid, Edge(c, root)
  PROVE  \E p : PathTo(root, c, p, 1) /\ Candidates(root, p, 1) = {root}
<1>1. PICK p : p = [i \in 1 .. 1 |-> c]
  OBVIOUS
<1>2. p \in [1 .. 1 -> Cid] /\ p[1] = c
  BY <1>1
<1>3. Distinct(p, 1) /\ Walk(p, 1)
  BY DEF Distinct, Walk
<1>4. PathTo(root, c, p, 1) /\ Candidates(root, p, 1) = {root}
  BY <1>2, <1>3 DEF PathTo, Candidates
<1>5. QED
  BY <1>4

LEMMA PathPrepended ==
  ASSUME NEW root \in Cid, NEW c \in Cid, NEW y \in Cid, y # root, Edge(c, y),
         NEW q, NEW n, PathTo(root, y, q, n), \A i \in 1 .. n : q[i] # c
  PROVE  \E p : /\ PathTo(root, c, p, n + 1)
                /\ p[1] = c /\ \A i \in 1 .. n : p[i + 1] = q[i]
                /\ Candidates(root, p, n + 1) = Candidates(root, q, n) \cup {y}
<1>1. /\ n \in Nat \ {0} /\ q \in [1 .. n -> Cid] /\ q[1] = y
      /\ \A i, j \in 1 .. n : q[i] = q[j] => i = j
      /\ \A i \in 1 .. n - 1 : Edge(q[i], q[i + 1])
      /\ Edge(q[n], root)
      /\ \A i \in 2 .. n : q[i] # root
  BY DEF PathTo, Distinct, Walk
<1>2. PICK p : p = [i \in 1 .. n + 1 |-> IF i = 1 THEN c ELSE q[i - 1]]
  OBVIOUS
<1>3. p[1] = c /\ \A i \in 1 .. n : p[i + 1] = q[i]
  <2>1. 1 \in 1 .. n + 1
    BY <1>1
  <2>2. \A i \in 1 .. n : i + 1 \in 1 .. n + 1 /\ i + 1 # 1 /\ (i + 1) - 1 = i
    BY <1>1
  <2>3. QED
    BY <1>2, <2>1, <2>2
<1>4. \A i \in 1 .. n + 1 : i = 1 \/ \E j \in 1 .. n : i = j + 1
  <2>1. ASSUME NEW i \in 1 .. n + 1, i # 1
        PROVE  \E j \in 1 .. n : i = j + 1
    <3>1. i - 1 \in 1 .. n /\ i = (i - 1) + 1
      BY <1>1, <2>1
    <3>2. QED
      BY <3>1
  <2>2. QED
    BY <2>1
<1>5. p \in [1 .. n + 1 -> Cid]
  <2>1. ASSUME NEW i \in 1 .. n + 1
        PROVE  p[i] \in Cid
    <3>1. CASE i = 1
      BY <1>3, <3>1
    <3>2. CASE \E j \in 1 .. n : i = j + 1
      <4>1. PICK j \in 1 .. n : i = j + 1
        BY <3>2
      <4>2. p[i] = q[j]
        BY <1>3, <4>1
      <4>3. QED
        BY <1>1, <4>2
    <3>3. QED
      BY <1>4, <3>1, <3>2
  <2>2. QED
    BY <1>2, <2>1
<1>6. Distinct(p, n + 1)
  <2>1. ASSUME NEW i \in 1 .. n + 1, NEW j \in 1 .. n + 1, p[i] = p[j]
        PROVE  i = j
    <3>1. CASE i = 1 \/ j = 1
      BY <1>3, <1>4, <2>1, <3>1
    <3>2. CASE i # 1 /\ j # 1
      <4>1. PICK k, l \in 1 .. n : i = k + 1 /\ j = l + 1
        BY <1>4, <3>2
      <4>2. q[k] = q[l]
        BY <1>3, <2>1, <4>1
      <4>3. k = l
        BY <1>1, <4>2
      <4>4. QED
        BY <4>1, <4>3
    <3>3. QED
      BY <3>1, <3>2
  <2>2. QED
    BY <2>1 DEF Distinct
<1>7. Walk(p, n + 1)
  <2>1. ASSUME NEW i \in 1 .. (n + 1) - 1
        PROVE  Edge(p[i], p[i + 1])
    <3>1. i \in 1 .. n /\ i \in 1 .. n + 1
      BY <1>1
    <3>2. CASE i = 1
      BY <1>1, <1>3, <3>1, <3>2
    <3>3. CASE i # 1
      <4>1. PICK k \in 1 .. n : i = k + 1
        BY <1>4, <3>1, <3>3
      <4>2. k \in 1 .. n - 1 /\ k + 1 = i
        BY <1>1, <3>1, <4>1
      <4>3. QED
        BY <1>1, <1>3, <3>1, <4>2
    <3>4. QED
      BY <3>2, <3>3
  <2>2. QED
    BY <2>1 DEF Walk
<1>8. Edge(p[n + 1], root)
  BY <1>1, <1>3
<1>9. \A i \in 2 .. n + 1 : \E j \in 1 .. n : i = j + 1 /\ p[i] = q[j]
  <2>1. ASSUME NEW i \in 2 .. n + 1
        PROVE  i \in 1 .. n + 1 /\ i # 1
    BY <1>1
  <2>2. QED
    BY <1>3, <1>4, <2>1
<1>10. \A j \in 1 .. n : j = 1 \/ j \in 2 .. n
  BY <1>1
<1>11. \A i \in 2 .. n + 1 : p[i] # root
  BY <1>1, <1>9, <1>10
<1>12. Candidates(root, p, n + 1) = Candidates(root, q, n) \cup {y}
  <2>1. \A i \in 2 .. n + 1 : p[i] \in Candidates(root, q, n) \cup {y}
    BY <1>1, <1>9, <1>10 DEF Candidates
  <2>2. \A j \in 1 .. n : q[j] \in Candidates(root, p, n + 1)
    <3>1. \A j \in 1 .. n : j + 1 \in 2 .. n + 1
      BY <1>1
    <3>2. QED
      BY <1>3, <3>1 DEF Candidates
  <2>3. 1 \in 1 .. n /\ \A j \in 2 .. n : j \in 1 .. n
    BY <1>1
  <2>4. y \in Candidates(root, p, n + 1)
    BY <1>1, <2>2, <2>3
  <2>5. QED
    BY <2>1, <2>2, <2>3, <2>4 DEF Candidates
<1>13. n + 1 \in Nat \ {0}
  BY <1>1
<1>14. PathTo(root, c, p, n + 1)
  BY <1>3, <1>5, <1>6, <1>7, <1>8, <1>11, <1>13 DEF PathTo
<1>15. QED
  BY <1>3, <1>12, <1>14

\* The choice between y and the victim below it.
LEMMA YoungestOfMore ==
  ASSUME Grown, NEW B \in SUBSET Cid, NEW v, Youngest(v, B), NEW y \in Cid
  PROVE  /\ sid[v] < sid[y] => Youngest(y, B \cup {y})
         /\ ~ (sid[v] < sid[y]) => Youngest(v, B \cup {y})
<1>1. \A b \in Cid : sid[b] \in Nat
  BY CidsCounted DEF Grown
<1>2. v \in B /\ \A b \in B : sid[b] <= sid[v]
  BY DEF Youngest
<1>3. PICK g, h \in Nat : g = sid[v] /\ h = sid[y]
  BY <1>1, <1>2
<1>4. \A b \in B : sid[b] \in Nat /\ sid[b] <= g
  BY <1>1, <1>2, <1>3
<1>5. CASE g < h
  <2>1. \A b \in B \cup {y} : sid[b] <= h
    <3>1. ASSUME NEW b \in B
          PROVE  sid[b] <= h
      <4>1. PICK e \in Nat : e = sid[b]
        BY <1>4
      <4>2. e <= g
        BY <1>4, <4>1
      <4>3. QED
        BY <1>5, <4>1, <4>2
    <3>2. sid[y] <= h
      BY <1>3
    <3>3. QED
      BY <3>1, <3>2
  <2>2. QED
    BY <1>3, <1>5, <2>1 DEF Youngest
<1>6. CASE ~ (g < h)
  <2>1. h <= g
    BY <1>6
  <2>2. QED
    BY <1>2, <1>3, <1>6, <2>1 DEF Youngest
<1>7. QED
  BY <1>5, <1>6

LEMMA VictimStep ==
  ASSUME Grown, NEW root \in Cid, NEW n \in Nat, NEW f, Levels(f, n, root),
         NEW k \in 1 .. n, NEW c \in Cid,
         \A y \in Cid : f[k - 1][y].kind = "cycle" => HasPath(f, k - 1, root, y),
         f[k][c].kind = "cycle"
  PROVE  HasPath(f, k, root, c)
<1> DEFINE j == k - 1
<1>1. k - 1 \in 0 .. n /\ k \in 0 .. n
  OBVIOUS
<1>2. \A y \in Cid : f[j][y].kind = "cycle" => f[k][y] = f[j][y]
  BY LevelsAgree
<1>3. ASSUME NEW m, NEW y, NEW p, PathTo(root, y, p, m), NEW i \in 1 .. m
      PROVE  p[i] \in Cid
  BY <1>3 DEF PathTo
<1> HIDE DEF j
<1>4. CASE f[j][c].kind = "cycle"
  <2>1. HasPath(f, j, root, c)
    BY <1>4 DEF j
  <2>2. PICK m, p, v, B : /\ PathTo(root, c, p, m)
                          /\ \A i \in 1 .. m : f[j][p[i]].kind = "cycle"
                          /\ v = f[j][c].cid /\ B = Candidates(root, p, m)
                          /\ Youngest(v, B)
    BY <2>1 DEF HasPath
  <2>3. \A i \in 1 .. m : f[k][p[i]].kind = "cycle"
    BY <1>2, <1>3, <2>2
  <2>4. f[k][c] = f[j][c]
    BY <1>2, <1>4
  <2>5. QED
    BY <2>2, <2>3, <2>4 DEF HasPath
<1>5. CASE f[j][c].kind # "cycle"
  <2>1. f[k][c] # Result("none", c)
    BY ResultFields
  <2>2. PICK y \in Cid : EndsAt(root, c, y, f[j]) /\ f[k][c] = Found(root, y, f[j])
    BY <2>1, LevelCall DEF j
  <2>3. Edge(c, y)
    BY <2>2 DEF EndsAt
  <2>4. CASE y = root
    <3>1. PICK p : PathTo(root, c, p, 1) /\ Candidates(root, p, 1) = {root}
      BY <2>3, <2>4, PathOfOne
    <3>2. f[k][c].cid = root
      BY <2>2, <2>4, FoundKinds, ResultFields
    <3>3. PICK B : B = {root}
      OBVIOUS
    <3>4. Youngest(root, B)
      <4>1. PICK e \in Nat : e = sid[root]
        BY CidsCounted DEF Grown
      <4>2. e <= e
        OBVIOUS
      <4>3. QED
        BY <3>3, <4>1, <4>2 DEF Youngest
    <3>5. \A i \in 1 .. 1 : p[i] = c
      BY <3>1 DEF PathTo
    <3>6. QED
      BY <3>1, <3>2, <3>3, <3>4, <3>5 DEF HasPath
  <2>5. CASE y # root
    <3>1. f[j][y].kind = "cycle"
      BY <2>2, <2>5, FoundKinds
    <3>2. HasPath(f, j, root, y)
      BY <3>1 DEF j
    <3>3. PICK m, q, v, B : /\ PathTo(root, y, q, m)
                            /\ \A i \in 1 .. m : f[j][q[i]].kind = "cycle"
                            /\ v = f[j][y].cid /\ B = Candidates(root, q, m)
                            /\ Youngest(v, B)
      BY <3>2 DEF HasPath
    <3>4. m \in Nat /\ \A i \in 1 .. m : q[i] # c
      BY <1>5, <3>3 DEF PathTo
    <3>5. PICK p : /\ PathTo(root, c, p, m + 1)
                   /\ p[1] = c /\ \A i \in 1 .. m : p[i + 1] = q[i]
                   /\ Candidates(root, p, m + 1) = Candidates(root, q, m) \cup {y}
      BY <2>3, <2>5, <3>3, <3>4, PathPrepended
    <3>6. \A i \in 1 .. m + 1 : f[k][p[i]].kind = "cycle"
      <4>1. \A i \in 1 .. m : f[k][q[i]].kind = "cycle"
        BY <1>2, <1>3, <3>3
      <4>2. \A i \in 1 .. m + 1 : i = 1 \/ \E l \in 1 .. m : i = l + 1
        <5>1. ASSUME NEW i \in 1 .. m + 1, i # 1
              PROVE  \E l \in 1 .. m : i = l + 1
          <6>1. i - 1 \in 1 .. m /\ i = (i - 1) + 1
            BY <3>4, <5>1
          <6>2. QED
            BY <6>1
        <5>2. QED
          BY <5>1
      <4>3. QED
        BY <3>5, <4>1, <4>2
    <3>7. B \in SUBSET Cid
      <4>1. \A i \in 2 .. m : i \in 1 .. m
        BY <3>4
      <4>2. \A i \in 2 .. m : q[i] \in Cid
        BY <1>3, <3>3, <4>1
      <4>3. QED
        BY <3>3, <4>2 DEF Candidates
    <3>8. /\ sid[v] < sid[y] => Youngest(y, B \cup {y})
          /\ ~ (sid[v] < sid[y]) => Youngest(v, B \cup {y})
      BY <3>3, <3>7, YoungestOfMore
    <3>9. \/ sid[v] < sid[y] /\ f[k][c].cid = y
          \/ ~ (sid[v] < sid[y]) /\ f[k][c].cid = v
      BY <2>2, <2>5, <3>1, <3>3, FoundKinds, ResultFields
    <3>10. PICK w, l, C : w = f[k][c].cid /\ l = m + 1 /\ C = B \cup {y}
      OBVIOUS
    <3>11. /\ PathTo(root, c, p, l) /\ C = Candidates(root, p, l)
           /\ \A i \in 1 .. l : f[k][p[i]].kind = "cycle"
           /\ Youngest(w, C)
      <4>1. Youngest(w, C)
        BY <3>8, <3>9, <3>10
      <4>2. C = Candidates(root, p, l)
        BY <3>3, <3>5, <3>10
      <4>3. QED
        BY <3>5, <3>6, <3>10, <4>1, <4>2
    <3>12. QED
      BY <3>10, <3>11 DEF HasPath
  <2>6. QED
    BY <2>4, <2>5
<1>6. QED
  BY <1>4, <1>5

LEMMA VictimsHavePaths ==
  ASSUME Grown, NEW root \in Cid, NEW n \in Nat, NEW f, Levels(f, n, root)
  PROVE  \A k \in 0 .. n : \A c \in Cid : f[k][c].kind = "cycle" => HasPath(f, k, root, c)
<1> DEFINE AtLevel(k) == \A c \in Cid : f[k][c].kind = "cycle" => HasPath(f, k, root, c)
           S == {k \in Nat : k <= n => AtLevel(k)}
<1>1. 0 \in S
  <2>1. \A c \in Cid : f[0][c] = Result("overflow", c)
    BY LevelSteps
  <2>2. \A c \in Cid : f[0][c].kind = "overflow"
    BY <2>1, ResultFields
  <2>3. AtLevel(0)
    BY <2>2
  <2>4. QED
    BY <2>3
<1>2. ASSUME NEW j \in S
      PROVE  j + 1 \in S
  <2>1. j \in Nat
    OBVIOUS
  <2>2. SUFFICES ASSUME j + 1 <= n
                 PROVE  AtLevel(j + 1)
    BY <2>1
  <2>3. PICK k : k = j + 1
    OBVIOUS
  <2>4. k \in 1 .. n /\ k - 1 = j /\ j <= n
    BY <2>1, <2>2, <2>3
  <2>5. AtLevel(k - 1)
    BY <2>4
  <2>6. AtLevel(k)
    BY <2>4, <2>5, VictimStep
  <2>7. QED
    BY <2>3, <2>6
<1>3. S = Nat
  <2> HIDE DEF S
  <2>1. S \in SUBSET Nat
    BY DEF S
  <2>2. QED
    BY <1>1, <1>2, <2>1, AllNumbers
<1>4. QED
  BY <1>3

LEMMA VictimYoungest ==
  ASSUME Grown, NEW root \in Cid, Answer(root).kind = "cycle"
  PROVE  \E p \in Cycles(root, Cid) :
           /\ Answer(root).cid \in Nodes(p)
           /\ \A c \in Nodes(p) : sid[c] <= sid[Answer(root).cid]
<1>1. PICK f : Levels(f, MaxTasks, root) /\ Answer(root) = f[MaxTasks][root]
  BY AnswerIsLevel
<1>2. MaxTasks \in Nat /\ MaxTasks \in 0 .. MaxTasks
  BY CidsCounted
<1>3. HasPath(f, MaxTasks, root, root)
  BY <1>1, <1>2, VictimsHavePaths
<1>4. PICK n, p, v, B : /\ PathTo(root, root, p, n)
                        /\ v = f[MaxTasks][root].cid /\ B = Candidates(root, p, n)
                        /\ Youngest(v, B)
  BY <1>3 DEF HasPath
<1>5. p \in Cycles(root, Cid)
  <2>1. /\ n \in Nat \ {0} /\ p \in [1 .. n -> Cid] /\ p[1] = root
        /\ Distinct(p, n) /\ Walk(p, n) /\ Edge(p[n], p[1])
    BY <1>4 DEF PathTo
  <2>2. p \in Cycles(p[1], Cid)
    BY <2>1, MakesCycle
  <2>3. QED
    BY <2>1, <2>2
<1>6. Nodes(p) = Candidates(root, p, n)
  <2>1. n \in Nat \ {0} /\ DOMAIN p = 1 .. n /\ p[1] = root
    BY <1>4 DEF PathTo
  <2>2. \A i : i \in 1 .. n <=> i = 1 \/ i \in 2 .. n
    BY <2>1
  <2>3. QED
    BY <2>1, <2>2 DEF Nodes, Candidates
<1>7. QED
  BY <1>1, <1>4, <1>5, <1>6 DEF Youngest

-----------------------------------------------------------------------------
(* The theorems.                                                           *)

LEMMA GraphGrown == Spec => []Grown
<1>1. Init => Grown
  BY DEF Init, Grown
<1>2. Grown /\ [SetCell]_<<wfg, sid>> => Grown'
  BY DEF Grown, SetCell
<1>3. QED
  BY <1>1, <1>2, PTL DEF Spec

\* "the youngest by sid" (lock.c:71): whatever the graph, the ages and the
\* number of transactions, wfg_dfs() faults out the youngest of a cycle through
\* the transaction that is about to wait.
THEOREM DetectorFaultsYoungest == Spec => []VictimYoungestOfCycle
<1>1. Grown => VictimYoungestOfCycle
  BY VictimYoungest DEF VictimYoungestOfCycle
<1>2. QED
  BY <1>1, GraphGrown, PTL

\* If wfg_dfs() finds nothing, the transaction that is about to wait is on no
\* cycle.
THEOREM DetectorMissesNone == Spec => []CycleNotMissed
<1>1. CycleNotMissed
  BY NoneMissed DEF CycleNotMissed
<1>2. QED
  BY <1>1, PTL

\* wfg_dfs() recurses for ever only if there is a cycle that the transaction
\* that is about to wait is not part of.
THEOREM DetectorEndless == Spec => []EndlessOnlyPastOtherCycle
<1>1. EndlessOnlyPastOtherCycle
  BY EndlessPast DEF EndlessOnlyPastOtherCycle
<1>2. QED
  BY <1>1, PTL

=============================================================================

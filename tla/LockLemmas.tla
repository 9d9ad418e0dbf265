---------------------------- MODULE LockLemmas -----------------------------
(***************************************************************************)
(* What the helpers and the steps of module Lock preserve, for any number  *)
(* of transactions and locks.                                              *)
(***************************************************************************)
EXTENDS Lock, FiniteSetTheorems, TLAPS

-----------------------------------------------------------------------------
(* What the helpers on chains return.                                      *)

LEMMA FunctionIsSequence ==
  ASSUME NEW S, NEW n \in Nat, NEW f \in [1 .. n -> S]
  PROVE  f \in Seq(S) /\ Len(f) = n
  OBVIOUS

LEMMA ForgetSlotChain ==
  ASSUME NEW q \in Seq(Group), NEW t
  PROVE  /\ ForgetSlot(q, t) \in Seq(Group)
         /\ Len(ForgetSlot(q, t)) = Len(q)
         /\ \A k \in 1 .. Len(q) :
              /\ ForgetSlot(q, t)[k] \in Group
              /\ ForgetSlot(q, t)[k].mode = q[k].mode
              /\ ForgetSlot(q, t)[k].entries = q[k].entries
              /\ ForgetSlot(q, t)[k].slots = q[k].slots \ {t}
<1> DEFINE Forgotten(k) == [q[k] EXCEPT !.slots = @ \ {t}]
<1>1. DOMAIN q = 1 .. Len(q) /\ Len(q) \in Nat
  OBVIOUS
<1>2. \A k \in 1 .. Len(q) : q[k] \in Group
  OBVIOUS
<1>3. \A k \in 1 .. Len(q) : Forgotten(k) \in Group
  BY <1>2 DEF Group
<1>4. \A k \in 1 .. Len(q) :
        /\ Forgotten(k).mode = q[k].mode
        /\ Forgotten(k).entries = q[k].entries
        /\ Forgotten(k).slots = q[k].slots \ {t}
  BY <1>2 DEF Group
<1>5. ForgetSlot(q, t) = [k \in 1 .. Len(q) |-> Forgotten(k)]
  BY <1>1 DEF ForgetSlot
<1> HIDE DEF Forgotten
<1>6. ForgetSlot(q, t) \in [1 .. Len(q) -> Group]
  BY <1>3, <1>5
<1>7. ForgetSlot(q, t) \in Seq(Group) /\ Len(ForgetSlot(q, t)) = Len(q)
  BY <1>1, <1>6, FunctionIsSequence
<1>8. \A k \in 1 .. Len(q) : ForgetSlot(q, t)[k] = Forgotten(k)
  BY <1>5
<1>9. QED
  BY <1>3, <1>4, <1>7, <1>8

LEMMA MarkChain ==
  ASSUME NEW q \in Seq(Group), NEW v \in Cid
  PROVE  /\ Mark(q, v) \in Seq(Group)
         /\ Len(Mark(q, v)) = Len(q)
         /\ \A k \in 1 .. Len(q) :
              /\ Mark(q, v)[k] \in Group
              /\ Mark(q, v)[k].mode = q[k].mode
              /\ Mark(q, v)[k].entries = q[k].entries
              /\ Mark(q, v)[k].slots = q[k].slots
<1> DEFINE Marked1(k) ==
      [q[k] EXCEPT !.deadlocked = IF v \in q[k].slots THEN {v} ELSE @]
<1>1. DOMAIN q = 1 .. Len(q) /\ Len(q) \in Nat
  OBVIOUS
<1>2. \A k \in 1 .. Len(q) : q[k] \in Group
  OBVIOUS
<1>3. \A k \in 1 .. Len(q) : Marked1(k) \in Group
  BY <1>2 DEF Group
<1>4. \A k \in 1 .. Len(q) :
        /\ Marked1(k).mode = q[k].mode
        /\ Marked1(k).entries = q[k].entries
        /\ Marked1(k).slots = q[k].slots
  BY <1>2 DEF Group
<1>5. Mark(q, v) = [k \in 1 .. Len(q) |-> Marked1(k)]
  BY <1>1 DEF Mark
<1> HIDE DEF Marked1
<1>6. Mark(q, v) \in [1 .. Len(q) -> Group]
  BY <1>3, <1>5
<1>7. Mark(q, v) \in Seq(Group) /\ Len(Mark(q, v)) = Len(q)
  BY <1>1, <1>6, FunctionIsSequence
<1>8. \A k \in 1 .. Len(q) : Mark(q, v)[k] = Marked1(k)
  BY <1>5
<1>9. QED
  BY <1>3, <1>4, <1>7, <1>8

LEMMA RemoveAtChain ==
  ASSUME NEW q \in Seq(Group), NEW i \in 1 .. Len(q)
  PROVE  /\ RemoveAt(q, i) \in Seq(Group)
         /\ Len(RemoveAt(q, i)) = Len(q) - 1
         /\ \A k \in 1 .. Len(q) - 1 :
              RemoveAt(q, i)[k] = IF k < i THEN q[k] ELSE q[k + 1]
<1> DEFINE front == SubSeq(q, 1, i - 1)
           back  == SubSeq(q, i + 1, Len(q))
<1>1. /\ front \in Seq(Group)
      /\ Len(front) = i - 1
      /\ \A k \in 1 .. i - 1 : front[k] = q[k]
  OBVIOUS
<1>2. /\ back \in Seq(Group)
      /\ Len(back) = Len(q) - i
      /\ \A k \in 1 .. Len(q) - i : back[k] = q[i + k]
  OBVIOUS
<1>3. RemoveAt(q, i) = front \o back
  BY DEF RemoveAt
<1> HIDE DEF front, back
<1>4. /\ front \o back \in Seq(Group)
      /\ Len(front \o back) = Len(q) - 1
  BY <1>1, <1>2
<1>5. ASSUME NEW k \in 1 .. Len(q) - 1
      PROVE  (front \o back)[k] = IF k < i THEN q[k] ELSE q[k + 1]
  <2>1. CASE k < i
    BY <2>1, <1>1, <1>2
  <2>2. CASE ~(k < i)
    <3>1. (front \o back)[k] = back[k - Len(front)]
      BY <2>2, <1>1, <1>2
    <3>2. k - Len(front) \in 1 .. Len(q) - i /\ i + (k - Len(front)) = k + 1
      BY <2>2, <1>1
    <3>3. QED
      BY <2>2, <3>1, <3>2, <1>2
  <2>3. QED
    BY <2>1, <2>2
<1>6. QED
  BY <1>3, <1>4, <1>5

LEMMA NewGroupType ==
  ASSUME NEW m \in Modes, NEW t \in Cid, NEW S \in SUBSET Cid, NEW D \in SUBSET Cid
  PROVE  NewGroup(m, t, S, D) \in Group
  BY DEF NewGroup, Group

SetEntries(q, i, E) == [q EXCEPT ![i] = [q[i] EXCEPT !.entries = E]]

LEMMA EntriesChain ==
  ASSUME NEW q \in Seq(Group), NEW i \in 1 .. Len(q), NEW E \in SUBSET Cid
  PROVE  /\ SetEntries(q, i, E) \in Seq(Group)
         /\ Len(SetEntries(q, i, E)) = Len(q)
         /\ \A k \in 1 .. Len(q) : k # i => SetEntries(q, i, E)[k] = q[k]
         /\ SetEntries(q, i, E)[i].entries = E
         /\ SetEntries(q, i, E)[i].mode = q[i].mode
         /\ SetEntries(q, i, E)[i].slots = q[i].slots
<1> DEFINE g == [q[i] EXCEPT !.entries = E]
<1>1. q[i] \in Group
  OBVIOUS
<1>2. /\ g \in Group
      /\ g.entries = E
      /\ g.mode = q[i].mode
      /\ g.slots = q[i].slots
  BY <1>1 DEF Group
<1>3. SetEntries(q, i, E) = [q EXCEPT ![i] = g]
  BY DEF SetEntries
<1> HIDE DEF g
<1>4. QED
  BY <1>2, <1>3

SetMode(q, i, m) == [q EXCEPT ![i] = [q[i] EXCEPT !.mode = m]]

LEMMA ModeChain ==
  ASSUME NEW q \in Seq(Group), NEW i \in 1 .. Len(q), NEW m \in Modes
  PROVE  /\ SetMode(q, i, m) \in Seq(Group)
         /\ Len(SetMode(q, i, m)) = Len(q)
         /\ \A k \in 1 .. Len(q) : k # i => SetMode(q, i, m)[k] = q[k]
         /\ SetMode(q, i, m)[i].mode = m
         /\ SetMode(q, i, m)[i].entries = q[i].entries
         /\ SetMode(q, i, m)[i].slots = q[i].slots
<1> DEFINE g == [q[i] EXCEPT !.mode = m]
<1>1. q[i] \in Group
  OBVIOUS
<1>2. /\ g \in Group
      /\ g.mode = m
      /\ g.entries = q[i].entries
      /\ g.slots = q[i].slots
  BY <1>1 DEF Group
<1>3. SetMode(q, i, m) = [q EXCEPT ![i] = g]
  BY DEF SetMode
<1> HIDE DEF g
<1>4. QED
  BY <1>2, <1>3

LEMMA ChainType ==
  ASSUME TypeOK, NEW l \in Locks
  PROVE  /\ chain[l] \in Seq(Group)
         /\ Len(chain[l]) \in Nat
         /\ DOMAIN chain[l] = 1 .. Len(chain[l])
         /\ \A k \in 1 .. Len(chain[l]) :
              /\ chain[l][k] \in Group
              /\ chain[l][k].mode \in Modes
              /\ chain[l][k].entries \subseteq Cid
         /\ chain[l] # << >> => Len(chain[l]) >= 1
<1>1. chain[l] \in Seq(Group)
  BY DEF TypeOK
<1>2. \A k \in 1 .. Len(chain[l]) : chain[l][k] \in Group
  BY <1>1
<1>3. QED
  BY <1>1, <1>2 DEF Group

LEMMA TakenType ==
  ASSUME TypeOK, NEW t \in Cid, NEW l \in Locks, NEW m \in Modes, Taken(t, l, m)
  PROVE  /\ held' \in [Cid -> [Locks -> Modes \cup {"none"}]]
         /\ \A s \in Cid, x \in Locks : s # t \/ x # l => held'[s][x] = held[s][x]
         /\ held'[t][l] \in {m, "exclusive"}
         /\ held'[t][l] = "exclusive" => m = "exclusive" \/ held[t][l] = "exclusive"
         /\ held'[t][l] # "none"
  BY DEF TypeOK, Taken, Modes

-----------------------------------------------------------------------------
(* lock_lock() preserves the inductive invariant.                          *)

LEMMA LockFreeInv ==
  ASSUME LockInv, sid' \in [Cid -> Nat],
         NEW t \in Cid, NEW l \in Locks, NEW m \in Modes, LockFree(t, l, m)
  PROVE  LockInv'
<1> DEFINE g == NewGroup(m, t, {}, {})
<1>1. g \in Group /\ g.mode = m /\ g.entries = {t} /\ g.slots = {}
  BY NewGroupType DEF NewGroup
<1> HIDE DEF g
<1>2. /\ chain' = [chain EXCEPT ![l] = <<g>>]
      /\ chain[l] = << >>
      /\ UNCHANGED <<last, wfg, txByCid, waiting, fault>>
  BY DEF LockFree, g
<1>3. chain'[l] = <<g>> /\ \A x \in Locks : x # l => chain'[x] = chain[x]
  BY <1>2 DEF LockInv, TypeOK
<1>4. TypeOK'
  <2>1. <<g>> \in Seq(Group)
    BY <1>1
  <2>2. chain' \in [Locks -> Seq(Group)]
    BY <1>2, <2>1 DEF LockInv, TypeOK
  <2>3. held' \in [Cid -> [Locks -> Modes \cup {"none"}]]
    BY TakenType DEF LockInv, LockFree
  <2>4. QED
    BY <1>2, <2>2, <2>3 DEF LockInv, TypeOK
<1>5. GroupsWellFormed'
  BY <1>1, <1>3 DEF LockInv, GroupsWellFormed
<1>6. OwnGroup'
  BY <1>1, <1>2, <1>3 DEF LockInv, OwnGroup
<1>7. HolderInFirstGroup'
  <2> SUFFICES ASSUME NEW x \in Locks, NEW s \in Cid, held'[s][x] # "none"
               PROVE  /\ chain'[x] # << >>
                      /\ s \in chain'[x][1].entries
                      /\ held'[s][x] = "exclusive" => chain'[x][1].mode = "exclusive"
    BY DEF HolderInFirstGroup, First
  <2>1. CASE x # l
    BY <2>1, <1>3, TakenType DEF LockInv, HolderInFirstGroup, First, LockFree
  <2>2. CASE x = l /\ s # t
    BY <2>2, <1>2, TakenType DEF LockInv, HolderInFirstGroup, First, LockFree
  <2>3. CASE x = l /\ s = t
    <3>1. held[t][l] = "none"
      BY <1>2 DEF LockInv, HolderInFirstGroup
    <3>2. held'[t][l] = "exclusive" => m = "exclusive"
      BY <3>1, TakenType DEF LockInv, LockFree
    <3>3. QED
      BY <2>3, <1>1, <1>3, <3>2
  <2>4. QED
    BY <2>1, <2>2, <2>3
<1>8. QED
  BY <1>4, <1>5, <1>6, <1>7 DEF LockInv

LEMMA LockCoveredInv ==
  ASSUME LockInv, sid' \in [Cid -> Nat],
         NEW t \in Cid, NEW l \in Locks, NEW m \in Modes, LockCovered(t, l, m)
  PROVE  LockInv'
<1>1. UNCHANGED <<chain, last, wfg, txByCid, waiting, fault>>
  BY DEF LockCovered
<1>2. TypeOK'
  BY <1>1, TakenType DEF LockInv, TypeOK, LockCovered
<1>3. GroupsWellFormed' /\ OwnGroup'
  BY <1>1 DEF LockInv, GroupsWellFormed, OwnGroup
<1>4. HolderInFirstGroup'
  <2>1. /\ chain[l] # << >>
        /\ t \in First(l).entries
        /\ m = "exclusive" => First(l).mode = "exclusive"
    BY DEF LockCovered, Covered
  <2>2. QED
    BY <1>1, <2>1, TakenType
       DEF LockInv, HolderInFirstGroup, First, LockCovered
<1>5. QED
  BY <1>2, <1>3, <1>4 DEF LockInv

LEMMA LockJoinInv ==
  ASSUME LockInv, sid' \in [Cid -> Nat],
         NEW t \in Cid, NEW l \in Locks, NEW m \in Modes, LockJoin(t, l, m)
  PROVE  LockInv'
<1> DEFINE n == Len(chain[l])
           q == chain[l]
           E == q[n].entries \cup {t}
           r == SetEntries(q, n, E)
           w == [tx |-> t, lock |-> l, mode |-> m, role |-> "joiner"]
<1>1. /\ q \in Seq(Group) /\ n \in 1 .. Len(q) /\ E \in SUBSET Cid
      /\ n \in Nat /\ q # << >>
  BY ChainType DEF LockInv, LockJoin
<1>2. m = "shared" /\ q[n].mode = "shared"
  BY DEF LockJoin, Last
<1>3. chain' = [chain EXCEPT ![l] = r]
  BY DEF LockJoin, SetEntries
<1>4. /\ r \in Seq(Group)
      /\ Len(r) = n
      /\ \A k \in 1 .. n : k # n => r[k] = q[k]
      /\ r[n].entries = E
      /\ r[n].mode = "shared"
      /\ r[n].slots = q[n].slots
  BY <1>1, <1>2, EntriesChain
<1> HIDE DEF r
<1>5. chain'[l] = r /\ \A x \in Locks : x # l => chain'[x] = chain[x]
  BY <1>3 DEF LockInv, TypeOK
<1>6. UNCHANGED <<last, wfg, txByCid, fault>>
  BY DEF LockJoin
<1>7. \/ n = 1 /\ Taken(t, l, m) /\ UNCHANGED waiting
      \/ n # 1 /\ waiting' = waiting \cup {w} /\ UNCHANGED held
  BY DEF LockJoin
<1>8. w \in Waiter
  BY DEF Waiter
<1>9. TypeOK'
  <2>1. chain' \in [Locks -> Seq(Group)]
    BY <1>3, <1>4 DEF LockInv, TypeOK
  <2>2. held' \in [Cid -> [Locks -> Modes \cup {"none"}]]
    BY <1>7, TakenType DEF LockInv, TypeOK
  <2>3. waiting' \subseteq Waiter
    BY <1>7, <1>8 DEF LockInv, TypeOK
  <2>4. QED
    BY <1>6, <2>1, <2>2, <2>3 DEF LockInv, TypeOK
<1>10. DOMAIN r = 1 .. n /\ DOMAIN q = 1 .. n
  BY <1>1, <1>4
<1>11. \A k \in 1 .. n : /\ r[k].mode = q[k].mode
                         /\ r[k].slots = q[k].slots
                         /\ q[k].entries \subseteq r[k].entries
  BY <1>2, <1>4
<1>12. GroupsWellFormed'
  BY <1>2, <1>4, <1>5, <1>10 DEF LockInv, GroupsWellFormed
<1>13. OwnGroup'
  <2> SUFFICES ASSUME NEW v \in waiting', v.role # "joiner" \/ v.mode # "shared"
               PROVE  /\ v.role = "creator"
                      /\ \A x \in Locks : \A k \in DOMAIN chain'[x] :
                           v.tx \in chain'[x][k].slots =>
                             /\ x = v.lock
                             /\ v.tx \in chain'[x][k].entries
                             /\ chain'[x][k].mode = v.mode
    BY DEF OwnGroup
  <2>1. v \in waiting
    BY <1>2, <1>7
  <2>2. QED
    BY <2>1, <1>5, <1>10, <1>11 DEF LockInv, OwnGroup
<1>14. HolderInFirstGroup'
  <2>1. /\ r # << >>
        /\ q[1].entries \subseteq r[1].entries
        /\ r[1].mode = q[1].mode
        /\ n = 1 => t \in r[1].entries /\ r[1].mode = "shared"
    BY <1>1, <1>4, <1>11
  <2>2. CASE n # 1
    BY <2>1, <2>2, <1>5, <1>7 DEF LockInv, HolderInFirstGroup, First
  <2>3. CASE n = 1
    <3> SUFFICES ASSUME NEW x \in Locks, NEW s \in Cid, held'[s][x] # "none"
                 PROVE  /\ chain'[x] # << >>
                        /\ s \in chain'[x][1].entries
                        /\ held'[s][x] = "exclusive" => chain'[x][1].mode = "exclusive"
      BY DEF HolderInFirstGroup, First
    <3>1. CASE x # l
      BY <3>1, <2>3, <1>5, <1>7, TakenType DEF LockInv, HolderInFirstGroup, First
    <3>2. CASE x = l /\ s # t
      BY <3>2, <2>1, <2>3, <1>5, <1>7, TakenType
         DEF LockInv, HolderInFirstGroup, First
    <3>3. CASE x = l /\ s = t
      <4>1. held[t][l] # "exclusive"
        BY <1>2, <2>3 DEF LockInv, HolderInFirstGroup, First
      <4>2. held'[t][l] # "exclusive"
        BY <4>1, <2>3, <1>2, <1>7, TakenType DEF LockInv
      <4>3. QED
        BY <3>3, <4>2, <2>1, <2>3, <1>5
    <3>4. QED
      BY <3>1, <3>2, <3>3
  <2>4. QED
    BY <2>2, <2>3
<1>15. QED
  BY <1>9, <1>12, <1>13, <1>14 DEF LockInv

LEMMA LockUpgradeNowInv ==
  ASSUME LockInv, sid' \in [Cid -> Nat],
         NEW t \in Cid, NEW l \in Locks, NEW m \in Modes,
         ~IsWaiting(t), LockUpgradeNow(t, l, m)
  PROVE  LockInv'
<1> DEFINE q == chain[l]
           r == SetMode(q, 1, "exclusive")
<1>1. q \in Seq(Group) /\ 1 \in 1 .. Len(q) /\ "exclusive" \in Modes /\ q # << >>
  BY ChainType DEF LockInv, LockUpgradeNow, Modes
<1>2. q[1].entries = {t} /\ m = "exclusive"
  BY DEF LockUpgradeNow, Upgrade, First
<1>3. chain' = [chain EXCEPT ![l] = r]
  BY DEF LockUpgradeNow, SetMode
<1>4. /\ r \in Seq(Group)
      /\ Len(r) = Len(q)
      /\ \A k \in 1 .. Len(q) : k # 1 => r[k] = q[k]
      /\ r[1].entries = {t}
      /\ r[1].mode = "exclusive"
      /\ r[1].slots = q[1].slots
  <2> HIDE DEF q
  <2>1. r[1].entries = q[1].entries
    BY <1>1, ModeChain
  <2>2. r \in Seq(Group) /\ Len(r) = Len(q) /\ r[1].mode = "exclusive"
    BY <1>1, ModeChain
  <2>3. \A k \in 1 .. Len(q) : k # 1 => r[k] = q[k]
    BY <1>1, ModeChain
  <2>4. r[1].slots = q[1].slots
    BY <1>1, ModeChain
  <2>5. QED
    BY <1>2, <2>1, <2>2, <2>3, <2>4
<1> HIDE DEF r
<1>5. chain'[l] = r /\ \A x \in Locks : x # l => chain'[x] = chain[x]
  BY <1>3 DEF LockInv, TypeOK
<1>6. UNCHANGED <<last, wfg, txByCid, waiting, fault>> /\ Taken(t, l, m)
  BY DEF LockUpgradeNow
<1>7. TypeOK'
  <2>1. chain' \in [Locks -> Seq(Group)]
    BY <1>3, <1>4 DEF LockInv, TypeOK
  <2>2. QED
    BY <1>6, <2>1, TakenType DEF LockInv, TypeOK
<1>8. DOMAIN r = 1 .. Len(q) /\ DOMAIN q = 1 .. Len(q)
  BY <1>1, <1>4
<1>9. GroupsWellFormed'
  <2> SUFFICES ASSUME NEW x \in Locks, NEW k \in DOMAIN chain'[x]
               PROVE  /\ chain'[x][k].entries # {}
                      /\ chain'[x][k].mode = "exclusive" =>
                           \E s \in Cid : chain'[x][k].entries = {s}
    BY DEF GroupsWellFormed
  <2>1. CASE x = l /\ k = 1
    BY <2>1, <1>4, <1>5
  <2>2. CASE x = l /\ k # 1
    BY <2>2, <1>4, <1>5, <1>8 DEF LockInv, GroupsWellFormed
  <2>3. CASE x # l
    BY <2>3, <1>5 DEF LockInv, GroupsWellFormed
  <2>4. QED
    BY <2>1, <2>2, <2>3
<1>10. OwnGroup'
  <2> SUFFICES ASSUME NEW v \in waiting, v.role # "joiner" \/ v.mode # "shared",
                      NEW k \in DOMAIN chain'[l], v.tx \in chain'[l][k].slots
               PROVE  /\ l = v.lock
                      /\ v.tx \in chain'[l][k].entries
                      /\ chain'[l][k].mode = v.mode
    BY <1>5, <1>6 DEF LockInv, OwnGroup
  <2>1. v.tx # t
    BY DEF IsWaiting
  <2>2. k # 1
    BY <2>1, <1>2, <1>4, <1>5, <1>8 DEF LockInv, OwnGroup
  <2>3. QED
    BY <2>2, <1>4, <1>5, <1>8 DEF LockInv, OwnGroup
<1>11. HolderInFirstGroup'
  <2> SUFFICES ASSUME NEW x \in Locks, NEW s \in Cid, held'[s][x] # "none"
               PROVE  /\ chain'[x] # << >>
                      /\ s \in chain'[x][1].entries
                      /\ held'[s][x] = "exclusive" => chain'[x][1].mode = "exclusive"
    BY DEF HolderInFirstGroup, First
  <2>1. CASE x # l
    BY <2>1, <1>5, <1>6, TakenType DEF LockInv, HolderInFirstGroup, First
  <2>2. CASE x = l
    <3>1. s = t
      BY <2>2, <1>2, <1>6, TakenType DEF LockInv, HolderInFirstGroup, First
    <3>2. r # << >>
      BY <1>1, <1>4
    <3>3. QED
      BY <2>2, <3>1, <3>2, <1>4, <1>5
  <2>3. QED
    BY <2>1, <2>2
<1>12. QED
  BY <1>7, <1>9, <1>10, <1>11 DEF LockInv

LEMMA NoChangeInv ==
  ASSUME LockInv, sid' \in [Cid -> Nat], fault' \in Faults \cup {"none"},
         UNCHANGED <<chain, last, wfg, txByCid, waiting, held>>
  PROVE  LockInv'
<1>1. TypeOK'
  BY DEF LockInv, TypeOK
<1>2. GroupsWellFormed' /\ OwnGroup' /\ HolderInFirstGroup'
  BY DEF LockInv, GroupsWellFormed, OwnGroup, HolderInFirstGroup, First
<1>3. QED
  BY <1>1, <1>2 DEF LockInv

LEMMA CrashInv ==
  ASSUME LockInv, sid' \in [Cid -> Nat], NEW f \in Faults, Crash(f)
  PROVE  LockInv'
  BY NoChangeInv DEF Crash

\* The edges and slots of case E have the right type.
LEMMA BlockedType ==
  ASSUME LockInv, NEW t \in Cid, NEW l \in Locks, chain[l] # << >>
  PROVE  /\ WfgBlocked(t, l) \subseteq Cid \X Cid
         /\ TxByCidBlocked(t) \in [Cid -> {"unset", "live", "freed"}]
<1>1. First(l).entries \subseteq Cid
  BY ChainType DEF LockInv, First
<1>2. QED
  BY <1>1 DEF LockInv, TypeOK, WfgBlocked, TxByCidBlocked

\* The chains case E makes: slots of t forgotten, its group appended.
LEMMA ChainBlockedChain ==
  ASSUME LockInv, NEW t \in Cid, NEW l \in Locks, NEW m \in Modes
  PROVE  /\ ChainBlocked(t, l, m) \in [Locks -> Seq(Group)]
         /\ \A x \in Locks : Len(ChainBlocked(t, l, m)[x]) =
              IF x = l THEN Len(chain[x]) + 1 ELSE Len(chain[x])
         /\ \A x \in Locks : \A k \in 1 .. Len(chain[x]) :
              /\ ChainBlocked(t, l, m)[x][k].mode = chain[x][k].mode
              /\ ChainBlocked(t, l, m)[x][k].entries = chain[x][k].entries
              /\ ChainBlocked(t, l, m)[x][k].slots = chain[x][k].slots \ {t}
         /\ ChainBlocked(t, l, m)[l][Len(chain[l]) + 1].mode = m
         /\ ChainBlocked(t, l, m)[l][Len(chain[l]) + 1].entries = {t}
         /\ ChainBlocked(t, l, m)[l][Len(chain[l]) + 1].slots = {t}
<1> DEFINE g == NewGroup(m, t, {t}, {})
           f(x) == ForgetSlot(chain[x], t)
           c == ChainBlocked(t, l, m)
<1>1. g \in Group /\ g.mode = m /\ g.entries = {t} /\ g.slots = {t}
  BY NewGroupType DEF NewGroup
<1>2. \A x \in Locks :
        /\ f(x) \in Seq(Group)
        /\ Len(f(x)) = Len(chain[x])
        /\ Len(chain[x]) \in Nat
        /\ \A k \in 1 .. Len(chain[x]) :
             /\ f(x)[k].mode = chain[x][k].mode
             /\ f(x)[k].entries = chain[x][k].entries
             /\ f(x)[k].slots = chain[x][k].slots \ {t}
  BY ForgetSlotChain, ChainType DEF LockInv
<1>3. c = [x \in Locks |-> IF x = l THEN Append(f(x), g) ELSE f(x)]
  BY DEF ChainBlocked
<1> HIDE DEF g, f, c
<1>4. \A x \in Locks : c[x] = IF x = l THEN Append(f(x), g) ELSE f(x)
  BY <1>3
<1>5. /\ Append(f(l), g) \in Seq(Group)
      /\ Len(Append(f(l), g)) = Len(chain[l]) + 1
      /\ \A k \in 1 .. Len(chain[l]) : Append(f(l), g)[k] = f(l)[k]
      /\ Append(f(l), g)[Len(chain[l]) + 1] = g
  BY <1>1, <1>2
<1>6. c \in [Locks -> Seq(Group)]
  BY <1>2, <1>3, <1>5
<1>7. \A x \in Locks : Len(c[x]) = IF x = l THEN Len(chain[x]) + 1 ELSE Len(chain[x])
  BY <1>2, <1>4, <1>5
<1>8. \A x \in Locks : \A k \in 1 .. Len(chain[x]) : c[x][k] = f(x)[k]
  BY <1>4, <1>5
<1>9. c[l][Len(chain[l]) + 1] = g
  BY <1>4, <1>5
<1>10. \A x \in Locks : \A k \in 1 .. Len(chain[x]) :
         /\ c[x][k].mode = chain[x][k].mode
         /\ c[x][k].entries = chain[x][k].entries
         /\ c[x][k].slots = chain[x][k].slots \ {t}
  BY <1>2, <1>8
<1>11. c[l][Len(chain[l]) + 1].mode = m /\ c[l][Len(chain[l]) + 1].entries = {t}
       /\ c[l][Len(chain[l]) + 1].slots = {t}
  BY <1>1, <1>9
<1>12. QED
  BY <1>6, <1>7, <1>10, <1>11 DEF c

\* A call that goes to sleep in a new group, whatever it marks.
LEMMA QueueInv ==
  ASSUME LockInv, sid' \in [Cid -> Nat],
         NEW t \in Cid, NEW l \in Locks, NEW m \in Modes, chain[l] # << >>,
         chain' \in [Locks -> Seq(Group)],
         \A x \in Locks : Len(chain'[x]) = Len(ChainBlocked(t, l, m)[x]),
         \A x \in Locks : \A k \in 1 .. Len(ChainBlocked(t, l, m)[x]) :
           /\ chain'[x][k].mode = ChainBlocked(t, l, m)[x][k].mode
           /\ chain'[x][k].entries = ChainBlocked(t, l, m)[x][k].entries
           /\ chain'[x][k].slots = ChainBlocked(t, l, m)[x][k].slots,
         ~IsWaiting(t),
         wfg' = WfgBlocked(t, l), txByCid' = TxByCidBlocked(t),
         QueueWaiter(t, l, m), UNCHANGED <<last, held, fault>>
  PROVE  LockInv'
<1> DEFINE w == [tx |-> t, lock |-> l, mode |-> m, role |-> "creator"]
           n == Len(chain[l]) + 1
           c == ChainBlocked(t, l, m)
<1>1. waiting' = waiting \cup {w}
  BY DEF QueueWaiter
<1>2. TypeOK'
  <2>1. w \in Waiter
    BY DEF Waiter
  <2>2. waiting' \subseteq Waiter
    BY <1>1, <2>1 DEF LockInv, TypeOK
  <2>3. QED
    BY <2>2, BlockedType DEF LockInv, TypeOK
<1>3. \A x \in Locks :
        /\ Len(chain[x]) \in Nat
        /\ DOMAIN chain[x] = 1 .. Len(chain[x])
        /\ DOMAIN chain'[x] = 1 .. Len(chain'[x])
        /\ Len(chain'[x]) = IF x = l THEN n ELSE Len(chain[x])
        /\ chain[x] # << >> => chain'[x] # << >>
  BY ChainBlockedChain, ChainType DEF LockInv
<1>4. \A x \in Locks : \A k \in 1 .. Len(chain[x]) :
        /\ chain'[x][k].mode = chain[x][k].mode
        /\ chain'[x][k].entries = chain[x][k].entries
        /\ chain'[x][k].slots = chain[x][k].slots \ {t}
  <2> TAKE x \in Locks
  <2> TAKE k \in 1 .. Len(chain[x])
  <2>1. k \in 1 .. Len(c[x])
    BY <1>3
  <2>2. /\ c[x][k].mode = chain[x][k].mode
        /\ c[x][k].entries = chain[x][k].entries
        /\ c[x][k].slots = chain[x][k].slots \ {t}
    BY ChainBlockedChain
  <2>3. /\ chain'[x][k].mode = c[x][k].mode
        /\ chain'[x][k].entries = c[x][k].entries
        /\ chain'[x][k].slots = c[x][k].slots
    BY <2>1
  <2>4. QED
    BY <2>2, <2>3
<1>5. /\ chain'[l][n].mode = m
      /\ chain'[l][n].entries = {t}
      /\ chain'[l][n].slots = {t}
  <2>1. n \in 1 .. Len(c[l])
    BY <1>3
  <2>2. /\ c[l][n].mode = m
        /\ c[l][n].entries = {t}
        /\ c[l][n].slots = {t}
    BY ChainBlockedChain
  <2> HIDE DEF n, c
  <2>3. QED
    BY <2>1, <2>2 DEF c
<1>6. \A x \in Locks : \A k \in DOMAIN chain'[x] :
        \/ k \in 1 .. Len(chain[x])
        \/ x = l /\ k = n
  BY <1>3
<1>7. GroupsWellFormed'
  <2> SUFFICES ASSUME NEW x \in Locks, NEW k \in DOMAIN chain'[x]
               PROVE  /\ chain'[x][k].entries # {}
                      /\ chain'[x][k].mode = "exclusive" =>
                           \E s \in Cid : chain'[x][k].entries = {s}
    BY DEF GroupsWellFormed
  <2>1. CASE k \in 1 .. Len(chain[x])
    <3>1. k \in DOMAIN chain[x]
      BY <2>1, <1>3
    <3>2. /\ chain[x][k].entries # {}
          /\ chain[x][k].mode = "exclusive" =>
               \E s \in Cid : chain[x][k].entries = {s}
      BY <3>1 DEF LockInv, GroupsWellFormed
    <3>3. QED
      BY <2>1, <3>2, <1>4
  <2>2. CASE x = l /\ k = n
    BY <2>2, <1>5
  <2>3. QED
    BY <2>1, <2>2, <1>6
<1>8. OwnGroup'
  <2> SUFFICES ASSUME NEW v \in waiting', v.role # "joiner" \/ v.mode # "shared"
               PROVE  /\ v.role = "creator"
                      /\ \A x \in Locks : \A k \in DOMAIN chain'[x] :
                           v.tx \in chain'[x][k].slots =>
                             /\ x = v.lock
                             /\ v.tx \in chain'[x][k].entries
                             /\ chain'[x][k].mode = v.mode
    BY DEF OwnGroup
  <2>1. CASE v \in waiting
    <3>1. v.tx # t
      BY <2>1 DEF IsWaiting
    <3>2. /\ v.role = "creator"
          /\ \A x \in Locks : \A k \in 1 .. Len(chain[x]) :
               v.tx \in chain[x][k].slots =>
                 /\ x = v.lock
                 /\ v.tx \in chain[x][k].entries
                 /\ chain[x][k].mode = v.mode
      BY <2>1, <1>3 DEF LockInv, OwnGroup
    <3>3. ASSUME NEW x \in Locks, NEW k \in DOMAIN chain'[x], v.tx \in chain'[x][k].slots
          PROVE  /\ x = v.lock
                 /\ v.tx \in chain'[x][k].entries
                 /\ chain'[x][k].mode = v.mode
      <4>1. k \in 1 .. Len(chain[x])
        BY <3>1, <3>3, <1>5, <1>6
      <4>2. QED
        BY <4>1, <3>2, <3>3, <1>4
    <3>4. QED
      BY <3>2, <3>3
  <2>2. CASE v = w
    <3>1. ASSUME NEW x \in Locks, NEW k \in DOMAIN chain'[x], v.tx \in chain'[x][k].slots
          PROVE  /\ x = v.lock
                 /\ v.tx \in chain'[x][k].entries
                 /\ chain'[x][k].mode = v.mode
      <4>1. k \notin 1 .. Len(chain[x])
        BY <2>2, <3>1, <1>4
      <4>2. x = l /\ k = n
        BY <4>1, <1>6
      <4>3. QED
        BY <2>2, <4>2, <1>5
    <3>2. QED
      BY <2>2, <3>1
  <2>3. QED
    BY <2>1, <2>2, <1>1
<1>9. HolderInFirstGroup'
  <2> SUFFICES ASSUME NEW x \in Locks, NEW s \in Cid, held[s][x] # "none"
               PROVE  /\ chain'[x] # << >>
                      /\ s \in chain'[x][1].entries
                      /\ held[s][x] = "exclusive" => chain'[x][1].mode = "exclusive"
    BY DEF HolderInFirstGroup, First
  <2>1. /\ chain[x] # << >>
        /\ s \in chain[x][1].entries
        /\ held[s][x] = "exclusive" => chain[x][1].mode = "exclusive"
    BY DEF LockInv, HolderInFirstGroup, First
  <2>2. 1 \in 1 .. Len(chain[x])
    BY <2>1, ChainType DEF LockInv
  <2>3. /\ chain'[x] # << >>
        /\ chain'[x][1].mode = chain[x][1].mode
        /\ chain'[x][1].entries = chain[x][1].entries
    BY <2>1, <2>2, <1>3, <1>4
  <2>4. QED
    BY <2>1, <2>3
<1>10. QED
  BY <1>2, <1>7, <1>8, <1>9 DEF LockInv

LEMMA LockQueueInv ==
  ASSUME LockInv, sid' \in [Cid -> Nat],
         NEW t \in Cid, NEW l \in Locks, NEW m \in Modes,
         ~IsWaiting(t), LockQueue(t, l, m) \/ LockQueueMark(t, l, m)
  PROVE  LockInv'
<1> DEFINE c == ChainBlocked(t, l, m)
<1>1. /\ c \in [Locks -> Seq(Group)]
      /\ \A x \in Locks : c[x] \in Seq(Group)
  BY ChainBlockedChain
<1>2. /\ chain[l] # << >>
      /\ wfg' = WfgBlocked(t, l)
      /\ txByCid' = TxByCidBlocked(t)
      /\ QueueWaiter(t, l, m)
      /\ UNCHANGED <<last, held, fault>>
  BY DEF LockQueue, LockQueueMark, MustQueue
<1>3. CASE LockQueue(t, l, m)
  <2>1. chain' = c
    BY <1>3 DEF LockQueue
  <2> HIDE DEF c
  <2>2. /\ chain' \in [Locks -> Seq(Group)]
        /\ \A x \in Locks : Len(chain'[x]) = Len(c[x])
        /\ \A x \in Locks : \A k \in 1 .. Len(c[x]) :
             /\ chain'[x][k].mode = c[x][k].mode
             /\ chain'[x][k].entries = c[x][k].entries
             /\ chain'[x][k].slots = c[x][k].slots
    BY <1>1, <2>1
  <2>3. QED
    BY <1>2, <2>2, QueueInv DEF c
<1>4. CASE LockQueueMark(t, l, m)
  <2>1. PICK v : /\ \E x \in Locks : \E k \in DOMAIN c[x] : v \in c[x][k].slots
                 /\ chain' = [x \in Locks |-> Mark(c[x], v)]
    BY <1>4 DEF LockQueueMark
  <2> HIDE DEF c
  <2>2. v \in Cid
    <3>1. PICK x \in Locks : \E k \in DOMAIN c[x] : v \in c[x][k].slots
      BY <2>1
    <3>2. PICK k \in DOMAIN c[x] : v \in c[x][k].slots
      BY <3>1
    <3>3. c[x][k] \in Group
      BY <1>1
    <3>4. QED
      BY <3>2, <3>3 DEF Group
  <2>3. \A x \in Locks :
          /\ Mark(c[x], v) \in Seq(Group)
          /\ Len(Mark(c[x], v)) = Len(c[x])
          /\ \A k \in 1 .. Len(c[x]) :
               /\ Mark(c[x], v)[k].mode = c[x][k].mode
               /\ Mark(c[x], v)[k].entries = c[x][k].entries
               /\ Mark(c[x], v)[k].slots = c[x][k].slots
    BY <1>1, <2>2, MarkChain
  <2>4. \A x \in Locks : chain'[x] = Mark(c[x], v)
    BY <2>1
  <2>5. chain' \in [Locks -> Seq(Group)]
    BY <2>1, <2>3
  <2>6. /\ \A x \in Locks : Len(chain'[x]) = Len(c[x])
        /\ \A x \in Locks : \A k \in 1 .. Len(c[x]) :
             /\ chain'[x][k].mode = c[x][k].mode
             /\ chain'[x][k].entries = c[x][k].entries
             /\ chain'[x][k].slots = c[x][k].slots
    BY <2>3, <2>4
  <2>7. QED
    BY <1>2, <2>5, <2>6, QueueInv DEF c
<1>5. QED
  BY <1>3, <1>4

\* A call that is its own victim leaves the chains as it found them.
LEMMA LockDeadlockInv ==
  ASSUME LockInv, sid' \in [Cid -> Nat],
         NEW t \in Cid, NEW l \in Locks, NEW m \in Modes, LockDeadlock(t, l, m)
  PROVE  LockInv'
<1>1. /\ chain[l] # << >>
      /\ chain' = [x \in Locks |-> ForgetSlot(chain[x], t)]
      /\ last' = [last EXCEPT ![l] = "freed"]
      /\ wfg' = WfgBlocked(t, l)
      /\ txByCid' = TxByCidBlocked(t)
      /\ UNCHANGED <<waiting, held, fault>>
  BY DEF LockDeadlock, MustQueue
<1>2. \A x \in Locks :
        /\ chain'[x] \in Seq(Group)
        /\ Len(chain'[x]) = Len(chain[x])
        /\ DOMAIN chain'[x] = 1 .. Len(chain[x])
        /\ DOMAIN chain[x] = 1 .. Len(chain[x])
        /\ chain[x] # << >> => chain'[x] # << >> /\ 1 \in 1 .. Len(chain[x])
        /\ \A k \in 1 .. Len(chain[x]) :
             /\ chain'[x][k].mode = chain[x][k].mode
             /\ chain'[x][k].entries = chain[x][k].entries
             /\ chain'[x][k].slots = chain[x][k].slots \ {t}
  <2> TAKE x \in Locks
  <2>1. chain'[x] = ForgetSlot(chain[x], t)
    BY <1>1
  <2>2. /\ chain[x] \in Seq(Group)
        /\ Len(chain[x]) \in Nat
        /\ DOMAIN chain[x] = 1 .. Len(chain[x])
        /\ chain[x] # << >> => 1 \in 1 .. Len(chain[x])
    BY ChainType DEF LockInv
  <2>3. /\ ForgetSlot(chain[x], t) \in Seq(Group)
        /\ Len(ForgetSlot(chain[x], t)) = Len(chain[x])
        /\ \A k \in 1 .. Len(chain[x]) :
             /\ ForgetSlot(chain[x], t)[k].mode = chain[x][k].mode
             /\ ForgetSlot(chain[x], t)[k].entries = chain[x][k].entries
             /\ ForgetSlot(chain[x], t)[k].slots = chain[x][k].slots \ {t}
    BY <2>2, ForgetSlotChain
  <2>4. /\ DOMAIN ForgetSlot(chain[x], t) = 1 .. Len(chain[x])
        /\ chain[x] # << >> => ForgetSlot(chain[x], t) # << >>
    BY <2>2, <2>3
  <2>5. QED
    BY <2>1, <2>2, <2>3, <2>4
<1>3. TypeOK'
  <2>1. chain' \in [Locks -> Seq(Group)]
    BY <1>1, <1>2
  <2>2. last' \in [Locks -> {"tail", "freed"}]
    BY <1>1 DEF LockInv, TypeOK
  <2>3. /\ wfg \subseteq Cid \X Cid
        /\ txByCid \in [Cid -> {"unset", "live", "freed"}]
        /\ waiting \subseteq Waiter
        /\ held \in [Cid -> [Locks -> Modes \cup {"none"}]]
        /\ fault \in Faults \cup {"none"}
    BY DEF LockInv, TypeOK
  <2>4. wfg' \subseteq Cid \X Cid /\ txByCid' \in [Cid -> {"unset", "live", "freed"}]
    BY <1>1, <2>3, BlockedType
  <2>5. waiting' \subseteq Waiter /\ fault' \in Faults \cup {"none"}
    BY <1>1, <2>3
  <2>6. held' \in [Cid -> [Locks -> Modes \cup {"none"}]]
    BY <1>1, <2>3
  <2>7. QED
    BY <2>1, <2>2, <2>4, <2>5, <2>6 DEF TypeOK
<1>4. GroupsWellFormed'
  <2> SUFFICES ASSUME NEW x \in Locks, NEW k \in DOMAIN chain'[x]
               PROVE  /\ chain'[x][k].entries # {}
                      /\ chain'[x][k].mode = "exclusive" =>
                           \E s \in Cid : chain'[x][k].entries = {s}
    BY DEF GroupsWellFormed
  <2>1. k \in DOMAIN chain[x] /\ k \in 1 .. Len(chain[x])
    BY <1>2
  <2>2. /\ chain[x][k].entries # {}
        /\ chain[x][k].mode = "exclusive" =>
             \E s \in Cid : chain[x][k].entries = {s}
    BY <2>1 DEF LockInv, GroupsWellFormed
  <2>3. /\ chain'[x][k].mode = chain[x][k].mode
        /\ chain'[x][k].entries = chain[x][k].entries
    BY <1>2, <2>1
  <2>4. QED
    BY <2>2, <2>3
<1>5. OwnGroup'
  <2> SUFFICES ASSUME NEW v \in waiting, v.role # "joiner" \/ v.mode # "shared",
                      NEW x \in Locks, NEW k \in DOMAIN chain'[x],
                      v.tx \in chain'[x][k].slots
               PROVE  /\ x = v.lock
                      /\ v.tx \in chain'[x][k].entries
                      /\ chain'[x][k].mode = v.mode
    BY <1>1 DEF LockInv, OwnGroup
  <2>1. k \in DOMAIN chain[x] /\ k \in 1 .. Len(chain[x])
    BY <1>2
  <2>2. v.tx \in chain[x][k].slots
    BY <2>1, <1>2
  <2>3. QED
    BY <2>1, <2>2, <1>2 DEF LockInv, OwnGroup
<1>6. HolderInFirstGroup'
  <2> SUFFICES ASSUME NEW x \in Locks, NEW s \in Cid, held'[s][x] # "none"
               PROVE  /\ chain'[x] # << >>
                      /\ s \in chain'[x][1].entries
                      /\ held'[s][x] = "exclusive"
                           => chain'[x][1].mode = "exclusive"
    BY DEF HolderInFirstGroup, First
  <2>1. held' = held
    BY <1>1
  <2>2. /\ chain[x] # << >>
        /\ s \in chain[x][1].entries
        /\ held[s][x] = "exclusive" => chain[x][1].mode = "exclusive"
    BY <2>1 DEF LockInv, HolderInFirstGroup, First
  <2>3. chain'[x] # << >> /\ 1 \in 1 .. Len(chain[x])
    BY <1>2, <2>2
  <2>4. /\ chain'[x][1].mode = chain[x][1].mode
        /\ chain'[x][1].entries = chain[x][1].entries
    BY <1>2, <2>3
  <2>5. QED
    BY <2>1, <2>2, <2>3, <2>4
<1>7. QED
  BY <1>3, <1>4, <1>5, <1>6 DEF LockInv

LEMMA LockLockInv ==
  ASSUME LockInv, sid' \in [Cid -> Nat],
         NEW t \in Cid, NEW l \in Locks, NEW m \in Modes, LockLock(t, l, m)
  PROVE  LockInv'
<1>1. ~IsWaiting(t)
  BY DEF LockLock
<1>2. CASE LockFree(t, l, m)
  BY <1>2, LockFreeInv
<1>3. CASE LockCovered(t, l, m)
  BY <1>3, LockCoveredInv
<1>4. CASE LockJoin(t, l, m)
  BY <1>4, LockJoinInv
<1>5. CASE LockUpgradeNow(t, l, m)
  BY <1>1, <1>5, LockUpgradeNowInv
<1>6. CASE LockStale(t, l, m)
  <2>1. UNCHANGED <<chain, last, wfg, txByCid, waiting, held, fault>>
    BY <1>6 DEF LockStale, lockVars
  <2>2. fault \in Faults \cup {"none"}
    BY DEF LockInv, TypeOK
  <2>3. QED
    BY <2>1, <2>2, NoChangeInv
<1>7. CASE LockFreedTail(t, l, m)
  BY <1>7, CrashInv DEF LockFreedTail, Faults
<1>8. CASE LockQueue(t, l, m) \/ LockQueueMark(t, l, m)
  BY <1>1, <1>8, LockQueueInv
<1>9. CASE LockDeadlock(t, l, m)
  BY <1>9, LockDeadlockInv
<1>10. CASE LockSearchFault(t, l, m)
  <2>1. \E f \in Faults : Crash(f)
    BY <1>10 DEF LockSearchFault, Faults
  <2>2. QED
    BY <2>1, CrashInv
<1>11. QED
  BY <1>2, <1>3, <1>4, <1>5, <1>6, <1>7, <1>8, <1>9, <1>10 DEF LockLock

-----------------------------------------------------------------------------
(* Waking up preserves the inductive invariant.                            *)

LEMMA WaiterType ==
  ASSUME LockInv, NEW w \in waiting
  PROVE  /\ w \in Waiter
         /\ w.tx \in Cid
         /\ w.lock \in Locks
         /\ w.mode \in Modes
<1>1. w \in Waiter
  BY DEF LockInv, TypeOK
<1>2. QED
  BY <1>1 DEF Waiter

\* A call that returns LOCK_TAKEN from its sleep.
LEMMA WakeTakenInv ==
  ASSUME LockInv, sid' \in [Cid -> Nat],
         NEW w \in waiting, WakeJoined(w) \/ WakeGranted(w)
  PROVE  LockInv'
<1>1. /\ Taken(w.tx, w.lock, w.mode)
      /\ waiting' = waiting \ {w}
      /\ UNCHANGED <<chain, last, wfg, txByCid, fault>>
      /\ chain[w.lock] # << >>
  BY DEF WakeJoined, WakeGranted, StopWaiting
<1>2. w.tx \in Cid /\ w.lock \in Locks /\ w.mode \in Modes
  BY WaiterType
<1>3. TypeOK'
  BY <1>1, <1>2, TakenType DEF LockInv, TypeOK
<1>4. GroupsWellFormed' /\ OwnGroup'
  BY <1>1 DEF LockInv, GroupsWellFormed, OwnGroup
<1>5. /\ w.tx \in First(w.lock).entries
      /\ w.mode = "exclusive" => First(w.lock).mode = "exclusive"
  <2>1. CASE WakeJoined(w)
    BY <2>1 DEF WakeJoined, LockInv, OwnGroup
  <2>2. CASE WakeGranted(w)
    <3>1. /\ w.role = "creator"
          /\ w.tx \in chain[w.lock][1].slots
          /\ 1 \in DOMAIN chain[w.lock]
      BY <1>1, <1>2, <2>2, ChainType DEF WakeGranted, Creator, LockInv
    <3>2. QED
      BY <3>1, <1>2 DEF LockInv, OwnGroup, First
  <2>3. QED
    BY <2>1, <2>2
<1>6. HolderInFirstGroup'
  BY <1>1, <1>2, <1>5, TakenType DEF LockInv, HolderInFirstGroup, First
<1>7. QED
  BY <1>3, <1>4, <1>6 DEF LockInv

LEMMA WakeDeadlockedInv ==
  ASSUME LockInv, sid' \in [Cid -> Nat], NEW w \in waiting, WakeDeadlocked(w)
  PROVE  LockInv'
<1> DEFINE l == w.lock
           q == chain[l]
<1>1. l \in Locks /\ q \in Seq(Group) /\ DOMAIN q = 1 .. Len(q) /\ Len(q) \in Nat
  BY WaiterType, ChainType DEF LockInv
<1>2. CASE \E f \in Faults : Crash(f)
  BY <1>2, CrashInv
<1>3. CASE \E k \in DOMAIN q :
             /\ k > 1
             /\ chain' = [chain EXCEPT ![l] = RemoveAt(q, k)]
             /\ last' = [last EXCEPT ![l] = IF k = Len(q) THEN "freed" ELSE @]
             /\ waiting' = waiting \ {w}
             /\ UNCHANGED <<wfg, txByCid, held, fault>>
  <2>1. PICK k \in DOMAIN q :
             /\ k > 1
             /\ chain' = [chain EXCEPT ![l] = RemoveAt(q, k)]
             /\ last' = [last EXCEPT ![l] = IF k = Len(q) THEN "freed" ELSE @]
             /\ waiting' = waiting \ {w}
             /\ UNCHANGED <<wfg, txByCid, held, fault>>
    BY <1>3
  <2> DEFINE r == RemoveAt(q, k)
  <2>2. /\ r \in Seq(Group)
        /\ Len(r) = Len(q) - 1
        /\ \A j \in 1 .. Len(q) - 1 : r[j] = IF j < k THEN q[j] ELSE q[j + 1]
    BY <1>1, <2>1, RemoveAtChain
  <2> HIDE DEF r
  <2>3. chain'[l] = r /\ \A x \in Locks : x # l => chain'[x] = chain[x]
    BY <1>1, <2>1 DEF LockInv, TypeOK, r
  <2>4. \A j \in DOMAIN r : \E i \in DOMAIN q : r[j] = q[i]
    <3> TAKE j \in DOMAIN r
    <3>1. j \in 1 .. Len(q) - 1
      BY <1>1, <2>2
    <3>2. j \in DOMAIN q /\ j + 1 \in DOMAIN q
      BY <1>1, <3>1
    <3>3. QED
      BY <2>2, <3>1, <3>2
  <2>5. TypeOK'
    <3>1. chain' \in [Locks -> Seq(Group)]
      BY <1>1, <2>1, <2>2 DEF LockInv, TypeOK, r
    <3>2. last' \in [Locks -> {"tail", "freed"}]
      BY <1>1, <2>1 DEF LockInv, TypeOK
    <3>3. QED
      BY <2>1, <3>1, <3>2 DEF LockInv, TypeOK
  <2>6. GroupsWellFormed'
    <3> SUFFICES ASSUME NEW x \in Locks, NEW j \in DOMAIN chain'[x]
                 PROVE  /\ chain'[x][j].entries # {}
                        /\ chain'[x][j].mode = "exclusive" =>
                             \E s \in Cid : chain'[x][j].entries = {s}
      BY DEF GroupsWellFormed
    <3>1. \E i \in DOMAIN chain[x] : chain'[x][j] = chain[x][i]
      BY <2>3, <2>4
    <3>2. QED
      BY <3>1 DEF LockInv, GroupsWellFormed
  <2>7. OwnGroup'
    <3> SUFFICES ASSUME NEW v \in waiting', v.role # "joiner" \/ v.mode # "shared",
                        NEW x \in Locks, NEW j \in DOMAIN chain'[x],
                        v.tx \in chain'[x][j].slots
                 PROVE  /\ x = v.lock
                        /\ v.tx \in chain'[x][j].entries
                        /\ chain'[x][j].mode = v.mode
      BY <2>1 DEF LockInv, OwnGroup
    <3>1. v \in waiting
      BY <2>1
    <3>2. \E i \in DOMAIN chain[x] : chain'[x][j] = chain[x][i]
      BY <2>3, <2>4
    <3>3. QED
      BY <3>1, <3>2 DEF LockInv, OwnGroup
  <2>8. r[1] = q[1] /\ r # << >>
    BY <1>1, <2>1, <2>2
  <2>9. HolderInFirstGroup'
    <3> SUFFICES ASSUME NEW x \in Locks, NEW s \in Cid, held'[s][x] # "none"
                 PROVE  /\ chain'[x] # << >>
                        /\ s \in chain'[x][1].entries
                        /\ held'[s][x] = "exclusive"
                             => chain'[x][1].mode = "exclusive"
      BY DEF HolderInFirstGroup, First
    <3>1. held' = held
      BY <2>1
    <3>2. /\ chain[x] # << >>
          /\ s \in chain[x][1].entries
          /\ held[s][x] = "exclusive" => chain[x][1].mode = "exclusive"
      BY <3>1 DEF LockInv, HolderInFirstGroup, First
    <3>3. chain'[x][1] = chain[x][1] /\ chain'[x] # << >>
      BY <2>3, <2>8, <3>2
    <3>4. QED
      BY <3>1, <3>2, <3>3
  <2>10. QED
    BY <2>5, <2>6, <2>7, <2>9 DEF LockInv
<1>4. QED
  BY <1>2, <1>3 DEF WakeDeadlocked, Positions, Faults, StopWaiting

LEMMA WakeInv ==
  ASSUME LockInv, sid' \in [Cid -> Nat], NEW w \in waiting, Wake(w)
  PROVE  LockInv'
  BY WakeTakenInv, WakeDeadlockedInv DEF Wake

LEMMA LockWakeInv ==
  ASSUME LockInv, sid' \in [Cid -> Nat], NEW t \in Cid, LockWake(t)
  PROVE  LockInv'
  BY WakeInv DEF LockWake

-----------------------------------------------------------------------------
(* lock_unlock() preserves the inductive invariant.                        *)

LEMMA UnlockHeldInv ==
  ASSUME LockInv, sid' \in [Cid -> Nat], NEW t \in Cid, NEW l \in Locks,
         ~IsWaiting(t), UnlockHeld(t, l)
  PROVE  LockInv'
<1> DEFINE q      == chain[l]
           left   == First(l).entries \ {t}
           behind == Tail(chain[l])
           freed  == left = {} \/ UpgradeNext(l, left, behind)
           g      == [q[1] EXCEPT !.entries = left]
           r      == IF freed THEN behind ELSE <<g>> \o behind
<1>1. /\ q # << >> /\ q \in Seq(Group) /\ Len(q) \in Nat /\ Len(q) >= 1
      /\ DOMAIN q = 1 .. Len(q)
      /\ q[1] \in Group
      /\ t \in q[1].entries
  BY ChainType DEF LockInv, UnlockHeld, First
<1>2. /\ chain' = [chain EXCEPT ![l] = r]
      /\ last' = [last EXCEPT ![l] = IF freed /\ behind = << >> THEN "tail" ELSE @]
      /\ wfg' = WfgUnblocked(t, behind)
      /\ held' = [held EXCEPT ![t][l] = "none"]
      /\ UNCHANGED <<txByCid, waiting, fault>>
  BY DEF UnlockHeld
<1>3. /\ behind \in Seq(Group)
      /\ Len(behind) = Len(q) - 1
      /\ DOMAIN behind = 1 .. Len(q) - 1
      /\ \A k \in 1 .. Len(q) - 1 : behind[k] = q[k + 1]
  BY <1>1
<1>4. /\ g \in Group
      /\ g.mode = q[1].mode /\ g.slots = q[1].slots /\ g.entries = left
      /\ left = q[1].entries \ {t}
  BY <1>1 DEF Group, First
<1> HIDE DEF g, left, behind
<1>5. ASSUME ~freed
      PROVE  /\ <<g>> \o behind \in Seq(Group)
             /\ DOMAIN (<<g>> \o behind) = 1 .. Len(q)
             /\ (<<g>> \o behind)[1] = g
             /\ \A k \in 2 .. Len(q) : (<<g>> \o behind)[k] = q[k]
  BY <1>1, <1>3, <1>4
<1>6. r \in Seq(Group)
  BY <1>3, <1>5
<1>7. \A k \in DOMAIN r : \/ \E i \in DOMAIN q : r[k] = q[i]
                          \/ ~freed /\ k = 1 /\ r[k] = g
  <2>1. CASE freed
    <3> SUFFICES ASSUME NEW k \in 1 .. Len(q) - 1
                 PROVE  \E i \in DOMAIN q : behind[k] = q[i]
      BY <2>1, <1>3
    <3>1. k + 1 \in DOMAIN q
      BY <1>1
    <3>2. QED
      BY <3>1, <1>3
  <2>2. CASE ~freed
    BY <2>2, <1>1, <1>5
  <2>3. QED
    BY <2>1, <2>2
<1> HIDE DEF r, freed
<1>8. chain'[l] = r /\ \A x \in Locks : x # l => chain'[x] = chain[x]
  BY <1>2 DEF LockInv, TypeOK
<1>9. TypeOK'
  <2>1. chain' \in [Locks -> Seq(Group)]
    BY <1>2, <1>6 DEF LockInv, TypeOK
  <2>2. last' \in [Locks -> {"tail", "freed"}]
    BY <1>2 DEF LockInv, TypeOK
  <2>3. held' \in [Cid -> [Locks -> Modes \cup {"none"}]]
    BY <1>2 DEF LockInv, TypeOK
  <2>4. wfg' \subseteq Cid \X Cid
    <3>1. UNION {behind[k].entries : k \in DOMAIN behind} \subseteq Cid
      <4>1. \A k \in DOMAIN behind : behind[k] \in Group
        BY <1>3
      <4>2. QED
        BY <4>1 DEF Group
    <3>2. QED
      BY <1>2, <3>1 DEF LockInv, TypeOK, WfgUnblocked
  <2>5. QED
    BY <1>2, <2>1, <2>2, <2>3, <2>4 DEF LockInv, TypeOK
<1>10. ~freed => left # {}
  BY DEF freed
<1>11. GroupsWellFormed'
  <2> SUFFICES ASSUME NEW x \in Locks, NEW k \in DOMAIN chain'[x]
               PROVE  /\ chain'[x][k].entries # {}
                      /\ chain'[x][k].mode = "exclusive" =>
                           \E s \in Cid : chain'[x][k].entries = {s}
    BY DEF GroupsWellFormed
  <2>1. CASE x # l
    BY <2>1, <1>8 DEF LockInv, GroupsWellFormed
  <2>2. CASE x = l /\ \E i \in DOMAIN q : r[k] = q[i]
    BY <2>2, <1>8 DEF LockInv, GroupsWellFormed
  <2>3. CASE x = l /\ ~freed /\ k = 1 /\ r[k] = g
    <3>1. q[1].mode = "exclusive" => \E s \in Cid : q[1].entries = {s}
      BY <1>1 DEF LockInv, GroupsWellFormed
    <3>2. QED
      BY <2>3, <3>1, <1>1, <1>4, <1>8, <1>10
  <2>4. QED
    BY <2>1, <2>2, <2>3, <1>7, <1>8
<1>12. OwnGroup'
  <2> SUFFICES ASSUME NEW v \in waiting, v.role # "joiner" \/ v.mode # "shared",
                      NEW x \in Locks, NEW k \in DOMAIN chain'[x],
                      v.tx \in chain'[x][k].slots
               PROVE  /\ x = v.lock
                      /\ v.tx \in chain'[x][k].entries
                      /\ chain'[x][k].mode = v.mode
    BY <1>2 DEF LockInv, OwnGroup
  <2>1. CASE x # l
    BY <2>1, <1>8 DEF LockInv, OwnGroup
  <2>2. CASE x = l /\ \E i \in DOMAIN q : r[k] = q[i]
    BY <2>2, <1>8 DEF LockInv, OwnGroup
  <2>3. CASE x = l /\ ~freed /\ k = 1 /\ r[k] = g
    <3>1. v.tx # t
      BY DEF IsWaiting
    <3>2. QED
      BY <2>3, <3>1, <1>1, <1>4, <1>8 DEF LockInv, OwnGroup
  <2>4. QED
    BY <2>1, <2>2, <2>3, <1>7, <1>8
<1>13. HolderInFirstGroup'
  <2> SUFFICES ASSUME NEW x \in Locks, NEW s \in Cid, held'[s][x] # "none"
               PROVE  /\ chain'[x] # << >>
                      /\ s \in chain'[x][1].entries
                      /\ held'[s][x] = "exclusive" => chain'[x][1].mode = "exclusive"
    BY DEF HolderInFirstGroup, First
  <2>1. /\ x = l => s # t
        /\ held'[s][x] = held[s][x]
    BY <1>2 DEF LockInv, TypeOK
  <2>2. CASE x # l
    BY <2>1, <2>2, <1>8 DEF LockInv, HolderInFirstGroup, First
  <2>3. CASE x = l
    <3>1. s \in left /\ (held[s][l] = "exclusive" => q[1].mode = "exclusive")
      BY <2>1, <2>3, <1>4 DEF LockInv, HolderInFirstGroup, First
    <3>2. CASE freed
      <4>1. UpgradeNext(l, left, behind) /\ r = behind
        BY <3>1, <3>2 DEF freed, r
      <4>2. QED
        BY <4>1, <3>1, <2>3, <1>8 DEF UpgradeNext
    <3>3. CASE ~freed
      <4>1. r[1] = g /\ r # << >>
        BY <3>3, <1>1, <1>5 DEF r
      <4>2. QED
        BY <4>1, <3>1, <2>1, <2>3, <1>4, <1>8
    <3>4. QED
      BY <3>2, <3>3
  <2>4. QED
    BY <2>2, <2>3
<1>14. QED
  BY <1>9, <1>11, <1>12, <1>13 DEF LockInv

LEMMA LockUnlockInv ==
  ASSUME LockInv, sid' \in [Cid -> Nat], NEW t \in Cid, NEW l \in Locks,
         LockUnlock(t, l)
  PROVE  LockInv'
<1>1. CASE UnlockNotHeld(t, l)
  <2>1. UNCHANGED <<chain, last, wfg, txByCid, waiting, held, fault>>
    BY <1>1 DEF UnlockNotHeld, lockVars
  <2>2. fault \in Faults \cup {"none"}
    BY DEF LockInv, TypeOK
  <2>3. QED
    BY <2>1, <2>2, NoChangeInv
<1>2. CASE UnlockHeld(t, l)
  BY <1>2, UnlockHeldInv DEF LockUnlock
<1>3. QED
  BY <1>1, <1>2 DEF LockUnlock

-----------------------------------------------------------------------------
(* The invariant as a whole.                                               *)

LEMMA LockInitInv ==
  ASSUME LockInit, sid \in [Cid -> Nat]
  PROVE  LockInv
<1>1. TypeOK
  BY DEF LockInit, TypeOK
<1>2. GroupsWellFormed /\ OwnGroup /\ HolderInFirstGroup
  BY DEF LockInit, GroupsWellFormed, OwnGroup, HolderInFirstGroup
<1>3. QED
  BY <1>1, <1>2 DEF LockInv

LEMMA LockInvImpliesExclusion ==
  ASSUME LockInv
  PROVE  Exclusion
<1> SUFFICES ASSUME NEW l \in Locks, NEW s \in Cid, NEW t \in Cid, s # t,
                    held[s][l] = "exclusive", held[t][l] # "none"
             PROVE  FALSE
  BY DEF Exclusion
<1>1. /\ chain[l] # << >>
      /\ s \in First(l).entries /\ t \in First(l).entries
      /\ First(l).mode = "exclusive"
  BY DEF LockInv, HolderInFirstGroup
<1>2. \E u \in Cid : First(l).entries = {u}
  BY <1>1, ChainType DEF LockInv, GroupsWellFormed, First
<1>3. QED
  BY <1>1, <1>2

-----------------------------------------------------------------------------
(* What the steps tell the transactions: nothing, or that the caller holds *)
(* the lock it asked for, or gave it up.                                   *)

LEMMA LockLockHeld ==
  ASSUME NEW t \in Cid, NEW l \in Locks, NEW m \in Modes, LockLock(t, l, m)
  PROVE  held' = held \/ Taken(t, l, m)
<1>1. CASE LockFree(t, l, m) \/ LockCovered(t, l, m) \/ LockUpgradeNow(t, l, m)
  BY <1>1 DEF LockFree, LockCovered, LockUpgradeNow
<1>2. CASE LockJoin(t, l, m)
  BY <1>2 DEF LockJoin
<1>3. CASE LockStale(t, l, m) \/ LockFreedTail(t, l, m)
  BY <1>3 DEF LockStale, LockFreedTail, Crash, lockVars
<1>4. CASE LockQueue(t, l, m) \/ LockQueueMark(t, l, m) \/ LockDeadlock(t, l, m)
  BY <1>4 DEF LockQueue, LockQueueMark, LockDeadlock
<1>5. CASE LockSearchFault(t, l, m)
  BY <1>5 DEF LockSearchFault, Crash
<1>6. QED
  BY <1>1, <1>2, <1>3, <1>4, <1>5 DEF LockLock

LEMMA WakeHeld ==
  ASSUME NEW w \in waiting, Wake(w)
  PROVE  held' = held \/ Taken(w.tx, w.lock, w.mode)
  BY DEF Wake, WakeJoined, WakeGranted, WakeDeadlocked, Crash

LEMMA LockUnlockHeld ==
  ASSUME NEW t \in Cid, NEW l \in Locks, LockUnlock(t, l)
  PROVE  held' = held \/ held' = [held EXCEPT ![t][l] = "none"]
  BY DEF LockUnlock, UnlockNotHeld, UnlockHeld, lockVars

-----------------------------------------------------------------------------
(***************************************************************************)
(* The steps preserve ChainInv: who sleeps, on which group, and who is in  *)
(* line before whom.                                                       *)
(***************************************************************************)

\* what ChainInv adds to LockInv
SleepInv ==
  /\ OneCallEach
  /\ SleepersHaveGroups
  /\ GroupsHaveSleepers
  /\ HoldersTold
  /\ TwiceForUpgrade
  /\ OneSlotEach

-----------------------------------------------------------------------------
(* Where a transaction that does not sleep is, and where one that does.    *)

LEMMA PositionType ==
  ASSUME LockInv, NEW l \in Locks, NEW k \in DOMAIN chain[l]
  PROVE  /\ k \in Nat /\ k >= 1 /\ k <= Len(chain[l])
         /\ chain[l] # << >>
         /\ 1 \in DOMAIN chain[l]
         /\ chain[l][k].entries \subseteq Cid
         /\ chain[l][k].slots \subseteq Cid
         /\ chain[l][k].mode \in Modes
<1>1. /\ chain[l] \in Seq(Group)
      /\ DOMAIN chain[l] = 1 .. Len(chain[l])
      /\ Len(chain[l]) \in Nat
      /\ chain[l][k] \in Group
  BY ChainType DEF LockInv
<1>2. /\ k \in Nat /\ k >= 1 /\ k <= Len(chain[l])
      /\ chain[l] # << >>
      /\ 1 \in DOMAIN chain[l]
  BY <1>1
<1>3. QED
  BY <1>1, <1>2 DEF Group

\* A transaction that does not sleep is in first groups only.
LEMMA AwakeIsFirst ==
  ASSUME ChainInv, NEW t, ~IsWaiting(t),
         NEW l \in Locks, NEW k \in DOMAIN chain[l], t \in chain[l][k].entries
  PROVE  k = 1
<1>1. k \in Nat /\ k >= 1
  BY PositionType DEF ChainInv
<1>2. ~(k > 1)
  BY DEF ChainInv, GroupsHaveSleepers, IsWaiting
<1>3. QED
  BY <1>1, <1>2

\* A transaction that does not sleep knows what it holds.
LEMMA AwakeIsTold ==
  ASSUME ChainInv, NEW t, ~IsWaiting(t),
         NEW l \in Locks, chain[l] # << >>, t \in First(l).entries
  PROVE  held[t][l] # "none"
  BY DEF ChainInv, HoldersTold, IsWaiting

\* A sleeping call sleeps on every group behind the first that it is in.
LEMMA SleepsBehind ==
  ASSUME ChainInv, NEW w \in waiting, NEW l \in Locks,
         NEW k \in DOMAIN chain[l], k > 1, w.tx \in chain[l][k].entries
  PROVE  l = w.lock /\ SleepsAt(w, k)
<1>1. PICK v \in waiting : v.tx = w.tx /\ v.lock = l /\ SleepsAt(v, k)
  BY DEF ChainInv, GroupsHaveSleepers
<1>2. v = w
  BY <1>1 DEF ChainInv, OneCallEach
<1>3. QED
  BY <1>1, <1>2

\* A sleeping call is behind the first group once at most.
LEMMA BehindOnce ==
  ASSUME ChainInv, NEW l \in Locks,
         NEW j \in DOMAIN chain[l], NEW k \in DOMAIN chain[l], j > 1, k > 1,
         chain[l][j].entries \cap chain[l][k].entries # {}
  PROVE  j = k
<1>1. j \in Nat /\ k \in Nat
  BY PositionType DEF ChainInv
<1>2. PICK t : t \in chain[l][j].entries /\ t \in chain[l][k].entries
  OBVIOUS
<1>3. ~(j < k)
  BY <1>1, <1>2 DEF ChainInv, TwiceForUpgrade
<1>4. ~(k < j)
  BY <1>1, <1>2 DEF ChainInv, TwiceForUpgrade
<1>5. QED
  BY <1>1, <1>3, <1>4

-----------------------------------------------------------------------------
(* Steps that leave the chains and the sleepers alone.                     *)

LEMMA HeldGrows ==
  ASSUME ChainInv, UNCHANGED <<chain, waiting>>,
         \A s \in Cid, x \in Locks : held[s][x] # "none" => held'[s][x] # "none"
  PROVE  SleepInv'
<1>1. OneCallEach' /\ OneSlotEach'
  BY DEF ChainInv, OneCallEach, OneSlotEach
<1>2. SleepersHaveGroups'
  BY DEF ChainInv, SleepersHaveGroups, SleepsAt
<1>3. GroupsHaveSleepers'
  BY DEF ChainInv, GroupsHaveSleepers, SleepsAt
<1>4. \A l \in Locks : \A k \in DOMAIN chain[l] : chain[l][k].entries \subseteq Cid
  BY PositionType DEF ChainInv
<1>5. HoldersTold'
  <2> SUFFICES ASSUME NEW l \in Locks, chain[l] # << >>,
                      NEW t \in chain[l][1].entries, held'[t][l] = "none"
               PROVE  \E w \in waiting : w.tx = t /\ w.lock = l /\ SleepsAt(w, 1)
    BY DEF HoldersTold, First, SleepsAt
  <2>1. 1 \in DOMAIN chain[l]
    BY ChainType DEF ChainInv, LockInv
  <2>2. held[t][l] = "none"
    BY <2>1, <1>4
  <2>3. QED
    BY <2>2 DEF ChainInv, HoldersTold, First
<1>6. TwiceForUpgrade'
  BY <1>4 DEF ChainInv, TwiceForUpgrade
<1>7. QED
  BY <1>1, <1>2, <1>3, <1>5, <1>6 DEF SleepInv

LEMMA TakenGrows ==
  ASSUME LockInv, NEW t \in Cid, NEW l \in Locks, NEW m \in Modes, Taken(t, l, m)
  PROVE  /\ \A s \in Cid, x \in Locks : held[s][x] # "none" => held'[s][x] # "none"
         /\ held'[t][l] # "none"
  BY TakenType DEF LockInv

-----------------------------------------------------------------------------
(* lock_lock() preserves the invariant.                                    *)

LEMMA LockFreeSleep ==
  ASSUME ChainInv, NEW t \in Cid, NEW l \in Locks, NEW m \in Modes,
         LockFree(t, l, m)
  PROVE  SleepInv'
<1> DEFINE g == NewGroup(m, t, {}, {})
<1>1. /\ chain[l] = << >>
      /\ chain' = [chain EXCEPT ![l] = <<g>>]
      /\ UNCHANGED waiting
      /\ Taken(t, l, m)
  BY DEF LockFree
<1>2. g.mode = m /\ g.entries = {t} /\ g.slots = {}
  BY DEF NewGroup
<1> HIDE DEF g
<1>3. chain'[l] = <<g>> /\ \A x \in Locks : x # l => chain'[x] = chain[x]
  BY <1>1 DEF ChainInv, LockInv, TypeOK
<1>4. DOMAIN chain[l] = {} /\ DOMAIN chain'[l] = {1} /\ chain'[l][1] = g
  BY <1>1, <1>3
<1>5. /\ \A s \in Cid, x \in Locks : held[s][x] # "none" => held'[s][x] # "none"
      /\ held'[t][l] # "none"
  BY <1>1, TakenGrows DEF ChainInv
<1>6. OneCallEach'
  BY <1>1 DEF ChainInv, OneCallEach
<1>7. SleepersHaveGroups'
  <2> SUFFICES ASSUME NEW w \in waiting
               PROVE  \E k \in DOMAIN chain'[w.lock] : SleepsAt(w, k)'
    BY <1>1 DEF SleepersHaveGroups
  <2>1. w.lock \in Locks
    BY WaiterType DEF ChainInv
  <2>2. PICK k \in DOMAIN chain[w.lock] : SleepsAt(w, k)
    BY DEF ChainInv, SleepersHaveGroups
  <2>3. chain'[w.lock] = chain[w.lock]
    BY <2>1, <2>2, <1>3, <1>4
  <2>4. QED
    BY <2>2, <2>3 DEF SleepsAt
<1>8. GroupsHaveSleepers'
  BY <1>1, <1>3, <1>4 DEF ChainInv, GroupsHaveSleepers, SleepsAt
<1>9. HoldersTold'
  <2> SUFFICES ASSUME NEW x \in Locks, chain'[x] # << >>,
                      NEW s \in chain'[x][1].entries, held'[s][x] = "none"
               PROVE  \E w \in waiting : w.tx = s /\ w.lock = x /\ SleepsAt(w, 1)'
    BY <1>1 DEF HoldersTold, First
  <2>1. x # l
    BY <1>2, <1>4, <1>5
  <2>2. chain'[x] = chain[x] /\ s \in First(x).entries /\ 1 \in DOMAIN chain[x]
    BY <2>1, <1>3, ChainType DEF First, ChainInv, LockInv
  <2>3. s \in Cid
    BY <2>2, PositionType DEF ChainInv, First
  <2>4. held[s][x] = "none"
    BY <2>3, <1>5
  <2>5. PICK w \in waiting : w.tx = s /\ w.lock = x /\ SleepsAt(w, 1)
    BY <2>2, <2>4 DEF ChainInv, HoldersTold
  <2>6. QED
    BY <2>2, <2>5 DEF SleepsAt
<1>10. TwiceForUpgrade'
  <2> SUFFICES ASSUME NEW x \in Locks, NEW j \in DOMAIN chain'[x],
                      NEW k \in DOMAIN chain'[x], j < k,
                      NEW s \in chain'[x][j].entries, s \in chain'[x][k].entries
               PROVE  /\ j = 1 /\ chain'[x][1].mode = "shared"
                      /\ chain'[x][k].mode = "exclusive" /\ held'[s][x] # "none"
    BY DEF TwiceForUpgrade
  <2>1. x # l
    BY <1>4
  <2>2. chain'[x] = chain[x]
    BY <2>1, <1>3
  <2>3. s \in Cid
    BY <2>2, PositionType DEF ChainInv
  <2>4. QED
    BY <2>2, <2>3, <1>5 DEF ChainInv, TwiceForUpgrade
<1>11. OneSlotEach'
  <2> SUFFICES ASSUME NEW x \in Locks, NEW y \in Locks, NEW j \in DOMAIN chain'[x],
                      NEW k \in DOMAIN chain'[y],
                      NEW s \in chain'[x][j].slots, s \in chain'[y][k].slots
               PROVE  x = y /\ j = k
    BY DEF OneSlotEach
  <2>1. x # l /\ y # l
    BY <1>2, <1>4
  <2>2. QED
    BY <2>1, <1>3 DEF ChainInv, OneSlotEach
<1>12. QED
  BY <1>6, <1>7, <1>8, <1>9, <1>10, <1>11 DEF SleepInv

LEMMA LockJoinSleep ==
  ASSUME ChainInv, NEW t \in Cid, NEW l \in Locks, NEW m \in Modes,
         ~IsWaiting(t), LockJoin(t, l, m)
  PROVE  SleepInv'
<1>n. PICK n : n = Len(chain[l])
  OBVIOUS
<1>w. PICK w : w = [tx |-> t, lock |-> l, mode |-> m, role |-> "joiner"]
  OBVIOUS
<1> DEFINE q == chain[l]
           E == q[n].entries \cup {t}
           r == SetEntries(q, n, E)
<1>1. /\ q \in Seq(Group) /\ n \in 1 .. Len(q) /\ E \in SUBSET Cid
      /\ n \in Nat /\ q # << >> /\ 1 \in 1 .. n
  BY <1>n, ChainType DEF ChainInv, LockInv, LockJoin
<1>2. m = "shared" /\ q[n].mode = "shared" /\ ~Covered(t, l, m)
  BY <1>n DEF LockJoin, Last
<1>3. chain' = [chain EXCEPT ![l] = r]
  BY <1>n DEF LockJoin, SetEntries
<1>4. /\ r \in Seq(Group)
      /\ Len(r) = n
      /\ \A k \in 1 .. n : k # n => r[k] = q[k]
      /\ r[n].entries = E
      /\ r[n].mode = q[n].mode
      /\ r[n].slots = q[n].slots
  BY <1>1, <1>n, EntriesChain
<1> HIDE DEF r
<1>5. chain'[l] = r /\ \A x \in Locks : x # l => chain'[x] = chain[x]
  BY <1>3 DEF ChainInv, LockInv, TypeOK
<1>6. DOMAIN r = 1 .. n /\ DOMAIN q = 1 .. n
  BY <1>1, <1>4, <1>n
<1>7. /\ \A x \in Locks : DOMAIN chain'[x] = DOMAIN chain[x]
      /\ \A x \in Locks : \A k \in DOMAIN chain[x] :
           /\ chain'[x][k].mode = chain[x][k].mode
           /\ chain'[x][k].slots = chain[x][k].slots
           /\ chain'[x][k].entries = IF x = l /\ k = n THEN chain[x][k].entries \cup {t}
                                                     ELSE chain[x][k].entries
  BY <1>4, <1>5, <1>6
<1>8. \/ n = 1 /\ Taken(t, l, m) /\ UNCHANGED waiting
      \/ n # 1 /\ waiting' = waiting \cup {w} /\ UNCHANGED held
  <2>1. IF n = 1 THEN Taken(t, l, m) /\ UNCHANGED waiting
                 ELSE waiting' = waiting \cup {w} /\ UNCHANGED held
    BY <1>n, <1>w DEF LockJoin
  <2>2. QED
    BY <2>1
<1>9. \A v \in waiting : v.tx # t
  BY DEF IsWaiting
<1>10. /\ \A s \in Cid, x \in Locks : held[s][x] # "none" => held'[s][x] # "none"
       /\ n = 1 => held'[t][l] # "none"
  BY <1>8, TakenGrows DEF ChainInv
<1>11. \A v \in waiting : \A k \in DOMAIN chain[v.lock] :
         SleepsAt(v, k) => SleepsAt(v, k)'
  <2> SUFFICES ASSUME NEW v \in waiting, NEW k \in DOMAIN chain[v.lock], SleepsAt(v, k)
               PROVE  SleepsAt(v, k)'
    OBVIOUS
  <2>1. v.lock \in Locks
    BY WaiterType DEF ChainInv
  <2>2. QED
    BY <2>1, <1>7 DEF SleepsAt
<1>12. \A k \in DOMAIN q : t \in q[k].entries => k = 1
  BY AwakeIsFirst
<1>13. t \notin q[1].entries
  <2>1. q[1].mode \in Modes
    BY <1>1, <1>6, PositionType DEF ChainInv
  <2>2. QED
    BY <2>1, <1>2 DEF Covered, First, Modes
<1>14. n # 1 => SleepsAt(w, n)'
  <2> SUFFICES ASSUME n # 1
               PROVE  SleepsAt(w, n)'
    OBVIOUS
  <2>1. n > 1 /\ n \in DOMAIN q
    BY <1>1, <1>6
  <2>2. t \notin q[n].slots
    BY <2>1, <1>12 DEF ChainInv, GroupsHaveSleepers
  <2>3. /\ chain'[l][n].mode = m
        /\ t \in chain'[l][n].entries
        /\ t \notin chain'[l][n].slots
    BY <2>1, <2>2, <1>2, <1>7
  <2>4. w.tx = t /\ w.lock = l /\ w.mode = m /\ w.role # "creator"
    BY <1>w
  <2>5. QED
    BY <2>3, <2>4 DEF SleepsAt
<1> HIDE DEF E, q
<1>15. w.tx = t /\ w.lock = l
  BY <1>w
<1>16. OneCallEach'
  BY <1>8, <1>9, <1>15 DEF ChainInv, OneCallEach
<1>17. SleepersHaveGroups'
  <2> SUFFICES ASSUME NEW v \in waiting'
               PROVE  \E k \in DOMAIN chain'[v.lock] : SleepsAt(v, k)'
    BY DEF SleepersHaveGroups
  <2>1. CASE v \in waiting
    <3>1. PICK k \in DOMAIN chain[v.lock] : SleepsAt(v, k)
      BY <2>1 DEF ChainInv, SleepersHaveGroups
    <3>2. v.lock \in Locks
      BY <2>1, WaiterType DEF ChainInv
    <3>3. QED
      BY <2>1, <3>1, <3>2, <1>7, <1>11
  <2>2. CASE v = w /\ n # 1
    BY <2>2, <1>4, <1>5, <1>6, <1>1, <1>14, <1>15 DEF q
  <2>3. QED
    BY <2>1, <2>2, <1>8
<1>18. GroupsHaveSleepers'
  <2> SUFFICES ASSUME NEW x \in Locks, NEW k \in DOMAIN chain'[x], k > 1
               PROVE  /\ chain'[x][k].slots \subseteq chain'[x][k].entries
                      /\ \A s \in chain'[x][k].entries :
                           \E v \in waiting' :
                             v.tx = s /\ v.lock = x /\ SleepsAt(v, k)'
    BY DEF GroupsHaveSleepers
  <2>1. k \in DOMAIN chain[x]
    BY <1>7
  <2>2. /\ chain[x][k].slots \subseteq chain[x][k].entries
        /\ \A s \in chain[x][k].entries :
             \E v \in waiting : v.tx = s /\ v.lock = x /\ SleepsAt(v, k)
    BY <2>1 DEF ChainInv, GroupsHaveSleepers
  <2>3. chain'[x][k].slots \subseteq chain'[x][k].entries
    BY <2>1, <2>2, <1>7
  <2>4. ASSUME NEW s \in chain'[x][k].entries
        PROVE  \E v \in waiting' : v.tx = s /\ v.lock = x /\ SleepsAt(v, k)'
    <3>1. CASE s \in chain[x][k].entries
      <4>1. PICK v \in waiting : v.tx = s /\ v.lock = x /\ SleepsAt(v, k)
        BY <2>2, <3>1
      <4>2. v \in waiting'
        BY <1>8
      <4>3. QED
        BY <4>1, <4>2, <2>1, <1>11
    <3>2. CASE x = l /\ k = n /\ s = t
      <4>1. n # 1
        BY <3>2, <1>1
      <4>2. QED
        BY <3>2, <4>1, <1>8, <1>14, <1>15
    <3>3. QED
      BY <3>1, <3>2, <2>1, <1>7
  <2>5. QED
    BY <2>3, <2>4
<1>19. HoldersTold'
  <2> SUFFICES ASSUME NEW x \in Locks, chain'[x] # << >>,
                      NEW s \in chain'[x][1].entries, held'[s][x] = "none"
               PROVE  \E v \in waiting' : v.tx = s /\ v.lock = x /\ SleepsAt(v, 1)'
    BY DEF HoldersTold, First
  <2>1. chain[x] # << >> /\ 1 \in DOMAIN chain[x]
    BY <1>1, <1>5, ChainType DEF q, ChainInv, LockInv
  <2>2. s \in chain[x][1].entries
    BY <2>1, <1>7, <1>10
  <2>3. s \in Cid
    BY <2>1, <2>2, PositionType DEF ChainInv
  <2>4. held[s][x] = "none"
    BY <2>3, <1>10
  <2>5. PICK v \in waiting : v.tx = s /\ v.lock = x /\ SleepsAt(v, 1)
    BY <2>1, <2>2, <2>4 DEF ChainInv, HoldersTold, First
  <2>6. QED
    BY <2>1, <2>5, <1>8, <1>11
<1>20. TwiceForUpgrade'
  <2> SUFFICES ASSUME NEW x \in Locks, NEW j \in DOMAIN chain[x],
                      NEW k \in DOMAIN chain[x], j < k,
                      NEW s \in chain'[x][j].entries, s \in chain'[x][k].entries
               PROVE  /\ j = 1 /\ chain'[x][1].mode = "shared"
                      /\ chain'[x][k].mode = "exclusive" /\ held'[s][x] # "none"
    BY <1>7 DEF TwiceForUpgrade
  <2>1. CASE s \in chain[x][j].entries /\ s \in chain[x][k].entries
    <3>1. /\ j = 1 /\ chain[x][1].mode = "shared"
          /\ chain[x][k].mode = "exclusive" /\ held[s][x] # "none"
      BY <2>1 DEF ChainInv, TwiceForUpgrade
    <3>2. s \in Cid
      BY <2>1, PositionType DEF ChainInv
    <3>3. QED
      BY <3>1, <3>2, <1>7, <1>10
  <2>2. CASE x = l /\ s = t
    <3>1. j = n \/ t \in q[j].entries
      BY <2>2, <1>7 DEF q
    <3>2. t \notin q[j].entries
      BY <2>2, <1>12, <1>13 DEF q
    <3>3. j = n /\ k > n
      BY <3>1, <3>2
    <3>4. QED
      BY <3>3, <2>2, <1>6 DEF q
  <2>3. QED
    BY <2>1, <2>2, <1>7
<1>21. OneSlotEach'
  <2> SUFFICES ASSUME NEW x \in Locks, NEW y \in Locks, NEW j \in DOMAIN chain'[x],
                      NEW k \in DOMAIN chain'[y],
                      NEW s \in chain'[x][j].slots, s \in chain'[y][k].slots
               PROVE  x = y /\ j = k
    BY DEF OneSlotEach
  <2>1. /\ j \in DOMAIN chain[x] /\ k \in DOMAIN chain[y]
        /\ s \in chain[x][j].slots /\ s \in chain[y][k].slots
    BY <1>7
  <2>2. QED
    BY <2>1 DEF ChainInv, OneSlotEach
<1>22. QED
  BY <1>16, <1>17, <1>18, <1>19, <1>20, <1>21 DEF SleepInv

\* The upgrade of the only holder leaves nobody behind: nobody was there.
LEMMA LockUpgradeNowSleep ==
  ASSUME ChainInv, NEW t \in Cid, NEW l \in Locks, NEW m \in Modes,
         ~IsWaiting(t), LockUpgradeNow(t, l, m)
  PROVE  SleepInv'
<1> DEFINE q == chain[l]
           r == SetMode(q, 1, "exclusive")
<1>1. /\ q \in Seq(Group) /\ Len(q) = 1 /\ 1 \in 1 .. Len(q)
      /\ "exclusive" \in Modes /\ DOMAIN q = {1}
  BY ChainType DEF ChainInv, LockInv, LockUpgradeNow, HeadIsLast, Modes
<1>2. q[1].entries = {t}
  BY DEF LockUpgradeNow, First
<1>3. chain' = [chain EXCEPT ![l] = r]
  BY DEF LockUpgradeNow, SetMode
<1> HIDE DEF q
<1>4. /\ r \in Seq(Group) /\ Len(r) = Len(q)
      /\ r[1].entries = q[1].entries
      /\ r[1].slots = q[1].slots
  BY <1>1, ModeChain
<1>5. DOMAIN r = {1}
  BY <1>1, <1>4
<1> HIDE DEF r
<1>6. chain'[l] = r /\ \A x \in Locks : x # l => chain'[x] = chain[x]
  BY <1>3 DEF ChainInv, LockInv, TypeOK
<1>7. UNCHANGED waiting /\ Taken(t, l, m)
  BY DEF LockUpgradeNow
<1>8. /\ \A s \in Cid, x \in Locks : held[s][x] # "none" => held'[s][x] # "none"
      /\ held'[t][l] # "none"
  BY <1>7, TakenGrows DEF ChainInv
<1>9. DOMAIN chain[l] = {1} /\ chain[l][1].entries = {t}
  BY <1>1, <1>2 DEF q
<1>10. /\ DOMAIN chain'[l] = {1}
       /\ chain'[l][1].entries = {t}
       /\ chain'[l][1].slots = chain[l][1].slots
  BY <1>2, <1>4, <1>5, <1>6 DEF q
<1>11. OneCallEach'
  BY <1>7 DEF ChainInv, OneCallEach
<1>12. SleepersHaveGroups'
  <2> SUFFICES ASSUME NEW w \in waiting
               PROVE  \E k \in DOMAIN chain'[w.lock] : SleepsAt(w, k)'
    BY <1>7 DEF SleepersHaveGroups
  <2>1. PICK k \in DOMAIN chain[w.lock] : SleepsAt(w, k)
    BY DEF ChainInv, SleepersHaveGroups
  <2>2. w.lock \in Locks
    BY WaiterType DEF ChainInv
  <2>3. w.lock # l
    BY <2>1, <1>9 DEF SleepsAt, IsWaiting
  <2>4. QED
    BY <2>1, <2>2, <2>3, <1>6 DEF SleepsAt
<1>13. GroupsHaveSleepers'
  <2> SUFFICES ASSUME NEW x \in Locks, NEW k \in DOMAIN chain'[x], k > 1
               PROVE  /\ chain'[x][k].slots \subseteq chain'[x][k].entries
                      /\ \A s \in chain'[x][k].entries :
                           \E v \in waiting :
                             v.tx = s /\ v.lock = x /\ SleepsAt(v, k)'
    BY <1>7 DEF GroupsHaveSleepers
  <2>1. x # l
    BY <1>10
  <2>2. chain'[x] = chain[x]
    BY <2>1, <1>6
  <2>3. QED
    BY <2>2 DEF ChainInv, GroupsHaveSleepers, SleepsAt
<1>14. HoldersTold'
  <2> SUFFICES ASSUME NEW x \in Locks, chain'[x] # << >>,
                      NEW s \in chain'[x][1].entries, held'[s][x] = "none"
               PROVE  \E v \in waiting : v.tx = s /\ v.lock = x /\ SleepsAt(v, 1)'
    BY <1>7 DEF HoldersTold, First
  <2>1. x # l
    BY <1>8, <1>10
  <2>2. chain'[x] = chain[x] /\ s \in First(x).entries /\ 1 \in DOMAIN chain[x]
    BY <2>1, <1>6, ChainType DEF First, ChainInv, LockInv
  <2>3. s \in Cid
    BY <2>2, PositionType DEF ChainInv, First
  <2>4. held[s][x] = "none"
    BY <2>3, <1>8
  <2>5. PICK w \in waiting : w.tx = s /\ w.lock = x /\ SleepsAt(w, 1)
    BY <2>2, <2>4 DEF ChainInv, HoldersTold
  <2>6. QED
    BY <2>2, <2>5 DEF SleepsAt
<1>15. TwiceForUpgrade'
  <2> SUFFICES ASSUME NEW x \in Locks, NEW j \in DOMAIN chain'[x],
                      NEW k \in DOMAIN chain'[x], j < k,
                      NEW s \in chain'[x][j].entries, s \in chain'[x][k].entries
               PROVE  /\ j = 1 /\ chain'[x][1].mode = "shared"
                      /\ chain'[x][k].mode = "exclusive" /\ held'[s][x] # "none"
    BY DEF TwiceForUpgrade
  <2>1. x # l
    BY <1>10
  <2>2. chain'[x] = chain[x]
    BY <2>1, <1>6
  <2>3. s \in Cid
    BY <2>2, PositionType DEF ChainInv
  <2>4. QED
    BY <2>2, <2>3, <1>8 DEF ChainInv, TwiceForUpgrade
<1>16. OneSlotEach'
  <2> SUFFICES ASSUME NEW x \in Locks, NEW y \in Locks, NEW j \in DOMAIN chain'[x],
                      NEW k \in DOMAIN chain'[y],
                      NEW s \in chain'[x][j].slots, s \in chain'[y][k].slots
               PROVE  x = y /\ j = k
    BY DEF OneSlotEach
  <2>1. /\ j \in DOMAIN chain[x] /\ k \in DOMAIN chain[y]
        /\ s \in chain[x][j].slots /\ s \in chain[y][k].slots
    BY <1>6, <1>9, <1>10
  <2>2. QED
    BY <2>1 DEF ChainInv, OneSlotEach
<1>17. QED
  BY <1>11, <1>12, <1>13, <1>14, <1>15, <1>16 DEF SleepInv

\* A call that is its own victim takes its slot with it and nothing else.
LEMMA LockDeadlockEffect ==
  ASSUME LockInv, NEW t \in Cid, NEW l \in Locks, NEW m \in Modes,
         LockDeadlock(t, l, m)
  PROVE  \A x \in Locks :
           /\ DOMAIN chain'[x] = DOMAIN chain[x]
           /\ chain'[x] # << >> => chain[x] # << >> /\ 1 \in DOMAIN chain[x]
           /\ \A k \in DOMAIN chain[x] :
                /\ chain'[x][k].mode = chain[x][k].mode
                /\ chain'[x][k].entries = chain[x][k].entries
                /\ chain'[x][k].slots = chain[x][k].slots \ {t}
<1>1. chain' = [x \in Locks |-> ForgetSlot(chain[x], t)]
  BY DEF LockDeadlock
<1> TAKE x \in Locks
<1>2. chain'[x] = ForgetSlot(chain[x], t)
  BY <1>1
<1>3. /\ chain[x] \in Seq(Group)
      /\ Len(chain[x]) \in Nat
      /\ DOMAIN chain[x] = 1 .. Len(chain[x])
      /\ chain[x] # << >> => 1 \in 1 .. Len(chain[x])
  BY ChainType DEF LockInv
<1>4. /\ ForgetSlot(chain[x], t) \in Seq(Group)
      /\ Len(ForgetSlot(chain[x], t)) = Len(chain[x])
      /\ \A k \in 1 .. Len(chain[x]) :
           /\ ForgetSlot(chain[x], t)[k].mode = chain[x][k].mode
           /\ ForgetSlot(chain[x], t)[k].entries = chain[x][k].entries
           /\ ForgetSlot(chain[x], t)[k].slots = chain[x][k].slots \ {t}
  BY <1>3, ForgetSlotChain
<1>5. /\ DOMAIN ForgetSlot(chain[x], t) = 1 .. Len(chain[x])
      /\ chain[x] = << >> => ForgetSlot(chain[x], t) = << >>
  BY <1>3, <1>4
<1>6. QED
  BY <1>2, <1>3, <1>4, <1>5

LEMMA LockDeadlockSleep ==
  ASSUME ChainInv, NEW t \in Cid, NEW l \in Locks, NEW m \in Modes,
         ~IsWaiting(t), LockDeadlock(t, l, m)
  PROVE  SleepInv'
<1>1. UNCHANGED <<waiting, held>>
  BY DEF LockDeadlock
<1>2. \A x \in Locks :
        /\ DOMAIN chain'[x] = DOMAIN chain[x]
        /\ chain'[x] # << >> => chain[x] # << >> /\ 1 \in DOMAIN chain[x]
        /\ \A k \in DOMAIN chain[x] :
             /\ chain'[x][k].mode = chain[x][k].mode
             /\ chain'[x][k].entries = chain[x][k].entries
             /\ chain'[x][k].slots = chain[x][k].slots \ {t}
  BY LockDeadlockEffect DEF ChainInv
<1>3. \A v \in waiting : v.tx # t /\ v.lock \in Locks
  BY WaiterType DEF IsWaiting, ChainInv
<1>4. \A v \in waiting : \A k \in DOMAIN chain[v.lock] :
         SleepsAt(v, k) => SleepsAt(v, k)'
  BY <1>2, <1>3 DEF SleepsAt
<1>5. OneCallEach'
  BY <1>1 DEF ChainInv, OneCallEach
<1>6. SleepersHaveGroups'
  BY <1>1, <1>2, <1>3, <1>4 DEF ChainInv, SleepersHaveGroups
<1>7. GroupsHaveSleepers'
  <2> SUFFICES ASSUME NEW x \in Locks, NEW k \in DOMAIN chain'[x], k > 1
               PROVE  /\ chain'[x][k].slots \subseteq chain'[x][k].entries
                      /\ \A s \in chain'[x][k].entries :
                           \E v \in waiting' :
                             v.tx = s /\ v.lock = x /\ SleepsAt(v, k)'
    BY DEF GroupsHaveSleepers
  <2>0. k \in DOMAIN chain[x]
    BY <1>2
  <2>1. /\ chain[x][k].slots \subseteq chain[x][k].entries
        /\ \A s \in chain[x][k].entries :
             \E v \in waiting : v.tx = s /\ v.lock = x /\ SleepsAt(v, k)
    BY <2>0 DEF ChainInv, GroupsHaveSleepers
  <2>2. chain'[x][k].slots \subseteq chain'[x][k].entries
    BY <2>0, <2>1, <1>2
  <2>3. ASSUME NEW s \in chain'[x][k].entries
        PROVE  \E v \in waiting' : v.tx = s /\ v.lock = x /\ SleepsAt(v, k)'
    <3>1. s \in chain[x][k].entries
      BY <2>0, <1>2
    <3>2. PICK v \in waiting : v.tx = s /\ v.lock = x /\ SleepsAt(v, k)
      BY <2>1, <3>1
    <3>3. v \in waiting'
      BY <1>1
    <3>4. QED
      BY <2>0, <3>2, <3>3, <1>4
  <2>4. QED
    BY <2>2, <2>3
<1>8. HoldersTold'
  <2> SUFFICES ASSUME NEW x \in Locks, chain'[x] # << >>,
                      NEW s \in chain'[x][1].entries, held[s][x] = "none"
               PROVE  \E v \in waiting : v.tx = s /\ v.lock = x /\ SleepsAt(v, 1)'
    BY <1>1 DEF HoldersTold, First
  <2>1. chain[x] # << >> /\ 1 \in DOMAIN chain[x] /\ s \in First(x).entries
    BY <1>2 DEF First
  <2>2. PICK v \in waiting : v.tx = s /\ v.lock = x /\ SleepsAt(v, 1)
    BY <2>1 DEF ChainInv, HoldersTold
  <2>3. QED
    BY <2>1, <2>2, <1>4
<1>9. TwiceForUpgrade'
  <2> SUFFICES ASSUME NEW x \in Locks, NEW j \in DOMAIN chain[x],
                      NEW k \in DOMAIN chain[x], j < k,
                      NEW s \in chain'[x][j].entries, s \in chain'[x][k].entries
               PROVE  /\ j = 1 /\ chain'[x][1].mode = "shared"
                      /\ chain'[x][k].mode = "exclusive" /\ held[s][x] # "none"
    BY <1>1, <1>2 DEF TwiceForUpgrade
  <2>1. s \in chain[x][j].entries /\ s \in chain[x][k].entries
    BY <1>2
  <2>2. /\ j = 1 /\ chain[x][1].mode = "shared"
        /\ chain[x][k].mode = "exclusive" /\ held[s][x] # "none"
    BY <2>1 DEF ChainInv, TwiceForUpgrade
  <2>3. QED
    BY <2>2, <1>2
<1>10. OneSlotEach'
  <2> SUFFICES ASSUME NEW x \in Locks, NEW y \in Locks, NEW j \in DOMAIN chain[x],
                      NEW k \in DOMAIN chain[y],
                      NEW s \in chain'[x][j].slots, s \in chain'[y][k].slots
               PROVE  x = y /\ j = k
    BY <1>2 DEF OneSlotEach
  <2>1. s \in chain[x][j].slots /\ s \in chain[y][k].slots
    BY <1>2
  <2>2. QED
    BY <2>1 DEF ChainInv, OneSlotEach
<1>11. QED
  BY <1>5, <1>6, <1>7, <1>8, <1>9, <1>10 DEF SleepInv

\* A call that goes to sleep in a new group, whatever it marks.
LEMMA QueueSleep ==
  ASSUME ChainInv,
         NEW t \in Cid, NEW l \in Locks, NEW m \in Modes,
         ~IsWaiting(t), MustQueue(t, l, m),
         \A x \in Locks : Len(chain'[x]) = Len(ChainBlocked(t, l, m)[x]),
         \A x \in Locks : DOMAIN chain'[x] = 1 .. Len(chain'[x]),
         \A x \in Locks : \A k \in 1 .. Len(ChainBlocked(t, l, m)[x]) :
           /\ chain'[x][k].mode = ChainBlocked(t, l, m)[x][k].mode
           /\ chain'[x][k].entries = ChainBlocked(t, l, m)[x][k].entries
           /\ chain'[x][k].slots = ChainBlocked(t, l, m)[x][k].slots,
         QueueWaiter(t, l, m), UNCHANGED held
  PROVE  SleepInv'
<1>n. PICK n : n = Len(chain[l]) + 1
  OBVIOUS
<1>w. PICK w : w = [tx |-> t, lock |-> l, mode |-> m, role |-> "creator"]
  OBVIOUS
<1> DEFINE c == ChainBlocked(t, l, m)
<1>1. waiting' = waiting \cup {w} /\ w.tx = t /\ w.lock = l
      /\ w.mode = m /\ w.role = "creator"
  BY <1>w DEF QueueWaiter
<1>2. \A x \in Locks :
        /\ Len(chain[x]) \in Nat
        /\ DOMAIN chain[x] = 1 .. Len(chain[x])
        /\ Len(chain'[x]) = IF x = l THEN n ELSE Len(chain[x])
  BY <1>n, ChainBlockedChain, ChainType DEF ChainInv, LockInv
<1>3. \A x \in Locks : \A k \in DOMAIN chain[x] :
        /\ chain'[x][k].mode = chain[x][k].mode
        /\ chain'[x][k].entries = chain[x][k].entries
        /\ chain'[x][k].slots = chain[x][k].slots \ {t}
  <2> TAKE x \in Locks
  <2> TAKE k \in DOMAIN chain[x]
  <2>1. k \in 1 .. Len(c[x]) /\ k \in 1 .. Len(chain[x])
    BY <1>2, <1>n
  <2>2. /\ c[x][k].mode = chain[x][k].mode
        /\ c[x][k].entries = chain[x][k].entries
        /\ c[x][k].slots = chain[x][k].slots \ {t}
    BY <2>1, ChainBlockedChain DEF ChainInv
  <2>3. /\ chain'[x][k].mode = c[x][k].mode
        /\ chain'[x][k].entries = c[x][k].entries
        /\ chain'[x][k].slots = c[x][k].slots
    BY <2>1
  <2>4. QED
    BY <2>2, <2>3
<1>4. /\ chain'[l][n].mode = m
      /\ chain'[l][n].entries = {t}
      /\ chain'[l][n].slots = {t}
  <2>1. n \in 1 .. Len(c[l])
    BY <1>2, <1>n
  <2>2. /\ c[l][n].mode = m
        /\ c[l][n].entries = {t}
        /\ c[l][n].slots = {t}
    BY <1>n, ChainBlockedChain DEF ChainInv
  <2> HIDE DEF c
  <2>3. QED
    BY <2>1, <2>2 DEF c
<1> HIDE DEF c
<1>5. /\ \A x \in Locks : DOMAIN chain[x] \subseteq DOMAIN chain'[x]
      /\ \A x \in Locks : \A k \in DOMAIN chain'[x] :
           k \in DOMAIN chain[x] \/ (x = l /\ k = n)
      /\ n \in DOMAIN chain'[l] /\ n \notin DOMAIN chain[l]
  BY <1>2, <1>n
<1>6. /\ chain[l] # << >> /\ 1 \in DOMAIN chain[l] /\ n > 1
      /\ \A k \in DOMAIN chain[l] : k < n
  BY <1>2, <1>n, ChainType DEF MustQueue, ChainInv, LockInv
<1>7. \A v \in waiting : v.tx # t /\ v.lock \in Locks
  BY WaiterType DEF IsWaiting, ChainInv
<1>8. \A v \in waiting : \A k \in DOMAIN chain[v.lock] :
         SleepsAt(v, k) => SleepsAt(v, k)'
  BY <1>3, <1>7 DEF SleepsAt
<1>9. SleepsAt(w, n)'
  BY <1>1, <1>4 DEF SleepsAt
<1>10. OneCallEach'
  BY <1>1, <1>7 DEF ChainInv, OneCallEach
<1>11. SleepersHaveGroups'
  <2> SUFFICES ASSUME NEW v \in waiting'
               PROVE  \E k \in DOMAIN chain'[v.lock] : SleepsAt(v, k)'
    BY DEF SleepersHaveGroups
  <2>1. CASE v \in waiting
    BY <2>1, <1>5, <1>7, <1>8 DEF ChainInv, SleepersHaveGroups
  <2>2. CASE v = w
    BY <2>2, <1>1, <1>5, <1>9
  <2>3. QED
    BY <2>1, <2>2, <1>1
<1>12. GroupsHaveSleepers'
  <2> SUFFICES ASSUME NEW x \in Locks, NEW k \in DOMAIN chain'[x], k > 1
               PROVE  /\ chain'[x][k].slots \subseteq chain'[x][k].entries
                      /\ \A s \in chain'[x][k].entries :
                           \E v \in waiting' :
                             v.tx = s /\ v.lock = x /\ SleepsAt(v, k)'
    BY DEF GroupsHaveSleepers
  <2>1. CASE k \in DOMAIN chain[x]
    <3>1. /\ chain[x][k].slots \subseteq chain[x][k].entries
          /\ \A s \in chain[x][k].entries :
               \E v \in waiting : v.tx = s /\ v.lock = x /\ SleepsAt(v, k)
      BY <2>1 DEF ChainInv, GroupsHaveSleepers
    <3>2. QED
      BY <2>1, <3>1, <1>1, <1>3, <1>8
  <2>2. CASE x = l /\ k = n
    BY <2>2, <1>1, <1>4, <1>9
  <2>3. QED
    BY <2>1, <2>2, <1>5
<1>13. HoldersTold'
  <2> SUFFICES ASSUME NEW x \in Locks, chain'[x] # << >>,
                      NEW s \in chain'[x][1].entries, held[s][x] = "none"
               PROVE  \E v \in waiting' : v.tx = s /\ v.lock = x /\ SleepsAt(v, 1)'
    BY DEF HoldersTold, First
  <2>1. chain[x] # << >> /\ 1 \in DOMAIN chain[x]
    BY <1>2, <1>6, ChainType DEF ChainInv, LockInv
  <2>2. s \in First(x).entries
    BY <2>1, <1>3 DEF First
  <2>3. PICK v \in waiting : v.tx = s /\ v.lock = x /\ SleepsAt(v, 1)
    BY <2>1, <2>2 DEF ChainInv, HoldersTold
  <2>4. QED
    BY <2>1, <2>3, <1>1, <1>8
<1>14. TwiceForUpgrade'
  <2> SUFFICES ASSUME NEW x \in Locks, NEW j \in DOMAIN chain'[x],
                      NEW k \in DOMAIN chain'[x], j < k,
                      NEW s \in chain'[x][j].entries, s \in chain'[x][k].entries
               PROVE  /\ j = 1 /\ chain'[x][1].mode = "shared"
                      /\ chain'[x][k].mode = "exclusive" /\ held[s][x] # "none"
    BY DEF TwiceForUpgrade
  <2>1. j \in DOMAIN chain[x]
    <3>1. CASE x = l /\ j = n
      BY <3>1, <1>2, <1>n
    <3>2. QED
      BY <3>1, <1>5
  <2>2. s \in chain[x][j].entries
    BY <2>1, <1>3
  <2>3. CASE k \in DOMAIN chain[x]
    <3>1. s \in chain[x][k].entries
      BY <2>3, <1>3
    <3>2. /\ j = 1 /\ chain[x][1].mode = "shared"
          /\ chain[x][k].mode = "exclusive" /\ held[s][x] # "none"
      BY <2>1, <2>2, <2>3, <3>1 DEF ChainInv, TwiceForUpgrade
    <3>3. QED
      BY <3>2, <2>1, <2>3, <1>3
  <2>4. CASE x = l /\ k = n
    <3>1. s = t
      BY <2>4, <1>4
    <3>2. j = 1 /\ t \in First(l).entries
      BY <2>1, <2>2, <2>4, <3>1, AwakeIsFirst DEF First
    <3>3. First(l).mode = "shared" /\ m = "exclusive"
      <4>1. First(l).mode \in Modes
        BY <1>6, PositionType DEF ChainInv, First
      <4>2. QED
        BY <4>1, <3>2 DEF MustQueue, Covered, Modes
    <3>4. held[t][l] # "none"
      BY <3>2, <1>6, AwakeIsTold
    <3>5. chain'[l][1].mode = "shared"
      BY <3>3, <1>3, <1>6 DEF First
    <3>6. QED
      BY <2>4, <3>1, <3>2, <3>3, <3>4, <3>5, <1>4
  <2>5. QED
    BY <2>3, <2>4, <1>5
<1>15. OneSlotEach'
  <2> SUFFICES ASSUME NEW x \in Locks, NEW y \in Locks, NEW j \in DOMAIN chain'[x],
                      NEW k \in DOMAIN chain'[y],
                      NEW s \in chain'[x][j].slots, s \in chain'[y][k].slots
               PROVE  x = y /\ j = k
    BY DEF OneSlotEach
  <2>1. CASE s = t
    BY <2>1, <1>3, <1>5
  <2>2. CASE s # t
    <3>1. /\ j \in DOMAIN chain[x] /\ s \in chain[x][j].slots
          /\ k \in DOMAIN chain[y] /\ s \in chain[y][k].slots
      BY <2>2, <1>3, <1>4, <1>5
    <3>2. QED
      BY <3>1 DEF ChainInv, OneSlotEach
  <2>3. QED
    BY <2>1, <2>2
<1>16. QED
  BY <1>10, <1>11, <1>12, <1>13, <1>14, <1>15 DEF SleepInv

\* Case E leaves the chains of ChainBlocked, whatever it marks.
LEMMA LockQueueEffect ==
  ASSUME LockInv, NEW t \in Cid, NEW l \in Locks, NEW m \in Modes,
         LockQueue(t, l, m) \/ LockQueueMark(t, l, m)
  PROVE  /\ MustQueue(t, l, m) /\ QueueWaiter(t, l, m) /\ UNCHANGED held
         /\ \A x \in Locks : Len(chain'[x]) = Len(ChainBlocked(t, l, m)[x])
         /\ \A x \in Locks : DOMAIN chain'[x] = 1 .. Len(chain'[x])
         /\ \A x \in Locks : \A k \in 1 .. Len(ChainBlocked(t, l, m)[x]) :
              /\ chain'[x][k].mode = ChainBlocked(t, l, m)[x][k].mode
              /\ chain'[x][k].entries = ChainBlocked(t, l, m)[x][k].entries
              /\ chain'[x][k].slots = ChainBlocked(t, l, m)[x][k].slots
<1> DEFINE c == ChainBlocked(t, l, m)
<1>1. /\ c \in [Locks -> Seq(Group)]
      /\ \A x \in Locks : c[x] \in Seq(Group) /\ DOMAIN c[x] = 1 .. Len(c[x])
  BY ChainBlockedChain
<1>2. MustQueue(t, l, m) /\ QueueWaiter(t, l, m) /\ UNCHANGED held
  BY DEF LockQueue, LockQueueMark
<1>3. CASE LockQueue(t, l, m)
  <2>1. chain' = c
    BY <1>3 DEF LockQueue
  <2> HIDE DEF c
  <2>2. /\ \A x \in Locks : Len(chain'[x]) = Len(c[x])
        /\ \A x \in Locks : DOMAIN chain'[x] = 1 .. Len(chain'[x])
        /\ \A x \in Locks : \A k \in 1 .. Len(c[x]) :
             /\ chain'[x][k].mode = c[x][k].mode
             /\ chain'[x][k].entries = c[x][k].entries
             /\ chain'[x][k].slots = c[x][k].slots
    BY <1>1, <2>1
  <2>3. QED
    BY <1>2, <2>2 DEF c
<1>4. CASE LockQueueMark(t, l, m)
  <2>1. PICK v : /\ \E x \in Locks : \E k \in DOMAIN c[x] : v \in c[x][k].slots
                 /\ chain' = [x \in Locks |-> Mark(c[x], v)]
    BY <1>4 DEF LockQueueMark
  <2> HIDE DEF c
  <2>2. v \in Cid
    <3>1. PICK x \in Locks : \E k \in DOMAIN c[x] : v \in c[x][k].slots
      BY <2>1
    <3>2. PICK k \in DOMAIN c[x] : v \in c[x][k].slots
      BY <3>1
    <3>3. c[x][k] \in Group
      BY <1>1
    <3>4. QED
      BY <3>2, <3>3 DEF Group
  <2>3. \A x \in Locks :
          /\ Mark(c[x], v) \in Seq(Group)
          /\ Len(Mark(c[x], v)) = Len(c[x])
          /\ \A k \in 1 .. Len(c[x]) :
               /\ Mark(c[x], v)[k].mode = c[x][k].mode
               /\ Mark(c[x], v)[k].entries = c[x][k].entries
               /\ Mark(c[x], v)[k].slots = c[x][k].slots
    BY <1>1, <2>2, MarkChain
  <2>4. \A x \in Locks : chain'[x] = Mark(c[x], v)
    BY <2>1
  <2>5. /\ \A x \in Locks : Len(chain'[x]) = Len(c[x])
        /\ \A x \in Locks : DOMAIN chain'[x] = 1 .. Len(chain'[x])
        /\ \A x \in Locks : \A k \in 1 .. Len(c[x]) :
             /\ chain'[x][k].mode = c[x][k].mode
             /\ chain'[x][k].entries = c[x][k].entries
             /\ chain'[x][k].slots = c[x][k].slots
    BY <2>3, <2>4
  <2>6. QED
    BY <1>2, <2>5 DEF c
<1>5. QED
  BY <1>3, <1>4

LEMMA LockQueueSleep ==
  ASSUME ChainInv, NEW t \in Cid, NEW l \in Locks, NEW m \in Modes,
         ~IsWaiting(t), LockQueue(t, l, m) \/ LockQueueMark(t, l, m)
  PROVE  SleepInv'
  BY LockQueueEffect, QueueSleep DEF ChainInv

LEMMA NoChangeSleep ==
  ASSUME ChainInv, UNCHANGED <<chain, waiting, held>>
  PROVE  SleepInv'
  BY HeldGrows

LEMMA LockLockChain ==
  ASSUME ChainInv, sid' \in [Cid -> Nat],
         NEW t \in Cid, NEW l \in Locks, NEW m \in Modes, LockLock(t, l, m)
  PROVE  ChainInv'
<1>1. ~IsWaiting(t)
  BY DEF LockLock
<1>2. LockInv'
  BY LockLockInv DEF ChainInv
<1> SUFFICES SleepInv'
  BY <1>2 DEF ChainInv, SleepInv
<1>3. CASE LockFree(t, l, m)
  BY <1>3, LockFreeSleep
<1>4. CASE LockCovered(t, l, m)
  <2>1. UNCHANGED <<chain, waiting>> /\ Taken(t, l, m)
    BY <1>4 DEF LockCovered
  <2>2. \A s \in Cid, x \in Locks : held[s][x] # "none" => held'[s][x] # "none"
    BY <2>1, TakenGrows DEF ChainInv
  <2>3. QED
    BY <2>1, <2>2, HeldGrows
<1>5. CASE LockJoin(t, l, m)
  BY <1>1, <1>5, LockJoinSleep
<1>6. CASE LockUpgradeNow(t, l, m)
  BY <1>1, <1>6, LockUpgradeNowSleep
<1>7. CASE LockStale(t, l, m) \/ LockFreedTail(t, l, m) \/ LockSearchFault(t, l, m)
  <2>1. UNCHANGED <<chain, waiting, held>>
    BY <1>7 DEF LockStale, LockFreedTail, LockSearchFault, Crash, lockVars
  <2>2. QED
    BY <2>1, NoChangeSleep
<1>8. CASE LockQueue(t, l, m) \/ LockQueueMark(t, l, m)
  BY <1>1, <1>8, LockQueueSleep
<1>9. CASE LockDeadlock(t, l, m)
  BY <1>1, <1>9, LockDeadlockSleep
<1>10. QED
  BY <1>3, <1>4, <1>5, <1>6, <1>7, <1>8, <1>9 DEF LockLock

-----------------------------------------------------------------------------
(* Waking up preserves the invariant.                                      *)

\* A call that wakes up with the lock is in no group behind the first.
LEMMA WakesFirst ==
  ASSUME ChainInv, NEW w \in waiting, WakeJoined(w) \/ WakeGranted(w),
         NEW l \in Locks, NEW k \in DOMAIN chain[l], k > 1
  PROVE  w.tx \notin chain[l][k].entries
<1> SUFFICES ASSUME w.tx \in chain[l][k].entries
             PROVE  FALSE
  OBVIOUS
<1>1. l = w.lock /\ SleepsAt(w, k)
  BY SleepsBehind
<1>2. 1 \in DOMAIN chain[l] /\ 1 < k /\ k # 1
  BY PositionType DEF ChainInv
<1>3. CASE WakeJoined(w)
  <2>1. w.tx \in chain[l][1].entries /\ w.role = "joiner"
    BY <1>1, <1>3 DEF WakeJoined, First
  <2>2. chain[l][k].mode = "exclusive"
    BY <1>2, <2>1 DEF ChainInv, TwiceForUpgrade
  <2>3. w.mode = "shared"
    BY <2>1 DEF ChainInv, LockInv, OwnGroup
  <2>4. QED
    BY <1>1, <2>2, <2>3 DEF SleepsAt
<1>4. CASE WakeGranted(w)
  <2>1. w.tx \in chain[l][1].slots /\ w.role = "creator"
    BY <1>1, <1>4 DEF WakeGranted, Creator
  <2>2. w.tx \in chain[l][k].slots
    BY <1>1, <2>1 DEF SleepsAt
  <2>3. QED
    BY <1>2, <2>1, <2>2 DEF ChainInv, OneSlotEach
<1>5. QED
  BY <1>3, <1>4

LEMMA WakeTakenSleep ==
  ASSUME ChainInv, NEW w \in waiting, WakeJoined(w) \/ WakeGranted(w)
  PROVE  SleepInv'
<1>1. /\ Taken(w.tx, w.lock, w.mode)
      /\ waiting' = waiting \ {w}
      /\ UNCHANGED chain
  BY DEF WakeJoined, WakeGranted, StopWaiting
<1>2. w.tx \in Cid /\ w.lock \in Locks /\ w.mode \in Modes
  BY WaiterType DEF ChainInv
<1>3. /\ \A s \in Cid, x \in Locks : held[s][x] # "none" => held'[s][x] # "none"
      /\ held'[w.tx][w.lock] # "none"
  BY <1>1, <1>2, TakenGrows DEF ChainInv
<1>4. OneCallEach' /\ OneSlotEach'
  BY <1>1 DEF ChainInv, OneCallEach, OneSlotEach
<1>5. SleepersHaveGroups'
  BY <1>1 DEF ChainInv, SleepersHaveGroups, SleepsAt
<1>6. GroupsHaveSleepers'
  <2> SUFFICES ASSUME NEW x \in Locks, NEW k \in DOMAIN chain[x], k > 1
               PROVE  /\ chain[x][k].slots \subseteq chain[x][k].entries
                      /\ \A s \in chain[x][k].entries :
                           \E v \in waiting' :
                             v.tx = s /\ v.lock = x /\ SleepsAt(v, k)
    BY <1>1 DEF GroupsHaveSleepers, SleepsAt
  <2>1. w.tx \notin chain[x][k].entries
    BY WakesFirst
  <2>2. QED
    BY <2>1, <1>1 DEF ChainInv, GroupsHaveSleepers
<1>7. \A l \in Locks : \A k \in DOMAIN chain[l] : chain[l][k].entries \subseteq Cid
  BY PositionType DEF ChainInv
<1>8. HoldersTold'
  <2> SUFFICES ASSUME NEW x \in Locks, chain[x] # << >>,
                      NEW s \in chain[x][1].entries, held'[s][x] = "none"
               PROVE  \E v \in waiting' : v.tx = s /\ v.lock = x /\ SleepsAt(v, 1)
    BY <1>1 DEF HoldersTold, First, SleepsAt
  <2>1. 1 \in DOMAIN chain[x]
    BY ChainType DEF ChainInv, LockInv
  <2>2. held[s][x] = "none"
    BY <2>1, <1>3, <1>7
  <2>3. PICK v \in waiting : v.tx = s /\ v.lock = x /\ SleepsAt(v, 1)
    BY <2>2 DEF ChainInv, HoldersTold, First
  <2>4. v # w
    BY <2>3, <1>3
  <2>5. QED
    BY <2>3, <2>4, <1>1
<1>9. TwiceForUpgrade'
  BY <1>1, <1>3, <1>7 DEF ChainInv, TwiceForUpgrade
<1>10. QED
  BY <1>4, <1>5, <1>6, <1>8, <1>9 DEF SleepInv

\* The removal of a victim's group moves the groups behind it up by one.
LEMMA WakeDeadlockedSleep ==
  ASSUME ChainInv, NEW w \in waiting, WakeDeadlocked(w)
  PROVE  SleepInv'
<1>1. w.lock \in Locks /\ w.tx \in Cid
  BY WaiterType DEF ChainInv
<1>l. PICK l \in Locks : l = w.lock
  BY <1>1
<1>2. CASE \E f \in Faults : Crash(f)
  BY <1>2, NoChangeSleep DEF Crash
<1>3. CASE \E k \in DOMAIN chain[l] :
             /\ k > 1
             /\ w.tx \in chain[l][k].slots
             /\ chain[l][k].entries = {w.tx}
             /\ chain' = [chain EXCEPT ![l] = RemoveAt(@, k)]
             /\ waiting' = waiting \ {w}
             /\ UNCHANGED held
  <2>1. PICK i \in DOMAIN chain[l] :
             /\ i > 1
             /\ chain[l][i].entries = {w.tx}
             /\ chain' = [chain EXCEPT ![l] = RemoveAt(@, i)]
             /\ waiting' = waiting \ {w}
             /\ UNCHANGED held
    BY <1>3
  <2>n. PICK n \in Nat : n = Len(chain[l])
    BY ChainType DEF ChainInv, LockInv
  <2> DEFINE Old(x, k) == IF x = l /\ k >= i THEN k + 1 ELSE k
             New(x, k) == IF x = l /\ k > i THEN k - 1 ELSE k
  <2>2. /\ chain[l] \in Seq(Group) /\ DOMAIN chain[l] = 1 .. n /\ i \in 1 .. n
    BY <2>n, ChainType DEF ChainInv, LockInv
  <2>3. /\ RemoveAt(chain[l], i) \in Seq(Group)
        /\ Len(RemoveAt(chain[l], i)) = n - 1
        /\ \A k \in 1 .. n - 1 :
             RemoveAt(chain[l], i)[k] = IF k < i THEN chain[l][k] ELSE chain[l][k + 1]
    BY <2>2, <2>n, RemoveAtChain
  <2>4. /\ chain'[l] = RemoveAt(chain[l], i)
        /\ \A x \in Locks : x # l => chain'[x] = chain[x]
    BY <2>1 DEF ChainInv, LockInv, TypeOK
  <2>5. DOMAIN chain'[l] = 1 .. n - 1
    BY <2>2, <2>3, <2>4
  <2>6. \A x \in Locks : \A k \in DOMAIN chain'[x] :
          /\ Old(x, k) \in DOMAIN chain[x]
          /\ x = l => Old(x, k) # i
          /\ chain'[x][k] = chain[x][Old(x, k)]
          /\ Old(x, k) \in Nat /\ k \in Nat
          /\ k > 1 => Old(x, k) > 1
          /\ (k = 1) = (Old(x, k) = 1)
    <3> SUFFICES ASSUME NEW x \in Locks, NEW k \in DOMAIN chain'[x]
                 PROVE  /\ Old(x, k) \in DOMAIN chain[x]
                        /\ x = l => Old(x, k) # i
                        /\ chain'[x][k] = chain[x][Old(x, k)]
                        /\ Old(x, k) \in Nat /\ k \in Nat
                        /\ k > 1 => Old(x, k) > 1
                        /\ (k = 1) = (Old(x, k) = 1)
      OBVIOUS
    <3>1. CASE x = l
      <4>1. k \in 1 .. n - 1
        BY <3>1, <2>5
      <4>2. chain'[l][k] = IF k < i THEN chain[l][k] ELSE chain[l][k + 1]
        BY <4>1, <2>3, <2>4
      <4>3. chain'[x][k] = chain[x][Old(x, k)]
        BY <3>1, <4>1, <4>2, <2>2
      <4>4. QED
        BY <3>1, <4>1, <4>3, <2>1, <2>2
    <3>2. CASE x # l
      <4>1. k \in DOMAIN chain[x] /\ chain'[x] = chain[x]
        BY <3>2, <2>4
      <4>2. k \in Nat
        BY <4>1, PositionType DEF ChainInv
      <4>3. QED
        BY <3>2, <4>1, <4>2
    <3>3. QED
      BY <3>1, <3>2
  <2>7. \A x \in Locks : \A k \in DOMAIN chain[x] :
          x # l \/ k # i => /\ New(x, k) \in DOMAIN chain'[x]
                            /\ Old(x, New(x, k)) = k
    <3> SUFFICES ASSUME NEW x \in Locks, NEW k \in DOMAIN chain[x], x # l \/ k # i
                 PROVE  New(x, k) \in DOMAIN chain'[x] /\ Old(x, New(x, k)) = k
      OBVIOUS
    <3>1. CASE x = l
      <4>1. k \in 1 .. n /\ i \in 1 .. n /\ k # i
        BY <3>1, <2>2
      <4>2. New(x, k) \in 1 .. n - 1 /\ Old(x, New(x, k)) = k
        BY <3>1, <4>1
      <4>3. QED
        BY <3>1, <4>2, <2>5
    <3>2. CASE x # l
      BY <3>2, <2>4
    <3>3. QED
      BY <3>1, <3>2
  <2>8. \A x \in Locks : \A j, k \in DOMAIN chain'[x] :
          /\ Old(x, j) = Old(x, k) => j = k
          /\ j < k => Old(x, j) < Old(x, k)
    BY <2>2, <2>6
  <2> HIDE DEF Old, New
  <2>9. \A v \in waiting' : v \in waiting /\ v.tx # w.tx /\ v.lock \in Locks
    BY <2>1, WaiterType DEF ChainInv, OneCallEach
  <2>10. \A v \in waiting' : \A k \in DOMAIN chain'[v.lock] :
           SleepsAt(v, Old(v.lock, k)) => SleepsAt(v, k)'
    BY <2>6, <2>9 DEF SleepsAt
  <2>11. OneCallEach'
    BY <2>9 DEF ChainInv, OneCallEach
  <2>12. SleepersHaveGroups'
    <3> SUFFICES ASSUME NEW v \in waiting'
                 PROVE  \E k \in DOMAIN chain'[v.lock] : SleepsAt(v, k)'
      BY DEF SleepersHaveGroups
    <3>1. PICK k \in DOMAIN chain[v.lock] : SleepsAt(v, k)
      BY <2>9 DEF ChainInv, SleepersHaveGroups
    <3>2. v.lock # l \/ k # i
      BY <3>1, <2>1, <2>9 DEF SleepsAt
    <3>3. QED
      BY <3>1, <3>2, <2>7, <2>9, <2>10
  <2>13. ASSUME NEW x \in Locks, NEW k \in DOMAIN chain'[x], k > 1
         PROVE  w.tx \notin chain'[x][k].entries
    <3>1. SUFFICES ASSUME w.tx \in chain[x][Old(x, k)].entries
                   PROVE  FALSE
      BY <2>6
    <3>2. Old(x, k) \in DOMAIN chain[x] /\ Old(x, k) > 1 /\ (x = l => Old(x, k) # i)
      BY <2>6, <2>13
    <3>3. x = l
      BY <3>1, <3>2, <1>l, SleepsBehind
    <3>4. w.tx \in chain[l][i].entries \cap chain[l][Old(x, k)].entries
      BY <2>1, <3>1, <3>3
    <3>5. QED
      BY <2>1, <3>2, <3>3, <3>4, BehindOnce
  <2>14. GroupsHaveSleepers'
    <3> SUFFICES ASSUME NEW x \in Locks, NEW k \in DOMAIN chain'[x], k > 1
                 PROVE  /\ chain'[x][k].slots \subseteq chain'[x][k].entries
                        /\ \A s \in chain'[x][k].entries :
                             \E v \in waiting' :
                               v.tx = s /\ v.lock = x /\ SleepsAt(v, k)'
      BY DEF GroupsHaveSleepers
    <3>1. Old(x, k) \in DOMAIN chain[x] /\ Old(x, k) > 1
          /\ chain'[x][k] = chain[x][Old(x, k)]
      BY <2>6
    <3>2. /\ chain[x][Old(x, k)].slots \subseteq chain[x][Old(x, k)].entries
          /\ \A s \in chain[x][Old(x, k)].entries : \E v \in waiting :
               v.tx = s /\ v.lock = x /\ SleepsAt(v, Old(x, k))
      BY <3>1 DEF ChainInv, GroupsHaveSleepers
    <3>3. ASSUME NEW s \in chain'[x][k].entries
          PROVE  \E v \in waiting' : v.tx = s /\ v.lock = x /\ SleepsAt(v, k)'
      <4>1. PICK v \in waiting : v.tx = s /\ v.lock = x /\ SleepsAt(v, Old(x, k))
        BY <3>1, <3>2
      <4>2. v \in waiting'
        BY <4>1, <2>1, <2>13
      <4>3. QED
        BY <4>1, <4>2, <2>10
    <3>4. QED
      BY <3>1, <3>2, <3>3
  <2>15. HoldersTold'
    <3> SUFFICES ASSUME NEW x \in Locks, chain'[x] # << >>,
                        NEW s \in chain'[x][1].entries, held[s][x] = "none"
                 PROVE  \E v \in waiting' : v.tx = s /\ v.lock = x /\ SleepsAt(v, 1)'
      BY <2>1 DEF HoldersTold, First
    <3>0. 1 \in DOMAIN chain'[x]
      <4>1. CASE x = l
        <5>1. chain'[l] \in Seq(Group) /\ Len(chain'[l]) = n - 1
          BY <2>3, <2>4
        <5>2. QED
          BY <4>1, <5>1
      <4>2. CASE x # l
        BY <4>2, <2>4, ChainType DEF ChainInv, LockInv
      <4>3. QED
        BY <4>1, <4>2
    <3>1. Old(x, 1) = 1 /\ 1 \in DOMAIN chain[x] /\ chain'[x][1] = chain[x][1]
      BY <3>0, <2>6
    <3>2. chain[x] # << >>
      BY <3>1
    <3>3. PICK v \in waiting : v.tx = s /\ v.lock = x /\ SleepsAt(v, 1)
      BY <3>1, <3>2 DEF ChainInv, HoldersTold, First
    <3>4. v # w
      <4>1. ASSUME v = w
            PROVE  FALSE
        <5>1. x = l /\ s = w.tx /\ w.tx \in chain[l][1].entries \cap chain[l][i].entries
          BY <4>1, <3>1, <3>3, <2>1, <1>l
        <5>2. 1 \in DOMAIN chain[l] /\ 1 < i
          BY <5>1, <3>1, <2>1, <2>2
        <5>3. held[w.tx][l] # "none"
          BY <5>1, <5>2 DEF ChainInv, TwiceForUpgrade
        <5>4. QED
          BY <5>1, <5>3
      <4>2. QED
        BY <4>1
    <3>5. v \in waiting'
      BY <3>3, <3>4, <2>1
    <3>6. QED
      BY <3>0, <3>1, <3>3, <3>5, <2>10
  <2>16. TwiceForUpgrade'
    <3> SUFFICES ASSUME NEW x \in Locks, NEW j \in DOMAIN chain'[x],
                        NEW k \in DOMAIN chain'[x], j < k,
                        NEW s \in chain'[x][j].entries, s \in chain'[x][k].entries
                 PROVE  /\ j = 1 /\ chain'[x][1].mode = "shared"
                        /\ chain'[x][k].mode = "exclusive" /\ held[s][x] # "none"
      BY <2>1 DEF TwiceForUpgrade
    <3>1. /\ Old(x, j) \in DOMAIN chain[x] /\ chain'[x][j] = chain[x][Old(x, j)]
          /\ Old(x, k) \in DOMAIN chain[x] /\ chain'[x][k] = chain[x][Old(x, k)]
          /\ Old(x, j) < Old(x, k)
      BY <2>6, <2>8
    <3>2. /\ Old(x, j) = 1 /\ chain[x][1].mode = "shared"
          /\ chain[x][Old(x, k)].mode = "exclusive" /\ held[s][x] # "none"
      BY <3>1 DEF ChainInv, TwiceForUpgrade
    <3>3. QED
      BY <3>1, <3>2, <2>6
  <2>17. OneSlotEach'
    <3> SUFFICES ASSUME NEW x \in Locks, NEW y \in Locks, NEW j \in DOMAIN chain'[x],
                        NEW k \in DOMAIN chain'[y],
                        NEW s \in chain'[x][j].slots, s \in chain'[y][k].slots
                 PROVE  x = y /\ j = k
      BY DEF OneSlotEach
    <3>1. /\ Old(x, j) \in DOMAIN chain[x] /\ chain'[x][j] = chain[x][Old(x, j)]
          /\ Old(y, k) \in DOMAIN chain[y] /\ chain'[y][k] = chain[y][Old(y, k)]
      BY <2>6
    <3>2. x = y /\ Old(x, j) = Old(y, k)
      BY <3>1 DEF ChainInv, OneSlotEach
    <3>3. QED
      BY <3>2, <2>8
  <2>18. QED
    BY <2>11, <2>12, <2>14, <2>15, <2>16, <2>17 DEF SleepInv
<1>4. QED
  BY <1>2, <1>3, <1>l DEF WakeDeadlocked, Positions, Faults, StopWaiting

LEMMA LockWakeChain ==
  ASSUME ChainInv, sid' \in [Cid -> Nat], NEW t \in Cid, LockWake(t)
  PROVE  ChainInv'
<1>1. LockInv'
  BY LockWakeInv DEF ChainInv
<1>2. SleepInv'
  BY WakeTakenSleep, WakeDeadlockedSleep DEF LockWake, Wake
<1>3. QED
  BY <1>1, <1>2 DEF ChainInv, SleepInv

-----------------------------------------------------------------------------
(* lock_unlock() preserves the invariant.                                  *)

\* A holder leaves a first group that others stay in.
FirstStays(t, l) ==
  /\ \A x \in Locks : /\ DOMAIN chain'[x] = DOMAIN chain[x]
                      /\ chain'[x] # << >> => chain[x] # << >>
  /\ \A x \in Locks : \A k \in DOMAIN chain[x] :
       /\ chain'[x][k].mode = chain[x][k].mode
       /\ chain'[x][k].slots = chain[x][k].slots
       /\ chain'[x][k].entries = IF x = l /\ k = 1 THEN chain[x][k].entries \ {t}
                                                 ELSE chain[x][k].entries

\* The first group goes; every group behind it moves up by one.
FirstGoes(t, l) ==
  /\ chain[l] # << >>
  /\ chain' = [chain EXCEPT ![l] = Tail(@)]
  /\ \A s \in First(l).entries \ {t} :
       2 \in DOMAIN chain[l] /\ s \in chain[l][2].entries

LEMMA UnlockStaySleep ==
  ASSUME ChainInv, NEW t \in Cid, NEW l \in Locks, ~IsWaiting(t),
         UNCHANGED waiting, held' = [held EXCEPT ![t][l] = "none"],
         FirstStays(t, l)
  PROVE  SleepInv'
<1> USE DEF FirstStays
<1>1. \A s \in Cid, x \in Locks :
        /\ s # t \/ x # l => held'[s][x] = held[s][x]
  BY DEF ChainInv, LockInv, TypeOK
<1>2. \A v \in waiting : v.tx # t /\ v.lock \in Locks
  BY WaiterType DEF IsWaiting, ChainInv
<1>3. \A x \in Locks : \A k \in DOMAIN chain[x] :
        /\ chain'[x][k].entries \subseteq chain[x][k].entries
        /\ chain[x][k].entries \subseteq Cid
  BY PositionType DEF ChainInv
<1>4. \A v \in waiting : \A k \in DOMAIN chain[v.lock] :
         SleepsAt(v, k) => SleepsAt(v, k)'
  <2> SUFFICES ASSUME NEW v \in waiting, NEW k \in DOMAIN chain[v.lock], SleepsAt(v, k)
               PROVE  SleepsAt(v, k)'
    OBVIOUS
  <2>1. /\ chain'[v.lock][k].mode = chain[v.lock][k].mode
        /\ chain'[v.lock][k].slots = chain[v.lock][k].slots
        /\ v.tx \in chain[v.lock][k].entries => v.tx \in chain'[v.lock][k].entries
    BY <1>2
  <2>2. QED
    BY <2>1 DEF SleepsAt
<1>5. OneCallEach'
  BY DEF ChainInv, OneCallEach
<1>6. SleepersHaveGroups'
  <2> SUFFICES ASSUME NEW v \in waiting'
               PROVE  \E k \in DOMAIN chain'[v.lock] : SleepsAt(v, k)'
    BY DEF SleepersHaveGroups
  <2>1. v \in waiting
    OBVIOUS
  <2>2. QED
    BY <2>1, <1>2, <1>4 DEF ChainInv, SleepersHaveGroups
<1>7. GroupsHaveSleepers'
  <2> SUFFICES ASSUME NEW x \in Locks, NEW k \in DOMAIN chain'[x], k > 1
               PROVE  /\ chain'[x][k].slots \subseteq chain'[x][k].entries
                      /\ \A s \in chain'[x][k].entries :
                           \E v \in waiting' :
                             v.tx = s /\ v.lock = x /\ SleepsAt(v, k)'
    BY DEF GroupsHaveSleepers
  <2>1. k \in DOMAIN chain[x] /\ k # 1
    OBVIOUS
  <2>2. /\ chain[x][k].slots \subseteq chain[x][k].entries
        /\ \A s \in chain[x][k].entries : \E v \in waiting :
             v.tx = s /\ v.lock = x /\ SleepsAt(v, k)
    BY <2>1 DEF ChainInv, GroupsHaveSleepers
  <2>3. ASSUME NEW s \in chain'[x][k].entries
        PROVE  \E v \in waiting' : v.tx = s /\ v.lock = x /\ SleepsAt(v, k)'
    <3>1. PICK v \in waiting : v.tx = s /\ v.lock = x /\ SleepsAt(v, k)
      BY <2>1, <2>2
    <3>2. v \in waiting'
      OBVIOUS
    <3>3. QED
      BY <2>1, <3>1, <3>2, <1>4
  <2>4. QED
    BY <2>1, <2>2, <2>3
<1>8. HoldersTold'
  <2> SUFFICES ASSUME NEW x \in Locks, chain'[x] # << >>,
                      NEW s \in chain'[x][1].entries, held'[s][x] = "none"
               PROVE  \E v \in waiting' : v.tx = s /\ v.lock = x /\ SleepsAt(v, 1)'
    BY DEF HoldersTold, First
  <2>1. chain[x] # << >> /\ 1 \in DOMAIN chain[x]
    BY ChainType DEF ChainInv, LockInv
  <2>2. s \in chain[x][1].entries /\ s \in Cid /\ (s # t \/ x # l)
    BY <2>1, <1>3
  <2>3. held[s][x] = "none"
    BY <2>2, <1>1
  <2>4. PICK v \in waiting : v.tx = s /\ v.lock = x /\ SleepsAt(v, 1)
    BY <2>1, <2>2, <2>3 DEF ChainInv, HoldersTold, First
  <2>5. v \in waiting'
    OBVIOUS
  <2>6. QED
    BY <2>1, <2>4, <2>5, <1>4
<1>9. TwiceForUpgrade'
  <2> SUFFICES ASSUME NEW x \in Locks, NEW j \in DOMAIN chain[x],
                      NEW k \in DOMAIN chain[x], j < k,
                      NEW s \in chain'[x][j].entries, s \in chain'[x][k].entries
               PROVE  /\ j = 1 /\ chain'[x][1].mode = "shared"
                      /\ chain'[x][k].mode = "exclusive" /\ held'[s][x] # "none"
    BY DEF TwiceForUpgrade
  <2>1. s \in chain[x][j].entries /\ s \in chain[x][k].entries /\ s \in Cid
    BY <1>3
  <2>2. /\ j = 1 /\ chain[x][1].mode = "shared"
        /\ chain[x][k].mode = "exclusive" /\ held[s][x] # "none"
    BY <2>1 DEF ChainInv, TwiceForUpgrade
  <2>3. s # t \/ x # l
    BY <2>2
  <2>4. QED
    BY <2>1, <2>2, <2>3, <1>1
<1>10. OneSlotEach'
  <2> SUFFICES ASSUME NEW x \in Locks, NEW y \in Locks, NEW j \in DOMAIN chain[x],
                      NEW k \in DOMAIN chain[y],
                      NEW s \in chain'[x][j].slots, s \in chain'[y][k].slots
               PROVE  x = y /\ j = k
    BY DEF OneSlotEach
  <2>1. s \in chain[x][j].slots /\ s \in chain[y][k].slots
    OBVIOUS
  <2>2. QED
    BY <2>1 DEF ChainInv, OneSlotEach
<1>11. QED
  BY <1>5, <1>6, <1>7, <1>8, <1>9, <1>10 DEF SleepInv

LEMMA UnlockShiftSleep ==
  ASSUME ChainInv, NEW t \in Cid, NEW l \in Locks, ~IsWaiting(t),
         UNCHANGED waiting, held' = [held EXCEPT ![t][l] = "none"],
         FirstGoes(t, l)
  PROVE  SleepInv'
<1> DEFINE Old(x, k) == IF x = l THEN k + 1 ELSE k
<1>n. PICK n \in Nat : n = Len(chain[l])
  BY ChainType DEF ChainInv, LockInv
<1>1. /\ chain[l] \in Seq(Group) /\ DOMAIN chain[l] = 1 .. n /\ n >= 1
  BY <1>n, ChainType DEF FirstGoes, ChainInv, LockInv
<1>2. /\ chain'[l] = Tail(chain[l])
      /\ \A x \in Locks : x # l => chain'[x] = chain[x]
  BY DEF FirstGoes, ChainInv, LockInv, TypeOK
<1>3. /\ DOMAIN chain'[l] = 1 .. n - 1
      /\ \A k \in 1 .. n - 1 : chain'[l][k] = chain[l][k + 1]
  <2> DEFINE q == chain[l]
  <2>1. q \in Seq(Group) /\ Len(q) = n /\ n \in Nat /\ n >= 1
    BY <1>1, <1>n
  <2> HIDE DEF q
  <2>2. /\ Len(Tail(q)) = n - 1
        /\ DOMAIN Tail(q) = 1 .. n - 1
        /\ \A k \in 1 .. n - 1 : Tail(q)[k] = q[k + 1]
    BY <2>1
  <2>3. QED
    BY <2>2, <1>2 DEF q
<1>4. \A x \in Locks : \A k \in DOMAIN chain'[x] :
        /\ Old(x, k) \in DOMAIN chain[x]
        /\ chain'[x][k] = chain[x][Old(x, k)]
        /\ Old(x, k) \in Nat /\ k \in Nat /\ k >= 1
        /\ k > 1 \/ x = l => Old(x, k) > 1
  <2> SUFFICES ASSUME NEW x \in Locks, NEW k \in DOMAIN chain'[x]
               PROVE  /\ Old(x, k) \in DOMAIN chain[x]
                      /\ chain'[x][k] = chain[x][Old(x, k)]
                      /\ Old(x, k) \in Nat /\ k \in Nat /\ k >= 1
                      /\ k > 1 \/ x = l => Old(x, k) > 1
    OBVIOUS
  <2>1. CASE x = l
    <3>1. k \in 1 .. n - 1
      BY <2>1, <1>3
    <3>2. chain'[x][k] = chain[x][k + 1]
      BY <2>1, <3>1, <1>3
    <3>3. QED
      BY <2>1, <3>1, <3>2, <1>1
  <2>2. CASE x # l
    <3>1. k \in DOMAIN chain[x] /\ chain'[x] = chain[x]
      BY <2>2, <1>2
    <3>2. k \in Nat /\ k >= 1
      BY <3>1, PositionType DEF ChainInv
    <3>3. QED
      BY <2>2, <3>1, <3>2
  <2>3. QED
    BY <2>1, <2>2
<1>5. \A x \in Locks : \A k \in DOMAIN chain[x] :
        x # l \/ k # 1 => \E j \in DOMAIN chain'[x] : Old(x, j) = k
  <2> SUFFICES ASSUME NEW x \in Locks, NEW k \in DOMAIN chain[x], x # l \/ k # 1
               PROVE  \E j \in DOMAIN chain'[x] : Old(x, j) = k
    OBVIOUS
  <2>1. CASE x = l
    <3>1. k \in 1 .. n /\ k # 1
      BY <2>1, <1>1
    <3>2. k - 1 \in 1 .. n - 1 /\ (k - 1) + 1 = k
      BY <3>1
    <3>3. QED
      BY <2>1, <3>2, <1>3
  <2>2. CASE x # l
    BY <2>2, <1>2
  <2>3. QED
    BY <2>1, <2>2
<1>6. \A x \in Locks : \A j, k \in DOMAIN chain'[x] :
        /\ Old(x, j) = Old(x, k) => j = k
        /\ j < k => Old(x, j) < Old(x, k)
  <2> SUFFICES ASSUME NEW x \in Locks, NEW j \in DOMAIN chain'[x],
                      NEW k \in DOMAIN chain'[x]
               PROVE  /\ Old(x, j) = Old(x, k) => j = k
                      /\ j < k => Old(x, j) < Old(x, k)
    OBVIOUS
  <2>1. j \in Nat /\ k \in Nat
    BY <1>4
  <2>2. QED
    BY <2>1
<1>7. \A x \in Locks : x # l => \A k : Old(x, k) = k
  OBVIOUS
<1> HIDE DEF Old
<1>8. \A v \in waiting : v.tx # t /\ v.lock \in Locks
  BY WaiterType DEF IsWaiting, ChainInv
<1>9. \A s \in Cid, x \in Locks : s # t \/ x # l => held'[s][x] = held[s][x]
  BY DEF ChainInv, LockInv, TypeOK
<1>10. \A v \in waiting : \A k \in DOMAIN chain'[v.lock] :
           SleepsAt(v, Old(v.lock, k)) => SleepsAt(v, k)'
  BY <1>4, <1>8 DEF SleepsAt
<1>11. OneCallEach'
  BY DEF ChainInv, OneCallEach
<1>12. SleepersHaveGroups'
  <2> SUFFICES ASSUME NEW v \in waiting'
               PROVE  \E k \in DOMAIN chain'[v.lock] : SleepsAt(v, k)'
    BY DEF SleepersHaveGroups
  <2>0. v \in waiting
    OBVIOUS
  <2>1. PICK k \in DOMAIN chain[v.lock] : SleepsAt(v, k)
    BY <2>0 DEF ChainInv, SleepersHaveGroups
  <2>2. CASE v.lock # l \/ k # 1
    <3>1. PICK j \in DOMAIN chain'[v.lock] : Old(v.lock, j) = k
      BY <2>0, <2>2, <1>5, <1>8
    <3>2. QED
      BY <2>0, <2>1, <3>1, <1>10
  <2>3. CASE v.lock = l /\ k = 1
    <3>1. v.tx \in First(l).entries \ {t}
      BY <2>0, <2>1, <2>3, <1>8 DEF SleepsAt, First
    <3>2. 2 \in DOMAIN chain[l] /\ v.tx \in chain[l][2].entries
      BY <3>1 DEF FirstGoes
    <3>3. SleepsAt(v, 2)
      BY <2>0, <3>2, SleepsBehind
    <3>4. PICK j \in DOMAIN chain'[l] : Old(l, j) = 2
      BY <3>2, <1>5
    <3>5. QED
      BY <2>0, <2>3, <3>3, <3>4, <1>10
  <2>4. QED
    BY <2>2, <2>3
<1>13. GroupsHaveSleepers'
  <2> SUFFICES ASSUME NEW x \in Locks, NEW k \in DOMAIN chain'[x], k > 1
               PROVE  /\ chain'[x][k].slots \subseteq chain'[x][k].entries
                      /\ \A s \in chain'[x][k].entries :
                           \E v \in waiting' :
                             v.tx = s /\ v.lock = x /\ SleepsAt(v, k)'
    BY DEF GroupsHaveSleepers
  <2>1. Old(x, k) \in DOMAIN chain[x] /\ Old(x, k) > 1
        /\ chain'[x][k] = chain[x][Old(x, k)]
    BY <1>4
  <2>2. /\ chain[x][Old(x, k)].slots \subseteq chain[x][Old(x, k)].entries
        /\ \A s \in chain[x][Old(x, k)].entries : \E v \in waiting :
             v.tx = s /\ v.lock = x /\ SleepsAt(v, Old(x, k))
    BY <2>1 DEF ChainInv, GroupsHaveSleepers
  <2>3. ASSUME NEW s \in chain'[x][k].entries
        PROVE  \E v \in waiting' : v.tx = s /\ v.lock = x /\ SleepsAt(v, k)'
    <3>1. PICK v \in waiting : v.tx = s /\ v.lock = x /\ SleepsAt(v, Old(x, k))
      BY <2>1, <2>2
    <3>2. v \in waiting'
      OBVIOUS
    <3>3. QED
      BY <3>1, <3>2, <1>10
  <2>4. QED
    BY <2>1, <2>2, <2>3
<1>14. HoldersTold'
  <2> SUFFICES ASSUME NEW x \in Locks, chain'[x] # << >>,
                      NEW s \in chain'[x][1].entries, held'[s][x] = "none"
               PROVE  \E v \in waiting' : v.tx = s /\ v.lock = x /\ SleepsAt(v, 1)'
    BY DEF HoldersTold, First
  <2>1. CASE x = l
    <3>1. 1 \in DOMAIN chain'[l]
      <4>1. Tail(chain[l]) # << >>
        BY <2>1, <1>2
      <4>2. n - 1 # 0
        <5> DEFINE q == chain[l]
        <5>1. q \in Seq(Group) /\ Len(q) = n /\ n \in Nat /\ n >= 1 /\ Tail(q) # << >>
          BY <4>1, <1>1, <1>n
        <5> HIDE DEF q
        <5>2. QED
          BY <5>1
      <4>3. QED
        BY <4>2, <1>1, <1>3
    <3>2. Old(l, 1) \in DOMAIN chain[l] /\ Old(l, 1) > 1
          /\ chain'[l][1] = chain[l][Old(l, 1)]
      BY <3>1, <1>4
    <3>3. PICK v \in waiting : v.tx = s /\ v.lock = l /\ SleepsAt(v, Old(l, 1))
      BY <2>1, <3>2 DEF ChainInv, GroupsHaveSleepers
    <3>4. v \in waiting'
      OBVIOUS
    <3>5. QED
      BY <2>1, <3>1, <3>3, <3>4, <1>10
  <2>2. CASE x # l
    <3>1. chain'[x] = chain[x] /\ 1 \in DOMAIN chain[x] /\ 1 \in DOMAIN chain'[x]
      BY <2>2, <1>2, ChainType DEF ChainInv, LockInv
    <3>2. s \in Cid
      BY <3>1, PositionType DEF ChainInv
    <3>3. held[s][x] = "none"
      BY <2>2, <3>2, <1>9
    <3>4. PICK v \in waiting : v.tx = s /\ v.lock = x /\ SleepsAt(v, 1)
      BY <3>1, <3>3 DEF ChainInv, HoldersTold, First
    <3>5. v \in waiting' /\ Old(x, 1) = 1
      BY <2>2, <1>7
    <3>6. QED
      BY <3>1, <3>4, <3>5, <1>10
  <2>3. QED
    BY <2>1, <2>2
<1>15. TwiceForUpgrade'
  <2> SUFFICES ASSUME NEW x \in Locks, NEW j \in DOMAIN chain'[x],
                      NEW k \in DOMAIN chain'[x], j < k,
                      NEW s \in chain'[x][j].entries, s \in chain'[x][k].entries
               PROVE  /\ j = 1 /\ chain'[x][1].mode = "shared"
                      /\ chain'[x][k].mode = "exclusive" /\ held'[s][x] # "none"
    BY DEF TwiceForUpgrade
  <2>1. /\ Old(x, j) \in DOMAIN chain[x] /\ chain'[x][j] = chain[x][Old(x, j)]
        /\ Old(x, k) \in DOMAIN chain[x] /\ chain'[x][k] = chain[x][Old(x, k)]
        /\ Old(x, j) < Old(x, k)
    BY <1>4, <1>6
  <2>2. /\ Old(x, j) = 1 /\ chain[x][1].mode = "shared"
        /\ chain[x][Old(x, k)].mode = "exclusive" /\ held[s][x] # "none"
    BY <2>1 DEF ChainInv, TwiceForUpgrade
  <2>3. x # l
    BY <2>2, <1>4
  <2>4. s \in Cid
    BY <2>1, PositionType DEF ChainInv
  <2>5. QED
    BY <2>1, <2>2, <2>3, <2>4, <1>2, <1>7, <1>9
<1>16. OneSlotEach'
  <2> SUFFICES ASSUME NEW x \in Locks, NEW y \in Locks, NEW j \in DOMAIN chain'[x],
                      NEW k \in DOMAIN chain'[y],
                      NEW s \in chain'[x][j].slots, s \in chain'[y][k].slots
               PROVE  x = y /\ j = k
    BY DEF OneSlotEach
  <2>1. /\ Old(x, j) \in DOMAIN chain[x] /\ chain'[x][j] = chain[x][Old(x, j)]
        /\ Old(y, k) \in DOMAIN chain[y] /\ chain'[y][k] = chain[y][Old(y, k)]
    BY <1>4
  <2>2. x = y /\ Old(x, j) = Old(y, k)
    BY <2>1 DEF ChainInv, OneSlotEach
  <2>3. QED
    BY <2>2, <1>6
<1>17. QED
  BY <1>11, <1>12, <1>13, <1>14, <1>15, <1>16 DEF SleepInv

\* The two ways lock_unlock() leaves the chain of a lock that t holds.
LEMMA UnlockChain ==
  ASSUME LockInv, NEW t \in Cid, NEW l \in Locks, UnlockHeld(t, l)
  PROVE  \/ FirstGoes(t, l)
         \/ /\ FirstStays(t, l)
            /\ ~UpgradeNext(l, First(l).entries \ {t}, Tail(chain[l]))
<1> DEFINE q      == chain[l]
           left   == First(l).entries \ {t}
           behind == Tail(chain[l])
           freed  == left = {} \/ UpgradeNext(l, left, behind)
           g      == [q[1] EXCEPT !.entries = left]
<1>1. /\ q # << >> /\ q \in Seq(Group) /\ Len(q) \in Nat /\ Len(q) >= 1
      /\ DOMAIN q = 1 .. Len(q)
      /\ q[1] \in Group
  BY ChainType DEF LockInv, UnlockHeld
<1>2. chain' = [chain EXCEPT ![l] = IF freed THEN behind ELSE <<g>> \o behind]
  BY DEF UnlockHeld
<1>3. /\ behind \in Seq(Group)
      /\ Len(behind) = Len(q) - 1
      /\ DOMAIN behind = 1 .. Len(q) - 1
      /\ \A k \in 1 .. Len(q) - 1 : behind[k] = q[k + 1]
  BY <1>1
<1>4. /\ g \in Group
      /\ g.mode = q[1].mode /\ g.slots = q[1].slots /\ g.entries = left
      /\ left = q[1].entries \ {t}
  BY <1>1 DEF Group, First
<1>5. CASE freed
  <2>1. chain' = [chain EXCEPT ![l] = Tail(@)]
    BY <1>2, <1>5
  <2>2. ASSUME NEW s \in left
        PROVE  2 \in DOMAIN q /\ s \in q[2].entries
    <3>1. UpgradeNext(l, left, behind)
      BY <1>5, <2>2
    <3>2. behind # << >> /\ behind[1].entries = left
      BY <3>1 DEF UpgradeNext
    <3> HIDE DEF behind, left
    <3>3. 1 \in 1 .. Len(q) - 1
      BY <3>2, <1>1, <1>3
    <3>4. behind[1] = q[2] /\ 2 \in DOMAIN q
      BY <3>3, <1>1, <1>3
    <3>5. QED
      BY <3>2, <3>4
  <2>3. QED
    BY <1>1, <2>1, <2>2 DEF FirstGoes
<1>6. CASE ~freed
  <2> HIDE DEF behind, left, g, freed
  <2>1. chain' = [chain EXCEPT ![l] = <<g>> \o behind]
    BY <1>2, <1>6
  <2>2. /\ chain'[l] = <<g>> \o behind
        /\ \A x \in Locks : x # l => chain'[x] = chain[x]
    BY <2>1 DEF LockInv, TypeOK
  <2>3. /\ DOMAIN (<<g>> \o behind) = 1 .. Len(q)
        /\ (<<g>> \o behind)[1] = g
        /\ \A k \in 2 .. Len(q) : (<<g>> \o behind)[k] = q[k]
    BY <1>1, <1>3, <1>4
  <2>4. \A k \in DOMAIN q : k # 1 => k \in 2 .. Len(q)
    BY <1>1
  <2>5. \A k \in DOMAIN q :
          /\ chain'[l][k].mode = q[k].mode
          /\ chain'[l][k].slots = q[k].slots
          /\ chain'[l][k].entries = IF k = 1 THEN q[k].entries \ {t} ELSE q[k].entries
    BY <2>2, <2>3, <2>4, <1>4
  <2>6. DOMAIN chain'[l] = DOMAIN q
    BY <2>2, <2>3, <1>1
  <2>7. FirstStays(t, l)
    BY <2>2, <2>5, <2>6, <1>1 DEF FirstStays
  <2>8. QED
    BY <1>6, <2>7 DEF freed, left, behind
<1>7. QED
  BY <1>5, <1>6

LEMMA LockUnlockChain ==
  ASSUME ChainInv, sid' \in [Cid -> Nat], NEW t \in Cid, NEW l \in Locks,
         LockUnlock(t, l)
  PROVE  ChainInv'
<1>1. LockInv' /\ ~IsWaiting(t)
  BY LockUnlockInv DEF ChainInv, LockUnlock
<1>2. CASE UnlockNotHeld(t, l)
  <2>1. UNCHANGED <<chain, waiting, held>>
    BY <1>2 DEF UnlockNotHeld, lockVars
  <2>2. QED
    BY <1>1, <2>1, NoChangeSleep DEF ChainInv, SleepInv
<1>3. CASE UnlockHeld(t, l)
  <2>1. UNCHANGED waiting /\ held' = [held EXCEPT ![t][l] = "none"]
    BY <1>3 DEF UnlockHeld
  <2>2. SleepInv'
    BY <1>1, <1>3, <2>1, UnlockChain, UnlockStaySleep, UnlockShiftSleep DEF ChainInv
  <2>3. QED
    BY <1>1, <2>2 DEF ChainInv, SleepInv
<1>4. QED
  BY <1>2, <1>3 DEF LockUnlock

-----------------------------------------------------------------------------
(* The invariant as a whole.                                               *)

LEMMA LockInitChain ==
  ASSUME LockInit, sid \in [Cid -> Nat]
  PROVE  ChainInv
<1>1. LockInv
  BY LockInitInv
<1>2. QED
  BY <1>1 DEF LockInit, ChainInv, OneCallEach, SleepersHaveGroups,
              GroupsHaveSleepers, HoldersTold, TwiceForUpgrade, OneSlotEach

LEMMA NoChangeChain ==
  ASSUME ChainInv, sid' \in [Cid -> Nat], fault' \in Faults \cup {"none"},
         UNCHANGED <<chain, last, wfg, txByCid, waiting, held>>
  PROVE  ChainInv'
<1>1. LockInv'
  BY NoChangeInv DEF ChainInv
<1>2. QED
  BY <1>1, NoChangeSleep DEF ChainInv, SleepInv

LEMMA ChainInvImpliesQueued ==
  ASSUME ChainInv
  PROVE  SleepersQueued
<1>1. \A w \in waiting : w.lock \in Locks
  BY WaiterType DEF ChainInv
<1>2. QED
  BY <1>1 DEF ChainInv, SleepersQueued, SleepersHaveGroups, GroupsHaveSleepers,
              HoldersTold, SleepsAt

-----------------------------------------------------------------------------
(* What lock_lock(), lock_unlock() and a wake-up do to who is in line.     *)

\* Whom t has to outwait in a chain q.
AheadIn(q, t) ==
  LET mine == {k \in DOMAIN q : t \in q[k].entries}
      here == CHOOSE k \in mine : \A j \in mine : j <= k
  IN  IF mine = {} THEN {}
      ELSE UNION {q[k].entries : k \in 1 .. here - 1}

\* k is the last group of q that t is in.
LastPlace(q, t, k) ==
  /\ k \in DOMAIN q
  /\ t \in q[k].entries
  /\ \A j \in DOMAIN q : t \in q[j].entries => j <= k

LEMMA AheadOfLastPlace ==
  ASSUME NEW q, DOMAIN q \subseteq Nat, NEW t, NEW k, LastPlace(q, t, k)
  PROVE  AheadIn(q, t) = UNION {q[j].entries : j \in 1 .. k - 1}
<1> DEFINE mine == {i \in DOMAIN q : t \in q[i].entries}
           here == CHOOSE i \in mine : \A j \in mine : j <= i
<1>1. k \in mine /\ \A j \in mine : j <= k
  BY DEF LastPlace
<1>2. here \in mine /\ \A j \in mine : j <= here
  BY <1>1
<1>3. k \in Nat /\ here \in Nat
  BY <1>1, <1>2
<1>4. here = k
  BY <1>1, <1>2, <1>3
<1>5. mine # {}
  BY <1>1
<1> HIDE DEF mine, here
<1>6. AheadIn(q, t) = UNION {q[j].entries : j \in 1 .. here - 1}
  BY <1>5 DEF AheadIn, mine, here
<1>7. QED
  BY <1>4, <1>6

\* Who is twice in a chain at most, the first time at its head, has a last
\* place there.
LEMMA LastPlaceExists ==
  ASSUME NEW q, DOMAIN q \subseteq Nat \ {0}, NEW t,
         NEW i \in DOMAIN q, t \in q[i].entries,
         \A j, k \in DOMAIN q :
           j < k => \A s \in q[j].entries \cap q[k].entries : j = 1
  PROVE  \E k : LastPlace(q, t, k)
<1>1. CASE \E k \in DOMAIN q : k > 1 /\ t \in q[k].entries
  <2>1. PICK k \in DOMAIN q : k > 1 /\ t \in q[k].entries
    BY <1>1
  <2>2. ASSUME NEW j \in DOMAIN q, t \in q[j].entries
        PROVE  j <= k
    <3>1. j \in Nat /\ k \in Nat
      OBVIOUS
    <3>2. ~(k < j)
      BY <2>1, <2>2, <3>1
    <3>3. QED
      BY <3>1, <3>2
  <2>3. QED
    BY <2>1, <2>2 DEF LastPlace
<1>2. CASE \A k \in DOMAIN q : k > 1 => t \notin q[k].entries
  <2>1. \A j \in DOMAIN q : j \in Nat /\ (j = 1 \/ j > 1)
    OBVIOUS
  <2>2. i = 1
    BY <1>2, <2>1
  <2>3. \A j \in DOMAIN q : t \in q[j].entries => j <= 1
    BY <1>2, <2>1
  <2>4. QED
    BY <2>2, <2>3 DEF LastPlace
<1>3. QED
  BY <1>1, <1>2

\* f says where the groups ahead of t in q were in p: further ahead.
LEMMA AheadShrinks ==
  ASSUME NEW p, DOMAIN p \subseteq Nat, NEW q, DOMAIN q \subseteq Nat, NEW t,
         NEW k, LastPlace(p, t, k), NEW m, LastPlace(q, t, m),
         NEW f, f[m] \in DOMAIN p, t \in p[f[m]].entries,
         \A j \in 1 .. m - 1 : /\ f[j] \in 1 .. f[m] - 1
                               /\ q[j].entries \subseteq p[f[j]].entries
  PROVE  AheadIn(q, t) \subseteq AheadIn(p, t)
<1>1. /\ AheadIn(p, t) = UNION {p[j].entries : j \in 1 .. k - 1}
      /\ AheadIn(q, t) = UNION {q[j].entries : j \in 1 .. m - 1}
  BY AheadOfLastPlace
<1>2. f[m] <= k /\ f[m] \in Nat /\ k \in Nat
  BY DEF LastPlace
<1>3. ASSUME NEW s, NEW j \in 1 .. m - 1, s \in q[j].entries
      PROVE  \E i \in 1 .. k - 1 : s \in p[i].entries
  <2>1. f[j] \in 1 .. f[m] - 1 /\ s \in p[f[j]].entries
    BY <1>3
  <2>2. f[j] \in 1 .. k - 1
    BY <2>1, <1>2
  <2>3. QED
    BY <2>1, <2>2
<1>4. QED
  BY <1>1, <1>3

\* A step after which every group ahead of w was ahead of w before it.
LEMMA NotOvertaken ==
  ASSUME ChainInv, ChainInv', NEW w \in waiting, w \in waiting', NEW f,
         \A m \in DOMAIN chain'[w.lock] : w.tx \in chain'[w.lock][m].entries =>
           /\ f[m] \in DOMAIN chain[w.lock]
           /\ w.tx \in chain[w.lock][f[m]].entries
           /\ \A j \in 1 .. m - 1 :
                /\ f[j] \in 1 .. f[m] - 1
                /\ chain'[w.lock][j].entries \subseteq chain[w.lock][f[j]].entries
  PROVE  Ahead(w)' \subseteq Ahead(w)
<1> DEFINE l == w.lock
<1>1. w.lock \in Locks
  BY WaiterType DEF ChainInv
<1>2. /\ DOMAIN chain[l] \subseteq Nat \ {0}
      /\ \E i \in DOMAIN chain[l] : w.tx \in chain[l][i].entries
      /\ \A j, k \in DOMAIN chain[l] :
           j < k => \A s \in chain[l][j].entries \cap chain[l][k].entries : j = 1
  <2>1. DOMAIN chain[l] = 1 .. Len(chain[l]) /\ Len(chain[l]) \in Nat
    BY <1>1, ChainType DEF ChainInv, LockInv
  <2>2. DOMAIN chain[l] \subseteq Nat \ {0}
    BY <2>1
  <2>3. QED
    BY <2>2, <1>1 DEF ChainInv, SleepersHaveGroups, SleepsAt, TwiceForUpgrade
<1>3. /\ DOMAIN chain'[l] \subseteq Nat \ {0}
      /\ \E i \in DOMAIN chain'[l] : w.tx \in chain'[l][i].entries
      /\ \A j, k \in DOMAIN chain'[l] :
           j < k => \A s \in chain'[l][j].entries \cap chain'[l][k].entries : j = 1
  <2>1. chain'[l] \in Seq(Group)
    BY <1>1 DEF ChainInv, LockInv, TypeOK
  <2>2. DOMAIN chain'[l] = 1 .. Len(chain'[l]) /\ Len(chain'[l]) \in Nat
    BY <2>1
  <2>3. DOMAIN chain'[l] \subseteq Nat \ {0}
    BY <2>2
  <2>4. \E i \in DOMAIN chain'[l] : w.tx \in chain'[l][i].entries
    BY DEF ChainInv, SleepersHaveGroups, SleepsAt
  <2>5. QED
    BY <2>3, <2>4, <1>1 DEF ChainInv, TwiceForUpgrade
<1>4. PICK k : LastPlace(chain[l], w.tx, k)
  BY <1>2, LastPlaceExists
<1>5. PICK m : LastPlace(chain'[l], w.tx, m)
  BY <1>3, LastPlaceExists
<1>6. m \in DOMAIN chain'[l] /\ w.tx \in chain'[l][m].entries
  BY <1>5 DEF LastPlace
<1>7. DOMAIN chain[l] \subseteq Nat /\ DOMAIN chain'[l] \subseteq Nat
  BY <1>2, <1>3
<1>8. AheadIn(chain'[l], w.tx) \subseteq AheadIn(chain[l], w.tx)
  BY <1>4, <1>5, <1>6, <1>7, AheadShrinks
<1>9. Ahead(w) = AheadIn(chain[l], w.tx) /\ Ahead(w)' = AheadIn(chain'[l], w.tx)
  BY DEF Ahead, AheadIn
<1>10. QED
  BY <1>8, <1>9

\* A step that changes no group but the last of each chain, to which it adds
\* transactions other than w's.
LEMMA LastGrows ==
  ASSUME ChainInv, ChainInv', NEW w \in waiting, w \in waiting',
         \A m \in DOMAIN chain'[w.lock] : w.tx \in chain'[w.lock][m].entries =>
           /\ m \in DOMAIN chain[w.lock]
           /\ w.tx \in chain[w.lock][m].entries
           /\ \A j \in 1 .. m - 1 :
                chain'[w.lock][j].entries \subseteq chain[w.lock][j].entries
  PROVE  Ahead(w)' \subseteq Ahead(w)
<1> DEFINE f == [i \in Nat |-> i]
<1>1. w.lock \in Locks
  BY WaiterType DEF ChainInv
<1>2. ASSUME NEW m \in DOMAIN chain'[w.lock], w.tx \in chain'[w.lock][m].entries
      PROVE  /\ f[m] \in DOMAIN chain[w.lock]
             /\ w.tx \in chain[w.lock][f[m]].entries
             /\ \A j \in 1 .. m - 1 :
                  /\ f[j] \in 1 .. f[m] - 1
                  /\ chain'[w.lock][j].entries \subseteq chain[w.lock][f[j]].entries
  <2>1. m \in DOMAIN chain[w.lock] /\ m \in Nat
    BY <1>1, <1>2, PositionType DEF ChainInv
  <2>2. f[m] = m /\ \A j \in 1 .. m - 1 : f[j] = j
    BY <2>1
  <2> HIDE DEF f
  <2>3. QED
    BY <1>2, <2>1, <2>2
<1> HIDE DEF f
<1>3. QED
  BY <1>2, NotOvertaken

\* A step that leaves all groups with the transactions they have.
LEMMA SameEntries ==
  ASSUME ChainInv, ChainInv', NEW w \in waiting, w \in waiting',
         DOMAIN chain'[w.lock] = DOMAIN chain[w.lock],
         \A k \in DOMAIN chain[w.lock] :
           chain'[w.lock][k].entries \subseteq chain[w.lock][k].entries
  PROVE  Ahead(w)' \subseteq Ahead(w)
<1>1. w.lock \in Locks
  BY WaiterType DEF ChainInv
<1>2. DOMAIN chain[w.lock] = 1 .. Len(chain[w.lock]) /\ Len(chain[w.lock]) \in Nat
  BY <1>1, ChainType DEF ChainInv, LockInv
<1>3. ASSUME NEW m \in DOMAIN chain[w.lock], w.tx \in chain'[w.lock][m].entries
      PROVE  /\ w.tx \in chain[w.lock][m].entries
             /\ \A j \in 1 .. m - 1 :
                  chain'[w.lock][j].entries \subseteq chain[w.lock][j].entries
  <2>1. \A j \in 1 .. m - 1 : j \in DOMAIN chain[w.lock]
    BY <1>2
  <2>2. QED
    BY <1>3, <2>1
<1>4. QED
  BY <1>3, LastGrows

-----------------------------------------------------------------------------
(* No action lets anybody overtake.                                        *)

\* What lock_lock() does to the chains: it adds the caller to the last group
\* of one of them, or behind it.
LEMMA LockLockLastGrows ==
  ASSUME LockInv, NEW t \in Cid, NEW l \in Locks, NEW m \in Modes,
         LockLock(t, l, m),
         NEW x \in Locks, NEW k \in DOMAIN chain'[x],
         NEW s \in chain'[x][k].entries, s # t
  PROVE  /\ k \in DOMAIN chain[x]
         /\ s \in chain[x][k].entries
         /\ \A j \in 1 .. k - 1 :
              chain'[x][j].entries \subseteq chain[x][j].entries
<1>1. /\ chain[x] \in Seq(Group) /\ DOMAIN chain[x] = 1 .. Len(chain[x])
      /\ Len(chain[x]) \in Nat
      /\ chain[l] \in Seq(Group) /\ DOMAIN chain[l] = 1 .. Len(chain[l])
      /\ Len(chain[l]) \in Nat
      /\ \A y \in Locks : y # l => chain[y] \in Seq(Group)
  BY ChainType DEF LockInv
<1>2. CASE LockFree(t, l, m)
  <2> DEFINE g == NewGroup(m, t, {}, {})
  <2>1. g.entries = {t} /\ chain' = [chain EXCEPT ![l] = <<g>>]
    BY <1>2 DEF LockFree, NewGroup
  <2> HIDE DEF g
  <2>2. chain'[l] = <<g>> /\ (x # l => chain'[x] = chain[x])
    BY <2>1 DEF LockInv, TypeOK
  <2>3. x # l
    BY <2>1, <2>2
  <2>4. \A j \in 1 .. k - 1 : chain'[x][j] = chain[x][j]
    BY <2>2, <2>3
  <2>5. QED
    BY <2>2, <2>3, <2>4
<1>3. CASE LockJoin(t, l, m)
  <2>n. PICK n : n = Len(chain[l])
    OBVIOUS
  <2> DEFINE E == chain[l][n].entries \cup {t}
             r == SetEntries(chain[l], n, E)
  <2>1. chain[l] \in Seq(Group) /\ n \in 1 .. Len(chain[l]) /\ E \in SUBSET Cid
        /\ n \in Nat
    BY <1>3, <2>n, ChainType DEF LockInv, LockJoin
  <2>2. chain' = [chain EXCEPT ![l] = r]
    BY <1>3, <2>n DEF LockJoin, SetEntries
  <2>3. /\ r \in Seq(Group)
        /\ Len(r) = n
        /\ \A i \in 1 .. n : i # n => r[i] = chain[l][i]
        /\ r[n].entries = E
    BY <2>1, <2>n, EntriesChain
  <2> HIDE DEF r
  <2>4. chain'[l] = r /\ (x # l => chain'[x] = chain[x])
    BY <2>2 DEF LockInv, TypeOK
  <2>5. CASE x = l
    <3>1. k \in 1 .. n
      BY <2>3, <2>4, <2>5
    <3>2. \A j \in 1 .. k - 1 : j \in 1 .. n /\ j # n
      BY <2>1, <3>1
    <3>3. \A j \in 1 .. k - 1 : chain'[x][j] = chain[x][j]
      BY <3>2, <2>3, <2>4, <2>5
    <3>4. s \in chain[x][k].entries
      BY <3>1, <2>3, <2>4, <2>5
    <3>5. QED
      BY <3>1, <3>3, <3>4, <2>5, <2>n, <1>1
  <2>6. CASE x # l
    BY <2>4, <2>6
  <2>7. QED
    BY <2>5, <2>6
<1>4. CASE LockUpgradeNow(t, l, m)
  <2> DEFINE r == SetMode(chain[l], 1, "exclusive")
  <2>1. 1 \in 1 .. Len(chain[l]) /\ "exclusive" \in Modes
    BY <1>4, ChainType DEF LockInv, LockUpgradeNow, Modes
  <2>2. chain' = [chain EXCEPT ![l] = r]
    BY <1>4 DEF LockUpgradeNow, SetMode
  <2>3. /\ r \in Seq(Group)
        /\ Len(r) = Len(chain[l])
        /\ \A i \in 1 .. Len(chain[l]) : r[i].entries = chain[l][i].entries
    <3> DEFINE q == chain[l]
    <3>1. q \in Seq(Group) /\ 1 \in 1 .. Len(q)
      BY <1>1, <2>1
    <3> HIDE DEF q
    <3>2. /\ SetMode(q, 1, "exclusive") \in Seq(Group)
          /\ Len(SetMode(q, 1, "exclusive")) = Len(q)
          /\ \A i \in 1 .. Len(q) : i # 1 => SetMode(q, 1, "exclusive")[i] = q[i]
          /\ SetMode(q, 1, "exclusive")[1].entries = q[1].entries
      BY <2>1, <3>1, ModeChain
    <3>3. \A i \in 1 .. Len(q) :
            SetMode(q, 1, "exclusive")[i].entries = q[i].entries
      BY <3>2
    <3>4. QED
      BY <3>2, <3>3 DEF q
  <2> HIDE DEF r
  <2>4. chain'[l] = r /\ (x # l => chain'[x] = chain[x])
    BY <2>2 DEF LockInv, TypeOK
  <2>5. DOMAIN chain'[x] = DOMAIN chain[x] /\ DOMAIN chain[x] = 1 .. Len(chain[x])
    BY <2>3, <2>4, <1>1
  <2>6. \A j \in DOMAIN chain[x] : chain'[x][j].entries = chain[x][j].entries
    BY <2>3, <2>4, <1>1
  <2>7. \A j \in 1 .. k - 1 : j \in DOMAIN chain[x]
    BY <2>5, <1>1
  <2>8. QED
    BY <2>5, <2>6, <2>7
<1>5. CASE UNCHANGED chain
  BY <1>5
<1>6. CASE LockQueue(t, l, m) \/ LockQueueMark(t, l, m)
  <2> DEFINE c == ChainBlocked(t, l, m)
  <2>1. /\ Len(chain'[x]) = Len(c[x])
        /\ DOMAIN chain'[x] = 1 .. Len(c[x])
        /\ \A i \in 1 .. Len(c[x]) : chain'[x][i].entries = c[x][i].entries
    BY <1>6, LockQueueEffect
  <2>2. /\ Len(c[x]) = IF x = l THEN Len(chain[x]) + 1 ELSE Len(chain[x])
        /\ \A i \in 1 .. Len(chain[x]) : c[x][i].entries = chain[x][i].entries
        /\ c[l][Len(chain[l]) + 1].entries = {t}
    BY ChainBlockedChain
  <2> HIDE DEF c
  <2>3. k \in 1 .. Len(c[x])
    BY <2>1
  <2>4. ~(x = l /\ k = Len(chain[l]) + 1)
    BY <2>1, <2>2, <2>3
  <2>5. k \in 1 .. Len(chain[x])
    BY <2>2, <2>3, <2>4, <1>1
  <2>6. \A j \in 1 .. k - 1 : j \in 1 .. Len(c[x]) /\ j \in 1 .. Len(chain[x])
    BY <2>2, <2>5, <1>1
  <2>7. \A j \in 1 .. k - 1 : chain'[x][j].entries = chain[x][j].entries
    BY <2>1, <2>2, <2>6
  <2>8. QED
    BY <2>1, <2>2, <2>3, <2>5, <2>7, <1>1
<1>7. CASE LockDeadlock(t, l, m)
  <2>1. /\ DOMAIN chain'[x] = DOMAIN chain[x]
        /\ \A i \in DOMAIN chain[x] : chain'[x][i].entries = chain[x][i].entries
    BY <1>7, LockDeadlockEffect
  <2>2. \A j \in 1 .. k - 1 : j \in DOMAIN chain[x]
    BY <2>1, <1>1
  <2>3. QED
    BY <2>1, <2>2
<1>8. QED
  BY <1>2, <1>3, <1>4, <1>5, <1>6, <1>7
     DEF LockLock, LockCovered, LockStale, LockFreedTail, LockSearchFault,
         Crash, lockVars

LEMMA LockLockAhead ==
  ASSUME ChainInv, ChainInv', NEW t \in Cid, NEW l \in Locks, NEW m \in Modes,
         LockLock(t, l, m), NEW w \in waiting, w \in waiting'
  PROVE  Ahead(w)' \subseteq Ahead(w)
<1>1. w.lock \in Locks /\ w.tx # t
  BY WaiterType DEF ChainInv, LockLock, IsWaiting
<1>2. \A k \in DOMAIN chain'[w.lock] : w.tx \in chain'[w.lock][k].entries =>
        /\ k \in DOMAIN chain[w.lock]
        /\ w.tx \in chain[w.lock][k].entries
        /\ \A j \in 1 .. k - 1 :
             chain'[w.lock][j].entries \subseteq chain[w.lock][j].entries
  BY <1>1, LockLockLastGrows DEF ChainInv
<1>3. QED
  BY <1>2, LastGrows

LEMMA LockWakeAhead ==
  ASSUME ChainInv, ChainInv', NEW t \in Cid, LockWake(t),
         NEW w \in waiting, w \in waiting'
  PROVE  Ahead(w)' \subseteq Ahead(w)
<1>1. PICK v \in waiting : Wake(v)
  BY DEF LockWake
<1>2. v.lock \in Locks /\ w.lock \in Locks
  BY WaiterType DEF ChainInv
<1>3. CASE UNCHANGED chain
  BY <1>3, SameEntries
<1>4. CASE \E i \in DOMAIN chain[v.lock] :
             chain' = [chain EXCEPT ![v.lock] = RemoveAt(@, i)]
  <2>1. PICK i \in DOMAIN chain[v.lock] :
             chain' = [chain EXCEPT ![v.lock] = RemoveAt(@, i)]
    BY <1>4
  <2>2. /\ chain'[v.lock] = RemoveAt(chain[v.lock], i)
        /\ \A x \in Locks : x # v.lock => chain'[x] = chain[x]
    BY <1>2, <2>1 DEF ChainInv, LockInv, TypeOK
  <2>3. CASE w.lock # v.lock
    BY <2>2, <2>3, <1>2, SameEntries
  <2>4. CASE w.lock = v.lock
    <3> DEFINE q == chain[w.lock]
               n == Len(q)
               r == RemoveAt(q, i)
               f == [j \in Nat |-> IF j < i THEN j ELSE j + 1]
    <3>1. q \in Seq(Group) /\ n \in Nat /\ DOMAIN q = 1 .. n /\ i \in 1 .. n
      BY <1>2, <2>1, <2>4, ChainType DEF ChainInv, LockInv
    <3>2. /\ r \in Seq(Group)
          /\ Len(r) = n - 1
          /\ \A j \in 1 .. n - 1 : r[j] = IF j < i THEN q[j] ELSE q[j + 1]
      BY <3>1, RemoveAtChain
    <3>3. chain'[w.lock] = r
      BY <2>2, <2>4
    <3> HIDE DEF q, n, r
    <3>4. DOMAIN r = 1 .. n - 1
      BY <3>1, <3>2
    <3>5. ASSUME NEW j \in 1 .. n - 1
          PROVE  f[j] \in DOMAIN q /\ r[j] = q[f[j]]
      <4>1. j \in Nat /\ j \in 1 .. n /\ j + 1 \in 1 .. n
        BY <3>1
      <4>2. f[j] = IF j < i THEN j ELSE j + 1
        BY <4>1
      <4> HIDE DEF f
      <4>3. r[j] = IF j < i THEN q[j] ELSE q[j + 1]
        BY <3>2
      <4>4. QED
        BY <3>1, <4>1, <4>2, <4>3
    <3>6. \A j, m \in Nat : j < m => f[j] < f[m] /\ f[j] \in Nat /\ f[m] \in Nat
      BY <3>1
    <3>7. \A j \in Nat : j >= 1 => f[j] >= 1
      BY <3>1
    <3> HIDE DEF f
    <3>8. ASSUME NEW m \in DOMAIN r, w.tx \in r[m].entries
          PROVE  /\ f[m] \in DOMAIN q
                 /\ w.tx \in q[f[m]].entries
                 /\ \A j \in 1 .. m - 1 :
                      /\ f[j] \in 1 .. f[m] - 1
                      /\ r[j].entries \subseteq q[f[j]].entries
      <4>1. m \in 1 .. n - 1
        BY <3>4
      <4>2. f[m] \in DOMAIN q /\ w.tx \in q[f[m]].entries
        BY <3>5, <3>8, <4>1
      <4>3. ASSUME NEW j \in 1 .. m - 1
            PROVE  /\ f[j] \in 1 .. f[m] - 1
                   /\ r[j].entries \subseteq q[f[j]].entries
        <5>1. j \in Nat /\ m \in Nat /\ j < m /\ j >= 1 /\ j \in 1 .. n - 1
          BY <3>1, <4>1
        <5>2. f[j] \in Nat /\ f[m] \in Nat /\ f[j] < f[m] /\ f[j] >= 1
          BY <3>6, <3>7, <5>1
        <5>3. f[j] \in 1 .. f[m] - 1
          BY <5>2
        <5>4. QED
          BY <3>5, <5>1, <5>3
      <4>4. QED
        BY <4>2, <4>3
    <3>9. QED
      BY <3>3, <3>8, NotOvertaken DEF q
  <2>5. QED
    BY <2>3, <2>4
<1>5. QED
  BY <1>1, <1>3, <1>4
     DEF Wake, WakeJoined, WakeGranted, WakeDeadlocked, Positions, Crash

LEMMA LockUnlockAhead ==
  ASSUME ChainInv, ChainInv', NEW t \in Cid, NEW l \in Locks, LockUnlock(t, l),
         NEW w \in waiting, w \in waiting'
  PROVE  Ahead(w)' \subseteq Ahead(w)
<1>1. w.lock \in Locks
  BY WaiterType DEF ChainInv
<1>2. CASE UNCHANGED chain
  BY <1>2, SameEntries
<1>3. CASE FirstGoes(t, l)
  <2>1. chain'[l] = Tail(chain[l]) /\ \A x \in Locks : x # l => chain'[x] = chain[x]
    BY <1>3 DEF FirstGoes, ChainInv, LockInv, TypeOK
  <2>2. CASE w.lock # l
    BY <2>1, <2>2, <1>1, SameEntries
  <2>3. CASE w.lock = l
    <3> DEFINE q == chain[w.lock]
               n == Len(q)
               r == Tail(q)
               f == [j \in Nat |-> j + 1]
    <3>1. q \in Seq(Group) /\ n \in Nat /\ DOMAIN q = 1 .. n /\ q # << >>
      BY <1>1, <1>3, <2>3, ChainType DEF FirstGoes, ChainInv, LockInv
    <3>2. chain'[w.lock] = r
      BY <2>1, <2>3
    <3> HIDE DEF q
    <3>3. /\ DOMAIN r = 1 .. n - 1
          /\ \A j \in 1 .. n - 1 : r[j] = q[j + 1]
      BY <3>1
    <3> HIDE DEF n, r
    <3>4. ASSUME NEW m \in DOMAIN r, w.tx \in r[m].entries
          PROVE  /\ f[m] \in DOMAIN q
                 /\ w.tx \in q[f[m]].entries
                 /\ \A j \in 1 .. m - 1 :
                      /\ f[j] \in 1 .. f[m] - 1
                      /\ r[j].entries \subseteq q[f[j]].entries
      <4>1. m \in 1 .. n - 1 /\ m \in Nat /\ f[m] = m + 1
        BY <3>1, <3>3
      <4>2. r[m] = q[f[m]] /\ f[m] \in DOMAIN q
        BY <3>1, <3>3, <4>1
      <4>3. ASSUME NEW j \in 1 .. m - 1
            PROVE  /\ f[j] \in 1 .. f[m] - 1
                   /\ r[j].entries \subseteq q[f[j]].entries
        <5>1. j \in 1 .. n - 1 /\ j \in Nat /\ f[j] = j + 1
          BY <3>1, <4>1
        <5>2. r[j] = q[f[j]]
          BY <3>3, <5>1
        <5>3. f[j] \in 1 .. f[m] - 1
          BY <4>1, <5>1
        <5>4. QED
          BY <5>2, <5>3
      <4>4. QED
        BY <3>4, <4>2, <4>3
    <3> HIDE DEF f
    <3>5. QED
      BY <3>2, <3>4, NotOvertaken DEF q
  <2>4. QED
    BY <2>2, <2>3
<1>4. CASE FirstStays(t, l)
  BY <1>1, <1>4, SameEntries DEF FirstStays
<1>5. CASE UnlockNotHeld(t, l)
  BY <1>2, <1>5 DEF UnlockNotHeld, lockVars
<1>6. CASE UnlockHeld(t, l)
  BY <1>3, <1>4, <1>6, UnlockChain DEF ChainInv
<1>7. QED
  BY <1>5, <1>6 DEF LockUnlock

-----------------------------------------------------------------------------
(* Two transactions.                                                       *)

LEMMA TwoCids ==
  ASSUME MaxTasks = 2
  PROVE  /\ Cid = {0, 1}
         /\ \A r, s, t \in Cid : r # t /\ s # t => r = s
<1>1. 0 .. 1 = {0, 1} /\ 2 - 1 = 1
  OBVIOUS
<1>2. Cid = {0, 1}
  BY <1>1 DEF Cid
<1>3. QED
  BY <1>2

\* A call that meets the root, or makes a call that finds something, finds
\* something itself.
LEMMA FrameFinds ==
  ASSUME MaxTasks = 2, NEW W, NEW valid, NEW ages, NEW root, NEW below,
         NEW c \in Cid, NEW y \in Cid, <<c, y>> \in W,
         y = root \/ below[y].kind # "none"
  PROVE  WfgFrame(W, valid, ages, root, c, below).kind # "none"
<1> DEFINE answer == [z \in Successors(W, c) |->
                        IF Closes(c, z, root)
                        THEN Candidate(valid, z)
                        ELSE Younger(valid, ages, z, below[z])]
           hits == {z \in DOMAIN answer : answer[z].kind # "none"}
           lowest == CHOOSE z \in hits : \A x \in hits : z <= x
<1>1. y \in Successors(W, c) /\ Successors(W, c) \subseteq Cid
  BY DEF Successors
<1>2. answer[y] = IF y = root THEN Candidate(valid, y)
                              ELSE Younger(valid, ages, y, below[y])
  BY <1>1 DEF Closes
<1>3. \A z : Candidate(valid, z).kind # "none"
  BY DEF Candidate, Result
<1>4. answer[y].kind # "none"
  BY <1>2, <1>3 DEF Younger
<1>5. WfgFrame(W, valid, ages, root, c, below) =
        IF hits = {} THEN Result("none", c) ELSE answer[lowest]
  BY DEF WfgFrame
<1>6. y \in DOMAIN answer /\ DOMAIN answer \subseteq Cid
  BY <1>1
<1> HIDE DEF answer
<1>7. y \in hits /\ hits \subseteq {0, 1}
  BY <1>4, <1>6, TwoCids
<1>8. \A z \in hits : answer[z].kind # "none"
  OBVIOUS
<1> HIDE DEF hits
<1>9. \E z \in hits : \A x \in hits : z <= x
  <2>1. CASE 0 \in hits
    <3>1. 0 <= 0 /\ 0 <= 1
      OBVIOUS
    <3>2. \A x \in hits : 0 <= x
      BY <1>7, <3>1
    <3>3. QED
      BY <2>1, <3>2
  <2>2. CASE 0 \notin hits
    <3>1. \A z \in hits : z = 1
      BY <1>7, <2>2
    <3>2. 1 <= 1
      OBVIOUS
    <3>3. QED
      BY <1>7, <3>1, <3>2
  <2>3. QED
    BY <2>1, <2>2
<1>10. lowest \in hits
  BY <1>9
<1>11. QED
  BY <1>5, <1>7, <1>8, <1>10

\* The search finds a cycle of two.
LEMMA SearchOfTwo ==
  ASSUME MaxTasks = 2, NEW W, NEW valid, NEW ages, NEW s \in Cid, NEW o \in Cid,
         <<s, o>> \in W, <<o, s>> \in W
  PROVE  WfgDfs(W, valid, ages, s).kind # "none"
<1> DEFINE Call(c, below) == WfgFrame(W, valid, ages, s, c, below)
           Leveled(f) == f = [frames \in 0 .. MaxTasks |->
                               [c \in Cid |->
                                  IF frames = 0
                                  THEN Result("overflow", c)
                                  ELSE Call(c, f[frames - 1])]]
<1>1. WfgDfs(W, valid, ages, s) = (CHOOSE f : Leveled(f))[MaxTasks][s]
  BY DEF WfgDfs
<1> HIDE DEF Call
<1>2. \E f : Leveled(f)
  <2>1. PICK a : a = [c \in Cid |-> Result("overflow", c)]
    OBVIOUS
  <2>2. PICK b : b = [c \in Cid |-> Call(c, a)]
    OBVIOUS
  <2>3. PICK d : d = [c \in Cid |-> Call(c, b)]
    OBVIOUS
  <2>4. PICK f : f = [k \in 0 .. 2 |-> IF k = 0 THEN a ELSE IF k = 1 THEN b ELSE d]
    OBVIOUS
  <2>5. f[0] = a /\ f[1] = b /\ f[2] = d
    BY <2>4
  <2>6. ASSUME NEW k \in 0 .. 2
        PROVE  f[k] = [c \in Cid |-> IF k = 0 THEN Result("overflow", c) ELSE Call(c, f[k - 1])]
    <3>1. CASE k = 0
      BY <2>1, <2>5, <3>1
    <3>2. CASE k = 1
      <4>1. k - 1 = 0 /\ k # 0
        BY <3>2
      <4>2. QED
        BY <2>2, <2>5, <3>2, <4>1
    <3>3. CASE k = 2
      <4>1. k - 1 = 1 /\ k # 0
        BY <3>3
      <4>2. QED
        BY <2>3, <2>5, <3>3, <4>1
    <3>4. QED
      BY <3>1, <3>2, <3>3
  <2>7. f = [k \in 0 .. 2 |-> f[k]]
    BY <2>4
  <2>8. f = [k \in 0 .. 2 |->
               [c \in Cid |-> IF k = 0 THEN Result("overflow", c) ELSE Call(c, f[k - 1])]]
    BY <2>6, <2>7
  <2>9. Leveled(f)
    BY <2>8
  <2>10. QED
    BY <2>9
<1>3. PICK f : f = CHOOSE g : Leveled(g)
  OBVIOUS
<1>4. Leveled(f)
  BY <1>2, <1>3
<1>5. /\ f[1] = [c \in Cid |-> Call(c, f[0])]
      /\ f[2] = [c \in Cid |-> Call(c, f[1])]
  <2>1. /\ 1 \in 0 .. MaxTasks /\ 2 \in 0 .. MaxTasks
        /\ 1 - 1 = 0 /\ 2 - 1 = 1 /\ 1 # 0 /\ 2 # 0
    OBVIOUS
  <2>2. \A k \in 0 .. MaxTasks :
          f[k] = [c \in Cid |-> IF k = 0 THEN Result("overflow", c) ELSE Call(c, f[k - 1])]
    BY <1>4
  <2>3. QED
    BY <2>1, <2>2
<1>6. f[1][o] = Call(o, f[0]) /\ f[2][s] = Call(s, f[1])
  BY <1>5
<1> HIDE DEF Leveled
<1>7. f[1][o].kind # "none"
  BY <1>6, FrameFinds DEF Call
<1>8. f[2][s].kind # "none"
  BY <1>6, <1>7, FrameFinds DEF Call
<1>9. QED
  BY <1>1, <1>3, <1>8

\* Neither of two transactions joins a group that waits.
LEMMA JoinsFirst ==
  ASSUME MaxTasks = 2, ChainInv, NEW t \in Cid, NEW l \in Locks, NEW m \in Modes,
         ~IsWaiting(t), LockJoin(t, l, m)
  PROVE  UNCHANGED waiting
<1>1. PICK q, n : q = chain[l] /\ n = Len(q)
  OBVIOUS
<1>2. /\ q \in Seq(Group) /\ n \in Nat /\ n >= 1 /\ DOMAIN q = 1 .. n
      /\ \A k \in 1 .. n : q[k].mode \in Modes /\ q[k].entries \subseteq Cid
  BY <1>1, ChainType DEF LockJoin, ChainInv, LockInv
<1>3. q[n].mode = "shared"
  BY <1>1, <1>2 DEF LockJoin, Last
<1>4. SUFFICES ASSUME n # 1
               PROVE  FALSE
  BY <1>1 DEF LockJoin
<1>5. n \in DOMAIN q /\ 1 \in DOMAIN q /\ 1 < n
  BY <1>2, <1>4
<1>6. PICK o \in q[n].entries : TRUE
  BY <1>1, <1>5 DEF ChainInv, LockInv, GroupsWellFormed
<1>7. o # t
  BY <1>1, <1>5, <1>6 DEF ChainInv, GroupsHaveSleepers, IsWaiting
<1>8. o \notin q[1].entries
  BY <1>1, <1>3, <1>5, <1>6 DEF ChainInv, TwiceForUpgrade
<1>9. PICK a \in q[1].entries : TRUE
  BY <1>1, <1>5 DEF ChainInv, LockInv, GroupsWellFormed
<1>10. a \in Cid /\ o \in Cid
  BY <1>2, <1>5, <1>6, <1>9
<1>11. a = t
  BY <1>7, <1>8, <1>9, <1>10, TwoCids
<1>12. Covered(t, l, m)
  BY <1>1, <1>2, <1>5, <1>9, <1>11 DEF LockJoin, Covered, First, Modes
<1>13. QED
  BY <1>12 DEF LockJoin

\* Who queues up behind the other one queues up behind the first group.
LEMMA QueuesBehindFirst ==
  ASSUME MaxTasks = 2, ChainInv, NEW t \in Cid, NEW l \in Locks, NEW m \in Modes,
         MustQueue(t, l, m),
         NEW k \in DOMAIN chain[l], NEW o \in chain[l][k].entries, o # t
  PROVE  o \in First(l).entries
<1>1. /\ k \in Nat /\ k >= 1 /\ k <= Len(chain[l])
      /\ 1 \in DOMAIN chain[l]
      /\ o \in Cid
  BY PositionType DEF ChainInv
<1>2. First(l).mode \in Modes /\ First(l).entries \subseteq Cid
  BY <1>1, PositionType DEF ChainInv, First
<1>3. SUFFICES ASSUME o \notin First(l).entries
               PROVE  FALSE
  OBVIOUS
<1>4. PICK a \in First(l).entries : TRUE
  BY <1>1 DEF ChainInv, LockInv, GroupsWellFormed, First
<1>5. a = t
  BY <1>1, <1>2, <1>3, <1>4, TwoCids
<1>6. Upgrade(t, l, m)
  BY <1>2, <1>4, <1>5 DEF MustQueue, Covered, Upgrade, Modes
<1>7. Len(chain[l]) = 1
  BY <1>6 DEF MustQueue, HeadIsLast
<1>8. k = 1
  BY <1>1, <1>7
<1>9. QED
  BY <1>3, <1>8 DEF First

\* A step after which one of the two does not sleep.
LEMMA PairKept ==
  ASSUME MaxTasks = 2, ChainInv', PairInv,
         waiting' \subseteq waiting, wfg \subseteq wfg',
         NEW t \in Cid, \A w \in waiting' : w.tx # t,
         \A w \in waiting : w \in waiting' => Ahead(w)' \subseteq Ahead(w)
  PROVE  PairInv'
<1>1. WaitersQueued'
  BY DEF PairInv, WaitersQueued
<1>2. EdgesEntered'
  <2>1. ASSUME NEW w \in waiting', NEW x \in Cid, WaitsFor(w, x)'
        PROVE  <<w.tx, x>> \in wfg'
    <3>1. x # w.tx /\ x \in Ahead(w)'
      BY <2>1 DEF WaitsFor
    <3>2. WaitsFor(w, x)
      BY <3>1 DEF WaitsFor
    <3>3. QED
      BY <3>2 DEF PairInv, EdgesEntered
  <2>2. QED
    BY <2>1 DEF EdgesEntered
<1>3. PairsMarked'
  <2>1. \A w \in waiting' : w.tx \in Cid
    BY DEF ChainInv, LockInv, TypeOK, Waiter
  <2>2. \A v, w \in waiting' : v.tx = w.tx
    BY <2>1, TwoCids
  <2>3. QED
    BY <2>2 DEF PairsMarked, WaitsFor
<1>4. QED
  BY <1>1, <1>2, <1>3 DEF PairInv

LEMMA NoChangePair ==
  ASSUME PairInv, UNCHANGED <<chain, waiting, wfg>>
  PROVE  PairInv'
<1>1. \A w, x : WaitsFor(w, x)' <=> WaitsFor(w, x)
  BY DEF WaitsFor, Ahead
<1>2. \A w : Marked(w)' <=> Marked(w)
  BY DEF Marked
<1>3. WaitersQueued' /\ EdgesEntered'
  BY <1>1 DEF PairInv, WaitersQueued, EdgesEntered
<1>4. PairsMarked'
  BY <1>1, <1>2 DEF PairInv, PairsMarked
<1>5. QED
  BY <1>3, <1>4 DEF PairInv

\* The detector is told of a call that goes to sleep, and marks a victim if it
\* waits for one that waits for it.
LEMMA QueuePair ==
  ASSUME MaxTasks = 2, ChainInv, ChainInv', PairInv,
         NEW t \in Cid, NEW l \in Locks, NEW m \in Modes, LockLock(t, l, m),
         LockQueue(t, l, m) \/ LockQueueMark(t, l, m)
  PROVE  PairInv'
<1>1. PICK n : n = [tx |-> t, lock |-> l, mode |-> m, role |-> "creator"]
  OBVIOUS
<1>2. n.tx = t /\ n.lock = l /\ n.role = "creator"
  BY <1>1
<1>3. /\ MustQueue(t, l, m)
      /\ waiting' = waiting \cup {n}
      /\ wfg' = WfgBlocked(t, l)
      /\ \A w \in waiting : w.tx # t
  BY <1>1 DEF LockQueue, LockQueueMark, QueueWaiter, LockLock, IsWaiting
<1>4. \A w \in waiting' : w.tx \in Cid /\ w.lock \in Locks
  BY DEF ChainInv, LockInv, TypeOK, Waiter
<1>5. ASSUME NEW x \in Ahead(n)', x # t
      PROVE  x \in First(l).entries
  <2>1. PICK q, p, i : q = chain[l] /\ p = chain'[l] /\ i = Len(q)
    OBVIOUS
  <2>2. /\ i \in Nat /\ DOMAIN q = 1 .. i
        /\ DOMAIN p = 1 .. i + 1
        /\ \A k \in 1 .. i : p[k].entries = q[k].entries
        /\ p[i + 1].entries = {t}
    <3>1. i \in Nat /\ DOMAIN q = 1 .. i
      BY <2>1, ChainType DEF ChainInv, LockInv
    <3>2. Len(ChainBlocked(t, l, m)[l]) = i + 1
      BY <2>1, ChainBlockedChain DEF ChainInv
    <3>3. DOMAIN p = 1 .. i + 1
      BY <2>1, <3>2, LockQueueEffect DEF ChainInv
    <3>4. \A k \in 1 .. i + 1 : p[k].entries = ChainBlocked(t, l, m)[l][k].entries
      BY <2>1, <3>2, LockQueueEffect DEF ChainInv
    <3>5. \A k \in 1 .. i : k \in 1 .. i + 1
      BY <3>1
    <3>6. i + 1 \in 1 .. i + 1
      BY <3>1
    <3>7. /\ \A k \in 1 .. i : ChainBlocked(t, l, m)[l][k].entries = q[k].entries
          /\ ChainBlocked(t, l, m)[l][i + 1].entries = {t}
      BY <2>1, ChainBlockedChain DEF ChainInv
    <3>8. QED
      BY <3>1, <3>3, <3>4, <3>5, <3>6, <3>7
  <2>3. Ahead(n)' = AheadIn(p, t)
    BY <1>2, <2>1 DEF Ahead, AheadIn
  <2>4. PICK k : k = i + 1
    OBVIOUS
  <2>5. k \in DOMAIN p /\ k - 1 = i /\ DOMAIN p \subseteq Nat
        /\ \A j \in DOMAIN p : j <= k
    BY <2>2, <2>4
  <2>6. LastPlace(p, t, k)
    BY <2>2, <2>4, <2>5 DEF LastPlace
  <2>7. AheadIn(p, t) = UNION {p[j].entries : j \in 1 .. k - 1}
    BY <2>5, <2>6, AheadOfLastPlace
  <2>8. PICK j \in 1 .. i : x \in p[j].entries
    BY <1>5, <2>3, <2>5, <2>7
  <2>9. j \in DOMAIN chain[l] /\ x \in chain[l][j].entries
    BY <2>1, <2>2, <2>8
  <2>10. QED
    BY <1>3, <1>5, <2>9, QueuesBehindFirst
<1>6. WaitersQueued'
  BY <1>2, <1>3 DEF PairInv, WaitersQueued
<1>7. \A w \in waiting : Ahead(w)' \subseteq Ahead(w)
  BY <1>3, LockLockAhead
<1>8. EdgesEntered'
  <2>1. ASSUME NEW w \in waiting', NEW x \in Cid, WaitsFor(w, x)'
        PROVE  <<w.tx, x>> \in wfg'
    <3>1. x # w.tx /\ x \in Ahead(w)'
      BY <2>1 DEF WaitsFor
    <3>2. CASE w \in waiting
      <4>1. WaitsFor(w, x)
        BY <1>7, <3>1, <3>2 DEF WaitsFor
      <4>2. QED
        BY <1>3, <3>2, <4>1 DEF PairInv, EdgesEntered, WfgBlocked
    <3>3. CASE w = n
      <4>1. x \in First(l).entries \ {t}
        BY <1>2, <1>5, <3>1, <3>3
      <4>2. QED
        BY <1>2, <1>3, <3>3, <4>1 DEF WfgBlocked
    <3>4. QED
      BY <1>3, <3>2, <3>3
  <2>2. QED
    BY <2>1 DEF EdgesEntered
<1>9. ASSUME NEW v \in waiting, WaitsFor(v, t)', WaitsFor(n, v.tx)'
      PROVE  Marked(v)'
  <2>1. PICK o \in Cid : o = v.tx /\ o # t
    BY <1>3, <1>4
  <2>2. <<o, t>> \in wfg' /\ <<t, o>> \in wfg'
    BY <1>2, <1>3, <1>8, <1>9, <2>1 DEF EdgesEntered
  <2>3. Search(t, l).kind # "none"
    BY <1>3, <2>1, <2>2, SearchOfTwo DEF Search
  <2>4. PICK r, c : /\ r = Search(t, l).cid /\ c = ChainBlocked(t, l, m)
                    /\ r # t
                    /\ \E x \in Locks : \E k \in DOMAIN c[x] : r \in c[x][k].slots
                    /\ chain' = [x \in Locks |-> Mark(c[x], r)]
    BY <2>3 DEF LockQueue, LockQueueMark
  <2>5. \A x \in Locks : c[x] \in Seq(Group)
    BY <2>4, ChainBlockedChain DEF ChainInv
  <2>6. r \in Cid
    <3>1. PICK x \in Locks : \E k \in DOMAIN c[x] : r \in c[x][k].slots
      BY <2>4
    <3>2. PICK k \in DOMAIN c[x] : r \in c[x][k].slots
      BY <3>1
    <3>3. c[x][k] \in Group
      BY <2>5
    <3>4. QED
      BY <3>2, <3>3 DEF Group
  <2>7. r = o
    BY <2>1, <2>4, <2>6, TwoCids
  <2>8. v.lock \in Locks /\ v \in waiting' /\ v.role = "creator"
    BY <1>3, <1>4 DEF PairInv, WaitersQueued
  <2>9. PICK k \in DOMAIN chain'[v.lock] : o \in chain'[v.lock][k].slots
    BY <2>1, <2>8 DEF ChainInv, SleepersHaveGroups, SleepsAt
  <2>10. PICK q : q = c[v.lock]
    OBVIOUS
  <2>11. chain'[v.lock] = Mark(q, o)
    BY <2>4, <2>7, <2>8, <2>10
  <2>12. k \in DOMAIN q
    BY <2>9, <2>11 DEF Mark
  <2>13. q[k] \in Group
    BY <2>5, <2>8, <2>10, <2>12
  <2>14. Mark(q, o)[k] = [q[k] EXCEPT !.deadlocked = IF o \in q[k].slots THEN {o} ELSE @]
    BY <2>12 DEF Mark
  <2>15. Mark(q, o)[k].slots = q[k].slots
         /\ (o \in q[k].slots => Mark(q, o)[k].deadlocked = {o})
    BY <2>13, <2>14 DEF Group
  <2>16. o \in chain'[v.lock][k].slots \cap chain'[v.lock][k].deadlocked
    BY <2>9, <2>11, <2>15
  <2>17. QED
    BY <2>1, <2>9, <2>16 DEF Marked
<1>10. PairsMarked'
  <2>1. SUFFICES ASSUME NEW v \in waiting', NEW w \in waiting',
                        WaitsFor(v, w.tx)', WaitsFor(w, v.tx)'
                 PROVE  Marked(v)' \/ Marked(w)'
    BY DEF PairsMarked
  <2>2. v.tx # w.tx
    BY <2>1 DEF WaitsFor
  <2>3. CASE v \in waiting /\ w \in waiting
    BY <1>3, <1>4, <2>2, <2>3, TwoCids
  <2>4. CASE v \in waiting /\ w = n
    BY <1>2, <1>9, <2>1, <2>4
  <2>5. CASE v = n /\ w \in waiting
    BY <1>2, <1>9, <2>1, <2>5
  <2>6. QED
    BY <1>3, <2>2, <2>3, <2>4, <2>5
<1>11. QED
  BY <1>6, <1>8, <1>10 DEF PairInv

LEMMA LockLockPair ==
  ASSUME MaxTasks = 2, ChainInv, ChainInv', PairInv,
         NEW t \in Cid, NEW l \in Locks, NEW m \in Modes, LockLock(t, l, m)
  PROVE  PairInv'
<1>1. \A w \in waiting : w.tx # t
  BY DEF LockLock, IsWaiting
<1>2. \A w \in waiting : w \in waiting' => Ahead(w)' \subseteq Ahead(w)
  BY LockLockAhead
<1>3. CASE LockQueue(t, l, m) \/ LockQueueMark(t, l, m)
  BY <1>3, QueuePair
<1>4. CASE UNCHANGED waiting /\ wfg \subseteq wfg'
  BY <1>1, <1>2, <1>4, PairKept
<1>5. CASE LockJoin(t, l, m)
  <2>1. UNCHANGED waiting
    BY <1>5, JoinsFirst DEF LockLock
  <2>2. wfg \subseteq wfg'
    BY <1>5 DEF LockJoin
  <2>3. QED
    BY <1>4, <2>1, <2>2
<1>6. CASE LockDeadlock(t, l, m)
  BY <1>4, <1>6 DEF LockDeadlock, WfgBlocked
<1>7. CASE \/ LockFree(t, l, m) \/ LockCovered(t, l, m) \/ LockUpgradeNow(t, l, m)
           \/ LockStale(t, l, m) \/ LockFreedTail(t, l, m) \/ LockSearchFault(t, l, m)
  <2>1. UNCHANGED <<waiting, wfg>>
    BY <1>7 DEF LockFree, LockCovered, LockUpgradeNow, LockStale, LockFreedTail,
                LockSearchFault, Crash, lockVars
  <2>2. QED
    BY <1>4, <2>1
<1>8. QED
  BY <1>3, <1>5, <1>6, <1>7 DEF LockLock

LEMMA LockWakePair ==
  ASSUME MaxTasks = 2, ChainInv, ChainInv', PairInv, NEW t \in Cid, LockWake(t)
  PROVE  PairInv'
<1>1. PICK v \in waiting : v.tx = t /\ Wake(v)
  BY DEF LockWake
<1>2. CASE UNCHANGED <<chain, waiting, wfg>>
  BY <1>2, NoChangePair
<1>3. CASE StopWaiting(v) /\ UNCHANGED wfg
  <2>1. waiting' = waiting \ {v}
    BY <1>3 DEF StopWaiting
  <2>2. \A w \in waiting' : w.tx # t
    BY <1>1, <2>1 DEF ChainInv, OneCallEach
  <2>3. \A w \in waiting : w \in waiting' => Ahead(w)' \subseteq Ahead(w)
    BY LockWakeAhead
  <2>4. waiting' \subseteq waiting /\ wfg \subseteq wfg'
    BY <1>3, <2>1
  <2>5. QED
    BY <2>2, <2>3, <2>4, PairKept
<1>4. QED
  BY <1>1, <1>2, <1>3 DEF Wake, WakeJoined, WakeGranted, WakeDeadlocked, Crash

LEMMA LockUnlockPair ==
  ASSUME MaxTasks = 2, ChainInv, ChainInv', PairInv,
         NEW t \in Cid, NEW l \in Locks, LockUnlock(t, l)
  PROVE  PairInv'
<1>1. \A w \in waiting : w.tx # t
  BY DEF LockUnlock, IsWaiting
<1>2. \A w \in waiting : w \in waiting' => Ahead(w)' \subseteq Ahead(w)
  BY LockUnlockAhead
<1>3. UNCHANGED waiting /\ wfg \subseteq wfg'
  BY DEF LockUnlock, UnlockNotHeld, UnlockHeld, WfgUnblocked, lockVars
<1>4. QED
  BY <1>1, <1>2, <1>3, PairKept

\* In a deadlock of two each waits for the other.
LEMMA PairInvImpliesDetected ==
  ASSUME MaxTasks = 2, ChainInv, PairInv
  PROVE  NoSilentDeadlock
<1> SUFFICES ASSUME NEW D \in SUBSET waiting, Deadlocked(D)
             PROVE  \E w \in D : Marked(w)
  BY DEF NoSilentDeadlock
<1>1. PICK w \in D : TRUE
  BY DEF Deadlocked
<1>2. PICK v \in D : WaitsFor(w, v.tx)
  BY DEF Deadlocked
<1>3. PICK u \in D : WaitsFor(v, u.tx)
  BY DEF Deadlocked
<1>4. w.tx \in Cid /\ v.tx \in Cid /\ u.tx \in Cid
  BY WaiterType DEF ChainInv
<1>5. u.tx = w.tx
  BY <1>2, <1>3, <1>4, TwoCids DEF WaitsFor
<1>6. Marked(w) \/ Marked(v)
  BY <1>2, <1>3, <1>5 DEF PairInv, PairsMarked
<1>7. QED
  BY <1>6

-----------------------------------------------------------------------------
(* What the steps do to the groups, as far as their modes and entries go.  *)

SameGroup(x, k) == /\ chain'[x][k].mode = chain[x][k].mode
                   /\ chain'[x][k].entries = chain[x][k].entries

\* No group changes.
GroupsStay ==
  \A x \in Locks : /\ DOMAIN chain'[x] = DOMAIN chain[x]
                   /\ \A k \in DOMAIN chain[x] : SameGroup(x, k)

\* t joins the n-th and last group of l.
GroupJoined(t, l, n) ==
  /\ n \in Nat \ {0}
  /\ DOMAIN chain[l] = 1 .. n
  /\ \A x \in Locks : /\ DOMAIN chain'[x] = DOMAIN chain[x]
                      /\ \A k \in DOMAIN chain[x] : x # l \/ k # n => SameGroup(x, k)
  /\ chain'[l][n].mode = chain[l][n].mode
  /\ chain'[l][n].entries = chain[l][n].entries \cup {t}

\* t has a new group behind the n groups of l.
GroupAdded(t, l, m, n) ==
  /\ n \in Nat
  /\ DOMAIN chain[l] = 1 .. n
  /\ DOMAIN chain'[l] = 1 .. n + 1
  /\ \A x \in Locks : /\ x # l => DOMAIN chain'[x] = DOMAIN chain[x]
                      /\ \A k \in DOMAIN chain[x] : SameGroup(x, k)
  /\ chain'[l][n + 1].mode = m
  /\ chain'[l][n + 1].entries = {t}

\* The i-th of the n groups of l goes, and those behind it move up by one.
GroupGone(l, i, n) ==
  /\ n \in Nat /\ i \in 1 .. n
  /\ DOMAIN chain[l] = 1 .. n
  /\ DOMAIN chain'[l] = 1 .. n - 1
  /\ \A k \in 1 .. n - 1 : chain'[l][k] = chain[l][IF k < i THEN k ELSE k + 1]
  /\ \A x \in Locks : x # l => chain'[x] = chain[x]

\* No chain changes, so no group does.
LEMMA SameChains ==
  ASSUME UNCHANGED chain
  PROVE  GroupsStay
  BY DEF GroupsStay, SameGroup

\* A lock that is free gets its first group.
LEMMA LockFreeGroups ==
  ASSUME LockInv, NEW t \in Cid, NEW l \in Locks, NEW m \in Modes,
         LockFree(t, l, m)
  PROVE  GroupAdded(t, l, m, 0)
<1> DEFINE g == NewGroup(m, t, {}, {})
<1>1. g.entries = {t} /\ g.mode = m /\ chain' = [chain EXCEPT ![l] = <<g>>]
  BY DEF LockFree, NewGroup
<1>2. chain[l] = << >> /\ DOMAIN chain[l] = 1 .. 0
  BY DEF LockFree
<1> HIDE DEF g
<1>3. chain'[l] = <<g>> /\ \A x \in Locks : x # l => chain'[x] = chain[x]
  BY <1>1 DEF LockInv, TypeOK
<1>4. DOMAIN chain'[l] = 1 .. 0 + 1 /\ chain'[l][0 + 1] = g
  BY <1>3
<1>5. DOMAIN chain[l] = {}
  BY <1>2
<1>6. \A x \in Locks : \A k \in DOMAIN chain[x] : SameGroup(x, k)
  BY <1>3, <1>5 DEF SameGroup
<1>7. QED
  BY <1>1, <1>2, <1>3, <1>4, <1>6 DEF GroupAdded

LEMMA LockJoinGroups ==
  ASSUME LockInv, NEW t \in Cid, NEW l \in Locks, NEW m \in Modes,
         LockJoin(t, l, m)
  PROVE  GroupJoined(t, l, Len(chain[l]))
<1>n. PICK n : n = Len(chain[l])
  OBVIOUS
<1> DEFINE E == chain[l][n].entries \cup {t}
           r == SetEntries(chain[l], n, E)
<1>1. chain[l] \in Seq(Group) /\ n \in 1 .. Len(chain[l]) /\ E \in SUBSET Cid
      /\ n \in Nat /\ DOMAIN chain[l] = 1 .. n
  BY <1>n, ChainType DEF LockInv, LockJoin
<1>2. chain' = [chain EXCEPT ![l] = r]
  BY <1>n DEF LockJoin, SetEntries
<1>3. /\ r \in Seq(Group)
      /\ Len(r) = n
      /\ \A i \in 1 .. n : i # n => r[i] = chain[l][i]
      /\ r[n].entries = E /\ r[n].mode = chain[l][n].mode
  BY <1>1, <1>n, EntriesChain
<1> HIDE DEF r
<1>4. chain'[l] = r /\ \A x \in Locks : x # l => chain'[x] = chain[x]
  BY <1>2 DEF LockInv, TypeOK
<1>5. DOMAIN r = 1 .. n
  BY <1>1, <1>3
<1>6. \A x \in Locks : DOMAIN chain'[x] = DOMAIN chain[x]
  BY <1>1, <1>4, <1>5
<1>7. \A x \in Locks : \A k \in DOMAIN chain[x] : x # l \/ k # n => SameGroup(x, k)
  BY <1>1, <1>3, <1>4 DEF SameGroup
<1>8. QED
  BY <1>1, <1>3, <1>4, <1>6, <1>7, <1>n DEF GroupJoined

LEMMA LockQueueGroups ==
  ASSUME LockInv, NEW t \in Cid, NEW l \in Locks, NEW m \in Modes,
         LockQueue(t, l, m) \/ LockQueueMark(t, l, m)
  PROVE  GroupAdded(t, l, m, Len(chain[l]))
<1> DEFINE c == ChainBlocked(t, l, m)
           n == Len(chain[l])
<1>1. \A x \in Locks :
        /\ Len(chain'[x]) = Len(c[x])
        /\ DOMAIN chain'[x] = 1 .. Len(chain'[x])
        /\ \A i \in 1 .. Len(c[x]) : /\ chain'[x][i].entries = c[x][i].entries
                                     /\ chain'[x][i].mode = c[x][i].mode
  BY LockQueueEffect
<1>2. /\ \A x \in Locks :
           /\ Len(c[x]) = IF x = l THEN Len(chain[x]) + 1 ELSE Len(chain[x])
           /\ \A i \in 1 .. Len(chain[x]) : /\ c[x][i].entries = chain[x][i].entries
                                            /\ c[x][i].mode = chain[x][i].mode
      /\ c[l][n + 1].entries = {t}
      /\ c[l][n + 1].mode = m
  BY ChainBlockedChain
<1> HIDE DEF c
<1>3. \A x \in Locks : DOMAIN chain[x] = 1 .. Len(chain[x]) /\ Len(chain[x]) \in Nat
  BY ChainType DEF LockInv
<1>4. \A x \in Locks : \A k \in 1 .. Len(chain[x]) : k \in 1 .. Len(c[x])
  BY <1>2, <1>3
<1>5. ASSUME NEW x \in Locks, NEW k \in DOMAIN chain[x]
      PROVE  SameGroup(x, k)
  <2>1. k \in 1 .. Len(chain[x]) /\ k \in 1 .. Len(c[x])
    BY <1>3, <1>4
  <2>2. /\ chain'[x][k].entries = c[x][k].entries
        /\ chain'[x][k].mode = c[x][k].mode
    BY <1>1, <2>1
  <2>3. /\ c[x][k].entries = chain[x][k].entries
        /\ c[x][k].mode = chain[x][k].mode
    BY <1>2, <2>1
  <2>4. QED
    BY <2>2, <2>3 DEF SameGroup
<1>6. DOMAIN chain'[l] = 1 .. n + 1
  BY <1>1, <1>2
<1>7. n + 1 \in 1 .. Len(c[l])
  BY <1>2, <1>3
<1>8. chain'[l][n + 1].entries = {t} /\ chain'[l][n + 1].mode = m
  BY <1>1, <1>2, <1>7
<1>9. \A x \in Locks : x # l => DOMAIN chain'[x] = DOMAIN chain[x]
  BY <1>1, <1>2, <1>3
<1> HIDE DEF n
<1>10. n \in Nat /\ DOMAIN chain[l] = 1 .. n
  BY <1>3 DEF n
<1>11. GroupAdded(t, l, m, n)
  BY <1>5, <1>6, <1>8, <1>9, <1>10 DEF GroupAdded
<1>12. QED
  BY <1>11 DEF n

LEMMA LockDeadlockGroups ==
  ASSUME LockInv, NEW t \in Cid, NEW l \in Locks, NEW m \in Modes,
         LockDeadlock(t, l, m)
  PROVE  GroupsStay
  BY LockDeadlockEffect DEF GroupsStay, SameGroup

\* An upgrade at once: of the only group, whose only member is t.
LEMMA LockUpgradeNowGroups ==
  ASSUME LockInv, NEW t \in Cid, NEW l \in Locks, NEW m \in Modes,
         LockUpgradeNow(t, l, m)
  PROVE  /\ DOMAIN chain[l] = {1}
         /\ chain[l][1].entries = {t}
         /\ chain'[l][1].mode = "exclusive"
         /\ \A x \in Locks :
              /\ DOMAIN chain'[x] = DOMAIN chain[x]
              /\ \A k \in DOMAIN chain[x] :
                   /\ chain'[x][k].entries = chain[x][k].entries
                   /\ x # l => SameGroup(x, k)
<1> DEFINE r == SetMode(chain[l], 1, "exclusive")
<1>1. /\ chain[l] \in Seq(Group) /\ Len(chain[l]) = 1 /\ DOMAIN chain[l] = 1 .. 1
      /\ chain[l][1].entries = {t}
      /\ 1 \in 1 .. Len(chain[l]) /\ "exclusive" \in Modes
  BY ChainType DEF LockInv, LockUpgradeNow, HeadIsLast, First, Modes
<1>2. chain' = [chain EXCEPT ![l] = r]
  BY DEF LockUpgradeNow, SetMode
<1>3. /\ r \in Seq(Group) /\ Len(r) = 1
      /\ r[1].entries = chain[l][1].entries /\ r[1].mode = "exclusive"
  BY <1>1, ModeChain
<1> HIDE DEF r
<1>4. chain'[l] = r /\ \A x \in Locks : x # l => chain'[x] = chain[x]
  BY <1>2 DEF LockInv, TypeOK
<1>5. DOMAIN r = 1 .. 1 /\ 1 .. 1 = {1}
  BY <1>3
<1>6. DOMAIN chain[l] = {1} /\ DOMAIN chain'[l] = {1}
  BY <1>1, <1>4, <1>5
<1>7. /\ chain'[l][1].mode = "exclusive"
      /\ chain'[l][1].entries = chain[l][1].entries
  BY <1>3, <1>4
<1>8. \A x \in Locks : x # l =>
        /\ DOMAIN chain'[x] = DOMAIN chain[x]
        /\ \A k \in DOMAIN chain[x] :
             chain'[x][k].entries = chain[x][k].entries /\ SameGroup(x, k)
  BY <1>4 DEF SameGroup
<1>9. QED
  BY <1>1, <1>6, <1>7, <1>8

\* A victim takes its own group out, which is not the first.
LEMMA WakeDeadlockedGroups ==
  ASSUME LockInv, NEW w \in waiting, WakeDeadlocked(w)
  PROVE  \/ UNCHANGED <<chain, waiting, held>>
         \/ \E i \in DOMAIN chain[w.lock] :
              /\ i > 1
              /\ w.tx \in chain[w.lock][i].slots
              /\ chain[w.lock][i].entries = {w.tx}
              /\ GroupGone(w.lock, i, Len(chain[w.lock]))
              /\ StopWaiting(w)
              /\ UNCHANGED held
<1>l. PICK l \in Locks : l = w.lock
  BY WaiterType
<1>1. CASE UNCHANGED <<chain, waiting, held>>
  BY <1>1
<1>2. CASE \E i \in DOMAIN chain[l] :
             /\ i > 1
             /\ w.tx \in chain[l][i].slots
             /\ chain[l][i].entries = {w.tx}
             /\ chain' = [chain EXCEPT ![l] = RemoveAt(@, i)]
             /\ StopWaiting(w)
             /\ UNCHANGED held
  <2>1. PICK i \in DOMAIN chain[l] :
             /\ i > 1
             /\ w.tx \in chain[l][i].slots
             /\ chain[l][i].entries = {w.tx}
             /\ chain' = [chain EXCEPT ![l] = RemoveAt(@, i)]
             /\ StopWaiting(w)
             /\ UNCHANGED held
    BY <1>2
  <2>n. PICK n \in Nat : n = Len(chain[l])
    BY ChainType DEF LockInv
  <2>2. chain[l] \in Seq(Group) /\ DOMAIN chain[l] = 1 .. n /\ i \in 1 .. n
    BY <2>n, ChainType DEF LockInv
  <2>3. /\ RemoveAt(chain[l], i) \in Seq(Group)
        /\ Len(RemoveAt(chain[l], i)) = n - 1
        /\ \A k \in 1 .. n - 1 :
             RemoveAt(chain[l], i)[k] = IF k < i THEN chain[l][k] ELSE chain[l][k + 1]
    BY <2>2, <2>n, RemoveAtChain
  <2>4. /\ chain'[l] = RemoveAt(chain[l], i)
        /\ \A x \in Locks : x # l => chain'[x] = chain[x]
    BY <2>1 DEF LockInv, TypeOK
  <2>5. DOMAIN chain'[l] = 1 .. n - 1
    BY <2>2, <2>3, <2>4
  <2>6. \A k \in 1 .. n - 1 : chain'[l][k] = chain[l][IF k < i THEN k ELSE k + 1]
    BY <2>3, <2>4
  <2>7. GroupGone(l, i, n)
    BY <2>2, <2>4, <2>5, <2>6 DEF GroupGone
  <2>8. QED
    BY <1>l, <2>1, <2>7, <2>n
<1>3. QED
  BY <1>1, <1>2, <1>l DEF WakeDeadlocked, Positions, Crash

\* The first group goes, and the others move up.
LEMMA FirstGoesGroups ==
  ASSUME LockInv, NEW t, NEW l \in Locks, FirstGoes(t, l)
  PROVE  GroupGone(l, 1, Len(chain[l]))
<1>1. /\ chain'[l] = Tail(chain[l])
      /\ \A x \in Locks : x # l => chain'[x] = chain[x]
  BY DEF FirstGoes, LockInv, TypeOK
<1>2. PICK n : n = Len(chain[l])
  OBVIOUS
<1>3. chain[l] \in Seq(Group) /\ chain[l] # << >> /\ n \in Nat /\ n >= 1
      /\ DOMAIN chain[l] = 1 .. n
  BY <1>2, ChainType DEF FirstGoes, LockInv
<1>4. /\ DOMAIN chain'[l] = 1 .. n - 1
      /\ \A k \in 1 .. n - 1 : chain'[l][k] = chain[l][k + 1]
  BY <1>1, <1>2, <1>3
<1>5. \A k \in 1 .. n - 1 : chain'[l][k] = chain[l][IF k < 1 THEN k ELSE k + 1]
  BY <1>4
<1>6. QED
  BY <1>1, <1>2, <1>3, <1>4, <1>5 DEF GroupGone

-----------------------------------------------------------------------------
(* The steps preserve FairInv.                                             *)

\* Nobody ceases to be told of an exclusive hold, or to wait, but who is in
\* no exclusive first group.
LEMMA ToldKept ==
  ASSUME ExclusiveTold,
         \A x \in Locks : 1 \in DOMAIN chain'[x] /\ chain'[x][1].mode = "exclusive" =>
           \A s \in chain'[x][1].entries :
             \/ held'[s][x] = "exclusive"
             \/ \E w \in waiting' : w.tx = s /\ w.lock = x
             \/ /\ 1 \in DOMAIN chain[x]
                /\ chain[x][1].mode = "exclusive"
                /\ s \in chain[x][1].entries
                /\ held[s][x] = "exclusive" => held'[s][x] = "exclusive"
                /\ \A w \in waiting : w.tx = s /\ w.lock = x => w \in waiting'
  PROVE  ExclusiveTold'
<1> SUFFICES ASSUME NEW x \in Locks, 1 \in DOMAIN chain'[x],
                    chain'[x][1].mode = "exclusive",
                    NEW s \in chain'[x][1].entries
             PROVE  \/ held'[s][x] = "exclusive"
                    \/ \E w \in waiting' : w.tx = s /\ w.lock = x
  BY DEF ExclusiveTold, First
<1>1. CASE /\ 1 \in DOMAIN chain[x]
           /\ chain[x][1].mode = "exclusive"
           /\ s \in chain[x][1].entries
           /\ held[s][x] = "exclusive" => held'[s][x] = "exclusive"
           /\ \A w \in waiting : w.tx = s /\ w.lock = x => w \in waiting'
  <2>1. \/ held[s][x] = "exclusive"
        \/ \E w \in waiting : w.tx = s /\ w.lock = x
    BY <1>1 DEF ExclusiveTold, First
  <2>2. QED
    BY <1>1, <2>1
<1>2. QED
  BY <1>1

\* All groups keep their entries.
LEMMA GroupsStayFair ==
  ASSUME FairInv, ExclusiveTold',
         \A x \in Locks : /\ DOMAIN chain'[x] = DOMAIN chain[x]
                          /\ 2 \in DOMAIN chain[x] => 1 \in DOMAIN chain[x]
                          /\ \A k \in DOMAIN chain[x] :
                               chain'[x][k].entries = chain[x][k].entries
  PROVE  FairInv'
<1>1. UpgradesSecond'
  BY DEF FairInv, UpgradesSecond
<1>2. UpgradeSeen'
  BY DEF FairInv, UpgradeSeen, First
<1>3. QED
  BY <1>1, <1>2 DEF FairInv

\* The group at the end is joined.
LEMMA GroupJoinedFair ==
  ASSUME ChainInv, ChainInv', FairInv, ExclusiveTold',
         NEW t \in Cid, NEW l \in Locks, NEW n,
         GroupJoined(t, l, n), chain[l][n].mode = "shared"
  PROVE  FairInv'
<1>1. ASSUME NEW x \in Locks, NEW j \in DOMAIN chain'[x], NEW k \in DOMAIN chain'[x],
             j < k, NEW s \in chain'[x][j].entries, s \in chain'[x][k].entries
      PROVE  /\ j \in DOMAIN chain[x] /\ k \in DOMAIN chain[x]
             /\ SameGroup(x, j) /\ SameGroup(x, k)
  <2>1. chain'[x][k].mode = "exclusive"
    BY <1>1 DEF ChainInv, TwiceForUpgrade
  <2>2. j \in DOMAIN chain[x] /\ k \in DOMAIN chain[x]
    BY DEF GroupJoined
  <2>3. ~(x = l /\ k = n)
    BY <2>1 DEF GroupJoined
  <2>4. ~(x = l /\ j = n)
    <3>1. x = l => k \in 1 .. n /\ n \in Nat
      BY <2>2 DEF GroupJoined
    <3>2. QED
      BY <3>1, <1>1
  <2>5. QED
    BY <2>2, <2>3, <2>4 DEF GroupJoined
<1>2. UpgradesSecond'
  <2> SUFFICES ASSUME NEW x \in Locks, NEW j \in DOMAIN chain'[x],
                      NEW k \in DOMAIN chain'[x], j < k,
                      NEW s \in chain'[x][j].entries, s \in chain'[x][k].entries
               PROVE  k = 2
    BY DEF UpgradesSecond
  <2>1. QED
    BY <1>1 DEF FairInv, UpgradesSecond, SameGroup
<1>3. UpgradeSeen'
  <2> SUFFICES ASSUME NEW x \in Locks, 2 \in DOMAIN chain'[x],
                      chain'[x][1].entries = chain'[x][2].entries
               PROVE  FALSE
    BY DEF UpgradeSeen, First
  <2>1. PICK s : s \in chain'[x][2].entries
    BY DEF ChainInv, LockInv, GroupsWellFormed
  <2>2. 1 \in DOMAIN chain'[x]
    <3>1. 2 \in DOMAIN chain[x] /\ DOMAIN chain'[x] = DOMAIN chain[x]
      BY DEF GroupJoined
    <3>2. QED
      BY <3>1, PositionType DEF ChainInv
  <2>3. /\ 2 \in DOMAIN chain[x]
        /\ SameGroup(x, 1) /\ SameGroup(x, 2)
    BY <1>1, <2>1, <2>2
  <2>4. QED
    BY <2>3 DEF FairInv, UpgradeSeen, SameGroup, First
<1>4. QED
  BY <1>2, <1>3 DEF FairInv

\* A group is added, of somebody who is in no other or upgrades.
LEMMA GroupAddedFair ==
  ASSUME ChainInv, FairInv, ExclusiveTold',
         NEW t \in Cid, NEW l \in Locks, NEW m, NEW n,
         GroupAdded(t, l, m, n), ~IsWaiting(t),
         1 \in DOMAIN chain[l] /\ t \in chain[l][1].entries =>
           n = 1 /\ chain[l][1].entries # {t}
  PROVE  FairInv'
<1>1. \A x \in Locks : \A k \in DOMAIN chain'[x] :
        \/ k \in DOMAIN chain[x] /\ SameGroup(x, k)
        \/ x = l /\ k = n + 1 /\ chain'[x][k].entries = {t}
  BY DEF GroupAdded
<1>2. \A j \in DOMAIN chain[l] : t \in chain[l][j].entries =>
        j = 1 /\ n = 1 /\ chain[l][1].entries # {t}
  BY AwakeIsFirst
<1>3. UpgradesSecond'
  <2> SUFFICES ASSUME NEW x \in Locks, NEW j \in DOMAIN chain'[x],
                      NEW k \in DOMAIN chain'[x], j < k,
                      NEW s \in chain'[x][j].entries, s \in chain'[x][k].entries
               PROVE  k = 2
    BY DEF UpgradesSecond
  <2>1. CASE k \in DOMAIN chain[x] /\ SameGroup(x, k)
    <3>1. ~(x = l /\ j = n + 1)
      <4>1. x = l => k \in 1 .. n /\ n \in Nat
        BY <2>1 DEF GroupAdded
      <4>2. QED
        BY <4>1
    <3>2. j \in DOMAIN chain[x] /\ SameGroup(x, j)
      BY <3>1, <1>1
    <3>3. QED
      BY <2>1, <3>2 DEF FairInv, UpgradesSecond, SameGroup
  <2>2. CASE x = l /\ k = n + 1 /\ chain'[x][k].entries = {t}
    <3>1. j \in DOMAIN chain[l] /\ SameGroup(l, j)
      <4>1. j # n + 1 /\ j \in 1 .. n + 1 /\ n \in Nat
        BY <2>2 DEF GroupAdded
      <4>2. j \in 1 .. n
        BY <4>1
      <4>3. QED
        BY <2>2, <4>2 DEF GroupAdded
    <3>2. t \in chain[l][j].entries
      BY <2>2, <3>1 DEF SameGroup
    <3>3. QED
      BY <1>2, <2>2, <3>1, <3>2
  <2>3. QED
    BY <1>1, <2>1, <2>2
<1>4. UpgradeSeen'
  <2> SUFFICES ASSUME NEW x \in Locks, 2 \in DOMAIN chain'[x],
                      chain'[x][1].entries = chain'[x][2].entries
               PROVE  FALSE
    BY DEF UpgradeSeen, First
  <2>1. CASE 2 \in DOMAIN chain[x] /\ SameGroup(x, 2)
    <3>1. 1 \in DOMAIN chain[x]
      BY <2>1, PositionType DEF ChainInv
    <3>2. SameGroup(x, 1)
      BY <3>1 DEF GroupAdded
    <3>3. QED
      BY <2>1, <3>2 DEF FairInv, UpgradeSeen, SameGroup, First
  <2>2. CASE x = l /\ 2 = n + 1 /\ chain'[x][2].entries = {t}
    <3>1. n = 1
      BY <2>2 DEF GroupAdded
    <3>2. 1 \in DOMAIN chain[l]
      BY <3>1 DEF GroupAdded
    <3>3. chain[l][1].entries = {t}
      BY <2>2, <3>2 DEF GroupAdded, SameGroup
    <3>4. QED
      BY <1>2, <3>2, <3>3
  <2>3. QED
    BY <1>1, <2>1, <2>2
<1>5. QED
  BY <1>3, <1>4 DEF FairInv

\* A group goes, and leaves no upgrade to wait for itself alone.
LEMMA GroupGoneFair ==
  ASSUME ChainInv, FairInv, ExclusiveTold',
         NEW l \in Locks, NEW i, NEW n, GroupGone(l, i, n)
  PROVE  FairInv'
<1> DEFINE f(k) == IF k < i THEN k ELSE k + 1
<1>1. n \in Nat /\ i \in 1 .. n
  BY DEF GroupGone
<1>2. \A k \in 1 .. n - 1 : /\ k \in Nat /\ k >= 1
                            /\ f(k) \in 1 .. n
                            /\ f(k) \in Nat
                            /\ k > 1 => f(k) >= k
  BY <1>1
<1>3. \A j, k \in 1 .. n - 1 : j < k => f(j) < f(k)
  BY <1>1
<1>4. /\ DOMAIN chain[l] = 1 .. n /\ DOMAIN chain'[l] = 1 .. n - 1
      /\ \A k \in 1 .. n - 1 : chain'[l][k] = chain[l][f(k)]
      /\ \A x \in Locks : x # l => chain'[x] = chain[x]
  BY DEF GroupGone
<1> HIDE DEF f
<1>5. UpgradesSecond'
  <2> SUFFICES ASSUME NEW x \in Locks, NEW j \in DOMAIN chain'[x],
                      NEW k \in DOMAIN chain'[x], j < k,
                      NEW s \in chain'[x][j].entries, s \in chain'[x][k].entries
               PROVE  k = 2
    BY DEF UpgradesSecond
  <2>1. CASE x # l
    BY <2>1, <1>4 DEF FairInv, UpgradesSecond
  <2>2. CASE x = l
    <3>1. j \in 1 .. n - 1 /\ k \in 1 .. n - 1
      BY <2>2, <1>4
    <3>2. /\ f(j) \in DOMAIN chain[l] /\ f(k) \in DOMAIN chain[l] /\ f(j) < f(k)
          /\ s \in chain[l][f(j)].entries \cap chain[l][f(k)].entries
      BY <2>2, <3>1, <1>2, <1>3, <1>4
    <3>3. f(k) = 2
      BY <3>2 DEF FairInv, UpgradesSecond
    <3>4. k \in Nat /\ j \in Nat /\ j >= 1 /\ k > 1 /\ f(k) >= k
      BY <3>1, <1>2
    <3>5. QED
      BY <3>3, <3>4
  <2>3. QED
    BY <2>1, <2>2
<1>6. UpgradeSeen'
  <2> SUFFICES ASSUME NEW x \in Locks, 2 \in DOMAIN chain'[x],
                      chain'[x][1].entries = chain'[x][2].entries
               PROVE  FALSE
    BY DEF UpgradeSeen, First
  <2>1. CASE x # l
    BY <2>1, <1>4 DEF FairInv, UpgradeSeen, First
  <2>2. CASE x = l
    <3>1. 1 \in 1 .. n - 1 /\ 2 \in 1 .. n - 1
      BY <2>2, <1>1, <1>4
    <3>2. /\ f(1) \in DOMAIN chain[l] /\ f(2) \in DOMAIN chain[l] /\ f(1) < f(2)
          /\ chain[l][f(1)].entries = chain[l][f(2)].entries
      BY <2>2, <3>1, <1>2, <1>3, <1>4
    <3>3. PICK s : s \in chain[l][f(1)].entries
      BY <3>2 DEF ChainInv, LockInv, GroupsWellFormed
    <3>4. f(2) = 2
      BY <3>2, <3>3 DEF FairInv, UpgradesSecond
    <3>5. f(1) \in Nat /\ f(1) >= 1
      BY <3>1, <1>2
    <3>6. f(1) = 1
      BY <3>2, <3>4, <3>5
    <3>7. QED
      BY <3>2, <3>4, <3>6 DEF FairInv, UpgradeSeen, First
  <2>3. QED
    BY <2>1, <2>2
<1>7. QED
  BY <1>5, <1>6 DEF FairInv

\* A grant takes no exclusive hold away.
LEMMA ExclusiveKept ==
  ASSUME TypeOK, NEW t \in Cid, NEW l \in Locks, NEW m, Taken(t, l, m) \/ UNCHANGED held
  PROVE  \A s \in Cid, x \in Locks :
           held[s][x] = "exclusive" => held'[s][x] = "exclusive"
<1>1. CASE Taken(t, l, m)
  <2> SUFFICES ASSUME NEW s \in Cid, NEW x \in Locks, held[s][x] = "exclusive"
               PROVE  held'[s][x] = "exclusive"
    OBVIOUS
  <2>1. held \in [Cid -> [Locks -> Modes \cup {"none"}]]
    BY DEF TypeOK
  <2>2. CASE s = t /\ x = l
    BY <1>1, <2>1, <2>2 DEF Taken
  <2>3. CASE ~(s = t /\ x = l)
    BY <1>1, <2>1, <2>3 DEF Taken
  <2>4. QED
    BY <2>2, <2>3
<1>2. QED
  BY <1>1

\* A first group that stays as it is, or gets no exclusive member.
LEMMA FirstToldKept ==
  ASSUME LockInv, ExclusiveTold, waiting \subseteq waiting',
         \A s \in Cid, x \in Locks :
           held[s][x] = "exclusive" => held'[s][x] = "exclusive",
         \A x \in Locks : 1 \in DOMAIN chain'[x] /\ chain'[x][1].mode = "exclusive" =>
           \/ 1 \in DOMAIN chain[x] /\ SameGroup(x, 1)
           \/ \A s \in chain'[x][1].entries : held'[s][x] = "exclusive"
  PROVE  ExclusiveTold'
<1> SUFFICES ASSUME NEW x \in Locks, 1 \in DOMAIN chain'[x],
                    chain'[x][1].mode = "exclusive",
                    1 \in DOMAIN chain[x], SameGroup(x, 1),
                    NEW s \in chain'[x][1].entries
             PROVE  /\ chain[x][1].mode = "exclusive"
                    /\ s \in chain[x][1].entries
                    /\ held[s][x] = "exclusive" => held'[s][x] = "exclusive"
                    /\ \A w \in waiting : w.tx = s /\ w.lock = x => w \in waiting'
  BY ToldKept
<1>1. s \in chain[x][1].entries /\ chain[x][1].mode = "exclusive"
  BY DEF SameGroup
<1>2. s \in Cid
  BY <1>1, PositionType
<1>3. QED
  BY <1>1, <1>2

\* Who queues up though it is in the first group upgrades, behind others.
LEMMA QueuesFair ==
  ASSUME ChainInv, NEW t \in Cid, NEW l \in Locks, NEW m \in Modes,
         MustQueue(t, l, m), 1 \in DOMAIN chain[l], t \in chain[l][1].entries
  PROVE  Len(chain[l]) = 1 /\ chain[l][1].entries # {t}
<1>1. First(l).mode \in Modes
  BY PositionType DEF ChainInv, First
<1>2. Upgrade(t, l, m)
  BY <1>1 DEF MustQueue, Covered, Upgrade, First, Modes
<1>3. QED
  BY <1>2 DEF MustQueue, HeadIsLast, First

\* FairInv after each case of lock_lock().
LEMMA LockLockFair ==
  ASSUME ChainInv, ChainInv', FairInv,
         NEW t \in Cid, NEW l \in Locks, NEW m \in Modes, LockLock(t, l, m)
  PROVE  FairInv'
<1>1. TypeOK /\ LockInv /\ ExclusiveTold /\ ~IsWaiting(t)
  BY DEF ChainInv, LockInv, FairInv, LockLock
<1>2. CASE LockFree(t, l, m)
  <2>1. GroupAdded(t, l, m, 0) /\ Taken(t, l, m) /\ UNCHANGED waiting
    BY <1>1, <1>2, LockFreeGroups DEF LockFree
  <2>2. /\ held'[t][l] \in {m, "exclusive"}
        /\ \A s \in Cid, x \in Locks :
             held[s][x] = "exclusive" => held'[s][x] = "exclusive"
    BY <1>1, <2>1, TakenType, ExclusiveKept
  <2>3. ASSUME NEW x \in Locks, 1 \in DOMAIN chain'[x],
               chain'[x][1].mode = "exclusive"
        PROVE  \/ 1 \in DOMAIN chain[x] /\ SameGroup(x, 1)
               \/ \A s \in chain'[x][1].entries : held'[s][x] = "exclusive"
    <3>1. CASE x = l
      <4>1. chain'[l][1].mode = m /\ chain'[l][1].entries = {t}
        BY <2>1 DEF GroupAdded
      <4>2. QED
        BY <2>2, <2>3, <3>1, <4>1
    <3>2. CASE x # l
      BY <2>1, <2>3, <3>2 DEF GroupAdded
    <3>3. QED
      BY <3>1, <3>2
  <2>4. ExclusiveTold'
    BY <1>1, <2>1, <2>2, <2>3, FirstToldKept
  <2>5. 1 \notin DOMAIN chain[l]
    BY <2>1 DEF GroupAdded
  <2>6. QED
    BY <1>1, <2>1, <2>4, <2>5, GroupAddedFair
<1>3. CASE LockJoin(t, l, m)
  <2>n. PICK n : n = Len(chain[l])
    OBVIOUS
  <2>1. /\ GroupJoined(t, l, n) /\ chain[l][n].mode = "shared"
        /\ waiting \subseteq waiting' /\ (Taken(t, l, m) \/ UNCHANGED held)
    BY <1>1, <1>3, <2>n, LockJoinGroups DEF LockJoin, Last
  <2>2. \A s \in Cid, x \in Locks :
          held[s][x] = "exclusive" => held'[s][x] = "exclusive"
    BY <1>1, <2>1, ExclusiveKept
  <2>3. ASSUME NEW x \in Locks, 1 \in DOMAIN chain'[x],
               chain'[x][1].mode = "exclusive"
        PROVE  1 \in DOMAIN chain[x] /\ SameGroup(x, 1)
    BY <2>1, <2>3 DEF GroupJoined
  <2>4. ExclusiveTold'
    BY <1>1, <2>1, <2>2, <2>3, FirstToldKept
  <2>5. QED
    BY <2>1, <2>4, GroupJoinedFair
<1>4. CASE LockUpgradeNow(t, l, m)
  <2>1. /\ chain[l][1].entries = {t}
        /\ \A x \in Locks :
             /\ DOMAIN chain'[x] = DOMAIN chain[x]
             /\ \A k \in DOMAIN chain[x] :
                  /\ chain'[x][k].entries = chain[x][k].entries
                  /\ x # l => SameGroup(x, k)
    BY <1>1, <1>4, LockUpgradeNowGroups
  <2>2. Taken(t, l, m) /\ m = "exclusive" /\ UNCHANGED waiting
    BY <1>4 DEF LockUpgradeNow, Upgrade
  <2>3. /\ held'[t][l] = "exclusive"
        /\ \A s \in Cid, x \in Locks :
             held[s][x] = "exclusive" => held'[s][x] = "exclusive"
    BY <1>1, <2>2, TakenType, ExclusiveKept
  <2>4. ASSUME NEW x \in Locks, 1 \in DOMAIN chain'[x],
               chain'[x][1].mode = "exclusive"
        PROVE  \/ 1 \in DOMAIN chain[x] /\ SameGroup(x, 1)
               \/ \A s \in chain'[x][1].entries : held'[s][x] = "exclusive"
    BY <2>1, <2>3, <2>4
  <2>5. ExclusiveTold'
    BY <1>1, <2>2, <2>3, <2>4, FirstToldKept
  <2>6. \A x \in Locks : 2 \in DOMAIN chain[x] => 1 \in DOMAIN chain[x]
    BY <1>1, PositionType
  <2>7. QED
    BY <2>1, <2>5, <2>6, GroupsStayFair
<1>5. CASE LockQueue(t, l, m) \/ LockQueueMark(t, l, m)
  <2>n. PICK n : n = Len(chain[l])
    OBVIOUS
  <2>1. GroupAdded(t, l, m, n)
    BY <1>1, <1>5, <2>n, LockQueueGroups
  <2>2. MustQueue(t, l, m) /\ waiting \subseteq waiting' /\ UNCHANGED held
    BY <1>5 DEF LockQueue, LockQueueMark, QueueWaiter
  <2>3. n # 0
    <3>1. chain[l] # << >>
      BY <2>2 DEF MustQueue
    <3>2. QED
      BY <1>1, <2>n, <3>1, ChainType
  <2>4. ASSUME NEW x \in Locks, 1 \in DOMAIN chain'[x],
               chain'[x][1].mode = "exclusive"
        PROVE  1 \in DOMAIN chain[x] /\ SameGroup(x, 1)
    <3>1. CASE x = l
      <4>1. 1 \in 1 .. n
        BY <2>1, <2>3 DEF GroupAdded
      <4>2. QED
        BY <2>1, <3>1, <4>1 DEF GroupAdded
    <3>2. CASE x # l
      BY <2>1, <2>4, <3>2 DEF GroupAdded
    <3>3. QED
      BY <3>1, <3>2
  <2>5. ExclusiveTold'
    BY <1>1, <2>2, <2>4, FirstToldKept
  <2>6. QED
    BY <1>1, <2>1, <2>2, <2>5, <2>n, QueuesFair, GroupAddedFair
<1>6. CASE GroupsStay /\ waiting \subseteq waiting' /\ (Taken(t, l, m) \/ UNCHANGED held)
  <2>1. \A s \in Cid, x \in Locks :
          held[s][x] = "exclusive" => held'[s][x] = "exclusive"
    BY <1>1, <1>6, ExclusiveKept
  <2>2. \A x \in Locks : 1 \in DOMAIN chain'[x] =>
          1 \in DOMAIN chain[x] /\ SameGroup(x, 1)
    BY <1>6 DEF GroupsStay
  <2>3. ExclusiveTold'
    BY <1>1, <1>6, <2>1, <2>2, FirstToldKept
  <2>4. \A x \in Locks : 2 \in DOMAIN chain[x] => 1 \in DOMAIN chain[x]
    BY <1>1, PositionType
  <2>5. QED
    BY <1>6, <2>3, <2>4, GroupsStayFair DEF GroupsStay, SameGroup
<1>7. CASE LockDeadlock(t, l, m)
  BY <1>1, <1>6, <1>7, LockDeadlockGroups DEF LockDeadlock
<1>8. CASE UNCHANGED <<chain, waiting>> /\ (Taken(t, l, m) \/ UNCHANGED held)
  BY <1>6, <1>8, SameChains
<1>9. QED
  BY <1>2, <1>3, <1>4, <1>5, <1>7, <1>8
     DEF LockLock, LockCovered, LockStale, LockFreedTail, LockSearchFault,
         Crash, lockVars

\* FairInv after a wake-up.
LEMMA LockWakeFair ==
  ASSUME ChainInv, FairInv, NEW t \in Cid, LockWake(t)
  PROVE  FairInv'
<1>1. PICK w \in waiting : Wake(w)
  BY DEF LockWake
<1>2. /\ TypeOK /\ LockInv /\ ExclusiveTold
      /\ w.tx \in Cid /\ w.lock \in Locks /\ w.mode \in Modes
  BY WaiterType DEF ChainInv, LockInv, FairInv
<1>3. \A v \in waiting : v.tx = w.tx => v = w
  BY DEF ChainInv, OneCallEach
<1>4. CASE WakeJoined(w) \/ WakeGranted(w)
  <2>1. UNCHANGED chain /\ Taken(w.tx, w.lock, w.mode) /\ waiting' = waiting \ {w}
    BY <1>4 DEF WakeJoined, WakeGranted, StopWaiting
  <2>2. /\ held'[w.tx][w.lock] \in {w.mode, "exclusive"}
        /\ \A s \in Cid, x \in Locks :
             held[s][x] = "exclusive" => held'[s][x] = "exclusive"
    BY <1>2, <2>1, TakenType, ExclusiveKept
  <2>3. ASSUME NEW x \in Locks, 1 \in DOMAIN chain'[x],
               chain'[x][1].mode = "exclusive",
               NEW s \in chain'[x][1].entries
        PROVE  \/ held'[s][x] = "exclusive"
               \/ /\ 1 \in DOMAIN chain[x]
                  /\ chain[x][1].mode = "exclusive"
                  /\ s \in chain[x][1].entries
                  /\ held[s][x] = "exclusive" => held'[s][x] = "exclusive"
                  /\ \A v \in waiting : v.tx = s /\ v.lock = x => v \in waiting'
    <3>1. /\ 1 \in DOMAIN chain[x]
          /\ chain[x][1].mode = "exclusive"
          /\ s \in chain[x][1].entries
      BY <2>1, <2>3
    <3>2. s \in Cid
      BY <1>2, <3>1, PositionType
    <3>3. CASE s = w.tx /\ x = w.lock
      <4>1. PICK k \in DOMAIN chain[x] : SleepsAt(w, k)
        BY <3>3 DEF ChainInv, SleepersHaveGroups
      <4>2. k = 1
        <5>1. ~(k > 1)
          BY <1>4, <3>3, <4>1, WakesFirst DEF SleepsAt
        <5>2. QED
          BY <1>2, <5>1, PositionType
      <4>3. w.mode = "exclusive"
        BY <3>1, <3>3, <4>1, <4>2 DEF SleepsAt
      <4>4. QED
        BY <2>2, <3>3, <4>3
    <3>4. CASE ~(s = w.tx /\ x = w.lock)
      BY <2>1, <2>2, <3>1, <3>2, <3>4
    <3>5. QED
      BY <3>3, <3>4
  <2>4. ExclusiveTold'
    BY <1>2, <2>3, ToldKept
  <2>5. \A x \in Locks : 2 \in DOMAIN chain[x] => 1 \in DOMAIN chain[x]
    BY <1>2, PositionType
  <2>6. QED
    BY <2>1, <2>4, <2>5, GroupsStayFair
<1>5. CASE UNCHANGED <<chain, waiting, held>>
  <2>1. ExclusiveTold'
    BY <1>2, <1>5 DEF ExclusiveTold, First
  <2>2. \A x \in Locks : 2 \in DOMAIN chain[x] => 1 \in DOMAIN chain[x]
    BY <1>2, PositionType
  <2>3. QED
    BY <1>5, <2>1, <2>2, GroupsStayFair
<1>6. ASSUME NEW i \in DOMAIN chain[w.lock], i > 1,
             chain[w.lock][i].entries = {w.tx},
             GroupGone(w.lock, i, Len(chain[w.lock])),
             StopWaiting(w), UNCHANGED held
      PROVE  FairInv'
  <2>1. ASSUME NEW x \in Locks, 1 \in DOMAIN chain'[x],
               chain'[x][1].mode = "exclusive",
               NEW s \in chain'[x][1].entries
        PROVE  /\ 1 \in DOMAIN chain[x]
               /\ chain[x][1].mode = "exclusive"
               /\ s \in chain[x][1].entries
               /\ \A v \in waiting : v.tx = s /\ v.lock = x => v \in waiting'
    <3>1. /\ 1 \in DOMAIN chain[x]
          /\ chain[x][1].mode = "exclusive"
          /\ s \in chain[x][1].entries
      <4>1. CASE x = w.lock
        <5>1. 1 \in DOMAIN chain[x] /\ chain'[x][1] = chain[x][1]
          BY <1>6, <2>1, <4>1 DEF GroupGone
        <5>2. QED
          BY <2>1, <5>1
      <4>2. CASE x # w.lock
        BY <1>6, <2>1, <4>2 DEF GroupGone
      <4>3. QED
        BY <4>1, <4>2
    <3>2. ~(s = w.tx /\ x = w.lock)
      <4>1. SUFFICES ASSUME s = w.tx, x = w.lock
                     PROVE  FALSE
        OBVIOUS
      <4>2. 1 < i /\ s \in chain[x][1].entries \cap chain[x][i].entries
        BY <1>6, <3>1, <4>1
      <4>3. chain[x][1].mode = "shared"
        BY <1>6, <3>1, <4>1, <4>2 DEF ChainInv, TwiceForUpgrade
      <4>4. QED
        BY <3>1, <4>3
    <3>3. QED
      BY <1>6, <3>1, <3>2 DEF StopWaiting
  <2>2. ExclusiveTold'
    BY <1>2, <1>6, <2>1, ToldKept
  <2>3. QED
    BY <1>2, <1>6, <2>2, GroupGoneFair
<1>7. CASE WakeDeadlocked(w)
  BY <1>2, <1>5, <1>6, <1>7, WakeDeadlockedGroups
<1>8. QED
  BY <1>1, <1>4, <1>7 DEF Wake

\* FairInv after lock_unlock().
LEMMA LockUnlockFair ==
  ASSUME ChainInv, ChainInv', FairInv, NEW t \in Cid, NEW l \in Locks,
         LockUnlock(t, l)
  PROVE  FairInv'
<1>1. TypeOK /\ LockInv /\ ExclusiveTold
  BY DEF ChainInv, LockInv, FairInv
<1>2. CASE UnlockNotHeld(t, l)
  <2>1. UNCHANGED <<chain, waiting, held>>
    BY <1>2 DEF UnlockNotHeld, lockVars
  <2>2. ExclusiveTold'
    BY <1>1, <2>1 DEF ExclusiveTold, First
  <2>3. \A x \in Locks : 2 \in DOMAIN chain[x] => 1 \in DOMAIN chain[x]
    BY <1>1, PositionType
  <2>4. QED
    BY <2>1, <2>2, <2>3, GroupsStayFair
<1>3. CASE UnlockHeld(t, l)
  <2>1. UNCHANGED waiting /\ held' = [held EXCEPT ![t][l] = "none"]
    BY <1>3 DEF UnlockHeld
  <2>2. \A s \in Cid, x \in Locks :
          ~(s = t /\ x = l) => held'[s][x] = held[s][x]
    BY <1>1, <2>1 DEF TypeOK
  <2>3. CASE FirstGoes(t, l)
    <3>n. PICK n : n = Len(chain[l])
      OBVIOUS
    <3>1. GroupGone(l, 1, n)
      BY <1>1, <2>3, <3>n, FirstGoesGroups
    <3>2. ASSUME NEW x \in Locks, 1 \in DOMAIN chain'[x],
                 chain'[x][1].mode = "exclusive",
                 NEW s \in chain'[x][1].entries
          PROVE  \/ \E w \in waiting' : w.tx = s /\ w.lock = x
                 \/ /\ 1 \in DOMAIN chain[x]
                    /\ chain[x][1].mode = "exclusive"
                    /\ s \in chain[x][1].entries
                    /\ held'[s][x] = held[s][x]
      <4>1. CASE x = l
        <5>1. 1 \in 1 .. n - 1 /\ n \in Nat /\ DOMAIN chain[l] = 1 .. n
          BY <3>1, <3>2, <4>1 DEF GroupGone
        <5>2. 2 \in DOMAIN chain[l] /\ 2 > 1
          BY <5>1
        <5>3. chain'[l][1] = chain[l][1 + 1]
          BY <3>1, <5>1 DEF GroupGone
        <5>4. s \in chain[l][2].entries
          BY <3>2, <4>1, <5>3
        <5>5. QED
          BY <2>1, <4>1, <5>2, <5>4 DEF ChainInv, GroupsHaveSleepers
      <4>2. CASE x # l
        <5>1. chain'[x] = chain[x]
          BY <3>1, <4>2 DEF GroupGone
        <5>2. s \in Cid
          BY <1>1, <3>2, <5>1, PositionType
        <5>3. QED
          BY <2>2, <3>2, <4>2, <5>1, <5>2
      <4>3. QED
        BY <4>1, <4>2
    <3>3. ExclusiveTold'
      BY <1>1, <2>1, <3>2, ToldKept
    <3>4. QED
      BY <3>1, <3>3, GroupGoneFair
  <2>4. CASE /\ FirstStays(t, l)
             /\ ~UpgradeNext(l, First(l).entries \ {t}, Tail(chain[l]))
    <3>1. \A x \in Locks : DOMAIN chain'[x] = DOMAIN chain[x]
      BY <2>4 DEF FirstStays
    <3>2. \A x \in Locks : \A k \in DOMAIN chain[x] :
            /\ chain'[x][k].mode = chain[x][k].mode
            /\ chain'[x][k].entries = IF x = l /\ k = 1 THEN chain[x][k].entries \ {t}
                                                      ELSE chain[x][k].entries
      BY <2>4 DEF FirstStays
    <3>3. ASSUME NEW x \in Locks, 1 \in DOMAIN chain'[x],
                 chain'[x][1].mode = "exclusive",
                 NEW s \in chain'[x][1].entries
          PROVE  /\ 1 \in DOMAIN chain[x]
                 /\ chain[x][1].mode = "exclusive"
                 /\ s \in chain[x][1].entries
                 /\ held'[s][x] = held[s][x]
      <4>1. /\ 1 \in DOMAIN chain[x]
            /\ chain[x][1].mode = "exclusive"
            /\ s \in chain[x][1].entries
            /\ ~(s = t /\ x = l)
        BY <3>1, <3>2, <3>3
      <4>2. s \in Cid
        BY <1>1, <4>1, PositionType
      <4>3. QED
        BY <2>2, <4>1, <4>2
    <3>4. ExclusiveTold'
      BY <1>1, <2>1, <3>3, ToldKept
    <3>5. UpgradesSecond'
      <4> SUFFICES ASSUME NEW x \in Locks, NEW j \in DOMAIN chain'[x],
                          NEW k \in DOMAIN chain'[x], j < k,
                          NEW s \in chain'[x][j].entries, s \in chain'[x][k].entries
                   PROVE  k = 2
        BY DEF UpgradesSecond
      <4>1. j \in DOMAIN chain[x] /\ k \in DOMAIN chain[x]
        BY <3>1
      <4>2. s \in chain[x][j].entries \cap chain[x][k].entries
        BY <3>2, <4>1
      <4>3. QED
        BY <4>1, <4>2 DEF FairInv, UpgradesSecond
    <3>6. UpgradeSeen'
      <4> SUFFICES ASSUME NEW x \in Locks, 2 \in DOMAIN chain'[x],
                          chain'[x][1].entries = chain'[x][2].entries
                   PROVE  FALSE
        BY DEF UpgradeSeen, First
      <4>1. 2 \in DOMAIN chain[x]
        BY <3>1
      <4>2. /\ 1 \in DOMAIN chain[x] /\ chain'[x][2].entries = chain[x][2].entries
            /\ chain[x] \in Seq(Group)
        <5>1. 1 \in DOMAIN chain[x]
          BY <1>1, <4>1, PositionType
        <5>2. chain'[x][2].entries = chain[x][2].entries
          <6>1. 2 # 1
            OBVIOUS
          <6>2. QED
            BY <3>2, <4>1, <6>1, Zenon
        <5>3. QED
          BY <1>1, <5>1, <5>2, ChainType
      <4>3. x = l
        BY <3>2, <4>1, <4>2 DEF FairInv, UpgradeSeen, First
      <4>4. First(l).entries \ {t} = chain[l][2].entries
        BY <3>2, <4>2, <4>3 DEF First
      <4>5. PICK s : s \in chain[l][2].entries
        BY <4>1, <4>3, <1>1 DEF LockInv, GroupsWellFormed
      <4>6. s \in chain[l][1].entries \cap chain[l][2].entries
        BY <4>4, <4>5 DEF First
      <4>7. chain[l][1].mode = "shared" /\ chain[l][2].mode = "exclusive"
        <5>1. 1 < 2
          OBVIOUS
        <5>2. QED
          BY <4>1, <4>2, <4>3, <4>6, <5>1 DEF ChainInv, TwiceForUpgrade
      <4>8. PICK u \in Cid : chain[l][2].entries = {u}
        BY <1>1, <4>1, <4>3, <4>7 DEF LockInv, GroupsWellFormed
      <4>9. Cardinality(First(l).entries \ {t}) = 1
        BY <4>4, <4>8, FS_Singleton
      <4>10. Tail(chain[l]) # << >> /\ Tail(chain[l])[1] = chain[l][2]
        <5> DEFINE q == chain[l]
        <5>1. q \in Seq(Group) /\ 2 \in DOMAIN q
          BY <4>1, <4>2, <4>3
        <5> HIDE DEF q
        <5>2. Len(q) \in Nat /\ Len(q) >= 2 /\ q # << >>
          BY <5>1
        <5>3. Len(Tail(q)) = Len(q) - 1 /\ 1 \in 1 .. Len(q) - 1
          BY <5>1, <5>2
        <5>4. Tail(q)[1] = q[2]
          BY <5>1, <5>2, <5>3
        <5>5. Tail(q) # << >>
          <6>1. Tail(q) \in Seq(Group) /\ Len(Tail(q)) >= 1
            BY <5>1, <5>2, <5>3
          <6>2. \A r \in Seq(Group) : Len(r) >= 1 => r # << >>
            OBVIOUS
          <6>3. QED
            BY <6>1, <6>2
        <5>6. QED
          BY <5>4, <5>5 DEF q
      <4>11. UpgradeNext(l, First(l).entries \ {t}, Tail(chain[l]))
        BY <4>4, <4>7, <4>9, <4>10 DEF UpgradeNext, First
      <4>12. QED
        BY <2>4, <4>11
    <3>7. QED
      BY <3>4, <3>5, <3>6 DEF FairInv
  <2>5. QED
    BY <1>1, <1>3, <2>3, <2>4, UnlockChain
<1>4. QED
  BY <1>2, <1>3 DEF LockUnlock

\* FairInv holds of locks that nobody has asked for.
LEMMA LockInitFair ==
  ASSUME LockInit
  PROVE  FairInv
<1>1. \A l \in Locks : DOMAIN chain[l] = {}
  BY DEF LockInit
<1>2. QED
  BY <1>1 DEF FairInv, ExclusiveTold, UpgradesSecond, UpgradeSeen

\* Whom x is ahead of in a chain q.
InLine(q, x, t) ==
  \E j, k \in DOMAIN q : j < k /\ x \in q[j].entries /\ t \in q[k].entries

\* Whom a call has to outwait is in line before it.
LEMMA AheadInLine ==
  ASSUME ChainInv, NEW w \in waiting
  PROVE  \A x : x \in Ahead(w) <=> InLine(chain[w.lock], x, w.tx)
<1>1. w.lock \in Locks
  BY WaiterType DEF ChainInv
<1>2. PICK q : q = chain[w.lock]
  OBVIOUS
<1>3. q \in Seq(Group)
  BY <1>1, <1>2 DEF ChainInv, LockInv, TypeOK
<1>4. DOMAIN q \subseteq Nat \ {0} /\ Len(q) \in Nat /\ DOMAIN q = 1 .. Len(q)
  BY <1>3
<1>5. /\ \E i \in DOMAIN q : w.tx \in q[i].entries
      /\ \A j, k \in DOMAIN q :
           j < k => \A s \in q[j].entries \cap q[k].entries : j = 1
  BY <1>1, <1>2 DEF ChainInv, SleepersHaveGroups, SleepsAt, TwiceForUpgrade
<1>6. PICK k : LastPlace(q, w.tx, k)
  BY <1>4, <1>5, LastPlaceExists
<1>7. Ahead(w) = UNION {q[j].entries : j \in 1 .. k - 1}
  <2>1. Ahead(w) = AheadIn(q, w.tx)
    BY <1>2 DEF Ahead, AheadIn
  <2>2. DOMAIN q \subseteq Nat
    BY <1>4
  <2>3. QED
    BY <1>6, <2>1, <2>2, AheadOfLastPlace
<1>8. /\ k \in DOMAIN q /\ k \in Nat /\ w.tx \in q[k].entries
      /\ \A j \in DOMAIN q : w.tx \in q[j].entries => j <= k
  BY <1>4, <1>6 DEF LastPlace
<1>9. ASSUME NEW x, NEW j \in 1 .. k - 1, x \in q[j].entries
      PROVE  InLine(q, x, w.tx)
  <2>1. j < k /\ j \in DOMAIN q
    BY <1>4, <1>8
  <2>2. QED
    BY <1>8, <1>9, <2>1 DEF InLine
<1>10. ASSUME NEW x, InLine(q, x, w.tx)
       PROVE  \E j \in 1 .. k - 1 : x \in q[j].entries
  <2>1. PICK i \in DOMAIN q, j \in DOMAIN q :
               i < j /\ x \in q[i].entries /\ w.tx \in q[j].entries
    BY <1>10 DEF InLine
  <2>2. i \in Nat /\ i >= 1 /\ j \in Nat /\ j <= k
    BY <1>4, <1>8, <2>1
  <2>3. i \in 1 .. k - 1
    BY <1>8, <2>1, <2>2
  <2>4. QED
    BY <2>1, <2>3
<1>11. QED
  BY <1>2, <1>7, <1>9, <1>10

\* A sleeper behind the first group has somebody of it ahead.
LEMMA FairImpliesNoLostWakeup ==
  ASSUME ChainInv, FairInv
  PROVE  NoLostWakeup
<1> SUFFICES ASSUME NEW w \in waiting, Ahead(w) \subseteq {w.tx}
             PROVE  1 \in DOMAIN chain[w.lock] /\ SleepsAt(w, 1)
  BY DEF NoLostWakeup
<1>1. PICK k \in DOMAIN chain[w.lock] : SleepsAt(w, k)
  BY DEF ChainInv, SleepersHaveGroups
<1>2. w.lock \in Locks
  BY WaiterType DEF ChainInv
<1>3. k \in Nat /\ k >= 1 /\ 1 \in DOMAIN chain[w.lock]
  BY <1>1, <1>2, PositionType DEF ChainInv
<1>4. CASE k > 1
  <2>1. w.tx \in chain[w.lock][k].entries
    BY <1>1 DEF SleepsAt
  <2>2. chain[w.lock][1].entries \subseteq {w.tx}
    <3>1. ASSUME NEW x \in chain[w.lock][1].entries
          PROVE  x \in Ahead(w)
      <4>1. InLine(chain[w.lock], x, w.tx)
        BY <1>3, <1>4, <2>1 DEF InLine
      <4>2. QED
        BY <4>1, AheadInLine
    <3>2. QED
      BY <3>1
  <2>3. chain[w.lock][1].entries = {w.tx}
    BY <1>2, <1>3, <2>2 DEF ChainInv, LockInv, GroupsWellFormed
  <2>4. w.tx \in chain[w.lock][1].entries \cap chain[w.lock][k].entries /\ 1 < k
    BY <1>4, <2>1, <2>3
  <2>5. k = 2 /\ chain[w.lock][k].mode = "exclusive"
    BY <1>2, <1>3, <2>4 DEF FairInv, UpgradesSecond, ChainInv, TwiceForUpgrade
  <2>6. chain[w.lock][2].entries = {w.tx}
    BY <1>2, <2>1, <2>5 DEF ChainInv, LockInv, GroupsWellFormed
  <2>7. QED
    BY <1>2, <2>3, <2>5, <2>6 DEF FairInv, UpgradeSeen, First
<1>5. QED
  <2>1. CASE k = 1
    BY <1>1, <1>3, <2>1
  <2>2. QED
    BY <1>3, <1>4, <2>1

\* Whom a transaction has to outwait, in terms of the chain it sleeps on.
LineOf ==
  /\ AheadOf \in [Cid -> SUBSET Cid]
  /\ \A w \in waiting : \A x :
       x \in AheadOf[w.tx] <=> x # w.tx /\ InLine(chain[w.lock], x, w.tx)
  /\ \A t \in Cid : ~IsWaiting(t) => AheadOf[t] = {}

\* AheadOf is what it is meant to be.
LEMMA LineOfAhead == ChainInv => LineOf
<1> SUFFICES ASSUME ChainInv
             PROVE  LineOf
  OBVIOUS
<1>1. AheadOf = [t \in Cid |->
        UNION {Ahead(w) \ {t} : w \in {v \in waiting : v.tx = t}}]
  BY DEF AheadOf
<1>2. ASSUME NEW t \in Cid
      PROVE  \A x : x \in AheadOf[t] <=>
               \E w \in waiting : w.tx = t /\ x # t /\ x \in Ahead(w)
  BY <1>1
<1>3. \A t \in Cid : ~IsWaiting(t) => AheadOf[t] = {}
  BY <1>2 DEF IsWaiting
<1>4. ASSUME NEW w \in waiting, NEW x
      PROVE  x \in AheadOf[w.tx] <=> x # w.tx /\ InLine(chain[w.lock], x, w.tx)
  <2>1. w.tx \in Cid
    BY WaiterType DEF ChainInv
  <2>2. x \in AheadOf[w.tx] <=> x # w.tx /\ x \in Ahead(w)
    BY <1>2, <2>1 DEF ChainInv, OneCallEach
  <2>3. QED
    BY <2>2, AheadInLine
<1>5. \A t \in Cid : AheadOf[t] \subseteq Cid
  <2> SUFFICES ASSUME NEW t \in Cid, NEW x \in AheadOf[t]
               PROVE  x \in Cid
    OBVIOUS
  <2>1. PICK w \in waiting : w.tx = t
    BY <1>2
  <2>2. InLine(chain[w.lock], x, w.tx)
    BY <1>4, <2>1
  <2>3. w.lock \in Locks
    BY WaiterType DEF ChainInv
  <2>4. QED
    BY <2>2, <2>3, PositionType DEF ChainInv, InLine
<1>6. AheadOf \in [Cid -> SUBSET Cid]
  <2>1. /\ AheadOf = [t \in Cid |-> AheadOf[t]]
    BY <1>1
  <2>2. QED
    BY <1>5, <2>1
<1>7. QED
  BY <1>3, <1>4, <1>6 DEF LineOf

LEMMA LineOfAheadNext == ChainInv' => LineOf'
  BY LineOfAhead, PTL

\* Who is in a chain: who has been told, and who sleeps.
LEMMA Members ==
  ASSUME ChainInv, NEW l \in Locks, NEW s \in Cid
  PROVE  (\E k \in DOMAIN chain[l] : s \in chain[l][k].entries) <=>
           held[s][l] # "none" \/ \E w \in waiting : w.tx = s /\ w.lock = l
<1>1. ASSUME NEW k \in DOMAIN chain[l], s \in chain[l][k].entries, ~(k > 1)
      PROVE  held[s][l] # "none" \/ \E w \in waiting : w.tx = s /\ w.lock = l
  <2>1. k = 1 /\ chain[l] # << >>
    BY <1>1, PositionType DEF ChainInv
  <2>2. QED
    BY <1>1, <2>1 DEF ChainInv, HoldersTold, First
<1>2. ASSUME NEW k \in DOMAIN chain[l], s \in chain[l][k].entries, k > 1
      PROVE  \E w \in waiting : w.tx = s /\ w.lock = l
  BY <1>2 DEF ChainInv, GroupsHaveSleepers
<1>3. ASSUME held[s][l] # "none"
      PROVE  \E k \in DOMAIN chain[l] : s \in chain[l][k].entries
  <2>1. chain[l] # << >> /\ s \in chain[l][1].entries
    BY <1>3 DEF ChainInv, LockInv, HolderInFirstGroup, First
  <2>2. 1 \in DOMAIN chain[l]
    BY <2>1, ChainType DEF ChainInv, LockInv
  <2>3. QED
    BY <2>1, <2>2
<1>4. ASSUME NEW w \in waiting, w.tx = s, w.lock = l
      PROVE  \E k \in DOMAIN chain[l] : s \in chain[l][k].entries
  BY <1>4 DEF ChainInv, SleepersHaveGroups, SleepsAt
<1>5. QED
  BY <1>1, <1>2, <1>3, <1>4

-----------------------------------------------------------------------------
(* What the steps do to the lines.                                         *)

\* Groups that stay keep everybody in line.
LEMMA StayLines ==
  ASSUME GroupsStay, NEW x \in Locks, NEW y, NEW s
  PROVE  InLine(chain'[x], y, s) <=> InLine(chain[x], y, s)
  BY DEF GroupsStay, SameGroup, InLine

\* Who joins the last group gets in line behind all groups before it.
LEMMA JoinedLines ==
  ASSUME NEW t, NEW l \in Locks, NEW n, GroupJoined(t, l, n),
         \A k \in DOMAIN chain[l] : t \in chain[l][k].entries => k = 1
  PROVE  /\ \A x \in Locks : \A y, s : s # t =>
              (InLine(chain'[x], y, s) <=> InLine(chain[x], y, s))
         /\ \A y : y # t =>
              (InLine(chain'[l], y, t) <=>
                 \E j \in 1 .. n - 1 : y \in chain[l][j].entries)
<1>1. /\ n \in Nat \ {0} /\ DOMAIN chain[l] = 1 .. n
      /\ \A x \in Locks : DOMAIN chain'[x] = DOMAIN chain[x]
      /\ chain'[l][n].entries = chain[l][n].entries \cup {t}
  BY DEF GroupJoined
<1>2. \A x \in Locks : \A k \in DOMAIN chain[x] :
        x # l \/ k # n => chain'[x][k].entries = chain[x][k].entries
  BY DEF GroupJoined, SameGroup
<1>3. \A j, k \in DOMAIN chain[l] : j < k => j # n
  BY <1>1
<1>4. ASSUME NEW x \in Locks, NEW y, NEW s, s # t
      PROVE  InLine(chain'[x], y, s) <=> InLine(chain[x], y, s)
  <2>1. \A k \in DOMAIN chain[x] :
          s \in chain'[x][k].entries <=> s \in chain[x][k].entries
    BY <1>1, <1>2, <1>4
  <2>2. \A j, k \in DOMAIN chain[x] : j < k =>
          chain'[x][j].entries = chain[x][j].entries
    BY <1>2, <1>3
  <2>3. QED
    BY <1>1, <2>1, <2>2 DEF InLine
<1>5. ASSUME NEW y, InLine(chain'[l], y, t)
      PROVE  \E j \in 1 .. n - 1 : y \in chain[l][j].entries
  <2>1. PICK j \in DOMAIN chain[l], k \in DOMAIN chain[l] :
               j < k /\ y \in chain'[l][j].entries
    BY <1>1, <1>5 DEF InLine
  <2>2. j \in 1 .. n - 1 /\ j # n
    BY <1>1, <2>1
  <2>3. QED
    BY <1>2, <2>1, <2>2
<1>6. ASSUME NEW y, NEW j \in 1 .. n - 1, y \in chain[l][j].entries
      PROVE  InLine(chain'[l], y, t)
  <2>1. j \in DOMAIN chain'[l] /\ n \in DOMAIN chain'[l] /\ j < n /\ j # n
        /\ j \in DOMAIN chain[l]
    BY <1>1
  <2>2. y \in chain'[l][j].entries /\ t \in chain'[l][n].entries
    BY <1>1, <1>2, <1>6, <2>1
  <2>3. QED
    BY <2>1, <2>2 DEF InLine
<1>7. QED
  BY <1>4, <1>5, <1>6

\* Who adds a group gets in line behind everybody.
LEMMA AddedLines ==
  ASSUME NEW t, NEW l \in Locks, NEW m, NEW n, GroupAdded(t, l, m, n)
  PROVE  /\ \A x \in Locks : \A y, s : s # t =>
              (InLine(chain'[x], y, s) <=> InLine(chain[x], y, s))
         /\ \A y : InLine(chain'[l], y, t) <=>
                     \E j \in DOMAIN chain[l] : y \in chain[l][j].entries
<1>1. /\ n \in Nat /\ DOMAIN chain[l] = 1 .. n /\ DOMAIN chain'[l] = 1 .. n + 1
      /\ \A x \in Locks : x # l => DOMAIN chain'[x] = DOMAIN chain[x]
      /\ chain'[l][n + 1].entries = {t}
      /\ \A x \in Locks : \A k \in DOMAIN chain[x] :
           chain'[x][k].entries = chain[x][k].entries
  BY DEF GroupAdded, SameGroup
<1>2. \A j, k \in DOMAIN chain'[l] : j < k => j \in DOMAIN chain[l]
  BY <1>1
<1>3. \A k \in DOMAIN chain'[l] : k # n + 1 => k \in DOMAIN chain[l]
  BY <1>1
<1>4. n + 1 \in DOMAIN chain'[l] /\ \A j \in DOMAIN chain[l] : j < n + 1
  BY <1>1
<1>5. \A k \in DOMAIN chain[l] : k \in DOMAIN chain'[l]
  BY <1>1
<1>6. ASSUME NEW y, NEW s, s # t
      PROVE  InLine(chain'[l], y, s) <=> InLine(chain[l], y, s)
  <2>1. \A k \in DOMAIN chain'[l] : s \in chain'[l][k].entries => k \in DOMAIN chain[l]
    BY <1>1, <1>3, <1>6
  <2>2. QED
    BY <1>1, <1>2, <1>5, <2>1 DEF InLine
<1>7. \A x \in Locks : \A y, s : x # l =>
        (InLine(chain'[x], y, s) <=> InLine(chain[x], y, s))
  BY <1>1 DEF InLine
<1>8. ASSUME NEW y
      PROVE  InLine(chain'[l], y, t) <=>
               \E j \in DOMAIN chain[l] : y \in chain[l][j].entries
  <2>1. ASSUME NEW j \in DOMAIN chain[l], y \in chain[l][j].entries
        PROVE  InLine(chain'[l], y, t)
    <3>1. /\ j \in DOMAIN chain'[l] /\ n + 1 \in DOMAIN chain'[l] /\ j < n + 1
          /\ y \in chain'[l][j].entries /\ t \in chain'[l][n + 1].entries
      BY <1>1, <1>4, <1>5, <2>1
    <3>2. QED
      BY <3>1 DEF InLine
  <2>2. ASSUME InLine(chain'[l], y, t)
        PROVE  \E j \in DOMAIN chain[l] : y \in chain[l][j].entries
    BY <1>1, <1>2, <2>2 DEF InLine
  <2>3. QED
    BY <2>1, <2>2
<1>9. QED
  BY <1>6, <1>7, <1>8

\* Two who are in line in other groups than the i-th stay in line.
LEMMA GoneLines ==
  ASSUME NEW l \in Locks, NEW i, NEW n, GroupGone(l, i, n), NEW y, NEW s
  PROVE  InLine(chain'[l], y, s) <=>
           \E j, k \in DOMAIN chain[l] :
             /\ j < k /\ j # i /\ k # i
             /\ y \in chain[l][j].entries /\ s \in chain[l][k].entries
<1> DEFINE f(k) == IF k < i THEN k ELSE k + 1
           g(k) == IF k < i THEN k ELSE k - 1
<1>1. /\ n \in Nat /\ i \in 1 .. n
      /\ DOMAIN chain[l] = 1 .. n /\ DOMAIN chain'[l] = 1 .. n - 1
      /\ \A k \in 1 .. n - 1 : chain'[l][k] = chain[l][f(k)]
  BY DEF GroupGone
<1>2. \A k \in 1 .. n - 1 : f(k) \in 1 .. n /\ f(k) # i
  BY <1>1
<1>3. \A j, k \in 1 .. n - 1 : j < k => f(j) < f(k)
  BY <1>1
<1>4. \A k \in 1 .. n : k # i => g(k) \in 1 .. n - 1 /\ f(g(k)) = k
  BY <1>1
<1>5. \A j, k \in 1 .. n : j # i /\ k # i /\ j < k => g(j) < g(k)
  BY <1>1
<1> HIDE DEF f, g
<1>6. ASSUME InLine(chain'[l], y, s)
      PROVE  \E j, k \in DOMAIN chain[l] :
               /\ j < k /\ j # i /\ k # i
               /\ y \in chain[l][j].entries /\ s \in chain[l][k].entries
  <2>1. PICK j \in 1 .. n - 1, k \in 1 .. n - 1 :
               j < k /\ y \in chain'[l][j].entries /\ s \in chain'[l][k].entries
    BY <1>1, <1>6 DEF InLine
  <2>2. /\ f(j) \in 1 .. n /\ f(k) \in 1 .. n /\ f(j) < f(k) /\ f(j) # i /\ f(k) # i
        /\ y \in chain[l][f(j)].entries /\ s \in chain[l][f(k)].entries
    BY <1>1, <1>2, <1>3, <2>1
  <2>3. QED
    BY <1>1, <2>2
<1>7. ASSUME NEW j \in 1 .. n, NEW k \in 1 .. n, j < k, j # i, k # i,
             y \in chain[l][j].entries, s \in chain[l][k].entries
      PROVE  InLine(chain'[l], y, s)
  <2>1. /\ g(j) \in 1 .. n - 1 /\ g(k) \in 1 .. n - 1 /\ g(j) < g(k)
        /\ f(g(j)) = j /\ f(g(k)) = k
    BY <1>4, <1>5, <1>7
  <2>2. y \in chain'[l][g(j)].entries /\ s \in chain'[l][g(k)].entries
    BY <1>1, <1>7, <2>1
  <2>3. QED
    BY <1>1, <2>1, <2>2 DEF InLine
<1>8. QED
  BY <1>1, <1>6, <1>7

-----------------------------------------------------------------------------
(* Each step is one of the abstract lock, or none.                         *)

\* The requests of the abstract lock are the sleeping calls.
LEMMA AskedAre ==
  ASSUME NEW s, NEW x
  PROVE  /\ (\E r \in Asked : r.tx = s /\ r.lock = x) <=>
              \E w \in waiting : w.tx = s /\ w.lock = x
         /\ \A m : (\E r \in Asked : r.tx = s /\ r.lock = x /\ Fair!Conflict(r.mode, m)) <=>
              \E w \in waiting : w.tx = s /\ w.lock = x /\ Fair!Conflict(w.mode, m)
         /\ Fair!Idle(s) <=> ~IsWaiting(s)
<1>1. \A w \in waiting : /\ Request(w) \in Asked /\ Request(w).tx = w.tx
                         /\ Request(w).lock = w.lock /\ Request(w).mode = w.mode
  BY DEF Asked, Request
<1>2. \A r \in Asked : \E w \in waiting : r = Request(w)
  BY DEF Asked
<1>3. QED
  BY <1>1, <1>2 DEF Fair!Idle, IsWaiting

\* One more call sleeps.
LEMMA AskedMore ==
  ASSUME NEW t, NEW l, NEW m, NEW r,
         waiting' = waiting \cup {[tx |-> t, lock |-> l, mode |-> m, role |-> r]}
  PROVE  Asked' = Asked \cup {[tx |-> t, lock |-> l, mode |-> m]}
<1>1. PICK v : v = [tx |-> t, lock |-> l, mode |-> m, role |-> r]
  OBVIOUS
<1>2. Request(v) = [tx |-> t, lock |-> l, mode |-> m]
  BY <1>1 DEF Request
<1>3. Asked' = {Request(w) : w \in waiting \cup {v}}
  BY <1>1 DEF Asked, Request
<1>4. Asked' = Asked \cup {Request(v)}
  BY <1>3 DEF Asked
<1>5. QED
  BY <1>2, <1>4

\* One call less sleeps.
LEMMA AskedLess ==
  ASSUME ChainInv, NEW w \in waiting, waiting' = waiting \ {w}
  PROVE  Asked' = Asked \ {Request(w)}
<1>1. \A v \in waiting : v # w => Request(v) # Request(w)
  BY DEF ChainInv, OneCallEach, Request
<1>2. Asked' = {Request(v) : v \in waiting \ {w}}
  BY DEF Asked, Request
<1>3. QED
  BY <1>1, <1>2 DEF Asked

LEMMA SameAsked ==
  ASSUME UNCHANGED waiting
  PROVE  UNCHANGED Asked
  BY DEF Asked, Request

\* The lines of everybody but t stay as they are.
LEMMA SameAhead ==
  ASSUME ChainInv, ChainInv', NEW s \in Cid,
         \A w \in waiting : w.tx = s => w \in waiting',
         \A w \in waiting' : w.tx = s => w \in waiting,
         \A w \in waiting : w.tx = s => \A y :
           InLine(chain'[w.lock], y, s) <=> InLine(chain[w.lock], y, s)
  PROVE  AheadOf'[s] = AheadOf[s]
<1>1. LineOf /\ LineOf'
  BY LineOfAhead, LineOfAheadNext
<1>2. CASE IsWaiting(s)
  <2>1. PICK w \in waiting : w.tx = s
    BY <1>2 DEF IsWaiting
  <2>2. w \in waiting'
    BY <2>1
  <2>3. \A y : y \in AheadOf[s] <=> y # s /\ InLine(chain[w.lock], y, s)
    BY <1>1, <2>1 DEF LineOf
  <2>4. \A y : y \in AheadOf'[s] <=> y # s /\ InLine(chain'[w.lock], y, s)
    BY <1>1, <2>1, <2>2 DEF LineOf
  <2>5. QED
    BY <2>1, <2>3, <2>4
<1>3. CASE ~IsWaiting(s)
  <2>1. ~IsWaiting(s)'
    BY <1>3 DEF IsWaiting
  <2>2. QED
    BY <1>1, <1>3, <2>1 DEF LineOf
<1>4. QED
  BY <1>2, <1>3

\* A step that lets no call sleep nor go on, and leaves the lines as they are.
LEMMA LinesStay ==
  ASSUME ChainInv, ChainInv', UNCHANGED waiting, NEW t, ~IsWaiting(t),
         \A x \in Locks : \A y, s : s # t =>
           (InLine(chain'[x], y, s) <=> InLine(chain[x], y, s))
  PROVE  UNCHANGED <<Asked, AheadOf>>
<1>1. LineOf /\ LineOf'
  BY LineOfAhead, LineOfAheadNext
<1>2. ASSUME NEW s \in Cid
      PROVE  AheadOf'[s] = AheadOf[s]
  <2>1. \A w \in waiting : w.tx # t /\ w.lock \in Locks
    BY WaiterType DEF ChainInv, IsWaiting
  <2>2. QED
    BY <2>1, SameAhead
<1>3. AheadOf' = AheadOf
  BY <1>1, <1>2 DEF LineOf
<1>4. QED
  BY <1>3, SameAsked

\* Who neither holds a lock nor sleeps is in none of its groups.
AwayFromChains ==
  \A l \in Locks, s \in Cid : ~IsWaiting(s) /\ held[s][l] = "none" =>
    \A k \in DOMAIN chain[l] : s \notin chain[l][k].entries

\* Who neither holds a lock nor sleeps on it is not in its chain.
LEMMA Away == ChainInv => AwayFromChains
  BY Members DEF AwayFromChains, IsWaiting

LEMMA AwayNext == ChainInv' => AwayFromChains'
  BY Away, PTL

\* The abstract lock sees nothing of the detector and the slots.
LEMMA NoChangeFairStep ==
  ASSUME UNCHANGED <<chain, waiting, held>>
  PROVE  UNCHANGED <<held, Asked, AheadOf>>
  BY DEF Asked, Request, AheadOf, Ahead

\* t takes the lock at once, as nobody is in its way.
LEMMA TakesFair ==
  ASSUME ChainInv, ChainInv', NEW t \in Cid, NEW l \in Locks, NEW m \in Modes,
         ~IsWaiting(t), UNCHANGED waiting, Taken(t, l, m),
         \A x \in Locks : \A y, s : s # t =>
           (InLine(chain'[x], y, s) <=> InLine(chain[x], y, s)),
         \/ held[t][l] \in {m, "exclusive"}
         \/ /\ \A s \in Cid \ {t} : ~Fair!Conflict(held[s][l], m)
            /\ \A w \in waiting : w.tx # t /\ w.lock = l => ~Fair!Conflict(w.mode, m)
  PROVE  Fair!Take(t, l, m)
<1>1. UNCHANGED <<Asked, AheadOf>>
  BY LinesStay
<1>2. Fair!Idle(t)
  BY AskedAre
<1>3. Fair!Give(t, l, m)
  BY DEF Taken, Fair!Give
<1>4. CASE held[t][l] \in {m, "exclusive"}
  BY <1>1, <1>2, <1>3, <1>4 DEF Fair!Take
<1>5. CASE /\ \A s \in Cid \ {t} : ~Fair!Conflict(held[s][l], m)
           /\ \A w \in waiting : w.tx # t /\ w.lock = l => ~Fair!Conflict(w.mode, m)
  <2>1. Fair!HoldersAgainst(t, l, m) = {}
    BY <1>5 DEF Fair!HoldersAgainst
  <2>2. Fair!AskersAgainst(t, l, m) = {}
    BY <1>5, AskedAre DEF Fair!AskersAgainst
  <2>3. QED
    BY <1>1, <1>2, <1>3, <2>1, <2>2 DEF Fair!Take, Fair!Against
<1>6. QED
  BY <1>4, <1>5

\* t goes to sleep behind all it is in conflict with.
LEMMA AsksFair ==
  ASSUME ChainInv, ChainInv', NEW t \in Cid, NEW l \in Locks, NEW m \in Modes,
         ~IsWaiting(t), UNCHANGED held, NEW r,
         waiting' = waiting \cup {[tx |-> t, lock |-> l, mode |-> m, role |-> r]},
         \A x \in Locks : \A y, s : s # t =>
           (InLine(chain'[x], y, s) <=> InLine(chain[x], y, s)),
         \A y : y # t /\ InLine(chain'[l], y, t) =>
           \E k \in DOMAIN chain[l] : y \in chain[l][k].entries,
         \A s \in Cid \ {t} :
           \/ Fair!Conflict(held[s][l], m)
           \/ \E w \in waiting : w.tx = s /\ w.lock = l /\ Fair!Conflict(w.mode, m)
           => InLine(chain'[l], s, t)
  PROVE  Fair!Ask(t, l, m)
<1>1. LineOf /\ LineOf'
  BY LineOfAhead, LineOfAheadNext
<1>2. Asked' = Asked \cup {[tx |-> t, lock |-> l, mode |-> m]}
  BY AskedMore
<1>3. PICK v \in waiting' : v.tx = t /\ v.lock = l
  <2>1. [tx |-> t, lock |-> l, mode |-> m, role |-> r] \in waiting'
    OBVIOUS
  <2>2. QED
    BY <2>1
<1>4. \A y : y \in AheadOf'[t] <=> y # t /\ InLine(chain'[l], y, t)
  BY <1>1, <1>3 DEF LineOf
<1>5. AheadOf'[t] \subseteq Fair!Others(t, l)
  <2> SUFFICES ASSUME NEW y \in AheadOf'[t]
               PROVE  y \in Fair!Others(t, l)
    OBVIOUS
  <2>1. y \in Cid \ {t}
    BY <1>1, <1>4 DEF LineOf
  <2>2. \E k \in DOMAIN chain[l] : y \in chain[l][k].entries
    BY <1>4
  <2>3. held[y][l] # "none" \/ \E w \in waiting : w.tx = y /\ w.lock = l
    BY <2>1, <2>2, Members
  <2>4. QED
    BY <2>1, <2>3, AskedAre DEF Fair!Others
<1>6. Fair!Against(t, l, m) \subseteq AheadOf'[t]
  <2> SUFFICES ASSUME NEW s \in Fair!Against(t, l, m)
               PROVE  s \in AheadOf'[t]
    OBVIOUS
  <2>1. s \in Cid \ {t}
    BY DEF Fair!Against, Fair!HoldersAgainst, Fair!AskersAgainst
  <2>2. \/ Fair!Conflict(held[s][l], m)
        \/ \E w \in waiting : w.tx = s /\ w.lock = l /\ Fair!Conflict(w.mode, m)
    BY AskedAre DEF Fair!Against, Fair!HoldersAgainst, Fair!AskersAgainst
  <2>3. QED
    BY <1>4, <2>1, <2>2
<1>7. ASSUME NEW s \in Cid, s # t
      PROVE  AheadOf'[s] = AheadOf[s]
  <2>1. /\ \A w \in waiting' : w.tx = s => w \in waiting
        /\ \A w \in waiting : w \in waiting'
    BY <1>7
  <2>2. \A w \in waiting : w.lock \in Locks
    BY WaiterType DEF ChainInv
  <2>3. QED
    BY <1>7, <2>1, <2>2, SameAhead
<1>8. AheadOf' = [AheadOf EXCEPT ![t] = AheadOf'[t]]
  BY <1>1, <1>7 DEF LineOf
<1>9. Fair!Idle(t)
  BY AskedAre
<1>10. QED
  BY <1>2, <1>5, <1>6, <1>8, <1>9 DEF Fair!Ask

\* Each case of lock_lock() takes, asks or stutters.
LEMMA LockFreeFairStep ==
  ASSUME ChainInv, ChainInv', NEW t \in Cid, NEW l \in Locks, NEW m \in Modes,
         ~IsWaiting(t), LockFree(t, l, m)
  PROVE  Fair!Take(t, l, m)
<1>1. /\ GroupAdded(t, l, m, 0) /\ Taken(t, l, m) /\ UNCHANGED waiting
      /\ chain[l] = << >>
  BY LockFreeGroups DEF LockFree, ChainInv
<1>2. \A x \in Locks : \A y, s : s # t =>
        (InLine(chain'[x], y, s) <=> InLine(chain[x], y, s))
  <2>1. PICK n : GroupAdded(t, l, m, n)
    BY <1>1
  <2>2. /\ \A x \in Locks : \A y, s : s # t =>
              (InLine(chain'[x], y, s) <=> InLine(chain[x], y, s))
        /\ \A y : InLine(chain'[l], y, t) <=>
                     \E j \in DOMAIN chain[l] : y \in chain[l][j].entries
    BY <2>1, AddedLines
  <2>3. QED
    BY <2>2
<1>3. DOMAIN chain[l] = {}
  BY <1>1
<1>4. \A s \in Cid \ {t} : ~Fair!Conflict(held[s][l], m)
  BY <1>3, Members DEF Fair!Conflict
<1>5. \A w \in waiting : w.lock # l
  BY <1>3 DEF ChainInv, SleepersHaveGroups
<1>6. QED
  BY <1>1, <1>2, <1>4, <1>5, TakesFair

LEMMA LockCoveredFairStep ==
  ASSUME ChainInv, ChainInv', FairInv,
         NEW t \in Cid, NEW l \in Locks, NEW m \in Modes,
         ~IsWaiting(t), LockCovered(t, l, m)
  PROVE  Fair!Take(t, l, m)
<1>1. /\ UNCHANGED <<chain, waiting>> /\ Taken(t, l, m) /\ chain[l] # << >>
      /\ t \in chain[l][1].entries /\ chain[l][1].mode \in {m, "exclusive"}
  BY DEF LockCovered, Covered, First
<1>2. \A x \in Locks : \A y, s : s # t =>
        (InLine(chain'[x], y, s) <=> InLine(chain[x], y, s))
  <2>1. GroupsStay
    BY <1>1, SameChains
  <2>2. QED
    BY <2>1, StayLines
<1>3. held[t][l] # "none" /\ held[t][l] \in Modes \cup {"none"}
  BY <1>1, AwakeIsTold DEF First, ChainInv, LockInv, TypeOK
<1>4. 1 \in DOMAIN chain[l]
  BY <1>1, ChainType DEF ChainInv, LockInv
<1>5. chain[l][1].mode = "exclusive" => held[t][l] = "exclusive"
  BY <1>1, <1>4 DEF FairInv, ExclusiveTold, First, IsWaiting
<1>6. held[t][l] \in {m, "exclusive"}
  BY <1>1, <1>3, <1>5 DEF Modes
<1>7. QED
  BY <1>1, <1>2, <1>6, TakesFair

LEMMA LockUpgradeNowFairStep ==
  ASSUME ChainInv, ChainInv', NEW t \in Cid, NEW l \in Locks, NEW m \in Modes,
         ~IsWaiting(t), LockUpgradeNow(t, l, m)
  PROVE  Fair!Take(t, l, m)
<1>1. /\ DOMAIN chain[l] = {1} /\ chain[l][1].entries = {t}
      /\ \A x \in Locks :
           /\ DOMAIN chain'[x] = DOMAIN chain[x]
           /\ \A k \in DOMAIN chain[x] :
                chain'[x][k].entries = chain[x][k].entries
      /\ Taken(t, l, m) /\ UNCHANGED waiting
  <2>1. LockInv
    BY DEF ChainInv
  <2>2. Taken(t, l, m) /\ UNCHANGED waiting
    BY DEF LockUpgradeNow
  <2>3. /\ DOMAIN chain[l] = {1}
        /\ chain[l][1].entries = {t}
        /\ \A x \in Locks :
             /\ DOMAIN chain'[x] = DOMAIN chain[x]
             /\ \A k \in DOMAIN chain[x] :
                  /\ chain'[x][k].entries = chain[x][k].entries
                  /\ x # l => SameGroup(x, k)
    BY <2>1, LockUpgradeNowGroups
  <2>4. QED
    BY <2>2, <2>3
<1>2. \A x \in Locks : \A y, s : s # t =>
        (InLine(chain'[x], y, s) <=> InLine(chain[x], y, s))
  BY <1>1 DEF InLine
<1>3. ASSUME NEW s \in Cid, s # t
      PROVE  /\ held[s][l] = "none"
             /\ ~\E w \in waiting : w.tx = s /\ w.lock = l
  BY <1>1, <1>3, Members
<1>4. \A s \in Cid \ {t} : ~Fair!Conflict(held[s][l], m)
  BY <1>3 DEF Fair!Conflict
<1>5. \A w \in waiting : ~(w.tx # t /\ w.lock = l)
  BY <1>3, WaiterType DEF ChainInv
<1>6. QED
  BY <1>1, <1>2, <1>4, <1>5, TakesFair

\* A shared request meets no conflict in a shared first group, and meets
\* only the groups ahead of it in one further back.
LEMMA LockJoinFairStep ==
  ASSUME ChainInv, ChainInv', NEW t \in Cid, NEW l \in Locks, NEW m \in Modes,
         ~IsWaiting(t), LockJoin(t, l, m)
  PROVE  Fair!Take(t, l, m) \/ Fair!Ask(t, l, m)
<1>n. PICK n : n = Len(chain[l])
  OBVIOUS
<1>1. /\ GroupJoined(t, l, n) /\ chain[l][n].mode = "shared" /\ m = "shared"
      /\ n \in Nat \ {0} /\ DOMAIN chain[l] = 1 .. n
  BY <1>n, LockJoinGroups DEF LockJoin, Last, ChainInv, GroupJoined
<1>2. \A k \in DOMAIN chain[l] : t \in chain[l][k].entries => k = 1
  BY AwakeIsFirst
<1>3. /\ \A x \in Locks : \A y, s : s # t =>
           (InLine(chain'[x], y, s) <=> InLine(chain[x], y, s))
      /\ \A y : y # t =>
           (InLine(chain'[l], y, t) <=>
              \E j \in 1 .. n - 1 : y \in chain[l][j].entries)
  BY <1>1, <1>2, JoinedLines
<1>4. ASSUME NEW s \in Cid, Fair!Conflict(held[s][l], m)
      PROVE  chain[l][1].mode = "exclusive" /\ s \in chain[l][1].entries
  <2>1. held[s][l] = "exclusive"
    BY <1>1, <1>4 DEF Fair!Conflict
  <2>2. QED
    BY <2>1 DEF ChainInv, LockInv, HolderInFirstGroup, First
<1>5. ASSUME NEW w \in waiting, w.lock = l, Fair!Conflict(w.mode, m)
      PROVE  \E k \in 1 .. n - 1 : w.tx \in chain[l][k].entries
  <2>1. w.mode = "exclusive"
    BY <1>1, <1>5 DEF Fair!Conflict
  <2>2. PICK k \in 1 .. n : SleepsAt(w, k)
    BY <1>1, <1>5 DEF ChainInv, SleepersHaveGroups
  <2>3. k # n /\ w.tx \in chain[l][k].entries
    BY <1>1, <1>5, <2>1, <2>2 DEF SleepsAt
  <2>4. k \in 1 .. n - 1
    BY <1>1, <2>2, <2>3
  <2>5. QED
    BY <2>3, <2>4
<1>6. CASE n = 1
  <2>1. Taken(t, l, m) /\ UNCHANGED waiting
    BY <1>6, <1>n DEF LockJoin
  <2>2. \A s \in Cid \ {t} : ~Fair!Conflict(held[s][l], m)
    BY <1>1, <1>4, <1>6
  <2>3. \A w \in waiting : w.lock = l => ~Fair!Conflict(w.mode, m)
    BY <1>5, <1>6
  <2>4. QED
    BY <1>3, <2>1, <2>2, <2>3, TakesFair
<1>7. CASE n # 1
  <2>1. /\ UNCHANGED held
        /\ waiting' = waiting \cup
             {[tx |-> t, lock |-> l, mode |-> m, role |-> "joiner"]}
    BY <1>7, <1>n DEF LockJoin
  <2>2. ASSUME NEW y, y # t, InLine(chain'[l], y, t)
        PROVE  \E k \in DOMAIN chain[l] : y \in chain[l][k].entries
    <3>1. PICK j \in 1 .. n - 1 : y \in chain[l][j].entries
      BY <1>3, <2>2
    <3>2. j \in DOMAIN chain[l]
      BY <1>1
    <3>3. QED
      BY <3>1, <3>2
  <2>3. ASSUME NEW s \in Cid, s # t,
               \/ Fair!Conflict(held[s][l], m)
               \/ \E w \in waiting : w.tx = s /\ w.lock = l /\ Fair!Conflict(w.mode, m)
        PROVE  InLine(chain'[l], s, t)
    <3>1. 1 \in 1 .. n - 1
      BY <1>1, <1>7
    <3>2. \E j \in 1 .. n - 1 : s \in chain[l][j].entries
      BY <1>4, <1>5, <2>3, <3>1
    <3>3. QED
      BY <1>3, <2>3, <3>2
  <2>4. QED
    BY <1>3, <2>1, <2>2, <2>3, AsksFair
<1>8. QED
  BY <1>6, <1>7

LEMMA LockQueueFairStep ==
  ASSUME ChainInv, ChainInv', NEW t \in Cid, NEW l \in Locks, NEW m \in Modes,
         ~IsWaiting(t), LockQueue(t, l, m) \/ LockQueueMark(t, l, m)
  PROVE  Fair!Ask(t, l, m)
<1>1. GroupAdded(t, l, m, Len(chain[l]))
  BY LockQueueGroups DEF ChainInv
<1>2. /\ UNCHANGED held
      /\ waiting' = waiting \cup
           {[tx |-> t, lock |-> l, mode |-> m, role |-> "creator"]}
  BY DEF LockQueue, LockQueueMark, QueueWaiter
<1>3. /\ \A x \in Locks : \A y, s : s # t =>
           (InLine(chain'[x], y, s) <=> InLine(chain[x], y, s))
      /\ \A y : InLine(chain'[l], y, t) <=>
                  \E j \in DOMAIN chain[l] : y \in chain[l][j].entries
  BY <1>1, AddedLines
<1>4. ASSUME NEW s \in Cid, s # t,
             \/ Fair!Conflict(held[s][l], m)
             \/ \E w \in waiting : w.tx = s /\ w.lock = l /\ Fair!Conflict(w.mode, m)
      PROVE  InLine(chain'[l], s, t)
  <2>1. held[s][l] # "none" \/ \E w \in waiting : w.tx = s /\ w.lock = l
    BY <1>4 DEF Fair!Conflict
  <2>2. QED
    BY <1>3, <2>1, Members
<1>5. QED
  BY <1>2, <1>3, <1>4, AsksFair

LEMMA LockLockFairStep ==
  ASSUME ChainInv, ChainInv', FairInv,
         NEW t \in Cid, NEW l \in Locks, NEW m \in Modes, LockLock(t, l, m)
  PROVE  \/ Fair!Take(t, l, m)
         \/ Fair!Ask(t, l, m)
         \/ UNCHANGED <<held, Asked, AheadOf>>
<1>1. ~IsWaiting(t)
  BY DEF LockLock
<1>2. CASE LockDeadlock(t, l, m)
  <2>1. GroupsStay /\ UNCHANGED <<waiting, held>>
    BY <1>2, LockDeadlockGroups DEF LockDeadlock, ChainInv
  <2>2. QED
    BY <1>1, <2>1, StayLines, LinesStay
<1>3. CASE UNCHANGED <<chain, waiting, held>>
  BY <1>3, NoChangeFairStep
<1>4. QED
  BY <1>1, <1>2, <1>3, LockFreeFairStep, LockCoveredFairStep, LockJoinFairStep,
     LockUpgradeNowFairStep, LockQueueFairStep
     DEF LockLock, LockStale, LockFreedTail, LockSearchFault, Crash, lockVars

\* Whoever wakes up in the first group is granted what it asked for.
LEMMA WakeTakenFairStep ==
  ASSUME ChainInv, ChainInv', NEW w \in waiting, WakeJoined(w) \/ WakeGranted(w)
  PROVE  Fair!Grant(Request(w))
<1> DEFINE t == w.tx
           l == w.lock
           m == w.mode
<1>1. /\ UNCHANGED chain /\ Taken(t, l, m) /\ waiting' = waiting \ {w}
  BY DEF WakeJoined, WakeGranted, StopWaiting
<1>2. t \in Cid /\ l \in Locks /\ m \in Modes /\ LineOf /\ LineOf'
  BY WaiterType, LineOfAhead, LineOfAheadNext DEF ChainInv
<1>3. \A k \in DOMAIN chain[l] : t \in chain[l][k].entries => k = 1
  <2>1. ASSUME NEW k \in DOMAIN chain[l], t \in chain[l][k].entries
        PROVE  k = 1
    <3>1. ~(k > 1)
      BY <1>2, <2>1, WakesFirst
    <3>2. QED
      BY <1>2, <2>1, <3>1, PositionType DEF ChainInv
  <2>2. QED
    BY <2>1
<1>4. 1 \in DOMAIN chain[l] /\ t \in chain[l][1].entries /\ chain[l][1].mode = m
  BY <1>3 DEF ChainInv, SleepersHaveGroups, SleepsAt
<1>5. Request(w) \in Asked /\ Request(w).tx = t /\ Request(w).lock = l
      /\ Request(w).mode = m
  BY DEF Asked, Request
<1>6. AheadOf[t] = {}
  <2>1. \A y : ~InLine(chain[l], y, t)
    <3> SUFFICES ASSUME NEW y, NEW j \in DOMAIN chain[l], j < 1
                 PROVE  FALSE
      BY <1>3 DEF InLine
    <3>1. QED
      BY <1>2, PositionType DEF ChainInv
  <2>2. QED
    BY <1>2, <2>1 DEF LineOf
<1>7. ASSUME NEW s \in Cid, s # t
      PROVE  ~Fair!Conflict(held[s][l], m)
  <2>1. SUFFICES ASSUME Fair!Conflict(held[s][l], m)
                 PROVE  FALSE
    OBVIOUS
  <2>2. /\ s \in chain[l][1].entries
        /\ held[s][l] = "exclusive" => chain[l][1].mode = "exclusive"
    BY <1>2, <2>1 DEF Fair!Conflict, ChainInv, LockInv, HolderInFirstGroup, First
  <2>3. chain[l][1].mode = "exclusive"
    BY <1>4, <2>1, <2>2 DEF Fair!Conflict
  <2>4. QED
    BY <1>2, <1>4, <1>7, <2>2, <2>3 DEF ChainInv, LockInv, GroupsWellFormed
<1>8. ASSUME NEW s \in Cid
      PROVE  AheadOf'[s] = AheadOf[s]
  <2>1. CASE s = t
    <3>1. ~IsWaiting(t)'
      BY <1>1 DEF ChainInv, OneCallEach, IsWaiting
    <3>2. AheadOf'[t] = {}
      BY <1>2, <3>1 DEF LineOf
    <3>3. QED
      BY <1>6, <2>1, <3>2
  <2>2. CASE s # t
    BY <1>1, <2>2, SameAhead
  <2>3. QED
    BY <2>1, <2>2
<1>9. AheadOf' = AheadOf
  BY <1>2, <1>8 DEF LineOf
<1>10. Asked' = Asked \ {Request(w)}
  BY <1>1, AskedLess
<1>11. Fair!HoldersAgainst(t, l, m) = {}
  BY <1>7 DEF Fair!HoldersAgainst
<1>12. Fair!Give(t, l, m)
  BY <1>1 DEF Taken, Fair!Give
<1> HIDE DEF t, l, m
<1>13. QED
  BY <1>5, <1>6, <1>9, <1>10, <1>11, <1>12 DEF Fair!Grant

\* The victim of a deadlock leaves the line it waits in.
LEMMA WakeDeadlockedFairStep ==
  ASSUME ChainInv, ChainInv', FairInv, NEW w \in waiting, WakeDeadlocked(w)
  PROVE  Fair!Refuse(Request(w)) \/ UNCHANGED <<held, Asked, AheadOf>>
<1>1. CASE UNCHANGED <<chain, waiting, held>>
  BY <1>1, NoChangeFairStep
<1>2. ASSUME NEW i \in DOMAIN chain[w.lock], i > 1,
             w.tx \in chain[w.lock][i].slots,
             chain[w.lock][i].entries = {w.tx},
             GroupGone(w.lock, i, Len(chain[w.lock])),
             StopWaiting(w), UNCHANGED held
      PROVE  Fair!Refuse(Request(w))
  <2>1. PICK t \in Cid, l \in Locks : t = w.tx /\ l = w.lock
    BY WaiterType DEF ChainInv
  <2>2. waiting' = waiting \ {w} /\ LineOf /\ LineOf'
    BY <1>2, LineOfAhead, LineOfAheadNext DEF StopWaiting
  <2>3. Request(w) \in Asked /\ Request(w).tx = t /\ Request(w).lock = l
    BY <2>1 DEF Asked, Request
  <2>4. Asked' = Asked \ {Request(w)}
    BY <2>2, AskedLess
  <2>5. AheadOf[t] # {}
    <3>1. SUFFICES ASSUME AheadOf[t] = {}
                   PROVE  FALSE
      OBVIOUS
    <3>2. Ahead(w) \subseteq {w.tx}
      BY <2>1, <2>2, <3>1, AheadInLine DEF LineOf
    <3>3. 1 \in DOMAIN chain[l] /\ SleepsAt(w, 1)
      BY <2>1, <3>2, FairImpliesNoLostWakeup DEF NoLostWakeup
    <3>4. SleepsAt(w, i)
      BY <1>2, <2>1, SleepsBehind
    <3>5. t \in chain[l][1].slots \cap chain[l][i].slots
      BY <1>2, <2>1, <3>3, <3>4 DEF SleepsAt
    <3>6. 1 = i
      BY <1>2, <2>1, <3>3, <3>5 DEF ChainInv, OneSlotEach
    <3>7. QED
      BY <1>2, <3>6
  <2>6. ASSUME NEW x \in Locks, NEW y, NEW s, s # t, x # l
        PROVE  InLine(chain'[x], y, s) <=> InLine(chain[x], y, s)
    BY <1>2, <2>1, <2>6 DEF GroupGone
  <2>7. ASSUME NEW y, NEW s, s # t, y # t \/ held[t][l] # "none"
        PROVE  InLine(chain'[l], y, s) <=> InLine(chain[l], y, s)
    <3>1. InLine(chain'[l], y, s) <=>
            \E j, k \in DOMAIN chain[l] :
              /\ j < k /\ j # i /\ k # i
              /\ y \in chain[l][j].entries /\ s \in chain[l][k].entries
      <4>1. PICK n : GroupGone(l, i, n)
        BY <1>2, <2>1
      <4>2. QED
        BY <4>1, GoneLines
    <3>2. ASSUME NEW j \in DOMAIN chain[l], NEW k \in DOMAIN chain[l], j < k,
                 y \in chain[l][j].entries, s \in chain[l][k].entries
          PROVE  \E j2 \in DOMAIN chain[l] :
                   j2 < k /\ j2 # i /\ k # i /\ y \in chain[l][j2].entries
      <4>1. k # i
        BY <1>2, <2>1, <2>7, <3>2
      <4>2. CASE j # i
        BY <3>2, <4>1, <4>2
      <4>3. CASE j = i
        <5>1. y = t /\ held[t][l] # "none"
          BY <1>2, <2>1, <2>7, <3>2, <4>3
        <5>2. y \in chain[l][1].entries
          BY <5>1 DEF ChainInv, LockInv, HolderInFirstGroup, First
        <5>3. 1 \in DOMAIN chain[l] /\ 1 # i /\ i \in Nat /\ k \in Nat
          BY <1>2, <2>1, PositionType DEF ChainInv
        <5>4. 1 < k
          BY <1>2, <3>2, <4>3, <5>3
        <5>5. QED
          BY <4>1, <5>2, <5>3, <5>4
      <4>4. QED
        BY <4>2, <4>3
    <3>3. InLine(chain[l], y, s) <=>
            \E j, k \in DOMAIN chain[l] :
              j < k /\ y \in chain[l][j].entries /\ s \in chain[l][k].entries
      BY DEF InLine
    <3>4. QED
      BY <3>1, <3>2, <3>3
  <2>8. ASSUME NEW s, s # t, held[t][l] = "none"
        PROVE  ~InLine(chain'[l], t, s)
    <3>1. ~IsWaiting(t)'
      BY <2>1, <2>2 DEF ChainInv, OneCallEach, IsWaiting
    <3>2. held'[t][l] = "none"
      BY <1>2, <2>8
    <3>3. \A k \in DOMAIN chain'[l] : t \notin chain'[l][k].entries
      BY <2>1, <3>1, <3>2, AwayNext DEF AwayFromChains
    <3>4. QED
      BY <3>3 DEF InLine
  <2>9. AheadOf'[t] = {}
    <3>1. ~IsWaiting(t)'
      BY <2>1, <2>2 DEF ChainInv, OneCallEach, IsWaiting
    <3>2. QED
      BY <2>2, <3>1 DEF LineOf
  <2>10. ASSUME NEW s \in Cid, s # t
         PROVE  AheadOf'[s] = IF /\ held[t][l] = "none"
                                 /\ \E r \in Asked : r.tx = s /\ r.lock = l
                              THEN AheadOf[s] \ {t} ELSE AheadOf[s]
    <3>1. \A v \in waiting : v.tx = s => v \in waiting' /\ v.lock \in Locks
      BY <2>1, <2>2, <2>10, WaiterType DEF ChainInv
    <3>2. \A v \in waiting' : v.tx = s => v \in waiting
      BY <2>2
    <3>3. (\E r \in Asked : r.tx = s /\ r.lock = l) <=>
            \E v \in waiting : v.tx = s /\ v.lock = l
      BY AskedAre
    <3>4. CASE held[t][l] = "none" /\ \E v \in waiting : v.tx = s /\ v.lock = l
      <4>1. PICK v \in waiting : v.tx = s /\ v.lock = l
        BY <3>4
      <4>2. \A y : y \in AheadOf[s] <=> y # s /\ InLine(chain[l], y, s)
        BY <2>2, <4>1 DEF LineOf
      <4>3. \A y : y \in AheadOf'[s] <=> y # s /\ InLine(chain'[l], y, s)
        BY <2>2, <3>1, <4>1 DEF LineOf
      <4>4. \A y : y \in AheadOf'[s] <=> y \in AheadOf[s] /\ y # t
        BY <2>7, <2>8, <2>10, <3>4, <4>2, <4>3
      <4>5. QED
        BY <3>3, <3>4, <4>4
    <3>5. CASE ~(held[t][l] = "none" /\ \E v \in waiting : v.tx = s /\ v.lock = l)
      <4>1. \A v \in waiting : v.tx = s => \A y :
              InLine(chain'[v.lock], y, s) <=> InLine(chain[v.lock], y, s)
        BY <2>6, <2>7, <2>10, <3>1, <3>5
      <4>2. AheadOf'[s] = AheadOf[s]
        BY <3>1, <3>2, <4>1, SameAhead
      <4>3. QED
        BY <3>3, <3>5, <4>2
    <3>6. QED
      BY <3>4, <3>5
  <2>11. AheadOf' = [IF held[t][l] = "none" THEN Fair!Leaves(t, l) ELSE AheadOf
                       EXCEPT ![t] = {}]
    <3>1. AheadOf \in [Cid -> SUBSET Cid] /\ AheadOf' \in [Cid -> SUBSET Cid]
      BY <2>2 DEF LineOf
    <3>2. CASE held[t][l] = "none"
      BY <2>9, <2>10, <3>1, <3>2 DEF Fair!Leaves
    <3>3. CASE held[t][l] # "none"
      BY <2>9, <2>10, <3>1, <3>3
    <3>4. QED
      BY <3>2, <3>3
  <2>12. QED
    BY <1>2, <2>3, <2>4, <2>5, <2>11 DEF Fair!Refuse
<1>3. QED
  BY <1>1, <1>2, WakeDeadlockedGroups DEF ChainInv

LEMMA LockWakeFairStep ==
  ASSUME ChainInv, ChainInv', FairInv, NEW t \in Cid, LockWake(t)
  PROVE  \/ \E r \in Asked : Fair!Grant(r) \/ Fair!Refuse(r)
         \/ UNCHANGED <<held, Asked, AheadOf>>
<1>1. PICK w \in waiting : Wake(w)
  BY DEF LockWake
<1>2. Request(w) \in Asked
  BY DEF Asked
<1>3. QED
  BY <1>1, <1>2, WakeTakenFairStep, WakeDeadlockedFairStep DEF Wake

LEMMA LockUnlockFairStep ==
  ASSUME ChainInv, ChainInv', NEW t \in Cid, NEW l \in Locks, LockUnlock(t, l)
  PROVE  \/ Fair!Release(t, l)
         \/ UNCHANGED <<held, Asked, AheadOf>>
<1>1. CASE UnlockNotHeld(t, l)
  BY <1>1, NoChangeFairStep DEF UnlockNotHeld, lockVars
<1>2. CASE UnlockHeld(t, l)
  <2>1. /\ UNCHANGED waiting /\ held' = [held EXCEPT ![t][l] = "none"]
        /\ ~IsWaiting(t) /\ chain[l] # << >> /\ t \in First(l).entries
        /\ LineOf /\ LineOf'
    BY <1>2, LineOfAhead, LineOfAheadNext DEF UnlockHeld, LockUnlock
  <2>2. held[t][l] # "none"
    BY <2>1, AwakeIsTold
  <2>3. held'[t][l] = "none" /\ ~IsWaiting(t)'
    BY <2>1 DEF ChainInv, LockInv, TypeOK, IsWaiting
  <2>4. \A k \in DOMAIN chain'[l] : t \notin chain'[l][k].entries
    BY <2>3, AwayNext DEF AwayFromChains
  <2>5. FirstGoes(t, l) \/ FirstStays(t, l)
    BY <1>2, UnlockChain DEF ChainInv
  <2>6. ASSUME NEW x \in Locks, x # l, NEW y, NEW s
        PROVE  InLine(chain'[x], y, s) <=> InLine(chain[x], y, s)
    <3>1. CASE FirstGoes(t, l)
      <4>1. chain'[x] = chain[x]
        BY <2>6, <3>1 DEF FirstGoes, ChainInv, LockInv, TypeOK
      <4>2. QED
        BY <4>1
    <3>2. CASE FirstStays(t, l)
      <4>1. /\ DOMAIN chain'[x] = DOMAIN chain[x]
            /\ \A k \in DOMAIN chain[x] : chain'[x][k].entries = chain[x][k].entries
        BY <2>6, <3>2 DEF FirstStays
      <4>2. QED
        BY <4>1 DEF InLine
    <3>3. QED
      BY <2>5, <3>1, <3>2
  <2>7. ASSUME NEW y, NEW s, s # t, y # s
        PROVE  InLine(chain'[l], y, s) <=> y # t /\ InLine(chain[l], y, s)
    <3>1. InLine(chain'[l], y, s) => y # t
      BY <2>4 DEF InLine
    <3>2. CASE FirstStays(t, l)
      <4>1. /\ DOMAIN chain'[l] = DOMAIN chain[l]
            /\ \A k \in DOMAIN chain[l] : \A z : z # t =>
                 (z \in chain'[l][k].entries <=> z \in chain[l][k].entries)
        BY <3>2 DEF FirstStays
      <4>2. y # t => (InLine(chain'[l], y, s) <=> InLine(chain[l], y, s))
        BY <2>7, <4>1 DEF InLine
      <4>3. QED
        BY <3>1, <4>2
    <3>3. CASE FirstGoes(t, l)
      <4>1. PICK n : GroupGone(l, 1, n)
        BY <3>3, FirstGoesGroups DEF ChainInv
      <4>2. InLine(chain'[l], y, s) <=>
              \E j, k \in DOMAIN chain[l] :
                /\ j < k /\ j # 1 /\ k # 1
                /\ y \in chain[l][j].entries /\ s \in chain[l][k].entries
        BY <4>1, GoneLines
      <4>3. ASSUME NEW j \in DOMAIN chain[l], NEW k \in DOMAIN chain[l], j < k,
                   y \in chain[l][j].entries, s \in chain[l][k].entries, y # t
            PROVE  \E j2 \in DOMAIN chain[l] :
                     j2 < k /\ j2 # 1 /\ k # 1 /\ y \in chain[l][j2].entries
        <5>1. j \in Nat /\ k \in Nat /\ j >= 1 /\ k # 1
          BY <4>3, PositionType DEF ChainInv
        <5>2. CASE j # 1
          BY <4>3, <5>1, <5>2
        <5>3. CASE j = 1
          <6>1. 2 \in DOMAIN chain[l] /\ y \in chain[l][2].entries
            BY <3>3, <4>3, <5>3 DEF FirstGoes, First
          <6>2. chain[l][2].mode = "exclusive"
            <7>1. y \in chain[l][j].entries \cap chain[l][2].entries /\ j < 2
              BY <4>3, <5>3, <6>1
            <7>2. QED
              BY <6>1, <7>1 DEF ChainInv, TwiceForUpgrade
          <6>3. chain[l][2].entries = {y}
            BY <6>1, <6>2 DEF ChainInv, LockInv, GroupsWellFormed
          <6>4. k # 2
            BY <2>7, <4>3, <6>3
          <6>5. k \in Nat /\ 1 < k /\ k # 2
            BY <4>3, <5>1, <5>3, <6>4
          <6>6. 2 < k
            BY <6>5
          <6>7. QED
            BY <5>1, <6>1, <6>6
        <5>4. QED
          BY <5>2, <5>3
      <4>4. InLine(chain[l], y, s) <=>
              \E j, k \in DOMAIN chain[l] :
                j < k /\ y \in chain[l][j].entries /\ s \in chain[l][k].entries
        BY DEF InLine
      <4>5. QED
        BY <3>1, <4>2, <4>3, <4>4
    <3>4. QED
      BY <2>5, <3>2, <3>3
  <2>8. ASSUME NEW s \in Cid
        PROVE  AheadOf'[s] = IF \E r \in Asked : r.tx = s /\ r.lock = l
                             THEN AheadOf[s] \ {t} ELSE AheadOf[s]
    <3>1. (\E r \in Asked : r.tx = s /\ r.lock = l) <=>
            \E v \in waiting : v.tx = s /\ v.lock = l
      BY AskedAre
    <3>2. \A v \in waiting : v.tx # t /\ v.lock \in Locks
      BY <2>1, WaiterType DEF IsWaiting, ChainInv
    <3>3. CASE \E v \in waiting : v.tx = s /\ v.lock = l
      <4>1. PICK v \in waiting : v.tx = s /\ v.lock = l
        BY <3>3
      <4>2. \A y : y \in AheadOf[s] <=> y # s /\ InLine(chain[l], y, s)
        BY <2>1, <4>1 DEF LineOf
      <4>3. \A y : y \in AheadOf'[s] <=> y # s /\ InLine(chain'[l], y, s)
        BY <2>1, <4>1 DEF LineOf
      <4>4. s # t
        BY <3>2, <4>1
      <4>5. \A y : y \in AheadOf'[s] <=> y \in AheadOf[s] /\ y # t
        BY <2>7, <4>2, <4>3, <4>4
      <4>6. QED
        BY <3>1, <3>3, <4>5
    <3>4. CASE ~\E v \in waiting : v.tx = s /\ v.lock = l
      <4>1. \A v \in waiting : v.tx = s => \A y :
              InLine(chain'[v.lock], y, s) <=> InLine(chain[v.lock], y, s)
        BY <2>6, <3>2, <3>4
      <4>2. AheadOf'[s] = AheadOf[s]
        BY <2>1, <4>1, SameAhead
      <4>3. QED
        BY <3>1, <3>4, <4>2
    <3>5. QED
      BY <3>3, <3>4
  <2>9. AheadOf' = Fair!Leaves(t, l)
    <3>1. AheadOf' \in [Cid -> SUBSET Cid]
      BY <2>1 DEF LineOf
    <3>2. QED
      BY <2>8, <3>1 DEF Fair!Leaves
  <2>10. UNCHANGED Asked /\ Fair!Idle(t)
    BY <2>1, SameAsked, AskedAre
  <2>11. QED
    BY <2>1, <2>2, <2>9, <2>10 DEF Fair!Release
<1>3. QED
  BY <1>1, <1>2 DEF LockUnlock

\* Locks that nobody has asked for are an initial state of the abstract lock.
LEMMA LockInitFairInit ==
  ASSUME LockInit
  PROVE  Fair!FairInit
<1>1. waiting = {} /\ held = [c \in Cid |-> [l \in Locks |-> "none"]]
  BY DEF LockInit
<1>2. Asked = {}
  BY <1>1 DEF Asked
<1>3. AheadOf = [t \in Cid |-> {}]
  BY <1>1 DEF AheadOf
<1>4. QED
  BY <1>1, <1>2, <1>3 DEF Fair!FairInit

\* A step in which the lock is called, a sleeper wakes up, or nothing happens
\* to the chains.
LockStep ==
  \/ \E t \in Cid, l \in Locks :
       \/ \E m \in Modes : LockLock(t, l, m)
       \/ LockUnlock(t, l)
  \/ \E t \in Cid : LockWake(t)
  \/ UNCHANGED <<chain, waiting, held>>

\* FairInv is kept by each of them.
LEMMA LockStepFair ==
  ASSUME ChainInv, ChainInv', FairInv, LockStep
  PROVE  FairInv'
<1>1. CASE UNCHANGED <<chain, waiting, held>>
  BY <1>1 DEF FairInv, ExclusiveTold, UpgradesSecond, UpgradeSeen, First
<1>2. QED
  BY <1>1, LockLockFair, LockWakeFair, LockUnlockFair DEF LockStep

\* Each step is one of the abstract lock, or none.
LEMMA LockStepFairNext ==
  ASSUME ChainInv, ChainInv', FairInv, LockStep
  PROVE  [Fair!FairNext]_Fair!fairVars
<1> SUFFICES Fair!FairNext \/ UNCHANGED <<held, Asked, AheadOf>>
  BY DEF Fair!fairVars
<1>1. CASE UNCHANGED <<chain, waiting, held>>
  BY <1>1, NoChangeFairStep
<1>2. ASSUME NEW t \in Cid, NEW l \in Locks, NEW m \in Modes, LockLock(t, l, m)
      PROVE  Fair!FairNext \/ UNCHANGED <<held, Asked, AheadOf>>
  <2>1. Fair!Take(t, l, m) \/ Fair!Ask(t, l, m) \/ UNCHANGED <<held, Asked, AheadOf>>
    BY <1>2, LockLockFairStep
  <2>2. m \in Fair!Modes
    BY DEF Modes, Fair!Modes
  <2>3. QED
    BY <2>1, <2>2 DEF Fair!FairNext
<1>3. ASSUME NEW t \in Cid, LockWake(t)
      PROVE  Fair!FairNext \/ UNCHANGED <<held, Asked, AheadOf>>
  <2>1. \/ \E r \in Asked : Fair!Grant(r) \/ Fair!Refuse(r)
        \/ UNCHANGED <<held, Asked, AheadOf>>
    BY <1>3, LockWakeFairStep
  <2>2. QED
    BY <2>1 DEF Fair!FairNext
<1>4. ASSUME NEW t \in Cid, NEW l \in Locks, LockUnlock(t, l)
      PROVE  Fair!FairNext \/ UNCHANGED <<held, Asked, AheadOf>>
  <2>1. Fair!Release(t, l) \/ UNCHANGED <<held, Asked, AheadOf>>
    BY <1>4, LockUnlockFairStep
  <2>2. QED
    BY <2>1 DEF Fair!FairNext
<1>5. QED
  BY <1>1, <1>2, <1>3, <1>4 DEF LockStep

=============================================================================

----------------------------- MODULE LockProofs -----------------------------
(***************************************************************************)
(* The lock on its own is safe and fair, for any number of transactions    *)
(* and locks.                                                              *)
(***************************************************************************)
EXTENDS LockClients, LockLemmas

LEMMA NextIsLockStep ==
  ASSUME [Next]_vars
  PROVE  LockStep
<1>1. CASE UNCHANGED vars
  BY <1>1 DEF LockStep, vars, lockVars
<1>2. CASE Next
  BY <1>2 DEF LockStep, Next, Lock1, Wake1, Unlock1
<1>3. QED
  BY <1>1, <1>2

-----------------------------------------------------------------------------
(* The theorems.                                                           *)

\* The invariant ChainInv holds in every state the lock can reach: who
\* sleeps, on which group of which chain, and who is in which group.
THEOREM ChainInvariant == Spec => []ChainInv
<1>1. Init => ChainInv
  BY AgesAssumption, LockInitChain DEF Init
<1>2. ChainInv /\ [Next]_vars => ChainInv'
  <2> SUFFICES ASSUME ChainInv, [Next]_vars
               PROVE  ChainInv'
    OBVIOUS
  <2>1. sid \in [Cid -> Nat] /\ fault \in Faults \cup {"none"}
    BY DEF ChainInv, LockInv, TypeOK
  <2>2. CASE UNCHANGED vars
    BY <2>1, <2>2, NoChangeChain DEF vars, lockVars
  <2>3. ASSUME NEW t \in Cid, NEW l \in Locks, NEW m \in Modes, Lock1(t, l, m)
        PROVE  ChainInv'
    BY <2>1, <2>3, LockLockChain DEF Lock1
  <2>4. ASSUME NEW t \in Cid, Wake1(t)
        PROVE  ChainInv'
    BY <2>1, <2>4, LockWakeChain DEF Wake1
  <2>5. ASSUME NEW t \in Cid, NEW l \in Locks, Unlock1(t, l)
        PROVE  ChainInv'
    BY <2>1, <2>5, LockUnlockChain DEF Unlock1
  <2>6. QED
    BY <2>2, <2>3, <2>4, <2>5 DEF Next
<1>3. QED
  BY <1>1, <1>2, PTL DEF Spec

\* The invariant LockInv, and with it the type invariant, holds in every
\* state the lock can reach, for any number of transactions and locks.
THEOREM LockInvariant == Spec => []LockInv
<1>1. ChainInv => LockInv
  BY DEF ChainInv
<1>2. QED
  BY <1>1, ChainInvariant, PTL

\* Every variable of the lock keeps its type, marks and slots included.
THEOREM LockTypeCorrect == Spec => []TypeOK
<1>1. LockInv => TypeOK
  BY DEF LockInv
<1>2. QED
  BY <1>1, LockInvariant, PTL

\* A transaction that lock_lock() told it holds a lock exclusively shares it
\* with nobody, whatever the interleaving of requests, grants, upgrades,
\* deadlock victims and releases.
THEOREM LockExclusion == Spec => []Exclusion
<1>1. LockInv => Exclusion
  BY LockInvImpliesExclusion
<1>2. QED
  BY <1>1, LockInvariant, PTL

\* No sleeping call is forgotten by the chain it sleeps on, and nobody is in
\* a chain who neither sleeps nor has been told that it holds the lock.
THEOREM LockSleepersQueued == Spec => []SleepersQueued
<1>1. ChainInv => SleepersQueued
  BY ChainInvImpliesQueued
<1>2. QED
  BY <1>1, ChainInvariant, PTL

\* The lock is fair: no step of anybody puts a transaction ahead of a
\* sleeping call that was not ahead of it before.
THEOREM LockNoOvertaking == Spec => NoOvertaking
<1>1. ChainInv /\ ChainInv' /\ [Next]_vars =>
        [\A w \in waiting \cap waiting' : Ahead(w)' \subseteq Ahead(w)]_vars
  <2> SUFFICES ASSUME ChainInv, ChainInv', Next,
                      NEW w \in waiting, w \in waiting'
               PROVE  Ahead(w)' \subseteq Ahead(w)
    OBVIOUS
  <2>1. ASSUME NEW t \in Cid, NEW l \in Locks, NEW m \in Modes, Lock1(t, l, m)
        PROVE  Ahead(w)' \subseteq Ahead(w)
    BY <2>1, LockLockAhead DEF Lock1
  <2>2. ASSUME NEW t \in Cid, Wake1(t)
        PROVE  Ahead(w)' \subseteq Ahead(w)
    BY <2>2, LockWakeAhead DEF Wake1
  <2>3. ASSUME NEW t \in Cid, NEW l \in Locks, Unlock1(t, l)
        PROVE  Ahead(w)' \subseteq Ahead(w)
    BY <2>3, LockUnlockAhead DEF Unlock1
  <2>4. QED
    BY <2>1, <2>2, <2>3 DEF Next
<1>2. QED
  BY <1>1, ChainInvariant, PTL DEF Spec, NoOvertaking

\* Exclusive holds are told of, an upgrade is next in line, and one that waits
\* only for itself is not left there.
THEOREM LockFairInvariant == Spec => []FairInv
<1>1. Init => FairInv
  BY LockInitFair DEF Init
<1>2. ChainInv /\ ChainInv' /\ FairInv /\ [Next]_vars => FairInv'
  BY NextIsLockStep, LockStepFair
<1>3. QED
  BY <1>1, <1>2, ChainInvariant, PTL DEF Spec

\* Whoever made the way free for a sleeping call, by a release, by waking up
\* refused or by taking the lock itself, has also put the call in the first
\* group: none is left asleep with nobody ahead of it.
THEOREM LockNoLostWakeup == Spec => []NoLostWakeup
<1>1. ChainInv /\ FairInv => NoLostWakeup
  BY FairImpliesNoLostWakeup
<1>2. QED
  BY <1>1, ChainInvariant, LockFairInvariant, PTL

\* The chain of groups, with its slots, tail inserts, upgrades and removed
\* victims, implements the fair lock of lock.h, for any number of
\* transactions and locks.
THEOREM LockImplementsFairLock == Spec => ImplementsFairLock
<1>1. Init => Fair!FairInit
  BY LockInitFairInit DEF Init
<1>2. ChainInv /\ ChainInv' /\ FairInv /\ [Next]_vars => [Fair!FairNext]_Fair!fairVars
  BY NextIsLockStep, LockStepFairNext
<1>3. QED
  BY <1>1, <1>2, ChainInvariant, LockFairInvariant, PTL
     DEF Spec, ImplementsFairLock, Fair!FairSpec

\* What FairLock promises is worth having: its steps alone, whatever they are
\* implemented by, never let an exclusive holder share a lock.
THEOREM FairLockExcludes == ImplementsFairLock => []Exclusion
<1> DEFINE FairType ==
             /\ held \in [Cid -> [Locks -> Modes \cup {"none"}]]
             /\ \A r \in Asked : r.tx \in Cid /\ r.lock \in Locks /\ r.mode \in Modes
<1>1. Fair!FairInit => FairType /\ Exclusion
  BY DEF Fair!FairInit, Exclusion
<1>2. FairType /\ Exclusion /\ [Fair!FairNext]_Fair!fairVars => FairType' /\ Exclusion'
  <2> SUFFICES ASSUME FairType, Exclusion, [Fair!FairNext]_Fair!fairVars
               PROVE  FairType' /\ Exclusion'
    OBVIOUS
  <2>1. CASE UNCHANGED Fair!fairVars
    BY <2>1 DEF Fair!fairVars, Exclusion
  <2>2. ASSUME NEW t \in Cid, NEW l \in Locks, NEW m \in Modes, Fair!Give(t, l, m),
               \/ held[t][l] \in {m, "exclusive"}
               \/ Fair!HoldersAgainst(t, l, m) = {}
        PROVE  held' \in [Cid -> [Locks -> Modes \cup {"none"}]] /\ Exclusion'
    <3>1. held' \in [Cid -> [Locks -> Modes \cup {"none"}]]
      BY <2>2 DEF Fair!Give
    <3>2. CASE held[t][l] \in {m, "exclusive"}
      <4>1. held' = held
        BY <2>2, <3>2 DEF Fair!Give
      <4>2. QED
        BY <3>1, <4>1 DEF Exclusion
    <3>3. CASE Fair!HoldersAgainst(t, l, m) = {} /\ held[t][l] # "exclusive"
      <4>1. /\ held'[t][l] = m
            /\ \A s \in Cid, x \in Locks : s # t \/ x # l => held'[s][x] = held[s][x]
        BY <2>2, <3>3 DEF Fair!Give
      <4>2. \A s \in Cid : s # t => ~Fair!Conflict(held[s][l], m)
        BY <3>3 DEF Fair!HoldersAgainst
      <4>3. \A s \in Cid : s # t =>
              /\ held[s][l] # "exclusive"
              /\ m = "exclusive" => held[s][l] = "none"
        BY <4>2 DEF Fair!Conflict, Modes
      <4>4. QED
        BY <3>1, <4>1, <4>3 DEF Exclusion
    <3>4. QED
      BY <2>2, <3>2, <3>3
  <2>3. ASSUME NEW t \in Cid, NEW l \in Locks, NEW m \in Modes, Fair!Take(t, l, m)
        PROVE  FairType' /\ Exclusion'
    BY <2>2, <2>3 DEF Fair!Take, Fair!Against
  <2>4. ASSUME NEW t \in Cid, NEW l \in Locks, NEW m \in Modes, Fair!Ask(t, l, m)
        PROVE  FairType' /\ Exclusion'
    BY <2>4 DEF Fair!Ask, Exclusion
  <2>5. ASSUME NEW t \in Cid, NEW l \in Locks, Fair!Release(t, l)
        PROVE  FairType' /\ Exclusion'
    BY <2>5 DEF Fair!Release, Exclusion
  <2>6. ASSUME NEW r \in Asked, Fair!Grant(r)
        PROVE  FairType' /\ Exclusion'
    BY <2>2, <2>6 DEF Fair!Grant
  <2>7. ASSUME NEW r \in Asked, Fair!Refuse(r)
        PROVE  FairType' /\ Exclusion'
    BY <2>7 DEF Fair!Refuse, Exclusion
  <2>8. Fair!Modes = Modes
    BY DEF Fair!Modes, Modes
  <2>9. QED
    BY <2>1, <2>3, <2>4, <2>5, <2>6, <2>7, <2>8 DEF Fair!FairNext
<1>3. QED
  BY <1>1, <1>2, PTL DEF ImplementsFairLock, Fair!FairSpec

\* Of two transactions that use any number of locks, neither sleeps without an
\* edge in the wait-for-graph to the other if it is in its way.
THEOREM LockPairInvariant ==
  ASSUME MaxTasks = 2
  PROVE  Spec => []PairInv
<1>1. Init => PairInv
  BY DEF Init, LockInit, PairInv, WaitersQueued, EdgesEntered, PairsMarked
<1>2. ChainInv /\ ChainInv' /\ PairInv /\ [Next]_vars => PairInv'
  <2> SUFFICES ASSUME ChainInv, ChainInv', PairInv, [Next]_vars
               PROVE  PairInv'
    OBVIOUS
  <2>1. CASE UNCHANGED vars
    BY <2>1, NoChangePair DEF vars, lockVars
  <2>2. ASSUME NEW t \in Cid, NEW l \in Locks, NEW m \in Modes, Lock1(t, l, m)
        PROVE  PairInv'
    BY <2>2, LockLockPair DEF Lock1
  <2>3. ASSUME NEW t \in Cid, Wake1(t)
        PROVE  PairInv'
    BY <2>3, LockWakePair DEF Wake1
  <2>4. ASSUME NEW t \in Cid, NEW l \in Locks, Unlock1(t, l)
        PROVE  PairInv'
    BY <2>4, LockUnlockPair DEF Unlock1
  <2>5. QED
    BY <2>1, <2>2, <2>3, <2>4 DEF Next
<1>3. QED
  BY <1>1, <1>2, ChainInvariant, PTL DEF Spec

\* "deadlock-detecting" (lock.h:4) is true of two transactions, whatever locks
\* they use and whichever is older: when both sleep and wait for each other,
\* one of them has been marked.
THEOREM LockTwoDetected ==
  ASSUME MaxTasks = 2
  PROVE  Spec => []NoSilentDeadlock
<1>1. ChainInv /\ PairInv => NoSilentDeadlock
  BY PairInvImpliesDetected
<1>2. QED
  BY <1>1, ChainInvariant, LockPairInvariant, PTL

=============================================================================

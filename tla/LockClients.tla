---------------------------- MODULE LockClients -----------------------------
(***************************************************************************)
(* The lock on its own, as test/check_rwlock.c uses it: MaxTasks mock      *)
(* transactions with distinct sids that take and release the locks in any  *)
(* order and mode.                                                         *)
(***************************************************************************)
EXTENDS Lock

CONSTANT Ages           \* the assignments of sids to transactions considered

ASSUME AgesAssumption == Ages \subseteq [Cid -> Nat]

Init ==
  /\ LockInit
  /\ sid \in Ages

Lock1(t, l, m) == LockLock(t, l, m) /\ UNCHANGED sid
Wake1(t) == LockWake(t) /\ UNCHANGED sid
Unlock1(t, l) == LockUnlock(t, l) /\ UNCHANGED sid

Next ==
  \E t \in Cid :
    \/ \E l \in Locks, m \in Modes : Lock1(t, l, m)
    \/ Wake1(t)
    \/ \E l \in Locks : Unlock1(t, l)

Spec == Init /\ [][Next]_vars

(***************************************************************************)
(* A call whose wait condition holds goes on: every step that makes the    *)
(* condition true broadcasts to the group, and the scheduler lets the      *)
(* thread take the latch.  A transaction that does not sleep comes to the  *)
(* end of its task, where it releases what it holds.                       *)
(***************************************************************************)
Fairness ==
  \A t \in Cid :
    /\ WF_vars(Wake1(t))
    /\ \A l \in Locks : WF_vars(Unlock1(t, l))

FairSpec == Spec /\ Fairness

=============================================================================

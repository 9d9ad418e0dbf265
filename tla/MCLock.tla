------------------------------- MODULE MCLock -------------------------------
(***************************************************************************)
(* Small instances of LockClients for TLC.                                 *)
(***************************************************************************)
EXTENDS LockClients

\* the transactions start in the order of their cids, as when the store
\* hands out both for the first time
YoungestLast == {[c \in Cid |-> c]}

\* every order
AllAges == {a \in [Cid -> 0 .. MaxTasks - 1] : \A s, t \in Cid : a[s] = a[t] => s = t}

\* the locks are interchangeable; transactions are not: the search visits
\* them in the order of their cids
LockSymmetry == Permutations(Locks)

=============================================================================

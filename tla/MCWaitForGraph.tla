--------------------------- MODULE MCWaitForGraph ---------------------------
(***************************************************************************)
(* wfg_dfs() against a definition by enumeration of the cycles, on every   *)
(* graph of MaxTasks transactions and every order of their sids.           *)
(*                                                                         *)
(* The graph grows as the lock makes it grow: lock_lock() and              *)
(* lock_unlock() set one cell of the matrix after the other, never one on  *)
(* the diagonal and never back to false.                                   *)
(***************************************************************************)
EXTENDS WaitForGraph

VARIABLES wfg, sid

Init ==
  /\ wfg = {}
  /\ sid \in [Cid -> 0 .. MaxTasks - 1]
  /\ \A x, y \in Cid : sid[x] = sid[y] => x = y

SetCell ==
  /\ \E x, y \in Cid : x # y /\ wfg' = wfg \cup {<<x, y>>}
  /\ UNCHANGED sid

Spec == Init /\ [][SetCell]_<<wfg, sid>>

-----------------------------------------------------------------------------

\* the cycles without repetition that start at c and stay within S
Cycles(c, S) ==
  LET Paths == UNION {[1 .. n -> S] : n \in 1 .. Cardinality(S)}
  IN  {p \in Paths :
         /\ p[1] = c
         /\ \A i, j \in DOMAIN p : p[i] = p[j] => i = j
         /\ \A i \in DOMAIN p :
              <<p[i], p[IF i + 1 \in DOMAIN p THEN i + 1 ELSE 1]>> \in wfg}

Nodes(p) == {p[i] : i \in DOMAIN p}

Answer(root) == WfgDfs(wfg, Cid, sid, root)

\* "the youngest by sid" (lock.c:71): the transaction to be faulted out is
\* the youngest of a cycle through the transaction that is about to wait.
VictimYoungestOfCycle ==
  \A root \in Cid : Answer(root).kind = "cycle" =>
    \E p \in Cycles(root, Cid) :
      /\ Answer(root).cid \in Nodes(p)
      /\ \A c \in Nodes(p) : sid[c] <= sid[Answer(root).cid]

\* No cycle through the transaction that is about to wait is missed.
CycleNotMissed ==
  \A root \in Cid : Answer(root).kind = "none" => Cycles(root, Cid) = {}

\* The search fails to return only where the root reaches a cycle that it is
\* not part of; in a graph that had no cycle before the root was blocked the
\* search always returns.
EndlessOnlyPastOtherCycle ==
  \A root \in Cid : Answer(root).kind = "overflow" =>
    \E c \in Cid \ {root} : Cycles(c, Cid \ {root}) # {}

=============================================================================

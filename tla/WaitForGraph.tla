---------------------------- MODULE WaitForGraph ----------------------------
(***************************************************************************)
(* The deadlock detector's search over the wait-for-graph: wfg_dfs() of    *)
(* src/src/lock.c.                                                         *)
(*                                                                         *)
(* The graph is a max_tasks * max_tasks matrix of bools indexed by         *)
(* concurrency ids (cids); here it is the set of pairs <<x, y>> whose cell *)
(* is true.  The C function keeps no visited set: it returns to its caller *)
(* only when it meets the root or runs out of successors.  A search path   *)
(* that meets a node twice without meeting the root repeats itself for     *)
(* ever, until the stack is exhausted.  A path of distinct cids has at     *)
(* most MaxTasks frames, so a call made with no frame left stands for that *)
(* endless recursion.                                                      *)
(***************************************************************************)
EXTENDS Naturals, FiniteSets

CONSTANT MaxTasks       \* max_tasks of struct locks_ctx

ASSUME MaxTasksAssumption == MaxTasks \in Nat \ {0}

Cid == 0 .. MaxTasks - 1

(***************************************************************************)
(* struct wfg_result.  "none": tx is NULL, no cycle was met.  "cycle": cid *)
(* is the transaction to fault out.  "overflow": the recursion never ends. *)
(* "stale": a sid was read through a tx_by_cid slot that was never written *)
(* or whose transaction is gone.                                           *)
(***************************************************************************)
Result(kind, cid) == [kind |-> kind, cid |-> cid]

\* the lines that fill the result in with cid y, read through tx_by_cid;
\* `valid' is the set of cids whose slot points to a live transaction
Candidate(valid, y) == Result(IF y \in valid THEN "cycle" ELSE "stale", y)

\* Mutant: the loop over the cids starts at 1.
SuccessorsFromOne(wfg, c) == {y \in Cid \ {0} : <<c, y>> \in wfg}

Successors(wfg, c) == {y \in Cid : <<c, y>> \in wfg}

\* Mutant: a cycle is taken to be closed by an edge back to the same node.
ClosesHere(c, y, root) == y = c

Closes(c, y, root) == y = root

\* Mutant: the comparison of the sids is the wrong way round.
Older(valid, sid, y, rec) ==
  IF rec.kind = "cycle" /\ (y \in valid => sid[rec.cid] > sid[y])
  THEN Candidate(valid, y)
  ELSE rec

\* the caller's choice between y and what was found below it; `sid' maps the
\* cids in `valid' to the sequence ids of their transactions
Younger(valid, sid, y, rec) ==
  IF rec.kind = "cycle" /\ (y \in valid => sid[rec.cid] < sid[y])
  THEN Candidate(valid, y)
  ELSE rec

\* What the call for cid c returns if the calls it makes return `below'.
WfgFrame(wfg, valid, sid, root, c, below) ==
  LET answer == [y \in Successors(wfg, c) |->
                   IF Closes(c, y, root)
                   THEN Candidate(valid, y)
                   ELSE Younger(valid, sid, y, below[y])]
      hits == {y \in DOMAIN answer : answer[y].kind # "none"}
      Lowest(S) == CHOOSE y \in S : \A z \in S : y <= z
  IN  IF hits = {} THEN Result("none", c) ELSE answer[Lowest(hits)]

WfgDfs(wfg, valid, sid, root) ==
  LET dfs[frames \in 0 .. MaxTasks] ==
        [c \in Cid |->
           IF frames = 0
           THEN Result("overflow", c)
           ELSE WfgFrame(wfg, valid, sid, root, c, dfs[frames - 1])]
  IN  dfs[MaxTasks][root]

=============================================================================

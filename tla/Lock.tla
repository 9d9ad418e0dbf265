-------------------------------- MODULE Lock --------------------------------
(***************************************************************************)
(* The recursive, fair, upgrading R/W lock of src/src/lock.c with its      *)
(* deadlock detector.                                                      *)
(*                                                                         *)
(* An action is one section of lock_lock() or lock_unlock() between taking *)
(* the lock's latch and giving it up, by returning or by waiting on the    *)
(* condition variable of a wait group.  All other latches a section takes  *)
(* (the deadlock latch, the latch of the victim's lock) are taken inside   *)
(* it, so sections are serialisable; whether the latches themselves can    *)
(* deadlock is the question of module Latches.                             *)
(*                                                                         *)
(* Transactions are named by their cid: a cid belongs to one live          *)
(* transaction at a time.  The program stops at the first step that reads  *)
(* or writes through a bad pointer, or never returns: `fault' says which.  *)
(***************************************************************************)
EXTENDS WaitForGraph, Sequences, SequencesExt

CONSTANT Locks          \* the locks built over one locks_ctx

VARIABLES
  chain,        \* l->first_wait_group and its successors, per lock
  last,         \* l->last_wait_group: the end of the chain, or a freed group
  wfg,          \* ctx->wfg_matrix
  txByCid,      \* ctx->tx_by_cid: what each slot points to
  sid,          \* the sequence id of the transaction with each cid
  waiting,      \* the calls of lock_lock() that sleep on a condition
  held,         \* what lock_lock() last told each transaction it holds
  fault         \* "none" until the program does something undefined

lockVars == <<chain, last, wfg, txByCid, waiting, held, fault>>
vars == <<lockVars, sid>>

Modes == {"shared", "exclusive"}

\* struct lock_waitgroup.  The order of entries beyond the first does not
\* matter to any operation.  `slots' is the cid whose
\* blocked_waitgroup_by_cid points here (with blocked_lock_by_cid naming the
\* lock whose chain this is), `deadlocked' the marked transaction.
Group == [mode : Modes, entries : SUBSET Cid,
          slots : SUBSET Cid, deadlocked : SUBSET Cid]

Waiter == [tx : Cid, lock : Locks, mode : Modes, role : {"creator", "joiner"}]

Faults == {"freed_tail",        \* last_wait_group points to a freed group
           "freed_group",       \* blocked_waitgroup_by_cid does
           "no_predecessor",    \* assert(prev->next == nwg) with prev NULL
           "group_overwritten", \* memmove() onto the wait group's own header
           "stale_tx",          \* tx_by_cid slot unset or transaction freed
           "endless_dfs"}       \* wfg_dfs() never returns

TypeOK ==
  /\ chain \in [Locks -> Seq(Group)]
  /\ last \in [Locks -> {"tail", "freed"}]
  /\ wfg \subseteq Cid \X Cid
  /\ txByCid \in [Cid -> {"unset", "live", "freed"}]
  /\ sid \in [Cid -> Nat]
  /\ waiting \subseteq Waiter
  /\ held \in [Cid -> [Locks -> Modes \cup {"none"}]]
  /\ fault \in Faults \cup {"none"}

-----------------------------------------------------------------------------

IsWaiting(t) == \E w \in waiting : w.tx = t

First(l) == chain[l][1]                 \* *l->first_wait_group

Positions(l) == DOMAIN chain[l]

Creator(t, l, k) == t \in chain[l][k].slots

\* Mutant: the mark of a new group is not initialised.
NewGroupUnmarked(m, t, slots, marks) ==
  [mode |-> m, entries |-> {t}, slots |-> slots]

NewGroup(m, t, slots, marks) ==
  [mode |-> m, entries |-> {t}, slots |-> slots, deadlocked |-> marks]

\* The chain of q once blocked_waitgroup_by_cid[t] points elsewhere.
ForgetSlot(q, t) == [k \in DOMAIN q |-> [q[k] EXCEPT !.slots = @ \ {t}]]

\* The chain of q once the group that v's slot points to is marked.
Mark(q, v) == [k \in DOMAIN q |->
                [q[k] EXCEPT !.deadlocked = IF v \in q[k].slots THEN {v} ELSE @]]

Crash(f) ==
  /\ fault' = f
  /\ UNCHANGED <<chain, last, wfg, txByCid, waiting, held>>

\* lock_lock() returns LOCK_TAKEN to t, which asked for mode m.
Taken(t, l, m) ==
  held' = [held EXCEPT ![t][l] = IF @ = "exclusive" THEN @ ELSE m]

LockInit ==
  /\ chain = [l \in Locks |-> << >>]
  /\ last = [l \in Locks |-> "tail"]
  /\ wfg = {}
  /\ txByCid = [c \in Cid |-> "unset"]
  /\ waiting = {}
  /\ held = [c \in Cid |-> [l \in Locks |-> "none"]]
  /\ fault = "none"

-----------------------------------------------------------------------------
(***************************************************************************)
(* lock_lock(l, m, t), from the call to its return or first wait.          *)
(***************************************************************************)

\* The caller holds the lock already in this or a higher mode (case B).
Covered(t, l, m) == /\ t \in First(l).entries
                    /\ First(l).mode \in {m, "exclusive"}

\* The caller holds the lock shared and wants it exclusive (case D).
Upgrade(t, l, m) == /\ m = "exclusive"
                    /\ First(l).mode = "shared"
                    /\ t \in First(l).entries

HeadIsLast(l) == Len(chain[l]) = 1 /\ last[l] = "tail"

LockFree(t, l, m) ==
  /\ chain[l] = << >>
  /\ chain' = [chain EXCEPT ![l] = <<NewGroup(m, t, {}, {})>>]
  /\ Taken(t, l, m)
  /\ UNCHANGED <<last, wfg, txByCid, waiting, fault>>

LockCovered(t, l, m) ==
  /\ chain[l] # << >>
  /\ Covered(t, l, m)
  /\ Taken(t, l, m)
  /\ UNCHANGED <<chain, last, wfg, txByCid, waiting, fault>>

\* Mutant: a shared request joins the shared holders past a queue.
LockJoinHolders(t, l, m) ==
  /\ chain[l] # << >>
  /\ ~Covered(t, l, m)
  /\ m = "shared"
  /\ First(l).mode = "shared"
  /\ chain' = [chain EXCEPT ![l][1].entries = @ \cup {t}]
  /\ Taken(t, l, m)
  /\ UNCHANGED <<last, wfg, txByCid, waiting, fault>>

\* A shared request joins a shared group at the end of the chain (case C),
\* without a word to the deadlock detector.
LockJoin(t, l, m) ==
  /\ chain[l] # << >>
  /\ ~Covered(t, l, m)
  /\ m = "shared"
  /\ last[l] = "tail"
  /\ Last(chain[l]).mode = "shared"
  /\ chain' = [chain EXCEPT ![l][Len(chain[l])].entries = @ \cup {t}]
  /\ IF Len(chain[l]) = 1
     THEN Taken(t, l, m) /\ UNCHANGED waiting
     ELSE /\ waiting' = waiting \cup
               {[tx |-> t, lock |-> l, mode |-> m, role |-> "joiner"]}
          /\ UNCHANGED held
  /\ UNCHANGED <<last, wfg, txByCid, fault>>

\* Mutant: the upgrade does not wait for the other shared holders.
LockUpgradeAnyway(t, l, m) ==
  /\ chain[l] # << >>
  /\ Upgrade(t, l, m)
  /\ HeadIsLast(l)
  /\ chain' = [chain EXCEPT ![l][1].mode = "exclusive"]
  /\ Taken(t, l, m)
  /\ UNCHANGED <<last, wfg, txByCid, waiting, fault>>

LockUpgradeNow(t, l, m) ==
  /\ chain[l] # << >>
  /\ Upgrade(t, l, m)
  /\ HeadIsLast(l)
  /\ First(l).entries = {t}
  /\ chain' = [chain EXCEPT ![l][1].mode = "exclusive"]
  /\ Taken(t, l, m)
  /\ UNCHANGED <<last, wfg, txByCid, waiting, fault>>

\* LOCK_STALE: somebody queued up behind the shared holders.
LockStale(t, l, m) ==
  /\ chain[l] # << >>
  /\ Upgrade(t, l, m)
  /\ ~HeadIsLast(l)
  /\ UNCHANGED lockVars

\* Cases C and E look at or write to *l->last_wait_group.
LockFreedTail(t, l, m) ==
  /\ chain[l] # << >>
  /\ ~Covered(t, l, m)
  /\ ~Upgrade(t, l, m)
  /\ last[l] = "freed"
  /\ Crash("freed_tail")

MustQueue(t, l, m) ==
  /\ chain[l] # << >>
  /\ last[l] = "tail"
  /\ ~Covered(t, l, m)
  /\ m = "shared" => Last(chain[l]).mode = "exclusive"
  /\ Upgrade(t, l, m) => HeadIsLast(l) /\ First(l).entries # {t}

\* Mutant: the waiter's edges are not entered.
WfgBlockedNoEdge(t, l) == wfg

\* the edges and slots that case E writes
WfgBlocked(t, l) == wfg \cup ({t} \X (First(l).entries \ {t}))
TxByCidBlocked(t) == [txByCid EXCEPT ![t] = "live"]
ChainBlocked(t, l, m) ==
  [x \in Locks |->
    IF x = l THEN Append(ForgetSlot(chain[l], t), NewGroup(m, t, {t}, {}))
             ELSE ForgetSlot(chain[x], t)]

Search(t, l) ==
  WfgDfs(WfgBlocked(t, l), {c \in Cid : TxByCidBlocked(t)[c] = "live"}, sid, t)

QueueWaiter(t, l, m) ==
  waiting' = waiting \cup
    {[tx |-> t, lock |-> l, mode |-> m, role |-> "creator"]}

\* No cycle: wait in a new group at the end of the chain (case E).
LockQueue(t, l, m) ==
  /\ MustQueue(t, l, m)
  /\ Search(t, l).kind = "none"
  /\ chain' = ChainBlocked(t, l, m)
  /\ wfg' = WfgBlocked(t, l)
  /\ txByCid' = TxByCidBlocked(t)
  /\ QueueWaiter(t, l, m)
  /\ UNCHANGED <<last, held, fault>>

\* A cycle whose victim is another transaction: mark its group and wait.
LockQueueMark(t, l, m) ==
  /\ MustQueue(t, l, m)
  /\ LET r == Search(t, l)
         q == ChainBlocked(t, l, m)
     IN  /\ r.kind = "cycle"
         /\ r.cid # t
         /\ \E x \in Locks : \E k \in DOMAIN q[x] : r.cid \in q[x][k].slots
         /\ chain' = [x \in Locks |-> Mark(q[x], r.cid)]
  /\ wfg' = WfgBlocked(t, l)
  /\ txByCid' = TxByCidBlocked(t)
  /\ QueueWaiter(t, l, m)
  /\ UNCHANGED <<last, held, fault>>

\* A cycle whose victim is the caller itself: its new group is taken out of
\* the chain again and freed, but last_wait_group still points to it.
LockDeadlock(t, l, m) ==
  /\ MustQueue(t, l, m)
  /\ Search(t, l) = Result("cycle", t)
  /\ chain' = [x \in Locks |-> ForgetSlot(chain[x], t)]
  /\ last' = [last EXCEPT ![l] = "freed"]
  /\ wfg' = WfgBlocked(t, l)
  /\ txByCid' = TxByCidBlocked(t)
  /\ UNCHANGED <<waiting, held, fault>>

LockSearchFault(t, l, m) ==
  /\ MustQueue(t, l, m)
  /\ LET r == Search(t, l)
         q == ChainBlocked(t, l, m)
     IN  \/ r.kind = "stale" /\ Crash("stale_tx")
         \/ r.kind = "overflow" /\ Crash("endless_dfs")
         \/ /\ r.kind = "cycle"
            /\ \A x \in Locks : \A k \in DOMAIN q[x] : r.cid \notin q[x][k].slots
            /\ Crash("freed_group")

LockLock(t, l, m) ==
  /\ fault = "none"
  /\ ~IsWaiting(t)
  /\ \/ LockFree(t, l, m)
     \/ LockCovered(t, l, m)
     \/ LockJoin(t, l, m)
     \/ LockUpgradeNow(t, l, m)
     \/ LockStale(t, l, m)
     \/ LockFreedTail(t, l, m)
     \/ LockQueue(t, l, m)
     \/ LockQueueMark(t, l, m)
     \/ LockDeadlock(t, l, m)
     \/ LockSearchFault(t, l, m)

-----------------------------------------------------------------------------
(***************************************************************************)
(* lock_lock() goes on after a wait.                                       *)
(***************************************************************************)

StopWaiting(w) == waiting' = waiting \ {w}

WakeJoined(w) ==
  /\ w.role = "joiner"
  /\ chain[w.lock] # << >>
  /\ w.tx \in First(w.lock).entries
  /\ Taken(w.tx, w.lock, w.mode)
  /\ StopWaiting(w)
  /\ UNCHANGED <<chain, last, wfg, txByCid, fault>>

WakeGranted(w) ==
  /\ w.role = "creator"
  /\ chain[w.lock] # << >>
  /\ Creator(w.tx, w.lock, 1)
  /\ w.tx \notin First(w.lock).deadlocked
  /\ Taken(w.tx, w.lock, w.mode)
  /\ StopWaiting(w)
  /\ UNCHANGED <<chain, last, wfg, txByCid, fault>>

\* Mutant: the victim's group is cut off with all that follows it.
WakeDeadlockedCut(w) ==
  /\ w.role = "creator"
  /\ \E k \in Positions(w.lock) :
       /\ k > 1
       /\ w.tx \in chain[w.lock][k].slots \cap chain[w.lock][k].deadlocked
       /\ chain[w.lock][k].entries = {w.tx}
       /\ chain' = [chain EXCEPT ![w.lock] = SubSeq(@, 1, k - 1)]
       /\ last' = [last EXCEPT ![w.lock] = "freed"]
       /\ StopWaiting(w)
       /\ UNCHANGED <<wfg, txByCid, held, fault>>

\* The mark takes precedence over the grant.
WakeDeadlocked(w) ==
  /\ w.role = "creator"
  /\ \E k \in Positions(w.lock) :
       LET g == chain[w.lock][k] IN
       /\ w.tx \in g.slots
       /\ w.tx \in g.deadlocked
       /\ \/ /\ g.entries # {w.tx}
             /\ Crash("group_overwritten")
          \/ /\ g.entries = {w.tx}
             /\ k = 1
             /\ Crash("no_predecessor")
          \/ /\ g.entries = {w.tx}
             /\ k > 1
             /\ chain' = [chain EXCEPT ![w.lock] = RemoveAt(@, k)]
             /\ last' = [last EXCEPT ![w.lock] =
                           IF k = Len(chain[w.lock]) THEN "freed" ELSE @]
             /\ StopWaiting(w)
             /\ UNCHANGED <<wfg, txByCid, held, fault>>

\* The call w goes on.
Wake(w) ==
  /\ fault = "none"
  /\ WakeJoined(w) \/ WakeGranted(w) \/ WakeDeadlocked(w)

LockWake(t) == \E w \in waiting : w.tx = t /\ Wake(w)

-----------------------------------------------------------------------------
(***************************************************************************)
(* lock_unlock(l, t).                                                      *)
(***************************************************************************)

\* due to the recursive nature t may not hold the lock any more
UnlockNotHeld(t, l) ==
  /\ chain[l] # << >> => t \notin First(l).entries
  /\ UNCHANGED lockVars

\* Mutant: lock_unlock() does not see to waiting upgrades.
UpgradeNextNever(l, left, behind) == FALSE

\* Mutant: the mode of the group next in line is not looked at.
UpgradeNextAnyone(l, left, behind) ==
  Cardinality(left) = 1 /\ First(l).mode = "shared" /\ behind # << >>

\* The one shared holder left waits, next in line, for its own upgrade.
UpgradeNext(l, left, behind) ==
  /\ Cardinality(left) = 1
  /\ First(l).mode = "shared"
  /\ behind # << >>
  /\ behind[1].mode = "exclusive"
  /\ behind[1].entries = left

\* every cell [x, t] for an x in a group of `behind' is set
WfgUnblocked(t, behind) ==
  wfg \cup {<<x, t>> : x \in UNION {behind[k].entries : k \in DOMAIN behind}}

UnlockHeld(t, l) ==
  /\ chain[l] # << >>
  /\ t \in First(l).entries
  /\ LET left   == First(l).entries \ {t}
         behind == Tail(chain[l])
         freed  == left = {} \/ UpgradeNext(l, left, behind)
     IN  /\ chain' = [chain EXCEPT ![l] =
                        IF freed THEN behind
                                 ELSE <<[@[1] EXCEPT !.entries = left]>> \o behind]
         /\ last' = [last EXCEPT ![l] = IF freed /\ behind = << >> THEN "tail" ELSE @]
         /\ wfg' = WfgUnblocked(t, behind)
  /\ held' = [held EXCEPT ![t][l] = "none"]
  /\ UNCHANGED <<txByCid, waiting, fault>>

LockUnlock(t, l) ==
  /\ fault = "none"
  /\ ~IsWaiting(t)
  /\ UnlockNotHeld(t, l) \/ UnlockHeld(t, l)

-----------------------------------------------------------------------------
(***************************************************************************)
(* Properties.                                                             *)
(***************************************************************************)

\* The transactions that lock_lock() has told they hold a lock exclude each
\* other: an exclusive holder has the lock for itself, whatever upgrades,
\* joins, victim removals and recursive calls came before.
Exclusion ==
  \A l \in Locks : \A s, t \in Cid :
    s # t /\ held[s][l] = "exclusive" => held[t][l] = "none"

\* What a transaction was told it holds is what the head of the chain says:
\* no hand-over (grant, upgrade, removal of a victim) drops or weakens it.
HolderInFirstGroup ==
  \A l \in Locks : \A t \in Cid :
    held[t][l] # "none" =>
      /\ chain[l] # << >>
      /\ t \in First(l).entries
      /\ held[t][l] = "exclusive" => First(l).mode = "exclusive"

\* Groups are never empty and an exclusive group is for one transaction.
GroupsWellFormed ==
  \A l \in Locks : \A k \in DOMAIN chain[l] :
    /\ chain[l][k].entries # {}
    /\ chain[l][k].mode = "exclusive" => \E t \in Cid : chain[l][k].entries = {t}

\* The group that a call of case E sleeps on is its own: it is in there, in
\* the mode it asked for, and the slot points nowhere else.
OwnGroup ==
  \A w \in waiting :
    \/ w.role = "joiner" /\ w.mode = "shared"
    \/ /\ w.role = "creator"
       /\ \A l \in Locks : \A k \in DOMAIN chain[l] :
            w.tx \in chain[l][k].slots =>
              /\ l = w.lock
              /\ w.tx \in chain[l][k].entries
              /\ chain[l][k].mode = w.mode

\* The inductive invariant behind Exclusion.
LockInv == TypeOK /\ GroupsWellFormed /\ OwnGroup /\ HolderInFirstGroup

\* The groups behind the first hold exactly the sleeping calls that have not
\* been granted: a sleeper is never forgotten by the chain, and a
\* transaction that does not sleep is never granted a lock behind its back.
SleepersQueued ==
  \A l \in Locks :
    /\ \A w \in waiting :
         w.lock = l => \E k \in DOMAIN chain[l] :
                         /\ w.tx \in chain[l][k].entries
                         /\ chain[l][k].mode = w.mode
                         /\ (w.role = "creator") = (w.tx \in chain[l][k].slots)
    /\ \A k \in DOMAIN chain[l] : k > 1 =>
         \A t \in chain[l][k].entries : \E w \in waiting : w.tx = t /\ w.lock = l
    /\ chain[l] # << >> =>
         \A t \in First(l).entries :
           held[t][l] = "none" => \E w \in waiting : w.tx = t /\ w.lock = l

\* The call w sleeps on the k-th group of its lock's chain.
SleepsAt(w, k) ==
  /\ w.tx \in chain[w.lock][k].entries
  /\ chain[w.lock][k].mode = w.mode
  /\ (w.role = "creator") = (w.tx \in chain[w.lock][k].slots)

\* A transaction is in one call at a time.
OneCallEach == \A v, w \in waiting : v.tx = w.tx => v = w

\* Every sleeping call has a group to sleep on.
SleepersHaveGroups ==
  \A w \in waiting : \E k \in DOMAIN chain[w.lock] : SleepsAt(w, k)

\* Whoever is in a group behind the first sleeps on that group, and nobody
\* else's slot points to it.
GroupsHaveSleepers ==
  \A l \in Locks : \A k \in DOMAIN chain[l] : k > 1 =>
    /\ chain[l][k].slots \subseteq chain[l][k].entries
    /\ \A t \in chain[l][k].entries :
         \E w \in waiting : w.tx = t /\ w.lock = l /\ SleepsAt(w, k)

\* Whoever is in the first group has been told so, or is yet to wake up.
HoldersTold ==
  \A l \in Locks : chain[l] # << >> =>
    \A t \in First(l).entries : held[t][l] = "none" =>
      \E w \in waiting : w.tx = t /\ w.lock = l /\ SleepsAt(w, 1)

\* A transaction is twice in a chain only to wait for its own upgrade.
TwiceForUpgrade ==
  \A l \in Locks : \A j, k \in DOMAIN chain[l] :
    j < k => \A t \in chain[l][j].entries \cap chain[l][k].entries :
               /\ j = 1
               /\ chain[l][1].mode = "shared"
               /\ chain[l][k].mode = "exclusive"
               /\ held[t][l] # "none"

\* blocked_waitgroup_by_cid is a function: it points to one group.
OneSlotEach ==
  \A x, y \in Locks : \A j \in DOMAIN chain[x], k \in DOMAIN chain[y] :
    \A t \in chain[x][j].slots \cap chain[y][k].slots : x = y /\ j = k

\* The inductive invariant behind SleepersQueued and NoOvertaking.
ChainInv ==
  /\ LockInv
  /\ OneCallEach
  /\ SleepersHaveGroups
  /\ GroupsHaveSleepers
  /\ HoldersTold
  /\ TwiceForUpgrade
  /\ OneSlotEach

\* Whom a sleeping call has to outwait.
Ahead(w) ==
  LET mine == {k \in DOMAIN chain[w.lock] : w.tx \in chain[w.lock][k].entries}
      here == CHOOSE k \in mine : \A j \in mine : j <= k
  IN  IF mine = {} THEN {}
      ELSE UNION {chain[w.lock][k].entries : k \in 1 .. here - 1}

\* "fair" (lock.h:4): no transaction gets ahead of a sleeping call that was
\* not ahead of it already.
NoOvertaking ==
  [][\A w \in waiting \cap waiting' : Ahead(w)' \subseteq Ahead(w)]_vars

\* Every sleeping call returns, once holders release what they hold.
EveryWaitEnds ==
  \A t \in Cid : IsWaiting(t) ~> (~IsWaiting(t) \/ fault # "none")

-----------------------------------------------------------------------------

\* w waits for x: x is in a group ahead of w's.
WaitsFor(w, x) == x # w.tx /\ x \in Ahead(w)

Marked(w) ==
  \E k \in DOMAIN chain[w.lock] :
    w.tx \in chain[w.lock][k].slots \cap chain[w.lock][k].deadlocked

\* Every member of D sleeps until another member of D goes on.
Deadlocked(D) ==
  /\ D # {}
  /\ D \subseteq waiting
  /\ \A w \in D : \E v \in D : WaitsFor(w, v.tx)

\* "deadlock-detecting" (lock.h:4): in a set of transactions that wait for
\* each other some victim has been marked, and so will be woken.
NoSilentDeadlock ==
  fault = "none" =>
    \A D \in SUBSET waiting : Deadlocked(D) => \E w \in D : Marked(w)

\* Every sleeping call is one of case E.
WaitersQueued == \A w \in waiting : w.role = "creator"

\* The detector knows whom a sleeping call waits for.
EdgesEntered ==
  \A w \in waiting : \A x \in Cid : WaitsFor(w, x) => <<w.tx, x>> \in wfg

\* Of two calls that wait for each other one is marked.
PairsMarked ==
  \A v, w \in waiting :
    WaitsFor(v, w.tx) /\ WaitsFor(w, v.tx) => Marked(v) \/ Marked(w)

\* Why no deadlock of two transactions is silent: neither can join a group
\* that waits, nor queue up behind one without queueing up behind the first
\* group, so each wait is entered into the graph.
PairInv == WaitersQueued /\ EdgesEntered /\ PairsMarked

-----------------------------------------------------------------------------

\* Who is in an exclusive first group has been told so, or is yet to wake up.
ExclusiveTold ==
  \A l \in Locks : 1 \in DOMAIN chain[l] /\ First(l).mode = "exclusive" =>
    \A t \in First(l).entries :
      held[t][l] = "exclusive" \/ \E w \in waiting : w.tx = t /\ w.lock = l

\* An upgrade is next in line.
UpgradesSecond ==
  \A l \in Locks : \A j, k \in DOMAIN chain[l] :
    j < k => \A t \in chain[l][j].entries \cap chain[l][k].entries : k = 2

\* An upgrade that waits for nobody but itself is not left in line.
UpgradeSeen ==
  \A l \in Locks : 2 \in DOMAIN chain[l] => First(l).entries # chain[l][2].entries

\* The inductive invariant behind NoLostWakeup and ImplementsFairLock.
FairInv == ExclusiveTold /\ UpgradesSecond /\ UpgradeSeen

\* No wake-up is lost: a sleeping call with nobody left to wait for has
\* become the first group, so that its wait condition is true.
NoLostWakeup ==
  \A w \in waiting :
    Ahead(w) \subseteq {w.tx} => 1 \in DOMAIN chain[w.lock] /\ SleepsAt(w, 1)

Request(w) == [tx |-> w.tx, lock |-> w.lock, mode |-> w.mode]

Asked == {Request(w) : w \in waiting}

AheadOf == [t \in Cid |->
  UNION {Ahead(w) \ {t} : w \in {v \in waiting : v.tx = t}}]

Fair == INSTANCE FairLock WITH
  Txs <- Cid, held <- held, asked <- Asked, ahead <- AheadOf

\* The lock keeps what lock.h:4 says of it: "recursive, fair, upgrading R/W
\* lock".  Each of its steps is one of the abstract lock, or none.
ImplementsFairLock == Fair!FairSpec

=============================================================================

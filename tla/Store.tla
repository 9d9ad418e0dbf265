------------------------------- MODULE Store --------------------------------
(***************************************************************************)
(* Transactions over locked objects: src/src/store.c on top of module      *)
(* Lock, driven as vm.c, eval.c and the retry loop of tasks.c drive it.    *)
(*                                                                         *)
(* A worker starts a transaction, locks every object it touches (shared    *)
(* when it gets it, exclusive when it makes it or sets a global of it),    *)
(* and gives all of them up only in store_finish_tx().  A transaction      *)
(* whose upgrade is refused is finished and started again; one whose get   *)
(* is refused ends the program, as every caller asserts the result.        *)
(*                                                                         *)
(* The cache finds every object that was put into it, as it does below     *)
(* its load factor, so an object has one lock.  store_get_object() and     *)
(* store_make_object() use cache_latch for one section each; for them it   *)
(* is enough that no worker is inside store_finish_tx().                   *)
(***************************************************************************)
EXTENDS Lock

CONSTANTS
  Workers,        \* the threads of the task pool
  Persisted,      \* the objects that persist_get() knows; others are made
  MaxSid,         \* bound: no transaction is started beyond it
  MaxLocked       \* bound: the objects a transaction gets, twice counts twice

ASSUME StoreAssumption ==
  /\ IsFiniteSet(Workers)
  /\ Cardinality(Workers) <= MaxTasks     \* main.c: TASK_CONCURRENCY
  /\ Persisted \subseteq Locks
  /\ MaxSid \in Nat
  /\ MaxLocked \in Nat

VARIABLES
  pc,           \* where each worker is
  cid,          \* tx->cid of its transaction
  locked,       \* tx->locked: the objects to release, latest first
  cidUsed,      \* the cids whose s->cid_used is true
  sidSeq,       \* s->sid_seq
  made,         \* the objects made so far
  cacheLatch,   \* the worker that holds s->cache_latch in store_finish_tx()
  version,      \* changes when a global of the object is set; counted modulo 2
  seen,         \* the version that each worker's transaction knows
  aborted       \* an assert() has failed

storeVars == <<pc, cid, locked, cidUsed, sidSeq, made, cacheLatch,
               version, seen, aborted>>
allVars == <<vars, storeVars>>

StoreTypeOK ==
  /\ TypeOK
  /\ pc \in [Workers -> {"idle", "running", "refused", "finishing", "released"}]
  /\ cid \in [Workers -> Cid]
  /\ locked \in [Workers -> Seq(Locks)]
  /\ cidUsed \subseteq Cid
  /\ sidSeq \in 0 .. MaxSid
  /\ made \subseteq Locks \ Persisted
  /\ cacheLatch \subseteq Workers
  /\ version \in [Locks -> 0 .. 1]
  /\ seen \in [Workers -> [Locks -> 0 .. 1]]
  /\ aborted \in BOOLEAN

StoreInit ==
  /\ LockInit
  /\ sid = [c \in Cid |-> 0]
  /\ pc = [w \in Workers |-> "idle"]
  /\ cid = [w \in Workers |-> 0]
  /\ locked = [w \in Workers |-> << >>]
  /\ cidUsed = {}
  /\ sidSeq = 0
  /\ made = {}
  /\ cacheLatch = {}
  /\ version = [l \in Locks |-> 0]
  /\ seen = [w \in Workers |-> [l \in Locks |-> 0]]
  /\ aborted = FALSE

-----------------------------------------------------------------------------

Up == fault = "none" /\ ~aborted

Active(w) == Up /\ pc[w] = "running" /\ ~IsWaiting(cid[w])

\* Mutant: the loop goes from 1 to max_tasks.
FirstFreeFromOne ==
  LET free == (1 .. MaxTasks) \ cidUsed IN {c \in free : \A d \in free : c <= d}

\* What the loop over cid_used finds.  With no cid free the code would go on
\* with a tx->cid it never set; by StoreAssumption there is always one.
FirstFree == {c \in Cid \ cidUsed : \A d \in Cid \ cidUsed : c <= d}

\* Mutant: the first cid that is in use is handed out again.
StartTxAnyCid(w) ==
  /\ Up
  /\ pc[w] = "idle"
  /\ sidSeq < MaxSid
  /\ cid' = [cid EXCEPT ![w] = 0]
  /\ cidUsed' = cidUsed \cup {0}
  /\ sid' = [sid EXCEPT ![0] = sidSeq]
  /\ sidSeq' = sidSeq + 1
  /\ pc' = [pc EXCEPT ![w] = "running"]
  /\ UNCHANGED <<lockVars, locked, made, cacheLatch, version, seen, aborted>>

\* store_start_tx().  A retried transaction gets a sid of its own again.
StartTx(w) ==
  /\ Up
  /\ pc[w] = "idle"
  /\ sidSeq < MaxSid
  /\ \E c \in FirstFree :
       /\ cid' = [cid EXCEPT ![w] = c]
       /\ cidUsed' = cidUsed \cup {c}
       /\ sid' = [sid EXCEPT ![c] = sidSeq]
  /\ sidSeq' = sidSeq + 1
  /\ pc' = [pc EXCEPT ![w] = "running"]
  /\ UNCHANGED <<lockVars, locked, made, cacheLatch, version, seen, aborted>>

-----------------------------------------------------------------------------
(***************************************************************************)
(* What a caller of lock_lock() sees, told by the step of module Lock.     *)
(***************************************************************************)

\* Mutant: the result is not looked at.
LockTakenAlways(c, l, m) == TRUE

LockTaken(c, l, m) == held'[c][l] \in {m, "exclusive"}

\* the call sleeps, or the program is at an end
NoReturn(c) == fault' # "none" \/ \E x \in waiting' : x.tx = c

\* Mutant: the object is not put on the list of objects to release.
GotForgotten(w, l) ==
  /\ seen' = [seen EXCEPT ![w][l] = version[l]]
  /\ UNCHANGED <<pc, locked, aborted>>

\* The end of store_get_object(): the object, or NULL and a failed assert.
Got(w, l) ==
  /\ locked' = [locked EXCEPT ![w] = <<l>> \o @]
  /\ seen' = [seen EXCEPT ![w][l] = IF l \in Range(locked[w]) THEN @ ELSE version[l]]
  /\ UNCHANGED <<pc, aborted>>

GetRefused == aborted' = TRUE /\ UNCHANGED <<pc, locked, seen>>

\* OP_SETGLOBAL returns EVAL_RETRY_TX.
UpgradeRefused(w) ==
  /\ pc' = [pc EXCEPT ![w] = "refused"]
  /\ UNCHANGED <<locked, seen, aborted>>

\* obj_set_global() of OP_SETGLOBAL
Write(w, l) ==
  /\ version' = [version EXCEPT ![l] = 1 - @]
  /\ seen' = [seen EXCEPT ![w][l] = 1 - version[l]]
  /\ UNCHANGED <<pc, locked, aborted>>

\* What the worker does with the outcome of lock_lock(l, m, tx), in the same
\* step: it shares nothing with others but what the lock protects.
Outcome(w, l, m) ==
  \/ NoReturn(cid[w]) /\ UNCHANGED <<pc, locked, version, seen, aborted>>
  \/ /\ ~NoReturn(cid[w])
     /\ \/ /\ m = "shared"
           /\ IF LockTaken(cid[w], l, m) THEN Got(w, l) ELSE GetRefused
           /\ UNCHANGED version
        \/ /\ m = "exclusive"
           /\ LockTaken(cid[w], l, m)
           /\ Write(w, l)
        \/ /\ m = "exclusive"
           /\ ~LockTaken(cid[w], l, m)
           /\ UpgradeRefused(w)
           /\ UNCHANGED version

\* store_get_object(): by a worker that knows the object's id
GetObject(w, l) ==
  /\ Active(w)
  /\ l \in Persisted \cup made
  /\ Len(locked[w]) < MaxLocked
  /\ cacheLatch = {}
  /\ LockLock(cid[w], l, "shared")
  /\ Outcome(w, l, "shared")
  /\ UNCHANGED <<sid, cid, cidUsed, sidSeq, made, cacheLatch>>

\* OP_SETGLOBAL, on an object that the transaction has got or made
SetGlobal(w, l) ==
  /\ Active(w)
  /\ l \in Range(locked[w])
  /\ LockLock(cid[w], l, "exclusive")
  /\ Outcome(w, l, "exclusive")
  /\ UNCHANGED <<sid, cid, cidUsed, sidSeq, made, cacheLatch>>

\* store_make_object(): its lock_lock() finds the lock that was made for it free
MakeObject(w, l) ==
  /\ Active(w)
  /\ l \notin Persisted \cup made
  /\ Len(locked[w]) < MaxLocked
  /\ cacheLatch = {}
  /\ made' = made \cup {l}
  /\ LockFree(cid[w], l, "exclusive")
  /\ Got(w, l)
  /\ UNCHANGED <<sid, cid, cidUsed, sidSeq, cacheLatch, version>>

\* lock_lock() returns after a wait, and the call above goes on.
Resume(w) ==
  /\ Up
  /\ pc[w] = "running"
  /\ \E x \in waiting :
       /\ x.tx = cid[w]
       /\ Wake(x)
       /\ Outcome(w, x.lock, x.mode)
  /\ UNCHANGED <<sid, cid, cidUsed, sidSeq, made, cacheLatch>>

-----------------------------------------------------------------------------
(***************************************************************************)
(* store_finish_tx().                                                      *)
(***************************************************************************)

\* Mutant: a transaction that has to be retried is not finished.
FinishTxOk(w) ==
  /\ Up
  /\ pc[w] = "running"
  /\ ~IsWaiting(cid[w])
  /\ cacheLatch = {}
  /\ cacheLatch' = {w}
  /\ pc' = [pc EXCEPT ![w] = "finishing"]
  /\ UNCHANGED <<vars, cid, locked, cidUsed, sidSeq, made, version, seen, aborted>>

\* The method has ended, or its transaction has to be retried.
FinishTx(w) ==
  /\ Up
  /\ pc[w] \in {"running", "refused"}
  /\ ~IsWaiting(cid[w])
  /\ cacheLatch = {}
  /\ cacheLatch' = {w}
  /\ pc' = [pc EXCEPT ![w] = "finishing"]
  /\ UNCHANGED <<vars, cid, locked, cidUsed, sidSeq, made, version, seen, aborted>>

\* One round of the loop.  An object that was got twice is on the list
\* twice; the second lock_unlock() finds nothing to release.
UnlockNext(w) ==
  /\ Up
  /\ pc[w] = "finishing"
  /\ locked[w] # << >>
  /\ LockUnlock(cid[w], Head(locked[w]))
  /\ locked' = [locked EXCEPT ![w] = Tail(@)]
  /\ UNCHANGED <<sid, pc, cid, cidUsed, sidSeq, made, cacheLatch, version, seen,
                 aborted>>

ReleaseCache(w) ==
  /\ Up
  /\ pc[w] = "finishing"
  /\ locked[w] = << >>
  /\ cacheLatch' = {}
  /\ pc' = [pc EXCEPT ![w] = "released"]
  /\ UNCHANGED <<vars, cid, locked, cidUsed, sidSeq, made, version, seen, aborted>>

\* The cid is given back and the transaction freed, whatever tx_by_cid says.
\* (A search between the two statements would still read the former sid.)
FreeTx(w) ==
  /\ Up
  /\ pc[w] = "released"
  /\ cidUsed' = cidUsed \ {cid[w]}
  /\ txByCid' = [txByCid EXCEPT ![cid[w]] = IF @ = "unset" THEN @ ELSE "freed"]
  /\ pc' = [pc EXCEPT ![w] = "idle"]
  /\ UNCHANGED <<chain, last, wfg, waiting, held, fault, sid, cid, locked, sidSeq,
                 made, cacheLatch, version, seen, aborted>>

StoreNext ==
  \E w \in Workers :
    \/ StartTx(w)
    \/ \E l \in Locks : GetObject(w, l) \/ SetGlobal(w, l) \/ MakeObject(w, l)
    \/ Resume(w)
    \/ FinishTx(w)
    \/ UnlockNext(w)
    \/ ReleaseCache(w)
    \/ FreeTx(w)

StoreSpec == StoreInit /\ [][StoreNext]_allVars

(***************************************************************************)
(* A method comes to its end, and a worker that can go on does so.  None   *)
(* of the latches is wanted for ever: the sids of an instance run out.     *)
(***************************************************************************)
StoreFairness ==
  \A w \in Workers :
    /\ WF_allVars(Resume(w))
    /\ WF_allVars(FinishTx(w))
    /\ WF_allVars(UnlockNext(w))
    /\ WF_allVars(ReleaseCache(w))
    /\ WF_allVars(FreeTx(w))

StoreFairSpec == StoreSpec /\ StoreFairness

-----------------------------------------------------------------------------
(***************************************************************************)
(* Properties.                                                             *)
(***************************************************************************)

\* A cid belongs to one transaction at a time, from store_start_tx() until
\* store_finish_tx() has given back every lock: the identity that the lock
\* and the wait-for-graph know a transaction by.
CidsDistinct ==
  \A v, w \in Workers :
    pc[v] # "idle" /\ pc[w] # "idle" =>
      /\ cid[w] \in cidUsed
      /\ cid[v] = cid[w] => v = w

Owners(c) == {w \in Workers : cid[w] = c /\ pc[w] \in {"running", "refused", "finishing"}}

\* A finished transaction is in no wait group and holds no lock, through
\* every refused upgrade and object locked twice: its cid and its memory can
\* be used again.
NothingLeftBehind ==
  \A c \in Cid : Owners(c) = {} =>
    /\ ~IsWaiting(c)
    /\ \A l \in Locks :
         /\ held[c][l] = "none"
         /\ \A k \in DOMAIN chain[l] : c \notin chain[l][k].entries

\* "only one calling transaction can have access to an object at a point in
\* time" (store.h:9): what a transaction has read stays as it was, unless it
\* changes it itself, until the transaction gives its locks up.
ReadsStable ==
  \A w \in Workers : \A l \in Range(locked[w]) :
    pc[w] \in {"running", "refused"} => seen[w][l] = version[l]

\* A transaction that was started comes to its end, whatever it waits for,
\* unless the program stops.
TxEnds ==
  \A w \in Workers : pc[w] = "running" ~> (pc[w] = "idle" \/ ~Up)

\* "returns 0 on success and EVAL_RETRY_TX if the attempt should be retried
\* because of a deadlock or stale lock" (eval.h:172-173): the refusal of a lock
\* never ends the program.
RefusalIsRetried == ~aborted

=============================================================================

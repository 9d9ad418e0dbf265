------------------------------ MODULE FairLock ------------------------------
(***************************************************************************)
(* What lock.h promises of a lock: "recursive, fair, upgrading R/W lock    *)
(* that is deadlock-detecting".  No queue, no groups and no graph: who     *)
(* holds a lock and how, who asks for it, and whom each asker has still to *)
(* let go first.  Whether a refusal is justified by a deadlock is not      *)
(* said here: the program gives no such promise for every case.            *)
(***************************************************************************)
EXTENDS FiniteSets

CONSTANTS Txs, Locks

VARIABLES
  held,         \* how each transaction holds each lock
  asked,        \* the requests not answered yet
  ahead         \* whom a transaction that asks has to outwait

fairVars == <<held, asked, ahead>>

Modes == {"shared", "exclusive"}

Request == [tx : Txs, lock : Locks, mode : Modes]

Conflict(m, n) == "none" \notin {m, n} /\ "exclusive" \in {m, n}

Others(t, l) ==
  {s \in Txs \ {t} : \/ held[s][l] # "none"
                     \/ \E r \in asked : r.tx = s /\ r.lock = l}

HoldersAgainst(t, l, m) == {s \in Txs \ {t} : Conflict(held[s][l], m)}

AskersAgainst(t, l, m) ==
  {s \in Txs \ {t} : \E r \in asked : r.tx = s /\ r.lock = l /\ Conflict(r.mode, m)}

Against(t, l, m) == HoldersAgainst(t, l, m) \cup AskersAgainst(t, l, m)

\* A transaction that asks can do nothing else.
Idle(t) == \A r \in asked : r.tx # t

Give(t, l, m) ==
  held' = [held EXCEPT ![t][l] = IF @ = "exclusive" THEN @ ELSE m]

FairInit ==
  /\ held = [t \in Txs |-> [l \in Locks |-> "none"]]
  /\ asked = {}
  /\ ahead = [t \in Txs |-> {}]

\* t gets the lock at once: it has it already, or passes by nobody who holds
\* or asks for it in a mode that goes against m.
Take(t, l, m) ==
  /\ Idle(t)
  /\ held[t][l] \in {m, "exclusive"} \/ Against(t, l, m) = {}
  /\ Give(t, l, m)
  /\ UNCHANGED <<asked, ahead>>

\* t asks for the lock, behind all whom it conflicts with.
Ask(t, l, m) ==
  /\ Idle(t)
  /\ asked' = asked \cup {[tx |-> t, lock |-> l, mode |-> m]}
  /\ \E A \in SUBSET Others(t, l) :
       /\ Against(t, l, m) \subseteq A
       /\ ahead' = [ahead EXCEPT ![t] = A]
  /\ UNCHANGED held

\* t has left the line for l: nobody waits for it there any more.
Leaves(t, l) ==
  [s \in Txs |-> IF \E r \in asked : r.tx = s /\ r.lock = l
                 THEN ahead[s] \ {t}
                 ELSE ahead[s]]

\* Everybody whom r had to let go first is gone.
Grant(r) ==
  /\ r \in asked
  /\ ahead[r.tx] = {}
  /\ HoldersAgainst(r.tx, r.lock, r.mode) = {}
  /\ Give(r.tx, r.lock, r.mode)
  /\ asked' = asked \ {r}
  /\ UNCHANGED ahead

\* r is refused as long as somebody is ahead of it, and keeps what it holds.
Refuse(r) ==
  /\ r \in asked
  /\ ahead[r.tx] # {}
  /\ asked' = asked \ {r}
  /\ ahead' = [IF held[r.tx][r.lock] = "none" THEN Leaves(r.tx, r.lock) ELSE ahead
                 EXCEPT ![r.tx] = {}]
  /\ UNCHANGED held

Release(t, l) ==
  /\ Idle(t)
  /\ held[t][l] # "none"
  /\ held' = [held EXCEPT ![t][l] = "none"]
  /\ ahead' = Leaves(t, l)
  /\ UNCHANGED asked

FairNext ==
  \/ \E t \in Txs, l \in Locks :
       \/ \E m \in Modes : Take(t, l, m) \/ Ask(t, l, m)
       \/ Release(t, l)
  \/ \E r \in asked : Grant(r) \/ Refuse(r)

FairSpec == FairInit /\ [][FairNext]_fairVars

=============================================================================

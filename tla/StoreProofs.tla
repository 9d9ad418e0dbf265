---------------------------- MODULE StoreProofs -----------------------------
(***************************************************************************)
(* The store's transactions are isolated, for any number of workers,       *)
(* objects and transactions.                                               *)
(***************************************************************************)
EXTENDS Store, LockLemmas

-----------------------------------------------------------------------------
(* The inductive invariant.                                                *)

\* The objects a running transaction will release are those it holds.
LockedHeld ==
  \A w \in Workers : \A l \in Range(locked[w]) :
    pc[w] \in {"running", "refused"} => held[cid[w]][l] # "none"

\* A transaction is freed with an empty list, and starts with one.
NothingLocked ==
  \A w \in Workers : pc[w] \in {"idle", "released"} => locked[w] = << >>

StoreInv ==
  /\ StoreTypeOK
  /\ LockInv
  /\ CidsDistinct
  /\ NothingLocked
  /\ LockedHeld
  /\ ReadsStable

LEMMA RangePrepend ==
  ASSUME NEW S, NEW s \in Seq(S), NEW e \in S
  PROVE  /\ <<e>> \o s \in Seq(S)
         /\ Range(<<e>> \o s) = {e} \cup Range(s)
<1> DEFINE q == <<e>> \o s
<1>1. q \in Seq(S) /\ Len(q) = Len(s) + 1 /\ q[1] = e
  OBVIOUS
<1>2. \A i \in 1 .. Len(s) : q[i + 1] = s[i]
  OBVIOUS
<1>3. DOMAIN q = 1 .. Len(s) + 1 /\ DOMAIN s = 1 .. Len(s) /\ Len(s) \in Nat
  BY <1>1
<1>4. ASSUME NEW i \in DOMAIN q
      PROVE  q[i] \in {e} \cup Range(s)
  <2>1. CASE i = 1
    BY <2>1, <1>1
  <2>2. CASE i # 1
    <3>1. i - 1 \in 1 .. Len(s) /\ i = (i - 1) + 1
      BY <2>2, <1>3
    <3>2. q[i] = s[i - 1]
      BY <3>1, <1>2
    <3>3. QED
      BY <3>1, <3>2, <1>3 DEF Range
  <2>3. QED
    BY <2>1, <2>2
<1>5. e \in Range(q)
  BY <1>1, <1>3 DEF Range
<1> HIDE DEF q
<1>6. ASSUME NEW i \in DOMAIN s
      PROVE  s[i] \in Range(q)
  <2>1. i + 1 \in DOMAIN q
    BY <1>3
  <2>2. q[i + 1] = s[i]
    BY <1>2, <1>3
  <2>3. QED
    BY <2>1, <2>2 DEF Range
<1>7. Range(q) \subseteq {e} \cup Range(s)
  BY <1>4 DEF Range
<1>8. {e} \cup Range(s) \subseteq Range(q)
  BY <1>5, <1>6 DEF Range
<1>9. Range(q) = {e} \cup Range(s)
  BY <1>7, <1>8
<1>10. QED
  BY <1>1, <1>9 DEF q

LEMMA ExclusionNext == LockInv' => Exclusion'
<1>1. LockInv => Exclusion
  BY LockInvImpliesExclusion
<1>2. QED
  BY <1>1, PTL

-----------------------------------------------------------------------------
(* What the worker does with the outcome of lock_lock().                   *)

\* A transaction takes an object: nobody else's objects are touched, and
\* none that it has is lost.
LEMMA HeldOfOthers ==
  ASSUME StoreInv, NEW w \in Workers, pc[w] # "idle",
         NEW l \in Locks, NEW m \in Modes,
         held' = held \/ Taken(cid[w], l, m)
  PROVE  /\ \A v \in Workers : v # w /\ pc[v] # "idle" => held'[cid[v]] = held[cid[v]]
         /\ \A x \in Locks : held[cid[w]][x] # "none" => held'[cid[w]][x] # "none"
<1>1. /\ \A v \in Workers : cid[v] \in Cid
      /\ \A v \in Workers : v # w /\ pc[v] # "idle" => cid[v] # cid[w]
  BY DEF StoreInv, StoreTypeOK, CidsDistinct
<1>2. held \in [Cid -> [Locks -> Modes \cup {"none"}]]
  BY DEF StoreInv, StoreTypeOK, TypeOK
<1>3. CASE held' = held
  BY <1>3
<1>4. CASE Taken(cid[w], l, m)
  BY <1>1, <1>2, <1>4 DEF Taken, Modes
<1>5. QED
  BY <1>3, <1>4

LEMMA GotInv ==
  ASSUME StoreInv, LockInv', NEW w \in Workers, NEW l \in Locks, NEW m \in Modes,
         pc[w] = "running",
         held' = held \/ Taken(cid[w], l, m), held'[cid[w]][l] # "none",
         Got(w, l), made' \subseteq Locks \ Persisted,
         UNCHANGED <<cid, cidUsed, sidSeq, cacheLatch, version>>
  PROVE  StoreInv'
<1>1. StoreTypeOK /\ TypeOK'
  BY DEF StoreInv, LockInv
<1>2. /\ locked' = [locked EXCEPT ![w] = <<l>> \o locked[w]]
      /\ seen' = [seen EXCEPT ![w][l] = IF l \in Range(locked[w]) THEN seen[w][l]
                                                                 ELSE version[l]]
      /\ UNCHANGED <<pc, aborted>>
  BY DEF Got
<1>3. locked[w] \in Seq(Locks)
  BY <1>1 DEF StoreTypeOK
<1>4. <<l>> \o locked[w] \in Seq(Locks) /\ Range(<<l>> \o locked[w]) = {l} \cup Range(locked[w])
  BY <1>3, RangePrepend
<1>5. /\ Range(locked'[w]) = {l} \cup Range(locked[w])
      /\ \A v \in Workers : v # w => locked'[v] = locked[v]
      /\ locked' \in [Workers -> Seq(Locks)]
  BY <1>1, <1>2, <1>4 DEF StoreTypeOK
<1>6. /\ seen' \in [Workers -> [Locks -> 0 .. 1]]
      /\ \A v \in Workers, x \in Locks : v # w \/ x # l => seen'[v][x] = seen[v][x]
      /\ seen'[w][l] = IF l \in Range(locked[w]) THEN seen[w][l] ELSE version[l]
  BY <1>1, <1>2 DEF StoreTypeOK
<1>7. StoreTypeOK'
  <2>1. pc' \in [Workers -> {"idle", "running", "refused", "finishing", "released"}]
        /\ aborted' \in BOOLEAN
    BY <1>1, <1>2 DEF StoreTypeOK
  <2>2. /\ cid' \in [Workers -> Cid]
        /\ cidUsed' \subseteq Cid
        /\ sidSeq' \in 0 .. MaxSid
        /\ cacheLatch' \subseteq Workers
        /\ version' \in [Locks -> 0 .. 1]
    BY <1>1 DEF StoreTypeOK
  <2>3. QED
    BY <1>1, <1>5, <1>6, <2>1, <2>2 DEF StoreTypeOK
<1>8. CidsDistinct' /\ NothingLocked'
  BY <1>2, <1>5 DEF StoreInv, CidsDistinct, NothingLocked
<1>9. \A v \in Workers : Range(locked[v]) \subseteq Locks
  BY <1>1 DEF StoreTypeOK, Range
<1>10. LockedHeld'
  <2> SUFFICES ASSUME NEW v \in Workers, NEW x \in Range(locked'[v]),
                      pc[v] \in {"running", "refused"}
               PROVE  held'[cid[v]][x] # "none"
    BY <1>2 DEF LockedHeld
  <2>1. CASE v # w
    <3>1. x \in Range(locked[v])
      BY <2>1, <1>5
    <3>2. held[cid[v]][x] # "none"
      BY <3>1 DEF StoreInv, LockedHeld
    <3>3. held'[cid[v]] = held[cid[v]]
      BY <2>1, HeldOfOthers
    <3>4. QED
      BY <3>2, <3>3
  <2>2. CASE v = w /\ x \in Range(locked[w])
    BY <2>2, <1>9, HeldOfOthers DEF StoreInv, LockedHeld
  <2>3. CASE v = w /\ x = l
    BY <2>3
  <2>4. QED
    BY <2>1, <2>2, <2>3, <1>5
<1>11. ReadsStable'
  <2> SUFFICES ASSUME NEW v \in Workers, NEW x \in Range(locked'[v]),
                      pc[v] \in {"running", "refused"}
               PROVE  seen'[v][x] = version[x]
    BY <1>2 DEF ReadsStable
  <2>1. CASE v # w
    BY <2>1, <1>5, <1>6, <1>9 DEF StoreInv, ReadsStable
  <2>2. CASE v = w /\ x \in Range(locked[w])
    BY <2>2, <1>6, <1>9 DEF StoreInv, ReadsStable
  <2>3. CASE v = w /\ x = l /\ x \notin Range(locked[w])
    BY <2>3, <1>6
  <2>4. QED
    BY <2>1, <2>2, <2>3, <1>5
<1>12. QED
  BY <1>7, <1>8, <1>10, <1>11 DEF StoreInv

\* The outcome of a call for l, now or after a wait.
LEMMA OutcomeInv ==
  ASSUME StoreInv, LockInv', NEW w \in Workers, NEW l \in Locks, NEW m \in Modes,
         pc[w] = "running",
         held' = held \/ Taken(cid[w], l, m),
         Outcome(w, l, m),
         UNCHANGED <<cid, cidUsed, sidSeq, made, cacheLatch>>
  PROVE  StoreInv'
<1>1. StoreTypeOK /\ TypeOK'
  BY DEF StoreInv, LockInv
<1>2. \A v \in Workers : Range(locked[v]) \subseteq Locks
  BY <1>1 DEF StoreTypeOK, Range
<1>3. CidsDistinct' /\ NothingLocked'
  <2>1. \A v \in Workers : pc'[v] # "idle" => pc[v] # "idle"
    BY <1>1 DEF Outcome, Got, GetRefused, Write, UpgradeRefused, StoreTypeOK
  <2>2. \A v \in Workers : pc'[v] \in {"idle", "released"} => pc'[v] = pc[v] /\ v # w
    BY <1>1 DEF Outcome, Got, GetRefused, Write, UpgradeRefused, StoreTypeOK
  <2>3. \A v \in Workers : v # w => locked'[v] = locked[v]
    BY <1>1 DEF Outcome, Got, GetRefused, Write, UpgradeRefused, StoreTypeOK
  <2>4. QED
    BY <2>1, <2>2, <2>3 DEF StoreInv, CidsDistinct, NothingLocked
\* whatever is not a new object or a write
<1>4. ASSUME UNCHANGED <<locked, version, seen>>,
             pc' = pc \/ pc' = [pc EXCEPT ![w] = "refused"], aborted' \in BOOLEAN
      PROVE  StoreInv'
  <2>1. StoreTypeOK'
    BY <1>1, <1>4 DEF StoreTypeOK
  <2>2. \A v \in Workers : pc'[v] \in {"running", "refused"} =>
                             pc[v] \in {"running", "refused"}
    BY <1>1, <1>4 DEF StoreTypeOK
  <2>3. ReadsStable'
    BY <1>4, <2>2 DEF StoreInv, ReadsStable
  <2>4. LockedHeld'
    <3> SUFFICES ASSUME NEW v \in Workers, NEW x \in Range(locked[v]),
                        pc[v] \in {"running", "refused"}
                 PROVE  held'[cid[v]][x] # "none"
      BY <1>4, <2>2 DEF LockedHeld
    <3>1. CASE v # w
      BY <3>1, HeldOfOthers DEF StoreInv, LockedHeld
    <3>2. CASE v = w
      BY <3>2, <1>2, HeldOfOthers DEF StoreInv, LockedHeld
    <3>3. QED
      BY <3>1, <3>2
  <2>5. QED
    BY <1>3, <2>1, <2>3, <2>4 DEF StoreInv
<1>5. CASE NoReturn(cid[w]) /\ UNCHANGED <<pc, locked, version, seen, aborted>>
  BY <1>1, <1>4, <1>5 DEF StoreTypeOK
<1>6. CASE m = "shared" /\ LockTaken(cid[w], l, m) /\ Got(w, l) /\ UNCHANGED version
  <2>1. held'[cid[w]][l] # "none"
    BY <1>6 DEF LockTaken
  <2>2. made' \subseteq Locks \ Persisted
    BY <1>1 DEF StoreTypeOK
  <2>3. QED
    BY <1>6, <2>1, <2>2, GotInv
<1>7. CASE GetRefused /\ UNCHANGED version
  BY <1>4, <1>7 DEF GetRefused
<1>8. CASE UpgradeRefused(w) /\ UNCHANGED version
  BY <1>1, <1>4, <1>8 DEF UpgradeRefused, StoreTypeOK
<1>9. CASE m = "exclusive" /\ LockTaken(cid[w], l, m) /\ Write(w, l)
  <2>1. /\ version' = [version EXCEPT ![l] = 1 - version[l]]
        /\ seen' = [seen EXCEPT ![w][l] = 1 - version[l]]
        /\ UNCHANGED <<pc, locked, aborted>>
    BY <1>9 DEF Write
  <2>2. /\ version' \in [Locks -> 0 .. 1]
        /\ seen' \in [Workers -> [Locks -> 0 .. 1]]
        /\ version'[l] = 1 - version[l]
        /\ seen'[w][l] = 1 - version[l]
        /\ \A x \in Locks : x # l => version'[x] = version[x]
        /\ \A v \in Workers, x \in Locks : v # w \/ x # l => seen'[v][x] = seen[v][x]
    <3> DEFINE next == 1 - version[l]
    <3>0. version[l] \in {0, 1}
      BY <1>1 DEF StoreTypeOK
    <3>1. next \in 0 .. 1
      BY <3>0
    <3>2. /\ version' = [version EXCEPT ![l] = next]
          /\ seen' = [seen EXCEPT ![w][l] = next]
      BY <2>1
    <3> HIDE DEF next
    <3>3. /\ version' \in [Locks -> 0 .. 1]
          /\ version'[l] = next
          /\ \A x \in Locks : x # l => version'[x] = version[x]
      BY <1>1, <3>1, <3>2 DEF StoreTypeOK
    <3>4. /\ seen' \in [Workers -> [Locks -> 0 .. 1]]
          /\ seen'[w][l] = next
          /\ \A v \in Workers, x \in Locks : v # w \/ x # l => seen'[v][x] = seen[v][x]
      BY <1>1, <3>1, <3>2 DEF StoreTypeOK
    <3>5. QED
      BY <3>3, <3>4 DEF next
  <2>3. StoreTypeOK'
    BY <1>1, <2>1, <2>2 DEF StoreTypeOK
  <2>4. held'[cid[w]][l] = "exclusive" /\ cid[w] \in Cid
    BY <1>1, <1>9 DEF LockTaken, StoreTypeOK
  <2>5. LockedHeld'
    <3> SUFFICES ASSUME NEW v \in Workers, NEW x \in Range(locked[v]),
                        pc[v] \in {"running", "refused"}
                 PROVE  held'[cid[v]][x] # "none"
      BY <2>1 DEF LockedHeld
    <3>1. CASE v # w
      BY <3>1, HeldOfOthers DEF StoreInv, LockedHeld
    <3>2. CASE v = w
      BY <3>2, <1>2, HeldOfOthers DEF StoreInv, LockedHeld
    <3>3. QED
      BY <3>1, <3>2
  \* nobody else can be running on what w has just written
  <2>6. ASSUME NEW v \in Workers, v # w, l \in Range(locked[v]),
               pc[v] \in {"running", "refused"}
        PROVE  FALSE
    <3>1. cid[v] \in Cid /\ cid[v] # cid[w]
      BY <1>1, <2>6 DEF StoreInv, StoreTypeOK, CidsDistinct
    <3>2. held'[cid[v]][l] = "none"
      BY <2>4, <3>1, ExclusionNext DEF Exclusion
    <3>3. held'[cid[v]][l] # "none"
      BY <2>1, <2>5, <2>6 DEF LockedHeld
    <3>4. QED
      BY <3>2, <3>3
  <2>7. ReadsStable'
    <3> SUFFICES ASSUME NEW v \in Workers, NEW x \in Range(locked[v]),
                        pc[v] \in {"running", "refused"}
                 PROVE  seen'[v][x] = version'[x]
      BY <2>1 DEF ReadsStable
    <3>1. CASE x = l /\ v = w
      BY <3>1, <2>2
    <3>2. CASE x = l /\ v # w
      BY <3>2, <2>6
    <3>3. CASE x # l
      BY <3>3, <1>2, <2>2 DEF StoreInv, ReadsStable
    <3>4. QED
      BY <3>1, <3>2, <3>3
  <2>8. QED
    BY <1>3, <2>3, <2>5, <2>7 DEF StoreInv
<1>10. QED
  BY <1>5, <1>6, <1>7, <1>8, <1>9 DEF Outcome

-----------------------------------------------------------------------------
(* The other steps.                                                        *)

LEMMA StartTxInv ==
  ASSUME StoreInv, NEW w \in Workers, StartTx(w)
  PROVE  StoreInv'
<1>1. StoreTypeOK /\ LockInv /\ TypeOK /\ locked[w] = << >>
  BY DEF StoreInv, LockInv, StartTx, NothingLocked
<1>2. PICK c \in Cid \ cidUsed :
        /\ cid' = [cid EXCEPT ![w] = c]
        /\ cidUsed' = cidUsed \cup {c}
        /\ sid' = [sid EXCEPT ![c] = sidSeq]
  BY DEF StartTx, FirstFree
<1>3. /\ pc[w] = "idle" /\ sidSeq < MaxSid /\ sidSeq' = sidSeq + 1
      /\ pc' = [pc EXCEPT ![w] = "running"]
      /\ UNCHANGED <<chain, last, wfg, txByCid, waiting, held, fault>>
      /\ UNCHANGED <<locked, made, cacheLatch, version, seen, aborted>>
  BY DEF StartTx, lockVars
<1>4. sid' \in [Cid -> Nat] /\ fault' \in Faults \cup {"none"}
  BY <1>1, <1>2, <1>3 DEF StoreTypeOK, TypeOK
<1>5. LockInv'
  BY <1>1, <1>3, <1>4, NoChangeInv
<1>6. StoreTypeOK'
  BY <1>1, <1>2, <1>3, <1>5, StoreAssumption DEF StoreTypeOK, LockInv
<1>7. /\ \A v \in Workers : v # w => pc'[v] = pc[v] /\ cid'[v] = cid[v]
      /\ pc'[w] = "running" /\ cid'[w] = c
  BY <1>1, <1>2, <1>3 DEF StoreTypeOK
<1>8. CidsDistinct'
  BY <1>1, <1>2, <1>3, <1>7 DEF StoreInv, CidsDistinct
<1>9. NothingLocked'
  BY <1>3, <1>7 DEF StoreInv, NothingLocked
<1>10. Range(locked[w]) = {}
  BY <1>1 DEF Range
<1>11. LockedHeld' /\ ReadsStable'
  BY <1>3, <1>7, <1>10 DEF StoreInv, LockedHeld, ReadsStable
<1>12. QED
  BY <1>5, <1>6, <1>8, <1>9, <1>11 DEF StoreInv

LEMMA MethodInv ==
  ASSUME StoreInv, NEW w \in Workers, NEW l \in Locks,
         GetObject(w, l) \/ SetGlobal(w, l) \/ MakeObject(w, l)
  PROVE  StoreInv'
<1>1. /\ StoreTypeOK /\ LockInv /\ TypeOK
      /\ cid[w] \in Cid /\ "shared" \in Modes /\ "exclusive" \in Modes
  BY DEF StoreInv, LockInv, StoreTypeOK, Modes
<1>2. pc[w] = "running" /\ sid' \in [Cid -> Nat]
  BY <1>1 DEF GetObject, SetGlobal, MakeObject, Active, TypeOK
<1>3. ASSUME NEW m \in Modes, LockLock(cid[w], l, m), Outcome(w, l, m),
             UNCHANGED <<cid, cidUsed, sidSeq, made, cacheLatch>>
      PROVE  StoreInv'
  BY <1>1, <1>2, <1>3, LockLockInv, LockLockHeld, OutcomeInv
<1>4. CASE GetObject(w, l) \/ SetGlobal(w, l)
  BY <1>1, <1>3, <1>4 DEF GetObject, SetGlobal
<1>5. CASE MakeObject(w, l)
  <2>1. LockFree(cid[w], l, "exclusive") /\ Got(w, l) /\ made' = made \cup {l}
    BY <1>5 DEF MakeObject
  <2>2. LockInv'
    BY <1>1, <1>2, <2>1, LockFreeInv
  <2>3. Taken(cid[w], l, "exclusive")
    BY <2>1 DEF LockFree
  <2>4. held'[cid[w]][l] # "none"
    BY <1>1, <2>3, TakenType
  <2>5. made' \subseteq Locks \ Persisted
    BY <1>1, <1>5, <2>1 DEF MakeObject, StoreTypeOK
  <2>6. UNCHANGED <<cid, cidUsed, sidSeq, cacheLatch, version>>
    BY <1>5 DEF MakeObject
  <2>7. QED
    BY <1>1, <1>2, <2>1, <2>2, <2>3, <2>4, <2>5, <2>6, GotInv
<1>6. QED
  BY <1>4, <1>5

LEMMA ResumeInv ==
  ASSUME StoreInv, NEW w \in Workers, Resume(w)
  PROVE  StoreInv'
<1>1. PICK x \in waiting : x.tx = cid[w] /\ Wake(x) /\ Outcome(w, x.lock, x.mode)
  BY DEF Resume
<1>2. /\ pc[w] = "running"
      /\ UNCHANGED <<sid, cid, cidUsed, sidSeq, made, cacheLatch>>
  BY DEF Resume
<1>3. LockInv /\ x.lock \in Locks /\ x.mode \in Modes
  BY <1>1, WaiterType DEF StoreInv
<1>4. sid' \in [Cid -> Nat]
  BY <1>2, <1>3 DEF LockInv, TypeOK
<1>5. LockInv'
  BY <1>1, <1>3, <1>4, WakeInv
<1>6. held' = held \/ Taken(cid[w], x.lock, x.mode)
  BY <1>1, WakeHeld
<1>7. QED
  BY <1>1, <1>2, <1>3, <1>5, <1>6, OutcomeInv
\* store_finish_tx() takes locks away only from a transaction that is at its
\* end.
LEMMA FinishTxInv ==
  ASSUME StoreInv, NEW w \in Workers, FinishTx(w) \/ ReleaseCache(w)
  PROVE  StoreInv'
<1>1. StoreTypeOK /\ LockInv /\ TypeOK
  BY DEF StoreInv, LockInv
<1>2. /\ UNCHANGED <<chain, last, wfg, txByCid, waiting, held, fault, sid>>
      /\ UNCHANGED <<cid, locked, cidUsed, sidSeq, made, version, seen, aborted>>
      /\ cacheLatch' \subseteq Workers
      /\ \/ /\ pc[w] \in {"running", "refused"}
            /\ pc' = [pc EXCEPT ![w] = "finishing"]
         \/ /\ pc[w] = "finishing" /\ locked[w] = << >>
            /\ pc' = [pc EXCEPT ![w] = "released"]
  BY DEF FinishTx, ReleaseCache, vars, lockVars
<1>3. LockInv'
  BY <1>1, <1>2, NoChangeInv DEF TypeOK
<1>4. StoreTypeOK'
  BY <1>1, <1>2, <1>3 DEF StoreTypeOK, LockInv
<1>5. /\ \A v \in Workers : v # w => pc'[v] = pc[v]
      /\ pc'[w] \in {"finishing", "released"} /\ pc[w] # "idle"
      /\ pc'[w] = "released" => locked[w] = << >>
  BY <1>1, <1>2 DEF StoreTypeOK
<1>6. CidsDistinct' /\ NothingLocked'
  BY <1>2, <1>5 DEF StoreInv, CidsDistinct, NothingLocked
<1>7. LockedHeld' /\ ReadsStable'
  BY <1>2, <1>5 DEF StoreInv, LockedHeld, ReadsStable
<1>8. QED
  BY <1>3, <1>4, <1>6, <1>7 DEF StoreInv

LEMMA UnlockNextInv ==
  ASSUME StoreInv, NEW w \in Workers, UnlockNext(w)
  PROVE  StoreInv'
<1> DEFINE l == Head(locked[w])
<1>1. StoreTypeOK /\ LockInv /\ TypeOK
  BY DEF StoreInv, LockInv
<1>2. /\ pc[w] = "finishing" /\ locked[w] # << >>
      /\ LockUnlock(cid[w], l)
      /\ locked' = [locked EXCEPT ![w] = Tail(locked[w])]
      /\ UNCHANGED <<sid, pc, cid, cidUsed, sidSeq, made, cacheLatch, version, seen,
                     aborted>>
  BY DEF UnlockNext
<1>3. l \in Locks /\ Tail(locked[w]) \in Seq(Locks) /\ cid[w] \in Cid
  BY <1>1, <1>2 DEF StoreTypeOK
<1> HIDE DEF l
<1>4. LockInv'
  BY <1>1, <1>2, <1>3, LockUnlockInv DEF TypeOK
<1>5. /\ locked' \in [Workers -> Seq(Locks)]
      /\ \A v \in Workers : v # w => locked'[v] = locked[v]
  BY <1>1, <1>2, <1>3 DEF StoreTypeOK
<1>6. StoreTypeOK'
  BY <1>1, <1>2, <1>4, <1>5 DEF StoreTypeOK, LockInv
<1>7. CidsDistinct' /\ NothingLocked'
  BY <1>2, <1>5 DEF StoreInv, CidsDistinct, NothingLocked
<1>8. \A c \in Cid : c # cid[w] => held'[c] = held[c]
  BY <1>1, <1>2, <1>3, LockUnlockHeld DEF TypeOK
<1>9. \A v \in Workers : v # w /\ pc[v] # "idle" => held'[cid[v]] = held[cid[v]]
  BY <1>1, <1>2, <1>8 DEF StoreInv, StoreTypeOK, CidsDistinct
<1>10. LockedHeld' /\ ReadsStable'
  BY <1>2, <1>5, <1>9 DEF StoreInv, LockedHeld, ReadsStable
<1>11. QED
  BY <1>4, <1>6, <1>7, <1>10 DEF StoreInv

LEMMA FreeTxInv ==
  ASSUME StoreInv, NEW w \in Workers, FreeTx(w)
  PROVE  StoreInv'
<1>1. StoreTypeOK /\ LockInv /\ TypeOK
  BY DEF StoreInv, LockInv
<1>2. /\ pc[w] = "released" /\ cidUsed' = cidUsed \ {cid[w]}
      /\ txByCid' = [txByCid EXCEPT ![cid[w]] =
                       IF txByCid[cid[w]] = "unset" THEN txByCid[cid[w]] ELSE "freed"]
      /\ pc' = [pc EXCEPT ![w] = "idle"]
      /\ UNCHANGED <<chain, last, wfg, waiting, held, fault, sid>>
      /\ UNCHANGED <<cid, locked, sidSeq, made, cacheLatch, version, seen, aborted>>
  BY DEF FreeTx
<1>3. cid[w] \in Cid
  BY <1>1 DEF StoreTypeOK
<1>4. txByCid' \in [Cid -> {"unset", "live", "freed"}]
  BY <1>1, <1>2, <1>3 DEF TypeOK
<1>5. TypeOK'
  BY <1>1, <1>2, <1>4 DEF TypeOK
<1>6. LockInv'
  BY <1>1, <1>2, <1>5 DEF LockInv, GroupsWellFormed, OwnGroup, HolderInFirstGroup, First
<1>7. StoreTypeOK'
  BY <1>1, <1>2, <1>5 DEF StoreTypeOK
<1>8. \A v \in Workers : v # w => pc'[v] = pc[v]
  BY <1>1, <1>2 DEF StoreTypeOK
<1>9. pc'[w] = "idle"
  BY <1>1, <1>2 DEF StoreTypeOK
<1>10. CidsDistinct'
  BY <1>2, <1>8, <1>9 DEF StoreInv, CidsDistinct
<1>11. NothingLocked' /\ LockedHeld' /\ ReadsStable'
  BY <1>2, <1>8, <1>9 DEF StoreInv, NothingLocked, LockedHeld, ReadsStable
<1>12. QED
  BY <1>6, <1>7, <1>10, <1>11 DEF StoreInv

-----------------------------------------------------------------------------
(* Who sleeps or holds a lock is at work on a transaction.                 *)

\* A call that sleeps belongs to a running transaction; an upgrade is asked
\* for by one that has the object.
SleepersRun ==
  \A x \in waiting : \E v \in Workers :
    /\ cid[v] = x.tx
    /\ pc[v] = "running"
    /\ x.mode = "exclusive" => x.lock \in Range(locked[v])

\* Whatever a transaction holds is still on the list of what it releases.
HeldListed ==
  \A c \in Cid : \A l \in Locks : held[c][l] # "none" =>
    \E v \in Workers : /\ cid[v] = c
                       /\ pc[v] \in {"running", "refused", "finishing"}
                       /\ l \in Range(locked[v])

\* The inductive invariant behind NothingLeftBehind.
StoreChainInv == StoreInv /\ ChainInv /\ SleepersRun /\ HeldListed

\* lock_lock() either sleeps or tells what it has taken.
LEMMA LockLockReturns ==
  ASSUME NEW t \in Cid, NEW l \in Locks, NEW m \in Modes, LockLock(t, l, m)
  PROVE  /\ held' = held \/ (Taken(t, l, m) /\ ~NoReturn(t))
         /\ \A x \in waiting' : x \in waiting \/ (x.tx = t /\ x.lock = l /\ x.mode = m)
<1>1. fault = "none" /\ ~IsWaiting(t)
  BY DEF LockLock
<1>2. CASE LockFree(t, l, m) \/ LockCovered(t, l, m) \/ LockUpgradeNow(t, l, m)
  <2>1. Taken(t, l, m) /\ UNCHANGED <<waiting, fault>>
    BY <1>2 DEF LockFree, LockCovered, LockUpgradeNow
  <2>2. QED
    BY <1>1, <2>1 DEF NoReturn, IsWaiting
<1>3. CASE LockJoin(t, l, m)
  <2>1. UNCHANGED fault
    BY <1>3 DEF LockJoin
  <2>2. CASE Taken(t, l, m) /\ UNCHANGED waiting
    BY <1>1, <2>1, <2>2 DEF NoReturn, IsWaiting
  <2>3. CASE /\ waiting' = waiting \cup
                  {[tx |-> t, lock |-> l, mode |-> m, role |-> "joiner"]}
             /\ UNCHANGED held
    BY <2>3
  <2>4. QED
    BY <1>3, <2>2, <2>3 DEF LockJoin
<1>4. CASE LockStale(t, l, m) \/ LockFreedTail(t, l, m) \/ LockSearchFault(t, l, m)
  BY <1>4 DEF LockStale, LockFreedTail, LockSearchFault, Crash, lockVars
<1>5. CASE LockQueue(t, l, m) \/ LockQueueMark(t, l, m)
  <2>1. UNCHANGED held /\ QueueWaiter(t, l, m)
    BY <1>5 DEF LockQueue, LockQueueMark
  <2>2. QED
    BY <2>1 DEF QueueWaiter
<1>6. CASE LockDeadlock(t, l, m)
  BY <1>6 DEF LockDeadlock
<1>7. QED
  BY <1>2, <1>3, <1>4, <1>5, <1>6 DEF LockLock

\* So does a call that goes on after a wait, for it was the only one.
LEMMA WakeReturns ==
  ASSUME OneCallEach, NEW w \in waiting, Wake(w)
  PROVE  /\ held' = held \/ (Taken(w.tx, w.lock, w.mode) /\ ~NoReturn(w.tx))
         /\ waiting' \subseteq waiting
<1>1. fault = "none"
  BY DEF Wake
<1>2. CASE WakeJoined(w) \/ WakeGranted(w)
  <2>1. Taken(w.tx, w.lock, w.mode) /\ waiting' = waiting \ {w} /\ UNCHANGED fault
    BY <1>2 DEF WakeJoined, WakeGranted, StopWaiting
  <2>2. ~ \E x \in waiting' : x.tx = w.tx
    BY <2>1 DEF OneCallEach
  <2>3. QED
    BY <1>1, <2>1, <2>2 DEF NoReturn
<1>3. CASE WakeDeadlocked(w)
  BY <1>3 DEF WakeDeadlocked, Crash, StopWaiting
<1>4. QED
  BY <1>2, <1>3 DEF Wake

\* What the worker does with the outcome of the call keeps both.
LEMMA OutcomeListed ==
  ASSUME StoreChainInv, NEW w \in Workers, NEW l \in Locks, NEW m \in Modes,
         pc[w] = "running",
         m = "exclusive" => l \in Range(locked[w]),
         held' = held \/ (Taken(cid[w], l, m) /\ ~NoReturn(cid[w])),
         \A x \in waiting' :
           x \in waiting \/ (x.tx = cid[w] /\ x.lock = l /\ x.mode = m),
         Outcome(w, l, m),
         UNCHANGED cid
  PROVE  SleepersRun' /\ HeldListed'
<1>1. StoreTypeOK /\ TypeOK /\ cid[w] \in Cid /\ locked[w] \in Seq(Locks)
  BY DEF StoreChainInv, StoreInv, LockInv, StoreTypeOK
<1>2. <<l>> \o locked[w] \in Seq(Locks) /\ Range(<<l>> \o locked[w]) = {l} \cup Range(locked[w])
  BY <1>1, RangePrepend
<1>3. \A v \in Workers : v # w => pc'[v] = pc[v] /\ locked'[v] = locked[v]
  BY <1>1 DEF Outcome, Got, GetRefused, Write, UpgradeRefused, StoreTypeOK
<1>4. /\ pc'[w] \in {"running", "refused"}
      /\ Range(locked[w]) \subseteq Range(locked'[w])
      /\ NoReturn(cid[w]) => pc'[w] = "running"
  <2>1. ASSUME UNCHANGED <<pc, locked>>
        PROVE  <1>4
    BY <2>1
  <2>2. CASE Got(w, l)
    <3>1. UNCHANGED pc /\ locked'[w] = <<l>> \o locked[w]
      BY <1>1, <2>2 DEF Got, StoreTypeOK
    <3>2. QED
      BY <1>2, <3>1
  <2>3. CASE ~NoReturn(cid[w]) /\ UpgradeRefused(w)
    BY <1>1, <2>3 DEF UpgradeRefused, StoreTypeOK
  <2>4. QED
    BY <2>1, <2>2, <2>3 DEF Outcome, GetRefused, Write
<1>5. ASSUME Taken(cid[w], l, m), ~NoReturn(cid[w])
      PROVE  l \in Range(locked'[w])
  <2>1. CASE m = "exclusive"
    BY <1>4, <2>1
  <2>2. CASE m = "shared"
    <3>1. LockTaken(cid[w], l, m)
      BY <1>1, <1>5, TakenType DEF LockTaken
    <3>2. Got(w, l)
      BY <1>5, <2>2, <3>1 DEF Outcome
    <3>3. locked'[w] = <<l>> \o locked[w]
      BY <1>1, <3>2 DEF Got, StoreTypeOK
    <3>4. QED
      BY <1>2, <3>3
  <2>3. QED
    BY <2>1, <2>2 DEF Modes
<1>6. SleepersRun'
  <2> SUFFICES ASSUME NEW x \in waiting'
               PROVE  \E v \in Workers : /\ cid[v] = x.tx
                                         /\ pc'[v] = "running"
                                         /\ x.mode = "exclusive" => x.lock \in Range(locked'[v])
    BY DEF SleepersRun
  <2>1. CASE x \in waiting
    <3>1. PICK v \in Workers : /\ cid[v] = x.tx
                               /\ pc[v] = "running"
                               /\ x.mode = "exclusive" => x.lock \in Range(locked[v])
      BY <2>1 DEF StoreChainInv, SleepersRun
    <3>2. CASE v # w
      BY <1>3, <3>1, <3>2
    <3>3. CASE v = w
      <4>1. NoReturn(cid[w])
        BY <3>1, <3>3 DEF NoReturn
      <4>2. QED
        BY <1>4, <3>1, <3>3, <4>1
    <3>4. QED
      BY <3>2, <3>3
  <2>2. CASE x.tx = cid[w] /\ x.lock = l /\ x.mode = m
    <3>1. NoReturn(cid[w])
      BY <2>2 DEF NoReturn
    <3>2. QED
      BY <1>4, <2>2, <3>1
  <2>3. QED
    BY <2>1, <2>2
<1>7. HeldListed'
  <2> SUFFICES ASSUME NEW c \in Cid, NEW y \in Locks, held'[c][y] # "none"
               PROVE  \E v \in Workers : /\ cid[v] = c
                                         /\ pc'[v] \in {"running", "refused", "finishing"}
                                         /\ y \in Range(locked'[v])
    BY DEF HeldListed
  <2>1. CASE held[c][y] # "none"
    <3>1. PICK v \in Workers : /\ cid[v] = c
                               /\ pc[v] \in {"running", "refused", "finishing"}
                               /\ y \in Range(locked[v])
      BY <2>1 DEF StoreChainInv, HeldListed
    <3>2. QED
      BY <1>3, <1>4, <3>1
  <2>2. CASE held[c][y] = "none"
    <3>1. Taken(cid[w], l, m) /\ ~NoReturn(cid[w])
      BY <2>2
    <3>2. c = cid[w] /\ y = l
      BY <1>1, <2>2, <3>1, TakenType
    <3>3. QED
      BY <1>4, <1>5, <3>1, <3>2
  <2>3. QED
    BY <2>1, <2>2
<1>8. QED
  BY <1>6, <1>7

\* A transaction that is at its end sleeps nowhere, so another worker can not
\* be taken for it.
LEMMA StartTxListed ==
  ASSUME StoreChainInv, NEW w \in Workers, StartTx(w)
  PROVE  StoreChainInv'
<1>1. StoreInv' /\ StoreTypeOK
  BY StartTxInv DEF StoreChainInv, StoreInv
<1>2. /\ pc[w] = "idle"
      /\ pc' = [pc EXCEPT ![w] = "running"]
      /\ \E c \in Cid : cid' = [cid EXCEPT ![w] = c]
      /\ UNCHANGED <<chain, last, wfg, txByCid, waiting, held, fault, locked>>
  BY DEF StartTx, lockVars, FirstFree
<1>3. \A v \in Workers : v # w => pc'[v] = pc[v] /\ cid'[v] = cid[v]
  BY <1>1, <1>2 DEF StoreTypeOK
<1>4. ChainInv'
  BY <1>1, <1>2, NoChangeSleep DEF StoreChainInv, StoreInv, ChainInv, SleepInv
<1>5. SleepersRun' /\ HeldListed'
  BY <1>2, <1>3 DEF StoreChainInv, SleepersRun, HeldListed
<1>6. QED
  BY <1>1, <1>4, <1>5 DEF StoreChainInv

LEMMA MethodListed ==
  ASSUME StoreChainInv, NEW w \in Workers, NEW l \in Locks,
         GetObject(w, l) \/ SetGlobal(w, l) \/ MakeObject(w, l)
  PROVE  StoreChainInv'
<1>1. /\ StoreInv /\ StoreTypeOK /\ LockInv /\ TypeOK /\ ChainInv
      /\ cid[w] \in Cid /\ "shared" \in Modes /\ "exclusive" \in Modes
  BY DEF StoreChainInv, StoreInv, LockInv, StoreTypeOK, Modes
<1>2. StoreInv'
  BY <1>1, MethodInv
<1>3. /\ pc[w] = "running" /\ sid' \in [Cid -> Nat] /\ UNCHANGED cid
      /\ fault = "none" /\ ~IsWaiting(cid[w])
  BY <1>1 DEF GetObject, SetGlobal, MakeObject, Active, Up, TypeOK
<1>4. ASSUME NEW m \in Modes, LockLock(cid[w], l, m), Outcome(w, l, m),
             m = "exclusive" => l \in Range(locked[w])
      PROVE  StoreChainInv'
  <2>1. ChainInv'
    BY <1>1, <1>3, <1>4, LockLockChain
  <2>2. /\ held' = held \/ (Taken(cid[w], l, m) /\ ~NoReturn(cid[w]))
        /\ \A x \in waiting' :
             x \in waiting \/ (x.tx = cid[w] /\ x.lock = l /\ x.mode = m)
    BY <1>1, <1>4, LockLockReturns
  <2>3. SleepersRun' /\ HeldListed'
    BY <1>3, <1>4, <2>2, OutcomeListed
  <2>4. QED
    BY <1>2, <2>1, <2>3 DEF StoreChainInv
<1>5. CASE GetObject(w, l)
  BY <1>1, <1>4, <1>5 DEF GetObject
<1>6. CASE SetGlobal(w, l)
  BY <1>1, <1>4, <1>6 DEF SetGlobal
<1>7. CASE MakeObject(w, l)
  <2>1. LockFree(cid[w], l, "exclusive") /\ Got(w, l)
    BY <1>7 DEF MakeObject
  <2>2. LockLock(cid[w], l, "exclusive")
    BY <1>3, <2>1 DEF LockLock
  <2>3. ChainInv'
    BY <1>1, <1>3, <2>2, LockLockChain
  <2>4. Taken(cid[w], l, "exclusive") /\ UNCHANGED waiting
    BY <2>1 DEF LockFree
  <2>5. UNCHANGED pc /\ locked' = [locked EXCEPT ![w] = <<l>> \o locked[w]]
    BY <2>1 DEF Got
  <2>6. <<l>> \o locked[w] \in Seq(Locks) /\ Range(<<l>> \o locked[w]) = {l} \cup Range(locked[w])
    BY <1>1, RangePrepend DEF StoreTypeOK
  <2>7. /\ \A v \in Workers : Range(locked[v]) \subseteq Range(locked'[v])
        /\ l \in Range(locked'[w])
    BY <1>1, <2>5, <2>6 DEF StoreTypeOK
  <2>8. SleepersRun'
    BY <1>3, <2>4, <2>5, <2>7 DEF StoreChainInv, SleepersRun
  <2>9. \A c \in Cid, y \in Locks : c # cid[w] \/ y # l => held'[c][y] = held[c][y]
    BY <1>1, <2>4, TakenType
  <2>10. HeldListed'
    BY <1>3, <2>5, <2>7, <2>9 DEF StoreChainInv, HeldListed
  <2>11. QED
    BY <1>2, <2>3, <2>8, <2>10 DEF StoreChainInv
<1>8. QED
  BY <1>5, <1>6, <1>7

LEMMA ResumeListed ==
  ASSUME StoreChainInv, NEW w \in Workers, Resume(w)
  PROVE  StoreChainInv'
<1>1. PICK x \in waiting : x.tx = cid[w] /\ Wake(x) /\ Outcome(w, x.lock, x.mode)
  BY DEF Resume
<1>2. /\ pc[w] = "running"
      /\ UNCHANGED <<sid, cid>>
  BY DEF Resume
<1>3. /\ StoreInv /\ StoreTypeOK /\ LockInv /\ ChainInv /\ CidsDistinct
      /\ x.lock \in Locks /\ x.mode \in Modes /\ x.tx \in Cid
  BY <1>1, WaiterType DEF StoreChainInv, StoreInv
<1>4. StoreInv' /\ sid' \in [Cid -> Nat]
  BY <1>2, <1>3, ResumeInv DEF LockInv, TypeOK
<1>5. LockWake(x.tx)
  BY <1>1 DEF LockWake
<1>6. ChainInv'
  BY <1>3, <1>4, <1>5, LockWakeChain
<1>7. /\ held' = held \/ (Taken(cid[w], x.lock, x.mode) /\ ~NoReturn(cid[w]))
      /\ waiting' \subseteq waiting
  BY <1>1, <1>3, WakeReturns DEF ChainInv
\* the call that wakes up was this worker's
<1>8. x.mode = "exclusive" => x.lock \in Range(locked[w])
  <2>1. PICK v \in Workers : /\ cid[v] = x.tx
                             /\ pc[v] = "running"
                             /\ x.mode = "exclusive" => x.lock \in Range(locked[v])
    BY DEF StoreChainInv, SleepersRun
  <2>2. v = w
    BY <1>1, <1>2, <1>3, <2>1 DEF CidsDistinct
  <2>3. QED
    BY <2>1, <2>2
<1>9. SleepersRun' /\ HeldListed'
  BY <1>1, <1>2, <1>3, <1>7, <1>8, OutcomeListed
<1>10. QED
  BY <1>4, <1>6, <1>9 DEF StoreChainInv

LEMMA FinishTxListed ==
  ASSUME StoreChainInv, NEW w \in Workers, FinishTx(w) \/ ReleaseCache(w)
  PROVE  StoreChainInv'
<1>1. StoreInv' /\ StoreTypeOK
  BY FinishTxInv DEF StoreChainInv, StoreInv
<1>2. /\ UNCHANGED <<chain, last, wfg, txByCid, waiting, held, fault, sid, cid, locked>>
      /\ ~IsWaiting(cid[w]) \/ pc[w] = "finishing"
      /\ \/ pc' = [pc EXCEPT ![w] = "finishing"]
         \/ pc' = [pc EXCEPT ![w] = "released"] /\ locked[w] = << >>
  BY DEF FinishTx, ReleaseCache, vars, lockVars
<1>3. /\ \A v \in Workers : v # w => pc'[v] = pc[v]
      /\ pc'[w] = "finishing" \/ locked[w] = << >>
  BY <1>1, <1>2 DEF StoreTypeOK
<1>4. ChainInv'
  BY <1>1, <1>2, NoChangeSleep DEF StoreChainInv, StoreInv, ChainInv, SleepInv
<1>5. SleepersRun'
  BY <1>2, <1>3 DEF StoreChainInv, SleepersRun, IsWaiting
<1>6. locked[w] = << >> => Range(locked[w]) = {}
  BY DEF Range
<1>7. HeldListed'
  BY <1>2, <1>3, <1>6 DEF StoreChainInv, HeldListed
<1>8. QED
  BY <1>1, <1>4, <1>5, <1>7 DEF StoreChainInv

LEMMA RangeTail ==
  ASSUME NEW S, NEW s \in Seq(S), s # << >>, NEW e \in Range(s), e # Head(s)
  PROVE  e \in Range(Tail(s))
<1>1. PICK i \in 1 .. Len(s) : s[i] = e
  BY DEF Range
<1>2. i # 1
  BY <1>1
<1>3. /\ i - 1 \in 1 .. Len(Tail(s))
      /\ Tail(s)[i - 1] = s[i]
  BY <1>1, <1>2
<1>4. DOMAIN Tail(s) = 1 .. Len(Tail(s))
  OBVIOUS
<1>5. QED
  BY <1>1, <1>3, <1>4 DEF Range

\* lock_unlock() takes an object off the list only together with its lock.
LEMMA UnlockNextListed ==
  ASSUME StoreChainInv, NEW w \in Workers, UnlockNext(w)
  PROVE  StoreChainInv'
<1> DEFINE l == Head(locked[w])
<1>1. StoreInv' /\ StoreTypeOK /\ LockInv /\ TypeOK /\ CidsDistinct /\ ChainInv
  BY UnlockNextInv DEF StoreChainInv, StoreInv, LockInv
<1>2. /\ pc[w] = "finishing" /\ locked[w] # << >>
      /\ LockUnlock(cid[w], l)
      /\ locked' = [locked EXCEPT ![w] = Tail(locked[w])]
      /\ UNCHANGED <<sid, pc, cid>>
  BY DEF UnlockNext
<1>3. l \in Locks /\ locked[w] \in Seq(Locks) /\ cid[w] \in Cid
  BY <1>1, <1>2 DEF StoreTypeOK
<1>4. \A e \in Range(locked[w]) : e # l => e \in Range(Tail(locked[w]))
  BY <1>2, <1>3, RangeTail
<1> HIDE DEF l
<1>5. ChainInv'
  BY <1>1, <1>2, <1>3, LockUnlockChain DEF TypeOK
<1>6. UNCHANGED waiting
  BY <1>2 DEF LockUnlock, UnlockNotHeld, UnlockHeld, lockVars
<1>7. /\ \A v \in Workers : v # w => locked'[v] = locked[v]
      /\ locked'[w] = Tail(locked[w])
  BY <1>1, <1>2 DEF StoreTypeOK
<1>8. SleepersRun'
  BY <1>2, <1>6, <1>7 DEF StoreChainInv, SleepersRun
<1>9. /\ held'[cid[w]][l] = "none"
      /\ \A c \in Cid, y \in Locks : held'[c][y] # "none" => held[c][y] # "none"
  <2>1. CASE UnlockNotHeld(cid[w], l)
    <3>1. UNCHANGED held /\ (chain[l] = << >> \/ cid[w] \notin First(l).entries)
      BY <2>1 DEF UnlockNotHeld, lockVars
    <3>2. held[cid[w]][l] = "none"
      BY <1>1, <1>3, <3>1 DEF LockInv, HolderInFirstGroup
    <3>3. QED
      BY <3>1, <3>2
  <2>2. CASE UnlockHeld(cid[w], l)
    <3>1. held' = [held EXCEPT ![cid[w]][l] = "none"]
      BY <2>2 DEF UnlockHeld
    <3>2. QED
      BY <1>1, <1>3, <3>1 DEF TypeOK
  <2>3. QED
    BY <1>2, <2>1, <2>2 DEF LockUnlock
<1>10. HeldListed'
  <2> SUFFICES ASSUME NEW c \in Cid, NEW y \in Locks, held'[c][y] # "none"
               PROVE  \E v \in Workers : /\ cid[v] = c
                                         /\ pc[v] \in {"running", "refused", "finishing"}
                                         /\ y \in Range(locked'[v])
    BY <1>2 DEF HeldListed
  <2>1. PICK v \in Workers : /\ cid[v] = c
                             /\ pc[v] \in {"running", "refused", "finishing"}
                             /\ y \in Range(locked[v])
    BY <1>9 DEF StoreChainInv, HeldListed
  <2>2. CASE v # w
    BY <1>7, <2>1, <2>2
  <2>3. CASE v = w
    <3>1. y # l
      BY <1>9, <2>1, <2>3
    <3>2. QED
      BY <1>4, <1>7, <2>1, <2>3, <3>1
  <2>4. QED
    BY <2>2, <2>3
<1>11. QED
  BY <1>1, <1>5, <1>8, <1>10 DEF StoreChainInv

LEMMA FreeTxListed ==
  ASSUME StoreChainInv, NEW w \in Workers, FreeTx(w)
  PROVE  StoreChainInv'
<1>1. StoreInv' /\ StoreTypeOK
  BY FreeTxInv DEF StoreChainInv, StoreInv
<1>2. /\ pc[w] = "released"
      /\ pc' = [pc EXCEPT ![w] = "idle"]
      /\ UNCHANGED <<chain, waiting, held, cid, locked>>
  BY DEF FreeTx
<1>3. \A v \in Workers : v # w => pc'[v] = pc[v]
  BY <1>1, <1>2 DEF StoreTypeOK
<1>4. ChainInv'
  BY <1>1, <1>2, NoChangeSleep DEF StoreChainInv, StoreInv, ChainInv, SleepInv
<1>5. SleepersRun' /\ HeldListed'
  BY <1>2, <1>3 DEF StoreChainInv, SleepersRun, HeldListed
<1>6. QED
  BY <1>1, <1>4, <1>5 DEF StoreChainInv

LEMMA StoreChainInit ==
  ASSUME StoreInit, StoreInv
  PROVE  StoreChainInv
<1>1. ChainInv
  BY LockInitChain DEF StoreInit, StoreInv, LockInv, TypeOK
<1>2. waiting = {} /\ \A c \in Cid, l \in Locks : held[c][l] = "none"
  BY DEF StoreInit, LockInit
<1>3. QED
  BY <1>1, <1>2 DEF StoreChainInv, SleepersRun, HeldListed

LEMMA StoreChainNext ==
  ASSUME StoreChainInv, StoreInv', [StoreNext]_allVars
  PROVE  StoreChainInv'
<1>1. CASE UNCHANGED allVars
  <2>1. UNCHANGED <<chain, waiting, held, pc, cid, locked>>
    BY <1>1 DEF allVars, vars, lockVars, storeVars
  <2>2. ChainInv'
    BY <2>1, NoChangeSleep DEF StoreChainInv, StoreInv, ChainInv, SleepInv
  <2>3. SleepersRun' /\ HeldListed'
    BY <2>1 DEF StoreChainInv, SleepersRun, HeldListed
  <2>4. QED
    BY <2>2, <2>3 DEF StoreChainInv
<1>2. ASSUME NEW w \in Workers, StartTx(w)
      PROVE  StoreChainInv'
  BY <1>2, StartTxListed
<1>3. ASSUME NEW w \in Workers, NEW l \in Locks,
             GetObject(w, l) \/ SetGlobal(w, l) \/ MakeObject(w, l)
      PROVE  StoreChainInv'
  BY <1>3, MethodListed
<1>4. ASSUME NEW w \in Workers, Resume(w)
      PROVE  StoreChainInv'
  BY <1>4, ResumeListed
<1>5. ASSUME NEW w \in Workers, FinishTx(w) \/ ReleaseCache(w)
      PROVE  StoreChainInv'
  BY <1>5, FinishTxListed
<1>6. ASSUME NEW w \in Workers, UnlockNext(w)
      PROVE  StoreChainInv'
  BY <1>6, UnlockNextListed
<1>7. ASSUME NEW w \in Workers, FreeTx(w)
      PROVE  StoreChainInv'
  BY <1>7, FreeTxListed
<1>8. QED
  BY <1>1, <1>2, <1>3, <1>4, <1>5, <1>6, <1>7 DEF StoreNext

\* Whoever is in a group sleeps or has been told, and both are at work.
LEMMA StoreChainInvImpliesNothingLeft ==
  ASSUME StoreChainInv
  PROVE  NothingLeftBehind
<1>1. SUFFICES ASSUME NEW c \in Cid, Owners(c) = {}
               PROVE  /\ ~IsWaiting(c)
                      /\ \A l \in Locks :
                           /\ held[c][l] = "none"
                           /\ \A k \in DOMAIN chain[l] : c \notin chain[l][k].entries
  BY DEF NothingLeftBehind
<1>2. \A v \in Workers : cid[v] = c => pc[v] \notin {"running", "refused", "finishing"}
  BY <1>1 DEF Owners
<1>3. ~IsWaiting(c)
  BY <1>2 DEF StoreChainInv, SleepersRun, IsWaiting
<1>4. ASSUME NEW l \in Locks
      PROVE  held[c][l] = "none"
  BY <1>2 DEF StoreChainInv, HeldListed
<1>5. ASSUME NEW l \in Locks, NEW k \in DOMAIN chain[l], c \in chain[l][k].entries
      PROVE  FALSE
  <2>1. CASE k > 1
    BY <1>3, <1>5, <2>1 DEF StoreChainInv, ChainInv, GroupsHaveSleepers, IsWaiting
  <2>2. k \in Nat /\ k >= 1 /\ chain[l] # << >>
    BY DEF StoreChainInv, StoreInv, LockInv, TypeOK
  <2>3. CASE k = 1
    BY <1>3, <1>4, <1>5, <2>2, <2>3
       DEF StoreChainInv, ChainInv, HoldersTold, First, IsWaiting
  <2>4. QED
    BY <2>1, <2>2, <2>3
<1>6. QED
  BY <1>3, <1>4, <1>5

-----------------------------------------------------------------------------
(* Two workers.                                                            *)

LEMMA StorePairNext ==
  ASSUME MaxTasks = 2, StoreChainInv, StoreChainInv', PairInv, [StoreNext]_allVars
  PROVE  PairInv'
<1>1. ChainInv /\ ChainInv' /\ \A w \in Workers : cid[w] \in Cid
  BY DEF StoreChainInv, StoreInv, StoreTypeOK
<1>2. CASE UNCHANGED <<chain, waiting, wfg>>
  BY <1>2, NoChangePair
<1>3. ASSUME NEW w \in Workers,
             StartTx(w) \/ FinishTx(w) \/ ReleaseCache(w) \/ FreeTx(w)
      PROVE  PairInv'
  BY <1>2, <1>3 DEF StartTx, FinishTx, ReleaseCache, FreeTx, vars, lockVars
<1>4. ASSUME NEW w \in Workers, NEW l \in Locks,
             GetObject(w, l) \/ SetGlobal(w, l) \/ MakeObject(w, l)
      PROVE  PairInv'
  <2>1. PICK m \in Modes : LockLock(cid[w], l, m)
    <3>1. CASE GetObject(w, l)
      BY <3>1 DEF GetObject, Modes
    <3>2. CASE SetGlobal(w, l)
      BY <3>2 DEF SetGlobal, Modes
    <3>3. CASE MakeObject(w, l)
      BY <3>3 DEF MakeObject, Active, Up, LockLock, Modes
    <3>4. QED
      BY <1>4, <3>1, <3>2, <3>3
  <2>2. QED
    BY <1>1, <2>1, LockLockPair
<1>5. ASSUME NEW w \in Workers, Resume(w)
      PROVE  PairInv'
  <2>1. LockWake(cid[w])
    BY <1>5 DEF Resume, LockWake
  <2>2. QED
    BY <1>1, <2>1, LockWakePair
<1>6. ASSUME NEW w \in Workers, UnlockNext(w)
      PROVE  PairInv'
  <2>1. locked[w] \in Seq(Locks) /\ locked[w] # << >>
    BY <1>6 DEF UnlockNext, StoreChainInv, StoreInv, StoreTypeOK
  <2>2. PICK l \in Locks : l = Head(locked[w])
    BY <2>1
  <2>3. LockUnlock(cid[w], l)
    BY <1>6, <2>2 DEF UnlockNext
  <2>4. QED
    BY <1>1, <2>3, LockUnlockPair
<1>7. CASE UNCHANGED allVars
  BY <1>2, <1>7 DEF allVars, vars, lockVars
<1>8. QED
  BY <1>3, <1>4, <1>5, <1>6, <1>7 DEF StoreNext

-----------------------------------------------------------------------------
(* The lock under the store.                                               *)

LEMMA StoreNextIsLockStep ==
  ASSUME StoreChainInv, [StoreNext]_allVars
  PROVE  LockStep
<1>1. \A w \in Workers : cid[w] \in Cid /\ locked[w] \in Seq(Locks)
  BY DEF StoreChainInv, StoreInv, StoreTypeOK
<1>2. CASE UNCHANGED <<chain, waiting, held>>
  BY <1>2 DEF LockStep
<1>3. ASSUME NEW w \in Workers,
             StartTx(w) \/ FinishTx(w) \/ ReleaseCache(w) \/ FreeTx(w)
      PROVE  LockStep
  BY <1>2, <1>3 DEF StartTx, FinishTx, ReleaseCache, FreeTx, vars, lockVars
<1>4. ASSUME NEW w \in Workers, NEW l \in Locks,
             GetObject(w, l) \/ SetGlobal(w, l) \/ MakeObject(w, l)
      PROVE  LockStep
  <2>1. PICK m \in Modes : LockLock(cid[w], l, m)
    <3>1. CASE GetObject(w, l)
      BY <3>1 DEF GetObject, Modes
    <3>2. CASE SetGlobal(w, l)
      BY <3>2 DEF SetGlobal, Modes
    <3>3. CASE MakeObject(w, l)
      BY <3>3 DEF MakeObject, Active, Up, LockLock, Modes
    <3>4. QED
      BY <1>4, <3>1, <3>2, <3>3
  <2>2. QED
    BY <1>1, <2>1 DEF LockStep
<1>5. ASSUME NEW w \in Workers, Resume(w)
      PROVE  LockStep
  BY <1>1, <1>5 DEF Resume, LockWake, LockStep
<1>6. ASSUME NEW w \in Workers, UnlockNext(w)
      PROVE  LockStep
  <2>1. locked[w] # << >>
    BY <1>6 DEF UnlockNext
  <2>2. PICK l \in Locks : l = Head(locked[w])
    BY <1>1, <2>1
  <2>3. LockUnlock(cid[w], l)
    BY <1>6, <2>2 DEF UnlockNext
  <2>4. QED
    BY <1>1, <2>3 DEF LockStep
<1>7. CASE UNCHANGED allVars
  BY <1>2, <1>7 DEF allVars, vars, lockVars
<1>8. QED
  BY <1>3, <1>4, <1>5, <1>6, <1>7 DEF StoreNext

-----------------------------------------------------------------------------
(* The theorems.                                                           *)

\* The inductive invariant of the store, and with it its type invariant.
THEOREM StoreInvariant == StoreSpec => []StoreInv
<1>1. StoreInit => StoreInv
  <2> SUFFICES ASSUME StoreInit
               PROVE  StoreInv
    OBVIOUS
  <2>1. sid \in [Cid -> Nat] /\ LockInit
    BY DEF StoreInit
  <2>2. LockInv
    BY <2>1, LockInitInv
  <2>3. 0 \in Cid
    BY MaxTasksAssumption DEF Cid
  <2>4. StoreTypeOK
    <3>1. /\ TypeOK
          /\ pc = [w \in Workers |-> "idle"]
          /\ cid = [w \in Workers |-> 0]
          /\ locked = [w \in Workers |-> << >>]
          /\ cidUsed = {}
          /\ sidSeq = 0
          /\ made = {}
          /\ cacheLatch = {}
          /\ version = [l \in Locks |-> 0]
          /\ seen = [w \in Workers |-> [l \in Locks |-> 0]]
          /\ aborted = FALSE
      BY <2>2 DEF StoreInit, LockInv
    <3>2. sidSeq \in 0 .. MaxSid
      BY <3>1, StoreAssumption
    <3>3. locked \in [Workers -> Seq(Locks)]
      BY <3>1
    <3>4. version \in [Locks -> 0 .. 1] /\ seen \in [Workers -> [Locks -> 0 .. 1]]
      BY <3>1
    <3>5. /\ pc \in [Workers -> {"idle", "running", "refused", "finishing", "released"}]
          /\ cid \in [Workers -> Cid]
          /\ aborted \in BOOLEAN
      BY <2>3, <3>1
    <3>6. QED
      BY <3>1, <3>2, <3>3, <3>4, <3>5 DEF StoreTypeOK
  <2>5. CidsDistinct /\ NothingLocked /\ LockedHeld /\ ReadsStable
    BY DEF StoreInit, CidsDistinct, NothingLocked, LockedHeld, ReadsStable
  <2>6. QED
    BY <2>2, <2>4, <2>5 DEF StoreInv
<1>2. StoreInv /\ [StoreNext]_allVars => StoreInv'
  <2> SUFFICES ASSUME StoreInv, [StoreNext]_allVars
               PROVE  StoreInv'
    OBVIOUS
  <2>1. CASE UNCHANGED allVars
    <3>1. StoreTypeOK /\ LockInv /\ TypeOK
      BY DEF StoreInv, LockInv
    <3>2. LockInv'
      BY <2>1, <3>1, NoChangeInv DEF allVars, vars, lockVars, TypeOK
    <3>3. StoreTypeOK'
      BY <2>1, <3>1, <3>2 DEF allVars, storeVars, StoreTypeOK, LockInv
    <3>4. CidsDistinct' /\ NothingLocked' /\ LockedHeld' /\ ReadsStable'
      BY <2>1 DEF allVars, vars, lockVars, storeVars, StoreInv, CidsDistinct,
                  NothingLocked, LockedHeld, ReadsStable
    <3>5. QED
      BY <3>2, <3>3, <3>4 DEF StoreInv
  <2>2. ASSUME NEW w \in Workers, StartTx(w)
        PROVE  StoreInv'
    BY <2>2, StartTxInv
  <2>3. ASSUME NEW w \in Workers, NEW l \in Locks,
               GetObject(w, l) \/ SetGlobal(w, l) \/ MakeObject(w, l)
        PROVE  StoreInv'
    BY <2>3, MethodInv
  <2>4. ASSUME NEW w \in Workers, Resume(w)
        PROVE  StoreInv'
    BY <2>4, ResumeInv
  <2>5. ASSUME NEW w \in Workers, FinishTx(w) \/ ReleaseCache(w)
        PROVE  StoreInv'
    BY <2>5, FinishTxInv
  <2>6. ASSUME NEW w \in Workers, UnlockNext(w)
        PROVE  StoreInv'
    BY <2>6, UnlockNextInv
  <2>7. ASSUME NEW w \in Workers, FreeTx(w)
        PROVE  StoreInv'
    BY <2>7, FreeTxInv
  <2>8. QED
    BY <2>1, <2>2, <2>3, <2>4, <2>5, <2>6, <2>7 DEF StoreNext
<1>3. QED
  BY <1>1, <1>2, PTL DEF StoreSpec

\* Every variable of the store keeps its type; in particular no step takes a
\* cid that the tables of the lock have no entry for.
THEOREM StoreTypeCorrect == StoreSpec => []StoreTypeOK
<1>1. StoreInv => StoreTypeOK
  BY DEF StoreInv
<1>2. QED
  BY <1>1, StoreInvariant, PTL

\* An exclusive holder has the lock for itself, although transactions end,
\* are retried, and others come under their cids.
THEOREM StoreExclusion == StoreSpec => []Exclusion
<1>1. StoreInv => Exclusion
  BY LockInvImpliesExclusion DEF StoreInv
<1>2. QED
  BY <1>1, StoreInvariant, PTL

\* store_start_tx() and store_finish_tx() never let two running transactions
\* share a cid, however many workers start and finish them.
THEOREM StoreCids == StoreSpec => []CidsDistinct
<1>1. StoreInv => CidsDistinct
  BY DEF StoreInv
<1>2. QED
  BY <1>1, StoreInvariant, PTL

\* What a transaction has read of an object stays as it was until the
\* transaction gives its locks up: no write of another comes in between,
\* through any upgrade, refusal, retry and reuse of a cid.
THEOREM StoreReadsStable == StoreSpec => []ReadsStable
<1>1. StoreInv => ReadsStable
  BY DEF StoreInv
<1>2. QED
  BY <1>1, StoreInvariant, PTL

\* Together with who sleeps and who holds what, as an invariant.
THEOREM StoreChainInvariant == StoreSpec => []StoreChainInv
<1>1. StoreInit /\ StoreInv => StoreChainInv
  BY StoreChainInit
<1>2. StoreChainInv /\ StoreInv' /\ [StoreNext]_allVars => StoreChainInv'
  BY StoreChainNext
<1>3. QED
  BY <1>1, <1>2, StoreInvariant, PTL DEF StoreSpec

\* store_finish_tx() leaves nothing of a transaction in the locks: after
\* refused upgrades, objects got twice and sleeps on other transactions, its
\* cid and its memory can be used again.
THEOREM StoreNothingLeftBehind == StoreSpec => []NothingLeftBehind
<1>1. StoreChainInv => NothingLeftBehind
  BY StoreChainInvImpliesNothingLeft
<1>2. QED
  BY <1>1, StoreChainInvariant, PTL

\* With two cids every sleep of a transaction of the store is known to the
\* wait-for-graph, although cids are used again and edges are never taken out.
THEOREM StorePairInvariant ==
  ASSUME MaxTasks = 2
  PROVE  StoreSpec => []PairInv
<1>1. StoreInit => PairInv
  BY DEF StoreInit, LockInit, PairInv, WaitersQueued, EdgesEntered, PairsMarked
<1>2. StoreChainInv /\ StoreChainInv' /\ PairInv /\ [StoreNext]_allVars => PairInv'
  BY StorePairNext
<1>3. QED
  BY <1>1, <1>2, StoreChainInvariant, PTL DEF StoreSpec

\* "deadlock-detecting" (lock.h:4) holds for two workers, with any number of
\* objects, transactions and retries: two transactions that wait for each other
\* do not both sleep on unmarked.
THEOREM StoreTwoDetected ==
  ASSUME MaxTasks = 2
  PROVE  StoreSpec => []NoSilentDeadlock
<1>1. StoreChainInv /\ PairInv => NoSilentDeadlock
  BY PairInvImpliesDetected DEF StoreChainInv
<1>2. QED
  BY <1>1, StoreChainInvariant, StorePairInvariant, PTL

\* What the lock alone keeps about upgrades and exclusive holds it keeps
\* under the store's calls.
THEOREM StoreFairInvariant == StoreSpec => []FairInv
<1>1. StoreInit => FairInv
  BY LockInitFair DEF StoreInit
<1>2. StoreChainInv /\ StoreChainInv' /\ FairInv /\ [StoreNext]_allVars => FairInv'
  BY StoreNextIsLockStep, LockStepFair DEF StoreChainInv
<1>3. QED
  BY <1>1, <1>2, StoreChainInvariant, PTL DEF StoreSpec

\* No transaction of the store is left asleep with nobody ahead of it,
\* although transactions give up, are retried and end in any order.
THEOREM StoreNoLostWakeup == StoreSpec => []NoLostWakeup
<1>1. StoreChainInv /\ FairInv => NoLostWakeup
  BY FairImpliesNoLostWakeup DEF StoreChainInv
<1>2. QED
  BY <1>1, StoreChainInvariant, StoreFairInvariant, PTL

\* Seen through its locks, every execution of the store is one of fair
\* read/write locks: cids that are used again take nothing over from the
\* transactions that had them before.
THEOREM StoreImplementsFairLock == StoreSpec => ImplementsFairLock
<1>1. StoreInit => Fair!FairInit
  BY LockInitFairInit DEF StoreInit
<1>2. StoreChainInv /\ StoreChainInv' /\ FairInv /\ [StoreNext]_allVars
        => [Fair!FairNext]_Fair!fairVars
  BY StoreNextIsLockStep, LockStepFairNext DEF StoreChainInv
<1>3. QED
  BY <1>1, <1>2, StoreChainInvariant, StoreFairInvariant, PTL
     DEF StoreSpec, ImplementsFairLock, Fair!FairSpec

=============================================================================
